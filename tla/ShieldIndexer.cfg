SPECIFICATION FairSpec
CONSTANTS
  p1 = p1
  p2 = p2
  usdc = usdc
  Passes = {p1, p2}
  Assets = {usdc}
  ConfirmationDepth = 1
  ColdStartTrail = 1
  MaxBlocksPerCall = 1
  Calls = {"shield", "executeShield", "contestShield",
           "transfer", "unshield", "privateSwap", "disableSupportedAsset"}
  Mishaps = {"abort", "fail", "reorg"}
  MaxMishaps = 1
  MaxBlocks = 3
INVARIANTS
  TypeOK
  LossIsContained
  RowsOnChain
  AlertedOnce
PROPERTIES
  ConfirmedIsIndexed
CHECK_DEADLOCK FALSE
