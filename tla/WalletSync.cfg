SPECIFICATION FairSpec
CONSTANTS
  s1 = s1
  r1 = r1
  r2 = r2
  Own = {s1}
  Received = {r1, r2}
  Casts = {{s1}, {r1, r2}}
  Mishaps = {"reload", "overlap", "wipe", "delist", "drop", "tie"}
  MaxMishaps = 2
  MaxUnsettled = 1
INVARIANTS
  TypeOK
  HydratedBehindCursor
  SpendableHasLanded
PROPERTIES
  StepsForward
  WalletConverges
CHECK_DEADLOCK FALSE
