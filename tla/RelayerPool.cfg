SPECIFICATION FairSpec
CONSTANTS
  r1 = r1
  r2 = r2
  PoolSize = 2
  Relays = {r1, r2}
  InitialFunds = 4
  Floor = 2
  EstCost = 2
  ZombieLock = 1
  Mishaps = {"die", "rpc", "lostReply"}
  MaxMishaps = 2
INVARIANTS
  TypeOK
  NeverCollide
  NonceStaysFresh
PROPERTIES
  AccountsComeBack
  BalancesSettle
CHECK_DEADLOCK FALSE
