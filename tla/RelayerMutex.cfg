SPECIFICATION Spec
CONSTANTS
  r1 = r1
  r2 = r2
  PoolSize = 1
  Relays = {r1, r2}
  InitialFunds = 4
  Floor = 2
  EstCost = 2
  ZombieLock = 1
  Mishaps = {"die", "rpc", "lostReply"}
  MaxMishaps = 2
INVARIANTS
  MutexAsClaimed
CHECK_DEADLOCK FALSE
