SPECIFICATION Spec
CONSTANTS
  a1 = a1
  a2 = a2
  Addresses = {a1, a2}
  Batch = 1
  Waits = {2}
  Window = 2
  Passes = {cron, demand}
  cron = cron
  demand = demand
  MaxShields = 2
  MaxEvents = 3
  MaxMishaps = 1
  MaxAge = 2
SYMMETRY Symmetry
INVARIANTS
  TypeOK
  FlaggedNeverLands
  MirrorAtCursor
CHECK_DEADLOCK FALSE
