SPECIFICATION Spec
CONSTANTS
  Users = {u1}
  NoAddress = NoAddress
  Assets = {eth}
  Amounts = {1, 2}
  Funds = 3
  Prices = {1}
  PriceScale = 1
  Caps = {}
  DefaultCap = 2
  Waits = {}
  DefaultWait = 1
  MinShieldWaitTime = 1
  MonthLength = 1
  EpochSize = 2
  Circuits = {"transfer", "withdraw", "transferExternal"}
  Fills = {}
  MaxTime = 3
  MaxShields = 2
  MaxSpends = 0
  MaxOutputs = 1
  MaxExits = 1
INVARIANT NoFreeTopUp
CHECK_DEADLOCK FALSE
