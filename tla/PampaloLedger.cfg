SPECIFICATION LedgerSpec
CONSTANTS
  Users = {u1, u2}
  NoAddress = NoAddress
  Assets = {eth, usdc}
  Amounts = {1}
  Funds = 2
  Prices = {3}
  PriceScale = 2
  Caps = {}
  DefaultCap = 2
  Waits = {}
  DefaultWait = 1
  MinShieldWaitTime = 1
  MonthLength = 1
  EpochSize = 2
  Circuits = {"transfer", "withdraw", "transferExternal", "swap"}
  Fills = {0, 1, 2}
  MaxTime = 1
  MaxShields = 2
  MaxSpends = 2
  MaxOutputs = 2
  MaxExits = 2
SYMMETRY LedgerSymmetry
INVARIANTS Conservation LandedOnce
PROPERTIES OnlyTheSpenderPays ImplementsLifecycle SurplusOnlyGrows ExitsAreCharged
CHECK_DEADLOCK FALSE
