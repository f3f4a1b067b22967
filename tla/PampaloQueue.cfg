SPECIFICATION FairSpec
CONSTANTS
  Users = {u1}
  NoAddress = NoAddress
  Assets = {eth}
  Amounts = {1}
  Funds = 2
  Prices = {0, 1, 2}
  PriceScale = 1
  Caps = {2}
  DefaultCap = 3
  Waits = {0, 2}
  DefaultWait = 1
  MinShieldWaitTime = 1
  MonthLength = 1
  EpochSize = 2
  Circuits = {"transfer", "withdraw", "transferExternal"}
  Fills = {}
  MaxTime = 2
  MaxShields = 2
  MaxSpends = 0
  MaxOutputs = 1
  MaxExits = 1
INVARIANTS TypeOK BudgetNotOvercounted BudgetViewAgrees MonthsAreCalendarMonths
PROPERTIES ContestWindow EscrowResolved
CHECK_DEADLOCK FALSE
