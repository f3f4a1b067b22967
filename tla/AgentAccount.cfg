SPECIFICATION FairSpec
CONSTANTS
  p1 = p1
  Passes = {p1}
  Calls = {"executeShield", "contestShield", "receive", "foreign"}
  Mishaps = {"abort", "kill", "drop"}
  MaxMishaps = 2
  MaxNotes = 2
  MaxBlocks = 3
INVARIANTS SpendableProves QuietBalance
PROPERTIES BurntLeavesBalance
CHECK_DEADLOCK FALSE
