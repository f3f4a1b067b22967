SPECIFICATION SerialSpec
CONSTANTS
  p1 = p1
  Passes = {p1}
  Calls = {"executeShield"}
  Mishaps = {}
  MaxMishaps = 0
  MaxNotes = 1
  MaxBlocks = 2
INVARIANTS LandedIsShown
CHECK_DEADLOCK FALSE
