SPECIFICATION FairSpec
CONSTANTS
  d1 = d1
  d2 = d2
  Devices = {d1, d2}
  MaxEdits = 3
  MaxMishaps = 1
INVARIANTS
  TypeOK
  BaselineIsServers
PROPERTIES
  UnpushedSettingsStay
  DevicesAgree
CHECK_DEADLOCK FALSE
