CONSTANTS
  Connections = {c1, c2}
  Students = {alice, bob}
  Addrs = {home, campus}
  None = None
  Overlapping = TRUE
SPECIFICATION FairSpec
PROPERTIES LoginAnswered ClosedIsCleanedUp
CHECK_DEADLOCK FALSE
