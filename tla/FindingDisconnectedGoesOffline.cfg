CONSTANTS
  Connections = {c1, c2}
  Students = {alice, bob}
  Addrs = {home, campus}
  None = None
  Overlapping = FALSE
SPECIFICATION FairSpec
PROPERTY DisconnectedGoesOffline
CHECK_DEADLOCK FALSE
