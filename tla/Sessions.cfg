CONSTANTS
  Connections = {c1, c2, c3}
  Students = {alice, bob}
  Addrs = {home, campus}
  None = None
  Overlapping = FALSE
SYMMETRY Symmetry
SPECIFICATION Spec
INVARIANTS TypeOK RegisteredWasGranted NoStaleStream SoloSessionRegistered
CHECK_DEADLOCK FALSE
