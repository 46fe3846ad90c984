CONSTANTS
  Connections = {c1, c2}
  Students = {alice, bob}
  Addrs = {home, campus}
  None = None
  Overlapping = FALSE
SPECIFICATION Spec
\* TLC stops at the first it finds violated: keep one line.
INVARIANT SingleAddress
INVARIANT OnlineAreInList
CHECK_DEADLOCK FALSE
