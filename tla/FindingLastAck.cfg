SPECIFICATION Spec
CONSTANTS
  a = a
  b = b
  Hosts = {a, b}
  Active = {a}
  Data <- BothWays
  Closers = {a, b}
  Shutters = {}
  SynRetries = 1
  DataRetries = 1
  MaxForks = 1
  Capacity = 2
CHECK_DEADLOCK FALSE
PROPERTIES LastAckIsOfFin
