SPECIFICATION Spec
CONSTANTS
  a = a
  b = b
  Hosts = {a, b}
  Active = {a, b}
  Data <- NoData
  Closers = {a, b}
  Shutters = {}
  SynRetries = 1
  DataRetries = 1
  MaxForks = 1
  Capacity = 1
CHECK_DEADLOCK FALSE
INVARIANTS FinWait2AckIsOfFin
