SPECIFICATION Spec
CONSTANTS
  a = a
  b = b
  Hosts = {a, b}
  Active = {a}
  Data <- OneWay
  Closers = {}
  Shutters = {a}
  SynRetries = 1
  DataRetries = 1
  MaxForks = 1
  Capacity = 1
CHECK_DEADLOCK FALSE
INVARIANTS FinGoes
