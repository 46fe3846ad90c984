SPECIFICATION FairSpec
CONSTANTS
  a = a
  b = b
  Hosts = {a, b}
  Active = {a}
  Data <- OneWay
  Closers = {a, b}
  Shutters = {b}
  SynRetries = 2
  DataRetries = 1
  MaxForks = 2
  Capacity = 1
CHECK_DEADLOCK FALSE
PROPERTIES DataEnds LastAckEnds
