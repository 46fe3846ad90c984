SPECIFICATION FairSpec
CONSTANTS
  a = a
  b = b
  Hosts = {a, b}
  Active = {a, b}
  Data <- NoData
  Closers = {a, b}
  Shutters = {a}
  SynRetries = 2
  DataRetries = 1
  MaxForks = 1
  Capacity = 2
CHECK_DEADLOCK FALSE
PROPERTIES HandshakeEnds
