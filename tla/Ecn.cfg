SPECIFICATION Spec
CONSTANTS
  a = a
  b = b
  Hosts = {a, b}
  Data <- MCData
  MaxMarks = 1
  MaxRtos = 1
  Capacity = 2
INVARIANTS TypeOK CwrMeansReduced
PROPERTIES OncePerWindow
CHECK_DEADLOCK FALSE
