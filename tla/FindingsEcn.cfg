SPECIFICATION Spec
CONSTANTS
  a = a
  b = b
  Hosts = {a, b}
  Data <- MCData
  MaxMarks = 2
  MaxRtos = 1
  Capacity = 2
\* TLC stops at the first it finds violated: keep one line.
PROPERTY OnceEvenAfterTimeout
PROPERTY EchoEndsByCwr
CHECK_DEADLOCK FALSE
