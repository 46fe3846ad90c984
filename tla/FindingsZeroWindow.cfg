SPECIFICATION Spec
CONSTANTS
  Packets = 3
  TxBuffer = 2
  Buffer = 2
  SegSize = 1
  Shift = 0
  MaxCWnd = 2
  MaxLosses = 1
  MaxEarly = 1
\* TLC stops at the first it finds violated: keep one line.
INVARIANT ProbeHasData
INVARIANT SentIsWritten
CHECK_DEADLOCK FALSE
