SPECIFICATION FairSpec
CONSTANTS
  Packets = 3
  TxBuffer = 2
  Buffer = 2
  SegSize = 1
  Shift = 0
  MaxCWnd = 2
  MaxLosses = 2
  MaxEarly = 1
INVARIANTS TypeOK NeverOutOfWindow
PROPERTIES ImplementsStream
CHECK_DEADLOCK FALSE
