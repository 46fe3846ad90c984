SPECIFICATION FairSpec
CONSTANTS
  Packets = 2
  TxBuffer = 4
  Buffer = 3
  SegSize = 2
  Shift = 0
  MaxCWnd = 2
  MaxLosses = 0
  MaxEarly = 0
PROPERTIES ImplementsStream
CHECK_DEADLOCK FALSE
