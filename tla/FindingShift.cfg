SPECIFICATION FairSpec
CONSTANTS
  Packets = 3
  TxBuffer = 2
  Buffer = 2
  SegSize = 1
  Shift = 1
  MaxCWnd = 2
  MaxLosses = 1
  MaxEarly = 1
PROPERTIES ImplementsStream
CHECK_DEADLOCK FALSE
