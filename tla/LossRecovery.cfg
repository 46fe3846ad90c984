SPECIFICATION FairSpec
CONSTANTS
  Total = 5
  ReTxThresh = 2
  MaxCWnd = 3
  MaxLosses = 1
  MaxEarly = 1
  Ecn = FALSE
INVARIANTS TypeOK AssertionsHold
PROPERTIES OneRecoveryPerWindow ImplementsStream
CHECK_DEADLOCK FALSE
