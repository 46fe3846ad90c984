SPECIFICATION Spec
CONSTANTS
  Total = 5
  ReTxThresh = 2
  MaxCWnd = 3
  MaxLosses = 1
  MaxEarly = 1
  Ecn = TRUE
INVARIANT AssertionsHold
CHECK_DEADLOCK FALSE
