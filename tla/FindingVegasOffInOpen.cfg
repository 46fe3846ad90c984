\* After a congestion echo during recovery Vegas stays off.
SPECIFICATION Spec
CONSTANTS
  SegmentSize = 2
  Modulus = 64
  InitialCwnd = 2
  InitialSsThresh = 63
  Alpha = 1
  Beta = 1
  Gamma = 1
  VCountMax = 1
  Rtts <- SomeRtts
  TimeMax = 4
  Seqs <- SomeSeqs
  RecoveryWindows <- SomeWindows
  MaxAcked = 2
  MaxWindow = 9
  MaxCount = 2
  Ecn = TRUE
INVARIANTS VegasWhenOpen
CHECK_DEADLOCK FALSE
