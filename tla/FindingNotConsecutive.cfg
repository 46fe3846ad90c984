\* The counter of RTT increases survives a decrease.
SPECIFICATION Spec
CONSTANTS
  SegmentSize = 2
  Modulus = 64
  InitialCwnd = 2
  InitialSsThresh = 63
  Alpha = 1
  Beta = 1
  Gamma = 1
  VCountMax = 1
  Rtts <- SomeRtts
  TimeMax = 4
  Seqs <- SomeSeqs
  RecoveryWindows <- SomeWindows
  MaxAcked = 2
  MaxWindow = 9
  MaxCount = 2
  Ecn = FALSE
PROPERTIES CountsConsecutive
CHECK_DEADLOCK FALSE
