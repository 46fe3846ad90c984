\* A SYN+ACK that comes again sets window and threshold back.
SPECIFICATION Spec
CONSTANTS
  SegmentSize = 2
  Modulus = 64
  InitialCwnd = 2
  InitialSsThresh = 7
  Alpha = 1
  Beta = 1
  Gamma = 1
  VCountMax = 1
  Rtts <- SomeRtts
  TimeMax = 4
  Seqs <- SomeSeqs
  RecoveryWindows <- SomeWindows
  MaxAcked = 1
  MaxWindow = 7
  MaxCount = 2
  Ecn = TRUE
PROPERTY RepeatedSynIgnored
CHECK_DEADLOCK FALSE
