SPECIFICATION Spec
CONSTANTS
  s1 = s1
  s2 = s2
  Streams <- TwoStreams
  Closing <- OneStream
  High = 1
  Low = 0
  MaxDest = 1
  Mark = 1
  MaxChunks <- ThreeAndOne
INVARIANTS TypeOK InOrder WsBounded PausedForReason NotLeftPaused PauseLifted
CHECK_DEADLOCK FALSE
