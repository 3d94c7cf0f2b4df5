SPECIFICATION FairSpec
CONSTANTS
  r1 = r1
  Requests <- OneRequest
  BodyLens = {0, 1}
  ResponseLen <- ThreeChunks
  MaxStreams = 1
  MaxLocal = 1
  MaxOthers = 1
  ResMark = 1
  MaxDest = 1
  Faults <- AllFaults
INVARIANTS TypeOK Orderly WholeIsWhole ResponseBounded ClientLearns ServerLearns PauseLifted
PROPERTIES Answered
CHECK_DEADLOCK FALSE
