SPECIFICATION Spec
CONSTANTS
  r1 = r1
  Requests <- OneRequest
  BodyLens = {1}
  ResponseLen <- ThreeChunks
  MaxStreams = 2
  MaxLocal = 1
  MaxOthers = 0
  ResMark = 1
  MaxDest = 1
  Faults <- NoFaults
INVARIANTS BodyDelivered
CHECK_DEADLOCK FALSE
