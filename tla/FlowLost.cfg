SPECIFICATION Spec
CONSTANTS
  s1 = s1
  s2 = s2
  Streams <- OneStream
  Closing <- OneStream
  High = 2
  Low = 1
  MaxDest = 3
  Mark = 1
  MaxChunks <- ThreeAlone
INVARIANT Intact
CHECK_DEADLOCK FALSE
