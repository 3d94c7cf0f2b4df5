SPECIFICATION FairSpec
CONSTANTS
  s1 = s1
  s2 = s2
  Streams <- TwoStreams
  Closing <- NoStream
  High = 1
  Low = 0
  MaxDest = 1
  Mark = 2
  MaxChunks <- TwoEach
PROPERTY ResumesAfterDrain
CHECK_DEADLOCK FALSE
