SPECIFICATION FairSpec
CONSTANTS
  Attempts = 2
  MaxBreaks = 2
PROPERTIES
  ChunksAreRead
CHECK_DEADLOCK FALSE
