SPECIFICATION StreamsSpec
CONSTANTS
  Pipe = 2
  Keep = 2
  Depth = 1
  Attempts = 2
  MaxBreaks = 2
INVARIANTS
  ProcessInv
  FuturesInv
PROPERTIES
  EofOnlyFromPeer
  ChunksAreReadByOneTask
  DialsConclude
  InputEndsIt
CHECK_DEADLOCK FALSE
