SPECIFICATION BusySpec
CONSTANTS
  Pipe = 1
  Keep = 2
  Depth = 1
PROPERTIES
  DownstreamEndIsEnd
CHECK_DEADLOCK FALSE
