SPECIFICATION LayeringSpec
CONSTANTS
  MaxLayers = 3
  Limits = {0, 1, 2}
  Deadlines = {0, 1}
  MaxAttempts = 3
  MaxWait = 2
  MaxPlain = 2
  Rekeys = {0, 2}
  Pieces = 3
  MaxWritten = 3
  Names = {"a", "b"}
  MaxRead = 1
  V4 = 1
  V6 = 2
  PortBytes = 1
  MaxName = 1
  MAX_HEADER = 4
  MaxTarget = 2
  Room = 2
  Buffer = 1
  MaxFrames = 2
INVARIANTS
  OpensAsAsked
  ReadAsWritten
  PeerIsAsNamed
  StartsAtTarget
  MessagesAreWhole
CHECK_DEADLOCK FALSE
