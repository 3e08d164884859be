SPECIFICATION EndpointsSpec
CONSTANTS
  Peers = {p1, p2, p3}
  max_connections = 2
  SESSION_DEPTH = 1
  PENDING_SESSIONS = 1
  MaxMessages = 4
  Buffer = 1
  Queue = 2
  MaxSent = 3
  MaxRegisters = 2
  Processes = {r1, r2}
  MaxRuns = 3
  Connections = {c1, c2}
  MaxCells = 3
  MaxAccepted = 2
  MtuBuffer = 2
  Mtus = {1, 2, 3}
  Ethernet = 2
  PacketInfo = 1
  MaxPackets = 1
INVARIANTS
  HeardAsSent
  RecoversAlone
  TerminalsHold
  FilesKeep
  MadeAsAsked
PROPERTIES
  SessionsHold
CHECK_DEADLOCK FALSE
