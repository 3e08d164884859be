SPECIFICATION FairSpec
CONSTANTS
  Clients = {c1, c2, c3}
  max_connections = 2
  Restarts = TRUE
  Attempts = 2
  MaxRuns = 2
  MaxChunks = 2
INVARIANTS
  ResourcesInv
  OkMeansDone
PROPERTIES
  KnockersAreTaken
  SignalDrains
CHECK_DEADLOCK FALSE
