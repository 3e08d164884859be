SPECIFICATION StagesSpec
CONSTANTS
  Flush = 4
  Size = 3
  Step = 3
  Limit = 3
  Caps = {0, 3}
  Speeds = {0, 2}
  Bursts = {0, 3}
  Period = 1
  MaxChunk = 3
  MaxTime = 4
  Paths = {p1, p2}
  Files = {"dump"}
  MaxRecords = 2
  MaxSinks = 2
  Abandons = FALSE
  Budgets = {0, 2}
  Costs = {1, 2, 3}
  Arena = 1
SYMMETRY Alike
INVARIANTS
  MetersAreExact
  ReportsAreWhole
  GuestsAreHeard
PROPERTIES
  OnSchedule
CHECK_DEADLOCK FALSE
