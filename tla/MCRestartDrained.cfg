SPECIFICATION Spec
CONSTANTS
  Restarts = TRUE
  Attempts = 2
  MaxRuns = 2
PROPERTIES
  NoReopenOnceDrained
CHECK_DEADLOCK FALSE
