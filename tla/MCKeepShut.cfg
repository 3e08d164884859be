SPECIFICATION FairSpec
CONSTANTS
  Attempts = 2
  MaxBreaks = 2
PROPERTIES
  EndIsHeard
CHECK_DEADLOCK FALSE
