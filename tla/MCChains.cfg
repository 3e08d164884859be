SPECIFICATION MCSpec
CONSTANTS
  Delimiters <- MCDelimiters
  Widths = {1, 2}
  Block = 2
  Digits = 2
  MaxMessage = 2
  MaxLen = 3
  MaxTotal = 3
  MaxNoise = 3
  CipherBlock = 2
  Nonce = 2
  Pool = 5
  Budgets = {0, 1, 2, 3, 4}
  MaxSent = 4
  MaxRecords = 2
  MaxBytes = 5
  N = 3
  Words = 6
  MaxStages = 3
  Directions = {"both", "source-to-sink"}
INVARIANTS
  FramedAsSent
  ChunkingIsInvisible
  DecryptedAsSent
  RecordsStandAlone
  DecodedAsCoded
  BuiltAsDeclared
  ScanIsExact
  UnitsArePassedOn
PROPERTIES
  Implements
CHECK_DEADLOCK FALSE
