SPECIFICATION FairSpec
CONSTANTS
  N = 2
  LINK_DEPTH = 1
  Hold = 1
  MaxChunks = 2
INVARIANTS
  IInv
  DeliveredInOrder
  NothingOwedIsLost
  AtMostOneAfterSignal
PROPERTIES
  KeepsPromise
  EndsComeThrough
CHECK_DEADLOCK FALSE
