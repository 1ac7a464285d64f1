CONSTANTS
  CSize = 4
  MaxRetry = 2
  Sizes = {1, 3, 4, 6}
  Skip = 5
  Count = 2
SPECIFICATION WSpec
INVARIANTS SimplePath SingleCycle NoStrayPointer LoadsRetraceStores FullWalkMeetsEveryLine
PROPERTIES WalksEnd
