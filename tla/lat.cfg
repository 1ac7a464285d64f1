CONSTANTS
  Random = TRUE
  OpsCount = 2
  Tables <- AllTables
  Asked <- AllAsked
  LocLines <- SignedCharLines
  MaskLines = 2
  Workset = 6
  Durations = {1}
SPECIFICATION Spec
INVARIANTS AccessStaysInWorkset TimedAccessesAreCold OnlyOwnWorkIsTimed TimedWritesAreDurable
PROPERTIES LatencyEnds
