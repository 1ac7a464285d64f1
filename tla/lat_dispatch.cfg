CONSTANTS
  Random = FALSE
  OpsCount = 1
  Tables <- TableOfTheProgram
  Asked <- AllAsked
  LocLines <- NoChar
  MaskLines = 1
  Workset = 4
  Durations = {1}
SPECIFICATION Spec
INVARIANTS OpIsTheOneAskedFor

