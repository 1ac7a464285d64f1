CONSTANTS
  Engines = {"mysql", "postgres"}
  Configs <- AllConfigs
  MaxUsers = 2
  MaxInvocations = 3
  None = None
SPECIFICATION Spec
INVARIANTS ServerKeepsItsFiles  LaterFilesAreTheirOwn
PROPERTIES PristineKept BenchmarkEnds
