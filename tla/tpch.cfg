CONSTANTS
  Engines = {"mysql", "postgres"}
  Configs = {"ssd", "pmemasdisk", "pmemforindex", "other"}
  MaxQueries = 2
  ViewQuery = 1
  Chunks = 1
  MaxInvocations = 3
  None = None
SPECIFICATION Spec
INVARIANTS ServerOnData FilesTellTheTruth NoViewLeft
PROPERTIES BuiltIsKept PutAsideIsFinished CallsEnd
