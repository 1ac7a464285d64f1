CONSTANTS
  Engines = {"mysql", "postgres"}
  Configs <- SsdOnly
  MaxUsers = 2
  MaxInvocations = 2
  None = None
SPECIFICATION Spec
INVARIANTS EveryRunFromInitial
