CONSTANTS
  Starters = {s1}
  None = None
SPECIFICATION Spec
INVARIANTS NothingLeftRunning
