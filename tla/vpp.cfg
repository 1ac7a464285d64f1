CONSTANTS
  Starters = {s1, s2}
  None = None
SPECIFICATION Spec
INVARIANTS OneCollection AbortedLeavesNoHalf RunningIsUndisturbed
