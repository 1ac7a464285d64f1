SPECIFICATION Spec
CONSTANTS
  NumThreads = 2
  RegionSizes = {8}
  Descriptors = {0, 3}
  PageBlocks = 1
  SpanBlocks = 2
  Count = 3
  RwBlocks = 2
  Passes = 1
INVARIANTS
  EachThreadWritesItsPart
