SPECIFICATION Spec
CONSTANTS
  NumThreads = 2
  RegionSizes = {4, 8}
  Descriptors = {0, 3}
  PageBlocks = 1
  SpanBlocks = 2
  Count = 3
  RwBlocks = 2
  Passes = 1
INVARIANTS
  FigureMeansDurable
  NoLossGoesUnheard
  FigureOfTheKernelAsked
  FigureCoversTheParts
PROPERTIES
  MeasurementEnds
  KeepsPromise
