SPECIFICATION Spec
CONSTANTS
  NumThreads = 2
  Jobs = {"strided", "size"}
  Ops = {0, 1, 2}
  AccessLines = 1
  Count = 2
  StrideChunk = 1
  SizeChunk = 2
  Unroll = 2
  Passes = 1
  RegionLines = 6
INVARIANTS
  TypeOK
  WorkersApart
  FencedPassIsDurable
  EndCoversTheWorksets
  NoWriteForgotten
  EndIsDurable
PROPERTIES
  QuietAfterEnd
  MeasurementEnds
  ImplementsPromise
