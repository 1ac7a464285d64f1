SPECIFICATION Spec
CONSTANTS
  NumThreads = 1
  Jobs = {"strided"}
  Ops = {0}
  AccessLines = 1
  Count = 2
  StrideChunk = 1
  SizeChunk = 2
  Unroll = 2
  Passes = 2
  RegionLines = 5
INVARIANTS
  ReportIsTimedVolume
