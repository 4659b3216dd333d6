SPECIFICATION FlowSpec
CONSTANTS
  Kinds = {"FileAppend"}
  Lengths = {4}
  ChunkSizes = {2}
  MaxChunks = 4
  Regenerate = {TRUE}
  MaxThrottles = 1
  MaxExecutions = 1
  MaxIDs = 6
  FlowKinds = {}
  FirstPart = 2
  JumboLimit = 3
  MaxRuns = 2
INVARIANT
  ThrottlingIsHandled
