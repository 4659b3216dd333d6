SPECIFICATION FlowSpec
CONSTANTS
  Kinds = {"FileAppend", "TopicMessageSubmit"}
  Lengths <- UpToSeven
  ChunkSizes <- UpToThree
  MaxChunks = 4
  Regenerate = {TRUE, FALSE}
  MaxThrottles = 2
  MaxExecutions = 2
  MaxIDs = 6
  FlowKinds = {"ContractCreate", "Ethereum", "TokenReject"}
  FirstPart = 2
  JumboLimit = 3
  MaxRuns = 2
INVARIANT
  
  
  NothingTwice
  
  FinalFollowsFirst
