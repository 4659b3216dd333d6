SPECIFICATION FairSpec
CONSTANTS
  single = single
  pair = pair
  other = other
  Message = {single, pair, other}
  Total <- Chunks
  Response <- Responses
  MaxAttempts = 2
  Recovers = {TRUE, FALSE}
  MaxResponses = 5
  MaxFailures = 2
INVARIANT
  EndIsReportedOnce
  LeftOnlyByUnsubscribe
  MessagesAreComplete
  MessagesArriveInOrder
PROPERTY
  SubscriptionEnds
