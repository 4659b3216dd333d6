SPECIFICATION FairSpec
CONSTANTS
  a = a
  b = b
  Node = {a, b}
  Request = {t}
  Transactions = {t}
  Regenerating = {}
  NodeLists <- Both
  MaxNodesPerTransaction = 2
  MaxCalls = 2
  MaxAttempts = 4
  MinBackoff = 1
  MaxBackoff = 2
  RequestTimeout = 5
  GrpcDeadline = 2
  NodeBackoff = 2
INVARIANT
  ExecutedAtMostOnce
  
PROPERTY
  FailedNodeIsNotRetriedNext
  
