SPECIFICATION Spec
CONSTANTS
  a = a
  b = b
  Node = {a, b}
  Request = {t, q}
  Transactions = {t}
  Regenerating = {t}
  NodeLists <- Both
  MaxNodesPerTransaction = 2
  MaxCalls = 1
  MaxAttempts = 2
  MinBackoff = 1
  MaxBackoff = 1
  RequestTimeout = 2
  GrpcDeadline = 1
  NodeBackoff = 2
PROPERTY
  ImplementsSubmission
