SPECIFICATION FairSpec
CONSTANTS
  h1 = h1
  h2 = h2
  a1 = a1
  a2 = a2
  Nil = Nil
  Host = {h1, h2}
  AccountID = {a1, a2}
  NodeObj = {o1, o2}
  Networks <- OneNode
  Durations = {2}
  MinDefault = 1
  MaxDefault = 4
  MaxBad = 3
  MaxCalls = 3
INVARIANT
  WaitIsBounded
PROPERTY
  Readmission
