SPECIFICATION Spec
CONSTANTS
  h1 = h1
  h2 = h2
  a1 = a1
  a2 = a2
  Nil = Nil
  Host = {h1, h2}
  AccountID = {a1, a2}
  NodeObj = {o1, o2, o3, o4}
  Networks <- MCNetworks
  Durations = {1}
  MinDefault = 1
  MaxDefault = 2
  MaxBad = 1
  MaxCalls = 3
INVARIANTS
  UnlistedHasReadmitTime
  AccountLookupIsCurrent
  NodesAreAppliedNetwork
  ListedIsOutOfBackoff

  
SYMMETRY Symmetry
