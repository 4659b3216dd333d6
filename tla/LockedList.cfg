SPECIFICATION FairSpec
CONSTANTS
  Nil = Nil
  h1 = h1
  h2 = h2
  h3 = h3
  n1 = n1
  n2 = n2
  n3 = n3
  n4 = n4
  r1 = r1
  r2 = r2
  u1 = u1
  u2 = u2
  Host = {h1, h2, h3}
  NodeObj = {n1, n2, n3, n4}
  HostOf <- FourObjects
  Scenarios <- AllScenarios
  Books <- TwoBooks
  Request = {r1, r2}
  Updater = {u1, u2}
INVARIANTS
  NoEntryLostOrDuplicated
PROPERTIES
  ImplementsHealthyList
  
