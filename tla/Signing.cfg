SPECIFICATION Spec
CONSTANTS
  Node = {a, b}
  Key = {op, k}
  Operator = op
  Memo = {m1, m2}
  BatchNode = zero
  Usages <- SoundUsages
  LateChanges = FALSE
  ClientDefault = TRUE
  MaxAccounts = 2
INVARIANT
  
  
  SignaturesAreAsAsked
  BatchedIsNotSentAlone
PROPERTY
  LockedIDIsKept
