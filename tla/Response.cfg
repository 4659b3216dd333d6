SPECIFICATION FairSpec
CONSTANTS
  Handle = {h1, h2}
  First = h1
  MaxRetries = 3
  MaxCalls = 3
  MaxIDs = 4
INVARIANT
  SuccessIsNamed
  
PROPERTY
  CallReturns
