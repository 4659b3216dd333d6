SPECIFICATION Spec
CONSTANTS
  Node = {n1, n2}
  Client = {c1, c2}
  Operators = {c1}
  NoClient = nil
  Amounts = {1}
  Prices = {1, 2}
  DefaultMax = 2
  MaxAttempts = 2
  MaxCalls = 2
INVARIANT
  PaymentIsForItsNode
  ChargedForAnswers
  AskedCostIsWithinMaximum
