SPECIFICATION Spec
CONSTANTS
  s1 = s1
  s2 = s2
  q1 = q1
  q2 = q2
  None = None
  Sessions = {s1, s2}
  Quotes = {q1, q2}
  QuoteEnd = 2
  Balance = 2
  MaxAttempts = 2
  Lifetime = 2
  Retry = 1
  MaxTime = 2
  MaxCodes = 2
  MaxRequests = 5
  MaxTogether = 5
CHECK_DEADLOCK FALSE
SYMMETRY Symmetry
INVARIANTS
  OneWithdrawalPerCode
  ConsumedMeansReserved
  LinkVerifiesOnce
PROPERTY TokenMeansVerified
