SPECIFICATION Spec
CONSTANTS
  p1 = p1
  p2 = p2
  Nobody = Nobody
  s1 = s1
  s2 = s2
  Sessions = {s1, s2}
  Supplements = {p1, p2}
  Requests <- AllRequests
  MaxAttempts = 2
  MaxWaits = 2
  MaxFare = 4
  MaxOverlaps = 0
SYMMETRY RideSymmetry
INVARIANTS
  
  StepIsRecorded
  StartedWithCode
PROPERTIES
  StateMachine
  DecisionIsFinal
  TotalCountsDecisions
