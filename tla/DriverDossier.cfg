SPECIFICATION Spec
CONSTANTS
  s1 = s1
  s2 = s2
  v1 = v1
  v2 = v2
  k1 = k1
  licence = licence
  registration = registration
  authorization = authorization
  None = None
  Sessions = {s1, s2}
  Vehicles = {v1, v2}
  Docs = {licence, registration, authorization}
  Papers <- MCPapers
  Required <- MCRequired
  Keys = {k1}
  MaxRequests = 5
  MaxTogether = 3
  MaxFaults = 1
CHECK_DEADLOCK FALSE
SYMMETRY Symmetry
INVARIANTS
  ActiveIsReviewed
  RejectionNamesDocument
  ReconcilerAgrees
  ToldWhoIsCleared
  OncePerKey
