SPECIFICATION Spec
CONSTANTS
  d1 = d1
  d2 = d2
  r1 = r1
  r2 = r2
  s1 = s1
  s2 = s2
  t1 = t1
  Nobody = Nobody
  Requests <- AllRequests
  WaveSize = 2
  Sessions = {s1, s2}
  Clocks = {t1}
  Rides = {r1, r2}
  Drivers = {d1, d2}
  MaxOverlaps = 0
  MaxFaults = 0
SYMMETRY MatchingSymmetry
INVARIANTS
  NothingLeftBehind
  OneActiveRidePerDriver
CHECK_DEADLOCK FALSE
