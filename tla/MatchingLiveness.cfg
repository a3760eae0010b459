SPECIFICATION FairSpec
CONSTANTS
  d1 = d1
  d2 = d2
  r1 = r1
  r2 = r2
  s1 = s1
  s2 = s2
  t1 = t1
  Nobody = Nobody
  Requests <- AllRequests
  WaveSize = 2
  Sessions = {s1, s2}
  Clocks = {t1}
  Rides = {r1}
  Drivers = {d1, d2}
  MaxOverlaps = 1
  MaxFaults = 1
PROPERTIES
  RequestedIsAnswered
  NotAskedAgain
CHECK_DEADLOCK FALSE
