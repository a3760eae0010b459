SPECIFICATION FairSpec
CONSTANTS
  u1 = u1
  r1 = r1
  w1 = w1
  None = None
  Users = {u1}
  Requests = {r1}
  Workers = {w1}
  Standings = {"offline", "suspended"}
  MaxChanges = 2
  MaxFaults = 1
INVARIANTS
  SyncedIsShown
PROPERTIES
  NeverGoesBack
  ComesToShow
