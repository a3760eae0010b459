SPECIFICATION Spec
CONSTANTS
  s1 = s1
  s2 = s2
  p1 = p1
  p2 = p2
  d1 = d1
  d2 = d2
  v1 = v1
  u1 = u1
  registration = registration
  None = None
  Sessions = {s1, s2}
  Partners = {p1, p2}
  Drivers = {d1, d2}
  Vehicles = {v1}
  Users = {u1}
  Papers = {registration}
  MaxRequests = 4
  MaxTogether = 3
CHECK_DEADLOCK FALSE
SYMMETRY Symmetry
INVARIANTS
  OneActive
  AssignmentOwnsVehicle
