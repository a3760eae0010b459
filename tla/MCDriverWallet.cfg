SPECIFICATION Spec
CONSTANTS
  d1 = d1
  Sweeper = sweeper
  Drivers = {d1}
  Nobody = Nobody
  Owner <- MCOwner
  Amount <- MCAmount
  Sessions = {s1, s2}
  Topups = {t1}
  CashRides = {c1}
  Quotes = {q1}
  MaxFaults = 1
  Opening <- OpeningZero
SYMMETRY SessionSymmetry
INVARIANTS
  WithdrawalLedger
  PaidIsPosted
  PayoutNeedsReservation
  ReleasedIsNotPaidOut
PROPERTIES
  FinalWithdrawalStays
  ReservationIsCovered
