SPECIFICATION Spec
CONSTANTS
  d1 = d1
  Sweeper = sweeper
  Drivers = {d1}
  Nobody = Nobody
  Owner <- MCOwner
  Amount <- MCAmount
  Sessions = {s1, s2}
  Topups = {t1}
  CashRides = {c1}
  Quotes = {}
  MaxFaults = 0
  Opening <- OpeningZero
INVARIANTS
  BalanceIsLedgerSum
