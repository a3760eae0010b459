SPECIFICATION FairSpec
CONSTANTS
  d1 = d1
  Sweeper = sweeper
  Drivers = {d1}
  Nobody = Nobody
  Owner <- MCOwner
  Amount <- MCAmount
  Sessions = {s1}
  Topups = {t1}
  CashRides = {}
  Quotes = {q1}
  MaxFaults = 1
  Opening <- OpeningThree
PROPERTIES
  PaidTopupIsCredited
  KnownPayoutIsSettled
