SPECIFICATION Spec
CONSTANTS
  Nobody = Nobody
  Sessions = {s1, s2}
  Sweepers = {s2}
  Rows = {x1, x2}
  MaxIntents = 2
  MaxOverlaps = 2
SYMMETRY RowSymmetry
INVARIANTS
  OneAttemptAtATime
  LedgerFollowsMoney
PROPERTIES
  OnlyFailedIsReplaced
