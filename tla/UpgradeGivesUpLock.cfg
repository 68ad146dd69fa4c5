CONSTANTS
  Txns = {t1, t2, t3}
  RIDs = {r1, r2}
  DirectExclusive = FALSE
SPECIFICATION LockSpec
INVARIANT SetsExclude
SYMMETRY LockSymmetry
CHECK_DEADLOCK FALSE
