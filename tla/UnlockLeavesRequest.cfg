CONSTANTS
  Txns = {t1, t2, t3}
  RIDs = {r1, r2}
  DirectExclusive = TRUE
SPECIFICATION LockSpec
INVARIANT NoRequestLeft
SYMMETRY LockSymmetry
CHECK_DEADLOCK FALSE
