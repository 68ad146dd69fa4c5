CONSTANTS
  Txns = {t1, t2}
  RIDs = {r1, r2}
  DirectExclusive = FALSE
  LoopOutcomes = {"next", "stop", "crash"}
SPECIFICATION TxnSpec
INVARIANT EndedHoldsNothing
SYMMETRY TxnSymmetry
CHECK_DEADLOCK FALSE
