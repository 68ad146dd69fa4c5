CONSTANTS
  Txns = {t1, t2, t3}
  RIDs = {r1, r2}
  DirectExclusive = FALSE
  LoopOutcomes = {"next"}
SPECIFICATION FairTxnSpec
INVARIANTS
  GrantedCompatible
  HeldLocksGranted
  UpgradeFlagExact
  NoLostWakeup
  EndedHoldsNothing
PROPERTIES
  TwoPhase
  OutcomeFinal
  TransactionsEnd
CHECK_DEADLOCK FALSE
