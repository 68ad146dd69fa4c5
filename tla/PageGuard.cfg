CONSTANTS
  PoolSize = 2
  K = 1
  MaxTime = 3
  MaxPages = 3
  Contents = {zero, a}
  Zero = zero
  t1 = t1
  t2 = t2
  Holders <- MCGuards
  MarkNewDirty = TRUE
SPECIFICATION GuardSpec
INVARIANTS
  LatchesExact
  GuardsArePins
  FrameShowsPage
PROPERTIES
  ReadersSeeNoChange
  LatchesGranted
CHECK_DEADLOCK FALSE
