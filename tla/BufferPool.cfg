CONSTANTS
  PoolSize = 2
  K = 2
  MaxTime = 5
  MaxPages = 3
  Contents = {zero, a}
  Zero = zero
  Absent = absent
  Holders = {h1, h2}
  MarkNewDirty = TRUE
SPECIFICATION Spec
INVARIANTS
  PoolConsistent
  PinsRespected
  CleanIsDurable
  
  HistoriesOrdered
  ScanFindsVictim
PROPERTIES
  ImplementsPageStore
SYMMETRY HolderSymmetry
