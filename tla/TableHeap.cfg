CONSTANTS
  PageSize = 5
  HeaderSize = 1
  SlotSize = 1
  Data = {a, b}
  NoData = nodata
  MaxHeapPages = 3
  MaxWrites = 5
  Sizes = {1, 2, 4}
SPECIFICATION HeapSpec
INVARIANTS
  RowsReadBack
  ScanComplete
  ScanOnce
PROPERTY OverrunOnlyByUpdate
SYMMETRY DataSymmetry
