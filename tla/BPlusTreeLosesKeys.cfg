SPECIFICATION TreeSpec
CONSTANTS
  Keys = {1, 2, 3, 4, 5, 6}
  Pages = {0, 1, 2, 3, 4, 5, 6, 7, 8, 9}
  LeafMax = 2
  InternalMax = 3
INVARIANT SearchFindsStored
CHECK_DEADLOCK FALSE
