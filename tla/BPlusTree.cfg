SPECIFICATION TreeSpec
CONSTANTS
  Keys = {1, 2, 3, 4, 5, 6}
  Pages = {0, 1, 2, 3, 4, 5, 6, 7, 8, 9}
  LeafMax = 2
  InternalMax = 3
INVARIANT SearchExact
INVARIANT ChainExact
INVARIANT LinksExact
INVARIANT Balanced
PROPERTY CallsEnd
CHECK_DEADLOCK FALSE
