SPECIFICATION DbSpec
CONSTANTS
  Tables = {"r", "s"}
  TableSchema <- MCSchema
  Seeds <- MCSeeds
  IndexNames = {"i", "j"}
  KeyAttrs <- MCKeyAttrs
  DropLists <- MCDropLists
  WriteStatements <- MCWrites
  Selects <- MCSelects
  JoinPredicates <- MCJoinPredicates
  GroupLists <- MCGroupLists
  Aggregates <- MCAggregates
  MaxSlots = 4
  MaxStatements = 3
  MaxIndexes = 2
INVARIANTS
  CatalogConsistent
  WritesExact
  StaleIndexSound
  SelectExact
  OptimizedJoinSame
  GroupsExact
CHECK_DEADLOCK FALSE
