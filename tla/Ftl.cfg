CONSTANTS
  PagesPerBlock = 2
  LogicalBlocks = 2
  OpBlocks = 2
SPECIFICATION Spec
INVARIANTS
  MappingIsConsistent
  ErasedSpaceIsEmpty
  NeverPanics
  VictimHasInvalidPage
PROPERTIES
  CollectionKeepsData
  WriteReturns
