CONSTANTS
  Docs <- MCDocs
  Score <- MCScore
  Size <- MCSize
  BatchSize <- MCBatchSize
  INVALID = INVALID
SPECIFICATION Spec
INVARIANTS
  TypeOK
  MinMatchDocSound
  TopKRetained
  FlushedIsTopK
  OwnershipExact
  SlabBound
PROPERTY
  ImplementsTopKCollector
CHECK_DEADLOCK FALSE
