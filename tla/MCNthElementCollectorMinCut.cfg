CONSTANTS
  Docs <- MCDocs
  Score <- MCScore
  Size <- MCSize
  BatchSize <- MCBatchSize
  INVALID = INVALID
SPECIFICATION Spec
INVARIANT
  MinMatchDocOnlyWhenFull
CHECK_DEADLOCK FALSE
