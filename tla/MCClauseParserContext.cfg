CONSTANTS
  Kinds = {"agg", "dist", "syntax"}
  MaxObjs = 3
SPECIFICATION Spec
INVARIANTS
  TypeOK
  OwnershipExact
CHECK_DEADLOCK FALSE
