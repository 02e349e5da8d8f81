CONSTANTS
  Kinds = {"agg", "dist", "syntax"}
  MaxObjs = 3
SPECIFICATION Spec
INVARIANT
  SuccessHoldsThisParse
CHECK_DEADLOCK FALSE
