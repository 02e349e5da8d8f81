SPECIFICATION Spec
INVARIANTS
  
  UnmaskInvertsMask
CHECK_DEADLOCK FALSE
