CONSTANTS
  Docs <- MCDocs
  NLayers = 2
  LayerDocs <- MCLayerDocs
  Quota <- MCQuota
  FilterRejects <- MCFilterRejects
  Score <- MCScore
  Size = 2
  CheckStep = 2
  JoinMissing <- MCJoinMissing
  JoinKeyBuiltin = TRUE
SPECIFICATION Spec
INVARIANTS
  InitFailureReported
CHECK_DEADLOCK FALSE
