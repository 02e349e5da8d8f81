CONSTANTS
  Docs <- MCDocs
  NExprs = 1
  SortAsc <- MCSortAscOne
  ExprScore <- MCExprScoreOne
  HasRef <- MCHasRefOne
  FloatMax = 1000
  FloatMinPositive = 1
  MaxExpect = 3
  MantissaBits = 2
  INVALID = INVALID
SPECIFICATION Spec
INVARIANT
  NoFloorKeepsAll
