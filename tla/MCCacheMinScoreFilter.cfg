CONSTANTS
  Docs <- MCDocs
  NExprs = 2
  SortAsc <- MCSortAscTwo
  ExprScore <- MCExprScoreTwo
  HasRef <- MCHasRefTwo
  FloatMax = 1000
  FloatMinPositive = 2
  MaxExpect = 3
  MantissaBits = 2
  INVALID = INVALID
SPECIFICATION Spec
INVARIANTS
  TypeOK
  FilterConservation
  NoUnderDelivery
  FloorKeepsCut
  KeepsBestExpected
