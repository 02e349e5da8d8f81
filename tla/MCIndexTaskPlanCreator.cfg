CONSTANTS
  TabletOptions <- MCTabletOptions
  Registered <- MCRegistered
  Designates <- MCDesignates
  MaxTime = 1
  MaxLogs = 1
SPECIFICATION Spec
INVARIANTS
  TypeOK
  PlanMatchesReference
