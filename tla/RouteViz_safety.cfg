SPECIFICATION Spec
CONSTANTS
  Car = car
  Loaders = {l1, l2}
  Climates = {0, 3}
  Routes <- MCRoutes
  Steps <- MCSteps
  Null = Null
  MaxLoads = 2
CHECK_DEADLOCK FALSE
INVARIANTS
  TypeOK
  FailuresExplained
  ShownIsCurrent
  DrawSafe
