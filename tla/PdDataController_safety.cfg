SPECIFICATION ControllerSpec
CONSTANTS
  StepSize = 2
  Loaders = {l1, l2}
  Routes <- MCRoutes
  Advances = {1, 3}
  NONE = NONE
  MaxDistance = 8
CHECK_DEADLOCK FALSE
INVARIANTS
  ControllerTypeOK
  LoadsUnlessLastShort
  ConsumptionsOfRoute
  ThrowsExplained
  StepsFollowDistance
