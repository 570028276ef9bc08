SPECIFICATION Spec
CONSTANTS
  MaxStarts = 2
CHECK_DEADLOCK FALSE
INVARIANTS
  StopMeansStopped
