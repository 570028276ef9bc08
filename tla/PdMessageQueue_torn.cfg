SPECIFICATION Spec
CONSTANTS
  Threads = {audio, main}
  Main = main
  NoThread = NoThread
  Capacity = 4
  Kinds <- PdKinds
  MaxMsgs = 3
CHECK_DEADLOCK FALSE
INVARIANTS
  DeliveredIntact
