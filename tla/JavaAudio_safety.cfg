SPECIFICATION Spec
CONSTANTS
  Clients = {main, other}
  Main = main
  NONE = NONE
  MaxStarts = 2
  Params = {p1, p2}
  MaxPosted = 1
CHECK_DEADLOCK FALSE
INVARIANTS
  TypeOK
  OneRenderer
  BufferFits
PROPERTIES
  CallsReturn
CONSTRAINT
  UntilInner
