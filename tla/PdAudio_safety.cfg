SPECIFICATION Spec
CONSTANTS
  MaxPosted = 2
INVARIANTS
  TypeOK
  PolledWhileRunning
  OnePoller
  FlushedAfterStop
PROPERTIES
  EventuallyRead
