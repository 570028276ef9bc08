SPECIFICATION Spec
CONSTANTS
  MaxStarts = 2
CHECK_DEADLOCK FALSE
INVARIANTS
  TypeOK
  BufferExclusive
  StopSilencesUnlessCut
  ReleasedQuiet
  FillsWhileRecording
PROPERTIES
  CallsReturn
