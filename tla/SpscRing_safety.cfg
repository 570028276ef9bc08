SPECIFICATION Spec
CONSTANTS
  Size = 4
  MaxBytes = 10
INVARIANTS
  TypeOK
  NoSharedSlot
  ReadsInOrder
PROPERTIES
  RefinesFifo
