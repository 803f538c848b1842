SPECIFICATION Spec
CONSTANTS
  Slots = 1
  NumBytes = 2
  MaxBytes = 3
  MaxMsg = 4
CHECK_DEADLOCK FALSE
INVARIANT TypeOK
INVARIANT MessagesWhole
