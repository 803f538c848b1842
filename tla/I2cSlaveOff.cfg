SPECIFICATION FairSpec
CONSTANTS
  Slots = 1
  NumBytes = 2
  MaxBytes = 3
  MaxMsg = 2
CHECK_DEADLOCK FALSE
PROPERTY SlaveComesBack
