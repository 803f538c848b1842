SPECIFICATION FairSpec
CONSTANTS
  t1 = t1
  t2 = t2
  Task <- Tasks
  NumDevices = 2
  Selectable <- Selectables
  MinTimeout = 2
  MaxTimeout = 3
  LoadTimeouts <- Loads
  Wrap = 5
INVARIANT TypeOK
INVARIANT RunsUnlessAsked
INVARIANT NoEarlyReset
PROPERTY AbandonedResets
CHECK_DEADLOCK FALSE
