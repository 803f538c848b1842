SPECIFICATION Spec
CONSTANTS
  t1 = t1
  t2 = t2
  Task <- Tasks
  NumDevices = 2
  Selectable <- Selectables
  MinTimeout = 2
  MaxTimeout = 3
  LoadTimeouts <- Loads
  Wrap = 5
PROPERTY NoWayOut
CHECK_DEADLOCK FALSE
