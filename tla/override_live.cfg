CONSTANTS
  JoyTimeout = 2
  TailTime = 2
  MuxTimeout = 1
  JoyDepth = 1
  Given = FALSE
  MaxLate = 1
SPECIFICATION FairSpec
PROPERTIES OperatorGetsVehicle
CHECK_DEADLOCK FALSE
