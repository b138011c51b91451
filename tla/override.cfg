CONSTANTS
  JoyTimeout = 1
  TailTime = 2
  MuxTimeout = 1
  JoyDepth = 2
  Given = TRUE
  MaxLate = 1
SPECIFICATION Spec
INVARIANTS OperatorMeansMotion NavKeptOff SlotReleased
PROPERTIES RearmNeedsRest HeldKeepsVehicle
CHECK_DEADLOCK FALSE
