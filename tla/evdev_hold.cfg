\* These hold on this source too: INVARIANTS NavKeptOff SlotReleased
CONSTANTS
  JoyTimeout = 2
  TailTime = 2
  MuxTimeout = 1
  JoyDepth = 1
  Given = FALSE
  MaxLate = 1
  MaxEvents = 1
SPECIFICATION EvSpec
PROPERTIES HeldKeepsVehicle
CHECK_DEADLOCK FALSE
