CONSTANTS
  CaptureTimeout = 1
  CameraDepth = 2
  MaxTriggers = 3
  Deaf = FALSE
SPECIFICATION CameraFair
INVARIANTS CameraKilled
CHECK_DEADLOCK FALSE
