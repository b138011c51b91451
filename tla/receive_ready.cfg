CONSTANTS
  EarlyFrames = TRUE
  BusFails = FALSE
  MaxFrames = 1
SPECIFICATION ReceiveSpec
INVARIANT ReadyListens
CHECK_DEADLOCK FALSE
