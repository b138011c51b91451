CONSTANTS
  EarlyFrames = FALSE
  BusFails = TRUE
  MaxFrames = 5
SPECIFICATION ReceiveFair
INVARIANTS FramesReachHandler
PROPERTIES ReaderAndFramesEnd
CHECK_DEADLOCK FALSE
