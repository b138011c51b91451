CONSTANTS
  Requesters = {esp32}
  Jetson = jetson
  RequireApproval = TRUE
  OnNoVerdict = "approve"
  Faults = {"ui", "unlink"}
  MaxAsks = 2
  MaxQueue = 1
SPECIFICATION FairSpec
PROPERTIES NobodyWaitsForever CallReturns
CHECK_DEADLOCK FALSE
