CONSTANTS
  Requesters = {esp32}
  Jetson = jetson
  RequireApproval = TRUE
  OnNoVerdict = "approve"
  Faults = {"restart"}
  MaxAsks = 0
  MaxQueue = 1
  Goals = {g1}
  RestoreGoal = TRUE
  Depth = 1
  MaxGoals = 0
  MaxOrphans = 1
SPECIFICATION FairSpec
PROPERTIES EmptySetFrees
CHECK_DEADLOCK FALSE
