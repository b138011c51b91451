CONSTANTS
  Requesters = {esp32}
  Jetson = jetson
  RequireApproval = TRUE
  OnNoVerdict = "approve"
  Faults = {}
  MaxAsks = 1
  MaxQueue = 1
  Goals = {g1}
  RestoreGoal = TRUE
  Depth = 1
  MaxGoals = 0
  MaxOrphans = 1
SPECIFICATION Spec
INVARIANTS UpdateRunsHeld
CHECK_DEADLOCK FALSE
