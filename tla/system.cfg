CONSTANTS
  Requesters = {esp32}
  Jetson = jetson
  RequireApproval = FALSE
  OnNoVerdict = "approve"
  Faults = {"server","restart","disk"}
  MaxAsks = 1
  MaxQueue = 1
  Goals = {g1}
  RestoreGoal = TRUE
  Depth = 1
  MaxGoals = 1
  MaxOrphans = 1
SPECIFICATION Spec
INVARIANTS BeliefIsSound
PROPERTIES NoGoalResentUnderHold
CHECK_DEADLOCK FALSE
