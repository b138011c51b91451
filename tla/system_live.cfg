CONSTANTS
  Requesters = {esp32}
  Jetson = jetson
  RequireApproval = TRUE
  OnNoVerdict = "approve"
  Faults = {"server","restart","disk"}
  MaxAsks = 0
  MaxQueue = 1
  Goals = {g1}
  RestoreGoal = TRUE
  Depth = 1
  MaxGoals = 1
  MaxOrphans = 1
SPECIFICATION FairSpec
PROPERTIES LockHoldsVehicle UnlockFreesVehicle
CHECK_DEADLOCK FALSE
