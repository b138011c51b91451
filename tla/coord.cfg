CONSTANTS
  Requesters = {cluster, esp32}
  Jetson = jetson
  RequireApproval = TRUE
  OnNoVerdict = "approve"
  Faults = {"disk", "garbage", "can", "server", "reject", "restart"}
  MaxAsks = 2
  MaxQueue = 2
SYMMETRY Symmetry
SPECIFICATION Spec
CONSTRAINT Sound
INVARIANTS SpoolInStep
PROPERTIES NewPromptUnanswered GateSpec MismatchRepaired MismatchOnlyByLostCall
CHECK_DEADLOCK FALSE
