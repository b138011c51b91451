CONSTANTS
  Focus = {"bringup", "road", "camera", "launch", "probe"}
  Order <- NavOrder
  Required = {"controller_server", "planner_server"}
  DrivePath = {"controller_server", "velocity_smoother"}
  Tries = 3
  ServiceWait = 1
  LookWait = 3
  CallWait = 5
  Slow <- NavSlow
  ManagerWait = 1
  MaxFails = 1
  MaxDeaths = 1
  MuxTimeout = 2
  RefTimeout = 1
  StamperDepth = 2
  MaxStall = 1
  ConfidenceThreshold = 50
  Confidences = {49, 50}
  Buffer = 2
  MaxFrames = 3
  MaxErrors = 1
  MaxRestarts = 1
  Window = 3
  K = 2
  Offset = 1
  Rates = {0, 5}
  MaxSamples = 6
  CaptureTimeout = 1
  CameraDepth = 2
  MaxTriggers = 3
  Deaf = TRUE
  Scores = {0, 1}
  ScoreThreshold = 1
  Ids = {0, 14, 15}
  MaxResults = 2
  SignDepth = 1
  MaxMessages = 2
  Attempts = 4
  Patience = 2
  MaxRefusals = 1
  MaxLost = 1
  Xs = {0, 1, 2}
  Ys = {0, 1}
  MaxPoints = 5
  MaxLegs = 2
  MapWidth = 4
  MapHeight = 3
  Grid <- MapGrid
  Lidars <- MapLidars
  Returns <- MapReturns
  MinSeen = 2
  HitRatio = 50
  MaxWalk = 8
  MaxBeams = 3
  SubSample = 3
  HalfX = 6
  HalfY = 6
  WallT = 6
  Margin = 18
  Corners <- ArenaCorners
  MaxObstacles = 1
SPECIFICATION MCFair
PROPERTIES ActivatorDelivers LimitFollowsRoad CaptureEnds LaunchCompletes ProbeReportsAll
CHECK_DEADLOCK FALSE
