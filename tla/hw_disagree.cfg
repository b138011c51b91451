\* Known disagreements (README, section 6): the property checked here, or one
\* of those in comments in its place.
CONSTANTS
  FailureLimit = 2
  CongestionLimit = 4
  StaleLimit = 4
  SettleCycles = 0
  Samples = 1
  SeqMod = 4
  SendResults = {"ok", "transient"}
  TivaSends = {"encoder", "imu"}
  MaxPeriod = 1
  MaxBurst = 2
  MaxTicks = 4
  MaxSamples = 4
  MaxSessions = 2
SPECIFICATION Spec
INVARIANTS HostAndTivaConsistent
\* PROPERTIES CongestionRiddenOut
\* PROPERTIES GyroStillDuringSetup
CHECK_DEADLOCK FALSE
