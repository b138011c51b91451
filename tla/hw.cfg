CONSTANTS
  FailureLimit = 2
  CongestionLimit = 3
  StaleLimit = 4
  SettleCycles = 2
  Samples = 2
  SeqMod = 4
  SendResults = {"ok", "transient", "hard"}
  TivaSends = {"encoder", "imu"}
  MaxPeriod = 1
  MaxBurst = 3
  MaxTicks = 3
  MaxSamples = 7
  MaxSessions = 3
SPECIFICATION MCSpec
INVARIANTS NoFalseSpeed EachSampleOnce BiasFromSettled
PROPERTIES FailuresCounted
CHECK_DEADLOCK FALSE
