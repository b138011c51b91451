CONSTANTS
  Goals = {g1, g2}
  RestoreGoal = TRUE
  Depth = 2
  MaxGoals = 2
SPECIFICATION FairSpec
PROPERTIES LatchReachesMux SavedGoalReturns
CHECK_DEADLOCK FALSE
