\* Known disagreements (README, section 6): the property checked here, or one
\* of those in comments in its place.
CONSTANTS
  Goals = {g1, g2}
  RestoreGoal = TRUE
  Depth = 2
  MaxGoals = 2
SPECIFICATION Spec
PROPERTY SavedGoalInFlight
\* PROPERTY RestoreKeepsDriversGoal
\* PROPERTY CancelledGoalIsSaved
\* PROPERTY NavigatorDoesNotResume
CHECK_DEADLOCK FALSE
