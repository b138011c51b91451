\* Known disagreements (README, section 6): the property checked here, or the one
\* in comments in its place.
CONSTANTS
  BUDGETS <- NodeBudgets
  Poll = 1
  Transit = 1
  Lag = 1
  ShowDelay = 10
  Back = 20
  Forward = 3
SPECIFICATION Spec
INVARIANT NoAnswerStillInTime
\* INVARIANT WindowOnEveryTarget
CHECK_DEADLOCK FALSE
