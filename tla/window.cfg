\* The budgets of the node in ticks of 100 ms.  The wall clock may be set back by
\* 2 s or forward by 0.3 s; the head unit looks for offers once a second.
CONSTANTS
  BUDGETS <- NodeBudgets
  Poll = 1
  Transit = 1
  Lag = 1
  ShowDelay = 10
  Back = 20
  Forward = 3
SPECIFICATION Spec
INVARIANTS VerdictInTime
PROPERTIES DriverDecides
CHECK_DEADLOCK FALSE
