\* Known disagreements (README, section 6): the property checked here, or one
\* of those in comments in its place.  LockFollowsSet and ExpiredIsReleased
\* speak of FairSpec, the others of any behaviour.
CONSTANTS
  Requesters = {esp32}
  Jetson = jetson
  RequireApproval = TRUE
  OnNoVerdict = "approve"
  Faults = {"ui"}
  MaxAsks = 2
  MaxQueue = 1
SPECIFICATION FairSpec
PROPERTIES LockFollowsSet
\* PROPERTIES ExpiredIsReleased
\* PROPERTIES SecondRequestDropsPrompt
\* PROPERTIES DenyHoldsNothing
CHECK_DEADLOCK FALSE
