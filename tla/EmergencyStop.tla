----------------------------- MODULE EmergencyStop -----------------------------
(***************************************************************************)
(* The emergency-stop server (emergency_stop_server.cpp): it owns the      *)
(* lock that twist_mux obeys, cancels the navigation goal when it locks,   *)
(* remembers that goal and sends it again some time after the unlock.      *)
(*                                                                         *)
(* rclcpp::spin runs one callback at a time: a callback is an action.      *)
(* Around it, from how it is used: the mux that latches the last Bool it   *)
(* received (timeout 0.0), nav2 (a goal arrives, runs, ends, is cancelled; *)
(* its status topic keeps only the last message), and the driver.          *)
(***************************************************************************)
EXTENDS Naturals, Sequences

CONSTANTS Goals,        \* poses
          RestoreGoal,  \* parameter restore_goal
          Depth,        \* depth of the topics (10 in the code)
          MaxGoals      \* bound: goals the driver sends

NoGoal == "no goal"

ASSUME EmergencyStopAssumption ==
  /\ NoGoal \notin Goals
  /\ RestoreGoal \in BOOLEAN
  /\ Depth \in Nat \ {0}
  /\ MaxGoals \in Nat

VARIABLES
  locked,           \* locked_
  nav_goal_active,  \* nav_goal_active_: what the last status said
  last_goal,        \* last_goal_: last pose on /goal_pose
  pending_restore,  \* pending_restore_
  restore_timer,    \* restore_timer_ is set and not cancelled
  lock_topic,       \* emergency_lock messages on their way to the mux
  mux_locked,       \* the last of them that arrived there
  to_server,        \* /goal_pose on its way to this node
  to_nav,           \* /goal_pose on its way to bt_navigator
  cancel_sent,      \* a cancel request is on its way to nav2
  nav,              \* the goal nav2 drives to
  nav_status,       \* the status message this node has not read, or "read"
  sent              \* goals the driver has sent (bounded by MaxGoals)

serverVars == <<locked, nav_goal_active, last_goal, pending_restore,
                restore_timer>>
navVars    == <<to_nav, cancel_sent, nav, nav_status>>
vars == <<serverVars, lock_topic, mux_locked, to_server, navVars, sent>>

TypeOK ==
  /\ locked \in BOOLEAN /\ nav_goal_active \in BOOLEAN
  /\ restore_timer \in BOOLEAN /\ mux_locked \in BOOLEAN
  /\ cancel_sent \in BOOLEAN
  /\ last_goal \in Goals \cup {NoGoal}
  /\ pending_restore \in Goals \cup {NoGoal}
  /\ nav \in Goals \cup {NoGoal}
  /\ lock_topic \in Seq(BOOLEAN)
  /\ to_server \in Seq(Goals) /\ to_nav \in Seq(Goals)
  /\ nav_status \in {"active", "inactive", "read"}
  /\ sent \in Nat

Init ==
  /\ locked = FALSE /\ nav_goal_active = FALSE
  /\ last_goal = NoGoal /\ pending_restore = NoGoal /\ restore_timer = FALSE
  /\ lock_topic = <<>> /\ mux_locked = FALSE
  /\ to_server = <<>> /\ to_nav = <<>>
  /\ cancel_sent = FALSE /\ nav = NoGoal /\ nav_status = "read"
  /\ sent = 0

\* Mutant: a full queue drops the newest.
KeepLast_DropsNew(queue, m) == IF Len(queue) < Depth THEN Append(queue, m) ELSE queue

\* A topic keeps its last Depth messages: a full queue drops the oldest.
KeepLast(queue, m) ==
  Append(IF Len(queue) < Depth THEN queue ELSE Tail(queue), m)

\* Mutant: the Bool is the wrong way round.
Publish_Inverted(b) == lock_topic' = KeepLast(lock_topic, ~b)

Publish(b) == lock_topic' = KeepLast(lock_topic, b)

-----------------------------------------------------------------------------
(* Callbacks of the server *)

\* saveGoalForRestore: the restore timer is cancelled in any case, the saved
\* goal is replaced only while nav2 is known to drive to one.
SavedGoal ==
  IF RestoreGoal /\ nav_goal_active /\ last_goal # NoGoal
  THEN last_goal ELSE pending_restore

LockService ==
  /\ restore_timer' = FALSE
  /\ pending_restore' = SavedGoal
  /\ locked' = TRUE
  /\ Publish(TRUE)
  /\ cancel_sent' = TRUE
  /\ UNCHANGED <<nav_goal_active, last_goal, mux_locked, to_server, to_nav, nav,
                 nav_status, sent>>

\* Mutant: the unlock does not arm the timer.
Armed_Never == restore_timer

\* scheduleGoalRestore arms the timer anew when there is a goal to restore.
Armed == restore_timer \/ pending_restore # NoGoal

UnlockService ==
  /\ locked' = FALSE
  /\ Publish(FALSE)
  /\ restore_timer' = Armed
  /\ UNCHANGED <<nav_goal_active, last_goal, pending_restore, mux_locked,
                 to_server, navVars, sent>>

\* The restore timer fires once.
RestoreFires ==
  /\ restore_timer
  /\ restore_timer' = FALSE
  /\ IF locked \/ pending_restore = NoGoal
     THEN UNCHANGED <<pending_restore, to_server, to_nav>>
     ELSE /\ pending_restore' = NoGoal
          /\ to_server' = KeepLast(to_server, pending_restore)
          /\ to_nav' = KeepLast(to_nav, pending_restore)
  /\ UNCHANGED <<locked, nav_goal_active, last_goal, lock_topic, mux_locked,
                 cancel_sent, nav, nav_status, sent>>

\* A new goal under a lock drops the saved one.
Superseded == IF locked THEN NoGoal ELSE pending_restore

OnGoalPose ==
  /\ to_server # <<>>
  /\ to_server' = Tail(to_server)
  /\ last_goal' = Head(to_server)
  /\ pending_restore' = Superseded
  /\ UNCHANGED <<locked, nav_goal_active, restore_timer, lock_topic, mux_locked,
                 navVars, sent>>

OnNavStatus ==
  /\ nav_status # "read"
  /\ nav_goal_active' = (nav_status = "active")
  /\ nav_status' = "read"
  /\ UNCHANGED <<locked, last_goal, pending_restore, restore_timer, lock_topic,
                 mux_locked, to_server, to_nav, cancel_sent, nav, sent>>

\* The 10 Hz timer repeats the lock, never the unlock.
PublishTick ==
  /\ locked
  /\ Publish(TRUE)
  /\ UNCHANGED <<serverVars, mux_locked, to_server, navVars, sent>>

-----------------------------------------------------------------------------
(* twist_mux, nav2 and the driver *)

MuxReceives ==
  /\ lock_topic # <<>>
  /\ mux_locked' = Head(lock_topic)
  /\ lock_topic' = Tail(lock_topic)
  /\ UNCHANGED <<serverVars, to_server, navVars, sent>>

\* bt_navigator turns a pose into a goal, which replaces the one it drives to.
NavAccepts ==
  /\ to_nav # <<>>
  /\ nav' = Head(to_nav)
  /\ to_nav' = Tail(to_nav)
  /\ nav_status' = "active"
  /\ UNCHANGED <<serverVars, lock_topic, mux_locked, to_server, cancel_sent, sent>>

NavFinishes ==
  /\ nav # NoGoal
  /\ nav' = NoGoal
  /\ nav_status' = "inactive"
  /\ UNCHANGED <<serverVars, lock_topic, mux_locked, to_server, to_nav,
                 cancel_sent, sent>>

\* The request names no goal: nav2 cancels all it has.
NavCancels ==
  /\ cancel_sent
  /\ cancel_sent' = FALSE
  /\ nav' = NoGoal
  /\ nav_status' = IF nav # NoGoal THEN "inactive" ELSE nav_status
  /\ UNCHANGED <<serverVars, lock_topic, mux_locked, to_server, to_nav, sent>>

DriverSends(g) ==
  /\ sent < MaxGoals
  /\ sent' = sent + 1
  /\ to_server' = KeepLast(to_server, g)
  /\ to_nav' = KeepLast(to_nav, g)
  /\ UNCHANGED <<serverVars, lock_topic, mux_locked, cancel_sent, nav, nav_status>>

-----------------------------------------------------------------------------
Services == LockService \/ UnlockService  \* the coordinator calls them

Callback == RestoreFires \/ OnGoalPose \/ OnNavStatus \/ PublishTick

Surroundings ==
  \/ MuxReceives \/ NavAccepts \/ NavFinishes \/ NavCancels
  \/ \E g \in Goals : DriverSends(g)

Next == Services \/ Callback \/ Surroundings

Spec == Init /\ [][Next]_vars

(* The node and the mux keep taking what is ready, the timers keep firing. *)
Fairness ==
  /\ WF_vars(RestoreFires) /\ WF_vars(OnGoalPose) /\ WF_vars(OnNavStatus)
  /\ WF_vars(PublishTick) /\ WF_vars(MuxReceives)
  /\ WF_vars(NavAccepts) /\ WF_vars(NavCancels)

FairSpec == Spec /\ Fairness

-----------------------------------------------------------------------------
(* The restore timer is armed exactly while the vehicle is free and a goal *)
(* waits to be sent again: no saved goal is forgotten over repeated locks  *)
(* and unlocks, none is sent under a lock, and no timer fires for nothing. *)
RestoreTimerExact == restore_timer <=> ~locked /\ pending_restore # NoGoal

(* What the mux will believe once it has read everything is what the       *)
(* server decided last, although old messages are dropped and an unlock is *)
(* sent only once.                                                         *)
LatchFollowsLock ==
  IF lock_topic = <<>> THEN mux_locked = locked
                       ELSE lock_topic[Len(lock_topic)] = locked

(* The lock and the unlock reach the wheels.                               *)
LockReachesMux   == locked ~> (mux_locked \/ ~locked)
UnlockReachesMux == ~locked ~> (~mux_locked \/ locked)
LatchReachesMux  == LockReachesMux /\ UnlockReachesMux

(* A goal saved at the lock is sent again once the vehicle stays free.     *)
SavedGoalReturns ==
  (pending_restore # NoGoal /\ ~locked) ~> (pending_restore = NoGoal \/ locked)

-----------------------------------------------------------------------------
(* What a comment or the documentation says and the code does not do.      *)

\* emergency_stop_server.cpp:138: "A goal that already succeeded (or was never
\* sent) must not be resurrected": what a lock saves is in flight.
SavedGoalInFlight ==
  [][pending_restore' \notin {NoGoal, pending_restore} =>
       \/ nav = pending_restore'
       \/ \E i \in 1..Len(to_nav) : to_nav[i] = pending_restore']_vars

\* robot.launch.py:69: the goal is sent again "so an OTA update does not
\* silently throw away where the driver asked the car to go": it is sent only
\* while it is still the last the driver asked for.
RestoreKeepsDriversGoal ==
  [][restore_timer /\ pending_restore # NoGoal /\ pending_restore' = NoGoal
     => pending_restore = last_goal]_vars

\* The same comment: a goal the lock cancels has been saved.
CancelledGoalIsSaved ==
  [][cancel_sent /\ ~cancel_sent' /\ nav # NoGoal /\ sent = 1
     => pending_restore = nav]_vars

\* docs/ARCHITECTURE.md 5.1: the goal is cancelled "so the navigator does not
\* resume on release": what nav2 is asked to do comes from the driver.
NavigatorDoesNotResume ==
  [][Len(to_nav') > Len(to_nav) => sent' = sent + 1]_vars
===============================================================================
