----------------------------- MODULE LaunchChain ------------------------------
(***************************************************************************)
(* The event handlers of three launch files: what is started at once, after *)
(* a timer, when another process has started or when it has ended, and what *)
(* the spawners and the two retry loops among those processes make of the   *)
(* world they find.  An end counts whatever its exit code.                  *)
(***************************************************************************)
EXTENDS Integers, FiniteSets

CONSTANTS Attempts,   \* `for i in $(seq 1 30)', one attempt a second
          Patience,   \* a spawner's --controller-manager-timeout
          MaxRefusals, \* bound: transitions of the detector that fail
          MaxLost      \* bound: calls of the loops whose answer is lost

ASSUME LaunchAssumption == {Attempts, Patience, MaxRefusals, MaxLost} \subseteq Nat

VARIABLES
  file,      \* the launch file
  process,   \* of each of its processes: "idle", "running", "ended", "failed" or,
             \* of a loop that waits for an answer that was lost, "hung"
  timer,     \* its TimerAction has not fired
  patience,  \* seconds each spawner has left
  ready,     \* the controller_manager answers
  active,    \* controllers that are active
  detector,  \* life-cycle state of /yolos_detector
  attempt,   \* of each loop
  asleep,    \* the loops in their sleep 1
  refusals

launch_vars == <<file, process, timer, patience, ready, active, detector, attempt, asleep, refusals>>

Spawners == {"joint_state_broadcaster", "ackermann_controller", "imu_broadcaster"}
Loops    == {"configure_detector", "activate_detector"}
Drivers  == {"twist_stamper", "imu_scale"}
Always   == {"rsp", "twist_mux", "emergency_stop_server", "ekf"}

\* What is in the LaunchDescription itself, and what its timer starts.
AtOnce == [robot |-> Always \cup {"road_classification"}, sim |-> Always \cup {"gazebo", "rviz"},
           yolo |-> {"yolo_container"}]
Later  == [robot |-> {"controller_manager"}, sim |-> {"spawn_entity"}, yolo |-> {}]

\* OnProcessStart: what starts with process p.
WithStart(p) ==
  CASE p = "controller_manager" -> Spawners \cup Drivers
    [] p = "yolo_container"     -> {"configure_detector"}
    [] OTHER -> {}

\* OnProcessExit, OnExecutionComplete: what starts when p has ended.
WithEnd(p) ==
  CASE p = "spawn_entity" -> {"joint_state_broadcaster"}
    [] p = "joint_state_broadcaster" /\ file = "sim"
                          -> (Spawners \ {"joint_state_broadcaster"}) \cup Drivers
    [] p = "configure_detector" -> {"activate_detector"}
    [] OTHER -> {}

Parts == [robot |-> Always \cup Spawners \cup Drivers \cup {"road_classification", "controller_manager"},
          sim   |-> Always \cup Spawners \cup Drivers \cup {"gazebo", "rviz", "spawn_entity"},
          yolo  |-> Loops \cup {"yolo_container"}]

Launched(ps) == [p \in DOMAIN process |->
                   IF p \in ps \cup UNION {WithStart(q) : q \in ps} THEN "running" ELSE process[p]]

LaunchInit ==
  /\ file \in {"robot", "sim", "yolo"}
  /\ process = [p \in Parts[file] |->
       IF p \in AtOnce[file] \cup UNION {WithStart(q) : q \in AtOnce[file]} THEN "running" ELSE "idle"]
  /\ timer = (Later[file] # {}) /\ patience = [s \in Spawners |-> Patience]
  /\ ready = FALSE /\ active = {} /\ detector = "absent"
  /\ attempt = [l \in Loops |-> 1] /\ asleep = {} /\ refusals = 0

TimerFires ==
  /\ timer /\ timer' = FALSE
  /\ process' = Launched(Later[file])
  /\ UNCHANGED <<file, patience, ready, active, detector, attempt, asleep, refusals>>

\* Process p ends with that result, and what waits for its end starts.
Ends(p, result) == process' = [Launched(WithEnd(p)) EXCEPT ![p] = result]

\* spawn_entity puts the model into Gazebo or fails.
SpawnEntity ==
  /\ file = "sim" /\ process["spawn_entity"] = "running"
  /\ \E result \in {"ended", "failed"} : Ends("spawn_entity", result)
  /\ UNCHANGED <<file, timer, patience, ready, active, detector, attempt, asleep, refusals>>

\* In the simulation the controller_manager comes with the model.
ManagerReady ==
  /\ ~ready
  /\ \/ file = "robot" /\ process["controller_manager"] = "running"
     \/ file = "sim" /\ process["spawn_entity"] = "ended"
  /\ ready' = TRUE
  /\ UNCHANGED <<file, process, timer, patience, active, detector, attempt, asleep, refusals>>

Spawner(s) ==
  /\ file # "yolo" /\ process[s] = "running"
  /\ \/ ready /\ active' = active \cup {s} /\ Ends(s, "ended")
     \/ patience[s] = 0 /\ ~ready /\ Ends(s, "failed") /\ UNCHANGED active
  /\ UNCHANGED <<file, timer, patience, ready, detector, attempt, asleep, refusals>>

\* `ros2 lifecycle set': the transition starts from one state and may be refused.
\* The command has no timeout, so if the answer is lost, the loop is at its end.
StartsFrom == [configure_detector |-> "unconfigured", activate_detector |-> "inactive"]
EndsIn   == [configure_detector |-> "inactive", activate_detector |-> "active"]

\* Mutant: one attempt.
LastTry_First(l) == TRUE
LastTry(l) == attempt[l] = Attempts

Hung == {p \in DOMAIN process : process[p] = "hung"}

Loop(l) ==
  /\ file = "yolo" /\ process[l] = "running" /\ l \notin asleep
  /\ \/ /\ detector = StartsFrom[l] /\ detector' = EndsIn[l] /\ Ends(l, "ended")
        /\ UNCHANGED <<attempt, asleep, refusals>>
     \/ /\ \/ detector # StartsFrom[l] /\ UNCHANGED refusals
           \/ detector = StartsFrom[l] /\ refusals < MaxRefusals /\ refusals' = refusals + 1
        /\ IF LastTry(l) THEN Ends(l, "failed") /\ UNCHANGED <<attempt, asleep>>
           ELSE /\ attempt' = [attempt EXCEPT ![l] = @ + 1] /\ asleep' = asleep \cup {l}
                /\ UNCHANGED process
        /\ UNCHANGED detector
     \/ /\ detector # "absent" /\ Cardinality(Hung) < MaxLost
        /\ UNCHANGED detector \/ (detector = StartsFrom[l] /\ detector' = EndsIn[l])
        /\ process' = [process EXCEPT ![l] = "hung"]
        /\ UNCHANGED <<attempt, asleep, refusals>>
  /\ UNCHANGED <<file, timer, patience, ready, active>>

DetectorAppears ==
  /\ file = "yolo" /\ detector = "absent" /\ detector' = "unconfigured"
  /\ UNCHANGED <<file, process, timer, patience, ready, active, attempt, asleep, refusals>>

\* A second passes for the sleeping loops and the waiting spawners.
Second ==
  /\ asleep # {} \/ \E s \in Spawners : patience[s] > 0
  /\ asleep' = {}
  /\ patience' = [s \in Spawners |->
       IF s \in DOMAIN process /\ process[s] = "running" /\ patience[s] > 0 THEN patience[s] - 1
       ELSE patience[s]]
  /\ UNCHANGED <<file, process, timer, ready, active, detector, attempt, refusals>>

LaunchProcesses == SpawnEntity \/ (\E s \in Spawners : Spawner(s)) \/ (\E l \in Loops : Loop(l))
LaunchNext == TimerFires \/ ManagerReady \/ DetectorAppears \/ Second \/ LaunchProcesses
LaunchSpec == LaunchInit /\ [][LaunchNext]_launch_vars
LaunchFair == /\ LaunchSpec
              /\ WF_launch_vars(TimerFires) /\ WF_launch_vars(LaunchProcesses)
              /\ WF_launch_vars(Second)

-----------------------------------------------------------------------------
(* Properties *)

\* Nothing in a launch file waits for what never comes: whatever fails, each of
\* its processes is started.
EverythingStarted == <>(\A p \in DOMAIN process : process[p] # "idle")

\* The detector becomes active if it appears while the first loop still has more
\* attempts than transitions fail.
DetectorComesUp ==
  <>(/\ file = "yolo" /\ process["configure_detector"] = "running"
     /\ detector = "unconfigured" /\ Attempts - attempt["configure_detector"] > MaxRefusals)
    => <>(detector = "active")

\* A launch file gets through to its end, and the detector to its work, as long as
\* every call of the two loops is answered.
LaunchCompletes == [](Hung = {}) => EverythingStarted /\ DetectorComesUp

\* yolo_auto_launch.py:105, "Retry until the transition succeeds (max ~30 s)": a
\* loop that has been started comes to an end.
LoopsEnd == \A l \in Loops :
  (file = "yolo" /\ process[l] = "running") ~> (file = "yolo" /\ process[l] \in {"ended", "failed"})
=============================================================================
