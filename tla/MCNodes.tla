------------------------------- MODULE MCNodes -------------------------------
(***************************************************************************)
(* The parts of the vehicle and of the tools around it that share no state *)
(* with one another, side by side for TLC: in every behaviour one of them, *)
(* in focus, runs from its own initial state, and the others stand where   *)
(* they have nothing left to do.                                           *)
(***************************************************************************)
EXTENDS NavBringup, CommandChain, RoadClassification, ImuScale, CameraCompressor,
        SignDetection, LaunchChain, PlanMetrics, NavProbe, MapCleaning, ArenaRaster

CONSTANT Focus \* the parts that may be in focus

VARIABLE focus

vars == <<nav_vars, chain_vars, road_vars, imu_vars, camera_vars, sign_vars, launch_vars,
          pts, probe_vars, clean_vars, arena_vars, focus>>

NavOrder == <<"controller_server", "planner_server", "velocity_smoother">>
NavSlow  == [n \in ToSet(NavOrder) |-> IF n = "planner_server" THEN 2 ELSE 0]

\* Three walls, an unknown cell and free ones.
MapGrid == [k \in (0..3) \X (0..2) |->
              IF k \in {<<1, 0>>, <<1, 1>>, <<3, 2>>} THEN 100 ELSE IF k = <<2, 2>> THEN -1 ELSE 0]
MapLidars  == {<<1, 1>>, <<7, 3>>}
MapReturns == {-1, 1, 3, 5, 7, 9} \X {-1, 1, 3, 5, 7}
ArenaCorners == -4..3

-----------------------------------------------------------------------------
(* Where a part that is not in focus stands: it has run to its end.        *)

Upright ==
  /\ life = [n \in Nodes |-> "active"] /\ left = [n \in Nodes |-> 0]
  /\ manager = [doing |-> "up", at |-> 1, waited |-> 0]
  /\ step = "final" /\ at = Count + 1 /\ try = 1 /\ waited = 0 /\ called = "none"
  /\ final = [n \in Nodes |-> "active"] /\ exit = "0" /\ fails = 0 /\ deaths = 0

ChainAtRest == ChainInit /\ vehicle /\ ~composed
SignEmpty   == SignInit /\ ~node

RoadAtRest ==
  /\ socket = FALSE /\ inbox = <<>> /\ is_rough = FALSE /\ limit = LimitOf(FALSE)
  /\ surface = [label |-> 0, conf |-> 0] /\ frames = 0 /\ errors = 0 /\ restarts = 0

AllLaunched ==
  /\ file = "robot" /\ process = [p \in Parts["robot"] |-> "ended"] /\ timer = FALSE
  /\ patience = [s \in Spawners |-> 0] /\ ready = TRUE /\ active = Spawners
  /\ detector = "active" /\ attempt = [l \in Loops |-> 1] /\ asleep = {} /\ refusals = 0

ProbeDone ==
  /\ phase = "done" /\ leg = MaxLegs + 1 /\ place = "start" /\ goal = 0 /\ asked = 0
  /\ answer = "none" /\ held = 0 /\ samples = {} /\ plans = {} /\ steer = {} /\ results = <<>>

Only(f, init, rest) == IF focus = f THEN init ELSE rest

MCInit ==
  /\ focus \in Focus
  /\ Only("bringup", NavInit, Upright) /\ Only("chain", ChainInit, ChainAtRest)
  /\ Only("road", RoadInit, RoadAtRest) /\ ImuInit /\ CameraInit
  /\ Only("sign", SignInit, SignEmpty) /\ Only("launch", LaunchInit, AllLaunched)
  /\ PlanInit /\ Only("probe", ProbeInit, ProbeDone) /\ CleanInit /\ ArenaInit

-----------------------------------------------------------------------------
\* One part takes a step, all the others stand.
Others(f) ==
  /\ UNCHANGED focus
  /\ f # "bringup" => UNCHANGED nav_vars
  /\ f # "chain"   => UNCHANGED chain_vars
  /\ f # "road"    => UNCHANGED road_vars
  /\ f # "imu"     => UNCHANGED imu_vars
  /\ f # "camera"  => UNCHANGED camera_vars
  /\ f # "sign"    => UNCHANGED sign_vars
  /\ f # "launch"  => UNCHANGED launch_vars
  /\ f # "plan"    => UNCHANGED pts
  /\ f # "probe"   => UNCHANGED probe_vars
  /\ f # "clean"   => UNCHANGED clean_vars
  /\ f # "arena"   => UNCHANGED arena_vars

In(f, A) == focus = f /\ A /\ Others(f)

MCNext ==
  \/ In("bringup", NavNext)  \/ In("chain", ChainNext)  \/ In("road", RoadNext)
  \/ In("imu", ImuNext)      \/ In("camera", CameraNext) \/ In("sign", SignNext)
  \/ In("launch", LaunchNext) \/ In("plan", PlanNext)    \/ In("probe", ProbeNext)
  \/ In("clean", CleanNext)  \/ In("arena", ArenaNext)

\* The conditions of NavFair, RoadFair, CameraFair, LaunchFair and
\* ProbeFair.  The focus does not change, so one condition stands for as many as
\* it has disjuncts.
MCFairness ==
  /\ WF_vars(\/ In("bringup", Activator) \/ In("camera", Callbacks)
             \/ In("launch", TimerFires) \/ In("road", TimerCallback)
             \/ In("probe", Reset \/ SendGoal \/ Accepted \/ Finish))
  /\ WF_vars(\/ In("bringup", Tick) \/ In("camera", CameraTick)
             \/ In("launch", Second))
  /\ WF_vars(In("launch", LaunchProcesses))
  /\ \A n \in Nodes : WF_vars(In("bringup", Configured(n)))

MCSpec == MCInit /\ [][MCNext]_vars
MCFair == MCSpec /\ MCFairness
=============================================================================
