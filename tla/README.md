# A TLA+ verification of the ITIGP vehicle workspace

The repository is the ROS 2 workspace of a small autonomous car: a Jetson runs
navigation, perception and a `ros2_control` hardware component that talks CAN to a
Tiva micro-controller; two more ECUs (an ESP32 and the instrument cluster) and the
Jetson itself receive over-the-air (OTA) updates. This directory models the parts
whose correctness depends on order, failure and time, model-checks them with TLC on
small instances, and proves the properties that matter most with TLAPS for every
value of the constants.

Paths below are those of the repository; `node.py` is
`src/update_coordinator/update_coordinator/node.py`.

## 1. The system

### 1.1 Parts, their state and their operations

| Part | State | Operations | Modelled in |
|---|---|---|---|
| Update coordinator (`node.py`) | `active_ecus` with start times, `is_locked`, `_lock_state_pending`, `_pending` prompts with deadlines, poll and timeout timers, notice timers, the self-update flag file, a file spool (`offers/`, `verdicts/`, `notices/`, `ui-alive`) | drain of CAN frames (REQUEST, RUNNING, rejected), poll of the spool, timeout check, result of a lock call, `self_start`, `self_done`, notice expiry, start-up, clean stop | `UpdateCoordinator`, `UpdateGate` |
| Clock of an approval (`BUDGETS`, `APPROVAL_POLL_S` of `node.py`) | the prompt on the head unit, the coordinator's deadline on the wall clock, the requester's wait | ask, answer, poll, give up, set the clock back or forward | `ApprovalWindow` |
| CAN reception of the coordinator (`node.py`) | reader thread, `can_queue`, guard condition, shutdown event, socket | receive, put, trigger, drain, destroy | `CanReceive` |
| SecOC link (`secoc_utils.py`) | a counter file on each side, the frame's truncated freshness value, the MAC | build, verify | `SecOC`, `AtMostOnce` |
| Emergency-stop server (`emergency_stop_server.cpp`) | `locked_`, `nav_goal_active_`, `last_goal_`, `pending_restore_`, `restore_timer_` | lock, unlock, restore, `/goal_pose`, navigation status, 10 Hz publication | `EmergencyStop` |
| OTA lock chain (coordinator, server, `twist_mux`) | the above, calls in the server's queue, the latch of the mux | the above with deaths of either node | `OtaLockSystem` |
| Hardware component (`ackermann_system.cpp`, `can_comms.cpp`) | life cycle, socket, two write-failure counters, encoder counts and their age, IMU pairing, bias calibration | configure, activate, deactivate, cleanup, read, write | `HardwareLink` (partly) |
| Gamepad override (`xbox_override.py`) | the queue of `/joy`, last report and its time, armed triggers, `engaged`, stop tail, resolved indices; with `--input evdev` a second thread, its `axes` and `btns` | `on_joy`, `tick`, start and end of the process; `pump` | `XboxOverride`, `EvdevPad` |
| Command chain (`navigation_launch.py`, `twist_mux.yaml`, `twist_stamper.py`, `controllers.yaml`) | what each slot of the mux received last and when, the lock, the stamper's queue, the controller's last reference | publish, relay, select, time out | `CommandChain` |
| Navigation bring-up (`activate.py`, `navigation_launch.py`) | life-cycle states of the managed nodes, the manager's and the script's progress over them | change_state, get_state, the script's passes, the manager's start-up | `NavBringup` |
| Launch chains (`robot.launch.py`, `sim.launch.py`, `yolo_auto_launch.py`) | which process has been started, which timer and which retry loop is under way, the detector's life-cycle state | process end, timer, the two loops of the detector's launch file | `LaunchChain` |
| Road classification (`road_classification_node.cpp`) | the CAN socket with its buffer, `is_rough_`, the limit the controller holds | construct, timer (drain and publish), restart of the controller | `RoadClassification` |
| IMU bias (`imu_scale.py`) | the sum and the count of the window, the mean | one sample | `ImuScale` |
| Camera compressor (`camera_compressor.py`) | `is_capturing`, `temp_sub`, `timeout_timer`, `camera_process` and the camera under it | trigger, image, timeout, `_cleanup`, `destroy_node` | `CameraCompressor` |
| Sign detection to CAN (`yolo_class_node.cpp`) | socket, subscription queue | construct, one message with one write for each class | `SignDetection` |
| Navigation probe (`nav_probe.py`) | goal, plan, samples and result of a leg; a plan as a list of points | a leg from reset to report; the measure of a plan | `NavProbe`, `PlanMetrics` |
| Map tools (`clean_map_from_bag.py`, `make_arena.py`) | counts of each cell, the map in the making | one beam, the pass that erases; the raster of the arena | `MapCleaning`, `ArenaRaster` |
| V-PACE CAN codec (`v_pace_db.c`) | none | pack, unpack, range checks | not modelled: generated and stateless |
| nav2 parameters and trees, URDF, worlds, training, lidar launch | static | - | not modelled |

### 1.2 How they interact

    ECU --CAN/SecOC--> reader thread --queue + guard condition--> update coordinator
         <--APPROVE/DENY----------------------------------------  |         |
    head unit <----file spool (offers, verdicts, ui-alive)--------+         |
                                               /emergency_stop/lock, /unlock (async calls)
                                                                            v
    driver --/goal_pose--> nav2 <--cancel, goal again-- emergency-stop server
                            |                                  | emergency_lock (Bool topic)
                            +--cmd_vel--> twist_mux <----------+
    pad --joy_node or evdev--> override ----->|
                                         twist_stamper
                                              |
    IMU --> imu_scale --> EKF            controller --> hardware component <--CAN--> Tiva
    road frames --CAN--> road classification --speed limit--> controller_server
    camera --> detector --> sign node --CAN--> cluster;   trigger --> camera compressor
    launch files --> life-cycle manager --> nav2 nodes <-- activate.py

* **Messages**: CAN frames (lost, repeated, mangled, rejected), ROS topics of bounded
  depth (the oldest message is dropped), asynchronous service calls whose answer may
  never come, life-cycle transitions that outlive the patience of whoever asked.
* **Shared state**: the spool directory, written by coordinator and head unit; the
  counter files of SecOC; the queue and the guard condition between two threads.
* **Callbacks**: both nodes spin on a single-threaded executor: one callback at a
  time, in any order; the CAN reader and the evdev reader are threads of their own.
* **Processes**: launch files start one process when another ends or answers; the
  camera compressor starts a `ros2 run` that starts the camera.

### 1.3 What is hard

* The set of updates changes while a lock call is out, and `_update_lock_state`
  returns early when one is.
* Prompts and notices are files: they outlive the process, and the verdict for a
  withdrawn prompt may still be written.
* A CAN send raises when the transmit queue is full, in the middle of a resolution,
  and takes the node down.
* A lock call outlives the coordinator that made it; either node may die with the
  vehicle held.
* Half a second separates the prompt, the deadline and the ESP32's patience, and the
  deadline is on a wall clock that may be set.
* The freshness value wraps, over gaps, after crashes of either side.
* An unlock is published once on a topic that drops its oldest message; the goal
  sent again after an unlock races new goals of the driver and new locks.
* The dead man's handle is spread over the timeouts of three processes (the override,
  `twist_mux`, the controller); the override has to stop the car by speaking and to
  yield by falling silent, and its pad falls silent without a word.
* Two failure counters that reset each other in one direction only; frames that are
  missed, late, repeated or numbered modulo 256; resets that are obeyed late.
* The kernel reports changes of a pad, `joy_node` repeats itself: the same staleness
  rule reads the two alike.
* nav2's remappings are written twice, for composed and for separate nodes, and the
  lock holds only what passes the mux.
* `activate.py` works on nodes the life-cycle manager works on too, and a configure
  takes longer than either waits.
* A launch file waits for the end of a process that may fail, and for a detector that
  appears late or does a transition without answering.
* Both callbacks of the override run on one executor: a stall delays the tick and the
  reports alike, and a report is as old as its callback says.
* The camera is a process under a process: only the one above is waited for.
* Walks over cells and samples of pixels: directions, ends and half cells.

`PROJECT.json` lists each of these hazards at its line with the properties that would
catch it going wrong.

### 1.4 What makes each part correct

* Coordinator: every request gets exactly one verdict; an approval implies that the
  vehicle is asked to stand still; the lock follows the set of updates or is repaired
  by the next event; what is on the screen is what is being asked; nothing in the
  spool outlives its meaning.
* Approval clock: the verdict comes before the ECU gives up; the default does not
  overtake a card that came up in time.
* Reception: no lost wake-up, no lost, doubled or reordered frame, a stop that ends.
* SecOC: each message at most once, in order; intact messages in the window always.
* Emergency stop: the mux ends where the server is; a saved goal comes back exactly
  when the vehicle is free.
* Lock chain: what the coordinator believes is what the mux holds.
* Gamepad override: a command that moves is published only on a recent will of the
  operator; navigation has the car back only after the whole tail, and always gets it
  back; nothing moves after a dropout until the operator has let go of both triggers.
* Hardware: a broken link is noticed in bounded time and a single lost command is not
  an error; speeds and angular rates come from data that belong together.
* Command chain: under the lock the wheels stop whoever speaks, otherwise the
  operator's command goes before navigation's, and nothing changes hands at speed.
* Bring-up: the script ends, says the truth in its exit code and gives up no node
  that is there; every process of a launch file gets its turn.
* Small nodes: the limit is that of the newest classification; a bias taken at rest is
  taken off exactly; a capture ends once and leaves no camera untold; each sign goes out
  once.
* Tools: a plan's length and cusps are those of the plan, a wall that was seen is not
  erased, the map is the world it was made from.

## 2. The modules

### 2.1 `UpdateCoordinator`

One action per callback, because the executor runs one at a time. Two loops are
split: a drain of the queue is one action per frame and a poll tick one action per
prompt it resolves. The driver's verdict can land between any two reads of the loop,
so the split adds no behaviour. Time is reduced to two facts the code tests:
`overdue` (a prompt past `deadline_ms`) and `expired` (an update older than
`timeout_sec`); they become true at any moment and never by themselves false.

| Code | Action or operator |
|---|---|
| `_update_lock_state`, `_call_service` | `UpdateLockState`, `CallService` |
| `_on_can_event`, `_handle_can` | `OnCanEvent` with `BeginApproval`, `HandleRunning`, `HandleReject` |
| `_begin_approval` | `ApproveUnasked` (fail open), `AskDriver`, `OfferUnwritable`; `ApprovalSendRaises` when `can_send` raises |
| `_poll_approvals`, `_resolve` | `PollApprovals`, `PollFindsNothing`, `ResolveSendRaises` |
| `_timeout_check` | `TimeoutCheck` |
| `_on_service_done` | `OnServiceDone` |
| `_on_self_start`, `_on_self_done` | `OnSelfStart`, `SelfStartUnwritable`, `OnSelfDone` |
| `_write_notice`, its timer | `WriteNotice`, `ExpireNotice` |
| `__init__` with `_sweep_stale_offers`, `_sweep_notices`, `_recover_self_update` | `Restart` |
| `destroy_node`, a crash | `DestroyNode`, `Crash` |
| head unit, ECUs, the service | `HeadUnitScan`, `HeadUnitAnswers`, `HeadUnitUpOrDown`; `EcuRequests`, `EcuGivesUp`, `EcuReceives`, `EcuRuns`; `ServerAnswers`, `ServerComesOrGoes` |

With the fault `"unlink"` a file of the spool may fail to be removed, at any of the
places the code logs and passes over it (`_withdraw_offer`, the sweeps, the notices): the
file stays (`Unlinked`). An exception out of a callback ends `rclpy.spin`, the `finally` of `main` runs
`destroy_node`, and the process ends; so a send that raises and a flag that cannot be
written are steps that end in `up = FALSE` (`Unwind`). Offer identifiers are numbers
here: `_begin_approval` joins a sequence number with the clock in seconds, which makes
them unique over restarts (short of a clock that is set back, or a restart and a
request within the same second), so `offer_seq` survives a restart in the model
although the counter in the process does not. The constant `Faults` says which faults of the environment an
instance has.

`UpdateGate` is the abstract specification: no files, prompts, timers or calls. A
request is owed one verdict until it gets one or is given up; an APPROVE is sent only
in a step that also holds the requester; a DENY adds nothing to what is held.
`GateSpec` states that the coordinator implements it with `owed <- Prompted` and
`held <- active_ecus`.

### 2.2 `ApprovalWindow`

The milliseconds `UpdateCoordinator` leaves out, in ticks of the poll period. `Tick`
is not taken while something is at its latest moment (a frame in transit, a poll that
is due, a prompt that accepts itself). `_begin_approval` and `_poll_approvals` use
`time.time()`, and so does the timer of the poll: the wall clock may be set once, at any
moment, by `Back` back or by `Forward` forward (`ClockIsSet`). Both targets ask in turn, each
with its budget.

### 2.3 `CanReceive`

The reader thread (`Receive`, `Put`, `Trigger`, `ReaderEnds`) and the main thread
(`StartReader`, `MakeGuardCondition`, `Spin`, `TakeTrigger`, `Get`, `Handle`,
`QueueEmpty`, `DestroyNode`, `Joined`) interleave at every shared access, from the
middle of `__init__` to the end of `destroy_node`, which a KeyboardInterrupt or an
exception may start in the middle of a callback (`Spinning`). The join gives up after two
seconds, so `Joined` may leave the thread behind; it ends when it next looks at the
event, the closed socket or the destroyed guard condition. Frames are numbered in the
order they arrive in; `taken`, `can_queue`, `current` and `handled` say where each is.

### 2.4 `SecOC` and `AtMostOnce`

One data identifier: `Build` stores the counter before the frame is sent, `Accept`
stores the floor before the payload is handled, as the code does. The bus is a set of
frames it may deliver once, again, or never, in any order, and `Mangle` changes the low half of
the value in transit. AES-CMAC is not computed: a frame verifies when the value it
was made for is the one the receiver reconstructs (`Candidate`, `secoc_utils.py`).
`AtMostOnce` is the channel the link implements (`PromiseSpec`).

### 2.5 `EmergencyStop`

One action per callback, `twist_mux`, nav2 and the driver around it. Topics are
sequences cut to `Depth` by `KeepLast`. `twist_mux` latches what it received last (its
lock has `timeout: 0.0`). A cancel without a goal identifier cancels all nav2 has.

### 2.6 `OtaLockSystem`

`C == INSTANCE UpdateCoordinator` and `E == INSTANCE EmergencyStop` over one state: a
call that is `"sent"` for the coordinator is a handler the server runs (`Serve`); the
server may die over it before or after it ran (`CallDies`); a call whose caller has
stopped stays in the server's queue (`orphans`, `ServeOrphan`). A server that dies
loses its memory and tells the mux nothing. `adrift` is a history variable: the
coordinator stopped while it held the vehicle or was about to, and its successor has
not been served since.

### 2.7 `HardwareLink`

The life cycle as `controller_manager` drives it, `read`, `write`, the counters, the
encoder and the IMU, with the Tiva and the bus around them. `read` drains the socket
and keeps the last frame of each kind, so the socket is the last frame of each kind.
Wheel positions are encoder ticks; time is in units in which a wheel turns at most one
tick. `streak`, `silent`, `across`, `accepted`, `imu_reads`, `base` and `session` are
history variables the properties speak of; no guard of the code reads them (`session`
also bounds the activations).

### 2.8 `XboxOverride`

| Code | Action or operator |
|---|---|
| `on_joy` with `resolve_pad_map` | `OnJoy`, which takes the oldest report of the queue and the time of its own call; `UnknownPad` when it raises `SystemExit` |
| `tick` | `Tick`: `Disarm` on a stale or missing report, a return after `_tail_or_silence` for indices outside the pad, else `Operate` with `Owns`, `Disengage` |
| `disarm`, `trigger`, `_tail_or_silence`, `publish` | `Disarm`, `ArmedBy` and `Pulled`, `TailOrSilence`, `Publish` |
| start and `finally` of `main` | `Starts` with `Fresh`; `Stops` with `Ends` |
| `twist_mux` (its timeout) | `SlotFree`, `teleop_age` |
| the subscription to `/joy` | `reports`, cut to `JoyDepth`; `behind`, how long something has waited |
| operator, pad, `joy_node` | `Operator`, `Unplugged`, `Plugged`; `Sends` |
| time | `Elapse`, in periods of the timer (50 ms) |

Both callbacks run on one executor. It may stall for up to `MaxLate`: the tick is then late
and the reports wait, and `on_joy` stamps what has waited as if it were new. What the mux,
the stamper and the controller make of a command is 2.10.

The joy driver reports 0.0 for an axis it has heard nothing of, which the override
reads as half pulled: `known` and the value `"unset"` keep that apart from rest, and
arm-on-release is what makes it harmless. `idle`, `rested` and `free_for` are history
variables. Assumed: a pad comes back later than a dropout (a shorter one is not seen by
anyone), and it has the same shape for as long as one process runs.

### 2.9 `EvdevPad`

`XboxOverride` (extended, over the same state) with the other source of reports, the
thread of `pump` (`xbox_override.py:336-359`). `Read` takes one event of the kernel into
`axes` and `btns` and makes a report of them; the kernel speaks only when something
changes. The thread writes the report and its time in two steps, and `tick` reads them
in two: `TickAround` is the one order of the four that differs from a tick before or after
both writes. The device is opened once, so a pad that was unplugged is gone for the
process. Arming, engaging and the tail are those of 2.8.

### 2.10 `CommandChain`

The way of a velocity command: who publishes on which topic, by both lists of
remappings of `navigation_launch.py` (`Standalone`, `Composable`), the smoother, the
mux with its timeouts, priorities and lock, the stamper with its queue, and the
controller with its `reference_timeout`. The wiring of the last two differs between
`robot.launch.py` and `sim.launch.py` (`vehicle`). Only the stamper may stall; the other
nodes handle a message before time passes. A command is its source and how late it is;
speeds are left out.

### 2.11 `NavBringup` and `LaunchChain`

`NavBringup` follows `activate.py` call by call: wait for the service of a node
(`Discover`), look at its state (`Look`), ask for the transition (`Call`, `Answer`), up to
`Tries` times for each node, then the last look and the exit code (`FinalLook`, `Exit`).
Each wait has its length in units of 5 s. The life-cycle manager goes over the same nodes
beside it and aborts on the first refusal or late answer; once the stack is up, the death of
a node breaks its bond and the manager takes the others down (`BondBroken`). A node may be
absent, refuse a transition, take long over its configure, or die.

`LaunchChain` has the event handlers and timers of `robot.launch.py` and
`sim.launch.py` (`WithStart`, `WithEnd`: an end counts whatever its exit code) and the two
retry loops of `yolo_auto_launch.py`, over a detector that appears late or refuses. The
command in these loops has no timeout, so an answer that is lost leaves the loop `"hung"`;
`MaxLost` bounds how many are.

### 2.12 `RoadClassification`, `ImuScale`, `SignDetection`

`RoadClassification`: frames that pass the filter wait in a bounded buffer;
`TimerCallback` takes all of them, or as many as it gets until `read` fails, then publishes
the limit; a controller that restarts has none. The threshold is cut to eight bits as in the
code. `ImuScale`: the bias is the mean over the first `Window` samples; rates are integers and
the published one is kept times `Window`, so that nothing is rounded. `SignDetection`: a
queue of `SignDepth` messages, one write for each class of sign in a message, each of
which a full CAN queue may refuse.

### 2.13 `CameraCompressor`

One action per callback. `_cleanup` is in two parts, before and after its wait for the
process it told to end (two seconds, then SIGKILL). The `ros2 run` it starts (`leader`) and
the camera under it are separate: the leader ends on SIGTERM, the camera is `"ending"` until
it has shut down, which takes as long as it takes and during which it goes on sending, and
with `Deaf` it may hang. A second camera finds the device taken and ends. A capture is a
number, and an image carries the capture it was
taken in, so that a late one can be told from the right one.

### 2.14 `NavProbe` and `PlanMetrics`, `MapCleaning` and `ArenaRaster`

`NavProbe` is the run over the goals (reset, send, wait for the answer, watch, report) with
nav2 around it, whose answers may be late; the wheel and command messages the probe hears
whenever it waits are in `steer`, by the goal they come from. `PlanMetrics` is the measure of a plan: its cusps,
the pieces between them and the reversals of curvature in each, as operators over sequences
of points of a grid. A piece that is kept is an index of `Pieces`, a reversal a pair of
bends of one piece; the code's counts are the cardinalities of these sets.
`MapCleaning` takes one beam at a time (the walk over the cells, the hit at its end), then
erases and writes the file with its first row on top; coordinates are in half cells.
`ArenaRaster` samples each pixel of the map and compares it with the boxes and cylinders the
world is written from. The loops of these nodes and of `RoadClassification` are recursive
functions (`Walk`, `Pieces`, `Drained`), one value for each round of the loop, which TLC evaluates
and proofs can speak of.

### 2.15 The MC modules

* `MCUpdateCoordinator`: the liveness properties and the symmetry of the ECUs.
* `MCCoordinator`: the state constraint `Sound` of the run `coord`. While two ECUs are
  engaged the lock's server is there and answers, and one frame waits at a time; while
  one is, the server may fail in every way and two frames wait.
* `MCHardwareLink`: the variable `device`, one of `bus`, `encoder` and `imu`, is chosen in
  the initial state and never changes; the devices not looked at are at rest (sends
  succeed, frames do not come).
* `MCNodes`: likewise `focus`. The parts share no state, so a behaviour runs one of
  them and the others stand where they are at rest (`NavAtRest`, `RoadAtRest`, ...).
  Weak fairness of the union of their actions is fairness of the one in focus, because
  `focus` never changes.

## 3. What is checked

Every run is a `.cfg` beside its module: `tlc -config <run>.cfg <module>`.
`CHECK_DEADLOCK FALSE` is set throughout: requests, goals, frames and activations are
bounded, and a node that stopped need not be started again, so a run may end.

| Run | Module | Question | Shows |
|---|---|---|---|
| `coord` | `MCCoordinator` | Two ECUs and a host update on a service that works, one ECU on a service that fails in every way, both with garbage, full disks, failing sends and restarts | `SpoolInStep`, `NewPromptUnanswered`, `MismatchOnlyByLostCall`, `MismatchRepaired`, and `GateSpec` (refinement of `UpdateGate`) |
| `coord_live` | `MCUpdateCoordinator` | Does everything get an answer when the head unit comes and goes and files cannot be removed? | `NobodyWaitsForever`, `CallReturns` |
| `secoc` | `SecOC` | Loss, repetition, reordering, mangling, crashes, several wraps | `WindowExact`, `PromiseSpec` (refinement of `AtMostOnce`) |
| `estop` | `EmergencyStop` | Locks, unlocks, goals and cancels in any order over lossy topics | `LatchReachesMux`, `SavedGoalReturns` |
| `system` | `OtaLockSystem` | Deaths of both nodes over calls in flight | `BeliefIsSound`, `NoGoalResentUnderHold` |
| `window` | `ApprovalWindow` | Both budgets tick by tick, with a clock set back or forward and a head unit that looks once a second | `VerdictInTime`, `DriverDecides` |
| `receive` | `CanReceive` | Two threads, start to stop, a bus that fails | `FramesReachHandler`, `ReaderAndFramesEnd` |
| `hw` | `MCHardwareLink` | Good, congested and failing sends; missed frames, late cycles, late or lost resets; lost halves, a frozen sensor, a wrapping number; over activations | `FailuresCounted`, `NoFalseSpeed`, `EachSampleOnce`, `BiasFromSettled` |
| `override` | `XboxOverride` | Fingers, pad, joy driver, executor and the override itself stop and come back at any time, with stalls as long as `joy_timeout` | `OperatorMeansMotion`, `NavKeptOff`, `SlotReleased`, `RearmNeedsRest`, `HeldKeepsVehicle` |
| `nodes` | `MCNodes` | The command chain, the small nodes and the tools, one at a time | `WheelsObey`, `HandoverThroughStop`, `BiasRemoved`, `CaptureIsClosed`, `EachSignOnce`, `PlanIsMeasured`, `ErasesNoWall`, `MapIsTheWorld` |
| `nodes_live` | `MCNodes` | Do bring-up, limit, capture, launch and probe get to their ends? | `ActivatorDelivers`, `LimitFollowsRoad`, `CaptureEnds`, `LaunchCompletes`, `ProbeReportsAll` |
| `evdev_hold` | `EvdevPad` | Does a pad that is read directly keep the vehicle as joy_node's does? | a violation of `HeldKeepsVehicle` (section 6) |

Some of these are conjunctions of parts that are defined, commented and proved by
themselves:

| Property | Parts |
|---|---|
| `SpoolInStep` | `PromptsOnScreen` (while the node runs, every pending prompt has its offer on disk, and no other is there), `NoticesExpire` (every notice has a timer); what may be left over is said of files that can be removed |
| `NobodyWaitsForever` | `PromptSettled`, `RequestAnswered` |
| `WindowExact` | `FreshFrameVerifies`, `StaleFrameRefused`: an intact frame is accepted exactly when it is inside the window |
| `LatchReachesMux` | `LatchFollowsLock`, and `LockReachesMux`, `UnlockReachesMux`: a lock or unlock that lasts gets there |
| `BeliefIsSound` | `BeliefReachesMux`, `BelievedLockHolds` |
| `FramesReachHandler` | `NothingStranded` (no wake-up is lost), `InFlightInOrder` (no frame is lost, doubled or overtaken between the socket and the handler) |
| `ReaderAndFramesEnd` | `TakenIsHandled`, `StopEndsReader` |
| `FailuresCounted` | `WriteErrorMeansStreak`, `SilenceBounded` |
| `EachSampleOnce` | `PairIsOneSample`, `NewSampleTaken` |
| `WheelsObey` | `LockStopsWheels`, `OperatorOverrides` |
| `CaptureIsClosed` | `AnsweredOnceAndFresh`, `NoCameraUntold` (when the capture is over the camera has been sent SIGTERM or has hung, and its `ros2 run` is gone) |
| `ErasesNoWall` | `WalkIsLine` (Bresenham's line, whole), `OnlySeenThroughErased` |
| `PlanIsMeasured` | `PiecesPartitionPlan`, `SameBothWays` |
| `ActivatorDelivers` | `StackComesUp`, `ActivatorEnds`, `NobodyGivenUp`, `ExitZeroMeansActive` (of nodes that have not died, while the manager has not taken the stack down) |
| `LimitFollowsRoad` | `NewestVerdictCounts`, `LimitReapplied` |
| `LaunchCompletes` | `EverythingStarted`, `DetectorComesUp`, where every call of the loops is answered (`[](Hung = {})`) |
| `ProbeReportsAll` | `<>[](phase = "done" /\ SamplesAreOwn)` |

The invariants of the proofs (`IInv`, `ChainInv`, `WindowInv`, `WakeupInv`,
`FreshnessInv`, `HeldInv`, `PromptsDistinct`, `OneCallAtATime`) were checked in the same configurations before they
were proved; the runs keep what they are there to establish.

### 3.1 Bounds, and why they are enough

* `coord`: `MaxAsks` = 2 requests in all: enough for a second request of the same ECU
  over a prompt that is pending, withdrawn or answered, and for two ECUs at once. Host
  updates, verdicts, faults and restarts are not bounded. `MaxQueue` is 1 frame where
  two ECUs can be confused with one another, 2 where the faults multiply: the handling
  of one frame depends on nothing behind it, and `CanReceive` has the queue itself. The
  code treats ECUs alike but for the budget, which is in `ApprovalWindow`; hence the
  symmetry. The head unit is there or it is not; one that falls silent while the node runs
  is left to `coord_live`, because `GateSpec` does not hold with it (section 4). There too,
  files may stay that should have been removed; who waits for what does not depend on them.
* `secoc`: modulus 3 and 5 frames give two wraps; a window of 2 is less than the modulus,
  as in the code (32768 < 65536). The proofs have no such bound.
* `estop`: depth 2 fills and overflows with a repeated lock; two goals are the saved
  one and the one that supersedes it.
* `system`: approval is not required there, since the driver adds nothing to the
  lock chain; depth 1 makes every message a dropped message; one orphan call.
* `window`: exact values of the code in ticks of 100 ms; a frame and the executor take
  at most a tick, the head unit looks for offers once a second (`node.py:126`). The clock is
  set back by 2 s, more than the ESP32's room and less than the cluster's, or forward by
  0.3 s, less than the half second above the prompt. `VerdictInTime` speaks where the
  setback fits (`Room`): of the cluster always, of the ESP32 as long as the clock is not set
  back; its room is one tick wide. `DriverDecides` speaks of each card: it is excused only if
  it came up too late to count to its end before the deadline, less what the clock went
  forward (`Late`), which on the ESP32 is a card half a second late, or 0.2 s after the step.
  The proofs hold for all budgets and steps of the clock.
* `hw`: failure limits of 2, 3 and 4 instead of 5, 100 and 500 ms, so that each can be
  reached before and after each other; two settle cycles, two calibration samples; three
  samples between two reads; two sessions of the IMU and up to three of the others, since a
  counter or a sum that survives a deactivation shows in the second and what it leads to in
  the third. The IMU number wraps at 4, with bursts of up to 3 samples between two reads: the
  code's 256 with bursts below 256.
* `override`: the staleness limit and the mux are 1 unit each, the tail 2, and the executor
  may stall for 1, as long as the staleness limit; two reports wait, so that the queue
  overflows. The proof has all limits, queues and stalls with `MaxLate <= MuxTimeout <
  TailTime`, which the code's 0.5 s and 1.0 s meet for stalls up to half a second; with a
  longer one the mux gives the slot away under the operator's hands.
  Indices may have been given and be wrong. A stall as long as the staleness limit disarms a
  hand that holds RB, which `HeldKeepsVehicle` says (`behind >= JoyTimeout`). `override_live`
  has a limit of 2 and stalls of 1.
* `nodes`, bring-up: three of the seven nodes (two required, one not; one slow in its
  configure), ticks of 5 s: 1 for a service, 3 (for 15 s and what comes before the next
  look) and 5 (for 25 s) for the other waits, as in `nodes.cfg`; one refusal and one death.
* `nodes`, command chain: 2 ticks for the mux and 1 for the controller, in the order of
  0.5 and 0.4 s; a queue of two, which overflows; a stall of one tick. Both lists of
  remappings and both launch files.
* `nodes`, small nodes: two frames in the socket, three in all, one failing `read`, one
  restart of the controller; a bias window of 3 and 6 samples; three triggers over queues
  of two (the third comes during or after the second capture); two results per message
  with the ids 0, 14 and 15, the first and the last sign and the first that is none;
  four attempts of each loop, one refusal and one lost answer.
* `nodes`, tools: plans of up to five points on a 3 by 2 grid, which contains every turn a
  plan can make and two cusps in a row; three legs, the least with a leg between two others;
  a map of 4 by 3 with three beams among all of two positions and thirty ends, inside and
  outside the map and in all eight directions; one box or cylinder of any size and place
  on the half steps of a pixel with three samples to a side.

### 3.2 Fairness

* `UpdateCoordinator!Fairness`: the executor runs what is ready (weak fairness of each
  callback), the clock reaches deadlines, a live service answers, frames arrive. A
  driver need not answer, an ECU need not finish, a stopped node need not be
  restarted. `RequestAnswered` therefore holds because of the deadline and the
  fail-open branch, not because of the driver.
* `EmergencyStop!Fairness`: timers fire, the node and the mux take what has arrived.
* `CanReceive!Fairness`: both threads run; a bus that may fail need not. The reader
  gets to see the event because its `select` has a timeout of 0.1 s.
* `XboxOverride!Fairness`, used by `override_live` only: the timer fires, `joy_node`
  repeats itself, a report that waits is handled, time passes. The operator need not touch the
  pad.
* `NavFair`: time passes, a node ends the configure it is in, the script takes its next
  step. That a node starts, or that the manager does anything, is not assumed.
* `RoadFair`: the timer fires. `CameraFair`: the executor runs and the clock of the timer
  goes on; the camera need not deliver, start, or ever shut down. `LaunchFair`: timers fire,
  processes get on, a second passes; the detector need not appear. `ProbeFair`: the probe
  goes on; nav2 need not answer, since every wait of the probe has a timeout.
* `hw`, `secoc`, `window`, `system`, `override` and `nodes` are safety only.

Where the server may die or refuse, `CallReturns` is not claimed: a future of a dead
server never completes and `_lock_state_pending` stays set.

## 4. What is proved

`tlapm` checks every proof; the assumptions are the named `ASSUME`s of the modules,
which TLC evaluates in the runs, and what is stated in the theorem.

| Theorem | States | Argument |
|---|---|---|
| `UpdateCoordinator_proofs!TypeCorrect` | `Spec => []TypeOK` | with `OneCallAtATime`, which says what the answer of a call can find |
| `SpoolAgrees`, `AlwaysPolled`, `PromptStartsUnanswered` | `[]SpoolInStep`, `[]PendingIsPolled`, `NewPromptUnanswered` | see below |
| `CallGuarded` | `[]OneCallAtATime` | by `LockStep`, one lemma about `_update_lock_state` |
| `PartOnlyByLostCall`, `FrameRepairs` | `MismatchOnlyByLostCall`, `MismatchRepaired` | `LockStep` says that after `_update_lock_state` a call is out, the server is away, or belief and set agree |
| `GateRefinement` | `Spec => GateSpec` if `"ui" \notin Faults`, with or without a head unit | one step of `UpdateGate` or a stutter for each action |
| `SecOC_proofs!Order`, `FreshAccepted`, `StaleRefused`, `WindowHolds`, `Refinement` | `[]HandledInOrder`, `[]FreshFrameVerifies`, `[]StaleFrameRefused`, `[]WindowExact` (both of them), `PromiseSpec` | `CandidateExact`: within a modulus of the floor, the reconstruction of the full value is exact |
| `EmergencyStop_proofs!TimerExact`, `LatchFollows` | `[]RestoreTimerExact`, `[]LatchFollowsLock` | `KeepLastEnds`: a message put into a topic is its last, whatever is dropped |
| `CoordinatorParts_proofs!InTime`, `Decides` | `[]VerdictInTime`, `DriverDecides`, for all budgets and however the clock is set | `WindowInv`: how old each stage can be, and how far the deadline is off by a clock that was set |
| `NoWakeupLost`, `FramesKeepOrder`, `HandlerGetsFrames` | `[]NothingStranded` and `[]FramesReachHandler` if no frame comes before the guard condition exists; `[]InFlightInOrder` in any case | `WakeupInv`; what each stage of the two threads holds |
| `OtaLockSystem_proofs!BeliefHolds`, `NoGoalUnderHold` | `[]BeliefIsSound`, `NoGoalResentUnderHold`, for every depth of the topic, number of orphans and set of faults | `ChainInv`, see below |
| `CoordinatorInChain`, `ServerInChain` | the chain implements `UpdateCoordinator!Spec`, and `EmergencyStop!Spec` if `"server" \notin Faults` | one step of the component or a stutter for each action of the chain; what is proved of a component holds in the chain |
| `HardwareLink_proofs!TypeCorrect`, `FailuresAreCounted`, `SpeedIsTrue`, `SamplesTakenOnce`, `BiasIsSettled` | `[]TypeOK`, `FailuresCounted`, `[]NoFalseSpeed`, `[]EachSampleOnce`, `[]BiasFromSettled` | `IInv`: one part for each device (`CountInv`, `EncoderInv`, `ImuInv`, `BiasInv`), each preserved on its own with `SocketInv` |
| `XboxOverride_proofs!DeadMan`, `KeepsOff`, `GivesBack`, `RearmsFromRest`, `HoldsVehicle` | `[]OperatorMeansMotion`, `[]NavKeptOff`, `[]SlotReleased`, `RearmNeedsRest`, `HeldKeepsVehicle` | `IInv`, one lemma for each of its parts |
| `Nodes_proofs!LastWord`, `Handover` | `[]WheelsObey`, `HandoverThroughStop`, for all queues, timeouts and stalls | `CommandInv`: how old a message can be where it waits, see below |
| `CaptureCloses`, `EachSignHasItsFrame`, `Unbiased` | `[]CaptureIsClosed`, `[]EachSignOnce`, `[]BiasRemoved` | see below |
| `LimitIsNewest` | `NewestVerdictCounts` if the threshold is below 256, above which the cast to eight bits changes it | `RoadInv`; `DrainedIsLast`: the loop over what was read ends with the verdict of the last frame that counts |
| `ErasedWasSeenThrough`, `WallsStay` | `[]OnlySeenThroughErased` for all beams; `[]ErasesNoWall` if none is cut off (`BeamsFit`) | `WalkCrosses`: the walk is Bresenham's line for all ends |
| `MapMatchesWorld` | `[]MapIsTheWorld` for every arena with `ArenaFits` | `DrawnInv`; `SampleBetween`: one of the samples of a pixel lies in whatever is as wide as their distance |
| `MeasureOfPlan` | `[]PlanIsMeasured`, for points with any integer coordinates and plans of any length | `PiecesLaid`: what the loop has cut; `SpansCounted`, `BendsCounted`: the counts are of places of the plan |

**Why the invariants need strengthening.** `PromptsOnScreen` is not inductive: a new
offer could carry an identifier a card, a verdict or another prompt already has.
`PromptInv` adds that no identifier anywhere is above `offer_seq`, and that a node
which is down waits for nothing; `DownInv` that it holds nothing and believes the
vehicle free. `NoticesExpire` is a part of the invariant itself: a notice and its timer
are written and deleted together, over restarts. `HandledInOrder` needs `FreshnessInv` (what waits to be handled is above
all that was handled, and not above the floor) and that the floor is behind the
sender. `NothingStranded` says something about the waiting executor only; `WakeupInv`
says it of every state in which the queue is not being drained, and what is not there
before the guard condition is.

`OperatorMeansMotion` relates a command to fingers two processes away. `IdleInv` bounds how
old the operator's will is at each stage: what waits on `/joy` is no older than the stall
(`behind`), what is held is stamped with its callback and may be older by the stall, and a
tick acts on it up to the staleness limit. `PadInv` and `QueueInv` say that nothing armed
outlives a silence and nothing is armed the driver has not heard of, in the report held and
in every report that waits, so a report that moves something is of real fingers. The slot properties
rest on `SlotInv`: while the operator is within the tail the node has spoken no
longer ago than its last tick, and tail and freedom add up to `TailTime`.

In `HardwareLink` the counters alone do not bound what is lost, since an activation looks
at none of them: `CountInv` says that each congested cycle stands for at most
`FailureLimit` lost ones, and that nothing is lost behind a counter at its limit.
`NoFalseSpeed` is about two frames; `EncoderInv` says how far the frame in the socket
and the count of the host may be behind the Tiva, and that a reset still on its way has
been seen by nobody. `EachSampleOnce` needs that all frames in the socket were sampled
since the last read (`FramesRecent`) and what was accepted before it; then a lemma about
remainders, `SameNumber`, says that the wrapping number tells them apart.

`BeliefIsSound` is about a coordinator with no call out, and a call outlives its caller.
`ChainInv` adds what a call that is out or answered says of the server: an orphan and a
belief in the lock exclude each other, and so do an orphan and a call that has been
answered, because the server takes its queue in order; and a lock that is believed in or
answered has cancelled the restore timer, which is `NoGoalResentUnderHold`.

`HeldKeepsVehicle` needs that who is engaged is armed on both triggers (`HeldInv`) and that a
pad that works was heard in this period or its reports wait (`HeardInv`): a stall shorter
than the staleness limit then leaves nothing stale.

Two stages of the command chain may delay a command, the stamper's queue and the
controller. A message carries in `late` how long it has been on its way, and `CommandInv`
turns what holds of the clocks into what holds of the messages. Nothing enters the queue
under the lock, so all that waits is older than the lock (`LockInv`). `twist_mux` relays
another source only when the operator has been silent for its timeout, so between a message
of the operator and a later one of somebody else lies that timeout (`Apart`), in every
queue and between the queues. While the operator speaks what is older moves through the
queues and out of them (`SpeaksInv`, `NewestInv`, `ReachesInv`).

In the camera node a late image may meet the next capture, and the camera of one capture may
still send in the next: `CaptureInv` says that the subscription, the images that wait in it
and the process belong to the capture under way, that the cameras before it have been told,
and that a capture which still has its subscription has no answer yet. `EachSignOnce` needs
that what is sent, lost and still pending of the message handled is what it shows, without
overlap. `BiasRemoved` needs that the sum over the window at rest is the count times the
offset.

`NewestVerdictCounts` looks at moments when the socket is empty. `RoadInv` says of every
state that what waits in the socket is what will make `is_rough` the verdict of the road.
The walk of a beam is `err = dc - dr + e`, where `e` is how far the walk is off the line
times its longer side; both comparisons of the code keep `e` within half that side
(`ErrorStep`), so the shorter side is never overrun and both end together (`WithinSides`).
The loops are inductions over the rounds. The provers cannot instantiate an induction
theorem over a predicate; `SetInduction` states it over a set, and is proved from the
well-foundedness of `<` on the natural numbers, and `Iterated` says that the recursive
function exists.

`PlanIsMeasured` is about a loop and about counting. The loop's invariant, `CutSoFar`, says
which part of the plan each run is and that the runs end at the cusps passed so far; hence
the pieces are the plan, cut at its cusps (`PiecesLaid`), and none has a cusp inside
(`NoneInside`). What is counted per piece is then counted again without the pieces: kept
pieces are pairs of neighbouring ends two points apart or more (`Spans`), reversals are
pairs of bends of opposite sides with a straight way between them (`Bends`), and each
count is a bijection (`SpansCounted`, `BendsCounted`). The plan driven back has the same
ends and bends, seen from its other end (`TurnsBack`, `SpanBack`, `BendBack`).

`MapMatchesWorld` has a hypothesis, `ArenaFits`, which the file meets: three samples to a
pixel, walls inside the margin, a map of whole pixels, and boxes and cylinders on the map. Then
between two coordinates a sample's step apart there is a sample of some pixel
(`SampleBetween`), so no obstacle is missed, and a free pixel has no unknown neighbour
(`NoGap`).

The refinement of `UpdateGate` has an assumption for a reason: with a head unit that goes away a
second REQUEST is approved at once while the first prompt stays, so an ECU may get
two verdicts for what `UpdateGate` counts as one request (section 6).

**Only model-checked**: liveness (`NobodyWaitsForever`, `CallReturns`, the second part of
`LatchReachesMux`, `SavedGoalReturns`, `ReaderAndFramesEnd`, everything of `nodes_live`),
which needs ENABLED and fairness the proof system does not handle. Every invariant of a
run is proved. The liveness properties of `nodes_live` rest on safety properties; of these
`NewestVerdictCounts` is proved, those of bring-up, launch and probe are not yet.

## 5. What is not modelled, and why

* CAN payloads, formats, log texts, file contents beyond the word a verdict file
  holds; AES-CMAC.
* The loss of a SecOC counter file (it reads as 0: the sender is refused until it has
  caught up). The model keeps what was stored.
* In the hardware component: `on_init`, the exported interfaces, the values of
  commands with their clamps, the steering calibration.
* In the gamepad override: the steering angle and the limits of speed.
* The values of velocity commands, and hence the smoother's and the controller's limits:
  `CommandChain` tells who is obeyed, not how fast.
* In the launch files: parameters, and the parts that only a launch argument adds (rviz,
  the point cloud, localization), which nothing waits for.
* In the probe: its statistics over the samples, which are sums of one leg; in the measure
  of a plan the thresholds of 1e-9 below which a step or a turn counts as none, which no
  turn of the grid comes near, its length, and the `None` for a plan too short to measure.
* In the coordinator, the reset of `offer_seq` to 0 at start (`node.py:207`): the identifier
  has the clock in it, and the model keeps the number instead (2.1).
* nav2, `twist_mux` and the ROS middleware, beyond what the code's use of them says.
* `v_pace_db.c` is generated from the DBC: for each signal a fixed shift, mask and range
  check, without state.
* nav2's parameter files and behaviour trees configure third-party nodes; URDF, worlds and
  the training notebook describe things and decide nothing at run time.

## 6. Known disagreements between the code and what it says of itself

These were met while modelling. Each has a configuration that shows it, kept beside
the runs for whoever changes the code. Where a configuration is named for several
properties it checks the first and has the others in comments.

One of them is a run, `evdev_hold`. The header of `xbox_override.py` promises that who
holds RB keeps the vehicle, "zeros included" (:29-30), and that with `--input evdev` only the
source of the values changes (:198). `tick` takes a pad it has heard nothing of for
`joy_timeout` to be gone (:393). `joy_node` repeats itself, so that is right for it; the
kernel reports changes only, and `pump` makes a report only of an event (:342-359). An
operator who holds RB and moves nothing is disarmed after `joy_timeout` and loses the
vehicle to navigation after the tail.

The first one of the table matters most. `docs/ARCHITECTURE.md` 5.1 says the coordinator locks
when the set of updates becomes non-empty and unlocks when it empties. When the set
changes while a call is out, `_update_lock_state` returns (`node.py:597`) and
`_on_service_done` does not look again: the vehicle stays free under a running update,
or locked with nothing to update, until some later frame. `MismatchOnlyByLostCall` and
`MismatchRepaired` say precisely how far this goes.

| Configuration | Property | What happens | What is said |
|---|---|---|---|
| `coord_disagree` (MCUpdateCoordinator) | `LockFollowsSet` | the set changes while a call is out (`node.py:597`) | `docs/ARCHITECTURE.md:785-787` |
| `coord_disagree` (MCUpdateCoordinator) | `ExpiredIsReleased` | an update that joins while the unlock is out gets no timeout timer (`node.py:597`) | `update_coordinator.launch.py:33` |
| `coord_disagree` (MCUpdateCoordinator) | `SecondRequestDropsPrompt` | a second REQUEST that finds no head unit leaves the first prompt pending (`node.py:479`) | `node.py:486-488` |
| `coord_disagree` (MCUpdateCoordinator) | `DenyHoldsNothing` | approve, ask again, deny: the ECU stays in `active_ecus` (`node.py:541`) | `node.py:538-540` |
| `estop_disagree` (EmergencyStop) | `SavedGoalInFlight` | the saved goal had already ended, or is not the one nav2 drives to (`emergency_stop_server.cpp:140`) | `emergency_stop_server.cpp:138` |
| `estop_disagree` (EmergencyStop) | `RestoreKeepsDriversGoal` | a goal sent between unlock and restore is replaced by the older one (`:111`) | `robot.launch.py:69-71` |
| `estop_disagree` (EmergencyStop) | `CancelledGoalIsSaved` | a goal whose status has not been read is cancelled and not saved (`:140`) | `robot.launch.py:69-71` |
| `estop_disagree` (EmergencyStop) | `NavigatorDoesNotResume` | a goal that reaches nav2 after the cancel is driven to (`:72`) | `docs/ARCHITECTURE.md:788` |
| `system_moving` (OtaLockSystem) | `UpdateRunsHeld` | the approval reaches the ECU before the lock reaches the mux (`node.py:482`) | `emergency_stop_server.cpp:12` |
| `system_orphan` (OtaLockSystem) | `EmptySetFrees` | a coordinator that restarts does not know the vehicle is held (`node.py:657`) | `docs/ARCHITECTURE.md:796` |
| `window_clock` (ApprovalWindow) | `NoAnswerStillInTime` | a clock that is set back postpones the deadline (`node.py:510`) | `node.py:106-107` |
| `window_clock` (ApprovalWindow) | `WindowOnEveryTarget` | the ESP32's card appears up to a second after the offer, with half a second to spare, or the clock is set forward (`node.py:563`): the default overtakes it | `node.py:100` |
| `receive_ready` (CanReceive) | `ReadyListens` | a frame before `self._gc` exists ends the reader thread (`node.py:190`) | `node.py:213` |
| `hw_disagree` (HardwareLink) | `HostAndTivaConsistent` | a frame from before the Tiva's reset is differenced against zero (`ackermann_system.cpp:279`) | `ackermann_system.cpp:281-285` |
| `hw_disagree` (HardwareLink) | `CongestionRiddenOut` | a full queue on the steering send counts as a hard failure (`ackermann_system.cpp:658`) | `ackermann_system.hpp:142-144` |
| `hw_disagree` (HardwareLink) | `GyroStillDuringSetup` | the last rate of an earlier activation is exported during the settle window (`ackermann_system.cpp:304`) | `ackermann_system.cpp:504` |
| `evdev_hold` (EvdevPad) | `EvdevSeesRest` | the thread seeds both triggers with rest, so who engages need not have let go of them (`xbox_override.py:336-338`) | `xbox_override.py:58` |
| `camera_deaf` (CameraCompressor) | `CameraKilled` | `wait` is for the `ros2 run`, which ends on SIGTERM; the camera goes on until it has shut down, also into the next capture, and if it hangs no SIGKILL follows (`camera_compressor.py:142-147`) | `camera_compressor.py:139-140` |
| `nodes_disagree` (MCNodes) | `GoalReachesWheels` | exit code 0 with `velocity_smoother` inactive, which every command of the controller passes (`activate.py:76-85`) | `activate.py:76-78` |
| `nodes_disagree` (MCNodes) | `WindowIsStationary` | nothing keeps navigation or the operator from driving within the window | `imu_scale.py:68-71` |
| `nodes_disagree` (MCNodes) | `CuspsReported` | a run of two points is dropped, and the cusp at its end with it (`nav_probe.py:100-119`) | `nav_probe.py:118-119` |
| `nodes_disagree` (MCNodes) | `RunsAreIndependent` | a goal that was given up is still driven to while the next leg starts, its steering is counted there, and the last plan is still held (`nav_probe.py:195-212`) | `nav_probe.py:23-24` |
| `nodes_disagree` (MCNodes) | `OccupiedIsObstacle` | the last sample of a pixel is on its edge, so a pixel that only touches an obstacle is occupied (`make_arena.py:232-239`) | `make_arena.py:264-265` |
| `nodes_disagree` (MCNodes) | `LoopsEnd` | `ros2 lifecycle set` has no timeout: when its answer is lost the loop hangs (`yolo_auto_launch.py:108`) | `yolo_auto_launch.py:105` |

Two more configurations hold. `system_live` (OtaLockSystem) checks `LockHoldsVehicle`
and `UnlockFreesVehicle` without requests of the ECUs; it follows from
`BeliefReachesMux` and the fairness of the mux, so it is not a run of its own.
`override_live` (XboxOverride) checks `OperatorGetsVehicle`: an operator who holds RB on a
working pad with both triggers released gets the vehicle and keeps it, on an executor that
stalls for less than the staleness limit. `evdev_hold`
with the invariants of its first line, `NavKeptOff` and `SlotReleased`, holds over the evdev
thread's two writes as well.

## 7. Plan

Done: every component of section 1.1 that keeps state, and a proof of every invariant
the runs check. What is left, in this order:

1. The safety parts of the bring-up script, the probe and the launch files: exit code 0
   means active, samples belong to their leg, everything is started once.
2. The loss of a counter file in `SecOC`; commands and clamps in `HardwareLink`.

Abstract specifications worth stating next: `HeldWhileUpdating` for the lock chain, and
a command arbiter (whoever has the highest live priority drives, and a source that
falls silent has stopped the car first) for the override and the mux.
