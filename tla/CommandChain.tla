----------------------------- MODULE CommandChain -----------------------------
(***************************************************************************)
(* The way of a velocity command: from nav2, its recoveries or the         *)
(* operator over velocity_smoother, twist_mux and twist_stamper to the     *)
(* ackermann_controller, wired by the remappings of navigation_launch.py,  *)
(* robot.launch.py and sim.launch.py.  twist_stamper may stall; the other  *)
(* nodes handle a message before time passes.                              *)
(***************************************************************************)
EXTENDS Integers, Sequences, SequencesExt

CONSTANTS MuxTimeout, \* twist_mux_topics.yaml: timeout, 0.5 s
          RefTimeout, \* controllers.yaml: reference_timeout, 0.4 s
          StamperDepth,      \* queue of the stamper's subscription, 10
          MaxStall    \* bound: ticks the stamper does not run

ASSUME CommandChainAssumption ==
  {MuxTimeout, RefTimeout, StamperDepth, MaxStall} \subseteq Nat \ {0}

VARIABLES
  vehicle,   \* TRUE robot.launch.py, FALSE sim.launch.py
  composed,  \* navigation_launch.py use_composition
  topic,     \* messages under way on each topic
  heard,     \* twist_mux: ticks since it heard each of its topics
  emergency, \* the lock, priority 255
  lockedFor, \* ticks since it was locked
  stall,     \* ticks the stamper has not run
  reference, \* the controller's command: [from, late, age]
  slot,      \* the sources that have spoken since the last tick
  spoken     \* the operator has spoken in each of so many ticks, unlocked

chain_vars == <<vehicle, composed, topic, heard, emergency, lockedFor, stall, reference, slot, spoken>>

-----------------------------------------------------------------------------
(* Wiring: what each node calls cmd_vel, after its remappings.             *)

Topics  == {"cmd_vel_nav", "cmd_vel_nav_smoothed", "cmd_vel_recovery", "cmd_vel_teleop",
            "cmd_vel", "cmd_vel_stamped", "ackermann_controller/reference"}

\* load_nodes: the topic a source publishes on.
Standalone == [controller_server |-> "cmd_vel_nav", behavior_server |-> "cmd_vel_recovery",
               velocity_smoother |-> "cmd_vel_nav_smoothed"]

\* load_composable_nodes: the same remappings, written a second time.
\* Mutant: the second list lacks the one of behavior_server.
Composable_Recovery == [Standalone EXCEPT !.behavior_server = "cmd_vel"]
Composable == [controller_server |-> "cmd_vel_nav", behavior_server |-> "cmd_vel_recovery",
               velocity_smoother |-> "cmd_vel_nav_smoothed"]

Nav == IF composed THEN Composable ELSE Standalone

\* The operator speaks on cmd_vel_teleop.
Sources == {"controller_server", "behavior_server", "teleop"}
Voice(s) == IF s = "teleop" THEN "cmd_vel_teleop" ELSE Nav[s]

\* twist_mux_topics.yaml: priorities of the topics.
\* Mutant: the operator below recovery.
Priority_Old == [cmd_vel_nav_smoothed |-> 10, cmd_vel_recovery |-> 150, cmd_vel_teleop |-> 100]
Priority == [cmd_vel_nav_smoothed |-> 10, cmd_vel_recovery |-> 100, cmd_vel_teleop |-> 150]
MuxTopics == DOMAIN Priority

\* robot.launch.py remaps the controller onto the stamper, sim.launch.py the
\* stamper onto the controller.
StamperOut == IF vehicle THEN "cmd_vel_stamped" ELSE "ackermann_controller/reference"

ReferenceIn == IF vehicle THEN "cmd_vel_stamped" ELSE "ackermann_controller/reference"

-----------------------------------------------------------------------------
(* Nodes *)

\* A queue of depth n keeps the last n messages.
Kept(q) == IF Len(q) > StamperDepth THEN Tail(q) ELSE q
Publish(t, m) == [topic EXCEPT ![t] = Kept(Append(@, m))]
Taken(t)   == [topic EXCEPT ![t] = Tail(@)]
Pass(t, u) == LET m == Head(topic[t]) IN [Taken(t) EXCEPT ![u] = Kept(Append(@, m))]

\* Between two messages a node that is not stalled has nothing left to handle.
Quiet == \A t \in MuxTopics \cup {"cmd_vel_nav", ReferenceIn} : topic[t] = <<>>

Issue(s) ==
  /\ Quiet /\ s \notin slot /\ slot' = slot \cup {s}
  /\ topic' = Publish(Voice(s), [from |-> s, late |-> 0])
  /\ UNCHANGED <<vehicle, composed, heard, emergency, lockedFor, stall, reference, spoken>>

Smoother ==
  /\ topic["cmd_vel_nav"] # <<>>
  /\ topic' = Pass("cmd_vel_nav", Nav.velocity_smoother)
  /\ UNCHANGED <<vehicle, composed, heard, emergency, lockedFor, stall, reference, slot, spoken>>

\* twist_mux relays the message of a topic if no lock and no topic of a higher
\* priority that it has heard within its timeout stands above it.
Live(t) == heard'[t] <= MuxTimeout
Relayed(t) == ~emergency /\ \A u \in MuxTopics : Live(u) => Priority[u] <= Priority[t]

Mux(t) ==
  /\ topic[t] # <<>>
  /\ heard' = [heard EXCEPT ![t] = 0]
  /\ topic' = IF Relayed(t) THEN Pass(t, "cmd_vel") ELSE Taken(t)
  /\ UNCHANGED <<vehicle, composed, emergency, lockedFor, stall, reference, slot, spoken>>

\* twist_stamper.py: a message gets the time of the callback, not of the command.
Stamper ==
  /\ topic["cmd_vel"] # <<>>
  /\ topic' = Pass("cmd_vel", StamperOut)
  /\ stall' = IF Len(topic["cmd_vel"]) = 1 THEN 0 ELSE stall
  /\ UNCHANGED <<vehicle, composed, heard, emergency, lockedFor, reference, slot, spoken>>

Controller ==
  /\ topic[ReferenceIn] # <<>>
  /\ reference' = LET m == Head(topic[ReferenceIn]) IN [from |-> m.from, late |-> m.late, age |-> 0]
  /\ topic' = Taken(ReferenceIn)
  /\ UNCHANGED <<vehicle, composed, heard, emergency, lockedFor, stall, slot, spoken>>

\* The controller's update: a reference past its timeout is zero.
Driving == IF reference.age <= RefTimeout THEN reference.from ELSE "nobody"

Lock == /\ Quiet /\ ~emergency /\ emergency' = TRUE /\ lockedFor' = 0 /\ spoken' = 0
        /\ UNCHANGED <<vehicle, composed, topic, heard, stall, reference, slot>>

Unlock == /\ Quiet /\ emergency /\ emergency' = FALSE /\ lockedFor' = 0
          /\ UNCHANGED <<vehicle, composed, topic, heard, stall, reference, slot, spoken>>

\* Ages are kept up to the point from which they no longer matter.
Older(n, most) == IF n > most THEN n ELSE n + 1

Elapse ==
  /\ Quiet
  /\ topic["cmd_vel"] # <<>> => stall < MaxStall
  /\ topic' = [t \in Topics |-> [i \in DOMAIN topic[t] |-> [topic[t][i] EXCEPT !.late = @ + 1]]]
  /\ stall' = IF topic["cmd_vel"] = <<>> THEN 0 ELSE stall + 1
  /\ heard' = [t \in MuxTopics |-> Older(heard[t], MuxTimeout)]
  /\ lockedFor' = IF emergency THEN Older(lockedFor, MaxStall + RefTimeout) ELSE 0
  /\ reference' = [reference EXCEPT !.age = Older(@, RefTimeout)]
  /\ slot' = {}
  /\ spoken' = IF "teleop" \in slot /\ ~emergency THEN Older(spoken, 2 * MaxStall) ELSE 0
  /\ UNCHANGED <<vehicle, composed, emergency>>

ChainInit ==
  /\ vehicle \in BOOLEAN /\ composed \in BOOLEAN
  /\ topic = [t \in Topics |-> <<>>]
  /\ heard = [t \in MuxTopics |-> MuxTimeout + 1]
  /\ emergency = FALSE /\ lockedFor = 0 /\ stall = 0
  /\ reference = [from |-> "nobody", late |-> 0, age |-> RefTimeout + 1]
  /\ slot = {} /\ spoken = 0

ChainNodes == Smoother \/ (\E t \in MuxTopics : Mux(t)) \/ Stamper \/ Controller
ChainNext == (\E s \in Sources : Issue(s)) \/ ChainNodes \/ Lock \/ Unlock \/ Elapse

ChainSpec == ChainInit /\ [][ChainNext]_chain_vars

-----------------------------------------------------------------------------
(* Properties *)

\* The lock stops the wheels, whoever speaks and wherever the graph was
\* started: what was in the stamper's queue keeps them turning for as long as
\* the stamper stalls and one reference_timeout, and no longer.
LockStopsWheels == lockedFor > MaxStall + RefTimeout => Driving = "nobody"

\* controllers.yaml:78-79, "it must stay faster than mux's own handoff
\* decision": after the operator the wheels stop before anybody else drives
\* them, unless the stamper was late with what the operator said.
HandoverThroughStop ==
  [][(Driving = "teleop" /\ Driving' \notin {"teleop", "nobody"})
       => reference.late + RefTimeout >= MuxTimeout]_chain_vars

\* twist_mux_topics.yaml:2, "The operator can always override a running
\* recovery": once the operator has spoken for longer than two stalls of the
\* stamper, the wheels turn for nobody else, whatever nav2 and its recoveries
\* say, and they do turn unless it stalls again.
OperatorOverrides ==
  spoken > 2 * MaxStall /\ Quiet => Driving = "teleop" \/ (stall > 0 /\ Driving = "nobody")

\* The wheels obey whoever has the last word: the lock, and below it the operator.
WheelsObey == LockStopsWheels /\ OperatorOverrides
=============================================================================
