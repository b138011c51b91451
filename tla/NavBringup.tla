------------------------------ MODULE NavBringup ------------------------------
(***************************************************************************)
(* Bringing nav2 up: the nodes of navigation_launch.py, the lifecycle      *)
(* manager that starts them and gives up on the first call that takes too  *)
(* long, and activate.py, which goes over the same nodes at the same time  *)
(* and finishes what is left.  activate.py is the program under study; the *)
(* nodes and the manager are nav2's, modelled from how it speaks of them.  *)
(*                                                                         *)
(* Time is counted in ticks of 5 s, the shortest wait in activate.py.  No  *)
(* tick passes while a node that is not busy has a request to answer.      *)
(***************************************************************************)
EXTENDS Integers, Sequences, SequencesExt

CONSTANTS Order,       \* ORDER: the nodes one after the other
          Required,    \* REQUIRED
          DrivePath,   \* nodes a command of the controller passes (Wiring)
          Tries,       \* the attempts at one node, 3
          ServiceWait, \* wait_for_service, in ticks
          LookWait,    \* spin_until_future_complete of get_state
          CallWait,    \* spin_until_future_complete of change_state
          Slow,        \* the ticks a node may spend in configure: node -> ticks
          ManagerWait, \* the manager waits so long for one call
          MaxFails,    \* bound: transitions that fail
          MaxDeaths    \* bound: nodes that die; nothing restarts them

Nodes == ToSet(Order)
Count == Len(Order)

ASSUME NavBringupAssumption ==
  /\ Required \subseteq Nodes /\ DrivePath \subseteq Nodes
  /\ {Tries, ServiceWait, LookWait, CallWait, ManagerWait, MaxFails, MaxDeaths} \subseteq Nat
  /\ Slow \in [Nodes -> Nat]

VARIABLES
  life,     \* life-cycle state of each node; "absent" before its service is there
  left,     \* ticks until the configure under way is finished
  manager,  \* lifecycle_manager: [doing, at, waited]
  step,     \* activate.py: where it is
  at,       \* and at which node, 1..Count+1
  try,      \* and at which attempt
  waited,   \* ticks spent in the wait it is in
  called,   \* the transition it asked for
  final,     \* final[name], the last look at each node
  exit,     \* its exit code: "running", 0 or 1
  fails, deaths

nav_vars == <<life, left, manager, step, at, try, waited, called, final, exit, fails, deaths>>
acting   == <<step, at, try, waited, called, final, exit>>

There(n) == life[n] \notin {"absent", "dead"}
Busy(n)  == life[n] = "configuring"

NavInit ==
  /\ life \in [Nodes -> {"absent", "unconfigured"}]
  /\ left = [n \in Nodes |-> 0]
  /\ manager = [doing |-> "configure", at |-> 1, waited |-> 0]
  /\ step = "discover" /\ at = 1 /\ try = 1 /\ waited = 0 /\ called = "none"
  /\ final = [n \in Nodes |-> "none"] /\ exit = "running"
  /\ fails = 0 /\ deaths = 0

-----------------------------------------------------------------------------
(* A node serves change_state: a transition that does not start from its   *)
(* state, or that fails, is answered with success = False.                 *)

From == [configure |-> "unconfigured", activate |-> "inactive"]

\* n, which is idle, takes the transition t; ok is the answer it will give.
Takes(n, t, ok) ==
  /\ There(n) /\ ~Busy(n)
  /\ IF life[n] # From[t] THEN ok = FALSE /\ UNCHANGED <<life, left, fails>>
     ELSE \/ /\ ok /\ t = "configure" /\ life' = [life EXCEPT ![n] = "configuring"]
             /\ \E d \in 0..Slow[n] : left' = [left EXCEPT ![n] = d]
             /\ UNCHANGED fails
          \/ /\ ok /\ t = "activate" /\ life' = [life EXCEPT ![n] = "active"]
             /\ UNCHANGED <<left, fails>>
          \/ /\ ~ok /\ fails < MaxFails /\ fails' = fails + 1
             /\ UNCHANGED <<life, left>>

Configured(n) ==
  /\ Busy(n) /\ left[n] = 0
  /\ life' = [life EXCEPT ![n] = "inactive"]
  /\ UNCHANGED <<left, manager, acting, fails, deaths>>

Starts(n) ==
  /\ life[n] = "absent" /\ life' = [life EXCEPT ![n] = "unconfigured"]
  /\ UNCHANGED <<left, manager, acting, fails, deaths>>

Dies(n) ==
  /\ There(n) /\ deaths < MaxDeaths
  /\ deaths' = deaths + 1 /\ life' = [life EXCEPT ![n] = "dead"]
  /\ left' = [left EXCEPT ![n] = 0]
  /\ UNCHANGED <<manager, acting, fails>>

-----------------------------------------------------------------------------
(* lifecycle_manager_navigation with autostart: all are configured, then    *)
(* all are activated; one bad answer or one late one and it aborts.         *)

Aborted == [doing |-> "aborted", at |-> 0, waited |-> 0]
Onward  == IF manager.at < Count THEN [manager EXCEPT !.at = @ + 1, !.waited = 0]
           ELSE [doing |-> IF manager.doing = "configure" THEN "activate" ELSE "up",
                 at |-> 1, waited |-> 0]

ManagerCalls ==
  /\ manager.doing \in {"configure", "activate"}
  /\ \E ok \in BOOLEAN :
       /\ Takes(Order[manager.at], manager.doing, ok)
       /\ manager' = IF ~ok THEN Aborted
                     ELSE IF manager.doing = "activate" THEN Onward
                     ELSE [manager EXCEPT !.doing = "waiting"]
  /\ UNCHANGED <<acting, deaths>>

ManagerAnswered ==
  /\ manager.doing = "waiting" /\ ~Busy(Order[manager.at])
  /\ manager' = IF life[Order[manager.at]] = "dead" THEN Aborted
                ELSE LET m == [manager EXCEPT !.doing = "configure"] IN
                     IF m.at < Count THEN [m EXCEPT !.at = @ + 1, !.waited = 0]
                     ELSE [doing |-> "activate", at |-> 1, waited |-> 0]
  /\ UNCHANGED <<life, left, acting, fails, deaths>>

\* Its bond to a node is broken: it takes the whole stack down.
BondBroken ==
  /\ manager.doing = "up" /\ \E n \in Nodes : life[n] = "dead"
  /\ manager' = [Aborted EXCEPT !.doing = "down"]
  /\ life' = [n \in Nodes |-> IF There(n) THEN "unconfigured" ELSE life[n]]
  /\ UNCHANGED <<left, acting, fails, deaths>>

ManagerGivesUp ==
  /\ manager.doing = "waiting" /\ manager.waited >= ManagerWait
  /\ manager' = Aborted
  /\ UNCHANGED <<life, left, acting, fails, deaths>>

-----------------------------------------------------------------------------
(* activate.py.  The loop over ORDER looks and acts up to three times, the  *)
(* second loop looks once at each node for the final verdict.               *)

Name    == Order[at]
Goto(s) == step' = s /\ waited' = 0

\* WANT
Want == [unconfigured |-> "configure", inactive |-> "activate"]

\* The loop leaves this node and takes the next one, or the final loop begins.
NextNode ==
  /\ try' = 1 /\ called' = "none"
  /\ IF at < Count THEN at' = at + 1 /\ Goto("discover")
     ELSE at' = 1 /\ Goto("final")

\* Mutant: a node gets one attempt.
NextTry_Once == NextNode

\* One attempt is over (time.sleep(0.5)); the for ends after Tries of them.
NextTry ==
  IF try < Tries THEN try' = try + 1 /\ called' = "none" /\ Goto("discover") /\ UNCHANGED at
  ELSE NextNode

LookPatience == LookWait

\* state_of: the service is there or not.
Discover ==
  /\ step = "discover" /\ exit = "running"
  /\ \/ There(Name) /\ Goto("look") /\ UNCHANGED <<at, try, called>>
     \/ ~There(Name) /\ waited >= ServiceWait /\ NextNode
  /\ UNCHANGED <<life, left, manager, final, exit, fails, deaths>>

\* state_of answers: active is done, what is in WANT is called for, and
\* anything else is "stuck".
Look ==
  /\ step = "look" /\ exit = "running"
  /\ \/ /\ There(Name) /\ ~Busy(Name)
        /\ IF life[Name] \in DOMAIN Want
           THEN called' = Want[life[Name]] /\ Goto("call") /\ UNCHANGED <<at, try>>
           ELSE NextNode
     \/ waited >= LookPatience /\ NextNode
  /\ UNCHANGED <<life, left, manager, final, exit, fails, deaths>>

\* transition: the service is waited for again, and then its answer.
Call ==
  /\ step = "call" /\ exit = "running"
  /\ \/ \E ok \in BOOLEAN :
          /\ Takes(Name, called, ok)
          /\ IF ok /\ called = "configure" THEN Goto("answer") /\ UNCHANGED <<at, try, called>>
             ELSE NextTry
     \/ ~There(Name) /\ waited >= ServiceWait /\ NextTry /\ UNCHANGED <<life, left, fails>>
     \/ Busy(Name) /\ waited >= CallWait /\ NextTry /\ UNCHANGED <<life, left, fails>>
  /\ UNCHANGED <<manager, final, exit, deaths>>

Answered == (There(Name) /\ ~Busy(Name)) \/ waited >= CallWait

Answer ==
  /\ step = "answer" /\ exit = "running" /\ Answered
  /\ NextTry
  /\ UNCHANGED <<life, left, manager, final, exit, fails, deaths>>

\* The second loop: state_of once more, None if it does not answer in time.
FinalLook ==
  /\ step = "final" /\ exit = "running" /\ at <= Count
  /\ \/ There(Name) /\ ~Busy(Name) /\ final' = [final EXCEPT ![Name] = life[Name]]
     \/ /\ ~There(Name) \/ Busy(Name)
        /\ waited >= IF Busy(Name) THEN LookPatience ELSE ServiceWait
        /\ final' = [final EXCEPT ![Name] = "none"]
  /\ at' = at + 1 /\ Goto("final")
  /\ UNCHANGED <<life, left, manager, try, called, exit, fails, deaths>>

Missing == {n \in Required : final[n] # "active"}

Exit ==
  /\ step = "final" /\ exit = "running" /\ at > Count
  /\ exit' = IF Missing = {} THEN "0" ELSE "1"
  /\ UNCHANGED <<life, left, manager, step, at, try, waited, called, final, fails, deaths>>

Activator == Discover \/ Look \/ Call \/ Answer \/ FinalLook \/ Exit

-----------------------------------------------------------------------------
(* Time *)

Limit == CASE step = "discover"           -> ServiceWait
           [] step \in {"look", "final"}  -> LookPatience
           [] step \in {"call", "answer"} -> CallWait

\* Somebody has something to do at once.
Due ==
  \/ \E n \in Nodes : Busy(n) /\ left[n] = 0
  \/ /\ exit = "running"
     /\ \/ at > Count \/ waited >= Limit
        \/ There(Name) /\ ~Busy(Name)

Tick ==
  /\ ~Due
  /\ exit = "running" \/ (\E n \in Nodes : Busy(n)) \/ manager.doing = "waiting"
  /\ left' = [n \in Nodes |-> IF left[n] > 0 THEN left[n] - 1 ELSE 0]
  /\ waited' = IF exit = "running" THEN waited + 1 ELSE waited
  /\ manager' = IF manager.doing = "waiting" /\ manager.waited < ManagerWait
                THEN [manager EXCEPT !.waited = @ + 1] ELSE manager
  /\ UNCHANGED <<life, step, at, try, called, final, exit, fails, deaths>>

NavManager == ManagerCalls \/ ManagerAnswered \/ ManagerGivesUp \/ BondBroken
NavNext == (\E n \in Nodes : Configured(n) \/ Starts(n) \/ Dies(n))
           \/ NavManager \/ Activator \/ Tick

NavSpec == NavInit /\ [][NavNext]_nav_vars

\* Time passes, a configure ends, and the script goes on; that a node starts,
\* or that the manager does anything, is not assumed.
NavFair == NavSpec /\ WF_nav_vars(Tick) /\ WF_nav_vars(Activator)
           /\ \A n \in Nodes : WF_nav_vars(Configured(n))

-----------------------------------------------------------------------------
(* Properties *)

\* activate.py gives a node up only if it is not there: a configure that takes
\* its 15 s is waited for, whoever asked for it.
NobodyGivenUp ==
  [][(step = "look" /\ at' # at) => life[Name] \in {"active", "absent", "dead"}]_nav_vars

\* activate.py, exit code 0: the three load-bearing nodes are active, unless one has
\* died since it was looked at, or the manager has taken the stack down for a death.
ExitZeroMeansActive ==
  exit = "0" /\ manager.doing # "down" => \A n \in Required : life[n] \in {"active", "dead"}

\* Whatever the manager does meanwhile, and though one transition fails, the
\* script ends with 0 when every node was there from the start and none dies.
StackComesUp ==
  (\A n \in Nodes : There(n)) /\ [](deaths = 0) => <>(exit = "0")

\* The script ends, though nodes are missing, die or do not answer.
ActivatorEnds == <>(exit # "running")

\* activate.py:76-78: "without bt_navigator nothing receives a NavigateToPose,
\* and without the planner or controller nothing acts on one. The other four
\* are useful but not load-bearing": after exit code 0, with every process there
\* and nobody left to change anything, the path of a command is active.
GoalReachesWheels ==
  (exit = "0" /\ manager.doing \in {"up", "aborted"} /\ \A n \in Nodes : There(n))
    => \A n \in DrivePath : life[n] = "active"

\* What the script promises on its way and at its end.
ActivatorDelivers == StackComesUp /\ ActivatorEnds /\ NobodyGivenUp /\ []ExitZeroMeansActive
=============================================================================
