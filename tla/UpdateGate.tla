------------------------------ MODULE UpdateGate ------------------------------
(***************************************************************************)
(* What the update coordinator promises, without prompts, files, timers or *)
(* service calls: a request is owed one verdict until it gets one or is    *)
(* given up; an APPROVE always comes with the requester being held in the  *)
(* set that stops the vehicle; a DENY adds nothing to that set.            *)
(***************************************************************************)
EXTENDS Sequences

CONSTANTS Requesters, Jetson

VARIABLES
  owed,   \* requesters whose last REQUEST has no verdict yet
  held,   \* updates the vehicle has to stand still for
  wire    \* verdict frames on their way to each requester

vars == <<owed, held, wire>>

Init == owed = {} /\ held = {} /\ wire = [n \in Requesters |-> <<>>]

Send(n, v) == wire' = [wire EXCEPT ![n] = Append(@, v)]

\* A REQUEST is taken up; a repeated one replaces the one before it.
Ask(n) == owed' = owed \cup {n} /\ UNCHANGED <<held, wire>>

Grant(n) ==
  /\ n \in owed
  /\ owed' = owed \ {n} /\ held' = held \cup {n} /\ Send(n, "APPROVE")

Refuse(n) ==
  /\ n \in owed
  /\ owed' = owed \ {n} /\ Send(n, "DENY") /\ UNCHANGED held

\* Nobody can be asked: the REQUEST is granted in the step that takes it up,
\* and nothing of an earlier one is owed after it.
GrantUnasked(n) ==
  owed' = owed \ {n} /\ held' = held \cup {n} /\ Send(n, "APPROVE")

HoldHost == held' = held \cup {Jetson} /\ UNCHANGED <<owed, wire>>

LetGo == \E S \in SUBSET held : held' = held \ S /\ UNCHANGED <<owed, wire>>

\* The node stops: it owes nothing and holds nothing any more.
Forget == owed' = {} /\ held' = {} /\ UNCHANGED wire

Deliver(n) ==
  /\ wire[n] # <<>>
  /\ wire' = [wire EXCEPT ![n] = Tail(@)] /\ UNCHANGED <<owed, held>>

Next ==
  \/ \E n \in Requesters : Ask(n) \/ Grant(n) \/ Refuse(n) \/ GrantUnasked(n)
                           \/ Deliver(n)
  \/ HoldHost \/ LetGo \/ Forget

Spec == Init /\ [][Next]_vars
===============================================================================
