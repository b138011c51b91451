----------------------------- MODULE OtaLockSystem -----------------------------
(***************************************************************************)
(* The chain an OTA update goes through (docs/ARCHITECTURE.md 5.1): the    *)
(* update coordinator calls the emergency-stop server, the server tells    *)
(* twist_mux, and twist_mux keeps the last thing it was told.              *)
(*                                                                         *)
(* The two nodes are UpdateCoordinator.tla and EmergencyStop.tla over one  *)
(* state: a call the coordinator waits for is a service handler the server *)
(* runs.  A call can outlive its caller: a request in the server's queue   *)
(* is handled after the coordinator that made it has stopped.              *)
(***************************************************************************)
EXTENDS Naturals, Sequences, FiniteSets

CONSTANTS Requesters, Jetson, RequireApproval, OnNoVerdict, Faults, MaxAsks,
          MaxQueue, Goals, RestoreGoal, Depth, MaxGoals,
          MaxOrphans  \* bound: calls in the server's queue without a caller

VARIABLES up, active_ecus, expired, is_locked, lock_state_pending, timeout_timer,
          pending, overdue, poll_timer, offer_seq, notice_timers, can_queue, call,
          self_flag, offers, verdicts, notices, ui_alive, cards, server_ready,
          ecu, asks, wire

VARIABLES locked, nav_goal_active, last_goal, pending_restore, restore_timer,
          lock_topic, mux_locked, to_server, to_nav, cancel_sent, nav,
          nav_status, sent

VARIABLES
  orphans,  \* calls in the server's queue whose caller has stopped
  adrift    \* history: the coordinator stopped while it held the vehicle or was
            \* about to, and no call of its successor has been served yet

coordinatorVars ==
  <<up, active_ecus, expired, is_locked, lock_state_pending, timeout_timer,
    pending, overdue, poll_timer, offer_seq, notice_timers, can_queue, call,
    self_flag, offers, verdicts, notices, ui_alive, cards, server_ready, ecu,
    asks, wire>>
navVars  == <<to_nav, cancel_sent, nav>>
stopVars == <<locked, nav_goal_active, last_goal, pending_restore,
              restore_timer, lock_topic, mux_locked, to_server, navVars,
              nav_status, sent>>
vars == <<coordinatorVars, stopVars, orphans, adrift>>

C == INSTANCE UpdateCoordinator
E == INSTANCE EmergencyStop

\* The handlers of the server always answer with success.
ASSUME OtaLockSystemAssumption ==
  "reject" \notin Faults /\ MaxOrphans \in Nat /\ Depth \in Nat \ {0}

TypeOK ==
  C!TypeOK /\ E!TypeOK /\ orphans \in Seq({"lock", "unlock"}) /\ adrift \in BOOLEAN

\* The head unit is there; the lock is called for in the same way without it.
Init == C!Init /\ ui_alive /\ E!Init /\ orphans = <<>> /\ adrift = FALSE

-----------------------------------------------------------------------------
(* The coordinator and what surrounds it *)

\* The coordinator takes a step and goes on.
CoordinatorRuns ==
  /\ C!Callback \/ C!Clock \/ C!HeadUnitActs \/ C!EcusAct
  /\ up' = up
  /\ UNCHANGED <<stopVars, orphans, adrift>>

\* It stops: the call it waited for stays in the server's queue.
CoordinatorStops ==
  /\ C!Callback \/ C!Crash \/ C!DestroyNode
  /\ up /\ ~up' /\ Len(orphans) < MaxOrphans
  /\ orphans' = IF call.at = "sent" THEN Append(orphans, call.label) ELSE orphans
  /\ adrift' = (adrift \/ is_locked \/ lock_state_pending)
  /\ UNCHANGED stopVars

\* It stops in _on_self_start, after the lock was called for.
CoordinatorStopsLocking ==
  /\ C!SelfStartUnwritable
  /\ server_ready /\ ~lock_state_pending /\ ~is_locked
  /\ Len(orphans) < MaxOrphans
  /\ orphans' = Append(orphans, "lock")
  /\ adrift' = TRUE
  /\ UNCHANGED stopVars

CoordinatorStarts == C!Restart /\ UNCHANGED <<stopVars, orphans, adrift>>

-----------------------------------------------------------------------------
(* The server *)

Run(label) ==
  \/ label = "lock" /\ E!LockService
  \/ label = "unlock" /\ E!UnlockService

\* The server takes requests in the order they came.
Serve ==
  /\ server_ready /\ orphans = <<>>
  /\ C!ServerAnswers("ok")
  /\ Run(call.label)
  /\ adrift' = FALSE
  /\ UNCHANGED orphans

\* A request whose caller has stopped is handled, or never came through.
ServeOrphan ==
  /\ server_ready /\ orphans # <<>>
  /\ orphans' = Tail(orphans)
  /\ Run(Head(orphans)) \/ UNCHANGED stopVars
  /\ UNCHANGED <<coordinatorVars, adrift>>

\* The server dies over a call, before or after it ran the handler.
CallDies ==
  /\ server_ready
  /\ C!ServerAnswers("lost")
  /\ \/ orphans = <<>> /\ Run(call.label)
     \/ UNCHANGED stopVars
  /\ UNCHANGED <<orphans, adrift>>

ServerWorks ==
  /\ server_ready
  /\ E!Callback
  /\ UNCHANGED <<coordinatorVars, orphans, adrift>>

\* Its memory and its queue are gone, and the mux is not told.
ServerStops ==
  /\ server_ready /\ call.at # "sent"
  /\ C!ServerComesOrGoes
  /\ locked' = FALSE /\ nav_goal_active' = FALSE
  /\ last_goal' = E!NoGoal /\ pending_restore' = E!NoGoal
  /\ restore_timer' = FALSE
  /\ orphans' = <<>>
  /\ UNCHANGED <<lock_topic, mux_locked, to_server, navVars,
                 nav_status, sent, adrift>>

\* A late joiner of the status topic gets the last message; of the others none.
ServerStarts ==
  /\ ~server_ready
  /\ C!ServerComesOrGoes
  /\ to_server' = <<>>
  /\ nav_status' = IF nav # E!NoGoal THEN "active" ELSE "inactive"
  /\ UNCHANGED <<locked, nav_goal_active, last_goal, pending_restore,
                 restore_timer, lock_topic, mux_locked, navVars, sent, orphans,
                 adrift>>

OthersAct == E!Surroundings /\ UNCHANGED <<coordinatorVars, orphans, adrift>>

-----------------------------------------------------------------------------
Next ==
  \/ CoordinatorRuns \/ CoordinatorStops \/ CoordinatorStopsLocking
  \/ CoordinatorStarts
  \/ Serve \/ CallDies \/ ServerWorks \/ ServerStops \/ ServerStarts
  \/ ServeOrphan \/ OthersAct

Spec == Init /\ [][Next]_vars

(* The executors of both nodes and of the mux run what is ready.            *)
Fairness ==
  /\ WF_vars(C!OnCanEvent /\ UNCHANGED <<stopVars, orphans, adrift>>)
  /\ WF_vars(C!OnServiceDone /\ UNCHANGED <<stopVars, orphans, adrift>>)
  /\ WF_vars(Serve)
  /\ WF_vars(ServeOrphan)
  /\ WF_vars(CoordinatorStarts)
  /\ WF_vars(E!MuxReceives /\ UNCHANGED <<coordinatorVars, orphans, adrift>>)

FairSpec == Spec /\ Fairness

-----------------------------------------------------------------------------
(* What the mux will hold once it has read all it was sent. *)
Latch == IF lock_topic = <<>> THEN mux_locked ELSE lock_topic[Len(lock_topic)]

(* Whenever no call is out, what the coordinator believes is what the mux  *)
(* holds or is about to hold, over overlapping requests, lost calls, and   *)
(* deaths of either node, until a coordinator dies with the vehicle held.  *)
BeliefReachesMux == up /\ ~lock_state_pending /\ ~adrift => Latch = is_locked

(* Also after that, a lock the coordinator believes in is what the mux     *)
(* holds or will hold, although its predecessor's calls may still come.    *)
BelievedLockHolds == up /\ ~lock_state_pending /\ is_locked => Latch

BeliefIsSound == BeliefReachesMux /\ BelievedLockHolds

(* What makes both inductive.  An orphan and a belief in the lock exclude  *)
(* each other, and so do an orphan and a call that has been answered: the  *)
(* server takes the orphans first.                                         *)
ChainInv ==
  /\ C!OneCallAtATime /\ call.at # "rejected"
  /\ ~up => ~is_locked /\ ~lock_state_pending
  /\ locked => Latch
  /\ adrift => ~is_locked
  /\ ~adrift => orphans = <<>>
  /\ ~adrift /\ ~lock_state_pending => Latch = is_locked
  /\ call.at = "ok" => ~adrift /\ Latch = (call.label = "lock")
  /\ \/ is_locked /\ ~lock_state_pending
     \/ call.at = "ok" /\ call.label = "lock"
     => ~restore_timer

(* The server sends no goal again while the coordinator holds the vehicle. *)
NoGoalResentUnderHold ==
  [][/\ restore_timer /\ pending_restore # E!NoGoal /\ pending_restore' = E!NoGoal
     /\ server_ready'
     => ~is_locked \/ lock_state_pending]_vars

(* A lock the coordinator believes in stops the vehicle, unless it calls   *)
(* for something else in the meantime.                                     *)
LockHoldsVehicle ==
  (is_locked /\ ~lock_state_pending) ~>
    (mux_locked \/ ~is_locked \/ lock_state_pending)

(* An unlock it believes in frees the vehicle.                             *)
UnlockFreesVehicle ==
  (up /\ ~is_locked /\ ~lock_state_pending /\ ~adrift) ~>
    (~mux_locked \/ is_locked \/ lock_state_pending \/ ~up)

-----------------------------------------------------------------------------
(* What a comment or the documentation says and the code does not do.      *)

\* emergency_stop_server.cpp:13: "an OTA update must not run under a moving car".
UpdateRunsHeld == \A n \in Requesters : ecu[n] = "updating" => mux_locked

\* docs/ARCHITECTURE.md 5.1: self_done "releases the lock when the set
\* empties": with nothing to update and no call out, the vehicle gets free.
EmptySetFrees ==
  (up /\ active_ecus = {} /\ ~is_locked /\ mux_locked) ~>
    (~up \/ active_ecus # {} \/ is_locked \/ lock_state_pending \/ ~mux_locked)
===============================================================================
