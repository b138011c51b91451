------------------------- MODULE MCUpdateCoordinator -------------------------
(***************************************************************************)
(* Properties of the update coordinator and its instances for TLC.         *)
(***************************************************************************)
EXTENDS UpdateCoordinator, TLC

Symmetry == Permutations(Requesters)

-----------------------------------------------------------------------------
(* Liveness *)

\* Every prompt is settled or withdrawn, whether or not the driver answers.
PromptSettled ==
  \A n \in Requesters, p \in 1..MaxAsks : pending[n] = p ~> pending[n] # p

\* On a sound bus every request is answered, whatever the head unit does: the
\* gate fails open.  Fairness never makes the ECU give up.
RequestAnswered ==
  \A n \in Requesters : ecu[n] = "waiting" ~> ecu[n] # "waiting"

\* Neither the driver nor an ECU is left waiting.
NobodyWaitsForever == PromptSettled /\ RequestAnswered

\* A call that is answered frees the node to call again.
CallReturns == lock_state_pending ~> ~lock_state_pending

-----------------------------------------------------------------------------
(* What the documentation says and the code does not do *)

\* docs/ARCHITECTURE.md 5.1: it "calls /emergency_stop/lock when that set
\* becomes non-empty, /emergency_stop/unlock when it empties again": the lock
\* does not stay apart from the set.
LockFollowsSet ==
  /\ (active_ecus # {} /\ ~is_locked) ~> (active_ecus = {} \/ is_locked)
  /\ (active_ecus = {} /\ is_locked) ~> (active_ecus # {} \/ ~is_locked)

\* update_coordinator.launch.py: timeout_sec is the "Update timeout in
\* seconds"; _timeout_check forces the release of what is older.
ExpiredIsReleased == \A n \in Names : n \in expired ~> n \notin expired

\* node.py, _begin_approval: a second REQUEST takes the old prompt down.
SecondRequestDropsPrompt ==
  [][\A n \in Requesters :
       (/\ can_queue # <<>> /\ can_queue' = Tail(can_queue)
        /\ Head(can_queue) = [from |-> n, kind |-> "REQUEST"]
        /\ pending[n] # NoPrompt) => pending'[n] # pending[n]]_vars

\* node.py, _resolve: after a deny there is nothing to stand still for.
DenyHoldsNothing ==
  [][\A n \in Requesters : wire'[n] = Append(wire[n], "DENY")
                             => n \notin active_ecus']_vars
=============================================================================
