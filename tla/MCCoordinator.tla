---------------------------- MODULE MCCoordinator -----------------------------
(***************************************************************************)
(* The instance of the update coordinator on which its safety is checked:  *)
(* two ECUs on a sound service, and one ECU on a service that fails.       *)
(***************************************************************************)
EXTENDS MCUpdateCoordinator

\* The ECUs that have something under way.
Engaged ==
  {n \in Requesters :
     \/ ecu[n] # "idle" \/ pending[n] # NoPrompt \/ n \in active_ecus \/ wire[n] # <<>>
     \/ \E i \in 1..Len(can_queue) : can_queue[i].from = n}

\* The bound of the run, a state constraint: while both ECUs are engaged
\* the lock's server is there and answers, and one frame waits at a time.  Writes,
\* sends and verdicts may fail, and the node may die, at any time.
Sound ==
  Cardinality(Engaged) > 1 =>
    server_ready /\ call.at \notin {"rejected", "lost"} /\ Len(can_queue) <= 1
=============================================================================
