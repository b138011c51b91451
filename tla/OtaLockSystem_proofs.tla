-------------------------- MODULE OtaLockSystem_proofs --------------------------
(***************************************************************************)
(* Proofs about OtaLockSystem.tla for every set of requesters and goals,   *)
(* every choice of faults in which the server answers with success, every  *)
(* depth of the topics and every number of calls without a caller.         *)
(***************************************************************************)
EXTENDS OtaLockSystem, SequenceTheorems, TLAPS

\* The part of the types the chain rests on.
ChainTypes ==
  /\ is_locked \in BOOLEAN /\ lock_state_pending \in BOOLEAN
  /\ call \in C!Calls /\ orphans \in Seq({"lock", "unlock"}) /\ adrift \in BOOLEAN
  /\ locked \in BOOLEAN /\ mux_locked \in BOOLEAN /\ lock_topic \in Seq(BOOLEAN)

IInv == ChainTypes /\ ChainInv

\* What the invariant says of the coordinator, the server and the mux.
chainVars == <<up, is_locked, lock_state_pending, call, orphans, adrift,
               locked, restore_timer, lock_topic, mux_locked>>

-----------------------------------------------------------------------------
(* The topic of the lock *)

\* A message put into the topic is the latch, whatever the topic drops for it.
LEMMA PublishSetsLatch ==
  ASSUME lock_topic \in Seq(BOOLEAN), NEW b \in BOOLEAN, E!Publish(b)
  PROVE  lock_topic' \in Seq(BOOLEAN) /\ Latch' = b
<1>1. ASSUME NEW t \in Seq(BOOLEAN)
      PROVE  /\ Append(t, b) \in Seq(BOOLEAN) /\ Append(t, b) # <<>>
             /\ Append(t, b)[Len(Append(t, b))] = b
  OBVIOUS
<1>2. \E t \in Seq(BOOLEAN) : lock_topic' = Append(t, b)
  <2>1. CASE Len(lock_topic) < Depth
    BY <2>1 DEF E!Publish, E!KeepLast
  <2>2. CASE ~(Len(lock_topic) < Depth) /\ lock_topic # <<>>
    <3>1. Tail(lock_topic) \in Seq(BOOLEAN)
      BY <2>2
    <3> QED
      BY <2>2, <3>1 DEF E!Publish, E!KeepLast
  <2>3. CASE ~(Len(lock_topic) < Depth) /\ lock_topic = <<>>
    BY <2>3, OtaLockSystemAssumption
  <2> QED
    BY <2>1, <2>2, <2>3
<1> QED
  BY <1>1, <1>2 DEF Latch

\* The mux reads on, and will hold in the end what it would have held.
LEMMA MuxKeepsLatch ==
  ASSUME lock_topic \in Seq(BOOLEAN), E!MuxReceives
  PROVE  lock_topic' \in Seq(BOOLEAN) /\ mux_locked' \in BOOLEAN /\ Latch' = Latch
<1>1. /\ lock_topic # <<>> /\ mux_locked' = Head(lock_topic) /\ lock_topic' = Tail(lock_topic)
  BY DEF E!MuxReceives
<1>2. /\ Len(lock_topic) \in Nat /\ Len(lock_topic) > 0
      /\ Tail(lock_topic) \in Seq(BOOLEAN) /\ Len(Tail(lock_topic)) = Len(lock_topic) - 1
      /\ Head(lock_topic) = lock_topic[1] /\ Head(lock_topic) \in BOOLEAN
  BY <1>1
<1>e. (Tail(lock_topic) = <<>>) <=> (Len(Tail(lock_topic)) = 0)
  BY <1>2, EmptySeq
<1>3. CASE Len(lock_topic) = 1
  <2>1. Tail(lock_topic) = <<>>
    BY <1>2, <1>3, <1>e
  <2> QED
    BY <1>1, <1>2, <1>3, <2>1 DEF Latch
<1>4. CASE Len(lock_topic) > 1
  <2>1. Tail(lock_topic) # <<>>
    BY <1>2, <1>4, <1>e
  <2>2. \A i \in 1 .. Len(lock_topic) - 1 : Tail(lock_topic)[i] = lock_topic[i + 1]
    BY <1>1
  <2>3. /\ Len(lock_topic) - 1 \in 1 .. Len(lock_topic) - 1
        /\ Len(lock_topic) - 1 + 1 = Len(lock_topic)
    BY <1>2, <1>4
  <2>4. Tail(lock_topic)[Len(lock_topic) - 1] = lock_topic[Len(lock_topic)]
    BY <2>2, <2>3
  <2> QED
    BY <1>1, <1>2, <2>1, <2>4 DEF Latch
<1> QED
  BY <1>2, <1>3, <1>4

-----------------------------------------------------------------------------
(* What the steps of the coordinator do to the lock *)

\* Whatever callback it is: it ends in _update_lock_state, leaves the lock
\* alone, takes the answer of a call, or the process ends.
LEMMA CallbackStep ==
  ASSUME C!Callback
  PROVE  /\ up /\ UNCHANGED server_ready
         /\ \/ C!UpdateLockState /\ UNCHANGED up
            \/ UNCHANGED <<up, is_locked, lock_state_pending, call>>
            \/ C!OnServiceDone
            \/ C!MemoryLost
<1>1. CASE C!OnCanEvent
  BY <1>1 DEF C!OnCanEvent, C!BeginApproval, C!ApproveUnasked, C!AskDriver,
              C!OfferUnwritable, C!HandleRunning, C!HandleReject, C!Hold, C!Release
<1>2. ASSUME NEW n \in Requesters, C!PollApprovals(n)
      PROVE  up /\ C!UpdateLockState /\ UNCHANGED <<up, server_ready>>
  BY <1>2 DEF C!PollApprovals, C!Resolve, C!Hold
<1>3. CASE C!TimeoutCheck \/ C!OnSelfStart \/ C!OnSelfDone
  BY <1>3 DEF C!TimeoutCheck, C!OnSelfStart, C!OnSelfDone, C!Hold, C!Release
<1>4. CASE C!ApprovalSendRaises \/ C!SelfStartUnwritable
  BY <1>4 DEF C!ApprovalSendRaises, C!SelfStartUnwritable, C!Unwind
<1>5. ASSUME NEW n \in Requesters, C!ResolveSendRaises(n)
      PROVE  up /\ C!MemoryLost /\ UNCHANGED server_ready
  BY <1>5 DEF C!ResolveSendRaises, C!Unwind
<1>6. CASE C!PollFindsNothing \/ C!OnServiceDone
  BY <1>6 DEF C!PollFindsNothing, C!OnServiceDone, C!lockVars
<1>7. ASSUME NEW n \in Requesters, C!ExpireNotice(n)
      PROVE  up /\ UNCHANGED <<up, is_locked, lock_state_pending, call, server_ready>>
  BY <1>7 DEF C!ExpireNotice, C!lockVars
<1> QED
  BY <1>1, <1>2, <1>3, <1>4, <1>5, <1>6, <1>7 DEF C!Callback

\* Neither time, nor the head unit, nor the ECUs touch the lock.
LEMMA OthersLeaveLock ==
  ASSUME C!Clock \/ C!HeadUnitActs \/ C!EcusAct
  PROVE  UNCHANGED <<is_locked, lock_state_pending, call, server_ready>>
<1> USE DEF C!lockVars
<1>1. CASE C!Clock
  BY <1>1 DEF C!Clock, C!DeadlinePasses, C!UpdateAges
<1>2. CASE C!HeadUnitActs
  BY <1>2 DEF C!HeadUnitActs, C!HeadUnitScan, C!HeadUnitAnswers, C!HeadUnitUpOrDown
<1>3. CASE C!EcusAct
  BY <1>3 DEF C!EcusAct, C!EcuRequests, C!EcuGivesUp, C!EcuReceives, C!EcuRuns
<1> QED
  BY <1>1, <1>2, <1>3

-----------------------------------------------------------------------------
(* The invariant *)

LEMMA InitIInv == Init => IInv
<1> SUFFICES ASSUME Init PROVE IInv
  OBVIOUS
<1>1. /\ up = TRUE /\ is_locked = FALSE /\ lock_state_pending = FALSE /\ call = C!Idle
      /\ locked = FALSE /\ restore_timer = FALSE /\ mux_locked = FALSE /\ lock_topic = <<>>
      /\ orphans = <<>> /\ adrift = FALSE
  BY DEF Init, C!Init, E!Init
<1>2. C!Idle = [label |-> "unlock", at |-> "idle"]
  BY DEF C!Idle
<1>3. ChainTypes
  <2>1. <<>> \in Seq(BOOLEAN) /\ <<>> \in Seq({"lock", "unlock"})
    OBVIOUS
  <2>2. C!Idle \in C!Calls
    BY <1>2 DEF C!Calls
  <2> QED
    BY <1>1, <2>1, <2>2, Zenon DEF ChainTypes
<1>4. ChainInv
  BY <1>1, <1>2 DEF ChainInv, C!OneCallAtATime, Latch
<1> QED
  BY <1>3, <1>4 DEF IInv

LEMMA SameInv == IInv /\ UNCHANGED chainVars => IInv'
  BY DEF IInv, chainVars, ChainTypes, ChainInv, C!OneCallAtATime, Latch

\* The coordinator goes on: a call can go out only when none is.
LEMMA RunsInv == IInv /\ CoordinatorRuns => IInv'
<1> SUFFICES ASSUME IInv, CoordinatorRuns PROVE IInv'
  OBVIOUS
<1>1. /\ up' = up /\ UNCHANGED <<orphans, adrift, locked, restore_timer, lock_topic, mux_locked>>
      /\ UNCHANGED Latch
  BY DEF CoordinatorRuns, stopVars, Latch
<1>2. \/ UNCHANGED <<is_locked, lock_state_pending, call>>
      \/ up /\ (C!UpdateLockState \/ C!OnServiceDone)
  <2>1. CASE C!Callback
    <3>1. CASE C!MemoryLost
      BY <1>1, <2>1, <3>1, CallbackStep DEF C!MemoryLost
    <3> QED
      BY <2>1, <3>1, CallbackStep
  <2>2. CASE C!Clock \/ C!HeadUnitActs \/ C!EcusAct
    BY <2>2, OthersLeaveLock
  <2> QED
    BY <2>1, <2>2 DEF CoordinatorRuns
<1>3. CASE UNCHANGED <<is_locked, lock_state_pending, call>>
  BY <1>1, <1>3, SameInv DEF chainVars
<1>4. CASE up /\ C!UpdateLockState /\ ~UNCHANGED <<is_locked, lock_state_pending, call>>
  <2>1. PICK l \in {"lock", "unlock"} :
          /\ is_locked' = is_locked /\ lock_state_pending = FALSE
          /\ lock_state_pending' = TRUE /\ call' = [label |-> l, at |-> "sent"]
    BY <1>4 DEF C!UpdateLockState, C!CallService, IInv, ChainTypes
  <2>2. ChainTypes'
    BY <1>1, <2>1 DEF IInv, ChainTypes, C!Calls
  <2>3. ChainInv'
    BY <1>1, <1>4, <2>1 DEF IInv, ChainInv, C!OneCallAtATime
  <2> QED
    BY <2>2, <2>3 DEF IInv
<1>5. CASE C!OnServiceDone
  <2>1. /\ up /\ call.at \in {"ok", "rejected"} /\ lock_state_pending' = FALSE
        /\ is_locked' = (IF call.at = "ok" THEN call.label = "lock" ELSE is_locked)
        /\ call' = C!Idle
    BY <1>5 DEF C!OnServiceDone
  <2>2. call.at = "ok" /\ is_locked' = (call.label = "lock")
    BY <2>1 DEF IInv, ChainInv
  <2>3. C!Idle = [label |-> "unlock", at |-> "idle"]
    BY DEF C!Idle
  <2>4. ChainTypes'
    BY <1>1, <2>1, <2>2, <2>3 DEF IInv, ChainTypes, C!Calls
  <2>5. ChainInv'
    BY <1>1, <2>1, <2>2, <2>3 DEF IInv, ChainInv, C!OneCallAtATime
  <2> QED
    BY <2>4, <2>5 DEF IInv
<1> QED
  BY <1>2, <1>3, <1>4, <1>5

\* It stops: a call that is out, or a lock that is believed in, leaves the chain adrift.
LEMMA StopsInv == IInv /\ (CoordinatorStops \/ CoordinatorStopsLocking) => IInv'
<1> SUFFICES ASSUME IInv, CoordinatorStops \/ CoordinatorStopsLocking PROVE IInv'
  OBVIOUS
<1>1. /\ UNCHANGED <<locked, restore_timer, lock_topic, mux_locked>>
      /\ UNCHANGED Latch
  BY DEF CoordinatorStops, CoordinatorStopsLocking, stopVars, Latch
<1>2. C!MemoryLost
  <2>1. CASE CoordinatorStops
    <3>1. up /\ ~up'
      BY <2>1 DEF CoordinatorStops
    <3>2. CASE C!Callback
      BY <3>1, <3>2, CallbackStep DEF C!OnServiceDone
    <3>3. CASE C!Crash \/ C!DestroyNode
      BY <3>3 DEF C!Crash, C!DestroyNode, C!Unwind
    <3> QED
      BY <2>1, <3>2, <3>3 DEF CoordinatorStops
  <2>2. CASE CoordinatorStopsLocking
    BY <2>2 DEF CoordinatorStopsLocking, C!SelfStartUnwritable, C!Unwind
  <2> QED
    BY <2>1, <2>2
<1>3. /\ up' = FALSE /\ is_locked' = FALSE /\ lock_state_pending' = FALSE
      /\ call' = [label |-> "unlock", at |-> "idle"]
  BY <1>2 DEF C!MemoryLost, C!Idle
<1>4. /\ orphans' \in Seq({"lock", "unlock"}) /\ adrift' \in BOOLEAN
      /\ ~adrift' => ~adrift /\ ~is_locked /\ ~lock_state_pending /\ orphans' = orphans
  <2>1. call.label \in {"lock", "unlock"} /\ (lock_state_pending <=> call.at # "idle")
    BY DEF IInv, ChainTypes, ChainInv, C!Calls, C!OneCallAtATime
  <2>2. /\ Append(orphans, call.label) \in Seq({"lock", "unlock"})
        /\ Append(orphans, "lock") \in Seq({"lock", "unlock"})
    BY <2>1 DEF IInv, ChainTypes
  <2>3. CASE CoordinatorStops
    BY <2>1, <2>2, <2>3 DEF CoordinatorStops, IInv, ChainTypes
  <2>4. CASE CoordinatorStopsLocking
    BY <2>2, <2>4 DEF CoordinatorStopsLocking
  <2> QED
    BY <2>3, <2>4
<1>5. ChainTypes'
  BY <1>1, <1>3, <1>4 DEF IInv, ChainTypes, C!Calls
<1>6. ChainInv'
  BY <1>1, <1>3, <1>4 DEF IInv, ChainTypes, ChainInv, C!OneCallAtATime
<1> QED
  BY <1>5, <1>6 DEF IInv

LEMMA StartsInv == IInv /\ CoordinatorStarts => IInv'
<1> SUFFICES ASSUME IInv, CoordinatorStarts PROVE IInv'
  OBVIOUS
<1>1. /\ UNCHANGED <<is_locked, lock_state_pending, call, orphans, adrift,
                     locked, restore_timer, lock_topic, mux_locked>>
      /\ UNCHANGED Latch
  BY DEF CoordinatorStarts, C!Restart, C!lockVars, stopVars, Latch
<1>2. ~up /\ up'
  BY DEF CoordinatorStarts, C!Restart
<1>3. ChainTypes'
  BY <1>1 DEF IInv, ChainTypes
<1>4. ChainInv'
  BY <1>1, <1>2 DEF IInv, ChainTypes, ChainInv, C!OneCallAtATime
<1> QED
  BY <1>3, <1>4 DEF IInv

\* What a handler of the server leaves behind.
LEMMA RunStep ==
  ASSUME ChainTypes, NEW l \in {"lock", "unlock"}, Run(l)
  PROVE  /\ locked' = (l = "lock") /\ Latch' = (l = "lock")
         /\ l = "lock" => restore_timer' = FALSE
         /\ lock_topic' \in Seq(BOOLEAN) /\ UNCHANGED mux_locked
<1>1. CASE l = "lock"
  <2>1. /\ E!Publish(TRUE) /\ locked' = TRUE /\ restore_timer' = FALSE /\ UNCHANGED mux_locked
    BY <1>1 DEF Run, E!LockService
  <2> QED
    BY <1>1, <2>1, PublishSetsLatch DEF ChainTypes
<1>2. CASE l = "unlock"
  <2>1. /\ E!Publish(FALSE) /\ locked' = FALSE /\ UNCHANGED mux_locked
    BY <1>2 DEF Run, E!UnlockService
  <2> QED
    BY <1>2, <2>1, PublishSetsLatch DEF ChainTypes
<1> QED
  BY <1>1, <1>2

LEMMA ServeInv == IInv /\ Serve => IInv'
<1> SUFFICES ASSUME IInv, Serve PROVE IInv'
  OBVIOUS
<1>1. /\ call.at = "sent" /\ call' = [call EXCEPT !.at = "ok"]
      /\ UNCHANGED <<up, is_locked, lock_state_pending, orphans>>
      /\ orphans = <<>> /\ adrift' = FALSE
  BY DEF Serve, C!ServerAnswers
<1>2. call.label \in {"lock", "unlock"} /\ call' = [label |-> call.label, at |-> "ok"]
  BY <1>1 DEF IInv, ChainTypes, C!Calls
<1>3. /\ locked' = (call.label = "lock") /\ Latch' = (call.label = "lock")
      /\ call.label = "lock" => restore_timer' = FALSE
      /\ lock_topic' \in Seq(BOOLEAN) /\ UNCHANGED mux_locked
  BY <1>2, RunStep DEF Serve, IInv
<1>4. lock_state_pending
  BY <1>1 DEF IInv, ChainInv, C!OneCallAtATime
<1>5. ChainTypes'
  BY <1>1, <1>2, <1>3 DEF IInv, ChainTypes, C!Calls
<1>6. ChainInv'
  BY <1>1, <1>2, <1>3, <1>4 DEF IInv, ChainInv, C!OneCallAtATime
<1> QED
  BY <1>5, <1>6 DEF IInv

\* A call without a caller is handled while the chain is adrift.
LEMMA OrphanInv == IInv /\ ServeOrphan => IInv'
<1> SUFFICES ASSUME IInv, ServeOrphan PROVE IInv'
  OBVIOUS
<1>1. /\ orphans # <<>> /\ orphans' = Tail(orphans)
      /\ UNCHANGED <<up, is_locked, lock_state_pending, call, adrift>>
  BY DEF ServeOrphan, coordinatorVars
<1>2. Head(orphans) \in {"lock", "unlock"} /\ orphans' \in Seq({"lock", "unlock"})
  BY <1>1 DEF IInv, ChainTypes
<1>3. adrift /\ ~is_locked /\ call.at # "ok"
  BY <1>1 DEF IInv, ChainTypes, ChainInv
<1>4. CASE UNCHANGED stopVars
  <2>1. UNCHANGED <<locked, restore_timer, lock_topic, mux_locked>> /\ UNCHANGED Latch
    BY <1>4 DEF stopVars, Latch
  <2> QED
    BY <1>1, <1>2, <1>3, <2>1 DEF IInv, ChainTypes, ChainInv, C!OneCallAtATime
<1>5. CASE Run(Head(orphans))
  <2>1. /\ locked' = (Head(orphans) = "lock") /\ Latch' = (Head(orphans) = "lock")
        /\ lock_topic' \in Seq(BOOLEAN) /\ UNCHANGED mux_locked
    BY <1>2, <1>5, RunStep DEF IInv
  <2>2. locked' \in BOOLEAN
    BY <2>1
  <2> QED
    BY <1>1, <1>2, <1>3, <2>1, <2>2 DEF IInv, ChainTypes, ChainInv, C!OneCallAtATime
<1> QED
  BY <1>4, <1>5 DEF ServeOrphan

\* The server dies over a call: the coordinator never hears, and claims nothing.
LEMMA DiesInv == IInv /\ CallDies => IInv'
<1> SUFFICES ASSUME IInv, CallDies PROVE IInv'
  OBVIOUS
<1>1. /\ call.at = "sent" /\ call' = [call EXCEPT !.at = "lost"]
      /\ UNCHANGED <<up, is_locked, lock_state_pending, orphans, adrift>>
  BY DEF CallDies, C!ServerAnswers
<1>2. call.label \in {"lock", "unlock"} /\ call' = [label |-> call.label, at |-> "lost"]
  BY <1>1 DEF IInv, ChainTypes, C!Calls
<1>3. lock_state_pending
  BY <1>1 DEF IInv, ChainInv, C!OneCallAtATime
<1>4. /\ locked' \in BOOLEAN /\ mux_locked' \in BOOLEAN /\ lock_topic' \in Seq(BOOLEAN)
      /\ locked' => Latch'
  <2>1. CASE UNCHANGED stopVars
    BY <2>1 DEF stopVars, IInv, ChainTypes, ChainInv, Latch
  <2>2. CASE Run(call.label)
    BY <1>2, <2>2, RunStep DEF IInv, ChainTypes
  <2> QED
    BY <2>1, <2>2 DEF CallDies
<1>5. ChainTypes'
  BY <1>1, <1>2, <1>4 DEF IInv, ChainTypes, C!Calls
<1>6. ChainInv'
  BY <1>1, <1>2, <1>3, <1>4 DEF IInv, ChainInv, C!OneCallAtATime
<1> QED
  BY <1>5, <1>6 DEF IInv

\* The server's own callbacks and all that surrounds it leave the latch where it is.
LEMMA WorksInv == IInv /\ (ServerWorks \/ OthersAct) => IInv'
<1> SUFFICES ASSUME IInv, ServerWorks \/ OthersAct PROVE IInv'
  OBVIOUS
<1>1. UNCHANGED <<up, is_locked, lock_state_pending, call, orphans, adrift>>
  BY DEF ServerWorks, OthersAct, coordinatorVars
<1>2. /\ UNCHANGED locked /\ restore_timer' \in {restore_timer, FALSE} /\ UNCHANGED Latch
      /\ mux_locked' \in BOOLEAN /\ lock_topic' \in Seq(BOOLEAN)
  <2>1. CASE E!PublishTick
    <3>1. /\ locked /\ E!Publish(TRUE) /\ UNCHANGED <<locked, restore_timer, mux_locked>>
      BY <2>1 DEF E!PublishTick, E!serverVars
    <3> QED
      BY <3>1, PublishSetsLatch DEF IInv, ChainTypes, ChainInv, Latch
  <2>2. CASE E!MuxReceives
    <3>1. UNCHANGED <<locked, restore_timer>>
      BY <2>2 DEF E!MuxReceives, E!serverVars
    <3> QED
      BY <2>2, <3>1, MuxKeepsLatch DEF IInv, ChainTypes
  <2>3. CASE \/ E!RestoreFires \/ E!OnGoalPose \/ E!OnNavStatus
             \/ E!NavAccepts \/ E!NavFinishes \/ E!NavCancels
    <3>1. /\ UNCHANGED <<locked, lock_topic, mux_locked>>
          /\ restore_timer' \in {restore_timer, FALSE}
      BY <2>3 DEF E!RestoreFires, E!OnGoalPose, E!OnNavStatus, E!NavAccepts, E!NavFinishes,
                  E!NavCancels, E!serverVars, E!navVars
    <3> QED
      BY <3>1 DEF IInv, ChainTypes, Latch
  <2>4. ASSUME NEW g \in Goals, E!DriverSends(g)
        PROVE  UNCHANGED <<locked, restore_timer, lock_topic, mux_locked>>
    BY <2>4 DEF E!DriverSends, E!serverVars
  <2> QED
    BY <2>1, <2>2, <2>3, <2>4
       DEF ServerWorks, OthersAct, E!Callback, E!Surroundings, IInv, ChainTypes, Latch
<1>3. ChainTypes'
  BY <1>1, <1>2 DEF IInv, ChainTypes
<1>4. ChainInv'
  <2>1. \/ restore_timer' = restore_timer
        \/ restore_timer' = FALSE
    BY <1>2
  <2> QED
    BY <1>1, <1>2, <2>1 DEF IInv, ChainTypes, ChainInv, C!OneCallAtATime
<1> QED
  BY <1>3, <1>4 DEF IInv

\* A server that stops forgets its lock, and the mux does not hear of it.
LEMMA ServerStopsInv == IInv /\ (ServerStops \/ ServerStarts) => IInv'
<1> SUFFICES ASSUME IInv, ServerStops \/ ServerStarts PROVE IInv'
  OBVIOUS
<1>1. /\ UNCHANGED <<up, is_locked, lock_state_pending, call, adrift, lock_topic, mux_locked>>
      /\ UNCHANGED Latch
  BY DEF ServerStops, ServerStarts, C!ServerComesOrGoes, C!lockVars, Latch
<1>2. /\ locked' \in {locked, FALSE} /\ restore_timer' \in {restore_timer, FALSE}
      /\ orphans' = orphans \/ orphans' = <<>>
  BY DEF ServerStops, ServerStarts
<1>3. <<>> \in Seq({"lock", "unlock"})
  OBVIOUS
<1>4. ChainTypes'
  BY <1>1, <1>2, <1>3 DEF IInv, ChainTypes
<1>5. ChainInv'
  <2>1. \/ restore_timer' = restore_timer
        \/ restore_timer' = FALSE
    BY <1>2
  <2>2. locked' => locked
    BY <1>2 DEF IInv, ChainTypes
  <2> QED
    BY <1>1, <1>2, <2>1, <2>2 DEF IInv, ChainTypes, ChainInv, C!OneCallAtATime
<1> QED
  BY <1>4, <1>5 DEF IInv

LEMMA StepIInv == IInv /\ [Next]_vars => IInv'
<1>1. IInv /\ UNCHANGED vars => IInv'
  BY SameInv DEF vars, coordinatorVars, stopVars, chainVars
<1> QED
  BY <1>1, RunsInv, StopsInv, StartsInv, ServeInv, OrphanInv, DiesInv, WorksInv, ServerStopsInv
     DEF Next

THEOREM Invariance == Spec => []IInv
  BY InitIInv, StepIInv, PTL DEF Spec

-----------------------------------------------------------------------------
(* What follows from it *)

\* Over overlapping requests, lost calls and deaths of either node: with no call
\* out, what the coordinator believes of the lock is what twist_mux holds or is
\* about to hold, until a coordinator dies with the vehicle held; and a lock it
\* believes in holds also after that.
THEOREM BeliefHolds == Spec => []BeliefIsSound
<1>1. IInv => BeliefIsSound
  BY DEF IInv, ChainTypes, ChainInv, BeliefIsSound, BeliefReachesMux, BelievedLockHolds
<1> QED
  BY <1>1, Invariance, PTL

\* The restore timer never sends the saved goal while the coordinator holds the
\* vehicle: a lock that has been answered has cancelled the timer, and nothing
\* but an unlock arms it again.
THEOREM NoGoalUnderHold == Spec => NoGoalResentUnderHold
<1>1. IInv => (restore_timer => ~is_locked \/ lock_state_pending)
  BY DEF IInv, ChainInv
<1>2. IInv /\ [Next]_vars
        => [/\ restore_timer /\ pending_restore # E!NoGoal /\ pending_restore' = E!NoGoal
            /\ server_ready'
            => ~is_locked \/ lock_state_pending]_vars
  BY <1>1
<1> QED
  BY <1>2, Invariance, PTL DEF Spec, NoGoalResentUnderHold

-----------------------------------------------------------------------------
(* What was proved of the parts holds in the chain *)

\* The chain leaves the coordinator all it does alone, deaths of the server
\* included: what holds of every behaviour of UpdateCoordinator holds here.
THEOREM CoordinatorInChain == Spec => C!Spec
<1>1. Init => C!Init
  BY DEF Init
<1>2. ASSUME [Next]_vars PROVE [C!Next]_(C!vars)
  <2>1. CASE UNCHANGED coordinatorVars
    BY <2>1 DEF coordinatorVars, C!vars, C!lockVars, C!approvalVars, C!spoolVars, C!noticeVars,
                C!headUnit, C!ecuVars
  <2>2. CASE CoordinatorRuns
    BY <2>2 DEF CoordinatorRuns, C!Next, C!Environment
  <2>3. CASE CoordinatorStops \/ CoordinatorStopsLocking \/ CoordinatorStarts
    BY <2>3 DEF CoordinatorStops, CoordinatorStopsLocking, CoordinatorStarts, C!Next, C!Callback,
                C!Lifecycle
  <2>4. CASE Serve \/ CallDies
    <3>1. \E result \in {"ok", "rejected", "lost"} : C!ServerAnswers(result)
      BY <2>4 DEF Serve, CallDies
    <3> QED
      BY <3>1 DEF C!Next, C!Environment, C!ServiceActs
  <2>5. CASE ServerStops \/ ServerStarts
    BY <2>5 DEF ServerStops, ServerStarts, C!Next, C!Environment, C!ServiceActs
  <2> QED
    BY <1>2, <2>1, <2>2, <2>3, <2>4, <2>5
       DEF Next, vars, ServerWorks, ServeOrphan, OthersAct
<1> QED
  BY <1>1, <1>2, PTL DEF Spec, C!Spec

\* And so does what holds of EmergencyStop, as long as the server lives: the
\* calls of the coordinator and of its orphans are calls of the two services.
THEOREM ServerInChain ==
  ASSUME "server" \notin Faults PROVE Spec => E!Spec
<1>1. Init => E!Init
  BY DEF Init
<1>2. ASSUME [Next]_vars PROVE [E!Next]_(E!vars)
  <2>1. CASE UNCHANGED stopVars
    BY <2>1 DEF stopVars, navVars, E!vars, E!serverVars, E!navVars
  <2>2. ASSUME NEW l, Run(l) PROVE E!Next
    BY <2>2 DEF Run, E!Next, E!Services
  <2>3. CASE Serve \/ ServeOrphan
    BY <2>1, <2>2, <2>3 DEF Serve, ServeOrphan
  <2>4. CASE ServerWorks \/ OthersAct
    BY <2>4 DEF ServerWorks, OthersAct, E!Next
  <2>5. ~CallDies /\ ~ServerStops /\ ~ServerStarts
    BY DEF CallDies, ServerStops, ServerStarts, C!ServerAnswers, C!ServerComesOrGoes
  <2> QED
    BY <1>2, <2>1, <2>3, <2>4, <2>5
       DEF Next, vars, CoordinatorRuns, CoordinatorStops, CoordinatorStopsLocking,
           CoordinatorStarts
<1> QED
  BY <1>1, <1>2, PTL DEF Spec, E!Spec

================================================================================
