------------------------- MODULE EmergencyStop_proofs -------------------------
(***************************************************************************)
(* Proofs about EmergencyStop.tla for every set of goals, every topic      *)
(* depth and every number of goals sent.                                   *)
(***************************************************************************)
EXTENDS EmergencyStop, SequenceTheorems, TLAPS

\* A topic of messages stays one, and ends with the message just published.
LEMMA KeepLastType ==
  ASSUME NEW S, NEW q \in Seq(S), NEW m \in S
  PROVE  KeepLast(q, m) \in Seq(S)
<1>1. Depth \in Nat /\ Depth > 0
  BY EmergencyStopAssumption
<1>2. CASE Len(q) < Depth
  BY <1>2 DEF KeepLast
<1>3. CASE ~(Len(q) < Depth)
  <2>1. q # <<>>
    BY <1>1, <1>3
  <2>2. Tail(q) \in Seq(S)
    BY <2>1
  <2> QED
    BY <1>3, <2>2 DEF KeepLast
<1> QED
  BY <1>2, <1>3

LEMMA KeepLastEnds ==
  ASSUME NEW S, NEW q \in Seq(S), NEW m \in S
  PROVE  KeepLast(q, m) # <<>> /\ KeepLast(q, m)[Len(KeepLast(q, m))] = m
<1>1. ASSUME NEW t \in Seq(S)
      PROVE  Append(t, m) # <<>> /\ Append(t, m)[Len(Append(t, m))] = m
  OBVIOUS
<1>2. Depth \in Nat /\ Depth > 0
  BY EmergencyStopAssumption
<1>3. CASE Len(q) < Depth
  BY <1>1, <1>3 DEF KeepLast
<1>4. CASE ~(Len(q) < Depth)
  <2>1. q # <<>>
    BY <1>2, <1>4
  <2>2. Tail(q) \in Seq(S)
    BY <2>1
  <2> QED
    BY <1>1, <1>4, <2>2 DEF KeepLast
<1> QED
  BY <1>3, <1>4

LEMMA HeadTail ==
  ASSUME NEW S, NEW q \in Seq(S), q # <<>>
  PROVE  Head(q) \in S /\ Tail(q) \in Seq(S)
  OBVIOUS

\* Reading a message leaves the last one last, or was the last.
LEMMA ReadLast ==
  ASSUME NEW S, NEW q \in Seq(S), q # <<>>
  PROVE  IF Tail(q) = <<>> THEN Head(q) = q[Len(q)]
                           ELSE Tail(q)[Len(Tail(q))] = q[Len(q)]
<1>1. /\ Len(q) \in Nat /\ Len(q) > 0
      /\ Tail(q) \in Seq(S) /\ Len(Tail(q)) = Len(q) - 1
  OBVIOUS
<1>e. (Tail(q) = <<>>) <=> (Len(Tail(q)) = 0)
  BY <1>1, EmptySeq
<1>2. CASE Len(q) = 1
  <2>1. Tail(q) = <<>> /\ Head(q) = q[1]
    BY <1>1, <1>2, <1>e
  <2> QED
    BY <1>2, <2>1
<1>3. CASE Len(q) > 1
  <2>1. Tail(q) # <<>>
    BY <1>1, <1>3, <1>e
  <2>2. \A i \in 1 .. Len(q) - 1 : Tail(q)[i] = q[i + 1]
    OBVIOUS
  <2>3. Len(q) - 1 \in 1 .. Len(q) - 1 /\ Len(q) - 1 + 1 = Len(q)
    BY <1>1, <1>3
  <2>4. Tail(q)[Len(q) - 1] = q[Len(q)]
    BY <2>2, <2>3
  <2> QED
    BY <1>1, <2>1, <2>4
<1> QED
  BY <1>1, <1>2, <1>3

IInv == TypeOK /\ RestoreTimerExact /\ LatchFollowsLock

LEMMA InitIInv == Init => IInv
<1>1. <<>> \in Seq(BOOLEAN) /\ <<>> \in Seq(Goals)
  OBVIOUS
<1>2. 0 \in Nat
  OBVIOUS
<1>3. Init => TypeOK
  BY <1>1, <1>2, Zenon DEF Init, TypeOK
<1>4. Init => RestoreTimerExact /\ LatchFollowsLock
  BY DEF Init, RestoreTimerExact, LatchFollowsLock
<1> QED
  BY <1>3, <1>4 DEF IInv

LEMMA TypeStep == TypeOK /\ [Next]_vars => TypeOK'
<1> SUFFICES ASSUME TypeOK, [Next]_vars PROVE TypeOK'
  OBVIOUS
<1> USE DEF serverVars, navVars
<1>1. CASE LockService
  <2>1. lock_topic' \in Seq(BOOLEAN)
    BY <1>1, KeepLastType DEF TypeOK, LockService, Publish
  <2> QED
    BY <1>1, <2>1 DEF TypeOK, LockService, SavedGoal
<1>2. CASE UnlockService
  <2>1. lock_topic' \in Seq(BOOLEAN)
    BY <1>2, KeepLastType DEF TypeOK, UnlockService, Publish
  <2> QED
    BY <1>2, <2>1 DEF TypeOK, UnlockService, Armed
<1>3. CASE PublishTick
  <2>1. lock_topic' \in Seq(BOOLEAN)
    BY <1>3, KeepLastType DEF TypeOK, PublishTick, Publish
  <2> QED
    BY <1>3, <2>1 DEF TypeOK, PublishTick
<1>4. CASE RestoreFires
  <2>1. CASE UNCHANGED <<pending_restore, to_server, to_nav>>
    BY <1>4, <2>1 DEF TypeOK, RestoreFires
  <2>2. CASE /\ pending_restore # NoGoal /\ pending_restore' = NoGoal
             /\ to_server' = KeepLast(to_server, pending_restore)
             /\ to_nav' = KeepLast(to_nav, pending_restore)
    <3>1. pending_restore \in Goals
      BY <2>2 DEF TypeOK
    <3>2. to_server' \in Seq(Goals) /\ to_nav' \in Seq(Goals)
      BY <2>2, <3>1, KeepLastType DEF TypeOK
    <3> QED
      BY <1>4, <2>2, <3>2 DEF TypeOK, RestoreFires
  <2> QED
    BY <1>4, <2>1, <2>2 DEF RestoreFires
<1>5. CASE OnGoalPose
  <2>1. Head(to_server) \in Goals /\ Tail(to_server) \in Seq(Goals)
    BY <1>5, HeadTail DEF TypeOK, OnGoalPose, Superseded
  <2> QED
    BY <1>5, <2>1 DEF TypeOK, OnGoalPose, Superseded
<1>6. CASE MuxReceives
  <2>1. Head(lock_topic) \in BOOLEAN /\ Tail(lock_topic) \in Seq(BOOLEAN)
    BY <1>6, HeadTail DEF TypeOK, MuxReceives
  <2> QED
    BY <1>6, <2>1 DEF TypeOK, MuxReceives
<1>7. CASE NavAccepts
  <2>1. Head(to_nav) \in Goals /\ Tail(to_nav) \in Seq(Goals)
    BY <1>7, HeadTail DEF TypeOK, NavAccepts
  <2> QED
    BY <1>7, <2>1 DEF TypeOK, NavAccepts
<1>8. ASSUME NEW g \in Goals, DriverSends(g) PROVE TypeOK'
  <2>1. to_server' \in Seq(Goals) /\ to_nav' \in Seq(Goals)
    BY <1>8, KeepLastType DEF TypeOK, DriverSends
  <2> QED
    BY <1>8, <2>1 DEF TypeOK, DriverSends
<1>9. CASE OnNavStatus \/ NavFinishes \/ NavCancels \/ UNCHANGED vars
  BY <1>9 DEF TypeOK, OnNavStatus, NavFinishes, NavCancels, vars
<1> QED
  BY <1>1, <1>2, <1>3, <1>4, <1>5, <1>6, <1>7, <1>8, <1>9 DEF Next, Services, Callback, Surroundings

LEMMA TimerStep == TypeOK /\ RestoreTimerExact /\ [Next]_vars => RestoreTimerExact'
<1> SUFFICES ASSUME TypeOK, RestoreTimerExact, [Next]_vars
             PROVE  RestoreTimerExact'
  OBVIOUS
<1> USE DEF serverVars, navVars
<1>1. CASE LockService
  BY <1>1 DEF LockService, RestoreTimerExact
<1>2. CASE UnlockService
  BY <1>2 DEF UnlockService, Armed, RestoreTimerExact
<1>3. CASE RestoreFires
  BY <1>3 DEF RestoreFires, RestoreTimerExact
<1>4. CASE OnGoalPose
  <2>1. CASE locked
    BY <1>4, <2>1 DEF OnGoalPose, Superseded, RestoreTimerExact
  <2>2. CASE ~locked
    BY <1>4, <2>2 DEF OnGoalPose, Superseded, RestoreTimerExact
  <2> QED
    BY <2>1, <2>2
<1>5. CASE UNCHANGED <<locked, pending_restore, restore_timer>>
  BY <1>5 DEF RestoreTimerExact
<1> QED
  BY <1>1, <1>2, <1>3, <1>4, <1>5
     DEF Next, Services, Callback, Surroundings, vars, OnNavStatus, PublishTick, MuxReceives,
         NavAccepts, NavFinishes, NavCancels, DriverSends

LEMMA LatchStep == TypeOK /\ LatchFollowsLock /\ [Next]_vars => LatchFollowsLock'
<1> SUFFICES ASSUME TypeOK, LatchFollowsLock, [Next]_vars
             PROVE  LatchFollowsLock'
  OBVIOUS
<1> USE DEF serverVars, navVars
<1>a. lock_topic \in Seq(BOOLEAN) /\ locked \in BOOLEAN
  BY DEF TypeOK
<1>1. ASSUME NEW b \in BOOLEAN, Publish(b), locked' = b PROVE LatchFollowsLock'
  BY <1>a, <1>1, KeepLastEnds DEF Publish, LatchFollowsLock
<1>2. CASE LockService \/ UnlockService
  BY <1>1, <1>2 DEF LockService, UnlockService
<1>3. CASE PublishTick
  BY <1>1, <1>3, <1>a DEF PublishTick
<1>4. CASE MuxReceives
  <2>1. /\ lock_topic # <<>> /\ locked' = locked
        /\ mux_locked' = Head(lock_topic) /\ lock_topic' = Tail(lock_topic)
    BY <1>4 DEF MuxReceives
  <2>2. lock_topic[Len(lock_topic)] = locked
    BY <2>1 DEF LatchFollowsLock
  <2>3. IF Tail(lock_topic) = <<>>
        THEN Head(lock_topic) = locked
        ELSE Tail(lock_topic)[Len(Tail(lock_topic))] = locked
    BY <1>a, <2>1, <2>2, ReadLast
  <2> QED
    BY <2>1, <2>3 DEF LatchFollowsLock
<1>5. CASE UNCHANGED <<locked, lock_topic, mux_locked>>
  BY <1>5 DEF LatchFollowsLock
<1> QED
  BY <1>2, <1>3, <1>4, <1>5
     DEF Next, Services, Callback, Surroundings, vars, RestoreFires, OnGoalPose, OnNavStatus,
         NavAccepts, NavFinishes, NavCancels, DriverSends

THEOREM Invariance == Spec => []IInv
<1>1. IInv /\ [Next]_vars => IInv'
  BY TypeStep, TimerStep, LatchStep DEF IInv
<1> QED
  BY InitIInv, <1>1, PTL DEF Spec

\* The restore timer is armed exactly while the vehicle is free and a goal
\* waits: the lock and unlock handlers, the goal callback and the timer keep
\* the three in step over every order of calls.
THEOREM TimerExact == Spec => []RestoreTimerExact
<1>1. IInv => RestoreTimerExact
  BY DEF IInv
<1> QED
  BY <1>1, Invariance, PTL

\* The last message for the mux, or the mux itself, says what locked_ says.
THEOREM LatchFollows == Spec => []LatchFollowsLock
<1>1. IInv => LatchFollowsLock
  BY DEF IInv
<1> QED
  BY <1>1, Invariance, PTL
===============================================================================
