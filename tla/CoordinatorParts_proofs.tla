------------------------ MODULE CoordinatorParts_proofs ------------------------
(***************************************************************************)
(* Proofs about two parts of the coordinator that share no state: the      *)
(* clock of one approval, for every choice of the timeouts, and the way of *)
(* a CAN frame through the reader thread, for every number of frames.      *)
(***************************************************************************)
EXTENDS ApprovalWindow, CanReceive, SequenceTheorems, TLAPS

-----------------------------------------------------------------------------
(* ApprovalWindow                                                          *)

IInv == TypeOK /\ WindowInv

\* The timeouts of a target are numbers, and fixed while its request is under way.
LEMMA BudgetsAreNumbers ==
  ASSUME TypeOK PROVE Prompt \in Nat /\ Deadline \in Nat /\ PeerWait \in Nat
<1>1. BUDGETS[target] \in [ui_ms : Nat, deadline_ms : Nat, peer_wait_ms : Nat]
  BY ApprovalWindowAssumption DEF TypeOK
<1> QED
  BY <1>1 DEF Prompt, Deadline, PeerWait

LEMMA SameBudget ==
  ASSUME target' = target
  PROVE  Prompt' = Prompt /\ Deadline' = Deadline /\ PeerWait' = PeerWait
  BY DEF Prompt, Deadline, PeerWait

LEMMA BoundsAreNumbers ==
  Poll \in Nat \ {0} /\ Transit \in Nat /\ Lag \in Nat /\ ShowDelay \in Nat
    /\ Back \in Nat /\ Forward \in Nat
  BY ApprovalWindowAssumption

LEMMA SetByHowMuch ==
  ASSUME TypeOK
  PROVE  /\ Ahead \in Nat /\ Behind \in Nat /\ wall = Ahead - Behind
         /\ wall = 0 => Ahead = 0 /\ Behind = 0
         /\ wall' = wall => Ahead' = Ahead /\ Behind' = Behind
  BY DEF TypeOK, Ahead, Behind

LEMMA InitIInv == Init => IInv
<1>1. 0 \in Nat /\ 0 \in Int /\ NotYet \in Int
  BY DEF NotYet
<1>2. Init => TypeOK
  BY <1>1 DEF Init, TypeOK, Stages
<1>3. Init => WindowInv
  BY DEF Init, WindowInv
<1> QED
  BY <1>2, <1>3 DEF IInv

LEMMA TypeStep == TypeOK /\ [Next]_vars => TypeOK'
<1> SUFFICES ASSUME TypeOK, [Next]_vars PROVE TypeOK'
  OBVIOUS
<1> USE BoundsAreNumbers, BudgetsAreNumbers DEF TypeOK, NotYet, Stages
<1>1. CASE EcuAsks
  BY <1>1 DEF EcuAsks
<1>2. CASE BeginApproval
  BY <1>2 DEF BeginApproval, DeadlineFrom
<1>3. CASE FailOpen
  BY <1>3 DEF FailOpen
<1>4. CASE PollApprovals
  <2>1. CASE Resolve("driver") \/ Resolve("default")
    <3>1. NotYet \in Int
      OBVIOUS
    <3>2. shown' \in Int /\ answered' \in BOOLEAN
      BY <2>1, <3>1, Zenon DEF Resolve
    <3> QED
      BY <1>4, <2>1, <3>2 DEF PollApprovals, Resolve
  <2>2. CASE UNCHANGED <<stage, began, deadline, shown, answered, decider, sent_at>>
    <3>1. next_poll' \in Int
      BY <1>4, <2>2 DEF PollApprovals, Resolve
    <3> QED
      BY <1>4, <2>2, <3>1 DEF PollApprovals
  <2> QED
    BY <1>4, <2>1, <2>2 DEF PollApprovals
<1>5. CASE HeadUnitShows
  BY <1>5 DEF HeadUnitShows
<1>8. CASE HeadUnitAnswers \/ HeadUnitDies
  BY <1>8 DEF HeadUnitAnswers, HeadUnitDies
<1>6. CASE EcuReceives \/ EcuGivesUp
  BY <1>6 DEF EcuReceives, EcuGivesUp
<1>7. CASE ClockIsSet \/ Tick \/ UNCHANGED vars
  BY <1>7 DEF ClockIsSet, Tick, vars
<1> QED
  BY <1>1, <1>2, <1>3, <1>4, <1>5, <1>6, <1>7, <1>8 DEF Next

LEMMA WindowStep == IInv /\ [Next]_vars => WindowInv'
<1> SUFFICES ASSUME TypeOK, WindowInv, [Next]_vars PROVE WindowInv'
  BY DEF IInv
<1>n. Prompt \in Nat /\ Deadline \in Nat
  BY BudgetsAreNumbers
<1>s. ~EcuAsks => target' = target /\ Prompt' = Prompt /\ Deadline' = Deadline
  BY SameBudget DEF Next, vars, BeginApproval, FailOpen, PollApprovals, HeadUnitShows,
     HeadUnitAnswers, HeadUnitDies, EcuReceives, EcuGivesUp, ClockIsSet, Tick
<1>a. /\ Ahead \in Nat /\ Behind \in Nat /\ wall = Ahead - Behind
      /\ wall = 0 => Ahead = 0 /\ Behind = 0
      /\ wall' = wall => Ahead' = Ahead /\ Behind' = Behind
  BY SetByHowMuch
<1>t. /\ now \in Nat /\ wall \in Int /\ began \in Nat /\ deadline \in Int
      /\ next_poll \in Int /\ shown \in Int /\ sent_at \in Nat /\ NotYet = -1
      /\ ui \in BOOLEAN /\ answered \in BOOLEAN
  BY DEF TypeOK, NotYet
<1>1. CASE EcuAsks
  BY <1>1, <1>t, BoundsAreNumbers DEF EcuAsks, WindowInv
<1>2. CASE BeginApproval /\ ~EcuAsks
  <2>1. PICK first \in 0..Poll : next_poll' = now + wall + first
    BY <1>2 DEF BeginApproval
  <2>2. now <= Transit /\ shown = NotYet /\ ~answered
    BY <1>2 DEF BeginApproval, WindowInv
  <2>3. /\ stage' = "pending" /\ began' = now /\ deadline' = now + wall + Deadline
        /\ now' = now /\ wall' = wall /\ ui' = ui /\ shown' = shown /\ answered' = answered
    BY <1>2 DEF BeginApproval, DeadlineFrom
  <2>4. next_poll' - wall <= now + Poll
    BY <2>1, <1>t, BoundsAreNumbers
  <2> QED
    BY <1>2, <1>n, <1>s, <1>a, <1>t, <2>1, <2>2, <2>3, <2>4, BoundsAreNumbers DEF WindowInv
<1>3. CASE FailOpen /\ ~EcuAsks
  BY <1>3, <1>n, <1>s, <1>a, <1>t, BoundsAreNumbers DEF FailOpen, WindowInv
<1>4. CASE PollApprovals /\ ~EcuAsks
  <2>0. stage = "pending" /\ UNCHANGED <<now, wall, target, ecu, ui>> /\ next_poll <= now + wall
    BY <1>4, <1>t DEF PollApprovals
  <2>1. CASE Resolve("driver") \/ Resolve("default")
    <3>1. now <= Transit + Deadline + Behind + Poll + Lag
      BY <2>0, <1>n, <1>a, <1>t, BoundsAreNumbers DEF WindowInv
    <3>2. stage' = "verdict" /\ sent_at' = now /\ shown' = NotYet /\ answered' = FALSE
      BY <2>1 DEF Resolve
    <3> QED
      BY <1>4, <2>0, <3>1, <3>2, <1>n, <1>s, <1>a, <1>t, BoundsAreNumbers DEF WindowInv
  <2>2. CASE ~Resolve("driver") /\ ~Resolve("default")
    <3>0. ~answered /\ now + wall < deadline /\ stage' = stage
          /\ UNCHANGED <<began, deadline, shown, answered, decider, sent_at>>
      BY <1>4, <2>2 DEF PollApprovals
    <3>1. now < began + Deadline + Behind
      BY <2>0, <3>0, <1>n, <1>a, <1>t DEF WindowInv
    <3>2. next_poll' \in Int /\ next_poll' <= now + wall + Poll
      <4>1. \/ next_poll' = next_poll + Poll
            \/ \E rest \in 0..Poll : next_poll' = now + wall + rest
        BY <1>4, <2>2 DEF PollApprovals
      <4> QED
        BY <4>1, <2>0, <1>t, BoundsAreNumbers
    <3>3. Behind \in Nat /\ Deadline \in Nat /\ Poll \in Nat /\ now \in Nat /\ wall \in Int
          /\ began \in Nat
      BY <1>n, <1>a, <1>t, BoundsAreNumbers
    <3>4. PICK q \in Int : q = next_poll'
      BY <3>2
    <3>7. q <= now + wall + Poll
      BY <3>2, <3>4
    <3>8. PICK x \in Int : x = began + Deadline + Behind
      BY <3>3
    <3>9. now < x
      BY <3>1, <3>8
    <3>10. q - wall <= x + Poll
      BY <3>3, <3>7, <3>9
    <3>6. q - wall <= began + Deadline + Behind + Poll
      BY <3>8, <3>10
    <3>5. next_poll' - wall <= began + Deadline + Behind + Poll
      BY <3>4, <3>6
    <3> QED
      BY <1>4, <2>0, <3>0, <3>5, <1>s, <1>a, <1>t DEF WindowInv
  <2> QED
    BY <2>1, <2>2
<1>5. CASE HeadUnitShows /\ ~EcuAsks
  BY <1>5, <1>n, <1>s, <1>a, <1>t, BoundsAreNumbers DEF HeadUnitShows, WindowInv
<1>6. CASE HeadUnitAnswers /\ ~EcuAsks
  BY <1>6, <1>n, <1>s, <1>a, <1>t, BoundsAreNumbers DEF HeadUnitAnswers, WindowInv
<1>7. CASE HeadUnitDies /\ ~EcuAsks
  BY <1>7, <1>n, <1>s, <1>a, <1>t, BoundsAreNumbers DEF HeadUnitDies, WindowInv
<1>8. CASE EcuReceives /\ ~EcuAsks
  BY <1>8, <1>n, <1>s, <1>a, <1>t, BoundsAreNumbers DEF EcuReceives, WindowInv
<1>9. CASE EcuGivesUp /\ ~EcuAsks
  BY <1>9, <1>n, <1>s, <1>a, <1>t, BoundsAreNumbers DEF EcuGivesUp, WindowInv
<1>10. CASE ClockIsSet /\ ~EcuAsks
  <2>1. wall = 0 /\ Ahead = 0 /\ Behind = 0
    BY <1>10, <1>a DEF ClockIsSet
  <2>2. wall' = -Back \/ wall' = Forward
    BY <1>10 DEF ClockIsSet
  <2>3. wall' \in Int /\ Ahead' \in Nat /\ Behind' \in Nat /\ wall' = Ahead' - Behind'
    BY <2>2, BoundsAreNumbers DEF Ahead, Behind
  <2>4. UNCHANGED <<now, ecu, stage, began, deadline, next_poll, ui, shown, answered, sent_at>>
    BY <1>10 DEF ClockIsSet
  <2>5. Deadline' = Deadline /\ Prompt' = Prompt
    BY <1>10, <1>s
  <2>6. CASE stage = "pending"
    <3>1. /\ began + Deadline <= deadline /\ deadline <= began + Deadline
          /\ next_poll <= began + Deadline + Poll /\ now <= began + Deadline + Poll + Lag
      BY <2>1, <2>6, <1>n, <1>t, BoundsAreNumbers DEF WindowInv
    <3>2. PICK w \in Int, a \in Nat, b \in Nat : w = wall' /\ a = Ahead' /\ b = Behind'
      BY <2>3
    <3>4. w = a - b
      BY <3>2, <2>3
    <3>5. Poll \in Nat /\ Lag \in Nat
      BY BoundsAreNumbers
    <3>6. /\ began + Deadline <= deadline - w + a
          /\ deadline - w <= began + Deadline + b
      BY <3>1, <3>4, <1>n, <1>t
    <3>7. next_poll - w <= began + Deadline + b + Poll
      BY <3>1, <3>4, <3>5, <1>n, <1>t
    <3>8. now <= began + Deadline + b + Poll + Lag
      BY <3>1, <3>5, <1>n, <1>t
    <3>3. /\ began + Deadline <= deadline - w + a
          /\ deadline - w <= began + Deadline + b
          /\ next_poll - w <= began + Deadline + b + Poll
          /\ now <= began + Deadline + b + Poll + Lag
      BY <3>6, <3>7, <3>8
    <3> QED
      BY <3>2, <3>3, <2>4, <2>5, <2>6 DEF WindowInv
  <2>7. CASE stage # "pending"
    <3>2. PICK b \in Nat : b = Behind'
      BY <2>3
    <3>1. stage = "verdict" => sent_at <= Transit + Deadline + b + Poll + Lag
      BY <2>1, <1>n, <1>t, BoundsAreNumbers DEF WindowInv
    <3> QED
      BY <3>1, <3>2, <2>4, <2>5, <2>7 DEF WindowInv
  <2> QED
    BY <2>6, <2>7
<1>11. CASE Tick /\ ~EcuAsks
  <2>5. /\ now' = now + 1
        /\ UNCHANGED <<wall, target, ecu, stage, began, deadline, next_poll, ui, shown,
                       answered, decider, sent_at>>
    BY <1>11 DEF Tick
  <2>1. stage = "pending" => now + 1 <= began + Deadline + Behind + Poll + Lag
    <3>1. stage = "pending" => now + wall < next_poll + Lag
      BY <1>11 DEF Tick
    <3>2. stage = "pending" => next_poll - wall <= began + Deadline + Behind + Poll
      BY DEF WindowInv
    <3> QED
      BY <3>1, <3>2, <1>n, <1>a, <1>t, BoundsAreNumbers
  <2>2. stage = "pending" /\ ui /\ shown = NotYet => now + 1 <= began + ShowDelay
    BY <1>11, <1>t, BoundsAreNumbers DEF Tick
  <2>3. stage = "pending" /\ ui /\ shown # NotYet /\ ~answered => now + 1 <= shown + Prompt
    BY <1>11, <1>n, <1>t DEF Tick
  <2>4. /\ stage = "request" => now + 1 <= Transit
        /\ stage = "verdict" => now + 1 <= sent_at + Transit
    BY <1>11, <1>t, BoundsAreNumbers DEF Tick
  <2> QED
    BY <1>11, <1>n, <1>s, <1>a, <1>t, <2>1, <2>2, <2>3, <2>4, <2>5, BoundsAreNumbers
       DEF WindowInv
<1>12. CASE UNCHANGED vars /\ ~EcuAsks
  BY <1>12, <1>n, <1>s, <1>a, <1>t DEF vars, WindowInv
<1> QED
  BY <1>1, <1>2, <1>3, <1>4, <1>5, <1>6, <1>7, <1>8, <1>9, <1>10, <1>11, <1>12
     DEF Next

\* The inductive invariant holds: every age is bounded by the timeouts before it.
THEOREM Invariance == Spec => []IInv
<1>1. IInv /\ [Next]_vars => IInv'
  BY TypeStep, WindowStep DEF IInv
<1> QED
  BY InitIInv, <1>1, PTL DEF Spec

\* Where the requester's wall leaves the room BUDGETS speaks of, every verdict
\* arrives while the ECU still waits, whatever the head unit does.
THEOREM InTime == Spec => []VerdictInTime
<1>1. Init => VerdictInTime
  BY DEF Init, VerdictInTime
<1>2. IInv /\ VerdictInTime /\ [Next]_vars => VerdictInTime'
  <2> SUFFICES ASSUME TypeOK, WindowInv, VerdictInTime, [Next]_vars
               PROVE  VerdictInTime'
    BY DEF IInv
  <2>n. Prompt \in Nat /\ Deadline \in Nat /\ PeerWait \in Nat
    BY BudgetsAreNumbers
  <2>1. Room /\ ecu = "waiting" => now < PeerWait
    <3> USE BoundsAreNumbers, <2>n DEF TypeOK, Room, WindowInv, Ahead, Behind
    <3>1. CASE stage = "request"
      BY <3>1
    <3>2. CASE stage = "pending"
      BY <3>2
    <3>3. CASE stage = "verdict"
      BY <3>3
    <3> QED
      BY <3>1, <3>2, <3>3 DEF Stages
  <2>s. ~EcuAsks => Deadline' = Deadline /\ PeerWait' = PeerWait
    BY SameBudget DEF Next, vars, BeginApproval, FailOpen, PollApprovals, HeadUnitShows,
       HeadUnitAnswers, HeadUnitDies, EcuReceives, EcuGivesUp, ClockIsSet, Tick
  <2>2. CASE EcuGivesUp
    <3>1. ~Room
      BY <2>1, <2>2, <2>n DEF EcuGivesUp, TypeOK
    <3>2. wall' = wall /\ Deadline' = Deadline /\ PeerWait' = PeerWait
      BY <2>2, SameBudget DEF EcuGivesUp
    <3> QED
      BY <3>1, <3>2 DEF Room, Behind, VerdictInTime
  <2>3. CASE ClockIsSet /\ ~EcuAsks
    <3>1. Behind = 0 /\ ecu' = ecu /\ (wall' = -Back \/ wall' = Forward)
      BY <2>3, SetByHowMuch DEF ClockIsSet
    <3>2. Behind' \in Nat
      BY <3>1, BoundsAreNumbers DEF Behind
    <3>6. PICK b \in Nat : b = Behind'
      BY <3>2
    <3>4. Deadline' = Deadline /\ PeerWait' = PeerWait
      BY <2>3, <2>s
    <3>5. Poll \in Nat /\ Transit \in Nat /\ Lag \in Nat
      BY BoundsAreNumbers
    <3>7. Transit + Deadline + b + Poll + Lag + Transit < PeerWait => Room
      BY <2>n, <3>1, <3>5 DEF Room
    <3>3. Room' => Room
      BY <3>4, <3>6, <3>7 DEF Room
    <3> QED
      BY <3>1, <3>3 DEF VerdictInTime
  <2>4. CASE EcuAsks
    BY <2>4 DEF EcuAsks, VerdictInTime
  <2>5. CASE ~EcuAsks /\ ~EcuGivesUp /\ ~ClockIsSet
    <3>1. wall' = wall /\ (ecu' = ecu \/ ecu' = "idle")
      BY <2>5 DEF Next, vars, BeginApproval, FailOpen, PollApprovals, HeadUnitShows,
         HeadUnitAnswers, HeadUnitDies, EcuReceives, Tick
    <3>2. Room' = Room
      BY <2>5, <2>s, <3>1 DEF Room, Behind
    <3> QED
      BY <3>1, <3>2 DEF VerdictInTime
  <2> QED
    BY <2>2, <2>3, <2>4, <2>5
<1> QED
  BY <1>1, <1>2, Invariance, PTL DEF Spec

\* Whatever the budgets and however the wall clock is set: the default overtakes a
\* living head unit only over a card that came up too late to be counted to its
\* end before the deadline.
THEOREM Decides == Spec => DriverDecides
<1>1. /\ IInv /\ [Next]_vars
      => [stage = "pending" /\ stage' = "verdict" /\ decider' = "default" => ~ui \/ Late]_vars
  <2> SUFFICES ASSUME TypeOK, WindowInv, [Next]_vars, ui,
                      stage = "pending", stage' = "verdict", decider' = "default"
               PROVE  Late
    BY DEF IInv
  <2>n. Prompt \in Nat /\ Deadline \in Nat
    BY BudgetsAreNumbers
  <2>1. PollApprovals
    BY DEF Next, vars, EcuAsks, BeginApproval, FailOpen, HeadUnitShows, HeadUnitAnswers,
       HeadUnitDies, EcuReceives, EcuGivesUp, ClockIsSet, Tick
  <2>2. ~answered /\ now + wall >= deadline
    BY <2>1 DEF PollApprovals, Resolve
  <2>3. now + Ahead >= began + Deadline
    BY <2>2, <2>n, BoundsAreNumbers DEF WindowInv, TypeOK, Ahead
  <2> QED
    BY <2>2, <2>3, <2>n, BoundsAreNumbers DEF WindowInv, TypeOK, Late, Ahead, NotYet
<1> QED
  BY <1>1, Invariance, PTL DEF Spec, DriverDecides

-----------------------------------------------------------------------------
(* CanReceive                                                              *)

\* When no frame comes before the guard condition exists, the hand-over keeps
\* its invariant, step by step of the two threads.
LEMMA WakeupStep ==
  ASSUME EarlyFrames = FALSE, WakeupInv, [ReceiveNext]_receive_vars
  PROVE  WakeupInv'
<1> USE DEF WakeupInv, frames
<1>1. CASE FrameArrives
  BY <1>1 DEF FrameArrives
<1>2. CASE StartReader \/ MakeGuardCondition \/ Spin
  BY <1>2 DEF StartReader, MakeGuardCondition, Spin
<1>3. CASE TakeTrigger \/ Get \/ Handle \/ QueueEmpty
  BY <1>3 DEF TakeTrigger, Get, Handle, QueueEmpty
<1>4. CASE DestroyNode \/ Joined
  BY <1>4 DEF DestroyNode, Spinning, Joined
<1>5. CASE Receive \/ ReaderEnds
  BY <1>5 DEF Receive, ReaderEnds
<1>6. CASE Put
  BY <1>6 DEF Put
<1>7. CASE Trigger
  BY <1>7 DEF Trigger
<1>8. CASE UNCHANGED receive_vars
  BY <1>8 DEF receive_vars
<1> QED
  BY <1>1, <1>2, <1>3, <1>4, <1>5, <1>6, <1>7, <1>8 DEF ReceiveNext

\* No wake-up of the executor is lost between the reader's put and trigger and
\* the drain of _on_can_event, however the two threads interleave.
THEOREM NoWakeupLost ==
  ASSUME EarlyFrames = FALSE PROVE ReceiveSpec => []NothingStranded
<1>1. ReceiveInit => WakeupInv
  BY DEF ReceiveInit, WakeupInv
<1>2. WakeupInv /\ [ReceiveNext]_receive_vars => WakeupInv'
  BY WakeupStep
<1>3. WakeupInv => NothingStranded
  BY DEF WakeupInv, NothingStranded
<1> QED
  BY <1>1, <1>2, <1>3, PTL DEF ReceiveSpec

\* A stage that holds no frame is empty.
StagesInv ==
  /\ main \in {"init", "waiting", "draining"} => current = <<>>
  /\ reader # "putting" => taken = <<>>

FramesInv == ReceiveTypeOK /\ StagesInv /\ InFlightInOrder

\* The first element of what follows moves to the end of what went before.
LEMMA HeadMoves ==
  ASSUME NEW p \in Seq(Nat), NEW q \in Seq(Nat), q # <<>>
  PROVE  /\ (p \o <<Head(q)>>) \o Tail(q) = p \o q
         /\ <<Head(q)>> \in Seq(Nat) /\ Tail(q) \in Seq(Nat)
<1>1. Head(q) \in Nat /\ Tail(q) \in Seq(Nat)
  BY HeadTailProperties
<1>2. <<Head(q)>> \in Seq(Nat)
  BY <1>1
<1>3. <<Head(q)>> \o Tail(q) = q
  OBVIOUS
<1>4. (p \o <<Head(q)>>) \o Tail(q) = p \o (<<Head(q)>> \o Tail(q))
  BY <1>1, <1>2, ConcatAssociative
<1> QED BY <1>1, <1>2, <1>3, <1>4

LEMMA Regrouped ==
  ASSUME NEW p \in Seq(Nat), NEW q \in Seq(Nat), NEW r \in Seq(Nat)
  PROVE  p \o (q \o r) = (p \o q) \o r
BY ConcatAssociative

\* A frame that arrives is the last.
LEMMA LastArrives ==
  ASSUME NEW n \in Nat, NEW p \in Seq(Nat), NEW q \in Seq(Nat), p \o q = [i \in 1..n |-> i]
  PROVE  p \o Append(q, n + 1) = [i \in 1..(n + 1) |-> i]
<1> DEFINE s == p \o q
<1> DEFINE t == p \o Append(q, n + 1)
<1>1. /\ s \in Seq(Nat)
      /\ Len(s) = Len(p) + Len(q)
      /\ \A i \in 1..(Len(p) + Len(q)) : s[i] = IF i <= Len(p) THEN p[i] ELSE q[i - Len(p)]
  BY ConcatProperties
<1>2. /\ Append(q, n + 1) \in Seq(Nat)
      /\ Len(Append(q, n + 1)) = Len(q) + 1
      /\ \A i \in 1..Len(q) : Append(q, n + 1)[i] = q[i]
      /\ Append(q, n + 1)[Len(q) + 1] = n + 1
  BY AppendProperties
<1>3. /\ t \in Seq(Nat)
      /\ Len(t) = Len(p) + Len(q) + 1
      /\ \A i \in 1..(Len(p) + Len(q) + 1) :
           t[i] = IF i <= Len(p) THEN p[i] ELSE Append(q, n + 1)[i - Len(p)]
  BY <1>2, ConcatProperties
<1>4. Len(s) = n /\ \A i \in 1..n : s[i] = i
  <2>1. s = [i \in 1..n |-> i]
    OBVIOUS
  <2>2. DOMAIN s = 1..n /\ DOMAIN s = 1..Len(s) /\ Len(s) \in Nat
    BY <1>1, <2>1
  <2> HIDE DEF s
  <2>3. Len(s) = n
    BY <2>2
  <2> QED BY <2>1, <2>3
<1>5. Len(p) \in Nat /\ Len(q) \in Nat
  OBVIOUS
<1> HIDE DEF s, t
<1>6. ASSUME NEW i \in 1..(n + 1) PROVE t[i] = i
  <2>1. CASE i <= Len(p)
    <3>1. i \in 1..n /\ t[i] = p[i] /\ s[i] = p[i]
      BY <1>1, <1>3, <1>4, <1>5, <2>1
    <3> QED BY <3>1, <1>4
  <2>2. CASE i > Len(p) /\ i <= n
    <3>1. i \in 1..n /\ i - Len(p) \in 1..Len(q) /\ s[i] = q[i - Len(p)]
      BY <1>1, <1>4, <1>5, <2>2
    <3>2. t[i] = Append(q, n + 1)[i - Len(p)]
      BY <1>1, <1>3, <1>4, <1>5, <2>2
    <3> QED BY <3>1, <3>2, <1>2, <1>4
  <2>3. CASE i > Len(p) /\ i = n + 1
    <3>1. t[i] = Append(q, n + 1)[i - Len(p)] /\ i - Len(p) = Len(q) + 1
      BY <1>1, <1>3, <1>4, <1>5, <2>3
    <3> QED BY <3>1, <1>2, <2>3
  <2> QED BY <2>1, <2>2, <2>3, <1>5
<1>7. t = [i \in DOMAIN t |-> t[i]] /\ DOMAIN t = 1..(n + 1)
  BY <1>1, <1>3, <1>4, <1>5
<1>8. t = [i \in 1..(n + 1) |-> i]
  BY <1>6, <1>7
<1> QED BY <1>8 DEF t

LEMMA FramesStep == FramesInv /\ [ReceiveNext]_receive_vars => FramesInv'
<1> SUFFICES ASSUME FramesInv, [ReceiveNext]_receive_vars PROVE FramesInv'
  OBVIOUS
<1> USE DEF FramesInv, StagesInv, MainStages, ReaderStages
<1>n. <<>> \in Seq(Nat)
  OBVIOUS
<1>t. /\ socket \in Seq(Nat) /\ taken \in Seq(Nat) /\ can_queue \in Seq(Nat)
      /\ current \in Seq(Nat) /\ handled \in Seq(Nat) /\ arrived \in Nat
  BY DEF ReceiveTypeOK
<1> DEFINE done == handled \o current
<1> DEFINE past == done \o can_queue
<1>c. done \in Seq(Nat) /\ past \in Seq(Nat) /\ past \o taken \in Seq(Nat)
  BY <1>t
<1>1. CASE FrameArrives
  <2>1. ReceiveTypeOK' /\ StagesInv'
    BY <1>1, <1>t DEF FrameArrives, ReceiveTypeOK
  <2>2. (past \o taken) \o Append(socket, arrived + 1) = [i \in 1..(arrived + 1) |-> i]
    BY <1>1, <1>t, <1>c, LastArrives DEF FrameArrives, InFlightInOrder
  <2> QED BY <1>1, <2>1, <2>2 DEF FrameArrives, InFlightInOrder
<1>2. CASE \/ StartReader \/ MakeGuardCondition \/ Spin \/ TakeTrigger \/ QueueEmpty
           \/ Joined \/ Trigger \/ ReaderEnds \/ UNCHANGED receive_vars
  <2>1. UNCHANGED <<frames, open>>
    BY <1>2 DEF StartReader, MakeGuardCondition, Spin, TakeTrigger, QueueEmpty, Joined, Trigger,
       ReaderEnds, receive_vars, frames
  <2>2. InFlightInOrder'
    BY <2>1 DEF frames, InFlightInOrder
  <2>3. ReceiveTypeOK'
    BY <1>2, <2>1 DEF frames, StartReader, MakeGuardCondition, Spin, TakeTrigger, QueueEmpty,
       Joined, Trigger, ReaderEnds, receive_vars, ReceiveTypeOK
  <2>4. StagesInv'
    BY <1>2, <2>1 DEF frames, StartReader, MakeGuardCondition, Spin, TakeTrigger, QueueEmpty,
       Joined, Trigger, ReaderEnds, receive_vars
  <2> QED BY <2>2, <2>3, <2>4
<1>3. CASE DestroyNode
  BY <1>3, <1>n DEF DestroyNode, Spinning, ReceiveTypeOK, InFlightInOrder
<1>4. CASE Get
  <2>1. current = <<>> /\ can_queue # <<>> /\ done = handled
    BY <1>4, <1>t, ConcatEmptySeq DEF Get
  <2>2. /\ (handled \o <<Head(can_queue)>>) \o Tail(can_queue) = past
        /\ <<Head(can_queue)>> \in Seq(Nat) /\ Tail(can_queue) \in Seq(Nat)
    BY <2>1, <1>t, HeadMoves
  <2>3. ReceiveTypeOK' /\ StagesInv'
    BY <1>4, <2>2 DEF Get, ReceiveTypeOK
  <2> QED BY <1>4, <2>2, <2>3 DEF Get, InFlightInOrder
<1>5. CASE Handle
  <2>1. ReceiveTypeOK' /\ StagesInv'
    BY <1>5, <1>n, <1>c DEF Handle, ReceiveTypeOK
  <2>2. done \o <<>> = done
    BY <1>c, ConcatEmptySeq
  <2> QED BY <1>5, <2>1, <2>2 DEF Handle, InFlightInOrder
<1>6. CASE Receive
  <2>1. taken = <<>> /\ socket # <<>> /\ past \o taken = past
    BY <1>6, <1>c, ConcatEmptySeq DEF Receive
  <2>2. /\ (past \o <<Head(socket)>>) \o Tail(socket) = past \o socket
        /\ <<Head(socket)>> \in Seq(Nat) /\ Tail(socket) \in Seq(Nat)
    BY <2>1, <1>t, <1>c, HeadMoves
  <2>3. ReceiveTypeOK' /\ StagesInv'
    BY <1>6, <2>2 DEF Receive, ReceiveTypeOK
  <2> QED BY <1>6, <2>1, <2>2, <2>3 DEF Receive, InFlightInOrder
<1>7. CASE Put
  <2>1. done \o (can_queue \o taken) = past \o taken
    <3>1. done \in Seq(Nat) /\ can_queue \in Seq(Nat) /\ taken \in Seq(Nat)
      BY <1>t, <1>c
    <3> HIDE DEF done, FramesInv, StagesInv, MainStages, ReaderStages
    <3>2. done \o (can_queue \o taken) = (done \o can_queue) \o taken
      BY <3>1, Regrouped
    <3> QED BY <3>2
  <2>2. (past \o taken) \o <<>> = past \o taken /\ can_queue \o taken \in Seq(Nat)
    BY <1>t, <1>c, ConcatEmptySeq
  <2>3. ReceiveTypeOK' /\ StagesInv'
    BY <1>7, <1>n, <2>2 DEF Put, ReceiveTypeOK
  <2> QED BY <1>7, <2>1, <2>2, <2>3 DEF Put, InFlightInOrder
<1> QED
  BY <1>1, <1>2, <1>3, <1>4, <1>5, <1>6, <1>7 DEF ReceiveNext

\* Until the socket is closed every frame is in exactly one place between the bus
\* and _handle_can, and all of them in the order they came, wherever the two
\* threads stand.
THEOREM FramesKeepOrder == ReceiveSpec => []InFlightInOrder
<1>1. ReceiveInit => FramesInv
  <2> SUFFICES ASSUME ReceiveInit PROVE FramesInv
    OBVIOUS
  <2>1. <<>> \in Seq(Nat)
    OBVIOUS
  <2>2. ReceiveTypeOK
    BY <2>1 DEF ReceiveInit, ReceiveTypeOK, MainStages, ReaderStages
  <2>3. <<>> \o <<>> \o <<>> \o <<>> \o <<>> = <<>> /\ [i \in 1..0 |-> i] = <<>>
    OBVIOUS
  <2> QED BY <2>2, <2>3 DEF ReceiveInit, FramesInv, StagesInv, InFlightInOrder
<1>2. FramesInv => InFlightInOrder
  BY DEF FramesInv
<1> QED BY <1>1, <1>2, FramesStep, PTL DEF ReceiveSpec

\* Both together, which is what the executor relies on when it goes to wait.
THEOREM HandlerGetsFrames ==
  ASSUME EarlyFrames = FALSE PROVE ReceiveSpec => []FramesReachHandler
<1>1. NothingStranded /\ InFlightInOrder => FramesReachHandler
  BY DEF FramesReachHandler
<1> QED
  BY <1>1, NoWakeupLost, FramesKeepOrder, PTL
===============================================================================
