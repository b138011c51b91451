----------------------------- MODULE Nodes_proofs -----------------------------
(***************************************************************************)
(* Proofs about the nodes beside the coordinator and the tools: the chain  *)
(* of velocity commands, the scaling of the IMU, the camera, the sign      *)
(* detection, the road classification, the cleaning of the map, the        *)
(* drawing of the arena and the measuring of plans.  They share no state;  *)
(* each has its own invariant.                                             *)
(***************************************************************************)
EXTENDS CommandChain, ImuScale, CameraCompressor, SignDetection, RoadClassification,
        MapCleaning, ArenaRaster, PlanMetrics, SequenceTheorems, FiniteSetTheorems,
        FunctionTheorems, WellFoundedInduction, TLAPS

(***************************************************************************)
(* CommandChain: two stages may delay a command, the stamper's queue and   *)
(* the controller's.  A message carries in `late' how long it is on its    *)
(* way, so that what holds of the clocks of the nodes can be said of the   *)
(* messages between them.                                                  *)
(***************************************************************************)

Msg == [from : Sources, late : Nat]
Waiting  == topic["cmd_vel"]        \* before the stamper
Stamped  == topic[ReferenceIn]      \* before the controller
OnTeleop == topic["cmd_vel_teleop"]
OpHeard  == heard["cmd_vel_teleop"]
Fresh    == reference.age <= RefTimeout
Inputs   == {"cmd_vel_nav", "cmd_vel_nav_smoothed", "cmd_vel_recovery", "cmd_vel_teleop"}

ChainTypeOK ==
  /\ vehicle \in BOOLEAN /\ composed \in BOOLEAN /\ emergency \in BOOLEAN
  /\ topic \in [Topics -> Seq(Msg)] /\ heard \in [MuxTopics -> Nat]
  /\ lockedFor \in Nat /\ stall \in Nat /\ spoken \in Nat
  /\ reference \in [from : Sources \cup {"nobody"}, late : Nat, age : Nat]
  /\ slot \subseteq Sources

\* A message that waits before the mux is of this tick, and the operator's
\* topic carries the operator's messages and no others.
Genuine(t, m) == (m.from = "teleop" <=> t = "cmd_vel_teleop") /\ m.late = 0
SourceInv == \A t \in Inputs : \A i \in 1..Len(topic[t]) : Genuine(t, topic[t][i])

\* What waits in the stamper's queue has not waited longer than it stalls.
StallInv ==
  /\ stall <= MaxStall /\ (Waiting = <<>> => stall = 0)
  /\ \A i \in 1..Len(Waiting) : Waiting[i].late <= stall

\* Nothing enters the queue under the lock, so what is in it is older.
LockInv ==
  /\ ~emergency => lockedFor = 0
  /\ emergency /\ Waiting # <<>> => lockedFor <= stall
  /\ emergency /\ Stamped # <<>> => lockedFor <= MaxStall
  /\ lockedFor <= MaxStall + reference.age \/ ~Fresh

\* x of the operator, and after it y of another: twist_mux waited between them.
Apart(x, y) == x.from = "teleop" /\ y.from # "teleop" => x.late > y.late + MuxTimeout
Now == [from |-> reference.from, late |-> reference.late + reference.age]
SinceHeard(q) == \A i \in 1..Len(q) : q[i].from = "teleop" => q[i].late >= OpHeard
InOrder(q)    == \A i, j \in 1..Len(q) : i < j => Apart(q[i], q[j])
Ahead(q, r)   == \A i \in 1..Len(q), j \in 1..Len(r) : Apart(q[i], r[j])
NowAhead(r)   == Fresh => \A j \in 1..Len(r) : Apart(Now, r[j])

HandoverInv ==
  /\ SinceHeard(Waiting) /\ SinceHeard(Stamped)
  /\ reference.from = "teleop" /\ Fresh => reference.late + reference.age >= OpHeard
  /\ InOrder(Waiting) /\ InOrder(Stamped) /\ Ahead(Stamped, Waiting)
  /\ NowAhead(Waiting) /\ NowAhead(Stamped)

\* While the operator speaks nobody else is relayed: what is older goes
\* through the queues and out of them.
NewestFrom ==
  IF Waiting # <<>> THEN Waiting[Len(Waiting)].from
  ELSE IF Stamped # <<>> THEN Stamped[Len(Stamped)].from ELSE reference.from
Said == spoken >= 1 /\ "teleop" \in slot /\ OnTeleop = <<>>

SpeaksInv ==
  /\ spoken >= 1 => ~emergency /\ OpHeard <= 1
  /\ "teleop" \in slot => OnTeleop # <<>> \/ OpHeard = 0
  /\ \A i \in 1..Len(Waiting) : Waiting[i].from # "teleop" => Waiting[i].late >= spoken
NewestInv ==
  /\ spoken >= 2 \/ Said => NewestFrom = "teleop"
  /\ Said /\ Waiting = <<>> /\ Stamped = <<>> => reference.age = 0
ReachesInv ==
  spoken >= 2 =>
    IF Stamped # <<>> THEN Stamped[Len(Stamped)].from = "teleop" \/ stall + 1 >= spoken
    ELSE \/ stall + 1 >= spoken
         \/ reference.from = "teleop" /\ reference.age <= stall + 1

CommandInv ==
  /\ ChainTypeOK /\ SourceInv /\ StallInv /\ LockInv /\ HandoverInv
  /\ SpeaksInv /\ NewestInv /\ ReachesInv

-----------------------------------------------------------------------------
(* Queues *)

\* How many messages of q were dropped to make k of it.
Dropped(q, k) == Len(q) + 1 - Len(k)

LEMMA KeptAppend ==
  ASSUME NEW S, NEW q \in Seq(S), NEW m \in S
  PROVE  /\ Kept(Append(q, m)) \in Seq(S) /\ Len(Kept(Append(q, m))) \in Nat \ {0}
         /\ Kept(Append(q, m)) # <<>>
         /\ Kept(Append(q, m))[Len(Kept(Append(q, m)))] = m
         /\ Len(Kept(Append(q, m))) \in {Len(q), Len(q) + 1}
<1> DEFINE a == Append(q, m)
<1>1. /\ a \in Seq(S) /\ a # <<>> /\ Len(a) = Len(q) + 1 /\ a[Len(q) + 1] = m
      /\ \A i \in 1..Len(q) : a[i] = q[i]
      /\ Len(q) \in Nat
  OBVIOUS
<1>2. CASE ~(Len(a) > StamperDepth)
  <2>1. Kept(a) = a
    BY <1>2 DEF Kept
  <2> QED BY <1>1, <2>1
<1>3. CASE Len(a) > StamperDepth
  <2>1. Kept(a) = Tail(a) /\ Len(q) \in Nat \ {0}
    BY <1>1, <1>3, CommandChainAssumption DEF Kept
  <2>2. /\ Tail(a) \in Seq(S) /\ Len(Tail(a)) = Len(q)
        /\ \A i \in 1..Len(q) : Tail(a)[i] = a[i + 1]
    BY <1>1
  <2>3. Tail(a)[Len(q)] = m /\ Tail(a) # <<>>
    <3>1. Len(q) \in 1..Len(q) /\ Len(Tail(a)) # 0
      BY <2>1, <2>2
    <3> QED BY <3>1, <1>1, <2>2, EmptySeq
  <2> QED BY <2>1, <2>2, <2>3, <1>1
<1> QED BY <1>2, <1>3

LEMMA KeptShift ==
  ASSUME NEW S, NEW q \in Seq(S), NEW m \in S
  PROVE  \A i \in 1..(Len(Kept(Append(q, m))) - 1) :
           Kept(Append(q, m))[i] = q[i + Dropped(q, Kept(Append(q, m)))]
<1> DEFINE a == Append(q, m)
<1>1. /\ a \in Seq(S) /\ a # <<>> /\ Len(a) = Len(q) + 1 /\ a[Len(q) + 1] = m
      /\ \A i \in 1..Len(q) : a[i] = q[i]
      /\ Len(q) \in Nat
  OBVIOUS
<1>2. CASE ~(Len(a) > StamperDepth)
  <2>1. Kept(a) = a
    BY <1>2 DEF Kept
  <2>2. Len(a) - 1 = Len(q) /\ \A i \in 1..Len(q) : i + Dropped(q, a) = i
    BY <1>1 DEF Dropped
  <2>3. \A i \in 1..(Len(Kept(a)) - 1) : Kept(a)[i] = q[i + Dropped(q, Kept(a))]
    BY <2>1, <2>2, <1>1
  <2> QED BY <2>3
<1>3. CASE Len(a) > StamperDepth
  <2>1. Kept(a) = Tail(a) /\ Len(q) \in Nat \ {0}
    BY <1>1, <1>3, CommandChainAssumption DEF Kept
  <2>2. /\ Tail(a) \in Seq(S) /\ Len(Tail(a)) = Len(q)
        /\ \A i \in 1..Len(q) : Tail(a)[i] = a[i + 1]
    BY <1>1
  <2>4. \A i \in 1..(Len(Kept(a)) - 1) : Kept(a)[i] = q[i + Dropped(q, Kept(a))]
    <3>1. \A i \in 1..(Len(q) - 1) : Tail(a)[i] = a[i + 1] /\ a[i + 1] = q[i + 1]
      BY <1>1, <2>1, <2>2
    <3>2. Len(Kept(a)) = Len(q) /\ Dropped(q, Kept(a)) = 1
      BY <2>1, <2>2 DEF Dropped
    <3> QED BY <3>1, <3>2, <2>1
  <2> QED BY <2>4
<1> QED BY <1>2, <1>3

\* Every message of a queue after a publication was in it, or is the new one.
LEMMA KeptMembers ==
  ASSUME NEW S, NEW q \in Seq(S), NEW m \in S,
         NEW i \in 1..Len(Kept(Append(q, m)))
  PROVE  Kept(Append(q, m))[i] = m \/ \E j \in 1..Len(q) : Kept(Append(q, m))[i] = q[j]
<1> DEFINE k == Kept(Append(q, m))
<1> DEFINE d == Dropped(q, k)
<1>1. Len(k) \in {Len(q), Len(q) + 1} /\ k[Len(k)] = m
  BY KeptAppend
<1>k. \A j \in 1..(Len(k) - 1) : k[j] = q[j + d]
  BY KeptShift
<1> HIDE DEF k
<1>2. Len(q) \in Nat
  OBVIOUS
<1>d. d \in {0, 1} /\ Len(k) = Len(q) + 1 - d
  BY <1>1, <1>2 DEF Dropped
<1> HIDE DEF d
<1>3. CASE i = Len(k)
  BY <1>1, <1>3 DEF k
<1>4. CASE i # Len(k)
  <2>1. i \in 1..(Len(k) - 1) /\ i + d \in 1..Len(q)
    BY <1>d, <1>2, <1>4 DEF k
  <2> QED BY <2>1, <1>k DEF k
<1> QED BY <1>3, <1>4

LEMMA TailFacts ==
  ASSUME NEW S, NEW q \in Seq(S), q # <<>>
  PROVE  /\ Tail(q) \in Seq(S) /\ Len(Tail(q)) = Len(q) - 1 /\ Len(q) \in Nat \ {0}
         /\ Head(q) = q[1] /\ 1 \in 1..Len(q) /\ q[1] \in S
         /\ \A i \in 1..Len(Tail(q)) : Tail(q)[i] = q[i + 1] /\ i + 1 \in 1..Len(q)
         /\ Tail(q) = <<>> <=> Len(q) = 1
<1>1. Len(q) \in Nat \ {0} /\ Tail(q) \in Seq(S) /\ Len(Tail(q)) = Len(q) - 1
  OBVIOUS
<1>2. \A i \in 1..Len(Tail(q)) : Tail(q)[i] = q[i + 1] /\ i + 1 \in 1..Len(q)
  BY <1>1
<1>3. Tail(q) = <<>> <=> Len(Tail(q)) = 0
  BY <1>1, EmptySeq
<1> QED BY <1>1, <1>2, <1>3

LEMMA Queued ==
  ASSUME NEW q \in Seq(Msg), NEW i \in 1..Len(q) PROVE q[i] \in Msg /\ q[i].late \in Nat
<1>1. q[i] \in Msg
  OBVIOUS
<1> QED BY <1>1 DEF Msg

\* The last message of a queue stays its last when the first is taken.
LEMMA LastOfTail ==
  ASSUME NEW S, NEW q \in Seq(S), q # <<>>, Tail(q) # <<>>
  PROVE  Tail(q)[Len(Tail(q))] = q[Len(q)]
<1>1. /\ Len(q) \in Nat \ {0} /\ Len(Tail(q)) = Len(q) - 1 /\ Len(Tail(q)) \in Nat \ {0}
      /\ \A i \in 1..Len(Tail(q)) : Tail(q)[i] = q[i + 1]
  BY TailFacts
<1>2. Len(Tail(q)) \in 1..Len(Tail(q)) /\ Len(Tail(q)) + 1 = Len(q)
  BY <1>1
<1> QED BY <1>1, <1>2

LEMMA OrderAppend ==
  ASSUME NEW q \in Seq(Msg), NEW m \in Msg, InOrder(q), \A i \in 1..Len(q) : Apart(q[i], m)
  PROVE  InOrder(Kept(Append(q, m)))
<1> DEFINE k == Kept(Append(q, m))
<1> DEFINE d == Dropped(q, k)
<1>1. Len(k) \in {Len(q), Len(q) + 1} /\ k[Len(k)] = m
  BY KeptAppend
<1>k. \A j \in 1..(Len(k) - 1) : k[j] = q[j + d]
  BY KeptShift
<1> HIDE DEF k
<1>2. Len(q) \in Nat
  OBVIOUS
<1>d. d \in {0, 1} /\ Len(k) = Len(q) + 1 - d
  BY <1>1, <1>2 DEF Dropped
<1> HIDE DEF d
<1>3. \A i \in 1..Len(k) : i = Len(k) \/ (i \in 1..(Len(k) - 1) /\ i + d \in 1..Len(q))
  BY <1>d, <1>2
<1>4. SUFFICES ASSUME NEW i \in 1..Len(k), NEW j \in 1..Len(k), i < j PROVE Apart(k[i], k[j])
  BY DEF InOrder, k
<1>5. i \in 1..(Len(k) - 1) /\ i + d \in 1..Len(q) /\ k[i] = q[i + d]
  <2>1. i \in 1..(Len(k) - 1) /\ i + d \in 1..Len(q)
    BY <1>2, <1>d, <1>3, <1>4
  <2> QED BY <1>k, <2>1
<1>6. CASE j = Len(k)
  BY <1>1, <1>5, <1>6
<1>7. CASE j # Len(k)
  <2>1. j + d \in 1..Len(q) /\ k[j] = q[j + d] /\ i + d < j + d
    BY <1>k, <1>d, <1>2, <1>3, <1>4, <1>7
  <2> QED BY <1>5, <2>1 DEF InOrder
<1> QED BY <1>6, <1>7

LEMMA OrderTail ==
  ASSUME NEW q \in Seq(Msg), q # <<>>, InOrder(q)
  PROVE  InOrder(Tail(q)) /\ \A i \in 1..Len(Tail(q)) : Apart(q[1], Tail(q)[i])
<1>1. /\ 1 \in 1..Len(q)
      /\ \A i \in 1..Len(Tail(q)) : Tail(q)[i] = q[i + 1] /\ i + 1 \in 1..Len(q)
      /\ Len(Tail(q)) \in Nat
  BY TailFacts
<1>2. \A i \in 1..Len(Tail(q)) : 1 < i + 1
  BY <1>1
<1>3. \A i, j \in 1..Len(Tail(q)) : i < j => i + 1 < j + 1
  BY <1>1
<1> QED BY <1>1, <1>2, <1>3 DEF InOrder

-----------------------------------------------------------------------------
(* What the nodes do to the queues *)

LEMMA Wiring ==
  ASSUME vehicle \in BOOLEAN, composed \in BOOLEAN
  PROVE  /\ ReferenceIn \in {"cmd_vel_stamped", "ackermann_controller/reference"}
         /\ StamperOut = ReferenceIn /\ Nav.velocity_smoother = "cmd_vel_nav_smoothed"
         /\ \A s \in Sources : Voice(s) \in Inputs /\ (s = "teleop" <=> Voice(s) = "cmd_vel_teleop")
  BY DEF ReferenceIn, StamperOut, Nav, Standalone, Composable, Voice, Sources, Inputs

LEMMA Names ==
  /\ Inputs \subseteq Topics /\ MuxTopics \subseteq Inputs /\ "cmd_vel" \in Topics \ Inputs
  /\ {"cmd_vel_stamped", "ackermann_controller/reference"}
       \subseteq Topics \ (Inputs \cup {"cmd_vel"})
  /\ "cmd_vel_teleop" \in MuxTopics /\ Inputs = MuxTopics \cup {"cmd_vel_nav"}
  BY DEF Inputs, Topics, MuxTopics, Priority

\* A publication on an input of the mux.
LEMMA InputPublished ==
  ASSUME topic \in [Topics -> Seq(Msg)], NEW t \in Inputs, NEW m \in Msg,
         topic' = [topic EXCEPT ![t] = Kept(Append(@, m))]
  PROVE  /\ topic' \in [Topics -> Seq(Msg)]
         /\ \A u \in Topics \ {t} : topic'[u] = topic[u]
         /\ topic'[t] = Kept(Append(topic[t], m)) /\ topic'[t] # <<>>
<1>1. t \in Topics /\ topic[t] \in Seq(Msg)
  BY Names
<1>2. topic'[t] = Kept(Append(topic[t], m)) /\ \A u \in Topics \ {t} : topic'[u] = topic[u]
  BY <1>1
<1>3. Kept(Append(topic[t], m)) \in Seq(Msg) /\ Kept(Append(topic[t], m)) # <<>>
  BY <1>1, KeptAppend
<1> QED BY <1>1, <1>2, <1>3

\* A message taken off a queue.
LEMMA Takes ==
  ASSUME ChainTypeOK, NEW t \in Topics, topic[t] # <<>>
  PROVE  /\ Taken(t) \in [Topics -> Seq(Msg)] /\ Taken(t)[t] = Tail(topic[t])
         /\ \A u \in Topics \ {t} : Taken(t)[u] = topic[u]
         /\ Head(topic[t]) = topic[t][1] /\ topic[t][1] \in Msg
         /\ \A i \in 1..Len(Taken(t)[t]) :
              Taken(t)[t][i] = topic[t][i + 1] /\ i + 1 \in 1..Len(topic[t])
<1>1. topic[t] \in Seq(Msg) /\ topic \in [Topics -> Seq(Msg)]
  BY DEF ChainTypeOK
<1>2. /\ Tail(topic[t]) \in Seq(Msg) /\ Head(topic[t]) = topic[t][1] /\ topic[t][1] \in Msg
      /\ \A i \in 1..Len(Tail(topic[t])) : Tail(topic[t])[i] = topic[t][i + 1]
                                             /\ i + 1 \in 1..Len(topic[t])
  BY <1>1, TailFacts
<1>3. /\ Taken(t) \in [Topics -> Seq(Msg)] /\ Taken(t)[t] = Tail(topic[t])
      /\ \A u \in Topics \ {t} : Taken(t)[u] = topic[u]
  BY <1>1, <1>2 DEF Taken
<1> QED BY <1>2, <1>3

\* A message moved from one queue to another.
LEMMA Passes ==
  ASSUME ChainTypeOK, NEW t \in Topics, NEW u \in Topics \ {t}, topic[t] # <<>>
  PROVE  /\ Pass(t, u) = [Taken(t) EXCEPT ![u] = Kept(Append(@, topic[t][1]))]
         /\ Pass(t, u) \in [Topics -> Seq(Msg)] /\ Pass(t, u)[t] = Tail(topic[t])
         /\ Pass(t, u)[u] = Kept(Append(topic[u], topic[t][1]))
         /\ \A v \in Topics \ {t, u} : Pass(t, u)[v] = topic[v]
<1>1. /\ Taken(t) \in [Topics -> Seq(Msg)] /\ Taken(t)[t] = Tail(topic[t])
      /\ \A v \in Topics \ {t} : Taken(t)[v] = topic[v]
      /\ Head(topic[t]) = topic[t][1] /\ topic[t][1] \in Msg
  BY Takes
<1>2. topic[u] \in Seq(Msg) /\ Kept(Append(topic[u], topic[t][1])) \in Seq(Msg)
  BY <1>1, KeptAppend DEF ChainTypeOK
<1>3. Pass(t, u) = [Taken(t) EXCEPT ![u] = Kept(Append(@, topic[t][1]))]
  BY <1>1 DEF Pass
<1> HIDE DEF Taken
<1> QED BY <1>1, <1>2, <1>3

LEMMA IssueStep ==
  ASSUME ChainTypeOK, SourceInv, NEW s \in Sources, Issue(s)
  PROVE  /\ ChainTypeOK' /\ SourceInv' /\ Waiting' = Waiting /\ Stamped' = Stamped
         /\ UNCHANGED <<emergency, lockedFor, stall, reference, spoken, heard>>
         /\ "teleop" \in slot' => OnTeleop' # <<>> \/ ("teleop" \in slot /\ OnTeleop' = OnTeleop)
<1>0. PICK t \in Inputs : t = Voice(s) /\ (s = "teleop" <=> t = "cmd_vel_teleop")
  BY Wiring DEF ChainTypeOK
<1>m. PICK m \in Msg : m = [from |-> s, late |-> 0]
  BY DEF Msg
<1>1. /\ slot' = slot \cup {s} /\ topic' = [topic EXCEPT ![t] = Kept(Append(@, m))]
      /\ UNCHANGED <<vehicle, composed, heard, emergency, lockedFor, stall, reference, spoken>>
  BY <1>0, <1>m DEF Issue, Publish
<1>2. topic \in [Topics -> Seq(Msg)]
  BY DEF ChainTypeOK
<1>3. /\ topic' \in [Topics -> Seq(Msg)] /\ \A u \in Topics \ {t} : topic'[u] = topic[u]
      /\ topic'[t] = Kept(Append(topic[t], m)) /\ topic'[t] # <<>>
  BY <1>1, <1>2, InputPublished
<1> DEFINE k == Kept(Append(topic[t], m))
<1>k. \A i \in 1..Len(k) : k[i] = m \/ \E j \in 1..Len(topic[t]) : k[i] = topic[t][j]
  <2>1. topic[t] \in Seq(Msg)
    BY <1>2, Names
  <2> QED BY <2>1, KeptMembers
<1> HIDE DEF k
<1>n. topic'[t] = k
  BY <1>3 DEF k
<1>4. ChainTypeOK'
  BY <1>1, <1>3 DEF ChainTypeOK
<1>5. SourceInv'
  <2>1. ASSUME NEW u \in Inputs, NEW i \in 1..Len(topic'[u])
        PROVE  Genuine(u, topic'[u][i])
    <3>1. CASE u # t
      <4>1. topic'[u] = topic[u]
        BY <1>3, <3>1, Names
      <4> QED BY <4>1, <2>1 DEF SourceInv
    <3>2. CASE u = t
      <4>1. Genuine(t, m)
        BY <1>0, <1>m DEF Genuine
      <4> QED BY <1>k, <1>n, <4>1, <2>1, <3>2 DEF SourceInv
    <3> QED BY <3>1, <3>2
  <2> QED BY <2>1 DEF SourceInv
<1>6. ReferenceIn' = ReferenceIn /\ ReferenceIn \in Topics \ (Inputs \cup {"cmd_vel"})
  BY <1>1, Wiring, Names DEF ReferenceIn, ChainTypeOK
<1>7. Waiting' = Waiting /\ Stamped' = Stamped
  BY <1>3, <1>6, Names DEF Waiting, Stamped
<1>8. "teleop" \in slot' => OnTeleop' # <<>> \/ ("teleop" \in slot /\ OnTeleop' = OnTeleop)
  BY <1>0, <1>1, <1>3, Names DEF OnTeleop
<1> QED BY <1>1, <1>4, <1>5, <1>7, <1>8

LEMMA SmootherStep ==
  ASSUME ChainTypeOK, SourceInv, Smoother
  PROVE  /\ ChainTypeOK' /\ SourceInv' /\ Waiting' = Waiting /\ Stamped' = Stamped
         /\ UNCHANGED <<emergency, lockedFor, stall, reference, spoken, heard, slot, OnTeleop>>
<1> DEFINE u == "cmd_vel_nav_smoothed"
<1> DEFINE t == "cmd_vel_nav"
<1>1. /\ topic[t] # <<>> /\ topic' = Pass(t, u)
      /\ UNCHANGED <<vehicle, composed, heard, emergency, lockedFor, stall, reference, slot,
                     spoken>>
  BY Wiring DEF Smoother, ChainTypeOK
<1>2. t \in Inputs /\ u \in Inputs /\ t # u /\ t # "cmd_vel_teleop" /\ u # "cmd_vel_teleop"
  BY DEF Inputs
<1> HIDE DEF t, u
<1>3. /\ topic' \in [Topics -> Seq(Msg)] /\ topic'[t] = Tail(topic[t])
      /\ topic'[u] = Kept(Append(topic[u], topic[t][1]))
      /\ \A v \in Topics \ {t, u} : topic'[v] = topic[v]
  BY <1>1, <1>2, Names, Passes
<1>4. topic[t] \in Seq(Msg) /\ topic[u] \in Seq(Msg)
  BY <1>2, Names DEF ChainTypeOK
<1>5. /\ topic[t][1] \in Msg /\ 1 \in 1..Len(topic[t])
      /\ \A i \in 1..Len(topic'[t]) : topic'[t][i] = topic[t][i + 1] /\ i + 1 \in 1..Len(topic[t])
  BY <1>1, <1>3, <1>4, TailFacts
<1> DEFINE k == Kept(Append(topic[u], topic[t][1]))
<1>k. \A i \in 1..Len(k) : k[i] = topic[t][1] \/ \E j \in 1..Len(topic[u]) : k[i] = topic[u][j]
  <2> DEFINE q == topic[u]
  <2> DEFINE m == topic[t][1]
  <2>1. q \in Seq(Msg) /\ m \in Msg
    BY <1>4, <1>5
  <2> HIDE DEF q, m
  <2>2. \A i \in 1..Len(Kept(Append(q, m))) : Kept(Append(q, m))[i] = m
          \/ \E j \in 1..Len(q) : Kept(Append(q, m))[i] = q[j]
    BY <2>1, KeptMembers
  <2> QED BY <2>2 DEF q, m
<1> HIDE DEF k
<1>6. \A i \in 1..Len(topic'[u]) : topic'[u][i] = topic[t][1]
        \/ \E j \in 1..Len(topic[u]) : topic'[u][i] = topic[u][j]
  <2>1. topic'[u] = k
    BY <1>3 DEF k
  <2> QED BY <2>1, <1>k
<1>7. SourceInv'
  <2>1. ASSUME NEW v \in Inputs, NEW i \in 1..Len(topic'[v])
        PROVE  Genuine(v, topic'[v][i])
    <3>1. CASE v \notin {t, u}
      <4>1. topic'[v] = topic[v]
        BY <1>3, <3>1, Names
      <4> QED BY <4>1, <2>1 DEF SourceInv
    <3>2. CASE v = t
      BY <1>2, <1>5, <2>1, <3>2 DEF SourceInv
    <3>3. CASE v = u
      <4>1. Genuine(t, topic[t][1])
        BY <1>2, <1>5 DEF SourceInv
      <4>2. Genuine(u, topic[t][1])
        BY <4>1, <1>2 DEF Genuine
      <4> QED BY <4>2, <1>2, <1>6, <2>1, <3>3 DEF SourceInv
    <3> QED BY <3>1, <3>2, <3>3
  <2> QED BY <2>1 DEF SourceInv
<1>8. ReferenceIn' = ReferenceIn /\ ReferenceIn \in Topics \ (Inputs \cup {"cmd_vel"})
  BY <1>1, Wiring, Names DEF ReferenceIn, ChainTypeOK
<1>9. Waiting' = Waiting /\ Stamped' = Stamped /\ OnTeleop' = OnTeleop
  BY <1>2, <1>3, <1>8, Names DEF Waiting, Stamped, OnTeleop
<1> QED BY <1>1, <1>3, <1>7, <1>9 DEF ChainTypeOK

LEMMA MuxStep ==
  ASSUME ChainTypeOK, SourceInv, NEW t \in MuxTopics, Mux(t)
  PROVE  /\ ChainTypeOK' /\ SourceInv' /\ Stamped' = Stamped
         /\ UNCHANGED <<emergency, lockedFor, stall, reference, slot, spoken>>
         /\ OpHeard' = IF t = "cmd_vel_teleop" THEN 0 ELSE OpHeard
         /\ t # "cmd_vel_teleop" => OnTeleop' = OnTeleop
         /\ ~Relayed(t) => Waiting' = Waiting
         /\ \E m \in Msg : /\ m.late = 0 /\ (m.from = "teleop" <=> t = "cmd_vel_teleop")
                           /\ Relayed(t) => Waiting' = Kept(Append(Waiting, m))
<1> DEFINE c == "cmd_vel"
<1> DEFINE m == topic[t][1]
<1>1. /\ topic[t] # <<>> /\ heard' = [heard EXCEPT ![t] = 0]
      /\ topic' = IF Relayed(t) THEN Pass(t, c) ELSE Taken(t)
      /\ UNCHANGED <<vehicle, composed, emergency, lockedFor, stall, reference, slot, spoken>>
  BY DEF Mux
<1>2. t \in Inputs /\ t \in Topics /\ c \in Topics \ {t} /\ c \notin Inputs
  BY Names
<1>3. /\ topic[t] \in Seq(Msg) /\ topic[c] \in Seq(Msg)
      /\ topic \in [Topics -> Seq(Msg)] /\ heard \in [MuxTopics -> Nat]
  BY <1>2 DEF ChainTypeOK
<1>4. /\ m \in Msg /\ 1 \in 1..Len(topic[t]) /\ Tail(topic[t]) \in Seq(Msg)
      /\ \A i \in 1..Len(Tail(topic[t])) : Tail(topic[t])[i] = topic[t][i + 1]
                                             /\ i + 1 \in 1..Len(topic[t])
  BY <1>1, <1>3, TailFacts
<1>5. m.late = 0 /\ (m.from = "teleop" <=> t = "cmd_vel_teleop")
  BY <1>2, <1>4 DEF SourceInv, Genuine
<1>6. /\ topic' \in [Topics -> Seq(Msg)] /\ topic'[t] = Tail(topic[t])
      /\ Relayed(t) => topic'[c] = Kept(Append(topic[c], m))
      /\ ~Relayed(t) => topic'[c] = topic[c]
      /\ \A v \in Topics \ {t, c} : topic'[v] = topic[v]
  <2>1. CASE Relayed(t)
    BY <2>1, <1>1, <1>2, Passes
  <2>2. CASE ~Relayed(t)
    BY <2>2, <1>1, <1>2, Takes
  <2> QED BY <2>1, <2>2
<1> HIDE DEF m, c
<1>7. SourceInv'
  <2>1. ASSUME NEW v \in Inputs, NEW i \in 1..Len(topic'[v])
        PROVE  Genuine(v, topic'[v][i])
    <3>1. CASE v # t
      <4>1. topic'[v] = topic[v]
        BY <1>2, <1>6, <3>1, Names
      <4> QED BY <4>1, <2>1 DEF SourceInv
    <3>2. CASE v = t
      <4>1. topic'[v] = Tail(topic[t])
        BY <1>6, <3>2
      <4> QED BY <1>2, <1>4, <4>1, <2>1, <3>2 DEF SourceInv
    <3> QED BY <3>1, <3>2
  <2> QED BY <2>1 DEF SourceInv
<1>8. heard' \in [MuxTopics -> Nat] /\ OpHeard' = IF t = "cmd_vel_teleop" THEN 0 ELSE OpHeard
  BY <1>1, <1>3, Names DEF OpHeard
<1>9. ReferenceIn' = ReferenceIn /\ ReferenceIn \in Topics \ (Inputs \cup {"cmd_vel"})
  BY <1>1, Wiring, Names DEF ReferenceIn, ChainTypeOK
<1>10. Stamped' = Stamped /\ (t # "cmd_vel_teleop" => OnTeleop' = OnTeleop)
  BY <1>2, <1>6, <1>9, Names DEF Stamped, OnTeleop, c
<1>11. /\ ~Relayed(t) => Waiting' = Waiting
       /\ Relayed(t) => Waiting' = Kept(Append(Waiting, m))
  BY <1>6 DEF Waiting, c
<1>12. ChainTypeOK'
  BY <1>1, <1>6, <1>8 DEF ChainTypeOK
<1> QED BY <1>1, <1>4, <1>5, <1>7, <1>8, <1>10, <1>11, <1>12

LEMMA StamperStep ==
  ASSUME ChainTypeOK, SourceInv, Stamper
  PROVE  /\ ChainTypeOK' /\ SourceInv' /\ Waiting # <<>>
         /\ UNCHANGED <<emergency, lockedFor, reference, heard, slot, spoken, OnTeleop>>
         /\ stall' = IF Len(Waiting) = 1 THEN 0 ELSE stall
         /\ Waiting' = Tail(Waiting) /\ Stamped' = Kept(Append(Stamped, Waiting[1]))
<1> DEFINE c == "cmd_vel"
<1>1. /\ topic[c] # <<>> /\ topic' = Pass(c, ReferenceIn)
      /\ stall' = IF Len(topic[c]) = 1 THEN 0 ELSE stall
      /\ UNCHANGED <<vehicle, composed, heard, emergency, lockedFor, reference, slot, spoken>>
  BY Wiring DEF Stamper, ChainTypeOK
<1>2. /\ ReferenceIn' = ReferenceIn /\ ReferenceIn \in Topics \ (Inputs \cup {c})
      /\ c \in Topics \ Inputs
  BY <1>1, Wiring, Names DEF ReferenceIn, ChainTypeOK
<1> HIDE DEF c
<1>3. /\ topic' \in [Topics -> Seq(Msg)] /\ topic'[c] = Tail(topic[c])
      /\ topic'[ReferenceIn] = Kept(Append(topic[ReferenceIn], topic[c][1]))
      /\ \A v \in Topics \ {c, ReferenceIn} : topic'[v] = topic[v]
  BY <1>1, <1>2, Passes
<1>i. \A v \in Inputs : topic'[v] = topic[v]
  BY <1>2, <1>3, Names
<1>4. SourceInv' /\ OnTeleop' = OnTeleop
  BY <1>i, Names DEF SourceInv, OnTeleop
<1>5. ChainTypeOK'
  BY <1>1, <1>3 DEF ChainTypeOK
<1> QED BY <1>1, <1>2, <1>3, <1>4, <1>5 DEF Waiting, Stamped, c

LEMMA ControllerStep ==
  ASSUME ChainTypeOK, SourceInv, Controller
  PROVE  /\ ChainTypeOK' /\ SourceInv' /\ Stamped # <<>> /\ Waiting' = Waiting
         /\ UNCHANGED <<emergency, lockedFor, stall, heard, slot, spoken, OnTeleop>>
         /\ Stamped' = Tail(Stamped)
         /\ reference' = [from |-> Stamped[1].from, late |-> Stamped[1].late, age |-> 0]
<1> DEFINE r == ReferenceIn
<1>1. /\ topic[r] # <<>> /\ topic' = Taken(r)
      /\ reference' = [from |-> Head(topic[r]).from, late |-> Head(topic[r]).late, age |-> 0]
      /\ UNCHANGED <<vehicle, composed, heard, emergency, lockedFor, stall, slot, spoken>>
  BY DEF Controller
<1>2. ReferenceIn' = r /\ r \in Topics \ (Inputs \cup {"cmd_vel"})
  BY <1>1, Wiring, Names DEF ReferenceIn, ChainTypeOK
<1> HIDE DEF r
<1>3. /\ topic' \in [Topics -> Seq(Msg)] /\ topic'[r] = Tail(topic[r])
      /\ \A v \in Topics \ {r} : topic'[v] = topic[v]
      /\ Head(topic[r]) = topic[r][1] /\ topic[r][1] \in Msg
  BY <1>1, <1>2, Takes
<1>i. \A v \in Inputs \cup {"cmd_vel"} : topic'[v] = topic[v]
  BY <1>2, <1>3, Names
<1>4. SourceInv' /\ OnTeleop' = OnTeleop /\ Waiting' = Waiting
  BY <1>i, Names DEF SourceInv, OnTeleop, Waiting
<1>5. ChainTypeOK'
  BY <1>1, <1>3 DEF ChainTypeOK, Msg
<1> QED BY <1>1, <1>2, <1>3, <1>4, <1>5 DEF Stamped, r

LEMMA QuietQueues ==
  ASSUME vehicle \in BOOLEAN, composed \in BOOLEAN, Quiet
  PROVE  Stamped = <<>> /\ OnTeleop = <<>> /\ \A t \in Inputs : topic[t] = <<>>
  BY Names DEF Quiet, Stamped, OnTeleop, Inputs

LEMMA Aged ==
  ASSUME NEW q \in Seq(Msg), NEW k, k = [i \in DOMAIN q |-> [q[i] EXCEPT !.late = @ + 1]]
  PROVE  /\ k \in Seq(Msg) /\ Len(k) = Len(q) /\ (k = <<>> <=> q = <<>>)
         /\ \A i \in 1..Len(q) : k[i].from = q[i].from /\ k[i].late = q[i].late + 1
<1>1. DOMAIN q = 1..Len(q) /\ Len(q) \in Nat /\ \A i \in 1..Len(q) : q[i] \in Msg
  OBVIOUS
<1>2. \A i \in 1..Len(q) : q[i].late \in Nat /\ q[i].late + 1 \in Nat
  BY <1>1 DEF Msg
<1>3. \A i \in 1..Len(q) : k[i] = [q[i] EXCEPT !.late = @ + 1] /\ k[i] \in Msg
  BY <1>1, <1>2 DEF Msg
<1>4. k \in [1..Len(q) -> Msg]
  BY <1>1, <1>3
<1>5. k \in Seq(Msg) /\ Len(k) = Len(q)
  BY <1>1, <1>4, SeqDef
<1>6. k = <<>> <=> q = <<>>
  BY <1>5, EmptySeq
<1>7. \A i \in 1..Len(q) : k[i].from = q[i].from /\ k[i].late = q[i].late + 1
  BY <1>1, <1>3 DEF Msg
<1> QED BY <1>5, <1>6, <1>7

\* Two messages that age together stay as far apart.
LEMMA AgeTogether ==
  ASSUME NEW x, NEW y, NEW x1, NEW y1, x.late \in Nat, y.late \in Nat, Apart(x, y),
         x1.from = x.from, y1.from = y.from, x1.late = x.late + 1, y1.late = y.late + 1
  PROVE  Apart(x1, y1)
  BY CommandChainAssumption DEF Apart

LEMMA ElapseStep ==
  ASSUME ChainTypeOK, SourceInv, Elapse
  PROVE  /\ ChainTypeOK' /\ SourceInv' /\ Stamped = <<>> /\ Stamped' = <<>> /\ OnTeleop = <<>>
         /\ Len(Waiting') = Len(Waiting) /\ (Waiting' = <<>> <=> Waiting = <<>>)
         /\ \A i \in 1..Len(Waiting) : Waiting'[i].from = Waiting[i].from
                                         /\ Waiting'[i].late = Waiting[i].late + 1
         /\ OpHeard' = Older(OpHeard, MuxTimeout) /\ emergency' = emergency /\ slot' = {}
         /\ reference' = [reference EXCEPT !.age = Older(@, RefTimeout)]
<1>1. /\ topic' = [t \in Topics |-> [i \in DOMAIN topic[t] |-> [topic[t][i] EXCEPT !.late = @ + 1]]]
      /\ heard' = [t \in MuxTopics |-> Older(heard[t], MuxTimeout)]
      /\ reference' = [reference EXCEPT !.age = Older(@, RefTimeout)]
      /\ slot' = {} /\ UNCHANGED <<vehicle, composed, emergency>>
  BY DEF Elapse
<1>2. Stamped = <<>> /\ OnTeleop = <<>> /\ \A t \in Inputs : topic[t] = <<>>
  BY QuietQueues DEF Elapse, ChainTypeOK
<1>3. \A t \in Topics :
        /\ topic'[t] \in Seq(Msg) /\ Len(topic'[t]) = Len(topic[t])
        /\ topic'[t] = <<>> <=> topic[t] = <<>>
        /\ \A i \in 1..Len(topic[t]) : topic'[t][i].from = topic[t][i].from
                                         /\ topic'[t][i].late = topic[t][i].late + 1
  <2>1. SUFFICES ASSUME NEW t \in Topics
        PROVE  /\ topic'[t] \in Seq(Msg) /\ Len(topic'[t]) = Len(topic[t])
               /\ topic'[t] = <<>> <=> topic[t] = <<>>
               /\ \A i \in 1..Len(topic[t]) : topic'[t][i].from = topic[t][i].from
                                                /\ topic'[t][i].late = topic[t][i].late + 1
    OBVIOUS
  <2> DEFINE q == topic[t]
  <2> DEFINE k == [i \in DOMAIN q |-> [q[i] EXCEPT !.late = @ + 1]]
  <2>2. q \in Seq(Msg) /\ topic'[t] = k
    BY <1>1 DEF ChainTypeOK
  <2>3. /\ k \in Seq(Msg) /\ Len(k) = Len(q) /\ (k = <<>> <=> q = <<>>)
        /\ \A i \in 1..Len(q) : k[i].from = q[i].from /\ k[i].late = q[i].late + 1
    BY <2>2, Aged
  <2> HIDE DEF k
  <2> QED BY <2>2, <2>3
<1>4. topic' \in [Topics -> Seq(Msg)]
  <2>1. DOMAIN topic' = Topics /\ topic' = [t \in Topics |-> topic'[t]]
    BY <1>1
  <2> QED BY <2>1, <1>3
<1>5. heard' \in [MuxTopics -> Nat]
  BY <1>1, CommandChainAssumption DEF ChainTypeOK, Older
<1>6. reference' \in [from : Sources \cup {"nobody"}, late : Nat, age : Nat]
  <2>1. reference.age \in Nat /\ Older(reference.age, RefTimeout) \in Nat
    BY CommandChainAssumption DEF ChainTypeOK, Older
  <2>2. reference' = [reference EXCEPT !.age = Older(reference.age, RefTimeout)]
    BY <1>1
  <2> QED BY <2>1, <2>2 DEF ChainTypeOK
<1>7. lockedFor' \in Nat /\ stall' \in Nat /\ spoken' \in Nat
  BY CommandChainAssumption DEF Elapse, ChainTypeOK, Older
<1>8. ChainTypeOK'
  BY <1>1, <1>4, <1>5, <1>6, <1>7 DEF ChainTypeOK
<1>9. SourceInv'
  <2>1. \A t \in Inputs : topic'[t] = <<>>
    BY <1>2, <1>3, Names
  <2>2. \A t \in Inputs : 1..Len(topic'[t]) = {}
    BY <2>1
  <2> QED BY <2>2 DEF SourceInv
<1>10. Stamped' = <<>>
  <2>1. ReferenceIn' = ReferenceIn /\ ReferenceIn \in Topics
    BY <1>1, Wiring, Names DEF ReferenceIn, ChainTypeOK
  <2> QED BY <2>1, <1>2, <1>3 DEF Stamped
<1>11. OpHeard' = Older(OpHeard, MuxTimeout)
  BY <1>1, Names DEF OpHeard
<1> QED BY <1>1, <1>2, <1>3, <1>8, <1>9, <1>10, <1>11, Names DEF Waiting

\* Lock and Unlock leave the queues alone.
LEMMA LockStep ==
  ASSUME ChainTypeOK, SourceInv, Lock \/ Unlock
  PROVE  /\ ChainTypeOK' /\ SourceInv' /\ Waiting' = Waiting /\ Stamped' = Stamped
         /\ OnTeleop' = OnTeleop /\ Stamped = <<>> /\ OnTeleop = <<>> /\ lockedFor' = 0
         /\ UNCHANGED <<stall, reference, slot, heard>>
         /\ \/ spoken' = 0 /\ ~emergency
            \/ spoken' = spoken /\ emergency /\ ~emergency'
<1>1. /\ UNCHANGED <<vehicle, composed, topic, heard, stall, reference, slot>> /\ lockedFor' = 0
      /\ \/ spoken' = 0 /\ ~emergency /\ emergency'
         \/ spoken' = spoken /\ emergency /\ ~emergency'
      /\ Quiet /\ emergency' \in BOOLEAN
  BY DEF Lock, Unlock
<1>2. ReferenceIn' = ReferenceIn
  BY <1>1 DEF ReferenceIn
<1>3. Stamped = <<>> /\ OnTeleop = <<>>
  BY <1>1, QuietQueues DEF ChainTypeOK
<1> QED BY <1>1, <1>2, <1>3 DEF ChainTypeOK, SourceInv, Waiting, Stamped, OnTeleop

-----------------------------------------------------------------------------
(* The invariant *)

LEMMA InitCommandInv == ChainInit => CommandInv
<1> SUFFICES ASSUME ChainInit PROVE CommandInv
  OBVIOUS
<1>n. <<>> \in Seq(Msg)
  OBVIOUS
<1>1. vehicle \in BOOLEAN /\ composed \in BOOLEAN /\ topic = [t \in Topics |-> <<>>]
  BY DEF ChainInit
<1>2. topic \in [Topics -> Seq(Msg)]
  BY <1>1, <1>n, Zenon
<1>3. Waiting = <<>> /\ Stamped = <<>> /\ OnTeleop = <<>> /\ \A t \in Inputs : topic[t] = <<>>
  BY <1>1, Wiring, Names DEF Waiting, Stamped, OnTeleop
<1>4. Len(Waiting) = 0 /\ Len(Stamped) = 0 /\ 1..0 = {} /\ \A t \in Inputs : Len(topic[t]) = 0
  BY <1>3
<1>5. ChainTypeOK
  <2>1. heard \in [MuxTopics -> Nat] /\ slot \subseteq Sources
    BY CommandChainAssumption DEF ChainInit
  <2>2. reference \in [from : Sources \cup {"nobody"}, late : Nat, age : Nat]
    BY CommandChainAssumption DEF ChainInit
  <2> QED BY <1>1, <1>2, <2>1, <2>2 DEF ChainInit, ChainTypeOK
<1>6. SourceInv /\ StallInv
  BY <1>3, <1>4, CommandChainAssumption DEF ChainInit, SourceInv, StallInv
<1>7. LockInv /\ ~Fresh
  BY <1>3, CommandChainAssumption DEF ChainInit, LockInv, Fresh
<1>8. HandoverInv
  BY <1>4, <1>7 DEF HandoverInv, SinceHeard, InOrder, Ahead, NowAhead
<1>9. SpeaksInv /\ NewestInv /\ ReachesInv
  BY <1>4 DEF ChainInit, SpeaksInv, NewestInv, ReachesInv, Said
<1> QED BY <1>5, <1>6, <1>7, <1>8, <1>9 DEF CommandInv

\* A step before the mux changes only what the operator has said in this tick.
LEMMA InputsKeepInv ==
  ASSUME CommandInv, ChainTypeOK', SourceInv', Waiting' = Waiting, Stamped' = Stamped,
         UNCHANGED <<emergency, lockedFor, stall, reference, spoken, heard>>,
         "teleop" \in slot' => OnTeleop' # <<>> \/ ("teleop" \in slot /\ OnTeleop' = OnTeleop)
  PROVE  CommandInv'
<1>1. OpHeard' = OpHeard /\ (Fresh' <=> Fresh) /\ Now' = Now /\ NewestFrom' = NewestFrom
  BY DEF OpHeard, Fresh, Now, NewestFrom
<1>2. Said' => Said
  BY DEF Said
<1>3. StallInv' /\ LockInv'
  BY <1>1 DEF CommandInv, StallInv, LockInv
<1>4. HandoverInv'
  BY <1>1 DEF CommandInv, HandoverInv, SinceHeard, InOrder, Ahead, NowAhead
<1>5. SpeaksInv'
  BY <1>1 DEF CommandInv, SpeaksInv
<1>6. NewestInv' /\ ReachesInv'
  BY <1>1, <1>2 DEF CommandInv, NewestInv, ReachesInv
<1> QED BY <1>3, <1>4, <1>5, <1>6 DEF CommandInv

\* twist_mux relays the operator's message unless it is locked, and anybody
\* else's only when it has not heard the operator within its timeout.
LEMMA WhoIsRelayed ==
  ASSUME ChainTypeOK, ChainTypeOK', NEW t \in MuxTopics,
         OpHeard' = IF t = "cmd_vel_teleop" THEN 0 ELSE OpHeard
  PROVE  /\ t = "cmd_vel_teleop" /\ ~emergency => Relayed(t)
         /\ t # "cmd_vel_teleop" /\ Relayed(t) => OpHeard > MuxTimeout
         /\ Relayed(t) => ~emergency
<1>1. /\ \A u \in MuxTopics : Priority[u] \in Nat /\ Priority[u] <= Priority["cmd_vel_teleop"]
      /\ \A u \in MuxTopics : u # "cmd_vel_teleop" => Priority[u] < Priority["cmd_vel_teleop"]
      /\ "cmd_vel_teleop" \in MuxTopics
  BY DEF MuxTopics, Priority
<1>2. t # "cmd_vel_teleop" /\ Relayed(t) => ~Live("cmd_vel_teleop")
  BY <1>1 DEF Relayed
<1>3. Live("cmd_vel_teleop") <=> OpHeard' <= MuxTimeout
  BY DEF Live, OpHeard
<1>4. OpHeard \in Nat /\ MuxTimeout \in Nat
  BY <1>1, CommandChainAssumption DEF ChainTypeOK, OpHeard
<1>5. t # "cmd_vel_teleop" /\ Relayed(t) => OpHeard > MuxTimeout
  BY <1>2, <1>3, <1>4
<1> QED BY <1>1, <1>5 DEF Relayed

LEMMA MuxKeepsInv ==
  ASSUME CommandInv, NEW t \in MuxTopics, Mux(t) PROVE CommandInv'
<1> USE DEF CommandInv
<1>1. /\ ChainTypeOK' /\ SourceInv' /\ Stamped' = Stamped
      /\ UNCHANGED <<emergency, lockedFor, stall, reference, slot, spoken>>
      /\ OpHeard' = IF t = "cmd_vel_teleop" THEN 0 ELSE OpHeard
      /\ t # "cmd_vel_teleop" => OnTeleop' = OnTeleop
      /\ ~Relayed(t) => Waiting' = Waiting
  BY MuxStep
<1>2. PICK m \in Msg : /\ m.late = 0 /\ (m.from = "teleop" <=> t = "cmd_vel_teleop")
                       /\ Relayed(t) => Waiting' = Kept(Append(Waiting, m))
  BY MuxStep
<1>3. /\ t = "cmd_vel_teleop" /\ ~emergency => Relayed(t)
      /\ t # "cmd_vel_teleop" /\ Relayed(t) => OpHeard > MuxTimeout
      /\ Relayed(t) => ~emergency
  BY <1>1, WhoIsRelayed
<1>4. /\ Waiting \in Seq(Msg) /\ Stamped \in Seq(Msg) /\ OpHeard \in Nat /\ OpHeard' \in Nat
      /\ MuxTimeout \in Nat \ {0} /\ stall \in Nat /\ spoken \in Nat
      /\ reference.late \in Nat /\ reference.age \in Nat
  BY <1>1, Wiring, Names, CommandChainAssumption DEF ChainTypeOK, Waiting, Stamped, OpHeard
<1>5. (Fresh' <=> Fresh) /\ Now' = Now /\ OpHeard' <= OpHeard
  BY <1>1, <1>4 DEF Fresh, Now
<1>6. CASE ~Relayed(t)
  <2>1. Waiting' = Waiting /\ NewestFrom' = NewestFrom
    BY <1>1, <1>6 DEF NewestFrom
  <2>2. StallInv' /\ LockInv'
    BY <1>1, <1>5, <2>1 DEF StallInv, LockInv
  <2>3. SinceHeard(Waiting)' /\ SinceHeard(Stamped)'
    <3>1. \A i \in 1..Len(Waiting) : Waiting[i].late \in Nat
      BY <1>4, Queued
    <3>2. \A i \in 1..Len(Stamped) : Stamped[i].late \in Nat
      BY <1>4, Queued
    <3> QED BY <3>1, <3>2, <1>1, <1>4, <1>5, <2>1 DEF HandoverInv, SinceHeard
  <2>4. HandoverInv'
    BY <1>1, <1>4, <1>5, <2>1, <2>3 DEF HandoverInv, InOrder, Ahead, NowAhead
  <2>5. SpeaksInv' /\ ReachesInv'
    BY <1>1, <1>4, <2>1 DEF SpeaksInv, ReachesInv
  <2>6. NewestInv'
    <3>1. t = "cmd_vel_teleop" => spoken = 0
      BY <1>3, <1>4, <1>6 DEF SpeaksInv
    <3>2. Said' => Said
      BY <1>1, <3>1 DEF Said
    <3> QED BY <1>1, <2>1, <3>2 DEF NewestInv
  <2> QED BY <1>1, <2>2, <2>4, <2>5, <2>6
<1>7. CASE Relayed(t)
  <2> DEFINE k == Kept(Append(Waiting, m))
  <2>1. /\ Waiting' = k /\ k \in Seq(Msg) /\ k # <<>> /\ Len(k) \in Nat \ {0} /\ k[Len(k)] = m
    <3>1. k \in Seq(Msg) /\ k # <<>> /\ Len(k) \in Nat \ {0} /\ k[Len(k)] = m
      BY <1>4, KeptAppend
    <3> QED BY <3>1, <1>2, <1>7
  <2>2. \A i \in 1..Len(k) : k[i] = m \/ \E j \in 1..Len(Waiting) : k[i] = Waiting[j]
    <3>1. Waiting \in Seq(Msg)
      BY <1>4
    <3> QED BY <3>1, KeptMembers
  <2>3. \A i \in 1..Len(Waiting) : Waiting[i] \in Msg /\ Waiting[i].late \in Nat
    BY <1>4, Queued
  <2>4. \A i \in 1..Len(Stamped) : Stamped[i] \in Msg /\ Stamped[i].late \in Nat
    BY <1>4, Queued
  <2>5. m.from # "teleop" => OpHeard > MuxTimeout /\ spoken = 0
    BY <1>2, <1>3, <1>4, <1>7 DEF SpeaksInv
  <2>6. \A x : (x.from = "teleop" => x.late >= OpHeard) /\ x.late \in Nat => Apart(x, m)
    BY <1>2, <1>4, <2>5 DEF Apart
  <2>7. InOrder(k)
    <3>1. \A i \in 1..Len(Waiting) : Apart(Waiting[i], m)
      BY <2>3, <2>6 DEF HandoverInv, SinceHeard
    <3> QED BY <1>4, <3>1, OrderAppend DEF HandoverInv
  <2> HIDE DEF k
  <2>8. StallInv'
    <3>1. stall \in Nat /\ stall <= MaxStall /\ \A j \in 1..Len(Waiting) : Waiting[j].late <= stall
      BY <1>4 DEF StallInv
    <3>2. \A i \in 1..Len(k) : k[i].late <= stall
      BY <1>2, <2>2, <3>1
    <3> QED BY <1>1, <2>1, <3>1, <3>2 DEF StallInv
  <2>9. LockInv'
    BY <1>1, <1>3, <1>5, <1>7 DEF LockInv
  <2>10. SinceHeard(Waiting)' /\ SinceHeard(Stamped)'
    <3>1. ASSUME NEW i \in 1..Len(k), k[i].from = "teleop" PROVE k[i].late >= OpHeard'
      <4>1. CASE k[i] = m
        BY <1>1, <1>2, <3>1, <4>1
      <4>2. CASE \E j \in 1..Len(Waiting) : k[i] = Waiting[j]
        <5>1. PICK j \in 1..Len(Waiting) : k[i] = Waiting[j]
          BY <4>2
        <5>2. Waiting[j].late >= OpHeard
          BY <5>1, <3>1 DEF HandoverInv, SinceHeard
        <5> QED BY <5>1, <5>2, <1>4, <1>5, <2>3
      <4> QED BY <2>2, <4>1, <4>2
    <3>2. SinceHeard(Stamped)'
      BY <1>1, <1>4, <1>5, <2>4 DEF HandoverInv, SinceHeard
    <3> QED BY <3>1, <3>2, <2>1 DEF SinceHeard
  <2>11. Ahead(Stamped, k)
    <3>1. \A i \in 1..Len(Stamped) : Apart(Stamped[i], m)
      BY <2>4, <2>6 DEF HandoverInv, SinceHeard
    <3> QED BY <3>1, <2>2 DEF HandoverInv, Ahead
  <2>12. NowAhead(k)
    <3>1. Fresh => Apart(Now, m)
      <4>1. Now.from = reference.from /\ Now.late = reference.late + reference.age
        BY DEF Now
      <4>2. Fresh => (Now.from = "teleop" => Now.late >= OpHeard) /\ Now.late \in Nat
        BY <4>1, <1>4 DEF HandoverInv
      <4> QED BY <4>2, <2>6
    <3> QED BY <3>1, <2>2 DEF HandoverInv, NowAhead
  <2>13. HandoverInv'
    <3>1. Ahead(Stamped, Waiting)' /\ InOrder(Waiting)' /\ InOrder(Stamped)'
      BY <1>1, <2>1, <2>7, <2>11 DEF HandoverInv, InOrder, Ahead
    <3>2. NowAhead(Waiting)' /\ NowAhead(Stamped)'
      BY <1>1, <1>5, <2>1, <2>12 DEF HandoverInv, NowAhead
    <3>3. (reference.from = "teleop" /\ Fresh => reference.late + reference.age >= OpHeard)'
      BY <1>1, <1>4, <1>5 DEF HandoverInv
    <3> QED BY <2>10, <3>1, <3>2, <3>3 DEF HandoverInv
  <2>14. SpeaksInv'
    <3>1. \A i \in 1..Len(k) : k[i].from # "teleop" => k[i].late >= spoken
      BY <1>2, <2>2, <2>5, <1>4 DEF SpeaksInv
    <3>2. spoken >= 1 => ~emergency' /\ OpHeard' <= 1
      BY <1>1, <1>4, <1>5 DEF SpeaksInv
    <3>3. "teleop" \in slot' => OnTeleop' # <<>> \/ OpHeard' = 0
      BY <1>1 DEF SpeaksInv
    <3> QED BY <1>1, <2>1, <3>1, <3>2, <3>3 DEF SpeaksInv
  <2>15. NewestInv'
    <3>1. Waiting' # <<>> /\ NewestFrom' = m.from
      BY <2>1 DEF NewestFrom
    <3>2. m.from = "teleop" \/ spoken' = 0
      BY <1>1, <2>5
    <3> QED BY <3>1, <3>2 DEF NewestInv, Said
  <2>16. ReachesInv'
    BY <1>1 DEF ReachesInv
  <2> QED BY <1>1, <2>8, <2>9, <2>13, <2>14, <2>15, <2>16
<1> QED BY <1>6, <1>7

LEMMA StamperKeepsInv ==
  ASSUME CommandInv, Stamper PROVE CommandInv'
<1> USE DEF CommandInv
<1>1. /\ ChainTypeOK' /\ SourceInv' /\ Waiting # <<>>
      /\ UNCHANGED <<emergency, lockedFor, reference, heard, slot, spoken, OnTeleop>>
      /\ stall' = IF Len(Waiting) = 1 THEN 0 ELSE stall
      /\ Waiting' = Tail(Waiting) /\ Stamped' = Kept(Append(Stamped, Waiting[1]))
  BY StamperStep
<1>2. /\ Waiting \in Seq(Msg) /\ Stamped \in Seq(Msg)
      /\ MaxStall \in Nat /\ stall \in Nat /\ spoken \in Nat
  BY Wiring, Names, CommandChainAssumption DEF ChainTypeOK, Waiting, Stamped
<1>3. /\ Waiting' \in Seq(Msg) /\ Len(Waiting) \in Nat \ {0} /\ 1 \in 1..Len(Waiting)
      /\ Waiting[1] \in Msg /\ (Waiting' = <<>> <=> Len(Waiting) = 1)
      /\ \A i \in 1..Len(Waiting') : Waiting'[i] = Waiting[i + 1] /\ i + 1 \in 1..Len(Waiting)
  BY <1>1, <1>2, TailFacts
<1> DEFINE n == Waiting[1]
<1> DEFINE k == Kept(Append(Stamped, n))
<1>4. k \in Seq(Msg) /\ k # <<>> /\ k[Len(k)] = n
  <2>1. Stamped \in Seq(Msg) /\ n \in Msg
    BY <1>2, <1>3
  <2> HIDE DEF n
  <2> QED BY <2>1, KeptAppend
<1>5. \A i \in 1..Len(k) : k[i] = n \/ \E j \in 1..Len(Stamped) : k[i] = Stamped[j]
  <2>1. Stamped \in Seq(Msg) /\ n \in Msg
    BY <1>2, <1>3
  <2> HIDE DEF n
  <2> QED BY <2>1, KeptMembers
<1>6. InOrder(k)
  <2>1. \A i \in 1..Len(Stamped) : Apart(Stamped[i], n)
    BY <1>3 DEF HandoverInv, Ahead
  <2> QED BY <2>1, <1>2, <1>3, OrderAppend DEF HandoverInv
<1>7. InOrder(Tail(Waiting)) /\ \A i \in 1..Len(Tail(Waiting)) : Apart(n, Tail(Waiting)[i])
  BY <1>1, <1>2, OrderTail DEF HandoverInv
<1>8. Stamped' = k
  BY <1>1
<1>9. n.late \in Nat
  BY <1>2, <1>3, Queued
<1> HIDE DEF k, n
<1>10. OpHeard' = OpHeard /\ (Fresh' <=> Fresh) /\ Now' = Now
  BY <1>1 DEF OpHeard, Fresh, Now
<1>11. StallInv'
  <2>1. stall' <= MaxStall /\ (Waiting' = <<>> => stall' = 0)
    BY <1>1, <1>2, <1>3 DEF StallInv
  <2>2. ASSUME NEW i \in 1..Len(Waiting') PROVE Waiting'[i].late <= stall'
    <3>1. Len(Waiting) # 1 /\ stall' = stall
      BY <1>1, <1>3, <2>2
    <3> QED BY <3>1, <1>3, <2>2 DEF StallInv
  <2> QED BY <2>1, <2>2 DEF StallInv
<1>12. LockInv'
  <2>1. emergency' /\ Stamped' # <<>> => lockedFor' <= MaxStall
    <3>1. emergency => lockedFor <= stall
      BY <1>1 DEF LockInv
    <3>2. stall <= MaxStall /\ lockedFor \in Nat
      BY DEF StallInv, ChainTypeOK
    <3> QED BY <1>1, <1>2, <3>1, <3>2
  <2>2. emergency' /\ Waiting' # <<>> => lockedFor' <= stall'
    <3>1. Waiting' # <<>> => stall' = stall
      BY <1>1, <1>3
    <3> QED BY <1>1, <3>1 DEF LockInv
  <2> QED BY <1>1, <1>10, <2>1, <2>2 DEF LockInv
<1>13. HandoverInv'
  <2>1. SinceHeard(Waiting)'
    BY <1>3, <1>10 DEF HandoverInv, SinceHeard
  <2>2. SinceHeard(Stamped)'
    <3>1. n.from = "teleop" => n.late >= OpHeard
      BY <1>3 DEF HandoverInv, SinceHeard, n
    <3> QED BY <3>1, <1>5, <1>8, <1>10 DEF HandoverInv, SinceHeard
  <2>3. InOrder(Waiting)' /\ InOrder(Stamped)'
    BY <1>1, <1>6, <1>7, <1>8 DEF InOrder
  <2>4. Ahead(Stamped, Waiting)'
    <3>1. \A j \in 1..Len(Waiting') : Apart(n, Waiting'[j])
      BY <1>1, <1>7
    <3>2. \A i \in 1..Len(Stamped), j \in 1..Len(Waiting') : Apart(Stamped[i], Waiting'[j])
      BY <1>3 DEF HandoverInv, Ahead
    <3> QED BY <3>1, <3>2, <1>5, <1>8 DEF Ahead
  <2>5. NowAhead(Waiting)'
    BY <1>3, <1>10 DEF HandoverInv, NowAhead
  <2>6. NowAhead(Stamped)'
    <3>1. Fresh => Apart(Now, n)
      BY <1>3 DEF HandoverInv, NowAhead, n
    <3> QED BY <3>1, <1>5, <1>8, <1>10 DEF HandoverInv, NowAhead
  <2>7. (reference.from = "teleop" /\ Fresh => reference.late + reference.age >= OpHeard)'
    BY <1>1, <1>10 DEF HandoverInv
  <2> QED BY <2>1, <2>2, <2>3, <2>4, <2>5, <2>6, <2>7 DEF HandoverInv
<1>14. SpeaksInv'
  BY <1>1, <1>3, <1>10 DEF SpeaksInv
<1>15. NewestFrom' = NewestFrom
  <2>1. CASE Waiting' = <<>>
    <3>1. Waiting[Len(Waiting)] = n
      BY <1>3, <2>1 DEF n
    <3> QED BY <3>1, <1>1, <1>4, <1>8, <2>1 DEF NewestFrom
  <2>2. CASE Waiting' # <<>>
    <3>1. Waiting'[Len(Waiting')] = Waiting[Len(Waiting)]
      BY <1>1, <1>2, <2>2, LastOfTail
    <3> QED BY <3>1, <1>1, <2>2 DEF NewestFrom
  <2> QED BY <2>1, <2>2
<1>16. NewestInv'
  BY <1>1, <1>4, <1>8, <1>15 DEF NewestInv, Said
<1>17. ReachesInv'
  <2>1. SUFFICES ASSUME spoken >= 2, n.from # "teleop" PROVE stall' + 1 >= spoken
    BY <1>1, <1>4, <1>8 DEF ReachesInv
  <2>2. n.late >= spoken /\ n.late <= stall
    BY <1>3, <2>1 DEF SpeaksInv, StallInv, n
  <2>3. Len(Waiting) # 1
    BY <1>1, <2>1 DEF NewestInv, NewestFrom, n
  <2> QED BY <1>1, <1>2, <1>9, <2>2, <2>3
<1> QED BY <1>1, <1>11, <1>12, <1>13, <1>14, <1>16, <1>17

LEMMA ControllerKeepsInv ==
  ASSUME CommandInv, Controller PROVE CommandInv'
<1> USE DEF CommandInv
<1>1. /\ ChainTypeOK' /\ SourceInv' /\ Stamped # <<>> /\ Waiting' = Waiting
      /\ UNCHANGED <<emergency, lockedFor, stall, heard, slot, spoken, OnTeleop>>
      /\ Stamped' = Tail(Stamped)
      /\ reference' = [from |-> Stamped[1].from, late |-> Stamped[1].late, age |-> 0]
  BY ControllerStep
<1>2. /\ Waiting \in Seq(Msg) /\ Stamped \in Seq(Msg) /\ RefTimeout \in Nat
      /\ MaxStall \in Nat /\ stall \in Nat /\ spoken \in Nat /\ lockedFor \in Nat
  BY Wiring, Names, CommandChainAssumption DEF ChainTypeOK, Waiting, Stamped
<1>3. /\ Stamped' \in Seq(Msg) /\ Len(Stamped) \in Nat \ {0} /\ 1 \in 1..Len(Stamped)
      /\ Stamped[1] \in Msg /\ (Stamped' = <<>> <=> Len(Stamped) = 1)
      /\ \A i \in 1..Len(Stamped') : Stamped'[i] = Stamped[i + 1] /\ i + 1 \in 1..Len(Stamped)
  BY <1>1, <1>2, TailFacts
<1>4. InOrder(Tail(Stamped)) /\ \A i \in 1..Len(Tail(Stamped)) : Apart(Stamped[1], Tail(Stamped)[i])
  BY <1>1, <1>2, OrderTail DEF HandoverInv
<1>5. Stamped[1].late \in Nat
  BY <1>2, <1>3, Queued
<1> DEFINE n == Stamped[1]
<1>6. /\ reference'.from = n.from /\ reference'.late = n.late /\ reference'.age = 0
      /\ n.late + 0 = n.late
  BY <1>1, <1>5
<1>7. OpHeard' = OpHeard /\ Fresh' /\ Now' = [from |-> n.from, late |-> n.late]
  BY <1>1, <1>2, <1>6 DEF OpHeard, Fresh, Now
<1>8. \A x : Apart(n, x) => Apart(Now', x)
  BY <1>7 DEF Apart
<1> HIDE DEF n
<1>9. StallInv'
  BY <1>1 DEF StallInv
<1>10. LockInv'
  <2>1. lockedFor <= MaxStall
    BY <1>1, <1>2 DEF LockInv, ChainTypeOK
  <2> QED BY <1>1, <1>2, <1>6, <2>1 DEF LockInv
<1>11. HandoverInv'
  <2>1. SinceHeard(Waiting)' /\ SinceHeard(Stamped)'
    BY <1>1, <1>3, <1>7 DEF HandoverInv, SinceHeard
  <2>2. InOrder(Waiting)' /\ InOrder(Stamped)' /\ Ahead(Stamped, Waiting)'
    BY <1>1, <1>3, <1>4 DEF HandoverInv, InOrder, Ahead
  <2>3. NowAhead(Waiting)'
    <3>1. \A j \in 1..Len(Waiting) : Apart(n, Waiting[j])
      BY <1>3 DEF HandoverInv, Ahead, n
    <3> QED BY <3>1, <1>1, <1>8 DEF NowAhead
  <2>4. NowAhead(Stamped)'
    <3>1. \A j \in 1..Len(Stamped') : Apart(n, Stamped'[j])
      BY <1>1, <1>4 DEF n
    <3> QED BY <3>1, <1>8 DEF NowAhead
  <2>5. (reference.from = "teleop" /\ Fresh => reference.late + reference.age >= OpHeard)'
    <3>1. n.from = "teleop" => n.late >= OpHeard
      BY <1>3 DEF HandoverInv, SinceHeard, n
    <3> QED BY <3>1, <1>6, <1>7
  <2> QED BY <2>1, <2>2, <2>3, <2>4, <2>5 DEF HandoverInv
<1>12. SpeaksInv'
  BY <1>1, <1>7 DEF SpeaksInv
<1>13. NewestFrom' = NewestFrom
  <2>1. CASE Waiting # <<>>
    BY <1>1, <2>1 DEF NewestFrom
  <2>2. CASE Waiting = <<>> /\ Stamped' = <<>>
    BY <1>1, <1>3, <1>6, <2>2 DEF NewestFrom, n
  <2>3. CASE Waiting = <<>> /\ Stamped' # <<>>
    <3>1. Stamped'[Len(Stamped')] = Stamped[Len(Stamped)]
      BY <1>1, <1>2, <2>3, LastOfTail
    <3> QED BY <3>1, <1>1, <2>3 DEF NewestFrom
  <2> QED BY <2>1, <2>2, <2>3
<1>14. NewestInv'
  BY <1>1, <1>6, <1>13 DEF NewestInv, Said
<1>15. ReachesInv'
  <2>1. SUFFICES ASSUME spoken >= 2
        PROVE  IF Stamped' # <<>>
               THEN Stamped'[Len(Stamped')].from = "teleop" \/ stall + 1 >= spoken
               ELSE \/ stall + 1 >= spoken
                    \/ reference'.from = "teleop" /\ reference'.age <= stall + 1
    BY <1>1 DEF ReachesInv
  <2>2. Stamped[Len(Stamped)].from = "teleop" \/ stall + 1 >= spoken
    BY <1>1, <2>1 DEF ReachesInv
  <2>3. CASE Stamped' # <<>>
    <3>1. Stamped'[Len(Stamped')] = Stamped[Len(Stamped)]
      BY <1>1, <1>2, <2>3, LastOfTail
    <3> QED BY <3>1, <2>2, <2>3
  <2>4. CASE Stamped' = <<>>
    <3>1. Stamped[Len(Stamped)].from = reference'.from
      BY <1>3, <1>6, <2>4 DEF n
    <3>2. reference'.age <= stall + 1
      BY <1>2, <1>6
    <3> QED BY <3>1, <3>2, <2>2, <2>4
  <2> QED BY <2>3, <2>4
<1> QED BY <1>1, <1>9, <1>10, <1>11, <1>12, <1>14, <1>15

LEMMA ElapseKeepsInv ==
  ASSUME CommandInv, Elapse PROVE CommandInv'
<1> USE DEF CommandInv
<1>1. /\ ChainTypeOK' /\ SourceInv' /\ Stamped = <<>> /\ Stamped' = <<>> /\ OnTeleop = <<>>
      /\ Len(Waiting') = Len(Waiting) /\ (Waiting' = <<>> <=> Waiting = <<>>)
      /\ \A i \in 1..Len(Waiting) : Waiting'[i].from = Waiting[i].from
                                      /\ Waiting'[i].late = Waiting[i].late + 1
      /\ OpHeard' = Older(OpHeard, MuxTimeout) /\ emergency' = emergency /\ slot' = {}
      /\ reference' = [reference EXCEPT !.age = Older(@, RefTimeout)]
  BY ElapseStep
<1>2. /\ Waiting # <<>> => stall < MaxStall
      /\ stall' = IF Waiting = <<>> THEN 0 ELSE stall + 1
      /\ lockedFor' = IF emergency THEN Older(lockedFor, MaxStall + RefTimeout) ELSE 0
      /\ spoken' = IF "teleop" \in slot /\ ~emergency THEN Older(spoken, 2 * MaxStall) ELSE 0
  BY DEF Elapse, Waiting
<1>3. /\ Waiting \in Seq(Msg) /\ OpHeard \in Nat
      /\ {MuxTimeout, RefTimeout, MaxStall} \subseteq Nat \ {0}
      /\ stall \in Nat /\ spoken \in Nat /\ lockedFor \in Nat
      /\ reference.late \in Nat /\ reference.age \in Nat
  BY Names, CommandChainAssumption DEF ChainTypeOK, Waiting, OpHeard
<1>4. /\ reference'.from = reference.from /\ reference'.late = reference.late
      /\ reference'.age = Older(reference.age, RefTimeout)
  BY <1>1 DEF ChainTypeOK
<1>5. \A i \in 1..Len(Waiting) : Waiting[i].late \in Nat
  BY <1>3, Queued
<1>6. Fresh' => Fresh /\ reference'.age = reference.age + 1
  BY <1>3, <1>4 DEF Fresh, Older
<1>7. OpHeard' <= OpHeard + 1 /\ OpHeard' \in Nat
  BY <1>1, <1>3 DEF Older
<1>8. spoken' >= 1 => "teleop" \in slot /\ ~emergency /\ spoken' <= spoken + 1
  BY <1>2, <1>3 DEF Older
<1>9. StallInv'
  <2>1. \A i \in 1..Len(Waiting') : Waiting'[i].late <= stall'
    <3>1. SUFFICES ASSUME NEW i \in 1..Len(Waiting) PROVE Waiting'[i].late <= stall'
      BY <1>1
    <3>2. Waiting # <<>>
      BY <1>3, <3>1
    <3>3. Waiting'[i].late = Waiting[i].late + 1 /\ stall' = stall + 1
      BY <1>1, <1>2, <3>2
    <3>4. Waiting[i].late <= stall /\ Waiting[i].late \in Nat /\ stall \in Nat
      BY <1>3, <1>5 DEF StallInv
    <3> QED BY <3>3, <3>4
  <2> QED BY <1>1, <1>2, <1>3, <2>1 DEF StallInv
<1>10. LockInv'
  <2>1. lockedFor' <= lockedFor + 1 /\ lockedFor' \in Nat /\ (~emergency => lockedFor' = 0)
    BY <1>2, <1>3, <1>1 DEF Older, ChainTypeOK
  <2>2. emergency' /\ Waiting' # <<>> => lockedFor' <= stall'
    BY <1>1, <1>2, <1>3, <2>1 DEF LockInv
  <2>3. lockedFor' <= MaxStall + reference'.age \/ ~Fresh'
    BY <1>3, <1>6, <2>1 DEF LockInv
  <2> QED BY <1>1, <2>1, <2>2, <2>3 DEF LockInv
<1>11. HandoverInv'
  <2>1. SinceHeard(Waiting)'
    <3>1. ASSUME NEW i \in 1..Len(Waiting), Waiting[i].from = "teleop"
          PROVE  Waiting[i].late + 1 >= OpHeard'
      BY <1>3, <1>5, <1>7, <3>1 DEF HandoverInv, SinceHeard
    <3> QED BY <3>1, <1>1 DEF SinceHeard
  <2>2. Len(Stamped') = 0 /\ 1..0 = {}
    BY <1>1
  <2>3. SinceHeard(Stamped)' /\ InOrder(Stamped)' /\ NowAhead(Stamped)' /\ Ahead(Stamped, Waiting)'
    BY <2>2 DEF SinceHeard, InOrder, NowAhead, Ahead
  <2>4. InOrder(Waiting)'
    <3>1. ASSUME NEW i \in 1..Len(Waiting), NEW j \in 1..Len(Waiting), i < j
          PROVE  Apart(Waiting'[i], Waiting'[j])
      <4>1. Apart(Waiting[i], Waiting[j])
        BY <3>1 DEF HandoverInv, InOrder
      <4> QED BY <4>1, <1>1, <1>5, AgeTogether
    <3> QED BY <3>1, <1>1 DEF InOrder
  <2>5. NowAhead(Waiting)'
    <3>1. ASSUME Fresh', NEW j \in 1..Len(Waiting) PROVE Apart(Now', Waiting'[j])
      <4>1. Apart(Now, Waiting[j])
        BY <1>6, <3>1 DEF HandoverInv, NowAhead
      <4>2. Now'.from = Now.from /\ Now'.late = Now.late + 1 /\ Now.late \in Nat
        BY <1>3, <1>4, <1>6, <3>1 DEF Now
      <4> QED BY <4>1, <4>2, <1>1, <1>5, AgeTogether
    <3> QED BY <3>1, <1>1 DEF NowAhead
  <2>6. (reference.from = "teleop" /\ Fresh => reference.late + reference.age >= OpHeard)'
    BY <1>3, <1>4, <1>6, <1>7 DEF HandoverInv
  <2> QED BY <2>1, <2>3, <2>4, <2>5, <2>6 DEF HandoverInv
<1>12. spoken' >= 1 => OpHeard' <= 1
  BY <1>1, <1>3, <1>8 DEF SpeaksInv, Older
<1>13. SpeaksInv'
  <2>1. ASSUME NEW i \in 1..Len(Waiting), Waiting[i].from # "teleop"
        PROVE  Waiting[i].late + 1 >= spoken'
    <3>1. Waiting[i].late >= spoken
      BY <2>1 DEF SpeaksInv
    <3>2. spoken' <= spoken + 1 /\ spoken' \in Nat
      BY <1>2, <1>3 DEF Older
    <3> QED BY <3>1, <3>2, <1>3, <1>5
  <2>2. \A i \in 1..Len(Waiting') : Waiting'[i].from # "teleop" => Waiting'[i].late >= spoken'
    BY <1>1, <2>1
  <2> QED BY <1>1, <1>8, <1>12, <2>2 DEF SpeaksInv
<1>14. NewestFrom' = NewestFrom
  <2>1. CASE Waiting = <<>>
    BY <1>1, <1>4, <2>1 DEF NewestFrom
  <2>2. CASE Waiting # <<>>
    <3>1. Len(Waiting) \in 1..Len(Waiting)
      BY <1>3, <2>2, EmptySeq
    <3> QED BY <1>1, <2>2, <3>1 DEF NewestFrom
  <2> QED BY <2>1, <2>2
<1>15. spoken' >= 2 => Said
  <2>1. spoken' \in Nat /\ (spoken' >= 1 => "teleop" \in slot /\ spoken' <= spoken + 1)
    BY <1>2, <1>3, <1>8 DEF Older
  <2>2. spoken' >= 2 => spoken >= 1 /\ "teleop" \in slot
    BY <2>1, <1>3
  <2> QED BY <2>2, <1>1 DEF Said
<1>16. NewestInv'
  BY <1>1, <1>14, <1>15 DEF NewestInv, Said
<1>17. ReachesInv'
  <2>1. SUFFICES ASSUME spoken' >= 2
        PROVE  \/ stall' + 1 >= spoken'
               \/ reference'.from = "teleop" /\ reference'.age <= stall' + 1
    BY <1>1 DEF ReachesInv
  <2>2. Said /\ spoken' <= spoken + 1 /\ spoken' \in Nat
    BY <1>2, <1>3, <1>8, <1>15, <2>1 DEF Older
  <2>3. reference'.age <= reference.age + 1 /\ reference'.age \in Nat
    BY <1>3, <1>4 DEF Older
  <2>4. CASE Waiting = <<>>
    <3>1. reference.from = "teleop" /\ reference.age = 0
      BY <1>1, <2>2, <2>4 DEF NewestInv, NewestFrom
    <3> QED BY <3>1, <2>3, <2>4, <1>2, <1>4
  <2>5. CASE Waiting # <<>>
    <3>1. stall' = stall + 1
      BY <1>2, <2>5
    <3>2. CASE spoken >= 2
      BY <1>1, <1>3, <1>4, <2>2, <2>3, <3>1, <3>2 DEF ReachesInv
    <3>3. CASE ~(spoken >= 2)
      BY <1>3, <2>2, <3>1, <3>3
    <3> QED BY <3>2, <3>3
  <2> QED BY <2>4, <2>5
<1> QED BY <1>1, <1>9, <1>10, <1>11, <1>13, <1>16, <1>17

LEMMA LockKeepsInv ==
  ASSUME CommandInv, Lock \/ Unlock PROVE CommandInv'
<1> USE DEF CommandInv
<1>1. /\ ChainTypeOK' /\ SourceInv' /\ Waiting' = Waiting /\ Stamped' = Stamped
      /\ OnTeleop' = OnTeleop /\ Stamped = <<>> /\ OnTeleop = <<>> /\ lockedFor' = 0
      /\ UNCHANGED <<stall, reference, slot, heard>>
      /\ \/ spoken' = 0 /\ ~emergency
         \/ spoken' = spoken /\ emergency /\ ~emergency'
  BY LockStep
<1>2. /\ Waiting \in Seq(Msg) /\ spoken \in Nat /\ MaxStall \in Nat /\ stall \in Nat
      /\ reference.age \in Nat
  BY Names, CommandChainAssumption DEF ChainTypeOK, Waiting
<1>3. OpHeard' = OpHeard /\ (Fresh' <=> Fresh) /\ Now' = Now
  BY <1>1 DEF OpHeard, Fresh, Now
<1>4. spoken' = 0
  BY <1>1, <1>2 DEF SpeaksInv
<1>5. StallInv' /\ LockInv'
  BY <1>1, <1>2 DEF StallInv, LockInv
<1>6. HandoverInv'
  BY <1>1, <1>3 DEF HandoverInv, SinceHeard, InOrder, Ahead, NowAhead
<1>7. \A i \in 1..Len(Waiting) : Waiting[i].late >= 0
  BY <1>2, Queued
<1>8. SpeaksInv'
  BY <1>1, <1>3, <1>4, <1>7 DEF SpeaksInv
<1>9. NewestInv' /\ ReachesInv'
  BY <1>4 DEF NewestInv, ReachesInv, Said
<1> QED BY <1>1, <1>5, <1>6, <1>8, <1>9

LEMMA ChainStepInv == CommandInv /\ [ChainNext]_chain_vars => CommandInv'
<1> SUFFICES ASSUME CommandInv, [ChainNext]_chain_vars PROVE CommandInv'
  OBVIOUS
<1>1. ASSUME NEW s \in Sources, Issue(s) PROVE CommandInv'
  BY <1>1, IssueStep, InputsKeepInv DEF CommandInv
<1>2. CASE Smoother
  BY <1>2, SmootherStep, InputsKeepInv DEF CommandInv
<1>3. ASSUME NEW t \in MuxTopics, Mux(t) PROVE CommandInv'
  BY <1>3, MuxKeepsInv
<1>4. CASE Stamper
  BY <1>4, StamperKeepsInv
<1>5. CASE Controller
  BY <1>5, ControllerKeepsInv
<1>6. CASE Lock \/ Unlock
  BY <1>6, LockKeepsInv
<1>7. CASE Elapse
  BY <1>7, ElapseKeepsInv
<1>8. CASE UNCHANGED chain_vars
  <2>1. /\ UNCHANGED <<vehicle, composed, topic, heard, emergency, lockedFor, stall, reference,
                       slot, spoken>>
        /\ ReferenceIn' = ReferenceIn
    BY <1>8 DEF chain_vars, ReferenceIn
  <2>2. /\ ChainTypeOK' /\ SourceInv' /\ Waiting' = Waiting /\ Stamped' = Stamped
        /\ OnTeleop' = OnTeleop
    BY <2>1 DEF CommandInv, ChainTypeOK, SourceInv, Waiting, Stamped, OnTeleop
  <2> QED BY <2>1, <2>2, InputsKeepInv
<1> QED BY <1>1, <1>2, <1>3, <1>4, <1>5, <1>6, <1>7, <1>8 DEF ChainNext, ChainNodes

LEMMA ChainInvariance == ChainSpec => []CommandInv
<1> QED BY InitCommandInv, ChainStepInv, PTL DEF ChainSpec

\* The lock stops the wheels, and above everybody else the operator drives.
THEOREM LastWord == ChainSpec => []WheelsObey
<1>1. CommandInv => LockStopsWheels
  <2>1. SUFFICES ASSUME CommandInv, lockedFor > MaxStall + RefTimeout PROVE ~Fresh
    BY DEF LockStopsWheels, Driving, Fresh
  <2>2. /\ lockedFor \in Nat /\ reference.age \in Nat /\ MaxStall \in Nat /\ RefTimeout \in Nat
        /\ lockedFor <= MaxStall + reference.age \/ ~Fresh
    BY <2>1, CommandChainAssumption DEF CommandInv, ChainTypeOK, LockInv
  <2> QED BY <2>1, <2>2 DEF Fresh
<1>2. CommandInv => OperatorOverrides
  <2>1. SUFFICES ASSUME CommandInv, spoken > 2 * MaxStall, Quiet
        PROVE  Driving = "teleop" \/ (stall > 0 /\ Driving = "nobody")
    BY DEF OperatorOverrides
  <2>2. /\ {MaxStall, RefTimeout} \subseteq Nat \ {0} /\ stall \in Nat /\ spoken \in Nat
        /\ reference.age \in Nat /\ stall <= MaxStall
    BY <2>1, CommandChainAssumption DEF CommandInv, ChainTypeOK, StallInv
  <2>3. Stamped = <<>> /\ spoken >= 2 /\ ~(stall + 1 >= spoken)
    BY <2>1, <2>2, QuietQueues DEF CommandInv, ChainTypeOK
  <2>4. reference.from = "teleop" /\ reference.age <= stall + 1
    BY <2>1, <2>3 DEF CommandInv, ReachesInv
  <2>5. stall > 0 \/ reference.age <= RefTimeout
    BY <2>2, <2>4
  <2> QED BY <2>4, <2>5 DEF Driving
<1> QED BY <1>1, <1>2, ChainInvariance, PTL DEF WheelsObey

\* After the operator the wheels stop before anybody else drives them.
THEOREM Handover == ChainSpec => HandoverThroughStop
<1> DEFINE Through == (Driving = "teleop" /\ Driving' \notin {"teleop", "nobody"})
                        => reference.late + RefTimeout >= MuxTimeout
<1>1. CommandInv /\ [ChainNext]_chain_vars => [Through]_chain_vars
  <2>1. SUFFICES ASSUME CommandInv, ChainNext, Driving = "teleop",
                        Driving' \notin {"teleop", "nobody"}
        PROVE  reference.late + RefTimeout >= MuxTimeout
    OBVIOUS
  <2>2. /\ reference.late \in Nat /\ reference.age \in Nat
        /\ {MuxTimeout, RefTimeout} \subseteq Nat
        /\ reference.from = "teleop" /\ reference.age <= RefTimeout
    BY <2>1, CommandChainAssumption DEF CommandInv, ChainTypeOK, Driving
  <2>3. reference'.from # "teleop"
    BY <2>1 DEF Driving
  <2>4. CASE Controller
    <3>1. Stamped # <<>> /\ reference'.from = Stamped[1].from
      BY <2>1, <2>4, ControllerStep DEF CommandInv
    <3>2. Stamped \in Seq(Msg)
      BY <2>1, Wiring, Names DEF CommandInv, ChainTypeOK, Stamped
    <3>3. 1 \in 1..Len(Stamped) /\ Stamped[1].late \in Nat
      BY <3>1, <3>2, TailFacts, Queued
    <3>4. Apart(Now, Stamped[1])
      BY <2>1, <2>2, <3>3 DEF CommandInv, HandoverInv, NowAhead, Fresh
    <3>5. reference.late + reference.age > Stamped[1].late + MuxTimeout
      BY <2>2, <2>3, <3>1, <3>4 DEF Apart, Now
    <3> QED BY <2>2, <3>3, <3>5
  <2>5. CASE Elapse
    <3>1. reference' = [reference EXCEPT !.age = Older(@, RefTimeout)]
      BY <2>5 DEF Elapse
    <3> QED BY <3>1, <2>1, <2>2, <2>3 DEF CommandInv, ChainTypeOK
  <2>6. CASE Smoother \/ Stamper \/ Lock \/ Unlock
    BY <2>2, <2>3, <2>6 DEF Smoother, Stamper, Lock, Unlock
  <2>7. ASSUME NEW s \in Sources, Issue(s) PROVE FALSE
    BY <2>2, <2>3, <2>7 DEF Issue
  <2>8. ASSUME NEW t \in MuxTopics, Mux(t) PROVE FALSE
    BY <2>2, <2>3, <2>8 DEF Mux
  <2> QED BY <2>1, <2>4, <2>5, <2>6, <2>7, <2>8 DEF ChainNext, ChainNodes
<1> QED BY <1>1, ChainInvariance, PTL DEF ChainSpec, HandoverThroughStop

-----------------------------------------------------------------------------
(* ImuScale                                                               *)

\* The bias: until it is known the window is being summed, and a vehicle that
\* stood still has added nothing but the gyro's offset to the sum.
WindowInv ==
  /\ acc \in Int /\ cnt \in Nat /\ taken \in Nat /\ truth \in Rates
  /\ bias \in [known : BOOLEAN, sum : Int] /\ parked \in BOOLEAN
  /\ ~bias.known => cnt = taken /\ taken < Window /\ (parked => acc = cnt * Offset)
  /\ bias.known => taken >= Window /\ (parked => bias.sum = Window * Offset)

ImuInv == WindowInv /\ BiasRemoved

\* What the bias of a window at rest leaves of a sample.
LEMMA BiasCancels ==
  ASSUME NEW w \in Int, NEW k \in Int, NEW o \in Int, NEW r \in Int
  PROVE  (w * (r + o) - w * o) * k = w * k * r
<1>1. w * (r + o) = w * r + w * o OBVIOUS
<1>2. w * r \in Int /\ w * o \in Int OBVIOUS
<1>3. w * (r + o) - w * o = w * r BY <1>1, <1>2
<1>4. (w * r) * k = w * k * r OBVIOUS
<1> QED BY <1>3, <1>4

\* After a window at rest the published rate is the vehicle's own.
THEOREM Unbiased == ImuSpec => []BiasRemoved
<1> USE ImuScaleAssumption
<1>1. ImuInit => ImuInv
  BY DEF ImuInit, ImuInv, WindowInv, BiasRemoved
<1>2. ImuInv /\ [ImuNext]_imu_vars => ImuInv'
  <2> SUFFICES ASSUME ImuInv, [ImuNext]_imu_vars PROVE ImuInv'
    OBVIOUS
  <2>1. CASE UNCHANGED imu_vars
    BY <2>1 DEF imu_vars, ImuInv, WindowInv, BiasRemoved
  <2>2. CASE ImuNext
    <3> PICK rate \in Rates : ImuSample(rate)
      BY <2>2 DEF ImuNext
    <3>0. rate \in Int /\ rate + Offset \in Int
      OBVIOUS
    <3>s. /\ taken' = taken + 1 /\ truth' = rate /\ parked \in BOOLEAN
          /\ parked' = (parked /\ (bias.known \/ rate = 0)) /\ taken \in Nat
      BY DEF ImuSample, ImuInv, WindowInv
    <3>1. CASE Calibrate(rate + Offset)
      <4>1. cnt = taken /\ taken < Window /\ ~bias.known /\ (parked => acc = cnt * Offset)
        BY <3>1 DEF Calibrate, ImuInv, WindowInv
      <4>2. acc' = acc + (rate + Offset) /\ cnt' = cnt + 1 /\ acc' \in Int
        BY <3>1, <3>0 DEF Calibrate, ImuInv, WindowInv
      <4>3. parked' => parked /\ rate = 0
        BY <3>s, <4>1
      <4>4. parked' => acc' = (cnt + 1) * Offset
        <5>1. (cnt + 1) * Offset = cnt * Offset + Offset
          BY <4>1, <3>s
        <5> QED BY <5>1, <4>3, <4>2, <4>1
      <4>5. /\ cnt' >= Window => bias' = [known |-> TRUE, sum |-> acc']
            /\ ~(cnt' >= Window) => bias' = bias
        BY <3>1 DEF Calibrate
      <4>6. cnt' = taken' /\ taken' <= Window /\ cnt' \in Nat
        BY <4>1, <4>2, <3>s
      <4>7. CASE cnt' >= Window
        <5>1. cnt + 1 = Window
          BY <4>7, <4>6, <4>2, <3>s
        <5>2. bias' = [known |-> TRUE, sum |-> acc']
          BY <4>7, <4>5
        <5>3. parked' => acc' = Window * Offset
          BY <5>1, <4>4
        <5>4. parked' \in BOOLEAN /\ taken' >= Window /\ ~(taken' > Window)
          BY <3>s, <4>6, <4>7
        <5> QED BY <5>2, <5>3, <5>4, <4>2, <4>6, <3>s DEF ImuInv, WindowInv, BiasRemoved
      <4>8. CASE ~(cnt' >= Window)
        <5>1. bias' = bias /\ taken' < Window /\ taken' \in Nat
          BY <4>8, <4>5, <4>6
        <5>2. parked' => acc' = cnt' * Offset
          BY <4>4, <4>2
        <5>3. bias \in [known : BOOLEAN, sum : Int] /\ parked' \in BOOLEAN
          BY <3>s DEF ImuInv, WindowInv
        <5> QED BY <5>1, <5>2, <5>3, <4>1, <4>2, <4>6, <3>s DEF ImuInv, WindowInv, BiasRemoved
      <4> QED BY <4>7, <4>8
    <3>2. CASE Correct(rate + Offset)
      <4>1. /\ bias.known /\ corrected' = Corrected(rate + Offset)
            /\ acc' = acc /\ cnt' = cnt /\ bias' = bias
        BY <3>2 DEF Correct
      <4>2. parked' = parked /\ taken >= Window /\ (parked => bias.sum = Window * Offset)
        BY <4>1, <3>s DEF ImuInv, WindowInv
      <4>3. parked => corrected' = Window * K * rate
        BY <4>1, <4>2, <3>0, BiasCancels DEF Corrected
      <4>4. BiasRemoved'
        BY <4>3, <4>2, <3>s DEF BiasRemoved
      <4>5. WindowInv'
        <5>1. /\ acc \in Int /\ cnt \in Nat
              /\ bias \in [known : BOOLEAN, sum : Int]
          BY DEF ImuInv, WindowInv
        <5>2. taken' \in Nat /\ taken' >= Window /\ truth' \in Rates
          BY <4>2, <3>s
        <5> QED BY <5>1, <5>2, <4>1, <4>2, <3>s DEF WindowInv
      <4> QED BY <4>4, <4>5 DEF ImuInv
    <3> QED BY <3>1, <3>2 DEF ImuSample
  <2> QED BY <2>1, <2>2
<1>3. ImuInv => BiasRemoved
  BY DEF ImuInv
<1> QED BY <1>1, <1>2, <1>3, PTL DEF ImuSpec

-----------------------------------------------------------------------------
(* CameraCompressor                                                       *)

Phases == {"none", "starting", "on", "ending", "deaf", "dead"}
Leads  == {"none", "alive", "told", "dead"}
CameraTypeOK ==
  /\ is_capturing \in BOOLEAN /\ cleaning \in BOOLEAN
  /\ capture \in Nat /\ camera_process \in Nat
  /\ images \in Seq(Nat) /\ published \in Seq([answers : Nat, sent : Nat])
  /\ camera \in [Captures -> Phases] /\ leader \in [Captures -> Leads]
  /\ spinning \in BOOLEAN

\* The subscription belongs to the capture under way, and so do its images.
SubInv ==
  images # NoSub =>
    /\ capture >= 1 /\ is_capturing /\ ~cleaning
    /\ \A i \in 1..Len(images) : images[i] = capture
    /\ \A i \in 1..Len(published) : published[i].answers # capture

AnswersInv ==
  \A i \in 1..Len(published) :
    /\ published[i].sent = published[i].answers /\ published[i].answers <= capture
    /\ \A j \in 1..Len(published) : i # j => published[i].answers # published[j].answers

\* So does the camera that runs or starts, unless it has been told to end, and the
\* `ros2 run' above it.
ProcessInv ==
  /\ camera_process # 0 => camera_process = capture /\ is_capturing
  /\ cleaning => camera_process # 0
  /\ \A c \in Captures :
       camera[c] \in {"starting", "on"} => is_capturing /\ ~cleaning /\ c = camera_process
  /\ \A c \in Captures :
       spinning /\ leader[c] \in {"alive", "told"} => c = camera_process

CaptureInv == CameraTypeOK /\ SubInv /\ AnswersInv /\ ProcessInv

LEMMA NoSubIsNotEmpty == NoSub # <<>> /\ NoSub \in Seq(Nat) /\ Len(NoSub) = 1 /\ NoSub[1] = 0
  BY DEF NoSub

\* _cleanup closes the capture, whoever calls it.
LEMMA CleanupInv ==
  ASSUME CameraTypeOK, AnswersInv', ProcessInv, Cleanup, ~cleaning,
         spinning' \in BOOLEAN, spinning' => spinning,
         published' \in Seq([answers : Nat, sent : Nat])
  PROVE  CaptureInv'
<1> USE CameraAssumption
<1>1. images' = NoSub /\ camera_process' = camera_process /\ capture' = capture
  BY DEF Cleanup, Unsubscribed
<1>2. SubInv'
  BY <1>1 DEF SubInv
<1>c. Captures \subseteq Nat \ {0}
  BY DEF Captures
<1>3. CASE camera_process = 0
  <2>1. is_capturing' = FALSE /\ camera' = camera /\ cleaning' = cleaning /\ leader' = leader
    BY <1>3 DEF Cleanup
  <2>2. \A c \in Captures : camera[c] \notin {"starting", "on"}
    BY <1>3, <1>c DEF ProcessInv
  <2>3. ProcessInv'
    BY <1>1, <1>3, <2>1, <2>2 DEF ProcessInv
  <2>4. CameraTypeOK'
    BY <1>1, <2>1, NoSubIsNotEmpty DEF CameraTypeOK
  <2> QED BY <1>2, <2>3, <2>4 DEF CaptureInv
<1>4. CASE camera_process # 0
  <2>1. /\ cleaning' = TRUE /\ is_capturing' = is_capturing
        /\ camera' = [camera EXCEPT ![camera_process] =
                        IF @ \in {"starting", "on"} THEN "ending" ELSE @]
        /\ leader' = [leader EXCEPT ![camera_process] = IF @ = "alive" THEN "told" ELSE @]
    BY <1>4 DEF Cleanup, Terminated
  <2>2. \A c \in Captures : camera'[c] \notin {"starting", "on"}
    BY <2>1 DEF ProcessInv, CameraTypeOK
  <2>3. camera' \in [Captures -> Phases] /\ leader' \in [Captures -> Leads]
    BY <2>1 DEF CameraTypeOK, Phases, Leads
  <2>6. \A c \in Captures :
          leader'[c] \in {"alive", "told"} => leader[c] \in {"alive", "told"}
    BY <2>1 DEF CameraTypeOK
  <2>4. ProcessInv'
    BY <1>1, <1>4, <2>1, <2>2, <2>6 DEF ProcessInv
  <2>5. CameraTypeOK'
    BY <1>1, <2>1, <2>3, NoSubIsNotEmpty DEF CameraTypeOK
  <2> QED BY <1>2, <2>4, <2>5 DEF CaptureInv
<1> QED BY <1>3, <1>4

\* A step that only lets a process of the device move on.
LEMMA DeviceInv ==
  ASSUME CaptureInv, camera' \in [Captures -> Phases], leader' \in [Captures -> Leads],
         \A c \in Captures : camera'[c] \in {"starting", "on"} => camera[c] \in {"starting", "on"},
         \A c \in Captures : leader'[c] \in {"alive", "told"} => leader[c] \in {"alive", "told"},
         UNCHANGED <<is_capturing, capture, images, camera_process, cleaning, published, spinning>>
  PROVE  CaptureInv'
  BY DEF CaptureInv, CameraTypeOK, SubInv, AnswersInv, ProcessInv

LEMMA ImageCallbackInv ==
  ASSUME CaptureInv, ImageCallback PROVE CaptureInv'
<1>1. /\ images # <<>> /\ images # NoSub /\ Cleanup /\ ~cleaning /\ capture' = capture
      /\ spinning' = spinning /\ spinning \in BOOLEAN
  BY DEF ImageCallback, Idle, Cleanup, outside, CaptureInv, CameraTypeOK
<1>2. Head(images) = capture /\ capture \in Nat
  BY <1>1 DEF CaptureInv, SubInv, CameraTypeOK
<1>3. /\ published' \in Seq([answers : Nat, sent : Nat])
      /\ AnswersInv'
  <2>1. CASE published' = published
    BY <2>1, <1>1 DEF CaptureInv, AnswersInv, CameraTypeOK
  <2>2. CASE published' = Append(published, [answers |-> capture, sent |-> Head(images)])
    <3> DEFINE m == [answers |-> capture, sent |-> capture]
    <3>1. published' = Append(published, m) /\ m \in [answers : Nat, sent : Nat]
      BY <2>2, <1>2
    <3>2. published \in Seq([answers : Nat, sent : Nat])
      BY DEF CaptureInv, CameraTypeOK
    <3>3. /\ published' \in Seq([answers : Nat, sent : Nat])
          /\ Len(published') = Len(published) + 1 /\ published'[Len(published) + 1] = m
          /\ \A i \in 1..Len(published) : published'[i] = published[i]
      BY <3>1, <3>2
    <3>4. \A i \in 1..Len(published) : published[i].answers # capture
      BY <1>1 DEF CaptureInv, SubInv
    <3>5. 1..Len(published') = 1..Len(published) \cup {Len(published) + 1} /\ Len(published) \in Nat
      BY <3>2, <3>3
    <3>6. m.answers = capture /\ m.sent = capture
      OBVIOUS
    <3>7. AnswersInv
      BY DEF CaptureInv
    <3>8. AnswersInv'
      <4> SUFFICES ASSUME NEW i \in 1..Len(published')
                   PROVE  /\ published'[i].sent = published'[i].answers
                          /\ published'[i].answers <= capture
                          /\ \A j \in 1..Len(published') :
                               i # j => published'[i].answers # published'[j].answers
        BY <1>1 DEF AnswersInv
      <4>1. CASE i = Len(published) + 1
        BY <4>1, <3>3, <3>4, <3>5, <3>6, <1>2
      <4>2. CASE i \in 1..Len(published)
        <5>1. /\ published[i].sent = published[i].answers /\ published[i].answers <= capture
              /\ \A j \in 1..Len(published) : i # j => published[i].answers # published[j].answers
          BY <4>2, <3>7 DEF AnswersInv
        <5> QED BY <5>1, <4>2, <3>3, <3>4, <3>5, <3>6
      <4> QED BY <4>1, <4>2, <3>5
    <3> QED BY <3>3, <3>8
  <2> QED BY <2>1, <2>2 DEF ImageCallback
<1> QED BY <1>1, <1>3, CleanupInv DEF CaptureInv

LEMMA TriggerInv ==
  ASSUME CaptureInv, Trigger PROVE CaptureInv'
<1> USE DEF CaptureInv
<1>0. /\ ~cleaning /\ published' = published /\ published \in Seq([answers : Nat, sent : Nat])
      /\ spinning' = spinning /\ spinning \in BOOLEAN
  BY DEF Trigger, Idle, CameraTypeOK
<1>1. CASE is_capturing
  BY <1>1 DEF Trigger, Free, CameraTypeOK, SubInv, AnswersInv, ProcessInv
<1>2. CASE ~is_capturing /\ Cleanup
  <2>1. AnswersInv'
    BY <1>0, <1>2 DEF Cleanup, AnswersInv
  <2> QED BY <1>0, <1>2, <2>1, CleanupInv
<1>3. CASE /\ ~is_capturing /\ is_capturing' = TRUE /\ capture' = capture + 1
           /\ camera_process' = capture'
           /\ \/ /\ camera' = [camera EXCEPT ![capture'] = "starting"]
                 /\ leader' = [leader EXCEPT ![capture'] = "alive"]
                 /\ images' = <<>> /\ cleaning' = cleaning
              \/ /\ camera' = [camera EXCEPT ![capture'] = "ending"]
                 /\ leader' = [leader EXCEPT ![capture'] = "told"]
                 /\ images' = images /\ cleaning' = TRUE
  <2>1. capture \in Nat /\ capture' \in Nat /\ capture' >= 1 /\ capture < capture'
    BY <1>3 DEF CameraTypeOK
  <2>2. camera' \in [Captures -> Phases] /\ leader' \in [Captures -> Leads]
    BY <1>3 DEF CameraTypeOK, Phases, Leads
  <2>9. images' = <<>> \/ images' = NoSub
    BY <1>3 DEF SubInv
  <2>e. <<>> \in Seq(Nat) /\ cleaning \in BOOLEAN
    BY DEF CameraTypeOK
  <2>d. images' \in Seq(Nat)
    BY <2>9, <2>e, NoSubIsNotEmpty
  <2>f. is_capturing' \in BOOLEAN /\ cleaning' \in BOOLEAN
    BY <1>3, <2>e
  <2>3. CameraTypeOK'
    BY <1>0, <1>3, <2>1, <2>2, <2>d, <2>f DEF CameraTypeOK
  <2>4. \A i \in 1..Len(published) : published[i].answers <= capture /\ published[i].answers \in Nat
    <3> DEFINE Answer == [answers : Nat, sent : Nat]
    <3>0. published \in Seq(Answer)
      BY <1>0
    <3> HIDE DEF Answer
    <3>1. \A i \in 1..Len(published) : published[i] \in Answer
      BY <3>0
    <3>2. \A i \in 1..Len(published) : published[i].answers \in Nat
      BY <3>1 DEF Answer
    <3> QED BY <3>2 DEF AnswersInv
  <2>5. SubInv'
    <3>1. images' # NoSub => ~cleaning' /\ Len(images') = 0 /\ 1..0 = {}
      BY <1>0, <1>3, <2>9 DEF SubInv
    <3>2. \A m \in Nat : m <= capture => m # capture'
      <4>1. PICK old \in Nat : old = capture
        BY <2>1
      <4>2. PICK new \in Nat : new = capture' /\ old < new
        BY <2>1, <4>1
      <4> QED BY ONLY <4>1, <4>2, SMT
    <3>3. published' = published
      BY <1>0
    <3>4. \A i \in 1..Len(published) : published[i].answers # capture'
      BY ONLY <2>4, <3>2
    <3>5. \A i \in 1..Len(published') : published'[i].answers # capture'
      BY ONLY <3>3, <3>4
    <3> QED BY <3>1, <3>5, <1>0, <1>3, <2>1 DEF SubInv
  <2>6. AnswersInv'
    BY <1>0, <2>1, <2>4 DEF AnswersInv
  <2>a. camera_process = 0
    BY <1>3 DEF ProcessInv
  <2>b. \A c \in Captures : c # 0
    BY DEF Captures
  <2>7. \A c \in Captures : camera'[c] \in {"starting", "on"} => c = capture' /\ ~cleaning'
    BY <1>0, <1>3 DEF ProcessInv, CameraTypeOK
  <2>c. \A c \in Captures : spinning' /\ leader'[c] \in {"alive", "told"} => c = capture'
    BY <1>0, <1>3, <2>a, <2>b DEF ProcessInv, CameraTypeOK
  <2>8. ProcessInv'
    BY <1>0, <1>3, <2>1, <2>7, <2>c DEF ProcessInv
  <2> QED BY <2>3, <2>5, <2>6, <2>8
<1> QED BY <1>1, <1>2, <1>3 DEF Trigger, Free, CameraTypeOK

LEMMA CleanupEndsInv ==
  ASSUME CaptureInv, CleanupEnds PROVE CaptureInv'
<1> USE DEF CaptureInv
<1>1. /\ cleaning /\ camera_process' = 0 /\ cleaning' = FALSE /\ is_capturing' = FALSE
      /\ UNCHANGED <<capture, images, published, spinning>>
  BY DEF CleanupEnds, outside
<1>2. camera' = camera \/ camera' = [camera EXCEPT ![camera_process] = "dead"]
  BY DEF CleanupEnds
<1>3. camera' \in [Captures -> Phases] /\ \A c \in Captures : camera'[c] \notin {"starting", "on"}
  BY <1>1, <1>2 DEF ProcessInv, CameraTypeOK, Phases
<1>4. images = NoSub
  BY <1>1 DEF SubInv
<1>7. leader' \in [Captures -> Leads]
  BY DEF CleanupEnds, CameraTypeOK, Leads
<1>8. \A c \in Captures : spinning' => leader'[c] \notin {"alive", "told"}
  BY <1>1 DEF CleanupEnds, ProcessInv, CameraTypeOK
<1>6. ProcessInv'
  BY <1>1, <1>3, <1>8 DEF ProcessInv
<1>5. CameraTypeOK' /\ SubInv' /\ AnswersInv'
  <2>1. spinning \in BOOLEAN /\ capture \in Nat
    BY DEF CameraTypeOK
  <2>2. CameraTypeOK'
    BY <1>1, <1>3, <1>7, <2>1 DEF CameraTypeOK
  <2> QED BY <1>1, <1>4, <2>2 DEF SubInv, AnswersInv
<1> QED BY <1>5, <1>6

LEMMA CameraImageInv ==
  ASSUME CaptureInv, NEW c \in Captures, CameraImage(c) PROVE CaptureInv'
<1> USE DEF CaptureInv
<1>1. /\ images # NoSub /\ images' = Append(images, capture)
      /\ UNCHANGED <<is_capturing, capture, camera_process, cleaning, camera, leader, spinning,
                     published>>
  BY DEF CameraImage, outside
<1>2. images' \in Seq(Nat) /\ Len(images') = Len(images) + 1 /\ images'[Len(images) + 1] = capture
      /\ \A i \in 1..Len(images) : images'[i] = images[i]
  BY <1>1 DEF CameraTypeOK
<1>3. \A i \in 1..Len(images') : images'[i] = capture
  <2>1. 1..Len(images') = 1..Len(images) \cup {Len(images) + 1}
    BY <1>2 DEF CameraTypeOK
  <2> QED BY <1>1, <1>2, <2>1 DEF SubInv
<1>4. SubInv'
  BY <1>1, <1>3 DEF SubInv
<1>5. CameraTypeOK' /\ AnswersInv' /\ ProcessInv'
  BY <1>1, <1>2 DEF CameraTypeOK, AnswersInv, ProcessInv
<1> QED BY <1>4, <1>5

LEMMA CameraStepInv == CaptureInv /\ [CameraNext]_camera_vars => CaptureInv'
<1> SUFFICES ASSUME CaptureInv, [CameraNext]_camera_vars PROVE CaptureInv'
  OBVIOUS
<1>t. /\ camera \in [Captures -> Phases] /\ leader \in [Captures -> Leads]
      /\ Phases = {"none", "starting", "on", "ending", "deaf", "dead"}
      /\ Leads = {"none", "alive", "told", "dead"} /\ spinning \in BOOLEAN
  BY DEF CaptureInv, CameraTypeOK, Phases, Leads
<1>1. CASE UNCHANGED camera_vars
  BY <1>1, <1>t, DeviceInv DEF camera_vars
<1>2. CASE CleanupEnds
  BY <1>2, CleanupEndsInv
<1>3. CASE Trigger
  BY <1>3, TriggerInv
<1>4. CASE ImageCallback
  BY <1>4, ImageCallbackInv
<1>5. CASE TimeoutCallback \/ (DestroyNode /\ ~cleaning)
  <2>1. /\ Cleanup /\ ~cleaning /\ published' = published
        /\ spinning' \in BOOLEAN /\ (spinning' => spinning)
    BY <1>5, <1>t DEF TimeoutCallback, DestroyNode, Idle, outside
  <2>2. AnswersInv' /\ published' \in Seq([answers : Nat, sent : Nat])
    BY <2>1 DEF Cleanup, CaptureInv, CameraTypeOK, AnswersInv
  <2> QED BY <2>1, <2>2, CleanupInv DEF CaptureInv
<1>9. CASE DestroyNode /\ cleaning
  <2>1. /\ cleaning' = FALSE /\ camera_process' = 0 /\ is_capturing' = FALSE /\ ~spinning'
        /\ spinning' \in BOOLEAN
        /\ UNCHANGED <<capture, images, leader, camera, published>>
    BY <1>9 DEF DestroyNode
  <2>2. images = NoSub /\ \A c \in Captures : camera[c] \notin {"starting", "on"}
    BY <1>9 DEF CaptureInv, SubInv, ProcessInv
  <2> QED BY <2>1, <2>2 DEF CaptureInv, CameraTypeOK, SubInv, AnswersInv, ProcessInv
<1>6. CASE TriggerSent \/ CameraTick
  BY <1>6, <1>t, DeviceInv DEF TriggerSent, CameraTick, outside
<1>7. ASSUME NEW c \in Captures, CameraImage(c) PROVE CaptureInv'
  BY <1>7, CameraImageInv
<1>8. ASSUME NEW c \in Captures,
             CameraStarts(c) \/ CameraHangs(c) \/ CameraEnds(c) \/ LeaderEnds(c)
      PROVE CaptureInv'
  <2>1. UNCHANGED <<is_capturing, capture, images, camera_process, cleaning, published, spinning>>
    BY <1>8 DEF CameraStarts, CameraHangs, CameraEnds, LeaderEnds, outside
  <2>2. \/ camera' = camera
        \/ \E p \in {"on", "dead", "deaf"} :
             /\ camera' = [camera EXCEPT ![c] = p]
             /\ p = "on" => camera[c] = "starting"
    BY <1>8 DEF CameraStarts, CameraHangs, CameraEnds, LeaderEnds
  <2>3. /\ camera' \in [Captures -> Phases]
        /\ \A d \in Captures : camera'[d] \in {"starting", "on"} => camera[d] \in {"starting", "on"}
    BY <2>2, <1>t
  <2>4. leader' = leader \/ leader' = [leader EXCEPT ![c] = "dead"]
    BY <1>8 DEF CameraStarts, CameraHangs, CameraEnds, LeaderEnds
  <2>5. /\ leader' \in [Captures -> Leads]
        /\ \A d \in Captures : leader'[d] \in {"alive", "told"} => leader[d] \in {"alive", "told"}
    BY <2>4, <1>t
  <2> QED BY <2>1, <2>3, <2>5, DeviceInv
<1> QED BY <1>1, <1>2, <1>3, <1>4, <1>5, <1>6, <1>7, <1>8, <1>9 DEF CameraNext, Callbacks

\* A trigger is answered once and by an image sent after it, and when its capture
\* is over the camera has been told to end and its `ros2 run' is gone.
THEOREM CaptureCloses == CameraSpec => []CaptureIsClosed
<1>1. CameraInit => CaptureInv
  <2> SUFFICES ASSUME CameraInit PROVE CaptureInv
    OBVIOUS
  <2>1. CameraTypeOK
    <3>1. <<>> \in Seq([answers : Nat, sent : Nat])
      OBVIOUS
    <3>2. published \in Seq([answers : Nat, sent : Nat])
      BY <3>1, Zenon DEF CameraInit
    <3>3. camera \in [Captures -> Phases] /\ leader \in [Captures -> Leads]
      BY DEF CameraInit, Phases, Leads
    <3> QED BY <3>2, <3>3, NoSubIsNotEmpty DEF CameraInit, CameraTypeOK
  <2>2. Len(published) = 0 /\ 1..0 = {}
    BY DEF CameraInit
  <2> QED BY <2>1, <2>2 DEF CameraInit, CaptureInv, SubInv, AnswersInv, ProcessInv
<1>2. CaptureInv => CaptureIsClosed
  <2> SUFFICES ASSUME CaptureInv PROVE CaptureIsClosed
    OBVIOUS
  <2>1. DOMAIN published = 1..Len(published)
    BY DEF CaptureInv, CameraTypeOK
  <2>2. AnsweredOnceAndFresh
    BY <2>1 DEF CaptureInv, AnswersInv, AnsweredOnceAndFresh
  <2>3. NoCameraUntold
    <3> SUFFICES ASSUME ~is_capturing, NEW c \in Captures
                 PROVE  /\ camera[c] \notin {"starting", "on"}
                        /\ spinning => leader[c] \in {"none", "dead"}
      BY DEF NoCameraUntold
    <3>1. camera_process = 0 /\ c # 0 /\ leader[c] \in Leads
      BY DEF CaptureInv, ProcessInv, CameraTypeOK, Captures
    <3> QED BY <3>1 DEF CaptureInv, ProcessInv, Leads
  <2> QED BY <2>2, <2>3 DEF CaptureIsClosed
<1> QED BY <1>1, <1>2, CameraStepInv, PTL DEF CameraSpec

-----------------------------------------------------------------------------
(* SignDetection                                                          *)

\* Every sign of the message being handled is on the bus, refused or still to
\* be written, and in no two of these places.
Accounted ==
  /\ sent \in Seq(Int) /\ pending \subseteq Int
  /\ Wanted(handled) = ToSet(sent) \cup lost \cup pending
  /\ pending \cap ToSet(sent) = {} /\ pending \cap lost = {}
  /\ IsFiniteSet(ToSet(sent)) /\ Cardinality(ToSet(sent)) = Len(sent)

LEMMA AppendedSet ==
  ASSUME NEW S, NEW q \in Seq(S), NEW x \in S
  PROVE  ToSet(Append(q, x)) = ToSet(q) \cup {x}
<1>1. /\ Len(Append(q, x)) = Len(q) + 1 /\ Append(q, x)[Len(q) + 1] = x
      /\ \A i \in 1..Len(q) : Append(q, x)[i] = q[i]
  OBVIOUS
<1>2. DOMAIN q = 1..Len(q) /\ DOMAIN Append(q, x) = 1..(Len(q) + 1) /\ Len(q) \in Nat
  OBVIOUS
<1>3. 1..(Len(q) + 1) = 1..Len(q) \cup {Len(q) + 1}
  BY <1>2
<1> QED BY <1>1, <1>2, <1>3 DEF ToSet

\* Each sign of a message has its frame once, unless that frame was refused.
THEOREM EachSignHasItsFrame == SignSpec => []EachSignOnce
<1>e. ToSet(<<>>) = {} /\ <<>> \in Seq(Int) /\ Len(<<>>) = 0
  BY DEF ToSet
<1>w. \A m : Wanted(m) \subseteq Int
  BY DEF Wanted
<1>f. IsFiniteSet({}) /\ Cardinality({}) = 0
  BY FS_EmptySet
<1>1. SignInit => Accounted
  <2> SUFFICES ASSUME SignInit PROVE Accounted
    OBVIOUS
  <2>1. Wanted(<<>>) = {}
    BY DEF Wanted
  <2> QED BY <2>1, <1>e, <1>f DEF SignInit, Accounted
<1>2. Accounted /\ [SignNext]_sign_vars => Accounted'
  <2> SUFFICES ASSUME Accounted, [SignNext]_sign_vars PROVE Accounted'
    OBVIOUS
  <2>1. CASE UNCHANGED sign_vars
    BY <2>1 DEF sign_vars, Accounted, Wanted, ToSet
  <2>2. ASSUME NEW m \in Messages, Detect(m) PROVE Accounted'
    BY <2>2 DEF Detect, Accounted, Wanted, ToSet
  <2>3. CASE OnDetections
    <3>1. handled' = Head(queue) /\ pending' = Wanted(handled') /\ sent' = <<>> /\ lost' = {}
      BY <2>3 DEF OnDetections
    <3>2. Wanted(handled)' = Wanted(handled')
      BY DEF Wanted
    <3>3. ToSet(sent)' = {}
      BY <3>1, <1>e DEF ToSet
    <3> QED BY <3>1, <3>2, <3>3, <1>e, <1>f, <1>w DEF Accounted
  <2>4. ASSUME NEW cls \in pending, Send(cls) PROVE Accounted'
    <3>1. handled' = handled /\ pending' = pending \ {cls} /\ cls \in Int /\ cls \notin ToSet(sent)
      BY <2>4 DEF Send, Left, Accounted
    <3>2. Wanted(handled)' = Wanted(handled)
      BY <3>1 DEF Wanted
    <3>3. CASE sent' = Append(sent, cls) /\ lost' = lost
      <4>1. ToSet(sent)' = ToSet(sent) \cup {cls}
        <5>1. ToSet(sent)' = ToSet(Append(sent, cls))
          BY <3>3 DEF ToSet
        <5> QED BY <5>1, <3>1, AppendedSet DEF Accounted
      <4>2. Len(sent') = Len(sent) + 1 /\ sent' \in Seq(Int) /\ Len(sent) \in Nat
        BY <3>1, <3>3 DEF Accounted
      <4>3. /\ IsFiniteSet(ToSet(sent) \cup {cls})
            /\ Cardinality(ToSet(sent) \cup {cls}) = Cardinality(ToSet(sent)) + 1
        BY <3>1, FS_AddElement DEF Accounted
      <4>4. IsFiniteSet(ToSet(sent)') /\ Cardinality(ToSet(sent)') = Len(sent')
        BY <4>1, <4>2, <4>3 DEF Accounted
      <4>5. pending' \cap ToSet(sent)' = {} /\ pending' \cap lost' = {} /\ pending' \subseteq Int
        BY <3>1, <3>3, <4>1 DEF Accounted
      <4>6. Wanted(handled)' = ToSet(sent)' \cup lost' \cup pending'
        BY <3>1, <3>2, <3>3, <4>1, <2>4 DEF Accounted
      <4> QED BY <4>2, <4>4, <4>5, <4>6 DEF Accounted
    <3>4. CASE lost' = lost \cup {cls} /\ sent' = sent
      <4>1. ToSet(sent)' = ToSet(sent)
        BY <3>4 DEF ToSet
      <4> QED BY <3>1, <3>2, <3>4, <4>1, <2>4 DEF Accounted
    <3> QED BY <2>4, <3>3, <3>4 DEF Send
  <2> QED BY <2>1, <2>2, <2>3, <2>4 DEF SignNext
<1>3. Accounted => EachSignOnce
  BY DEF Accounted, EachSignOnce, Wanted
<1> QED BY <1>1, <1>2, <1>3, PTL DEF SignSpec

(***************************************************************************)
(* Induction over the natural numbers, as a fact about sets.               *)
(***************************************************************************)

LEMMA LeastNat ==
  ASSUME NEW T, T \subseteq Nat, T # {} PROVE \E x \in T : \A y \in T : x <= y
<1> DEFINE R == OpToRel(<, Nat)
<1>1. IsWellFoundedOn(R, Nat)
  BY NatLessThanWellFounded
<1>2. \A x, y \in Nat : y < x => <<y, x>> \in R
  BY DEF OpToRel
<1> HIDE DEF R
<1>3. PICK x \in T : \A y \in T : ~(<<y, x>> \in R)
  BY <1>1, WFMin
<1>4. ASSUME NEW y \in T PROVE x <= y
  <2>1. x \in Nat /\ y \in Nat
    OBVIOUS
  <2>2. ~(y < x)
    BY <1>2, <1>3, <2>1
  <2> QED BY <2>1, <2>2
<1> QED BY <1>4

LEMMA SetInduction ==
  ASSUME NEW S, 0 \in S, \A n \in Nat : n \in S => n + 1 \in S PROVE Nat \subseteq S
<1>1. SUFFICES ASSUME Nat \ S # {} PROVE FALSE
  OBVIOUS
<1>2. PICK x \in Nat \ S : \A y \in Nat \ S : x <= y
  <2>1. Nat \ S \subseteq Nat
    OBVIOUS
  <2> QED BY <1>1, <2>1, LeastNat
<1>3. x # 0 /\ x - 1 \in Nat /\ x - 1 \in S
  BY <1>2
<1> QED BY <1>2, <1>3

\* What a loop of m rounds makes of c; round n makes G[<<n, x>>] of x.
Rounds(f, S, c, G, m) ==
  f \in [0..m -> S] /\ f[0] = c /\ \A n \in 1..m : f[n] = G[<<n, f[n - 1]>>]

LEMMA Iterated ==
  ASSUME NEW S, NEW c \in S, NEW G \in [Nat \X S -> S], NEW m \in Nat
  PROVE  \E f : Rounds(f, S, c, G, m)
<1> DEFINE T == {n \in Nat : \E f : Rounds(f, S, c, G, n)}
<1>1. \E f : Rounds(f, S, c, G, 0)
  <2> DEFINE f == [k \in 0..0 |-> c]
  <2>1. f \in [0..0 -> S] /\ f[0] = c
    OBVIOUS
  <2>2. \A k \in 1..0 : f[k] = G[<<k, f[k - 1]>>]
    OBVIOUS
  <2> HIDE DEF f
  <2> QED BY <2>1, <2>2 DEF Rounds
<1>2. ASSUME NEW n \in Nat, NEW f, Rounds(f, S, c, G, n) PROVE \E g : Rounds(g, S, c, G, n + 1)
  <2>1. f \in [0..n -> S] /\ f[0] = c /\ \A k \in 1..n : f[k] = G[<<k, f[k - 1]>>]
    BY <1>2 DEF Rounds
  <2> DEFINE g == [k \in 0..(n + 1) |-> IF k = n + 1 THEN G[<<k, f[n]>>] ELSE f[k]]
  <2>2. g \in [0..(n + 1) -> S]
    BY <2>1
  <2>3. g[0] = c
    BY <2>1
  <2>4. ASSUME NEW k \in 1..(n + 1) PROVE g[k] = G[<<k, g[k - 1]>>]
    <3>1. CASE k = n + 1
      BY <3>1
    <3>2. CASE k \in 1..n
      BY <2>1, <3>2
    <3> QED BY <3>1, <3>2
  <2> HIDE DEF g
  <2> QED BY <2>2, <2>3, <2>4 DEF Rounds
<1>3. 0 \in T /\ \A n \in Nat : n \in T => n + 1 \in T
  BY <1>1, <1>2
<1> HIDE DEF T
<1>4. Nat \subseteq T
  BY <1>3, SetInduction
<1> QED BY <1>4 DEF T

(***************************************************************************)
(* RoadClassification: the loop over what was read is an induction; what   *)
(* still waits in the socket is what will make is_rough the verdict of the *)
(* road.                                                                   *)
(***************************************************************************)

\* v is the verdict of the last of the first n frames of q that counts, or rough if
\* none does.
LastVerdict(v, rough, q, n) ==
  \/ /\ v = rough
     /\ \A i \in 1..n : ~Counts(q[i])
  \/ \E i \in 1..n : /\ Counts(q[i]) /\ v = Rough(q[i])
                     /\ \A j \in (i + 1)..n : ~Counts(q[j])

LEMMA VerdictGrows ==
  ASSUME NEW rough, NEW q, NEW n \in Nat, NEW v
  PROVE  LastVerdict(v, rough, q, n + 1)
           <=> IF Counts(q[n + 1]) THEN v = Rough(q[n + 1]) ELSE LastVerdict(v, rough, q, n)
<1>1. CASE Counts(q[n + 1])
  <2>1. LastVerdict(v, rough, q, n + 1) => v = Rough(q[n + 1])
    <3>1. n + 1 \in 1..(n + 1)
      OBVIOUS
    <3>2. ASSUME NEW i \in 1..(n + 1), \A j \in (i + 1)..(n + 1) : ~Counts(q[j])
          PROVE  i = n + 1
      BY <1>1, <3>2
    <3> QED BY <1>1, <3>1, <3>2 DEF LastVerdict
  <2>2. v = Rough(q[n + 1]) => LastVerdict(v, rough, q, n + 1)
    <3>1. n + 1 \in 1..(n + 1) /\ \A j \in (n + 1 + 1)..(n + 1) : ~Counts(q[j])
      OBVIOUS
    <3> QED BY <1>1, <3>1 DEF LastVerdict
  <2> QED BY <1>1, <2>1, <2>2
<1>2. CASE ~Counts(q[n + 1])
  <2>1. \A i : i \in 1..(n + 1) <=> i \in 1..n \/ i = n + 1
    OBVIOUS
  <2>2. \A i \in 1..n : \A j : j \in (i + 1)..(n + 1) <=> j \in (i + 1)..n \/ j = n + 1
    OBVIOUS
  <2>3. LastVerdict(v, rough, q, n + 1) <=> LastVerdict(v, rough, q, n)
    BY <1>2, <2>1, <2>2 DEF LastVerdict
  <2> QED BY <1>2, <2>3
<1> QED BY <1>1, <1>2

\* The loop over what was read ends with that verdict.
LEMMA DrainedIsLast ==
  ASSUME NEW rough \in BOOLEAN, NEW q \in Seq(Frames)
  PROVE  LastVerdict(Drained(rough, q), rough, q, Len(q))
<1> DEFINE m == Len(q)
           Rec(f) == f = [n \in 0..m |-> IF n = 0 THEN rough
                                ELSE IF Counts(q[n]) THEN Rough(q[n]) ELSE f[n - 1]]
           g == [n \in 0..m |-> CHOOSE v : LastVerdict(v, rough, q, n)]
           after == CHOOSE f : Rec(f)
<1>m. m \in Nat
  OBVIOUS
<1>0. \A v : LastVerdict(v, rough, q, 0) <=> v = rough
  BY DEF LastVerdict
<1>1. Rec(g)
  <2>1. g[0] = rough
    <3>1. (CHOOSE v : LastVerdict(v, rough, q, 0)) = rough
      BY <1>0
    <3> QED BY <3>1, <1>m
  <2>2. ASSUME NEW n \in 1..m
        PROVE  g[n] = IF Counts(q[n]) THEN Rough(q[n]) ELSE g[n - 1]
    <3>1. n - 1 \in Nat /\ n - 1 + 1 = n /\ n \in 0..m /\ n - 1 \in 0..m
      BY <1>m
    <3>2. \A v : LastVerdict(v, rough, q, n)
                   <=> IF Counts(q[n]) THEN v = Rough(q[n]) ELSE LastVerdict(v, rough, q, n - 1)
      BY <3>1, VerdictGrows
    <3>3. CASE Counts(q[n])
      <4>1. \A v : LastVerdict(v, rough, q, n) <=> v = Rough(q[n])
        BY <3>2, <3>3
      <4>2. (CHOOSE v : LastVerdict(v, rough, q, n)) = Rough(q[n])
        BY <4>1
      <4> QED BY <3>1, <3>3, <4>2
    <3>4. CASE ~Counts(q[n])
      <4>1. \A v : LastVerdict(v, rough, q, n) <=> LastVerdict(v, rough, q, n - 1)
        BY <3>2, <3>4
      <4>2. (CHOOSE v : LastVerdict(v, rough, q, n)) = (CHOOSE v : LastVerdict(v, rough, q, n - 1))
        BY <4>1
      <4> QED BY <3>1, <3>4, <4>2
    <3> QED BY <3>3, <3>4
  <2>3. \A n \in 0..m : g[n] = IF n = 0 THEN rough
                               ELSE IF Counts(q[n]) THEN Rough(q[n]) ELSE g[n - 1]
    <3> HIDE DEF g, m
    <3>1. \A n \in 0..m : n = 0 \/ n \in 1..m
      BY <1>m
    <3>2. \A n \in 1..m : n # 0
      BY <1>m
    <3> QED BY <2>1, <2>2, <3>1, <3>2
  <2>4. g = [n \in 0..m |-> g[n]]
    OBVIOUS
  <2> HIDE DEF g
  <2> QED BY <2>3, <2>4
<1>2. Rec(after)
  BY <1>1
<1>3. Drained(rough, q) = after[m]
  BY DEF Drained
<1>4. /\ after[0] = rough
      /\ \A n \in 1..m : after[n] = IF Counts(q[n]) THEN Rough(q[n]) ELSE after[n - 1]
  <2> HIDE DEF after, m
  <2>1. after = [n \in 0..m |-> IF n = 0 THEN rough
                  ELSE IF Counts(q[n]) THEN Rough(q[n]) ELSE after[n - 1]]
    BY <1>2
  <2>2. 0 \in 0..m /\ \A n \in 1..m : n \in 0..m /\ n # 0
    BY <1>m
  <2> HIDE DEF Rec
  <2>3. after[0] = rough
    BY <2>1, <2>2
  <2>4. ASSUME NEW n \in 1..m
        PROVE  after[n] = IF Counts(q[n]) THEN Rough(q[n]) ELSE after[n - 1]
    BY <2>1, <2>2
  <2> QED BY <2>3, <2>4
<1> DEFINE T == {n \in Nat : n <= m => LastVerdict(after[n], rough, q, n)}
<1> HIDE DEF after, Rec, g
<1>5. 0 \in T
  BY <1>0, <1>4
<1>6. ASSUME NEW n \in Nat, n \in T PROVE n + 1 \in T
  <2> SUFFICES ASSUME n + 1 <= m PROVE LastVerdict(after[n + 1], rough, q, n + 1)
    OBVIOUS
  <2>1. n + 1 \in 1..m /\ LastVerdict(after[n], rough, q, n) /\ n + 1 - 1 = n
    BY <1>6, <1>m
  <2>2. after[n + 1] = IF Counts(q[n + 1]) THEN Rough(q[n + 1]) ELSE after[n]
    BY <1>4, <2>1
  <2> QED BY <2>1, <2>2, VerdictGrows
<1>7. m \in T
  <2> HIDE DEF T
  <2> QED BY <1>5, <1>6, <1>m, SetInduction
<1> QED BY <1>3, <1>7, <1>m

\* What is drained in two parts is drained.
LEMMA VerdictSplits ==
  ASSUME NEW rough, NEW q \in Seq(Frames), NEW v, NEW r, NEW n \in 0..Len(q),
         LastVerdict(v, rough, q, Len(q)), LastVerdict(r, rough, SubSeq(q, 1, n), n)
  PROVE  LastVerdict(v, r, SubSeq(q, n + 1, Len(q)), Len(q) - n)
<1> DEFINE m == Len(q)
           front == SubSeq(q, 1, n)
           back  == SubSeq(q, n + 1, m)
<1>m. m \in Nat /\ n \in Nat /\ n <= m
  OBVIOUS
<1>f. \A i \in 1..n : front[i] = q[i]
  OBVIOUS
<1>b. \A i \in 1..(m - n) : back[i] = q[n + i]
  OBVIOUS
<1> HIDE DEF m, front, back
<1>1. CASE v = rough /\ \A i \in 1..m : ~Counts(q[i])
  <2>1. \A i \in 1..n : ~Counts(front[i])
    BY <1>1, <1>m, <1>f
  <2>2. \A i \in 1..(m - n) : ~Counts(back[i])
    BY <1>1, <1>m, <1>b
  <2>3. r = rough
    BY <2>1 DEF LastVerdict, front
  <2> QED BY <1>1, <2>2, <2>3 DEF LastVerdict, back, m
<1>2. ASSUME NEW i \in 1..m, Counts(q[i]), v = Rough(q[i]), \A j \in (i + 1)..m : ~Counts(q[j])
      PROVE  LastVerdict(v, r, back, m - n)
  <2>1. CASE i <= n
    <3>1. \A k \in 1..(m - n) : ~Counts(back[k])
      BY <1>2, <1>m, <1>b, <2>1
    <3>2. i \in 1..n /\ Counts(front[i]) /\ \A j \in (i + 1)..n : ~Counts(front[j])
      BY <1>2, <1>m, <1>f, <2>1
    <3>3. ~(\A k \in 1..n : ~Counts(front[k]))
      BY <3>2
    <3>4. PICK k \in 1..n : Counts(front[k]) /\ r = Rough(front[k])
                            /\ \A j \in (k + 1)..n : ~Counts(front[j])
      BY <3>3 DEF LastVerdict, front
    <3>5. k = i
      <4>1. ~(k < i)
        BY <3>2, <3>4
      <4>2. ~(i < k)
        BY <3>2, <3>4
      <4> QED BY <1>m, <4>1, <4>2
    <3>6. r = v
      BY <1>2, <1>f, <3>2, <3>4, <3>5
    <3> QED BY <3>1, <3>6 DEF LastVerdict
  <2>2. CASE i > n
    <3>1. PICK p \in 1..(m - n) : i = n + p
      <4>1. i - n \in 1..(m - n) /\ i = n + (i - n)
        BY <1>m, <2>2
      <4> QED BY <4>1
    <3>2. back[p] = q[i]
      BY <1>b, <3>1
    <3>3. \A j \in (p + 1)..(m - n) : ~Counts(back[j])
      <4> SUFFICES ASSUME NEW j \in (p + 1)..(m - n) PROVE ~Counts(back[j])
        OBVIOUS
      <4>1. j \in 1..(m - n) /\ n + j \in (i + 1)..m
        BY <1>m, <3>1
      <4> QED BY <1>2, <1>b, <4>1
    <3> QED BY <1>2, <3>2, <3>3 DEF LastVerdict
  <2> QED BY <1>m, <2>1, <2>2
<1> QED BY <1>1, <1>2 DEF LastVerdict, m, back

RoadIsRough == surface.label = 1 /\ surface.conf >= ConfidenceThreshold

RoadTypeOK ==
  /\ socket \in BOOLEAN /\ inbox \in Seq(Frames) /\ is_rough \in BOOLEAN
  /\ surface \in [label : 0..1, conf : 0..255]

\* What waits in the socket is what will make is_rough the verdict of the road, and
\* the controller was told what is_rough was last.
RoadInv ==
  /\ RoadTypeOK
  /\ ~socket => inbox = <<>>
  /\ LastVerdict(RoadIsRough, is_rough, inbox, Len(inbox))
  /\ limit # "base" => limit = LimitOf(is_rough)

LEMMA DrainStep ==
  ASSUME RoadInv, TimerCallback
  PROVE  RoadInv' /\ RoadIsRough' = RoadIsRough /\ limit' = LimitOf(is_rough')
<1>1. PICK n \in 0..Len(inbox) :
        /\ is_rough' = IF socket THEN Drained(is_rough, SubSeq(inbox, 1, n)) ELSE is_rough
        /\ inbox' = SubSeq(inbox, n + 1, Len(inbox))
        /\ limit' = Published
        /\ UNCHANGED <<socket, surface>>
  BY DEF TimerCallback
<1>t. inbox \in Seq(Frames) /\ is_rough \in BOOLEAN /\ socket \in BOOLEAN /\ Len(inbox) \in Nat
  BY DEF RoadInv, RoadTypeOK
<1>2. inbox' \in Seq(Frames) /\ Len(inbox') = Len(inbox) - n
      /\ SubSeq(inbox, 1, n) \in Seq(Frames) /\ Len(SubSeq(inbox, 1, n)) = n
  BY <1>1, <1>t, SubSeqProperties
<1>3. LastVerdict(is_rough', is_rough, SubSeq(inbox, 1, n), n)
  <2>1. CASE socket
    BY <1>1, <1>2, <1>t, <2>1, DrainedIsLast
  <2>2. CASE ~socket
    <3>1. inbox = <<>> /\ is_rough' = is_rough
      BY <1>1, <2>2 DEF RoadInv
    <3>2. n = 0
      BY <3>1
    <3> QED BY <3>1, <3>2 DEF LastVerdict
  <2> QED BY <2>1, <2>2
<1>4. RoadIsRough' = RoadIsRough
  BY <1>1 DEF RoadIsRough
<1>5. LastVerdict(RoadIsRough, is_rough', inbox', Len(inbox'))
  BY <1>1, <1>2, <1>3, <1>t, VerdictSplits DEF RoadInv
<1>6. is_rough' \in BOOLEAN
  <2>1. \A f : Rough(f) \in BOOLEAN
    BY DEF Rough
  <2> QED BY <1>3, <1>t, <2>1 DEF LastVerdict
<1>7. ~socket => inbox' = <<>>
  BY <1>1 DEF RoadInv
<1>8. limit' = LimitOf(is_rough')
  BY <1>1 DEF Published
<1> QED BY <1>1, <1>2, <1>4, <1>5, <1>6, <1>7, <1>8 DEF RoadInv, RoadTypeOK

LEMMA SendStep ==
  ASSUME ConfidenceThreshold < 256, RoadInv, NEW f \in Frames, EcuSends(f)
  PROVE  RoadInv'
<1>t. inbox \in Seq(Frames) /\ Len(inbox) \in Nat /\ f \in Frames
  BY DEF RoadInv, RoadTypeOK
<1>1. CASE socket /\ Len(inbox) < Buffer
  <2>1. /\ inbox' = Append(inbox, f) /\ UNCHANGED <<socket, is_rough, limit>>
        /\ surface' = IF Counts(f) THEN [label |-> f.label, conf |-> f.conf] ELSE surface
    BY <1>1 DEF EcuSends
  <2>2. /\ inbox' \in Seq(Frames) /\ Len(inbox') = Len(inbox) + 1 /\ inbox'[Len(inbox) + 1] = f
        /\ \A i \in 1..Len(inbox) : inbox'[i] = inbox[i]
    BY <1>t, <2>1, AppendProperties
  <2>3. f.label \in 0..1 /\ f.conf \in 0..255
    BY RoadAssumption DEF Frames
  <2>4. RoadTypeOK'
    BY <2>1, <2>2, <2>3 DEF RoadInv, RoadTypeOK
  <2>5. ASSUME NEW v PROVE LastVerdict(v, is_rough, inbox', Len(inbox))
                             <=> LastVerdict(v, is_rough, inbox, Len(inbox))
    <3> DEFINE m == Len(inbox)
    <3>1. m \in Nat /\ \A i \in 1..m : inbox'[i] = inbox[i]
      BY <1>t, <2>2
    <3>2. \A i \in 1..m : \A j \in (i + 1)..m : j \in 1..m
      BY <3>1
    <3> HIDE DEF m
    <3>3. LastVerdict(v, is_rough, inbox', m) <=> LastVerdict(v, is_rough, inbox, m)
      BY <3>1, <3>2 DEF LastVerdict
    <3> QED BY <3>3 DEF m
  <2>6. LastVerdict(RoadIsRough', is_rough, inbox', Len(inbox) + 1)
    <3>1. CASE Counts(f)
      <4>1. surface'.label = f.label /\ surface'.conf = f.conf
        BY <2>1, <3>1
      <4>2. ConfidenceThreshold % 256 = ConfidenceThreshold
        BY RoadAssumption
      <4>3. RoadIsRough' = Rough(f)
        BY <4>1, <4>2 DEF RoadIsRough, Rough
      <4> QED BY <1>t, <2>2, <3>1, <4>3, VerdictGrows
    <3>2. CASE ~Counts(f)
      <4>1. RoadIsRough' = RoadIsRough
        BY <2>1, <3>2 DEF RoadIsRough
      <4>2. LastVerdict(RoadIsRough, is_rough, inbox', Len(inbox))
        BY <2>5 DEF RoadInv
      <4> QED BY <1>t, <2>2, <3>2, <4>1, <4>2, VerdictGrows
    <3> QED BY <3>1, <3>2
  <2> QED BY <1>1, <2>1, <2>2, <2>4, <2>6 DEF RoadInv
<1>2. CASE ~(socket /\ Len(inbox) < Buffer)
  BY <1>2 DEF EcuSends, RoadInv, RoadTypeOK, RoadIsRough
<1> QED BY <1>1, <1>2

LEMMA RoadStep ==
  ASSUME ConfidenceThreshold < 256, RoadInv, [RoadNext]_road_vars
  PROVE  RoadInv'
<1>1. CASE ControllerRestarts
  BY <1>1 DEF ControllerRestarts, RoadInv, RoadTypeOK, RoadIsRough
<1>2. CASE UNCHANGED road_vars
  BY <1>2 DEF road_vars, RoadInv, RoadTypeOK, RoadIsRough
<1> QED BY <1>1, <1>2, DrainStep, SendStep DEF RoadNext

\* For every threshold that fits the byte it is compared in, every buffer and every
\* run of frames and failing reads: whenever the socket has been emptied, the limit
\* the controller was told is that of the newest frame that counts.
THEOREM LimitIsNewest ==
  ASSUME ConfidenceThreshold < 256 PROVE RoadSpec => NewestVerdictCounts
<1>1. RoadInit => RoadInv
  <2> SUFFICES ASSUME RoadInit PROVE RoadInv
    OBVIOUS
  <2>1. RoadIsRough = FALSE /\ inbox = <<>> /\ is_rough = FALSE
    BY DEF RoadInit, RoadIsRough
  <2>2. LastVerdict(RoadIsRough, is_rough, inbox, Len(inbox))
    <3>1. Len(inbox) = 0 /\ \A i \in 1..0 : ~Counts(inbox[i])
      BY <2>1
    <3> QED BY <2>1, <3>1 DEF LastVerdict
  <2>3. RoadTypeOK
    <3>1. <<>> \in Seq(Frames)
      OBVIOUS
    <3>2. inbox \in Seq(Frames)
      BY <2>1, <3>1
    <3>3. socket \in BOOLEAN /\ surface = [label |-> 0, conf |-> 0]
      BY DEF RoadInit
    <3>4. surface \in [label : 0..1, conf : 0..255]
      BY <3>3
    <3> QED BY <2>1, <3>2, <3>3, <3>4 DEF RoadTypeOK
  <2> QED BY <2>1, <2>2, <2>3 DEF RoadInit, RoadInv
<1>2. RoadInv /\ [RoadNext]_road_vars => RoadInv'
  BY RoadStep
<1>3. RoadInv /\ [RoadNext]_road_vars =>
        (inbox' = <<>> /\ limit' # "base"
           => limit' = LimitOf(surface.label = 1 /\ surface.conf >= ConfidenceThreshold))
  <2> SUFFICES ASSUME RoadInv, [RoadNext]_road_vars, inbox' = <<>>, limit' # "base"
               PROVE  limit' = LimitOf(RoadIsRough)
    BY DEF RoadIsRough
  <2>1. RoadInv'
    BY RoadStep
  <2>2. limit' = LimitOf(is_rough')
    BY <2>1 DEF RoadInv
  <2>3. RoadIsRough' = is_rough'
    BY <2>1 DEF RoadInv, LastVerdict
  <2>4. RoadIsRough' = RoadIsRough
    <3>1. CASE TimerCallback
      BY <3>1, DrainStep
    <3>2. ASSUME NEW f \in Frames, EcuSends(f) PROVE RoadIsRough' = RoadIsRough
      <4>1. Append(inbox, f) # <<>>
        BY AppendProperties DEF RoadInv, RoadTypeOK
      <4> QED BY <3>2, <4>1 DEF EcuSends, RoadIsRough
    <3>3. CASE ControllerRestarts \/ UNCHANGED road_vars
      BY <3>3 DEF ControllerRestarts, road_vars, RoadIsRough
    <3> QED BY <3>1, <3>2, <3>3 DEF RoadNext
  <2> QED BY <2>2, <2>3, <2>4
<1> QED BY <1>1, <1>2, <1>3, PTL DEF RoadSpec, NewestVerdictCounts

(***************************************************************************)
(* MapCleaning: the walk over the cells is Bresenham's.                    *)
(***************************************************************************)

Places == Int \X Int
Longer(dc, dr) == IF dc > dr THEN dc ELSE dr

\* After i steps along the columns and j along the rows: e is how far the walk is
\* off the line, times the longer side.
NearLine(dc, dr, i, j, e) ==
  /\ e = dc * j - dr * i
  /\ -Longer(dc, dr) <= 2 * e /\ 2 * e <= Longer(dc, dr)
  /\ dc = dr => e = 0

\* One step: both comparisons of the code, and what they do to e.
Advance(dc, dr, i, j, e, err, u, v, f) ==
  /\ {dc, dr, i, j, u, v} \subseteq Nat /\ {e, err, f} \subseteq Int
  /\ (dc > 0 \/ dr > 0) /\ NearLine(dc, dr, i, j, e) /\ err = e + dc - dr
  /\ u = (IF 2 * err > -dr THEN i + 1 ELSE i) /\ v = (IF 2 * err < dc THEN j + 1 ELSE j)
  /\ f = e - (IF 2 * err > -dr THEN dr ELSE 0) + (IF 2 * err < dc THEN dc ELSE 0)

LEMMA ErrorStep ==
  ASSUME NEW dc, NEW dr, NEW i, NEW j, NEW e, NEW err, NEW u, NEW v, NEW f,
         Advance(dc, dr, i, j, e, err, u, v, f)
  PROVE  /\ NearLine(dc, dr, u, v, f)
         /\ dc >= dr => u = i + 1
         /\ dr >= dc => v = j + 1
<1>t. /\ dc \in Nat /\ dr \in Nat /\ i \in Nat /\ j \in Nat /\ u \in Nat /\ v \in Nat
      /\ e \in Int /\ err \in Int /\ f \in Int
  BY DEF Advance
<1>a. /\ (dc > 0 \/ dr > 0) /\ err = e + dc - dr /\ e = dc * j - dr * i
      /\ u = (IF 2 * err > -dr THEN i + 1 ELSE i) /\ v = (IF 2 * err < dc THEN j + 1 ELSE j)
      /\ f = e - (IF 2 * err > -dr THEN dr ELSE 0) + (IF 2 * err < dc THEN dc ELSE 0)
  BY DEF Advance, NearLine
<1>1. -Longer(dc, dr) <= 2 * e /\ 2 * e <= Longer(dc, dr) /\ (dc = dr => e = 0)
  BY DEF NearLine, Advance
<1>2. f = dc * v - dr * u
  <2>1. dc * (j + 1) = dc * j + dc /\ dr * (i + 1) = dr * i + dr
    BY <1>t
  <2>2. dc * j \in Int /\ dr * i \in Int
    BY <1>t
  <2> QED BY <1>t, <1>a, <2>1, <2>2
<1>3. CASE dc > dr
  BY <1>t, <1>a, <1>1, <1>2, <1>3 DEF Longer, NearLine
<1>4. CASE dr > dc
  BY <1>t, <1>a, <1>1, <1>2, <1>4 DEF Longer, NearLine
<1>5. CASE dc = dr
  BY <1>t, <1>a, <1>1, <1>2, <1>5 DEF Longer, NearLine
<1> QED BY <1>t, <1>3, <1>4, <1>5

LEMMA Product ==
  ASSUME NEW m \in Nat, NEW k \in Int, NEW l \in Int, k >= l
  PROVE  m * k >= m * l /\ m * k \in Int /\ m * l \in Int
<1>1. k - l \in Nat /\ m * (k - l) >= 0
  OBVIOUS
<1>2. m * (k - l) = m * k - m * l
  OBVIOUS
<1> QED BY <1>1, <1>2

\* Where the longer side has not been passed, the shorter has not either, and they
\* end together.
LEMMA WithinSides ==
  ASSUME NEW m \in Nat, NEW l \in Nat, m >= l, m > 0, NEW n \in Nat, n <= m, NEW k \in Nat,
         -m <= 2 * (m * k - l * n), 2 * (m * k - l * n) <= m
  PROVE  k <= l /\ (n = m => k = l)
<1>1. l * n <= l * m /\ l * n \in Int /\ l * m \in Int /\ m * k \in Int /\ m * l = l * m
  BY Product
<1>2. k <= l
  <2> SUFFICES ASSUME k >= l + 1 PROVE FALSE
    OBVIOUS
  <2>1. m * k >= m * (l + 1) /\ m * (l + 1) = m * l + m
    BY Product
  <2> QED BY <1>1, <2>1
<1>3. ASSUME n = m PROVE k >= l
  <2> SUFFICES ASSUME k + 1 <= l PROVE FALSE
    OBVIOUS
  <2>1. m * l >= m * (k + 1) /\ m * (k + 1) = m * k + m
    BY Product
  <2> QED BY <1>1, <1>3, <2>1
<1> QED BY <1>2, <1>3

LEMMA Distance ==
  ASSUME NEW x \in Int
  PROVE  /\ Abs(x) \in Nat /\ Sign(x) \in Int
         /\ x > 0 => Abs(x) = x /\ Sign(x) = 1
         /\ ~(x > 0) => Abs(x) = -x /\ Sign(x) = -1
BY DEF Abs, Sign

\* t steps from u towards v.
Towards(u, v, t) == IF v - u > 0 THEN u + t ELSE u - t

\* A place of the walk that is not its end is crossed by the beam.
LEMMA PlaceCrossed ==
  ASSUME NEW a \in Places, NEW b \in Places, NEW dc \in Nat, NEW dr \in Nat,
         dc = Abs(b[1] - a[1]), dr = Abs(b[2] - a[2]),
         NEW i \in Nat, NEW j \in Nat, i <= dc, j <= dr, NEW e \in Int, NearLine(dc, dr, i, j, e),
         NEW k \in Places, k = <<Towards(a[1], b[1], i), Towards(a[2], b[2], j)>>, k # b
  PROVE  Crossed(k, a, b)
<1>1. a[1] \in Int /\ a[2] \in Int /\ b[1] \in Int /\ b[2] \in Int
  BY DEF Places
<1>2. k[1] = Towards(a[1], b[1], i) /\ k[2] = Towards(a[2], b[2], j)
  OBVIOUS
<1>3. Between(k[1], a[1], b[1]) /\ Between(k[2], a[2], b[2])
  BY <1>1, <1>2, Distance DEF Between, Towards
<1> DEFINE off == (b[1] - a[1]) * (k[2] - a[2]) - (b[2] - a[2]) * (k[1] - a[1])
<1>4. off \in Int /\ (off = e \/ off = -e)
  <2>0. /\ (IF b[1] - a[1] > 0 THEN b[1] - a[1] = dc /\ k[1] - a[1] = i
                               ELSE b[1] - a[1] = -dc /\ k[1] - a[1] = -i)
        /\ (IF b[2] - a[2] > 0 THEN b[2] - a[2] = dr /\ k[2] - a[2] = j
                               ELSE b[2] - a[2] = -dr /\ k[2] - a[2] = -j)
    BY <1>1, <1>2, Distance DEF Towards
  <2>e. e = dc * j - dr * i /\ dc * j \in Int /\ dr * i \in Int
    BY DEF NearLine
  <2>m. /\ dc * (-j) = -(dc * j) /\ (-dc) * j = -(dc * j) /\ (-dc) * (-j) = dc * j
        /\ dr * (-i) = -(dr * i) /\ (-dr) * i = -(dr * i) /\ (-dr) * (-i) = dr * i
    OBVIOUS
  <2>1. CASE b[1] - a[1] > 0 /\ b[2] - a[2] > 0
    BY <2>0, <2>1, <2>e, <2>m
  <2>2. CASE b[1] - a[1] > 0 /\ ~(b[2] - a[2] > 0)
    BY <2>0, <2>2, <2>e, <2>m
  <2>3. CASE ~(b[1] - a[1] > 0) /\ b[2] - a[2] > 0
    BY <2>0, <2>3, <2>e, <2>m
  <2>4. CASE ~(b[1] - a[1] > 0) /\ ~(b[2] - a[2] > 0)
    BY <2>0, <2>4, <2>e, <2>m
  <2> QED BY <2>1, <2>2, <2>3, <2>4
<1> HIDE DEF off
<1>5. 2 * Abs(off) <= Longer(dc, dr)
  <2>1. -Longer(dc, dr) <= 2 * e /\ 2 * e <= Longer(dc, dr) /\ Longer(dc, dr) \in Int
    BY DEF NearLine, Longer
  <2> QED BY <1>4, <2>1 DEF Abs
<1> QED BY <1>3, <1>5 DEF Crossed, off, Longer

\* No beam is cut off.
BeamsFit ==
  \A from \in Lidars, to \in Returns :
    Longer(Abs(CellOf(to[1]) - CellOf(from[1])), Abs(CellOf(to[2]) - CellOf(from[2]))) <= MaxWalk

Walkers == [at : Places, err : Int, cells : Seq(Places)]

\* Where the walk is after n of its steps.
OnLine(w, a, b, dc, dr, n) ==
  /\ w \in Walkers
  /\ \E i, j \in Nat : \E e \in Int :
       /\ NearLine(dc, dr, i, j, e) /\ w.err = e + dc - dr
       /\ w.at = <<Towards(a[1], b[1], i), Towards(a[2], b[2], j)>>
       /\ (dc >= dr => i = n) /\ (dr >= dc => j = n)
  /\ Len(w.cells) = n /\ \A k \in 1..n : Crossed(w.cells[k], a, b)

LEMMA WalkStarts ==
  ASSUME NEW a \in Places, NEW b \in Places, NEW dc \in Nat, NEW dr \in Nat,
         NEW w, w = [at |-> a, err |-> dc - dr, cells |-> <<>>]
  PROVE  OnLine(w, a, b, dc, dr, 0)
<1>1. a[1] \in Int /\ a[2] \in Int /\ b[1] \in Int /\ b[2] \in Int /\ a = <<a[1], a[2]>>
  BY DEF Places
<1>2. <<>> \in Seq(Places)
  OBVIOUS
<1>3. w \in Walkers
  BY <1>2 DEF Walkers
<1>4. NearLine(dc, dr, 0, 0, 0)
  BY DEF NearLine, Longer
<1>5. w.err = 0 + dc - dr /\ w.at = <<Towards(a[1], b[1], 0), Towards(a[2], b[2], 0)>>
  BY <1>1 DEF Towards
<1>6. Len(w.cells) = 0 /\ \A k \in 1..0 : Crossed(w.cells[k], a, b)
  OBVIOUS
<1>7. \E i, j \in Nat : \E e \in Int :
       /\ NearLine(dc, dr, i, j, e) /\ w.err = e + dc - dr
       /\ w.at = <<Towards(a[1], b[1], i), Towards(a[2], b[2], j)>>
       /\ (dc >= dr => i = 0) /\ (dr >= dc => j = 0)
  BY <1>4, <1>5
<1> QED BY <1>3, <1>6, <1>7 DEF OnLine

\* Before the end of the longer side the walk is not at b, and a step keeps it near
\* the line; at the end of the longer side it is at b.
LEMMA WalkGoesOn ==
  ASSUME NEW a \in Places, NEW b \in Places, NEW dc \in Nat, NEW dr \in Nat,
         dc = Abs(b[1] - a[1]), dr = Abs(b[2] - a[2]),
         NEW n \in Nat, NEW w, OnLine(w, a, b, dc, dr, n), n < Longer(dc, dr)
  PROVE  w.at # b /\ OnLine(Step(w, a, b), a, b, dc, dr, n + 1)
<1>1. a[1] \in Int /\ a[2] \in Int /\ b[1] \in Int /\ b[2] \in Int
  BY DEF Places
<1>2. w.at \in Places /\ w.err \in Int /\ w.cells \in Seq(Places)
  BY DEF OnLine, Walkers
<1>3. PICK i \in Nat, j \in Nat, e \in Int :
         /\ NearLine(dc, dr, i, j, e) /\ w.err = e + dc - dr
         /\ w.at = <<Towards(a[1], b[1], i), Towards(a[2], b[2], j)>>
         /\ (dc >= dr => i = n) /\ (dr >= dc => j = n)
  BY DEF OnLine
<1>4. Len(w.cells) = n /\ \A k \in 1..n : Crossed(w.cells[k], a, b)
  BY DEF OnLine
<1>5. w.at[1] = Towards(a[1], b[1], i) /\ w.at[2] = Towards(a[2], b[2], j)
  BY <1>3
<1>6. i <= dc /\ j <= dr /\ w.at # b
  <2>0. e = dc * j - dr * i /\ -Longer(dc, dr) <= 2 * e /\ 2 * e <= Longer(dc, dr)
    BY <1>3 DEF NearLine
  <2>1. CASE dc >= dr
    <3>1. i = n /\ n < dc /\ dc > 0 /\ Longer(dc, dr) = dc
      BY <1>3, <2>1 DEF Longer
    <3>2. j <= dr
      BY <2>0, <2>1, <3>1, WithinSides
    <3>3. w.at[1] # b[1]
      BY <1>1, <1>5, <3>1, Distance DEF Towards
    <3> QED BY <3>1, <3>2, <3>3
  <2>2. CASE ~(dc >= dr)
    <3>1. j = n /\ n < dr /\ dr > 0 /\ Longer(dc, dr) = dr /\ dr >= dc
      BY <1>3, <2>2 DEF Longer
    <3>2. i <= dc
      <4>1. dc * j \in Int /\ dr * i \in Int
        OBVIOUS
      <4>2. -dr <= 2 * (dr * i - dc * j) /\ 2 * (dr * i - dc * j) <= dr
        BY <2>0, <3>1, <4>1
      <4> QED BY <3>1, <4>2, WithinSides
    <3>3. w.at[2] # b[2]
      BY <1>1, <1>5, <3>1, Distance DEF Towards
    <3> QED BY <3>1, <3>2, <3>3
  <2> QED BY <2>1, <2>2
<1>7. Crossed(w.at, a, b)
  BY <1>2, <1>3, <1>6, PlaceCrossed
<1> DEFINE onC == 2 * w.err > -dr
           onR == 2 * w.err < dc
           u == IF onC THEN i + 1 ELSE i
           v == IF onR THEN j + 1 ELSE j
           f == e - (IF onC THEN dr ELSE 0) + (IF onR THEN dc ELSE 0)
           s == Step(w, a, b)
<1>8. u \in Nat /\ v \in Nat /\ f \in Int
  OBVIOUS
<1>9. NearLine(dc, dr, u, v, f) /\ (dc >= dr => u = i + 1) /\ (dr >= dc => v = j + 1)
  <2>1. dc > 0 \/ dr > 0
    BY DEF Longer
  <2>2. PICK err \in Int : err = w.err /\ err = e + dc - dr
    BY <1>2, <1>3
  <2>3. Advance(dc, dr, i, j, e, err, u, v, f)
    <3> HIDE DEF u, v, f
    <3>1. {dc, dr, i, j, u, v} \subseteq Nat /\ {e, err, f} \subseteq Int
      BY <1>8
    <3> QED BY <1>3, <2>1, <2>2, <3>1 DEF Advance, u, v, f
  <2> HIDE DEF u, v, f, onC, onR, s
  <2>5. NearLine(dc, dr, u, v, f) /\ (dc >= dr => u = i + 1) /\ (dr >= dc => v = j + 1)
    BY <2>3, ErrorStep
  <2> QED BY <2>5
<1>10. /\ s.at = <<IF onC THEN w.at[1] + Sign(b[1] - a[1]) ELSE w.at[1],
                   IF onR THEN w.at[2] + Sign(b[2] - a[2]) ELSE w.at[2]>>
       /\ s.err = w.err - (IF onC THEN dr ELSE 0) + (IF onR THEN dc ELSE 0)
       /\ s.cells = Append(w.cells, w.at)
       /\ s = [at |-> s.at, err |-> s.err, cells |-> s.cells]
  BY DEF Step
<1>11. s.at = <<Towards(a[1], b[1], u), Towards(a[2], b[2], v)>>
  <2>1. b[1] - a[1] \in Int /\ b[2] - a[2] \in Int
    BY <1>1
  <2>2. (IF onC THEN w.at[1] + Sign(b[1] - a[1]) ELSE w.at[1]) = Towards(a[1], b[1], u)
    <3> HIDE DEF onC
    <3> QED BY <1>1, <1>5, <2>1, Distance DEF Towards
  <2>3. (IF onR THEN w.at[2] + Sign(b[2] - a[2]) ELSE w.at[2]) = Towards(a[2], b[2], v)
    <3> HIDE DEF onR
    <3> QED BY <1>1, <1>5, <2>1, Distance DEF Towards
  <2> HIDE DEF onC, onR, s, u, v
  <2> QED BY <1>10, <2>2, <2>3
<1>12. s.at \in Places
  <2>1. Towards(a[1], b[1], u) \in Int /\ Towards(a[2], b[2], v) \in Int
    <3> HIDE DEF u, v
    <3> QED BY <1>1, <1>8 DEF Towards
  <2> HIDE DEF s
  <2> QED BY <1>11, <2>1 DEF Places
<1>13. s.err = f + dc - dr /\ s.err \in Int
  <2> HIDE DEF s, onC, onR
  <2> QED BY <1>2, <1>3, <1>10
<1>14. s.cells \in Seq(Places) /\ Len(s.cells) = n + 1
       /\ \A k \in 1..(n + 1) : Crossed(s.cells[k], a, b)
  <2>1. s.cells \in Seq(Places) /\ Len(s.cells) = n + 1
    BY <1>2, <1>4, <1>10
  <2>2. ASSUME NEW k \in 1..(n + 1)
        PROVE  s.cells[k] = IF k = n + 1 THEN w.at ELSE w.cells[k]
    BY <1>2, <1>4, <1>10
  <2>3. \A k \in 1..(n + 1) : k = n + 1 \/ k \in 1..n
    OBVIOUS
  <2> HIDE DEF s
  <2>4. \A k \in 1..(n + 1) : Crossed(s.cells[k], a, b)
    BY <1>4, <1>7, <2>2, <2>3
  <2> QED BY <2>1, <2>4
<1>15. s \in Walkers
  <2> HIDE DEF s
  <2> QED BY <1>10, <1>12, <1>13, <1>14 DEF Walkers
<1>16. (dc >= dr => u = n + 1) /\ (dr >= dc => v = n + 1)
  <2> HIDE DEF u, v, f
  <2> QED BY <1>3, <1>9
<1>17. OnLine(s, a, b, dc, dr, n + 1)
  <2> HIDE DEF u, v, f, s
  <2>2. \E x, y \in Nat : \E z \in Int :
           /\ NearLine(dc, dr, x, y, z) /\ s.err = z + dc - dr
           /\ s.at = <<Towards(a[1], b[1], x), Towards(a[2], b[2], y)>>
           /\ (dc >= dr => x = n + 1) /\ (dr >= dc => y = n + 1)
    BY <1>8, <1>9, <1>11, <1>13, <1>16
  <2> QED BY <1>14, <1>15, <2>2 DEF OnLine
<1> QED BY <1>6, <1>17

LEMMA WalkArrives ==
  ASSUME NEW a \in Places, NEW b \in Places, NEW dc \in Nat, NEW dr \in Nat,
         dc = Abs(b[1] - a[1]), dr = Abs(b[2] - a[2]),
         NEW w, OnLine(w, a, b, dc, dr, Longer(dc, dr))
  PROVE  w.at = b
<1>1. a[1] \in Int /\ a[2] \in Int /\ b[1] \in Int /\ b[2] \in Int /\ b = <<b[1], b[2]>>
  BY DEF Places
<1> DEFINE n == Longer(dc, dr)
<1>3. PICK i \in Nat, j \in Nat, e \in Int :
         /\ NearLine(dc, dr, i, j, e)
         /\ w.at = <<Towards(a[1], b[1], i), Towards(a[2], b[2], j)>>
         /\ (dc >= dr => i = n) /\ (dr >= dc => j = n)
  BY DEF OnLine
<1>4. e = dc * j - dr * i /\ -n <= 2 * e /\ 2 * e <= n
  BY <1>3 DEF NearLine
<1>5. i = dc /\ j = dr
  <2>1. CASE dc = 0 /\ dr = 0
    BY <1>3, <2>1 DEF Longer
  <2>2. CASE dc >= dr /\ dc > 0
    <3>1. i = dc /\ n = dc
      BY <1>3, <2>2 DEF Longer
    <3> QED BY <1>4, <2>2, <3>1, WithinSides
  <2>3. CASE dr > dc
    <3>1. j = dr /\ n = dr
      BY <1>3, <2>3 DEF Longer
    <3>2. dc * j \in Int /\ dr * i \in Int
      OBVIOUS
    <3>3. -dr <= 2 * (dr * i - dc * j) /\ 2 * (dr * i - dc * j) <= dr
      BY <1>4, <3>1, <3>2
    <3> QED BY <2>3, <3>1, <3>3, WithinSides
  <2> QED BY <2>1, <2>2, <2>3
<1>6. Towards(a[1], b[1], dc) = b[1] /\ Towards(a[2], b[2], dr) = b[2]
  BY <1>1, Distance DEF Towards
<1> QED BY <1>1, <1>3, <1>5, <1>6

\* The walk follows the line, up to its end if that is not too far.
LEMMA WalkCrosses ==
  ASSUME NEW a \in Places, NEW b \in Places
  PROVE  /\ \A k \in DOMAIN Walk(a, b) : Crossed(Walk(a, b)[k], a, b)
         /\ Longer(Abs(b[1] - a[1]), Abs(b[2] - a[2])) <= MaxWalk
              => Len(Walk(a, b)) = Longer(Abs(b[1] - a[1]), Abs(b[2] - a[2]))
<1> DEFINE dc == Abs(b[1] - a[1])
           dr == Abs(b[2] - a[2])
           c == [at |-> a, err |-> dc - dr, cells |-> <<>>]
           N == Longer(dc, dr)
           Rec(f) == f = [n \in 0..MaxWalk |->
                            IF n = 0 THEN c
                            ELSE IF f[n - 1].at = b THEN f[n - 1] ELSE Step(f[n - 1], a, b)]
           walked == CHOOSE f : Rec(f)
           G == [x \in Nat \X Walkers |-> IF x[2].at = b THEN x[2] ELSE Step(x[2], a, b)]
<1>0. dc \in Nat /\ dr \in Nat /\ N \in Nat /\ MaxWalk \in Nat
  <2>1. b[1] - a[1] \in Int /\ b[2] - a[2] \in Int
    BY DEF Places
  <2>2. dc \in Nat /\ dr \in Nat
    BY <2>1, Distance
  <2> QED BY <2>2, MapCleaningAssumption DEF Longer
<1>1. c \in Walkers
  <2>1. <<>> \in Seq(Places) /\ dc - dr \in Int
    BY <1>0
  <2> QED BY <2>1 DEF Walkers
<1>2. G \in [Nat \X Walkers -> Walkers]
  <2> SUFFICES ASSUME NEW w \in Walkers PROVE Step(w, a, b) \in Walkers
    OBVIOUS
  <2>1. w.at \in Places /\ w.err \in Int /\ w.cells \in Seq(Places)
    BY DEF Walkers
  <2>2. w.at[1] \in Int /\ w.at[2] \in Int /\ a[1] \in Int /\ a[2] \in Int
        /\ b[1] \in Int /\ b[2] \in Int
    BY <2>1 DEF Places
  <2>3. Append(w.cells, w.at) \in Seq(Places)
    BY <2>1
  <2>4. Step(w, a, b).at \in Places
    BY <2>2, Distance DEF Step, Places
  <2>5. Step(w, a, b).err \in Int
    <3> HIDE DEF dc, dr
    <3> QED BY <1>0, <2>1 DEF Step, dc, dr
  <2>6. Step(w, a, b) = [at |-> Step(w, a, b).at, err |-> Step(w, a, b).err,
                         cells |-> Append(w.cells, w.at)]
    BY DEF Step
  <2> QED BY <2>3, <2>4, <2>5, <2>6 DEF Walkers
<1>3. \E f : Rec(f)
  <2> HIDE DEF c, G, N
  <2>0. PICK f : Rounds(f, Walkers, c, G, MaxWalk)
    BY <1>0, <1>1, <1>2, Iterated
  <2>1. f \in [0..MaxWalk -> Walkers] /\ f[0] = c /\ \A n \in 1..MaxWalk : f[n] = G[<<n, f[n - 1]>>]
    BY <2>0 DEF Rounds
  <2>2. ASSUME NEW n \in 0..MaxWalk
        PROVE  f[n] = IF n = 0 THEN c
                      ELSE IF f[n - 1].at = b THEN f[n - 1] ELSE Step(f[n - 1], a, b)
    <3>1. CASE n = 0
      BY <2>1, <3>1
    <3>2. CASE n # 0
      <4>1. n \in 1..MaxWalk /\ n - 1 \in 0..MaxWalk
        BY <1>0, <3>2
      <4>2. f[n] = G[<<n, f[n - 1]>>] /\ n \in Nat /\ f[n - 1] \in Walkers
        BY <2>1, <4>1
      <4> QED BY <3>2, <4>2 DEF G
    <3> QED BY <3>1, <3>2
  <2>3. f = [n \in 0..MaxWalk |-> f[n]]
    BY <2>1
  <2>4. f = [n \in 0..MaxWalk |->
               IF n = 0 THEN c
               ELSE IF f[n - 1].at = b THEN f[n - 1] ELSE Step(f[n - 1], a, b)]
    BY <2>2, <2>3
  <2> QED BY <2>4
<1>4. Rec(walked)
  BY <1>3
<1>5. Walk(a, b) = walked[MaxWalk].cells
  BY DEF Walk
<1>6. /\ walked[0] = c
      /\ \A n \in 1..MaxWalk :
           walked[n] = IF walked[n - 1].at = b THEN walked[n - 1] ELSE Step(walked[n - 1], a, b)
  <2> HIDE DEF walked, c
  <2>1. walked = [n \in 0..MaxWalk |->
                    IF n = 0 THEN c
                    ELSE IF walked[n - 1].at = b THEN walked[n - 1] ELSE Step(walked[n - 1], a, b)]
    BY <1>4
  <2>2. \A n \in 0..MaxWalk :
          walked[n] = IF n = 0 THEN c
                      ELSE IF walked[n - 1].at = b THEN walked[n - 1] ELSE Step(walked[n - 1], a, b)
    BY <2>1
  <2>3. 0 \in 0..MaxWalk /\ \A n \in 1..MaxWalk : n \in 0..MaxWalk /\ n # 0
    BY <1>0
  <2> QED BY <2>2, <2>3
<1> DEFINE T == {n \in Nat : n <= N /\ n <= MaxWalk => OnLine(walked[n], a, b, dc, dr, n)}
           U == {n \in Nat : N + n <= MaxWalk => walked[N + n] = walked[N]}
<1>7. 0 \in T
  <2> HIDE DEF walked, dc, dr
  <2>1. OnLine(walked[0], a, b, dc, dr, 0)
    BY <1>0, <1>6, WalkStarts
  <2> QED BY <2>1
<1>8. ASSUME NEW n \in Nat, n \in T PROVE n + 1 \in T
  <2>1. SUFFICES ASSUME n + 1 <= N, n + 1 <= MaxWalk
                PROVE  OnLine(walked[n + 1], a, b, dc, dr, n + 1)
    <3> HIDE DEF walked, dc, dr, N
    <3> QED OBVIOUS
  <2>2. n < N /\ n <= N /\ n <= MaxWalk /\ n + 1 \in 1..MaxWalk /\ n + 1 - 1 = n
    <3> HIDE DEF N
    <3> QED BY <1>0, <2>1
  <2>3. OnLine(walked[n], a, b, dc, dr, n)
    BY <1>8, <2>2
  <2>4. dc = Abs(b[1] - a[1]) /\ dr = Abs(b[2] - a[2]) /\ n < Longer(dc, dr)
    BY <2>2
  <2> HIDE DEF walked, dc, dr, T, N, c
  <2>5. walked[n].at # b /\ OnLine(Step(walked[n], a, b), a, b, dc, dr, n + 1)
    BY <1>0, <2>3, <2>4, WalkGoesOn
  <2>6. walked[n + 1] = IF walked[n].at = b THEN walked[n] ELSE Step(walked[n], a, b)
    BY <1>6, <2>2
  <2> QED BY <2>5, <2>6
<1>9. ASSUME NEW n \in Nat, n <= N, n <= MaxWalk PROVE OnLine(walked[n], a, b, dc, dr, n)
  <2> HIDE DEF T, N, walked, dc, dr
  <2>1. Nat \subseteq T
    BY <1>7, <1>8, SetInduction
  <2>2. n \in T
    BY <2>1
  <2> QED BY <1>9, <2>2 DEF T
<1>10. ASSUME N <= MaxWalk PROVE OnLine(walked[N], a, b, dc, dr, N) /\ walked[N].at = b
  <2>1. dc = Abs(b[1] - a[1]) /\ dr = Abs(b[2] - a[2]) /\ N = Longer(dc, dr)
    OBVIOUS
  <2> HIDE DEF walked, dc, dr, N
  <2>2. OnLine(walked[N], a, b, dc, dr, N)
    BY <1>0, <1>9, <1>10
  <2> QED BY <1>0, <2>1, <2>2, WalkArrives
<1>11. ASSUME N <= MaxWalk PROVE walked[MaxWalk] = walked[N]
  <2> HIDE DEF walked, dc, dr, N, c
  <2>1. 0 \in U
    BY <1>0
  <2>2. ASSUME NEW n \in Nat, n \in U PROVE n + 1 \in U
    <3>1. SUFFICES ASSUME N + (n + 1) <= MaxWalk PROVE walked[N + (n + 1)] = walked[N]
      OBVIOUS
    <3>2. PICK p \in 1..MaxWalk : p = N + (n + 1) /\ p - 1 = N + n /\ N + n <= MaxWalk
      BY <1>0, <3>1
    <3>3. walked[p - 1] = walked[N]
      BY <2>2, <3>2
    <3>4. walked[p] = walked[N]
      BY <1>6, <1>10, <1>11, <3>3
    <3> QED BY <3>2, <3>4
  <2> HIDE DEF U
  <2>3. Nat \subseteq U
    BY <2>1, <2>2, SetInduction
  <2>4. PICK q \in Nat : N + q = MaxWalk
    <3>1. MaxWalk - N \in Nat /\ N + (MaxWalk - N) = MaxWalk
      BY <1>0, <1>11
    <3> QED BY <3>1
  <2>5. q \in U
    BY <2>3
  <2> QED BY <1>0, <2>4, <2>5 DEF U
<1>12. PICK l \in Nat : /\ OnLine(walked[MaxWalk], a, b, dc, dr, l)
                        /\ N <= MaxWalk => l = N
  <2> HIDE DEF walked, dc, dr, N, c
  <2>1. CASE N <= MaxWalk
    BY <1>0, <1>10, <1>11, <2>1
  <2>2. CASE ~(N <= MaxWalk)
    BY <1>0, <1>9, <2>2
  <2> QED BY <2>1, <2>2
<1>13. /\ Walk(a, b) \in Seq(Places) /\ Len(Walk(a, b)) = l
       /\ \A k \in 1..l : Crossed(Walk(a, b)[k], a, b)
  <2> HIDE DEF walked, dc, dr, N, c
  <2> QED BY <1>5, <1>12 DEF OnLine, Walkers
<1>14. DOMAIN Walk(a, b) = 1..l
  BY <1>13
<1> HIDE DEF walked, c, N
<1>15. /\ \A k \in DOMAIN Walk(a, b) : Crossed(Walk(a, b)[k], a, b)
       /\ N <= MaxWalk => Len(Walk(a, b)) = N
  BY <1>12, <1>13, <1>14
<1> QED BY <1>15 DEF N

LEMMA CellsAreWhole == ASSUME NEW x \in Int PROVE CellOf(x) \in Int
BY DEF CellOf

LEMMA FitsMeans ==
  ASSUME BeamsFit, NEW from \in Lidars, NEW to \in Returns
  PROVE  Longer(Abs(CellOf(to[1]) - CellOf(from[1])),
                Abs(CellOf(to[2]) - CellOf(from[2]))) <= MaxWalk
BY DEF BeamsFit

\* A beam counts as passing only cells it crosses, and the file says what Value says.
CleanInv ==
  /\ seen \in [Cells -> Nat] /\ through \in [Cells -> Nat]
  /\ \A k \in Cells : seen[k] <= through[k]
  /\ beam.from \in Places /\ beam.to \in Places
  /\ BeamsFit => Longer(Abs(beam.to[1] - beam.from[1]), Abs(beam.to[2] - beam.from[2])) <= MaxWalk
  /\ pgm # <<>> => \A k \in Cells : pgm[<<FileRow(k[2]), k[1]>>] = Value(k)

LEMMA CleanStart == CleanInit => CleanInv
<1> SUFFICES ASSUME CleanInit PROVE CleanInv
  OBVIOUS
<1>1. Longer(Abs(0 - 0), Abs(0 - 0)) = 0 /\ MaxWalk \in Nat
  BY MapCleaningAssumption DEF Longer, Abs
<1> QED BY <1>1 DEF CleanInit, CleanInv, Places

LEMMA BeamStep ==
  ASSUME CleanInv, NEW from \in Lidars, NEW to \in Returns, Beam(from, to) PROVE CleanInv'
<1> DEFINE a == <<CellOf(from[1]), CellOf(from[2])>>
           b == <<CellOf(to[1]), CellOf(to[2])>>
<1>1. a \in Places /\ b \in Places
  <2>1. from[1] \in Int /\ from[2] \in Int /\ to[1] \in Int /\ to[2] \in Int
    BY MapCleaningAssumption
  <2> QED BY <2>1, CellsAreWhole DEF Places
<1>2. ASSUME NEW k \in ToSet(Passed(a, b)) PROVE Crossed(k, a, b)
  <2>1. PICK n \in DOMAIN Walk(a, b) : k = Walk(a, b)[n]
    BY DEF ToSet, Passed
  <2> HIDE DEF a, b
  <2> QED BY <1>1, <2>1, WalkCrosses
<1>3. /\ seen' = [k \in Cells |->
                      IF k \in Occ /\ k \in ToSet(Passed(a, b)) THEN seen[k] + 1 ELSE seen[k]]
      /\ through' = [k \in Cells |-> IF Crossed(k, a, b) THEN through[k] + 1 ELSE through[k]]
      /\ beam' = [from |-> a, to |-> b] /\ pgm' = <<>>
  BY DEF Beam
<1>4. /\ seen \in [Cells -> Nat] /\ through \in [Cells -> Nat]
      /\ \A k \in Cells : seen[k] <= through[k]
  BY DEF CleanInv
<1>5. BeamsFit => Longer(Abs(b[1] - a[1]), Abs(b[2] - a[2])) <= MaxWalk
  BY FitsMeans
<1> HIDE DEF a, b
<1>6. seen' \in [Cells -> Nat] /\ through' \in [Cells -> Nat]
  BY <1>3, <1>4
<1>7. \A k \in Cells : seen'[k] <= through'[k]
  BY <1>2, <1>3, <1>4
<1>8. beam'.from = a /\ beam'.to = b
  BY <1>3
<1> QED BY <1>1, <1>3, <1>5, <1>6, <1>7, <1>8 DEF CleanInv

LEMMA WriteStep == ASSUME CleanInv, Write PROVE CleanInv'
<1>1. UNCHANGED <<seen, hit, through, beam>>
  BY DEF Write
<1>2. \A k \in Cells : Value(k)' = Value(k)
  BY <1>1 DEF Value, Stale, Occ
<1>3. ASSUME NEW k \in Cells PROVE pgm'[<<FileRow(k[2]), k[1]>>] = Value(k)
  <2> DEFINE p == <<FileRow(k[2]), k[1]>>
  <2>0. MapHeight \in Nat
    BY MapCleaningAssumption
  <2>1. k[1] \in Columns /\ k[2] \in Rows /\ k = <<k[1], k[2]>>
    BY DEF Cells
  <2>2. p \in Rows \X Columns
    BY <2>0, <2>1 DEF Rows, FileRow
  <2>3. p[1] = FileRow(k[2]) /\ p[2] = k[1]
    OBVIOUS
  <2>4. \A r \in Rows : FileRow(r) = p[1] => r = k[2]
    BY <2>0, <2>1, <2>3 DEF Rows, FileRow
  <2>5. (CHOOSE r \in Rows : FileRow(r) = p[1]) = k[2]
    BY <2>1, <2>3, <2>4
  <2>6. pgm' = [q \in Rows \X Columns |->
                 LET r == CHOOSE r \in Rows : FileRow(r) = q[1] IN Value(<<q[2], r>>)]
    BY DEF Write
  <2>7. pgm'[p] = Value(<<p[2], CHOOSE r \in Rows : FileRow(r) = p[1]>>)
    <3> HIDE DEF p
    <3> QED BY <2>2, <2>6
  <2> QED BY <2>1, <2>3, <2>5, <2>7
<1> QED BY <1>1, <1>2, <1>3 DEF CleanInv, BeamsFit

LEMMA CleanStep == CleanInv /\ [CleanNext]_clean_vars => CleanInv'
<1> SUFFICES ASSUME CleanInv, [CleanNext]_clean_vars PROVE CleanInv'
  OBVIOUS
<1>1. CASE Write
  BY <1>1, WriteStep
<1>2. ASSUME NEW from \in Lidars, NEW to \in Returns, Beam(from, to) PROVE CleanInv'
  BY <1>2, BeamStep
<1>3. CASE UNCHANGED clean_vars
  BY <1>3 DEF clean_vars, CleanInv, Value, Stale, Occ, BeamsFit
<1> QED BY <1>1, <1>2, <1>3 DEF CleanNext

LEMMA SeenThrough == CleanInv => OnlySeenThroughErased
<1> SUFFICES ASSUME CleanInv, pgm # <<>>, NEW k \in Cells,
                    Loaded(k) # (IF Grid[k] >= 65 THEN 100 ELSE IF Grid[k] < 0 THEN -1 ELSE 0)
             PROVE  k \in Occ /\ Loaded(k) = 0 /\ through[k] >= MinSeen
  BY DEF OnlySeenThroughErased
<1>1. Grid[k] \in Int /\ MinSeen \in Nat
  <2>1. Grid \in [Cells -> -1..100] /\ MinSeen \in {MapWidth, MapHeight, MinSeen}
    BY MapCleaningAssumption
  <2>2. Grid[k] \in -1..100
    BY <2>1
  <2>3. \A g \in -1..100 : g \in Int
    OBVIOUS
  <2>4. MinSeen \in Nat
    BY MapCleaningAssumption
  <2> QED BY <2>2, <2>3, <2>4
<1>2. pgm[<<MapHeight - 1 - k[2], k[1]>>] = Value(k)
  BY DEF CleanInv, FileRow
<1>3. k \in Stale /\ Loaded(k) = 0
  BY <1>1, <1>2 DEF Loaded, Value
<1>4. seen[k] \in Nat /\ through[k] \in Nat /\ seen[k] <= through[k]
  BY DEF CleanInv
<1> QED BY <1>1, <1>3, <1>4 DEF Stale

LEMMA BeamIsWalked == CleanInv /\ BeamsFit => WalkIsLine
<1> SUFFICES ASSUME CleanInv, BeamsFit PROVE WalkIsLine
  OBVIOUS
<1> DEFINE a == beam.from
           b == beam.to
<1>1. a \in Places /\ b \in Places /\ Longer(Abs(b[1] - a[1]), Abs(b[2] - a[2])) <= MaxWalk
  BY DEF CleanInv
<1>2. /\ Len(Walk(a, b)) = Longer(Abs(b[1] - a[1]), Abs(b[2] - a[2]))
      /\ \A k \in DOMAIN Walk(a, b) : Crossed(Walk(a, b)[k], a, b)
  <2> HIDE DEF a, b
  <2> QED BY <1>1, WalkCrosses
<1> QED BY <1>2 DEF WalkIsLine, Longer

LEMMA CleanInvariance == CleanSpec => []CleanInv
<1>1. CleanInit => CleanInv
  BY CleanStart
<1>2. CleanInv /\ [CleanNext]_clean_vars => CleanInv'
  BY CleanStep
<1> QED BY <1>1, <1>2, PTL DEF CleanSpec

\* clean_map_from_bag.py: whatever the beams, also those that are cut off, what the
\* new map has lost was crossed by MinSeen beams that went on.
THEOREM ErasedWasSeenThrough == CleanSpec => []OnlySeenThroughErased
<1>1. CleanInv => OnlySeenThroughErased
  BY SeenThrough
<1> QED BY <1>1, CleanInvariance, PTL

\* ... and if no beam is cut off, each is walked along its whole line.
THEOREM WallsStay == BeamsFit => (CleanSpec => []ErasesNoWall)
<1> SUFFICES ASSUME BeamsFit PROVE CleanSpec => []ErasesNoWall
  OBVIOUS
<1>1. CleanInv => ErasesNoWall
  BY SeenThrough, BeamIsWalked DEF ErasesNoWall
<1> QED BY <1>1, CleanInvariance, PTL

(***************************************************************************)
(* ArenaRaster: the samples of a pixel lie at most a wall's width apart.   *)
(***************************************************************************)

\* The geometry of the file: three samples to a pixel, a map of whole pixels, and
\* the walls and every obstacle on it.
ArenaFits ==
  /\ SubSample = 3 /\ WallT <= Margin
  /\ (HalfX + Margin) % 3 = 0 /\ (HalfY + Margin) % 3 = 0
  /\ \A c \in Corners : /\ -(HalfX + Margin) <= c /\ c <= HalfX + Margin
                        /\ -(HalfY + Margin) <= c /\ c <= HalfY + Margin

LEMMA ArenaConstants ==
  /\ SubSample \in Nat /\ HalfX \in Nat /\ HalfY \in Nat /\ WallT \in Nat /\ Margin \in Nat
  /\ HalfX > 0 /\ HalfY > 0 /\ WallT > 0 /\ Margin > 0 /\ Corners \subseteq Int
BY ArenaAssumption

LEMMA WholePixels ==
  ASSUME NEW a \in Nat, a % 3 = 0
  PROVE  (2 * a) \div 6 \in Nat /\ 2 * a = 6 * ((2 * a) \div 6)
OBVIOUS

\* The map is as large as what is drawn, and has whole pixels.
LEMMA MapSize ==
  ASSUME ArenaFits
  PROVE  /\ WIDTH \in Nat /\ 2 * (HalfX + Margin) = 6 * WIDTH
         /\ HEIGHT \in Nat /\ 2 * (HalfY + Margin) = 6 * HEIGHT
         /\ Res = 6 /\ Off = {-1, 1, 3}
<1> USE ArenaConstants
<1>1. Res = 6
  BY DEF ArenaFits, Res
<1>2. WIDTH \in Nat /\ 2 * (HalfX + Margin) = 6 * WIDTH
  BY <1>1, WholePixels DEF ArenaFits, WIDTH
<1>3. HEIGHT \in Nat /\ 2 * (HalfY + Margin) = 6 * HEIGHT
  BY <1>1, WholePixels DEF ArenaFits, HEIGHT
<1>4. Off = {-1, 1, 3}
  <2>1. Off = {2 * k - 1 : k \in 0..2}
    BY DEF ArenaFits, Off
  <2>2. 0..2 = {0, 1, 2}
    OBVIOUS
  <2>3. \A x : x \in Off <=> \E k \in {0, 1, 2} : x = 2 * k - 1
    BY <2>1, <2>2
  <2>4. \A x : x \in Off <=> x = 2 * 0 - 1 \/ x = 2 * 1 - 1 \/ x = 2 * 2 - 1
    BY <2>3
  <2>5. 2 * 0 - 1 = -1 /\ 2 * 1 - 1 = 1 /\ 2 * 2 - 1 = 3
    OBVIOUS
  <2> QED BY <2>4, <2>5
<1> QED BY <1>1, <1>2, <1>3, <1>4

\* An obstacle that lies on the map; a cylinder has a centre.
OnMap(b) ==
  /\ b.x1 \in Int /\ b.y1 \in Int /\ b.x2 \in Int /\ b.y2 \in Int
  /\ -(HalfX + Margin) <= b.x1 /\ b.x2 <= HalfX + Margin
  /\ -(HalfY + Margin) <= b.y1 /\ b.y2 <= HalfY + Margin
  /\ b.kind # "box" => \E x \in Int, y \in Int, r \in Nat : b = Cyl(x, y, r)

DrawnInv ==
  /\ \A b \in World : OnMap(b)
  /\ px # <<>> => px = [p \in Pixels |-> Pixel(p)]

LEMMA WallsOnMap ==
  ASSUME ArenaFits, NEW b \in Perimeter PROVE OnMap(b)
BY ArenaConstants DEF ArenaFits, Perimeter, Box, OnMap

LEMMA CornersOnMap ==
  ASSUME ArenaFits, NEW x1 \in Corners, NEW y1 \in Corners, NEW x2 \in Corners, NEW y2 \in Corners
  PROVE  OnMap(Box(x1, y1, x2, y2))
BY ArenaConstants DEF ArenaFits, Box, OnMap

LEMMA CylOnMap ==
  ASSUME ArenaFits, NEW x \in Corners, NEW y \in Corners, NEW r \in 1..HalfX,
         {x - r, x + r, y - r, y + r} \subseteq Corners
  PROVE  OnMap(Cyl(x, y, r))
<1>1. x \in Int /\ y \in Int /\ r \in Nat
  BY ArenaConstants
<1>2. /\ -(HalfX + Margin) <= x - r /\ x + r <= HalfX + Margin
      /\ -(HalfY + Margin) <= y - r /\ y + r <= HalfY + Margin
  BY DEF ArenaFits
<1>3. \E u \in Int, v \in Int, q \in Nat : Cyl(x, y, r) = Cyl(u, v, q)
  BY <1>1
<1> DEFINE b == Cyl(x, y, r)
<1>4. b.x1 = x - r /\ b.y1 = y - r /\ b.x2 = x + r /\ b.y2 = y + r
  BY DEF Cyl
<1>5. b.x1 \in Int /\ b.y1 \in Int /\ b.x2 \in Int /\ b.y2 \in Int
  BY <1>1, <1>4
<1> HIDE DEF b
<1>6. b.kind # "box" => \E u \in Int, v \in Int, q \in Nat : b = Cyl(u, v, q)
  BY <1>3 DEF b
<1>7. OnMap(b)
  BY <1>2, <1>4, <1>5, <1>6 DEF OnMap
<1> QED BY <1>7 DEF b

\* An obstacle that is wide enough has a rectangle in it as wide as a step.
LEMMA Core ==
  ASSUME NEW b, OnMap(b), Wide(b)
  PROVE  \E x1, y1, x2, y2 \in Int :
           /\ b.x1 <= x1 /\ x2 <= b.x2 /\ b.y1 <= y1 /\ y2 <= b.y2
           /\ x2 - x1 >= 2 /\ y2 - y1 >= 2
           /\ \A x, y \in Int : x1 <= x /\ x <= x2 /\ y1 <= y /\ y <= y2 => Inside(b, x, y)
<1>1. CASE b.kind = "box"
  <2>1. b.x1 \in Int /\ b.y1 \in Int /\ b.x2 \in Int /\ b.y2 \in Int
    BY DEF OnMap
  <2>2. b.x2 - b.x1 >= 2 /\ b.y2 - b.y1 >= 2
    BY <1>1 DEF Wide
  <2>3. \A x, y \in Int : b.x1 <= x /\ x <= b.x2 /\ b.y1 <= y /\ y <= b.y2 => Inside(b, x, y)
    BY <1>1 DEF Inside
  <2>4. b.x1 <= b.x1 /\ b.x2 <= b.x2 /\ b.y1 <= b.y1 /\ b.y2 <= b.y2
    BY <2>1
  <2> QED BY <2>1, <2>2, <2>3, <2>4
<1>2. CASE b.kind # "box"
  <2>1. PICK u \in Int, v \in Int, r \in Nat : b = Cyl(u, v, r)
    BY <1>2 DEF OnMap
  <2>2. b.x1 = u - r /\ b.x2 = u + r /\ b.y1 = v - r /\ b.y2 = v + r
    BY <2>1 DEF Cyl
  <2>3. r >= 2
    BY <1>2, <2>2 DEF Wide
  <2>4. /\ b.x1 <= u - 1 /\ u + 1 <= b.x2 /\ b.y1 <= v - 1 /\ v + 1 <= b.y2
        /\ (u + 1) - (u - 1) >= 2 /\ (v + 1) - (v - 1) >= 2
        /\ u - 1 \in Int /\ u + 1 \in Int /\ v - 1 \in Int /\ v + 1 \in Int
    BY <2>2, <2>3
  <2>5. ASSUME NEW x \in Int, NEW y \in Int, u - 1 <= x, x <= u + 1, v - 1 <= y, y <= v + 1
        PROVE  Inside(b, x, y)
    <3>1. 2 * x - (b.x1 + b.x2) \in {-2, 0, 2} /\ 2 * y - (b.y1 + b.y2) \in {-2, 0, 2}
      <4>1. x \in {u - 1, u, u + 1} /\ y \in {v - 1, v, v + 1}
        BY <2>5
      <4>2. b.x1 + b.x2 = 2 * u /\ b.y1 + b.y2 = 2 * v
        BY <2>2
      <4> QED BY <4>1, <4>2
    <3>2. Square(2 * x - (b.x1 + b.x2)) <= 4 /\ Square(2 * y - (b.y1 + b.y2)) <= 4
      BY <3>1 DEF Square
    <3>3. Square(2 * x - (b.x1 + b.x2)) \in Int /\ Square(2 * y - (b.y1 + b.y2)) \in Int
      BY <3>1 DEF Square
    <3>4. Square(b.x2 - b.x1) \in Int /\ 16 <= Square(b.x2 - b.x1)
      <4>1. b.x2 - b.x1 = 2 * r
        BY <2>2
      <4>2. (2 * r) * (2 * r) \in Int /\ 16 <= (2 * r) * (2 * r)
        <5>1. 4 <= 2 * r /\ 2 * r \in Nat
          BY <2>3
        <5>2. \A m \in Nat : 4 <= m => m * m \in Int /\ 16 <= m * m
          OBVIOUS
        <5> QED BY <5>1, <5>2
      <4> QED BY <4>1, <4>2 DEF Square
    <3> QED BY <1>2, <3>2, <3>3, <3>4 DEF Inside
  <2> QED BY <2>4, <2>5
<1> QED BY <1>1, <1>2

\* Between two coordinates a step apart there is a sample of some pixel.
LEMMA SampleBetween ==
  ASSUME NEW a \in Nat, NEW w \in Nat, 2 * a = 6 * w, NEW u \in Int, NEW v \in Int,
         -a <= u, v <= a, v - u >= 2
  PROVE  \E c \in 0..(w - 1), d \in {-1, 1, 3} :
           u <= -a + c * 6 + 3 + d /\ -a + c * 6 + 3 + d <= v
<1> DEFINE j == IF u = -a THEN 1 ELSE (u + a + 1) \div 2
           c == (j - 1) \div 3
           d == 2 * ((j - 1) % 3) - 1
<1>1. j \in Int /\ 1 <= j /\ j <= a /\ u <= -a + 2 * j /\ -a + 2 * j <= v
  OBVIOUS
<1>2. c \in 0..(w - 1) /\ j - 1 = 3 * c + ((j - 1) % 3) /\ (j - 1) % 3 \in {0, 1, 2}
  <2> HIDE DEF j
  <2> QED BY <1>1
<1>3. d \in {-1, 1, 3} /\ c * 6 + 3 + d = 2 * j
  <2>1. c \in Int /\ j \in Int
    BY <1>1, <1>2
  <2>2. CASE (j - 1) % 3 = 0
    <3> HIDE DEF j, c
    <3> QED BY <1>2, <2>1, <2>2
  <2>3. CASE (j - 1) % 3 = 1
    <3> HIDE DEF j, c
    <3> QED BY <1>2, <2>1, <2>3
  <2>4. CASE (j - 1) % 3 = 2
    <3> HIDE DEF j, c
    <3> QED BY <1>2, <2>1, <2>4
  <2> QED BY <1>2, <2>2, <2>3, <2>4
<1> HIDE DEF j, c, d
<1>4. u <= -a + c * 6 + 3 + d /\ -a + c * 6 + 3 + d <= v
  <2>1. -a + c * 6 + 3 + d = -a + 2 * j
    BY <1>1, <1>2, <1>3
  <2> QED BY <1>1, <2>1
<1> QED BY <1>2, <1>3, <1>4

\* Where a pixel is, with three samples.
LEMMA PixelPlace ==
  ASSUME ArenaFits, NEW p \in Pixels
  PROVE  /\ p[1] \in 0..(HEIGHT - 1) /\ p[2] \in 0..(WIDTH - 1)
         /\ p[1] \in Int /\ p[2] \in Int
         /\ CentreX(p[2]) = -(HalfX + Margin) + p[2] * 6 + 3
         /\ CentreY(p[1]) = -(HalfY + Margin) + (HEIGHT - 1 - p[1]) * 6 + 3
         /\ CentreX(p[2]) \in Int /\ CentreY(p[1]) \in Int
         /\ Edge(p) = Box(CentreX(p[2]) - 3, CentreY(p[1]) - 3,
                          CentreX(p[2]) + 3, CentreY(p[1]) + 3)
<1>1. /\ p[1] \in 0..(HEIGHT - 1) /\ p[2] \in 0..(WIDTH - 1)
  BY DEF Pixels
<1>2. p[1] \in Int /\ p[2] \in Int /\ WIDTH \in Nat /\ HEIGHT \in Nat /\ Res = 6 /\ SubSample = 3
  BY <1>1, MapSize DEF ArenaFits
<1>3. /\ CentreX(p[2]) = -(HalfX + Margin) + p[2] * 6 + 3
      /\ CentreY(p[1]) = -(HalfY + Margin) + (HEIGHT - 1 - p[1]) * 6 + 3
  BY <1>2 DEF CentreX, CentreY
<1>4. CentreX(p[2]) \in Int /\ CentreY(p[1]) \in Int
  BY <1>2, <1>3, ArenaConstants
<1>5. /\ p[2] * Res - (HalfX + Margin) = CentreX(p[2]) - 3
      /\ p[2] * Res - (HalfX + Margin) + Res = CentreX(p[2]) + 3
      /\ (HEIGHT - 1 - p[1]) * Res - (HalfY + Margin) = CentreY(p[1]) - 3
      /\ (HEIGHT - 1 - p[1]) * Res - (HalfY + Margin) + Res = CentreY(p[1]) + 3
  BY <1>2, <1>3, ArenaConstants
<1>6. Edge(p) = Box(CentreX(p[2]) - 3, CentreY(p[1]) - 3, CentreX(p[2]) + 3, CentreY(p[1]) + 3)
  BY <1>5 DEF Edge
<1> QED BY <1>1, <1>2, <1>3, <1>4, <1>6

\* A sample inside an obstacle is a point the pixel shares with it.
LEMMA SampleMeets ==
  ASSUME ArenaFits, NEW b, NEW p \in Pixels, NEW dx \in {-1, 1, 3}, NEW dy \in {-1, 1, 3},
         Inside(b, CentreX(p[2]) + dx, CentreY(p[1]) + dy)
  PROVE  Meet(Edge(p), b)
<1>1. /\ CentreX(p[2]) \in Int /\ CentreY(p[1]) \in Int
      /\ Edge(p) = Box(CentreX(p[2]) - 3, CentreY(p[1]) - 3, CentreX(p[2]) + 3, CentreY(p[1]) + 3)
  BY PixelPlace
<1>2. /\ CentreX(p[2]) + dx \in (CentreX(p[2]) - 3)..(CentreX(p[2]) + 3)
      /\ CentreY(p[1]) + dy \in (CentreY(p[1]) - 3)..(CentreY(p[1]) + 3)
  BY <1>1
<1> QED BY <1>1, <1>2 DEF Meet, Box

\* An obstacle that is wide enough leaves a pixel.
LEMMA ObstacleDrawn ==
  ASSUME ArenaFits, NEW b \in World, OnMap(b), Wide(b)
  PROVE  \E p \in Pixels : Sampled(p) /\ Meet(Edge(p), b)
<1> USE ArenaConstants
<1>0. HalfX + Margin \in Nat /\ HalfY + Margin \in Nat
  OBVIOUS
<1>a. PICK x1, y1, x2, y2 \in Int :
        /\ b.x1 <= x1 /\ x2 <= b.x2 /\ b.y1 <= y1 /\ y2 <= b.y2
        /\ x2 - x1 >= 2 /\ y2 - y1 >= 2
        /\ \A x, y \in Int : x1 <= x /\ x <= x2 /\ y1 <= y /\ y <= y2 => Inside(b, x, y)
  BY Core
<1>b. /\ -(HalfX + Margin) <= x1 /\ x2 <= HalfX + Margin
      /\ -(HalfY + Margin) <= y1 /\ y2 <= HalfY + Margin
  BY <1>a DEF OnMap
<1>1. PICK c \in 0..(WIDTH - 1), dx \in {-1, 1, 3} :
        /\ x1 <= -(HalfX + Margin) + c * 6 + 3 + dx
        /\ -(HalfX + Margin) + c * 6 + 3 + dx <= x2
  BY <1>0, <1>a, <1>b, MapSize, SampleBetween
<1>2. PICK h \in 0..(HEIGHT - 1), dy \in {-1, 1, 3} :
        /\ y1 <= -(HalfY + Margin) + h * 6 + 3 + dy
        /\ -(HalfY + Margin) + h * 6 + 3 + dy <= y2
  BY <1>0, <1>a, <1>b, MapSize, SampleBetween
<1> DEFINE p == <<HEIGHT - 1 - h, c>>
<1>3. p \in Pixels /\ p[1] = HEIGHT - 1 - h /\ p[2] = c /\ HEIGHT - 1 - p[1] = h
  BY MapSize DEF Pixels
<1> HIDE DEF p
<1>4. /\ CentreX(p[2]) = -(HalfX + Margin) + c * 6 + 3
      /\ CentreY(p[1]) = -(HalfY + Margin) + h * 6 + 3
      /\ CentreX(p[2]) + dx \in Int /\ CentreY(p[1]) + dy \in Int
  BY <1>3, PixelPlace
<1>5. Inside(b, CentreX(p[2]) + dx, CentreY(p[1]) + dy)
  BY <1>a, <1>1, <1>2, <1>4
<1>6. Sampled(p)
  BY <1>5, MapSize DEF Sampled
<1>7. Meet(Edge(p), b)
  BY <1>3, <1>5, SampleMeets
<1> QED BY <1>3, <1>6, <1>7

\* A pixel that was hit touches the obstacle that hit it.
LEMMA HitTouches ==
  ASSUME ArenaFits, NEW p \in Pixels, Sampled(p)
  PROVE  \E b \in World : Meet(Edge(p), b)
<1>1. PICK b \in World, dx \in Off, dy \in Off : Inside(b, CentreX(p[2]) + dx, CentreY(p[1]) + dy)
  BY DEF Sampled
<1>2. dx \in {-1, 1, 3} /\ dy \in {-1, 1, 3}
  BY MapSize
<1>3. Meet(Edge(p), b)
  BY <1>1, <1>2, SampleMeets
<1> QED BY <1>3

\* A pixel of the interior that was not hit is clear of all four walls.
LEMMA FreeIsClear ==
  ASSUME ArenaFits, NEW p \in Pixels, Interior(p), ~Sampled(p)
  PROVE  /\ -HalfX < CentreX(p[2]) - 1 /\ CentreX(p[2]) + 3 < HalfX
         /\ -HalfY < CentreY(p[1]) - 1 /\ CentreY(p[1]) + 3 < HalfY
<1> USE ArenaConstants
<1> DEFINE x == CentreX(p[2])
           y == CentreY(p[1])
           ox == HalfX + WallT
           oy == HalfY + WallT
<1>1. x \in Int /\ y \in Int
  BY PixelPlace
<1>2. -ox < x /\ x < ox /\ -oy < y /\ y < oy
  BY DEF Interior
<1>3. ASSUME NEW b \in Perimeter, NEW dx \in {-1, 1, 3}, NEW dy \in {-1, 1, 3}
      PROVE  ~Inside(b, x + dx, y + dy)
  BY <1>3, MapSize DEF Sampled, World
<1>4. WallT >= 1
  OBVIOUS
<1> HIDE DEF x, y
<1>5. ASSUME NEW dx \in {-1, 1, 3}
      PROVE  /\ ~(HalfX <= x + dx /\ x + dx <= ox) /\ ~(-ox <= x + dx /\ x + dx <= -HalfX)
  <2>1. Box(HalfX, -oy, ox, oy) \in Perimeter /\ Box(-ox, -oy, -HalfX, oy) \in Perimeter
    BY DEF Perimeter
  <2>2. /\ ~Inside(Box(HalfX, -oy, ox, oy), x + dx, y + (-1))
        /\ ~Inside(Box(-ox, -oy, -HalfX, oy), x + dx, y + (-1))
    BY <1>3, <2>1
  <2>3. -oy <= y + (-1) /\ y + (-1) <= oy
    BY <1>1, <1>2
  <2> QED BY <2>2, <2>3 DEF Inside, Box
<1>6. ASSUME NEW dy \in {-1, 1, 3}
      PROVE  /\ ~(HalfY <= y + dy /\ y + dy <= oy) /\ ~(-oy <= y + dy /\ y + dy <= -HalfY)
  <2>1. Box(-ox, HalfY, ox, oy) \in Perimeter /\ Box(-ox, -oy, ox, -HalfY) \in Perimeter
    BY DEF Perimeter
  <2>2. /\ ~Inside(Box(-ox, HalfY, ox, oy), x + (-1), y + dy)
        /\ ~Inside(Box(-ox, -oy, ox, -HalfY), x + (-1), y + dy)
    BY <1>3, <2>1
  <2>3. -ox <= x + (-1) /\ x + (-1) <= ox
    BY <1>1, <1>2
  <2> QED BY <2>2, <2>3 DEF Inside, Box
<1>7. -HalfX < x - 1 /\ x + 3 < HalfX
  BY <1>1, <1>2, <1>4, <1>5
<1>8. -HalfY < y - 1 /\ y + 3 < HalfY
  BY <1>1, <1>2, <1>4, <1>6
<1> QED BY <1>7, <1>8 DEF x, y

\* What is next to such a pixel is inside or was hit.
LEMMA NoGap ==
  ASSUME ArenaFits, NEW p \in Pixels, Interior(p), ~Sampled(p), NEW q \in Pixels,
         NEW dr \in -1..1, NEW dc \in -1..1, q = <<p[1] + dr, p[2] + dc>>
  PROVE  Interior(q) \/ Sampled(q)
<1> USE ArenaConstants
<1> DEFINE x == CentreX(p[2])
           y == CentreY(p[1])
           u == CentreX(q[2])
           v == CentreY(q[1])
           ox == HalfX + WallT
           oy == HalfY + WallT
<1>1. x \in Int /\ y \in Int /\ u \in Int /\ v \in Int
  BY PixelPlace
<1>2. u = x + 6 * dc /\ v = y - 6 * dr
  <2>1. q[1] = p[1] + dr /\ q[2] = p[2] + dc
    OBVIOUS
  <2>2. /\ p[1] \in Int /\ p[2] \in Int /\ HEIGHT \in Int
        /\ x = -(HalfX + Margin) + p[2] * 6 + 3
        /\ y = -(HalfY + Margin) + (HEIGHT - 1 - p[1]) * 6 + 3
        /\ u = -(HalfX + Margin) + q[2] * 6 + 3
        /\ v = -(HalfY + Margin) + (HEIGHT - 1 - q[1]) * 6 + 3
    BY PixelPlace, MapSize
  <2> HIDE DEF x, y, u, v
  <2> QED BY <2>1, <2>2
<1>3. -HalfX < x - 1 /\ x + 3 < HalfX /\ -HalfY < y - 1 /\ y + 3 < HalfY
  BY FreeIsClear
<1>4. ASSUME NEW b \in Perimeter, NEW dx \in {-1, 1, 3}, NEW dy \in {-1, 1, 3},
             Inside(b, u + dx, v + dy)
      PROVE  Sampled(q)
  BY <1>4, MapSize DEF Sampled, World
<1>5. WallT >= 1
  OBVIOUS
<1>6. Interior(q) <=> -ox < u /\ u < ox /\ -oy < v /\ v < oy
  BY DEF Interior
<1> HIDE DEF x, y, u, v
<1>7. dc \in {-1, 0, 1} /\ dr \in {-1, 0, 1}
  OBVIOUS
\* Whatever dc and dr, one sample of q is within the outer faces.
<1>8. PICK dx \in {-1, 1, 3} :
        /\ -ox <= u + dx /\ u + dx <= ox
        /\ (u >= ox => HalfX <= u + dx) /\ (u <= -ox => u + dx <= -HalfX)
  <2>1. CASE u >= ox
    BY <1>1, <1>2, <1>3, <1>5, <1>7, <2>1
  <2>2. CASE u <= -ox
    BY <1>1, <1>2, <1>3, <1>5, <1>7, <2>2
  <2>3. CASE -ox < u /\ u < ox
    BY <1>1, <2>3
  <2> QED BY <1>1, <2>1, <2>2, <2>3
<1>9. PICK dy \in {-1, 1, 3} :
        /\ -oy <= v + dy /\ v + dy <= oy
        /\ (v >= oy => HalfY <= v + dy) /\ (v <= -oy => v + dy <= -HalfY)
  <2>1. CASE v >= oy
    BY <1>1, <1>2, <1>3, <1>5, <1>7, <2>1
  <2>2. CASE v <= -oy
    BY <1>1, <1>2, <1>3, <1>5, <1>7, <2>2
  <2>3. CASE -oy < v /\ v < oy
    BY <1>1, <2>3
  <2> QED BY <1>1, <2>1, <2>2, <2>3
<1>p. /\ Box(HalfX, -oy, ox, oy) \in Perimeter /\ Box(-ox, -oy, -HalfX, oy) \in Perimeter
      /\ Box(-ox, HalfY, ox, oy) \in Perimeter /\ Box(-ox, -oy, ox, -HalfY) \in Perimeter
  BY DEF Perimeter
<1>10. CASE u >= ox
  <2>1. Inside(Box(HalfX, -oy, ox, oy), u + dx, v + dy)
    BY <1>8, <1>9, <1>10 DEF Inside, Box
  <2> QED BY <1>4, <1>p, <2>1
<1>11. CASE u <= -ox
  <2>1. Inside(Box(-ox, -oy, -HalfX, oy), u + dx, v + dy)
    BY <1>8, <1>9, <1>11 DEF Inside, Box
  <2> QED BY <1>4, <1>p, <2>1
<1>12. CASE v >= oy
  <2>1. Inside(Box(-ox, HalfY, ox, oy), u + dx, v + dy)
    BY <1>8, <1>9, <1>12 DEF Inside, Box
  <2> QED BY <1>4, <1>p, <2>1
<1>13. CASE v <= -oy
  <2>1. Inside(Box(-ox, -oy, ox, -HalfY), u + dx, v + dy)
    BY <1>8, <1>9, <1>13 DEF Inside, Box
  <2> QED BY <1>4, <1>p, <2>1
<1>14. CASE -ox < u /\ u < ox /\ -oy < v /\ v < oy
  BY <1>6, <1>14
<1> QED BY <1>1, <1>10, <1>11, <1>12, <1>13, <1>14

LEMMA DrawnStep == ArenaFits => (DrawnInv /\ [ArenaNext]_arena_vars => DrawnInv')
<1> SUFFICES ASSUME ArenaFits, DrawnInv, [ArenaNext]_arena_vars PROVE DrawnInv'
  OBVIOUS
<1>1. CASE WriteMap
  <2>1. World' = World /\ px' = [p \in Pixels |-> Pixel(p)]
    BY <1>1 DEF WriteMap, World
  <2>2. \A p \in Pixels : Pixel(p)' = Pixel(p)
    BY <2>1 DEF Pixel, Sampled
  <2> QED BY <2>1, <2>2 DEF DrawnInv
<1>2. ASSUME NEW x1 \in Corners, NEW y1 \in Corners, NEW x2 \in Corners, NEW y2 \in Corners,
             Edit(Box(x1, y1, x2, y2))
      PROVE  DrawnInv'
  <2>1. World' = World \cup {Box(x1, y1, x2, y2)} /\ px' = <<>>
    BY <1>2 DEF Edit, World
  <2> QED BY <2>1, CornersOnMap DEF DrawnInv
<1>3. ASSUME NEW x \in Corners, NEW y \in Corners, NEW r \in 1..HalfX,
             {x - r, x + r, y - r, y + r} \subseteq Corners, Edit(Cyl(x, y, r))
      PROVE  DrawnInv'
  <2>1. World' = World \cup {Cyl(x, y, r)} /\ px' = <<>>
    BY <1>3 DEF Edit, World
  <2>2. OnMap(Cyl(x, y, r))
    BY <1>3, CylOnMap
  <2> QED BY <2>1, <2>2 DEF DrawnInv
<1>4. CASE UNCHANGED arena_vars
  <2>1. World' = World /\ px' = px
    BY <1>4 DEF arena_vars, World
  <2>2. \A p \in Pixels : Pixel(p)' = Pixel(p)
    BY <2>1 DEF Pixel, Sampled
  <2> QED BY <2>1, <2>2 DEF DrawnInv
<1> QED BY <1>1, <1>2, <1>3, <1>4 DEF ArenaNext

\* For every size of the arena, thickness of the walls and list of obstacles that
\* fit, what write_map draws is what the world file builds: no obstacle is missing,
\* nothing is there that is not in the world, and the free space is closed.
THEOREM MapMatchesWorld == ArenaFits => (ArenaSpec => []MapIsTheWorld)
<1> SUFFICES ASSUME ArenaFits PROVE ArenaSpec => []MapIsTheWorld
  OBVIOUS
<1>1. ArenaInit => DrawnInv
  BY WallsOnMap DEF ArenaInit, DrawnInv, World
<1>2. DrawnInv => MapIsTheWorld
  <2> SUFFICES ASSUME DrawnInv, px # <<>> PROVE MapIsTheWorld
    BY DEF MapIsTheWorld, WorldAndMapAgree, WallsAreClosed
  <2>1. px = [p \in Pixels |-> Pixel(p)] /\ \A b \in World : OnMap(b)
    BY DEF DrawnInv
  <2>2. \A p \in Pixels : px[p] = Pixel(p)
    BY <2>1
  <2>3. \A p \in Pixels : px[p] = "OCC" <=> Sampled(p)
    BY <2>2 DEF Pixel
  <2>4. WorldAndMapAgree
    BY <2>1, <2>3, ObstacleDrawn, HitTouches DEF WorldAndMapAgree
  <2>5. \A p \in Pixels : px[p] = "FREE" => Interior(p) /\ ~Sampled(p)
    BY <2>2 DEF Pixel
  <2>6. \A p \in Pixels : px[p] = "UNKNOWN" => ~Interior(p) /\ ~Sampled(p)
    BY <2>2 DEF Pixel
  <2>7. WallsAreClosed
    BY <2>5, <2>6, NoGap DEF WallsAreClosed
  <2> QED BY <2>4, <2>7 DEF MapIsTheWorld
<1> QED BY <1>1, <1>2, DrawnStep, PTL DEF ArenaSpec

(***************************************************************************)
(* PlanMetrics: the loop cuts at the cusps and nowhere else, so that what  *)
(* is counted in the pieces is said of the plan; and the plan driven back  *)
(* has its cusps and its bends at the same places.                         *)
(***************************************************************************)

Cutting == [runs : Seq(Seq(Places)), cur : Seq(Places)]

\* The first n points of p have been cut at the cusps among them, at[2], at[3], ...
CutSoFar(p, s, n, at) ==
  /\ s \in Cutting /\ at \in [1..Len(s.runs) + 1 -> 1..n] /\ at[1] = 1
  /\ \A k \in 1..Len(s.runs) : at[k] < at[k + 1] /\ s.runs[k] = SubSeq(p, at[k], at[k + 1])
  /\ s.cur = SubSeq(p, at[Len(s.runs) + 1], n)
  /\ {at[k] : k \in 2..Len(s.runs) + 1} = {i \in Cusps(p) : i <= n}

LEMMA PointAdded ==
  ASSUME NEW p \in Seq(Places), NEW n \in 1..Len(p) - 1, NEW a \in 1..n
  PROVE  Append(SubSeq(p, a, n), p[n + 1]) = SubSeq(p, a, n + 1)
<1>1. a \in 1..Len(p) /\ n + 1 \in a..Len(p) /\ n + 1 - 1 = n
  OBVIOUS
<1>2. SubSeq(p, a, n + 1) = SubSeq(p, a, n) \o <<p[n + 1]>>
  BY <1>1, SubSeqRecursiveSecond
<1>3. SubSeq(p, a, n) \in Seq(Places) /\ p[n + 1] \in Places
  OBVIOUS
<1> HIDE DEF Places
<1>4. Append(SubSeq(p, a, n), p[n + 1]) = SubSeq(p, a, n) \o <<p[n + 1]>>
  BY <1>3
<1> QED BY <1>2, <1>4

LEMMA OnePoint ==
  ASSUME NEW p \in Seq(Places), NEW n \in 1..Len(p)
  PROVE  SubSeq(p, n, n) = <<p[n]>>
<1>1. p[n] \in Places
  OBVIOUS
<1>2. /\ SubSeq(p, n, n) \in Seq(Places) /\ Len(SubSeq(p, n, n)) = 1
      /\ SubSeq(p, n, n)[1] = p[n]
  OBVIOUS
<1>3. <<p[n]>> \in Seq(Places) /\ Len(<<p[n]>>) = 1 /\ <<p[n]>>[1] = p[n]
  BY <1>1
<1> DEFINE s == SubSeq(p, n, n)
           t == <<p[n]>>
<1>4. s \in Seq(Places) /\ t \in Seq(Places) /\ Len(s) = Len(t) /\ \A i \in 1..Len(s) : s[i] = t[i]
  BY <1>2, <1>3
<1> HIDE DEF s, t
<1>5. s = t
  BY <1>4, SeqEqual
<1> QED BY <1>5 DEF s, t

LEMMA CutStarts ==
  ASSUME NEW p \in Seq(Places), Len(p) >= 2
  PROVE  CutSoFar(p, [runs |-> <<>>, cur |-> <<p[1]>>], 1, [k \in 1..1 |-> 1])
<1> DEFINE s == [runs |-> <<>>, cur |-> <<p[1]>>]
           at == [k \in 1..1 |-> 1]
<1>1. p[1] \in Places /\ 1 \in 1..Len(p)
  OBVIOUS
<1>2. s.runs = <<>> /\ s.cur = <<p[1]>> /\ Len(s.runs) = 0
  OBVIOUS
<1>3. s \in Cutting
  <2>1. <<>> \in Seq(Seq(Places)) /\ <<p[1]>> \in Seq(Places)
    BY <1>1
  <2> QED BY <2>1 DEF Cutting
<1>4. at \in [1..1 -> 1..1] /\ at[1] = 1
  OBVIOUS
<1>5. s.cur = SubSeq(p, 1, 1)
  BY <1>1, <1>2, OnePoint
<1>6. {at[k] : k \in 2..1} = {} /\ {i \in Cusps(p) : i <= 1} = {}
  BY DEF Cusps, Inner
<1>7. \A k \in 1..0 : at[k] < at[k + 1] /\ s.runs[k] = SubSeq(p, at[k], at[k + 1])
  OBVIOUS
<1> HIDE DEF s, at
<1>8. CutSoFar(p, s, 1, at)
  BY <1>2, <1>3, <1>4, <1>5, <1>6, <1>7 DEF CutSoFar
<1> QED BY <1>8 DEF s, at

LEMMA CutGoesOn ==
  ASSUME NEW p \in Seq(Places), NEW n \in 1..Len(p) - 2, NEW s, NEW at, CutSoFar(p, s, n, at)
  PROVE  \E b : CutSoFar(p, Cut(p, s, n + 1), n + 1, b)
<1> DEFINE i == n + 1
           m == Len(s.runs)
           a == at[m + 1]
           c == Append(s.cur, p[i])
<1>1. /\ s \in Cutting /\ at \in [1..m + 1 -> 1..n] /\ at[1] = 1
      /\ \A k \in 1..m : at[k] < at[k + 1] /\ s.runs[k] = SubSeq(p, at[k], at[k + 1])
      /\ s.cur = SubSeq(p, a, n)
      /\ {at[k] : k \in 2..m + 1} = {j \in Cusps(p) : j <= n}
  BY DEF CutSoFar
<1>2. /\ s.runs \in Seq(Seq(Places)) /\ s.cur \in Seq(Places) /\ m \in Nat
      /\ s = [runs |-> s.runs, cur |-> s.cur]
  <2>1. s.runs \in Seq(Seq(Places)) /\ s.cur \in Seq(Places)
    BY <1>1 DEF Cutting
  <2>2. m \in Nat
    BY <2>1, LenProperties
  <2>3. s = [runs |-> s.runs, cur |-> s.cur]
    BY <1>1 DEF Cutting
  <2> QED BY <2>1, <2>2, <2>3
<1>3. a \in 1..n /\ i \in 1..Len(p) /\ p[i] \in Places /\ n \in Nat /\ n < i
  <2>1. m + 1 \in 1..m + 1
    <3> HIDE DEF m
    <3> QED BY <1>2
  <2>2. a \in 1..n
    <3> HIDE DEF m
    <3> QED BY <1>1, <2>1
  <2>3. i \in 1..Len(p) /\ n \in Nat /\ n < i
    OBVIOUS
  <2>4. p[i] \in Places
    BY <2>3, ElementOfSeq
  <2> QED BY <2>2, <2>3, <2>4
<1>4. c = SubSeq(p, a, i) /\ c \in Seq(Places)
  <2>1. c \in Seq(Places)
    <3> HIDE DEF i
    <3> QED BY <1>2, <1>3
  <2>2. n \in 1..Len(p) - 1
    OBVIOUS
  <2>3. Append(SubSeq(p, a, n), p[n + 1]) = SubSeq(p, a, n + 1)
    <3> HIDE DEF a
    <3> QED BY <1>3, <2>2, PointAdded
  <2>4. s.cur = SubSeq(p, a, n)
    BY <1>1
  <2> HIDE DEF a
  <2> QED BY <2>1, <2>3, <2>4
<1>5. Cusps(p) \subseteq Nat
  BY DEF Cusps, Inner
<1>6. CASE i \in Cusps(p)
  <2> DEFINE r == [runs |-> Append(s.runs, c), cur |-> <<p[i]>>]
             b == [k \in 1..m + 2 |-> IF k = m + 2 THEN i ELSE at[k]]
  <2>1. Cut(p, s, i) = r
    BY <1>6 DEF Cut
  <2>2. /\ r.runs \in Seq(Seq(Places)) /\ Len(r.runs) = m + 1 /\ r.cur = <<p[i]>>
        /\ \A k \in 1..m : r.runs[k] = s.runs[k]
        /\ r.runs[m + 1] = c
    <3> HIDE DEF c
    <3> DEFINE T == Seq(Places)
               q == s.runs
    <3>0. q \in Seq(T) /\ c \in T
      BY <1>2, <1>4
    <3> HIDE DEF T, q
    <3>1. /\ Append(q, c) \in Seq(T) /\ Len(Append(q, c)) = Len(q) + 1
          /\ \A k \in 1..Len(q) : Append(q, c)[k] = q[k]
          /\ Append(q, c)[Len(q) + 1] = c
      BY <3>0, AppendProperties
    <3> USE DEF T, q
    <3> QED BY <3>1
  <2>3. r \in Cutting
    <3>1. <<p[i]>> \in Seq(Places) /\ Append(s.runs, c) \in Seq(Seq(Places))
      BY <1>3, <2>2
    <3> HIDE DEF c, i
    <3> QED BY <3>1 DEF Cutting
  <2> HIDE DEF r
  <2>4. /\ b \in [1..m + 2 -> 1..i] /\ b[m + 2] = i
        /\ \A k \in 1..m + 1 : b[k] = at[k] /\ at[k] \in 1..n
    <3> HIDE DEF m
    <3> QED BY <1>1, <1>2
  <2>5. b[1] = 1 /\ m + 1 \in 1..m + 1 /\ b[m + 1] = a
    BY <1>1, <1>2, <2>4
  <2> HIDE DEF b, m, a, c
  <2>6. \A k \in 1..m + 1 : b[k] < b[k + 1] /\ r.runs[k] = SubSeq(p, b[k], b[k + 1])
    <3> SUFFICES ASSUME NEW k \in 1..m + 1
                 PROVE  b[k] < b[k + 1] /\ r.runs[k] = SubSeq(p, b[k], b[k + 1])
      OBVIOUS
    <3>1. CASE k = m + 1
      <4>1. b[k] = a /\ b[k + 1] = i /\ r.runs[k] = c
        BY <1>2, <2>2, <2>4, <2>5, <3>1
      <4> QED BY <1>3, <1>4, <4>1
    <3>2. CASE k # m + 1
      <4>1. k \in 1..m /\ k + 1 \in 1..m + 1 /\ k \in 1..m + 1
        BY <1>2, <3>2
      <4>2. b[k] = at[k] /\ b[k + 1] = at[k + 1] /\ r.runs[k] = s.runs[k]
        BY <2>2, <2>4, <4>1
      <4> QED BY <1>1, <4>1, <4>2
    <3> QED BY <3>1, <3>2
  <2>7. r.cur = SubSeq(p, b[m + 2], i)
    BY <1>3, <2>2, <2>4, OnePoint
  <2>8. {b[k] : k \in 2..m + 2} = {j \in Cusps(p) : j <= i}
    <3>1. ASSUME NEW k \in 2..m + 2 PROVE b[k] \in Cusps(p) /\ b[k] <= i
      <4>1. CASE k = m + 2
        BY <1>3, <1>6, <2>4, <4>1
      <4>2. CASE k # m + 2
        <5>1. k \in 2..m + 1 /\ k \in 1..m + 1
          <6>1. m \in Nat /\ k \in 2..m + 2 /\ k # m + 2
            BY <1>2, <4>2 DEF m
          <6> QED BY <6>1
        <5>2. at[k] \in {j \in Cusps(p) : j <= n}
          BY <1>1, <5>1
        <5> QED BY <1>3, <1>5, <2>4, <5>1, <5>2
      <4> QED BY <4>1, <4>2
    <3>2. ASSUME NEW j \in Cusps(p), j <= i PROVE \E k \in 2..m + 2 : b[k] = j
      <4>1. CASE j = i
        BY <1>2, <2>4, <4>1
      <4>2. CASE j # i
        <5>1. j <= n
          BY <1>3, <1>5, <3>2, <4>2
        <5>2. PICK k \in 2..m + 1 : at[k] = j
          BY <1>1, <5>1
        <5>3. k \in 2..m + 2 /\ k \in 1..m + 1
          BY <1>2
        <5> QED BY <2>4, <5>2, <5>3
      <4> QED BY <4>1, <4>2
    <3> QED BY <3>1, <3>2
  <2>9. Len(r.runs) + 1 = m + 2
    BY <1>2, <2>2
  <2>10. CutSoFar(p, r, i, b)
    <3> HIDE DEF i
    <3> QED BY <2>2, <2>3, <2>4, <2>5, <2>6, <2>7, <2>8, <2>9 DEF CutSoFar
  <2> QED BY <2>1, <2>10
<1>7. CASE i \notin Cusps(p)
  <2> DEFINE r == [runs |-> s.runs, cur |-> c]
  <2>1. Cut(p, s, i) = r
    BY <1>2, <1>7 DEF Cut
  <2>2. r.runs = s.runs /\ r.cur = c /\ r \in Cutting
    BY <1>2, <1>4 DEF Cutting
  <2>3. at \in [1..m + 1 -> 1..i]
    <3> HIDE DEF m
    <3> QED BY <1>1, <1>3
  <2>4. {j \in Cusps(p) : j <= i} = {j \in Cusps(p) : j <= n}
    BY <1>3, <1>5, <1>7
  <2> HIDE DEF r, c
  <2>5. CutSoFar(p, r, i, at)
    BY <1>1, <1>4, <2>2, <2>3, <2>4 DEF CutSoFar
  <2> QED BY <2>1, <2>5
<1> QED BY <1>6, <1>7

LEMMA PointCut ==
  ASSUME NEW p \in Seq(Places), NEW s \in Cutting, NEW n \in 1..Len(p)
  PROVE  Cut(p, s, n) \in Cutting
<1>1. /\ s.runs \in Seq(Seq(Places)) /\ s.cur \in Seq(Places)
      /\ s = [runs |-> s.runs, cur |-> s.cur] /\ p[n] \in Places
  BY DEF Cutting
<1> DEFINE T == Seq(Places)
           c == Append(s.cur, p[n])
<1>2. c \in T /\ <<p[n]>> \in T
  <2> HIDE DEF Places
  <2> QED BY <1>1
<1>3. Append(s.runs, c) \in Seq(T)
  <2> HIDE DEF c
  <2>1. s.runs \in Seq(T)
    BY <1>1
  <2> HIDE DEF T
  <2> QED BY <1>2, <2>1
<1>4. CASE n \in Cusps(p)
  <2>1. Cut(p, s, n) = [runs |-> Append(s.runs, c), cur |-> <<p[n]>>]
    BY <1>4 DEF Cut
  <2> HIDE DEF c
  <2> QED BY <1>2, <1>3, <2>1 DEF Cutting
<1>5. CASE n \notin Cusps(p)
  <2>1. Cut(p, s, n) = [runs |-> s.runs, cur |-> c]
    BY <1>1, <1>5 DEF Cut
  <2> HIDE DEF c
  <2> QED BY <1>1, <1>2, <2>1 DEF Cutting
<1> QED BY <1>4, <1>5

\* The pieces of a plan, the first at its start, the last up to its end.
Laid(p, ps, at) ==
  ps \in Seq(Seq(Places)) /\ at \in [1..Len(ps) + 1 -> 1..Len(p)] /\ CutAt(p, ps, at)

\* What is left of the plan is its last piece.
LEMMA CutEnds ==
  ASSUME NEW p \in Seq(Places), NEW n \in Nat, n >= 1, n = Len(p) - 1,
         NEW s, NEW at, CutSoFar(p, s, n, at)
  PROVE  \E b : Laid(p, Append(s.runs, Append(s.cur, p[Len(p)])), b)
<1> DEFINE m == Len(s.runs)
           a == at[m + 1]
           L == Len(p)
           T == Seq(Places)
           c == Append(s.cur, p[L])
           q == s.runs
           ps == Append(q, c)
           b == [k \in 1..m + 2 |-> IF k = m + 2 THEN L ELSE at[k]]
<1>1. /\ s \in Cutting /\ at \in [1..m + 1 -> 1..n] /\ at[1] = 1
      /\ \A k \in 1..m : at[k] < at[k + 1] /\ s.runs[k] = SubSeq(p, at[k], at[k + 1])
      /\ s.cur = SubSeq(p, a, n)
      /\ {at[k] : k \in 2..m + 1} = {j \in Cusps(p) : j <= n}
  BY DEF CutSoFar
<1>2. q \in Seq(T) /\ s.cur \in T /\ m \in Nat
  <2>1. q \in Seq(T) /\ s.cur \in T
    BY <1>1 DEF Cutting
  <2> HIDE DEF T
  <2> QED BY <2>1, LenProperties
<1>3. L \in Nat /\ L >= 2 /\ n = L - 1 /\ p[L] \in Places
  <2>1. L \in Nat /\ L >= 2
    OBVIOUS
  <2> QED BY <2>1, ElementOfSeq
<1>4. m + 1 \in 1..m + 1 /\ a \in 1..n
  <2> HIDE DEF m
  <2> QED BY <1>1, <1>2
<1>5. c = SubSeq(p, a, L) /\ c \in T
  <2>1. c \in T
    <3> HIDE DEF L
    <3> QED BY <1>2, <1>3
  <2>2. n \in 1..Len(p) - 1 /\ n + 1 = L
    BY <1>3
  <2>3. Append(SubSeq(p, a, n), p[n + 1]) = SubSeq(p, a, n + 1)
    <3> HIDE DEF a
    <3> QED BY <1>4, <2>2, PointAdded
  <2> HIDE DEF a
  <2> QED BY <1>1, <2>1, <2>2, <2>3
<1>6. /\ ps \in Seq(T) /\ Len(ps) = m + 1
      /\ \A k \in 1..m : ps[k] = q[k]
      /\ ps[m + 1] = c
  <2>0. q \in Seq(T) /\ c \in T
    BY <1>2, <1>5
  <2> HIDE DEF c, T, q
  <2>1. /\ Append(q, c) \in Seq(T) /\ Len(Append(q, c)) = Len(q) + 1
        /\ \A k \in 1..Len(q) : Append(q, c)[k] = q[k]
        /\ Append(q, c)[Len(q) + 1] = c
    BY <2>0
  <2> USE DEF q
  <2> QED BY <2>1
<1> HIDE DEF ps
<1>7. /\ b \in [1..m + 2 -> 1..L] /\ b[m + 2] = L
      /\ \A k \in 1..m + 1 : b[k] = at[k] /\ at[k] \in 1..n
  <2> HIDE DEF m, L
  <2> QED BY <1>1, <1>2, <1>3
<1> HIDE DEF b
<1>8. b[1] = 1
  BY <1>1, <1>2, <1>7
<1>9. \A k \in 1..m + 1 : b[k] < b[k + 1] /\ ps[k] = SubSeq(p, b[k], b[k + 1])
  <2> SUFFICES ASSUME NEW k \in 1..m + 1
               PROVE  b[k] < b[k + 1] /\ ps[k] = SubSeq(p, b[k], b[k + 1])
    OBVIOUS
  <2> HIDE DEF m, a, c, q, L
  <2>1. CASE k = m + 1
    <3>1. b[k] = a /\ b[k + 1] = L /\ ps[k] = c
      BY <1>2, <1>4, <1>6, <1>7, <2>1 DEF a
    <3> QED BY <1>3, <1>4, <1>5, <3>1
  <2>2. CASE k # m + 1
    <3>1. k \in 1..m /\ k + 1 \in 1..m + 1 /\ k \in 1..m + 1
      BY <1>2, <2>2
    <3>2. b[k] = at[k] /\ b[k + 1] = at[k + 1] /\ ps[k] = s.runs[k]
      BY <1>6, <1>7, <3>1 DEF q
    <3> QED BY <1>1, <3>1, <3>2
  <2> QED BY <2>1, <2>2
<1>10. {b[k] : k \in 2..m + 1} = Cusps(p)
  <2>1. {j \in Cusps(p) : j <= n} = Cusps(p)
    BY <1>3 DEF Cusps, Inner
  <2>2. \A k \in 2..m + 1 : b[k] = at[k]
    <3> HIDE DEF m
    <3> QED BY <1>2, <1>7
  <2> QED BY <1>1, <2>1, <2>2
<1>11. DOMAIN ps = 1..m + 1
  <2> HIDE DEF m, T
  <2> QED BY <1>6, LenProperties
<1>12. Len(ps) + 1 = m + 2
  <2> HIDE DEF m
  <2> QED BY <1>2, <1>6
<1> HIDE DEF m, c
<1>13. CutAt(p, ps, b)
  BY <1>6, <1>7, <1>8, <1>9, <1>10, <1>11, <1>12 DEF CutAt
<1>14. Laid(p, ps, b)
  BY <1>6, <1>7, <1>12, <1>13 DEF Laid
<1> QED BY <1>14 DEF ps, c

LEMMA PiecesLaid ==
  ASSUME NEW p \in Seq(Places), Len(p) >= 2
  PROVE  \E at : Laid(p, Pieces(p), at)
<1> DEFINE N == Len(p) - 1
           c == [runs |-> <<>>, cur |-> <<p[1]>>]
           Rec(f) == f = [n \in 0..N |-> IF n <= 1 THEN c ELSE Cut(p, f[n - 1], n)]
           cut == CHOOSE f : Rec(f)
           G == [x \in Nat \X Cutting |->
                   IF 2 <= x[1] /\ x[1] <= N THEN Cut(p, x[2], x[1]) ELSE x[2]]
<1>1. N \in Nat /\ N >= 1 /\ Len(p) = N + 1 /\ p # <<>>
  OBVIOUS
<1>2. c \in Cutting
  <2>1. p[1] \in Places /\ <<>> \in Seq(Seq(Places))
    OBVIOUS
  <2>2. <<p[1]>> \in Seq(Places)
    BY <2>1
  <2> QED BY <2>1, <2>2 DEF Cutting
<1>3. G \in [Nat \X Cutting -> Cutting]
  <2> SUFFICES ASSUME NEW x \in Nat \X Cutting, 2 <= x[1], x[1] <= N
               PROVE  Cut(p, x[2], x[1]) \in Cutting
    OBVIOUS
  <2>1. x[1] \in 1..Len(p) /\ x[2] \in Cutting
    BY <1>1
  <2> QED BY <2>1, PointCut
<1>4. \E f : Rec(f)
  <2> HIDE DEF c, G, N
  <2>0. PICK f : Rounds(f, Cutting, c, G, N)
    BY <1>1, <1>2, <1>3, Iterated
  <2>1. f \in [0..N -> Cutting] /\ f[0] = c /\ \A n \in 1..N : f[n] = G[<<n, f[n - 1]>>]
    BY <2>0 DEF Rounds
  <2>2. ASSUME NEW n \in 0..N PROVE f[n] = IF n <= 1 THEN c ELSE Cut(p, f[n - 1], n)
    <3>1. CASE n = 0
      BY <2>1, <3>1
    <3>2. CASE n # 0
      <4>1. n \in 1..N /\ n - 1 \in 0..N /\ n \in Nat
        BY <1>1, <3>2
      <4>2. f[n] = G[<<n, f[n - 1]>>] /\ f[n - 1] \in Cutting
        BY <2>1, <4>1
      <4>3. f[n] = IF 2 <= n /\ n <= N THEN Cut(p, f[n - 1], n) ELSE f[n - 1]
        BY <4>1, <4>2 DEF G
      <4> QED BY <1>1, <2>1, <4>1, <4>3
    <3> QED BY <3>1, <3>2
  <2>3. f = [n \in 0..N |-> f[n]]
    BY <2>1
  <2>4. f = [n \in 0..N |-> IF n <= 1 THEN c ELSE Cut(p, f[n - 1], n)]
    BY <2>2, <2>3
  <2> QED BY <2>4
<1>5. Rec(cut)
  BY <1>4
<1>6. Pieces(p) = Append(cut[N].runs, Append(cut[N].cur, p[Len(p)]))
  BY <1>1 DEF Pieces
<1>7. \A n \in 1..N : cut[n] = IF n <= 1 THEN c ELSE Cut(p, cut[n - 1], n)
  <2> HIDE DEF cut, c, N
  <2>1. cut = [n \in 0..N |-> IF n <= 1 THEN c ELSE Cut(p, cut[n - 1], n)]
    BY <1>5
  <2>2. \A n \in 0..N : cut[n] = IF n <= 1 THEN c ELSE Cut(p, cut[n - 1], n)
    BY <2>1
  <2> QED BY <1>1, <2>2
<1> DEFINE S == {n \in Nat : n + 1 <= N => \E at : CutSoFar(p, cut[n + 1], n + 1, at)}
<1>8. 0 \in S
  <2>1. cut[1] = c
    <3> HIDE DEF cut, c, N
    <3> QED BY <1>1, <1>7
  <2>2. \E at : CutSoFar(p, c, 1, at)
    BY CutStarts
  <2> HIDE DEF cut, c
  <2> QED BY <2>1, <2>2
<1>9. ASSUME NEW n \in Nat, n \in S PROVE n + 1 \in S
  <2> SUFFICES ASSUME n + 2 <= N PROVE \E at : CutSoFar(p, cut[n + 2], n + 2, at)
    <3> HIDE DEF cut, N
    <3> QED BY <1>1
  <2> HIDE DEF cut, c
  <2>1. PICK i : i = n + 1
    OBVIOUS
  <2>2. i \in 1..Len(p) - 2 /\ i + 1 = n + 2 /\ i + 1 \in 1..N /\ ~(i + 1 <= 1) /\ i + 1 - 1 = i
    BY <1>1, <2>1
  <2>3. PICK at : CutSoFar(p, cut[i], i, at)
    BY <1>1, <1>9, <2>1
  <2>4. cut[i + 1] = Cut(p, cut[i], i + 1)
    BY <1>7, <2>2
  <2>5. \E b : CutSoFar(p, Cut(p, cut[i], i + 1), i + 1, b)
    BY <2>2, <2>3, CutGoesOn
  <2> QED BY <2>2, <2>4, <2>5
<1> HIDE DEF S
<1>10. Nat \subseteq S
  BY <1>8, <1>9, SetInduction
<1>11. PICK at : CutSoFar(p, cut[N], N, at)
  <2>1. N - 1 \in S /\ N - 1 + 1 = N
    BY <1>1, <1>10
  <2> HIDE DEF N, cut
  <2> QED BY <1>1, <2>1 DEF S
<1> HIDE DEF cut, N
<1> QED BY <1>1, <1>6, <1>11, CutEnds DEF N

LEMMA SameNumber ==
  ASSUME NEW S, NEW T, NEW F \in [S -> T],
         \A x, y \in S : F[x] = F[y] => x = y, \A t \in T : \E x \in S : F[x] = t, IsFiniteSet(S)
  PROVE  IsFiniteSet(T) /\ Cardinality(T) = Cardinality(S)
<1>1. F \in Bijection(S, T)
  BY Fun_IsBij
<1>2. ExistsBijection(S, T)
  BY <1>1 DEF ExistsBijection
<1> QED BY <1>2, FS_Bijection

\* What the places where the pieces begin and end have in common.
Course(p, ps, at, m) ==
  /\ m \in Nat /\ m >= 1 /\ m = Len(ps) /\ DOMAIN ps = 1..m
  /\ Len(p) \in Nat /\ Len(p) >= 2
  /\ at \in [1..m + 1 -> 1..Len(p)] /\ at[1] = 1 /\ at[m + 1] = Len(p)
  /\ \A k \in 1..m : at[k] < at[k + 1] /\ ps[k] = SubSeq(p, at[k], at[k + 1])
  /\ {at[k] : k \in 2..m} = Cusps(p)

LEMMA LaidIsCourse ==
  ASSUME NEW p \in Seq(Places), Len(p) >= 2, NEW ps, NEW at, Laid(p, ps, at)
  PROVE  Course(p, ps, at, Len(ps))
<1> DEFINE m == Len(ps)
           T == Seq(Places)
<1>1. /\ ps \in Seq(T) /\ at \in [1..m + 1 -> 1..Len(p)]
      /\ at[1] = 1 /\ at[m + 1] = Len(p)
      /\ \A k \in DOMAIN ps : at[k] < at[k + 1] /\ ps[k] = SubSeq(p, at[k], at[k + 1])
      /\ {at[k] : k \in 2..m} = Cusps(p)
  BY DEF Laid, CutAt
<1> HIDE DEF T
<1>2. m \in Nat /\ DOMAIN ps = 1..m
  BY <1>1, LenProperties
<1>3. Len(p) \in Nat /\ Len(p) >= 2
  OBVIOUS
<1>4. m >= 1
  <2>1. m # 0
    <3>1. SUFFICES ASSUME m = 0 PROVE FALSE
      OBVIOUS
    <3>2. m + 1 = 1
      BY <3>1
    <3> HIDE DEF m
    <3> QED BY <1>1, <1>3, <3>2
  <2> HIDE DEF m
  <2> QED BY <1>2, <2>1
<1> HIDE DEF m
<1>5. Course(p, ps, at, m)
  <2>1. m = Len(ps)
    BY DEF m
  <2> QED BY <1>1, <1>2, <1>3, <1>4, <2>1 DEF Course
<1> QED BY <1>5 DEF m

LEMMA Rising ==
  ASSUME NEW p, NEW ps, NEW at, NEW m, Course(p, ps, at, m),
         NEW j \in 1..m + 1, NEW k \in 1..m + 1, j < k
  PROVE  at[j] < at[k]
<1>1. /\ m \in Nat /\ at \in [1..m + 1 -> 1..Len(p)] /\ \A h \in 1..m : at[h] < at[h + 1]
      /\ Len(p) \in Nat
  BY DEF Course
<1> DEFINE S == {d \in Nat : j + d + 1 <= m + 1 => at[j] < at[j + d + 1]}
<1>2. 0 \in S
  <2>1. j + 1 <= m + 1 => j \in 1..m /\ j + 0 + 1 = j + 1
    BY <1>1
  <2> QED BY <1>1, <2>1
<1>3. ASSUME NEW d \in Nat, d \in S PROVE d + 1 \in S
  <2> SUFFICES ASSUME j + d + 2 <= m + 1 PROVE at[j] < at[j + d + 2]
    OBVIOUS
  <2>1. PICK i : i = j + d + 1
    OBVIOUS
  <2>2. i \in 1..m /\ j + d + 1 <= m + 1 /\ j + d + 2 = i + 1
    BY <1>1, <2>1
  <2>3. at[j] < at[i] /\ at[i] < at[i + 1]
    BY <1>1, <1>3, <2>1, <2>2
  <2>4. at[j] \in Int /\ at[i] \in Int /\ at[i + 1] \in Int
    <3>1. j \in 1..m + 1 /\ i \in 1..m + 1 /\ i + 1 \in 1..m + 1
      BY <1>1, <2>2
    <3> QED BY <1>1, <3>1
  <2> QED BY <2>2, <2>3, <2>4
<1> HIDE DEF S
<1>4. Nat \subseteq S
  BY <1>2, <1>3, SetInduction
<1>5. PICK d : d = k - j - 1
  OBVIOUS
<1>6. d \in Nat /\ j + d + 1 = k /\ k <= m + 1
  BY <1>1, <1>5
<1>7. j + d + 1 <= m + 1 => at[j] < at[j + d + 1]
  BY <1>4, <1>6 DEF S
<1> QED BY <1>6, <1>7

\* No cusp lies inside a piece.
LEMMA NoneInside ==
  ASSUME NEW p, NEW ps, NEW at, NEW m, Course(p, ps, at, m),
         NEW k \in 1..m, NEW i \in Int, at[k] < i, i < at[k + 1]
  PROVE  i \notin Cusps(p) /\ i \in Inner(p)
<1>1. /\ m \in Nat /\ at \in [1..m + 1 -> 1..Len(p)] /\ Len(p) \in Nat
      /\ {at[h] : h \in 2..m} = Cusps(p)
  BY DEF Course
<1>2. k \in 1..m + 1 /\ k + 1 \in 1..m + 1
  BY <1>1
<1>3. at[k] \in 1..Len(p) /\ at[k + 1] \in 1..Len(p)
  BY <1>1, <1>2
<1>4. i \in Inner(p)
  BY <1>1, <1>3 DEF Inner
<1>5. ASSUME NEW j \in 2..m, at[j] = i PROVE FALSE
  <2>1. j \in 1..m + 1 /\ (j = k \/ j = k + 1 \/ j < k \/ k + 1 < j)
    BY <1>1
  <2>2. at[j] \in Int
    BY <1>5
  <2>3. CASE j < k
    <3>1. at[j] < at[k]
      BY <1>2, <2>1, <2>3, Rising
    <3> QED BY <1>3, <1>5, <3>1
  <2>4. CASE k + 1 < j
    <3>1. at[k + 1] < at[j]
      BY <1>2, <2>1, <2>4, Rising
    <3> QED BY <1>3, <1>5, <3>1
  <2> QED BY <1>3, <1>5, <2>1, <2>3, <2>4
<1> QED BY <1>1, <1>4, <1>5

\* Every other point lies inside one.
LEMMA InsideOne ==
  ASSUME NEW p, NEW ps, NEW at, NEW m, Course(p, ps, at, m), NEW i \in Inner(p), i \notin Cusps(p)
  PROVE  \E k \in 1..m : at[k] < i /\ i < at[k + 1]
<1>1. /\ m \in Nat /\ m >= 1 /\ at \in [1..m + 1 -> 1..Len(p)] /\ Len(p) \in Nat
      /\ {at[h] : h \in 2..m} = Cusps(p) /\ at[1] = 1 /\ at[m + 1] = Len(p)
  BY DEF Course
<1>2. i \in Int /\ 1 < i /\ i < Len(p)
  BY <1>1 DEF Inner
<1> DEFINE T == {h \in 1..m + 1 : i <= at[h]}
<1>3. T \subseteq Nat /\ m + 1 \in T
  BY <1>1, <1>2
<1>4. PICK h \in T : \A y \in T : h <= y
  BY <1>3, LeastNat
<1>5. h \in 1..m + 1 /\ i <= at[h] /\ h # 1
  BY <1>1, <1>2, <1>4
<1>6. at[h] # i
  <2>1. CASE h = m + 1
    BY <1>1, <1>2, <2>1
  <2>2. CASE h # m + 1
    <3>1. h \in 2..m
      BY <1>1, <1>5, <2>2
    <3> QED BY <1>1, <3>1
  <2> QED BY <2>1, <2>2
<1>7. PICK k : k = h - 1
  OBVIOUS
<1>8. k \in 1..m /\ k + 1 = h /\ k \in 1..m + 1 /\ k < h
  BY <1>1, <1>5, <1>7
<1>9. ~(i <= at[k])
  <2>1. i <= at[k] => h <= k
    BY <1>4, <1>8
  <2> QED BY <1>5, <1>8, <2>1
<1>10. at[k] \in Int /\ at[h] \in Int
  BY <1>1, <1>5, <1>8
<1> QED BY <1>2, <1>5, <1>6, <1>8, <1>9, <1>10

\* r is a piece of p, from a to e.
PieceFrom(p, a, e, r) ==
  /\ a \in Int /\ e \in Int /\ Len(r) = e - a + 1 /\ Inner(r) = 2..e - a
  /\ \A i \in 1..e - a + 1 : r[i] = p[a + i - 1]

\* A piece bends as the plan does.
LEMMA PieceOfPlan ==
  ASSUME NEW p \in Seq(Places), NEW a \in 1..Len(p), NEW e \in 1..Len(p), a < e, NEW r,
         r = SubSeq(p, a, e)
  PROVE  PieceFrom(p, a, e, r)
<1>1. \A i \in a..e : p[i] \in Places
  OBVIOUS
<1>2. /\ a \in Int /\ e \in Int
      /\ Len(r) = e - a + 1
      /\ \A i \in 1..e - a + 1 : r[i] = p[a + i - 1]
  <2>1. a \in Int /\ e \in Int /\ a <= e
    OBVIOUS
  <2> HIDE DEF Places
  <2> QED BY <1>1, <2>1, SubSeqProperties
<1>3. Inner(r) = 2..e - a
  BY <1>2 DEF Inner
<1> QED BY <1>2, <1>3 DEF PieceFrom

LEMMA PieceTurns ==
  ASSUME NEW p, NEW a, NEW e, NEW r, PieceFrom(p, a, e, r), NEW i \in Inner(r)
  PROVE  Dot(r, i) = Dot(p, a + i - 1) /\ Cross(r, i) = Cross(p, a + i - 1)
<1>1. /\ a \in Int /\ e \in Int /\ i \in 2..e - a
      /\ \A h \in 1..e - a + 1 : r[h] = p[a + h - 1]
  BY DEF PieceFrom
<1>2. /\ i \in 1..e - a + 1 /\ i - 1 \in 1..e - a + 1 /\ i + 1 \in 1..e - a + 1
      /\ a + (i - 1) - 1 = (a + i - 1) - 1 /\ a + (i + 1) - 1 = (a + i - 1) + 1
  BY <1>1
<1>3. r[i] = p[a + i - 1] /\ r[i - 1] = p[(a + i - 1) - 1] /\ r[i + 1] = p[(a + i - 1) + 1]
  BY <1>1, <1>2
<1> QED BY <1>3 DEF Dot, Cross

(***************************************************************************)
(* The pieces, and the bends within them, are places of the plan.          *)
(***************************************************************************)

Ends(p) == {1, Len(p)} \cup Cusps(p)

Spans(p) ==
  {t \in Ends(p) \X Ends(p) :
     t[1] + 2 <= t[2] /\ \A h \in Ends(p) : h <= t[1] \/ t[2] <= h}

Bent(p) == {i \in Inner(p) : i \notin Cusps(p) /\ Cross(p, i) # 0}

Bends(p) ==
  {t \in Bent(p) \X Bent(p) :
     /\ t[1] < t[2]
     /\ \A h \in Inner(p) : t[1] < h /\ h < t[2] => h \notin Cusps(p) /\ Cross(p, h) = 0
     /\ (Cross(p, t[1]) > 0) # (Cross(p, t[2]) > 0)}

LEMMA SpansCounted ==
  ASSUME NEW p \in Seq(Places), Len(p) >= 2
  PROVE  /\ IsFiniteSet(SplitAtCusps(p)) /\ IsFiniteSet(Spans(p))
         /\ Cardinality(Spans(p)) = Cardinality(SplitAtCusps(p))
<1> DEFINE ps == Pieces(p)
           R == SplitAtCusps(p)
<1>1. PICK at : Laid(p, ps, at)
  BY PiecesLaid
<1>2. PICK m : Course(p, ps, at, m)
  BY <1>1, LaidIsCourse
<1> HIDE DEF ps
<1>3. /\ m \in Nat /\ m >= 1 /\ DOMAIN ps = 1..m /\ Len(p) \in Nat
      /\ at \in [1..m + 1 -> 1..Len(p)] /\ at[1] = 1 /\ at[m + 1] = Len(p)
      /\ \A k \in 1..m : at[k] < at[k + 1] /\ ps[k] = SubSeq(p, at[k], at[k + 1])
      /\ {at[h] : h \in 2..m} = Cusps(p)
  BY <1>2 DEF Course
<1>4. /\ m \in Nat /\ \A k \in 1..m : k \in 1..m + 1 /\ k + 1 \in 1..m + 1
      /\ \A k \in 1..m + 1 : at[k] \in Int
  <2>1. m \in Nat
    BY <1>3
  <2>2. \A k \in 1..m : k \in 1..m + 1 /\ k + 1 \in 1..m + 1
    BY <2>1
  <2>3. ASSUME NEW k \in 1..m + 1 PROVE at[k] \in Int
    <3>1. at[k] \in 1..Len(p)
      BY <1>3
    <3> QED BY <3>1
  <2> QED BY <2>1, <2>2, <2>3
<1>5. R = {k \in 1..m : at[k] + 2 <= at[k + 1]}
  <2>1. ASSUME NEW k \in 1..m PROVE Len(ps[k]) >= 3 <=> at[k] + 2 <= at[k + 1]
    <3>1. at[k] \in 1..Len(p) /\ at[k + 1] \in 1..Len(p) /\ at[k] < at[k + 1]
          /\ ps[k] = SubSeq(p, at[k], at[k + 1])
      BY <1>3, <1>4
    <3>2. Len(ps[k]) = at[k + 1] - at[k] + 1
      <4>1. PieceFrom(p, at[k], at[k + 1], ps[k])
        BY <3>1, PieceOfPlan
      <4> QED BY <4>1 DEF PieceFrom
    <3> QED BY <3>1, <3>2
  <2>2. R = {k \in DOMAIN ps : Len(ps[k]) >= 3}
    BY DEF SplitAtCusps, ps
  <2> HIDE DEF R
  <2> QED BY <1>3, <2>1, <2>2
<1>6. Ends(p) = {at[k] : k \in 1..m + 1}
  <2>1. ASSUME NEW k \in 1..m + 1 PROVE at[k] \in Ends(p)
    <3>1. k = 1 \/ k = m + 1 \/ k \in 2..m
      BY <1>3
    <3> QED BY <1>3, <3>1 DEF Ends
  <2>2. ASSUME NEW e \in Ends(p) PROVE \E k \in 1..m + 1 : at[k] = e
    <3>1. 1 \in 1..m + 1 /\ m + 1 \in 1..m + 1 /\ \A k \in 2..m : k \in 1..m + 1
      BY <1>3
    <3>2. e = 1 \/ e = Len(p) \/ e \in Cusps(p)
      BY DEF Ends
    <3>3. CASE e \in Cusps(p)
      <4>1. PICK k \in 2..m : at[k] = e
        BY <1>3, <3>3
      <4> QED BY <3>1, <4>1
    <3> QED BY <1>3, <3>1, <3>2, <3>3
  <2> QED BY <2>1, <2>2
<1>7. \A j, k \in 1..m + 1 : j < k => at[j] < at[k]
  BY <1>2, Rising
<1> HIDE DEF R
<1> DEFINE F == [k \in R |-> <<at[k], at[k + 1]>>]
<1>8. F \in [R -> Spans(p)]
  <2> SUFFICES ASSUME NEW k \in R PROVE <<at[k], at[k + 1]>> \in Spans(p)
    OBVIOUS
  <2>1. k \in 1..m /\ at[k] + 2 <= at[k + 1] /\ k \in 1..m + 1 /\ k + 1 \in 1..m + 1
    BY <1>4, <1>5
  <2>2. at[k] \in Ends(p) /\ at[k + 1] \in Ends(p)
    BY <1>6, <2>1
  <2>3. ASSUME NEW h \in Ends(p) PROVE h <= at[k] \/ at[k + 1] <= h
    <3>1. PICK j \in 1..m + 1 : at[j] = h
      BY <1>6
    <3>2. j = k \/ j = k + 1 \/ j < k \/ k + 1 < j
      BY <1>3, <2>1
    <3>3. (j < k => at[j] < at[k]) /\ (k + 1 < j => at[k + 1] < at[j])
      BY <1>7, <2>1
    <3>4. at[j] \in Int /\ at[k] \in Int /\ at[k + 1] \in Int
      BY <1>3, <2>1
    <3> QED BY <3>1, <3>2, <3>3, <3>4
  <2> QED BY <2>1, <2>2, <2>3 DEF Spans
<1>9. ASSUME NEW j \in R, NEW k \in R, F[j] = F[k] PROVE j = k
  <2>1. at[j] = at[k] /\ j \in 1..m + 1 /\ k \in 1..m + 1
    BY <1>4, <1>5, <1>9
  <2>2. at[j] \in Int /\ ~(at[j] < at[j]) /\ (j < k \/ k < j \/ j = k)
    BY <1>4, <2>1
  <2> QED BY <1>7, <2>1, <2>2
<1>10. ASSUME NEW t \in Spans(p) PROVE \E k \in R : F[k] = t
  <2>1. /\ t[1] \in Ends(p) /\ t[2] \in Ends(p) /\ t[1] + 2 <= t[2] /\ t = <<t[1], t[2]>>
        /\ \A h \in Ends(p) : h <= t[1] \/ t[2] <= h
    BY DEF Spans
  <2>2. PICK j \in 1..m + 1 : at[j] = t[1]
    BY <1>6, <2>1
  <2>3. PICK k \in 1..m + 1 : at[k] = t[2]
    BY <1>6, <2>1
  <2>4. at[j] \in Int /\ at[k] \in Int /\ at[j] < at[k]
    <3>1. at[j] \in Int /\ at[k] \in Int
      BY <1>4
    <3> QED BY <2>1, <2>2, <2>3, <3>1
  <2>5. j < k
    <3>1. (k < j => at[k] < at[j]) /\ (j < k \/ k < j \/ j = k)
      BY <1>7
    <3> QED BY <2>4, <3>1
  <2>6. j \in 1..m /\ j + 1 \in 1..m + 1 /\ (k = j + 1 \/ j + 1 < k) /\ j < j + 1
    BY <1>4, <2>5
  <2>7. k = j + 1
    <3>1. SUFFICES ASSUME j + 1 < k PROVE FALSE
      BY <2>6
    <3>2. at[j] < at[j + 1] /\ at[j + 1] < at[k] /\ at[j + 1] \in Ends(p) /\ at[j + 1] \in Int
      BY <1>4, <1>6, <1>7, <2>6, <3>1
    <3>3. at[j + 1] <= at[j] \/ at[k] <= at[j + 1]
      BY <2>1, <2>2, <2>3, <3>2
    <3> QED BY <2>4, <3>2, <3>3
  <2>8. j \in R
    BY <1>5, <2>1, <2>2, <2>3, <2>6, <2>7
  <2>9. F[j] = <<at[j], at[j + 1]>>
    BY <2>8
  <2> HIDE DEF F
  <2> QED BY <2>1, <2>2, <2>3, <2>7, <2>8, <2>9
<1>11. IsFiniteSet(R)
  <2>1. R \subseteq 1..m /\ 1 \in Int /\ m \in Int
    BY <1>3, <1>5
  <2>2. IsFiniteSet(1..m)
    BY <2>1, FS_Interval
  <2> QED BY <2>1, <2>2, FS_Subset
<1> HIDE DEF F
<1>12. IsFiniteSet(Spans(p)) /\ Cardinality(Spans(p)) = Cardinality(R)
  BY <1>8, <1>9, <1>10, <1>11, SameNumber
<1> QED BY <1>11, <1>12 DEF R

Flips(p) == UNION {{k} \X Reversals(Pieces(p)[k]) : k \in SplitAtCusps(p)}

LEMMA BendsCounted ==
  ASSUME NEW p \in Seq(Places), Len(p) >= 2
  PROVE  /\ IsFiniteSet(Bends(p)) /\ IsFiniteSet(Flips(p))
         /\ Cardinality(Flips(p)) = Cardinality(Bends(p))
<1> DEFINE ps == Pieces(p)
<1>1. PICK at : Laid(p, ps, at)
  BY PiecesLaid
<1>2. PICK m : Course(p, ps, at, m)
  BY <1>1, LaidIsCourse
<1>2a. Flips(p) = UNION {{k} \X Reversals(ps[k]) : k \in {k \in DOMAIN ps : Len(ps[k]) >= 3}}
  BY DEF Flips, SplitAtCusps
<1> HIDE DEF ps
<1>3. /\ m \in Nat /\ m >= 1 /\ DOMAIN ps = 1..m /\ Len(p) \in Nat
      /\ at \in [1..m + 1 -> 1..Len(p)] /\ at[1] = 1 /\ at[m + 1] = Len(p)
      /\ \A k \in 1..m : at[k] < at[k + 1] /\ ps[k] = SubSeq(p, at[k], at[k + 1])
      /\ {at[h] : h \in 2..m} = Cusps(p)
  BY <1>2 DEF Course
<1>4. m \in Nat /\ \A k \in 1..m : k \in 1..m + 1 /\ k + 1 \in 1..m + 1
  <2>1. m \in Nat
    BY <1>3
  <2> QED BY <2>1
<1> DEFINE In(k, i) == at[k] < i /\ i < at[k + 1]
           Here(k, t) == /\ In(k, t[1]) /\ In(k, t[2]) /\ t \in Bends(p)
<1>5. ASSUME NEW k \in 1..m
      PROVE  /\ at[k] \in 1..Len(p) /\ at[k + 1] \in 1..Len(p) /\ at[k] < at[k + 1]
             /\ Len(ps[k]) = at[k + 1] - at[k] + 1 /\ Inner(ps[k]) = 2..at[k + 1] - at[k]
             /\ \A i \in Inner(ps[k]) : Cross(ps[k], i) = Cross(p, at[k] + i - 1)
  <2>1. at[k] \in 1..Len(p) /\ at[k + 1] \in 1..Len(p) /\ at[k] < at[k + 1]
        /\ ps[k] = SubSeq(p, at[k], at[k + 1])
    BY <1>3, <1>4
  <2>1a. PieceFrom(p, at[k], at[k + 1], ps[k])
    BY <2>1, PieceOfPlan
  <2>2. Len(ps[k]) = at[k + 1] - at[k] + 1 /\ Inner(ps[k]) = 2..at[k + 1] - at[k]
    BY <2>1a DEF PieceFrom
  <2>3. ASSUME NEW i \in Inner(ps[k]) PROVE Cross(ps[k], i) = Cross(p, at[k] + i - 1)
    BY <2>1a, PieceTurns
  <2> QED BY <2>1, <2>2, <2>3
\* The reversals within a piece are the bends of the plan between its ends.
<1>6. ASSUME NEW k \in 1..m, NEW i \in Int, NEW j \in Int
      PROVE  <<i, j>> \in Reversals(ps[k]) <=> Here(k, <<at[k] + i - 1, at[k] + j - 1>>)
  <2> DEFINE a == at[k]
             e == at[k + 1]
             r == ps[k]
  <2>1. /\ a \in Int /\ e \in Int /\ Inner(r) = 2..e - a
        /\ \A h \in Inner(r) : Cross(r, h) = Cross(p, a + h - 1)
    BY <1>5
  <2>2. \A h \in Int : a < h /\ h < e => h \notin Cusps(p) /\ h \in Inner(p)
    BY <1>2, NoneInside
  <2> HIDE DEF a, e, r
  <2>3. ASSUME NEW h \in Int
        PROVE  /\ h \in Inner(r) <=> a < a + h - 1 /\ a + h - 1 < e
               /\ h \in Turns(r) <=> a < a + h - 1 /\ a + h - 1 < e /\ Cross(p, a + h - 1) # 0
               /\ h \in Turns(r) => Cross(r, h) = Cross(p, a + h - 1) /\ a + h - 1 \in Bent(p)
    <3>1. h \in Inner(r) <=> a < a + h - 1 /\ a + h - 1 < e
      <4>1. h \in 2..e - a <=> a < a + h - 1 /\ a + h - 1 < e
        BY <2>1
      <4> QED BY <2>1, <4>1
    <3>2. h \in Inner(r) => Cross(r, h) = Cross(p, a + h - 1)
      BY <2>1
    <3>3. a + h - 1 \in Int
      BY <2>1
    <3>4. h \in Inner(r) => a + h - 1 \notin Cusps(p) /\ a + h - 1 \in Inner(p)
      BY <2>2, <3>1, <3>3
    <3> QED BY <3>1, <3>2, <3>4 DEF Turns, Bent
  <2>4. PICK x \in Int : x = a + i - 1
    BY <2>1
  <2>5. PICK y \in Int : y = a + j - 1
    BY <2>1
  <2>6. i \in Turns(r) <=> a < x /\ x < e /\ Cross(p, x) # 0
    BY <2>3, <2>4
  <2>7. j \in Turns(r) <=> a < y /\ y < e /\ Cross(p, y) # 0
    BY <2>3, <2>5
  <2>8. i \in Turns(r) => Cross(r, i) = Cross(p, x) /\ x \in Bent(p)
    BY <2>3, <2>4
  <2>9. j \in Turns(r) => Cross(r, j) = Cross(p, y) /\ y \in Bent(p)
    BY <2>3, <2>5
  <2>10. (i < j <=> x < y)
    BY <2>1, <2>4, <2>5
  <2>11. Turns(r) \subseteq Int
    BY <2>1 DEF Turns
  <2>12. ASSUME <<i, j>> \in Reversals(r) PROVE Here(k, <<x, y>>)
    <3>1. /\ i \in Turns(r) /\ j \in Turns(r) /\ i < j
          /\ \A h \in Turns(r) : h <= i \/ j <= h
          /\ (Cross(r, i) > 0) # (Cross(r, j) > 0)
      BY <2>12 DEF Reversals
    <3>2. ASSUME NEW h \in Inner(p), x < h, h < y PROVE h \notin Cusps(p) /\ Cross(p, h) = 0
      <4>0. h \in Int
        BY <1>3 DEF Inner
      <4>1. a < h /\ h < e
        BY <2>1, <2>6, <2>7, <3>1, <3>2, <4>0
      <4>2. PICK g \in Int : g = h - a + 1
        BY <2>1, <4>0
      <4>3. a + g - 1 = h /\ i < g /\ g < j
        BY <2>1, <2>4, <2>5, <3>2, <4>0, <4>2
      <4>4. g \notin Turns(r)
        BY <3>1, <4>3
      <4>5. g \in Turns(r) <=> a < h /\ h < e /\ Cross(p, h) # 0
        BY <2>3, <4>3
      <4>6. h \notin Cusps(p)
        BY <2>2, <4>0, <4>1
      <4> QED BY <4>1, <4>4, <4>5, <4>6
    <3>3. x \in Bent(p) /\ y \in Bent(p) /\ x < y /\ (Cross(p, x) > 0) # (Cross(p, y) > 0)
      BY <2>8, <2>9, <2>10, <3>1
    <3>4. <<x, y>> \in Bends(p)
      BY <3>2, <3>3 DEF Bends
    <3> QED BY <2>6, <2>7, <3>1, <3>4 DEF a, e
  <2>13. ASSUME Here(k, <<x, y>>) PROVE <<i, j>> \in Reversals(r)
    <3>1. /\ a < x /\ x < e /\ a < y /\ y < e
          /\ x \in Bent(p) /\ y \in Bent(p) /\ x < y /\ (Cross(p, x) > 0) # (Cross(p, y) > 0)
          /\ \A h \in Inner(p) : x < h /\ h < y => h \notin Cusps(p) /\ Cross(p, h) = 0
      BY <2>13 DEF a, e, Bends
    <3>2. i \in Turns(r) /\ j \in Turns(r)
      BY <2>6, <2>7, <3>1 DEF Bent
    <3>3. ASSUME NEW h \in Turns(r), i < h, h < j PROVE FALSE
      <4>0. h \in Int
        BY <2>11
      <4>1. PICK g \in Int : g = a + h - 1
        BY <2>1, <4>0
      <4>2. x < g /\ g < y
        BY <2>1, <2>4, <2>5, <3>3, <4>0, <4>1
      <4>3. a < g /\ g < e /\ Cross(p, g) # 0
        BY <2>3, <4>0, <4>1
      <4>4. g \in Inner(p)
        BY <2>2, <4>3
      <4> QED BY <3>1, <4>2, <4>3, <4>4
    <3>4. \A h \in Turns(r) : h <= i \/ j <= h
      BY <2>11, <3>3
    <3>5. i < j /\ (Cross(r, i) > 0) # (Cross(r, j) > 0)
      BY <2>8, <2>9, <2>10, <3>1, <3>2
    <3> QED BY <3>2, <3>4, <3>5 DEF Reversals
  <2> QED BY <2>4, <2>5, <2>12, <2>13 DEF a, r
<1>7. ASSUME NEW t \in Bends(p)
      PROVE  /\ t[1] \in Int /\ t[2] \in Int /\ t = <<t[1], t[2]>>
             /\ \E k \in 1..m : In(k, t[1]) /\ In(k, t[2])
  <2>1. /\ t[1] \in Bent(p) /\ t[2] \in Bent(p) /\ t = <<t[1], t[2]>> /\ t[1] < t[2]
        /\ \A h \in Inner(p) : t[1] < h /\ h < t[2] => h \notin Cusps(p)
    BY DEF Bends
  <2>2. /\ t[1] \in Inner(p) /\ t[1] \notin Cusps(p) /\ t[2] \in Inner(p) /\ t[2] \notin Cusps(p)
        /\ t[1] \in Int /\ t[2] \in Int
    BY <1>3, <2>1 DEF Bent, Inner
  <2>3. PICK k \in 1..m : at[k] < t[1] /\ t[1] < at[k + 1]
    BY <1>2, <2>2, InsideOne
  <2>4. PICK j \in 1..m : at[j] < t[2] /\ t[2] < at[j + 1]
    BY <1>2, <2>2, InsideOne
  <2>5. at[k] \in Int /\ at[k + 1] \in Int /\ at[j] \in Int /\ at[j + 1] \in Int
    BY <1>5
  <2>6. k \in 1..m + 1 /\ k + 1 \in 1..m + 1 /\ j \in 1..m + 1 /\ j + 1 \in 1..m + 1
    BY <1>4
  <2>7. ~(j < k)
    <3>1. SUFFICES ASSUME j < k PROVE FALSE
      OBVIOUS
    <3>2. j + 1 = k \/ j + 1 < k
      BY <3>1
    <3>3. j + 1 < k => at[j + 1] < at[k]
      BY <1>2, <2>6, Rising
    <3> QED BY <2>1, <2>2, <2>3, <2>4, <2>5, <3>2, <3>3
  <2>8. ~(k < j)
    <3>1. SUFFICES ASSUME k < j PROVE FALSE
      OBVIOUS
    <3>2. k + 1 = j \/ k + 1 < j
      BY <3>1
    <3>3. k + 1 < j => at[k + 1] < at[j]
      BY <1>2, <2>6, Rising
    <3>4. t[1] < at[k + 1] /\ at[k + 1] < t[2]
      BY <2>2, <2>3, <2>4, <2>5, <3>2, <3>3
    <3>5. k + 1 \in 2..m
      BY <1>4, <3>1
    <3>6. at[k + 1] \in Cusps(p)
      BY <1>3, <3>5
    <3> QED BY <2>1, <3>4, <3>6 DEF Cusps
  <2>9. j = k
    BY <2>7, <2>8
  <2> QED BY <2>1, <2>2, <2>3, <2>4, <2>9
<1>8. ASSUME NEW k \in 1..m, NEW t \in Reversals(ps[k])
      PROVE  t[1] \in Int /\ t[2] \in Int /\ t = <<t[1], t[2]>> /\ Len(ps[k]) >= 3
  <2>1. t[1] \in Inner(ps[k]) /\ t[2] \in Inner(ps[k]) /\ t = <<t[1], t[2]>>
    BY DEF Reversals, Turns
  <2>2. /\ at[k] \in Int /\ at[k + 1] \in Int /\ Inner(ps[k]) = 2..at[k + 1] - at[k]
        /\ Len(ps[k]) = at[k + 1] - at[k] + 1
    BY <1>5
  <2> QED BY <2>1, <2>2
<1>9. ASSUME NEW f
      PROVE  f \in Flips(p) <=> \E k \in 1..m : \E t \in Reversals(ps[k]) : f = <<k, t>>
  <2>1. f \in Flips(p) <=> \E k \in DOMAIN ps : Len(ps[k]) >= 3 /\ f \in {k} \X Reversals(ps[k])
    BY <1>2a
  <2>2. ASSUME NEW k \in 1..m
        PROVE  f \in {k} \X Reversals(ps[k]) <=> \E t \in Reversals(ps[k]) : f = <<k, t>>
    OBVIOUS
  <2> QED BY <1>3, <1>8, <2>1, <2>2
<1> DEFINE Out(f) == <<at[f[1]] + f[2][1] - 1, at[f[1]] + f[2][2] - 1>>
           F == [f \in Flips(p) |-> Out(f)]
<1> HIDE DEF Here
<1>10. ASSUME NEW f \in Flips(p)
       PROVE  /\ f[1] \in 1..m /\ f[2][1] \in Int /\ f[2][2] \in Int
              /\ f = <<f[1], <<f[2][1], f[2][2]>>>> /\ Here(f[1], Out(f))
  <2>1. PICK k \in 1..m : \E t \in Reversals(ps[k]) : f = <<k, t>>
    BY <1>9
  <2>2. PICK t \in Reversals(ps[k]) : f = <<k, t>>
    BY <2>1
  <2>3. t[1] \in Int /\ t[2] \in Int /\ t = <<t[1], t[2]>>
    BY <1>8
  <2>4. f[1] = k /\ f[2] = t
    BY <2>2
  <2>5. Here(k, <<at[k] + t[1] - 1, at[k] + t[2] - 1>>)
    BY <1>6, <2>3
  <2> QED BY <2>2, <2>3, <2>4, <2>5
<1>11. F \in [Flips(p) -> Bends(p)]
  BY <1>10 DEF Here
<1>12. ASSUME NEW f \in Flips(p), NEW g \in Flips(p), F[f] = F[g] PROVE f = g
  <2>1. Out(f) = Out(g)
    BY <1>12
  <2> DEFINE j == f[1]
             k == g[1]
             x == at[j] + f[2][1] - 1
             y == at[k] + g[2][1] - 1
  <2>2. /\ j \in 1..m /\ k \in 1..m /\ Here(j, Out(f)) /\ Here(k, Out(f))
        /\ f[2][1] \in Int /\ f[2][2] \in Int /\ g[2][1] \in Int /\ g[2][2] \in Int
        /\ f = <<f[1], <<f[2][1], f[2][2]>>>> /\ g = <<g[1], <<g[2][1], g[2][2]>>>>
    BY <1>10, <2>1
  <2>3. x = y /\ at[j] + f[2][2] - 1 = at[k] + g[2][2] - 1
    BY <2>1
  <2>4. at[j] < x /\ x < at[j + 1] /\ at[k] < x /\ x < at[k + 1]
    BY <2>2, <2>3 DEF Here
  <2>5. /\ at[j] \in Int /\ at[j + 1] \in Int /\ at[k] \in Int /\ at[k + 1] \in Int
        /\ j \in 1..m + 1 /\ j + 1 \in 1..m + 1 /\ k \in 1..m + 1 /\ k + 1 \in 1..m + 1
    BY <1>3, <1>4, <2>2
  <2>6. x \in Int
    BY <2>2, <2>5
  <2> HIDE DEF j, k, x, y
  <2>7. ~(j < k)
    <3>1. j < k => j + 1 = k \/ j + 1 < k
      BY <2>2
    <3>2. j + 1 < k => at[j + 1] < at[k]
      BY <1>2, <2>5, Rising
    <3> QED BY <2>4, <2>5, <2>6, <3>1, <3>2
  <2>8. ~(k < j)
    <3>1. k < j => k + 1 = j \/ k + 1 < j
      BY <2>2
    <3>2. k + 1 < j => at[k + 1] < at[j]
      BY <1>2, <2>5, Rising
    <3> QED BY <2>4, <2>5, <2>6, <3>1, <3>2
  <2>9. j = k
    BY <2>2, <2>7, <2>8
  <2>10. f[2][1] = g[2][1] /\ f[2][2] = g[2][2]
    BY <2>2, <2>3, <2>5, <2>9 DEF x, y
  <2> QED BY <2>2, <2>9, <2>10 DEF j, k
<1>13. ASSUME NEW t \in Bends(p) PROVE \E f \in Flips(p) : F[f] = t
  <2>1. t[1] \in Int /\ t[2] \in Int /\ t = <<t[1], t[2]>>
    BY <1>7
  <2>2. PICK k \in 1..m : In(k, t[1]) /\ In(k, t[2])
    BY <1>7
  <2>3. at[k] \in Int
    BY <1>5
  <2>4. PICK i \in Int : i = t[1] - at[k] + 1
    BY <2>1, <2>3
  <2>5. PICK j \in Int : j = t[2] - at[k] + 1
    BY <2>1, <2>3
  <2>6. at[k] + i - 1 = t[1] /\ at[k] + j - 1 = t[2]
    BY <2>1, <2>3, <2>4, <2>5
  <2>7. <<i, j>> \in Reversals(ps[k])
    <3>1. Here(k, t)
      BY <2>2 DEF Here
    <3> QED BY <1>6, <2>1, <2>6, <3>1
  <2> DEFINE f == <<k, <<i, j>>>>
  <2>8. f \in Flips(p)
    BY <1>9, <2>7
  <2>9. Out(f) = t
    BY <2>1, <2>6
  <2> QED BY <2>8, <2>9
<1>14. IsFiniteSet(Bends(p))
  <2>1. Bends(p) \subseteq (1..Len(p)) \X (1..Len(p))
    <3>1. Len(p) \in Nat
      BY <1>3
    <3>2. Inner(p) \subseteq 1..Len(p)
      BY <3>1 DEF Inner
    <3> QED BY <3>2 DEF Bends, Bent
  <2>2. IsFiniteSet(1..Len(p))
    <3>1. 1 \in Int /\ Len(p) \in Int
      BY <1>3
    <3> QED BY <3>1, FS_Interval
  <2>3. IsFiniteSet((1..Len(p)) \X (1..Len(p)))
    BY <2>2, FS_Product
  <2> QED BY <2>1, <2>3, FS_Subset
<1> HIDE DEF F
<1>15. ExistsBijection(Bends(p), Flips(p))
  <2>1. F \in Bijection(Flips(p), Bends(p))
    BY <1>11, <1>12, <1>13, Fun_IsBij
  <2>2. ExistsBijection(Flips(p), Bends(p))
    BY <2>1 DEF ExistsBijection
  <2> QED BY <2>2, Fun_ExistsBijSymmetric
<1> QED BY <1>14, <1>15, FS_Bijection

Backwards(p, i) == Len(p) + 1 - i
Mirror(p, t) == <<Backwards(p, t[2]), Backwards(p, t[1])>>

\* The way back turns where the way out did, to the other side.
LEMMA WayBack ==
  ASSUME NEW p \in Seq(Places), NEW q, q = Reverse(p)
  PROVE  /\ q \in Seq(Places) /\ Len(q) = Len(p) /\ Reverse(q) = p
         /\ \A i \in 1..Len(p) : q[i] = p[Len(p) + 1 - i]
<1> DEFINE L == Len(p)
<1>1. L \in Nat /\ \A i \in 1..L : p[i] \in Places
  OBVIOUS
<1>2. q = [i \in 1..L |-> p[(L - i) + 1]]
  BY DEF Reverse
<1>3. \A i \in 1..L : (L - i) + 1 = L + 1 - i /\ L + 1 - i \in 1..L
  BY <1>1
<1>4. \A i \in 1..L : q[i] = p[L + 1 - i] /\ q[i] \in Places
  BY <1>1, <1>2, <1>3
<1>5. q \in Seq(Places) /\ Len(q) = L
  <2> HIDE DEF Places
  <2>1. q \in [1..L -> Places]
    BY <1>2, <1>4
  <2> HIDE DEF L
  <2> QED BY <1>1, <2>1
<1>6. Reverse(q) = p
  <2>1. Reverse(q) = [i \in 1..L |-> q[(L - i) + 1]]
    BY <1>5 DEF Reverse
  <2>2. \A i \in 1..L : q[(L - i) + 1] = p[i]
    <3> SUFFICES ASSUME NEW i \in 1..L PROVE q[(L - i) + 1] = p[i]
      OBVIOUS
    <3>1. PICK j : j = (L - i) + 1
      OBVIOUS
    <3>2. j \in 1..L /\ L + 1 - j = i
      <4> HIDE DEF L
      <4> QED BY <1>1, <3>1
    <3> QED BY <1>4, <3>1, <3>2
  <2>3. p = [i \in 1..L |-> p[i]]
    OBVIOUS
  <2> QED BY <2>1, <2>2, <2>3
<1> QED BY <1>4, <1>5, <1>6

Opposed(a, b, c, d) ==
  /\ (0 - c) * (0 - a) = a * c /\ (0 - d) * (0 - b) = b * d
  /\ (0 - c) * (0 - b) - (0 - d) * (0 - a) = 0 - (a * d - b * c)

LEMMA Opposite ==
  ASSUME NEW a \in Int, NEW b \in Int, NEW c \in Int, NEW d \in Int
  PROVE  Opposed(a, b, c, d)
<1>1. \A x, y \in Int : (0 - y) * (0 - x) = x * y
  OBVIOUS
<1>2. /\ (0 - c) * (0 - b) = b * c /\ (0 - d) * (0 - a) = a * d
      /\ (0 - c) * (0 - a) = a * c /\ (0 - d) * (0 - b) = b * d
  BY <1>1
<1>3. PICK x \in Int : x = b * c
  OBVIOUS
<1>4. PICK y \in Int : y = a * d
  OBVIOUS
<1>5. (0 - c) * (0 - b) - (0 - d) * (0 - a) = x - y
  BY <1>2, <1>3, <1>4
<1>6. x - y = 0 - (y - x)
  OBVIOUS
<1> QED BY <1>2, <1>3, <1>4, <1>5, <1>6 DEF Opposed

LEMMA TurnsBack ==
  ASSUME NEW p \in Seq(Places), NEW i \in Inner(p)
  PROVE  /\ Backwards(p, i) \in Inner(Reverse(p))
         /\ Dot(Reverse(p), Backwards(p, i)) = Dot(p, i)
         /\ Cross(Reverse(p), Backwards(p, i)) = 0 - Cross(p, i)
         /\ Cross(p, i) \in Int
<1> DEFINE L == Len(p)
<1>1. PICK q : q = Reverse(p)
  OBVIOUS
<1>2. q \in Seq(Places) /\ Len(q) = L /\ \A h \in 1..L : q[h] = p[L + 1 - h]
  BY <1>1, WayBack
<1>3. L \in Nat /\ i \in 2..L - 1
  BY DEF Inner
<1>4. PICK j : j = L + 1 - i
  OBVIOUS
<1>5. /\ j \in 2..L - 1 /\ j \in 1..L /\ j - 1 \in 1..L /\ j + 1 \in 1..L
      /\ L + 1 - j = i /\ L + 1 - (j - 1) = i + 1 /\ L + 1 - (j + 1) = i - 1
  BY <1>3, <1>4
<1>6. q[j] = p[i] /\ q[j - 1] = p[i + 1] /\ q[j + 1] = p[i - 1]
  BY <1>2, <1>5
<1>7. p[i] \in Places /\ p[i - 1] \in Places /\ p[i + 1] \in Places
  BY <1>3
<1>8. /\ p[i][1] \in Int /\ p[i][2] \in Int /\ p[i - 1][1] \in Int /\ p[i - 1][2] \in Int
      /\ p[i + 1][1] \in Int /\ p[i + 1][2] \in Int
  BY <1>7 DEF Places
<1>8a. PICK x1 \in Int, x2 \in Int, x3 \in Int :
         x1 = p[i - 1][1] /\ x2 = p[i][1] /\ x3 = p[i + 1][1]
  BY <1>8
<1>8b. PICK y1 \in Int, y2 \in Int, y3 \in Int :
         y1 = p[i - 1][2] /\ y2 = p[i][2] /\ y3 = p[i + 1][2]
  BY <1>8
<1> DEFINE a == x2 - x1
           b == y2 - y1
           c == x3 - x2
           d == y3 - y2
<1>9. /\ q[j][1] - q[j - 1][1] = 0 - c /\ q[j][2] - q[j - 1][2] = 0 - d
      /\ q[j + 1][1] - q[j][1] = 0 - a /\ q[j + 1][2] - q[j][2] = 0 - b
      /\ a \in Int /\ b \in Int /\ c \in Int /\ d \in Int
  <2>1. /\ q[j][1] = x2 /\ q[j - 1][1] = x3 /\ q[j + 1][1] = x1
        /\ q[j][2] = y2 /\ q[j - 1][2] = y3 /\ q[j + 1][2] = y1
    BY <1>6, <1>8a, <1>8b
  <2>2. /\ x2 - x3 = 0 - c /\ y2 - y3 = 0 - d /\ x1 - x2 = 0 - a /\ y1 - y2 = 0 - b
        /\ a \in Int /\ b \in Int /\ c \in Int /\ d \in Int
    OBVIOUS
  <2> HIDE DEF a, b, c, d
  <2> QED BY <2>1, <2>2
<1>10. Dot(p, i) = a * c + b * d /\ Cross(p, i) = a * d - b * c
  BY <1>8a, <1>8b DEF Dot, Cross
<1>11. /\ Dot(q, j) = (0 - c) * (0 - a) + (0 - d) * (0 - b)
       /\ Cross(q, j) = (0 - c) * (0 - b) - (0 - d) * (0 - a)
  <2> HIDE DEF a, b, c, d
  <2> QED BY <1>9 DEF Dot, Cross
<1> HIDE DEF a, b, c, d
<1>12. /\ (0 - c) * (0 - a) = a * c /\ (0 - d) * (0 - b) = b * d
       /\ (0 - c) * (0 - b) - (0 - d) * (0 - a) = 0 - (a * d - b * c)
  <2>1. Opposed(a, b, c, d)
    BY <1>9, Opposite
  <2> QED BY <2>1 DEF Opposed
<1>13. Dot(q, j) = Dot(p, i) /\ Cross(q, j) = 0 - Cross(p, i)
  BY <1>10, <1>11, <1>12
<1>14. Cross(p, i) \in Int
  BY <1>9, <1>10
<1>15. j \in Inner(q) /\ Backwards(p, i) = j
  BY <1>2, <1>4, <1>5 DEF Inner, Backwards
<1> QED BY <1>1, <1>13, <1>14, <1>15

LEMMA CuspsBack ==
  ASSUME NEW p \in Seq(Places), NEW i \in Inner(p)
  PROVE  /\ i \in Cusps(p) <=> Backwards(p, i) \in Cusps(Reverse(p))
         /\ i \in Bent(p) <=> Backwards(p, i) \in Bent(Reverse(p))
<1> DEFINE q == Reverse(p)
           j == Backwards(p, i)
<1>1. /\ j \in Inner(q) /\ Dot(q, j) = Dot(p, i)
      /\ Cross(q, j) = 0 - Cross(p, i) /\ Cross(p, i) \in Int
  BY TurnsBack
<1> HIDE DEF q, j
<1>2. i \in Cusps(p) <=> j \in Cusps(q)
  BY <1>1 DEF Cusps
<1>3. Cross(q, j) # 0 <=> Cross(p, i) # 0
  BY <1>1
<1>4. i \in Bent(p) <=> j \in Bent(q)
  BY <1>1, <1>2, <1>3 DEF Bent
<1> QED BY <1>2, <1>4 DEF q, j

\* Twice back is there again.
LEMMA BackAgain ==
  ASSUME NEW p \in Seq(Places), NEW i \in Int
  PROVE  /\ Backwards(p, i) \in Int /\ Backwards(Reverse(p), Backwards(p, i)) = i
         /\ Inner(p) \subseteq Int /\ Len(p) \in Nat
<1>1. PICK q : q = Reverse(p)
  OBVIOUS
<1>2. Len(q) = Len(p)
  BY <1>1, WayBack
<1>3. Len(p) \in Nat
  OBVIOUS
<1>4. Len(p) + 1 - i \in Int /\ Len(p) + 1 - (Len(p) + 1 - i) = i
  BY <1>3
<1>5. Inner(p) \subseteq Int
  BY <1>3 DEF Inner
<1> QED BY <1>1, <1>2, <1>3, <1>4, <1>5 DEF Backwards

LEMMA EndsBack ==
  ASSUME NEW p \in Seq(Places), Len(p) >= 2, NEW e \in Ends(p)
  PROVE  e \in Int /\ Backwards(p, e) \in Ends(Reverse(p))
<1>1. Len(Reverse(p)) = Len(p) /\ Len(p) \in Nat
  BY WayBack
<1>2. e = 1 \/ e = Len(p) \/ e \in Cusps(p)
  BY DEF Ends
<1>3. CASE e = 1
  BY <1>1, <1>3 DEF Ends, Backwards
<1>4. CASE e = Len(p)
  BY <1>1, <1>4 DEF Ends, Backwards
<1>5. CASE e \in Cusps(p)
  <2>1. e \in Inner(p) /\ e \in Int
    BY <1>1, <1>5 DEF Cusps, Inner
  <2>2. Backwards(p, e) \in Cusps(Reverse(p))
    BY <1>5, <2>1, CuspsBack
  <2> QED BY <2>1, <2>2 DEF Ends
<1> QED BY <1>2, <1>3, <1>4, <1>5

LEMMA SpanBack ==
  ASSUME NEW p \in Seq(Places), Len(p) >= 2, NEW t \in Spans(p)
  PROVE  Mirror(p, t) \in Spans(Reverse(p)) /\ t[1] \in Int /\ t[2] \in Int /\ t = <<t[1], t[2]>>
<1> DEFINE q == Reverse(p)
           x == Backwards(p, t[2])
           y == Backwards(p, t[1])
<1>1. /\ t[1] \in Ends(p) /\ t[2] \in Ends(p) /\ t = <<t[1], t[2]>> /\ t[1] + 2 <= t[2]
      /\ \A h \in Ends(p) : h <= t[1] \/ t[2] <= h
  BY DEF Spans
<1>2. t[1] \in Int /\ t[2] \in Int /\ x \in Ends(q) /\ y \in Ends(q)
  BY <1>1, EndsBack
<1>3. Len(p) \in Nat
  OBVIOUS
<1>4. q \in Seq(Places) /\ Len(q) = Len(p) /\ Reverse(q) = p
  BY WayBack
<1>5. x + 2 <= y
  BY <1>1, <1>2, <1>3 DEF Backwards
<1>6. ASSUME NEW h \in Ends(q) PROVE h <= x \/ y <= h
  <2>1. h \in Int /\ Backwards(q, h) \in Ends(p)
    <3> HIDE DEF q
    <3> QED BY <1>4, EndsBack
  <2>2. Backwards(q, h) = Len(p) + 1 - h
    BY <1>4 DEF Backwards
  <2>3. Len(p) + 1 - h <= t[1] \/ t[2] <= Len(p) + 1 - h
    BY <1>1, <2>1, <2>2
  <2> HIDE DEF q
  <2> QED BY <1>2, <1>3, <2>1, <2>3 DEF Backwards
<1>7. <<x, y>> \in Spans(q)
  <2> HIDE DEF q, x, y
  <2> QED BY <1>2, <1>5, <1>6 DEF Spans
<1> QED BY <1>1, <1>2, <1>7 DEF Mirror

LEMMA BendBack ==
  ASSUME NEW p \in Seq(Places), NEW t \in Bends(p)
  PROVE  Mirror(p, t) \in Bends(Reverse(p)) /\ t[1] \in Int /\ t[2] \in Int /\ t = <<t[1], t[2]>>
<1> DEFINE q == Reverse(p)
           x == Backwards(p, t[2])
           y == Backwards(p, t[1])
<1>1. /\ t[1] \in Bent(p) /\ t[2] \in Bent(p) /\ t = <<t[1], t[2]>> /\ t[1] < t[2]
      /\ \A h \in Inner(p) : t[1] < h /\ h < t[2] => h \notin Cusps(p) /\ Cross(p, h) = 0
      /\ (Cross(p, t[1]) > 0) # (Cross(p, t[2]) > 0)
  BY DEF Bends
<1>2. t[1] \in Inner(p) /\ t[2] \in Inner(p) /\ Len(p) \in Nat
  BY <1>1 DEF Bent
<1>3. t[1] \in Int /\ t[2] \in Int
  BY <1>2 DEF Inner
<1>4. q \in Seq(Places) /\ Len(q) = Len(p) /\ Reverse(q) = p
  BY WayBack
<1>5. /\ x \in Bent(q) /\ Cross(q, x) = 0 - Cross(p, t[2]) /\ Cross(p, t[2]) \in Int
      /\ y \in Bent(q) /\ Cross(q, y) = 0 - Cross(p, t[1]) /\ Cross(p, t[1]) \in Int
  BY <1>1, <1>2, TurnsBack, CuspsBack
<1>6. x < y
  BY <1>1, <1>2, <1>3 DEF Backwards
<1>7. (Cross(q, x) > 0) # (Cross(q, y) > 0)
  <2>1. Cross(p, t[1]) # 0 /\ Cross(p, t[2]) # 0
    BY <1>1 DEF Bent
  <2> HIDE DEF q, x, y
  <2> QED BY <1>1, <1>5, <2>1
<1>8. ASSUME NEW h \in Inner(q), x < h, h < y PROVE h \notin Cusps(q) /\ Cross(q, h) = 0
  <2> DEFINE g == Backwards(q, h)
  <2> HIDE DEF q
  <2>1. /\ g \in Inner(p) /\ Cross(p, g) = 0 - Cross(q, h) /\ Cross(q, h) \in Int
        /\ h \in Cusps(q) <=> g \in Cusps(p)
    BY <1>4, TurnsBack, CuspsBack
  <2>2. h \in Int /\ g = Len(p) + 1 - h
    BY <1>2, <1>4 DEF Inner, Backwards
  <2>3. t[1] < g /\ g < t[2]
    BY <1>2, <1>3, <1>8, <2>2 DEF Backwards
  <2>4. g \notin Cusps(p) /\ Cross(p, g) = 0
    BY <1>1, <2>1, <2>3
  <2> HIDE DEF g
  <2> QED BY <2>1, <2>4
<1>9. <<x, y>> \in Bends(q)
  <2> HIDE DEF q, x, y
  <2> QED BY <1>5, <1>6, <1>7, <1>8 DEF Bends
<1> QED BY <1>1, <1>3, <1>9 DEF Mirror

\* The pairs of S, seen from the end of p, are in T.
MirroredIn(p, S, T) ==
  \A t \in S : Mirror(p, t) \in T /\ t[1] \in Int /\ t[2] \in Int /\ t = <<t[1], t[2]>>

LEMMA MirrorAgain ==
  ASSUME NEW p \in Seq(Places), NEW t, t[1] \in Int, t[2] \in Int, t = <<t[1], t[2]>>
  PROVE  Mirror(Reverse(p), Mirror(p, t)) = t
<1>1. /\ Backwards(Reverse(p), Backwards(p, t[1])) = t[1]
      /\ Backwards(Reverse(p), Backwards(p, t[2])) = t[2]
  BY BackAgain
<1>2. /\ Mirror(p, t)[1] = Backwards(p, t[2]) /\ Mirror(p, t)[2] = Backwards(p, t[1])
  BY DEF Mirror
<1>3. Mirror(Reverse(p), Mirror(p, t)) = <<t[1], t[2]>>
  BY <1>1, <1>2 DEF Mirror
<1> QED BY <1>3

\* As many, if there and back is where one was.
LEMMA SameBack ==
  ASSUME NEW p \in Seq(Places), NEW S, NEW T, IsFiniteSet(S),
         MirroredIn(p, S, T), MirroredIn(Reverse(p), T, S)
  PROVE  Cardinality(T) = Cardinality(S)
<1> DEFINE F == [t \in S |-> Mirror(p, t)]
           q == Reverse(p)
<1>1. q \in Seq(Places) /\ Reverse(q) = p
  BY WayBack
<1>2. F \in [S -> T]
  BY DEF MirroredIn
<1>3. ASSUME NEW t \in S, NEW u \in S, F[t] = F[u] PROVE t = u
  <2>1. Mirror(p, t) = Mirror(p, u)
    BY <1>3
  <2>2. Mirror(q, Mirror(p, t)) = t /\ Mirror(q, Mirror(p, u)) = u
    BY MirrorAgain DEF MirroredIn
  <2> QED BY <2>1, <2>2
<1>4. ASSUME NEW t \in T PROVE \E u \in S : F[u] = t
  <2>1. Mirror(q, t) \in S /\ t[1] \in Int /\ t[2] \in Int /\ t = <<t[1], t[2]>>
    BY DEF MirroredIn
  <2> HIDE DEF q
  <2>2. Mirror(p, Mirror(q, t)) = t
    BY <1>1, <2>1, MirrorAgain
  <2> QED BY <2>1, <2>2
<1> HIDE DEF F
<1> QED BY <1>2, <1>3, <1>4, SameNumber

LEMMA MeasuredBothWays ==
  ASSUME NEW p \in Seq(Places)
  PROVE  Metrics(Reverse(p)) = Metrics(p)
<1>1. PICK q : q = Reverse(p)
  OBVIOUS
<1>2. q \in Seq(Places) /\ Len(q) = Len(p) /\ Reverse(q) = p /\ Len(p) \in Nat
      /\ \A i \in 1..Len(p) : q[i] = p[Len(p) + 1 - i]
  BY <1>1, WayBack
<1>3. CASE Len(p) < 2
  <2>1. \A i \in 1..Len(p) : i = 1 /\ Len(p) + 1 - i = i
    BY <1>2, <1>3
  <2>2. \A i \in 1..Len(p) : q[i] = p[i]
    BY <1>2, <2>1
  <2>3. q = p
    <3> HIDE DEF Places
    <3> QED BY <1>2, <2>2, SeqEqual
  <2> QED BY <1>1, <2>3
<1>4. CASE ~(Len(p) < 2)
  <2>0. Len(p) >= 2 /\ Len(q) >= 2
    BY <1>2, <1>4
  <2>1. Cardinality(Spans(q)) = Cardinality(Spans(p))
    <3>1. MirroredIn(p, Spans(p), Spans(q)) /\ MirroredIn(q, Spans(q), Spans(p))
      BY <1>1, <1>2, <2>0, SpanBack DEF MirroredIn
    <3> QED BY <1>1, <2>0, <3>1, SpansCounted, SameBack
  <2>2. Cardinality(Bends(q)) = Cardinality(Bends(p))
    <3>1. MirroredIn(p, Bends(p), Bends(q)) /\ MirroredIn(q, Bends(q), Bends(p))
      BY <1>1, <1>2, BendBack DEF MirroredIn
    <3> QED BY <1>1, <2>0, <3>1, BendsCounted, SameBack
  <2>3. /\ Cardinality(SplitAtCusps(q)) = Cardinality(SplitAtCusps(p))
        /\ Cardinality(Flips(q)) = Cardinality(Flips(p))
        /\ IsFiniteSet(SplitAtCusps(q)) /\ IsFiniteSet(SplitAtCusps(p))
    BY <1>2, <2>0, <2>1, <2>2, SpansCounted, BendsCounted
  <2>4. SplitAtCusps(q) = {} <=> SplitAtCusps(p) = {}
    BY <2>3, FS_EmptySet
  <2>5. \A r : Metrics(r) =
          [reversals |-> Cardinality(Flips(r)),
           cusps |-> IF SplitAtCusps(r) = {} THEN 0 ELSE Cardinality(SplitAtCusps(r)) - 1]
    BY DEF Metrics, Flips
  <2> QED BY <1>1, <2>3, <2>4, <2>5
<1> QED BY <1>3, <1>4

LEMMA CutWhereItTurns ==
  ASSUME NEW p \in Seq(Places), Len(p) >= 2
  PROVE  /\ \A k \in DOMAIN Pieces(p) : Cusps(Pieces(p)[k]) = {}
         /\ \E at \in [1..Len(Pieces(p)) + 1 -> 1..Len(p)] : CutAt(p, Pieces(p), at)
<1> DEFINE ps == Pieces(p)
<1>1. PICK at : Laid(p, ps, at)
  BY PiecesLaid
<1>2. PICK m : Course(p, ps, at, m)
  BY <1>1, LaidIsCourse
<1> HIDE DEF ps
<1>3. /\ m \in Nat /\ DOMAIN ps = 1..m
      /\ at \in [1..m + 1 -> 1..Len(p)]
      /\ \A k \in 1..m : at[k] < at[k + 1] /\ ps[k] = SubSeq(p, at[k], at[k + 1])
  BY <1>2 DEF Course
<1>4. ASSUME NEW k \in DOMAIN ps, NEW i \in Cusps(ps[k]) PROVE FALSE
  <2>1. k \in 1..m /\ k \in 1..m + 1 /\ k + 1 \in 1..m + 1
    BY <1>3
  <2>2. at[k] \in 1..Len(p) /\ at[k + 1] \in 1..Len(p) /\ at[k] < at[k + 1]
        /\ ps[k] = SubSeq(p, at[k], at[k + 1])
    BY <1>3, <2>1
  <2>3. PieceFrom(p, at[k], at[k + 1], ps[k])
    BY <2>2, PieceOfPlan
  <2>4. i \in Inner(ps[k]) /\ Dot(ps[k], i) < 0
    BY <1>4 DEF Cusps
  <2>5. Dot(ps[k], i) = Dot(p, at[k] + i - 1)
    BY <2>3, <2>4, PieceTurns
  <2>6. at[k] \in Int /\ at[k + 1] \in Int /\ i \in 2..at[k + 1] - at[k]
    BY <2>3, <2>4 DEF PieceFrom
  <2>7. PICK h \in Int : h = at[k] + i - 1
    BY <2>6
  <2>8. at[k] < h /\ h < at[k + 1]
    BY <2>6, <2>7
  <2>9. h \in Inner(p) /\ h \notin Cusps(p)
    BY <1>2, <2>1, <2>8, NoneInside
  <2> QED BY <2>4, <2>5, <2>7, <2>9 DEF Cusps
<1>5. at \in [1..Len(ps) + 1 -> 1..Len(p)] /\ CutAt(p, ps, at)
  BY <1>1 DEF Laid, ps
<1>6. /\ \A k \in DOMAIN ps : Cusps(ps[k]) = {}
      /\ \E b \in [1..Len(ps) + 1 -> 1..Len(p)] : CutAt(p, ps, b)
  BY <1>4, <1>5
<1> QED BY <1>6 DEF ps

\* PlanIsMeasured, whatever the plan: it is cut exactly where it doubles back, and
\* driven the other way it measures the same.
THEOREM MeasureOfPlan == PlanSpec => []PlanIsMeasured
<1> DEFINE Inv == pts \in Seq(Places)
<1>1. PlanInit => Inv
  <2>1. <<>> \in Seq(Places)
    OBVIOUS
  <2> QED BY <2>1 DEF PlanInit
<1>2. Inv /\ [PlanNext]_pts => Inv'
  <2> SUFFICES ASSUME Inv, PlanNext PROVE Inv'
    OBVIOUS
  <2>1. PICK x \in Xs, y \in Ys : pts' = Append(pts, <<x, y>>)
    BY DEF PlanNext
  <2>2. <<x, y>> \in Places
    BY PlanAssumption DEF Places
  <2> HIDE DEF Places
  <2> QED BY <2>1, <2>2
<1>3. Inv => PlanIsMeasured
  <2> SUFFICES ASSUME Inv PROVE PlanIsMeasured
    OBVIOUS
  <2>1. SameBothWays
    BY MeasuredBothWays DEF SameBothWays
  <2>2. PiecesPartitionPlan
    BY CutWhereItTurns DEF PiecesPartitionPlan
  <2> QED BY <2>1, <2>2 DEF PlanIsMeasured
<1> HIDE DEF Inv
<1> QED BY <1>1, <1>2, <1>3, PTL DEF PlanSpec
=============================================================================
