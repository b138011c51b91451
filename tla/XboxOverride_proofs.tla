--------------------------- MODULE XboxOverride_proofs ---------------------------
(***************************************************************************)
(* What the manual override promises, for every choice of its timeouts     *)
(* that XboxOverrideAssumption admits.                                     *)
(***************************************************************************)
EXTENDS XboxOverride, TLAPS

LEMMA OlderBound ==
  ASSUME NEW limit \in Nat, NEW age \in 0..(limit + 1)
  PROVE  /\ Older(age, limit) \in 0..(limit + 1)
         /\ Older(age, limit) <= age + 1 /\ age <= Older(age, limit)
         /\ age <= limit => Older(age, limit) = age + 1
BY DEF Older

LEMMA ConstantsNat ==
  /\ JoyTimeout \in Nat /\ TailTime \in Nat /\ MaxLate \in Nat
  /\ MuxTimeout \in Nat /\ JoyDepth \in Nat /\ JoyDepth > 0
  /\ Dropout \in Nat /\ Reach \in Nat /\ Longest \in Nat
BY XboxOverrideAssumption DEF Dropout, Reach, Longest

LEMMA ReportTyped ==
  ASSUME TypeOK
  PROVE  /\ CurrentReport \in Reports
         /\ \A t \in Triggers : CurrentReport[t] = Reported(t)
         /\ AtRest(CurrentReport) \subseteq known /\ Told(CurrentReport) = known
<1>1. CurrentReport \in Reports /\ \A t \in Triggers : CurrentReport[t] = Reported(t)
  BY DEF TypeOK, CurrentReport, Reported, Triggers, Reports
<1>2. AtRest(CurrentReport) \subseteq known
  BY <1>1 DEF AtRest, Reported
<1>3. \A t \in Triggers : trigger[t] # "unset"
  BY DEF TypeOK
<1>4. Told(CurrentReport) = known
  BY <1>1, <1>3 DEF Told, Reported, TypeOK
<1> QED BY <1>1, <1>2, <1>4

LEMMA PublishTyped ==
  ASSUME NEW m \in {"zero", "moves"}, Publish(m)
  PROVE  command' \in {"zero", "moves"} /\ teleop_age' = 0 /\ command' = m
BY DEF Publish

\* The queue drops its first report when it is full.
LEMMA QueuedAt ==
  ASSUME TypeOK, NEW r \in Reports
  PROVE  /\ Queued(r) \in Seq(Reports) /\ Len(Queued(r)) <= JoyDepth /\ Queued(r) # <<>>
         /\ \E d \in {0, 1} :
              /\ Len(Queued(r)) = Len(reports) + 1 - d
              /\ \A i \in DOMAIN Queued(r) :
                   Queued(r)[i] = IF i + d \in DOMAIN reports THEN reports[i + d] ELSE r
<1> DEFINE q == Append(reports, r)
<1> USE ConstantsNat
<1>1. /\ reports \in Seq(Reports) /\ Len(reports) \in Nat /\ Len(reports) <= JoyDepth
      /\ DOMAIN reports = 1..Len(reports)
  BY DEF TypeOK
<1>2. q \in Seq(Reports) /\ Len(q) = Len(reports) + 1
  BY <1>1
<1>3. \A i \in 1..(Len(reports) + 1) :
        q[i] = IF i \in DOMAIN reports THEN reports[i] ELSE r
  BY <1>1
<1>4. CASE Len(q) > JoyDepth
  <2>1. Queued(r) = Tail(q) /\ q # <<>>
    BY <1>2, <1>4 DEF Queued
  <2>2. Tail(q) \in Seq(Reports) /\ Len(Tail(q)) = Len(q) - 1
    BY <1>1, <1>2, <2>1
  <2>3. \A i \in 1..(Len(q) - 1) : Tail(q)[i] = q[i + 1]
    BY <1>1, <1>2, <2>1
  <2>4. Len(q) = JoyDepth + 1
    BY <1>1, <1>2, <1>4
  <2>5. \A i \in DOMAIN Queued(r) :
          Queued(r)[i] = IF i + 1 \in DOMAIN reports THEN reports[i + 1] ELSE r
    <3> TAKE i \in DOMAIN Queued(r)
    <3>1. i \in 1..Len(reports)
      BY <1>1, <1>2, <2>1, <2>2
    <3>2. i + 1 \in 1..(Len(reports) + 1)
      BY <1>1, <3>1
    <3>3. Queued(r)[i] = q[i + 1]
      BY <1>1, <1>2, <2>1, <2>3, <3>1
    <3> QED BY <1>3, <3>2, <3>3
  <2>6. Len(Queued(r)) = Len(reports) + 1 - 1 /\ Queued(r) # <<>>
    BY <1>1, <1>2, <2>1, <2>2, <2>4
  <2> QED BY <1>1, <1>2, <2>1, <2>2, <2>4, <2>5, <2>6
<1>5. CASE ~(Len(q) > JoyDepth)
  <2>1. Queued(r) = q
    BY <1>5 DEF Queued
  <2>2. \A i \in DOMAIN Queued(r) :
          Queued(r)[i] = IF i + 0 \in DOMAIN reports THEN reports[i + 0] ELSE r
    BY <1>1, <1>2, <1>3, <2>1
  <2> QED BY <1>1, <1>2, <1>5, <2>1, <2>2
<1> QED BY <1>4, <1>5

LEMMA SendsTyped ==
  ASSUME TypeOK, NEW r \in Reports, Sends(r)
  PROVE  reports' \in Seq(Reports) /\ Len(reports') <= JoyDepth
BY QueuedAt DEF Sends, TypeOK

\* What is left of the queue when its head is taken.
LEMMA TailAt ==
  ASSUME TypeOK, reports # <<>>
  PROVE  /\ Head(reports) = reports[1] /\ reports[1] \in Reports /\ 1 \in DOMAIN reports
         /\ Tail(reports) \in Seq(Reports) /\ Len(Tail(reports)) <= JoyDepth
         /\ \A i \in DOMAIN Tail(reports) :
              Tail(reports)[i] = reports[i + 1] /\ i + 1 \in DOMAIN reports /\ i >= 1
<1>1. /\ reports \in Seq(Reports) /\ Len(reports) \in Nat /\ Len(reports) <= JoyDepth
      /\ DOMAIN reports = 1..Len(reports) /\ Len(reports) > 0
  BY DEF TypeOK
<1>2. Tail(reports) \in Seq(Reports) /\ Len(Tail(reports)) = Len(reports) - 1
  BY <1>1
<1>3. DOMAIN Tail(reports) = 1..(Len(reports) - 1)
  BY <1>1, <1>2
<1>4. \A i \in 1..(Len(reports) - 1) : Tail(reports)[i] = reports[i + 1]
  BY <1>1
<1>5. Head(reports) = reports[1] /\ reports[1] \in Reports /\ 1 \in DOMAIN reports
  BY <1>1
<1> QED BY <1>1, <1>2, <1>3, <1>4, <1>5, ConstantsNat

\* What a tick may do to the node, whichever branch it takes.
LEMMA TickCases ==
  ASSUME TypeOK, Tick
  PROVE  /\ running /\ late > 0 /\ late' = 0
         /\ armed' \subseteq Triggers /\ engaged' \in BOOLEAN /\ tail' \in 0..TailTime
         /\ \/ \E m \in {"zero", "moves"} : Publish(m)
            \/ Silence
         /\ free_for' = IF engaged' THEN 0 ELSE free_for
         /\ UNCHANGED <<running, indices, joy, quiet, queue, hand, idle, rested>>
<1> USE ConstantsNat DEF TypeOK
<1>z. "zero" \in {"zero", "moves"}
  OBVIOUS
<1>1. CASE Stale /\ Disarm
  <2>1. Publish("zero") \/ Silence
    BY <1>1 DEF Disarm, TailOrSilence
  <2>2. armed' \subseteq Triggers /\ engaged' \in BOOLEAN /\ tail' \in 0..TailTime
    <3>1. armed' \subseteq Triggers
      BY <1>1 DEF Disarm
    <3>2. engaged' \in BOOLEAN
      BY <1>1 DEF Disarm
    <3>3. tail' \in 0..TailTime
      BY <1>1 DEF Disarm
    <3> QED
      BY <3>1, <3>2, <3>3
  <2>3. \/ \E m \in {"zero", "moves"} : Publish(m)
        \/ Silence
    BY <1>z, <2>1
  <2> QED
    BY <2>2, <2>3 DEF Tick
<1>2. CASE ~Stale /\ indices = "outside"
             /\ TailOrSilence(tail) /\ UNCHANGED <<armed, engaged, tail>>
  BY <1>2 DEF Tick, TailOrSilence
<1>3. CASE ~Stale /\ indices # "outside" /\ Operate
  <2>1. armed' \subseteq Triggers
    BY <1>3 DEF Operate, ArmedBy
  <2>2. Motion(joy) \in {"zero", "moves"}
    BY DEF Motion
  <2>3. engaged' \in BOOLEAN
    BY <1>3 DEF Operate, Disengage
  <2>6. tail' \in 0..TailTime
    BY <1>3 DEF Operate, Disengage
  <2>5. Publish(Motion(joy)) \/ Publish("zero") \/ Silence
    BY <1>3 DEF Operate, Disengage, TailOrSilence
  <2>4. \/ \E m \in {"zero", "moves"} : Publish(m)
        \/ Silence
    BY <1>z, <2>2, <2>5
  <2> QED
    BY <2>1, <2>3, <2>4, <2>6 DEF Tick
<1> QED
  BY <1>1, <1>2, <1>3 DEF Tick

LEMMA EndsTyped ==
  ASSUME TypeOK, Ends
  PROVE  /\ running' \in BOOLEAN /\ engaged' \in BOOLEAN
         /\ joy' \in {NoJoy} \cup Reports /\ armed' \subseteq Triggers
         /\ reports' \in Seq(Reports) /\ Len(reports') <= JoyDepth /\ behind' \in 0..MaxLate
         /\ tail' \in 0..TailTime /\ late' \in 0..MaxLate
         /\ quiet' \in 0..(Dropout + 1) /\ free_for' \in 0..Longest
         /\ UNCHANGED <<indices, hand, idle, rested>>
<1> USE ConstantsNat DEF Ends
<1>6. reports' \in Seq(Reports) /\ Len(reports') <= JoyDepth /\ behind' \in 0..MaxLate
  OBVIOUS
<1>1. running' \in BOOLEAN /\ engaged' \in BOOLEAN
  OBVIOUS
<1>2. joy' \in {NoJoy} \cup Reports /\ armed' \subseteq Triggers
  OBVIOUS
<1>3. tail' \in 0..TailTime /\ late' \in 0..MaxLate
  OBVIOUS
<1>4. quiet' \in 0..(Dropout + 1)
  OBVIOUS
<1>5. free_for' \in 0..Longest
  BY DEF Longest
<1> QED
  BY <1>1, <1>2, <1>3, <1>4, <1>5, <1>6

LEMMA FreshTyped ==
  ASSUME TypeOK, Fresh
  PROVE  /\ running' \in BOOLEAN /\ engaged' \in BOOLEAN
         /\ indices' \in {"open", "fit", "outside"}
         /\ joy' \in {NoJoy} \cup Reports /\ armed' \subseteq Triggers
         /\ reports' \in Seq(Reports) /\ Len(reports') <= JoyDepth /\ behind' \in 0..MaxLate
         /\ tail' \in 0..TailTime /\ late' \in 0..MaxLate
         /\ quiet' \in 0..(Dropout + 1)
         /\ rested' \subseteq Triggers /\ free_for' \in 0..Longest
<1> USE ConstantsNat DEF Fresh
<1>7. reports' \in Seq(Reports) /\ Len(reports') <= JoyDepth /\ behind' \in 0..MaxLate
  OBVIOUS
<1>1. running' \in BOOLEAN /\ engaged' \in BOOLEAN
  OBVIOUS
<1>2. joy' \in {NoJoy} \cup Reports /\ armed' \subseteq Triggers /\ rested' \subseteq Triggers
  OBVIOUS
<1>3. tail' \in 0..TailTime /\ late' \in 0..MaxLate
  OBVIOUS
<1>4. quiet' \in 0..(Dropout + 1)
  OBVIOUS
<1>5. free_for' \in 0..Longest
  BY DEF Longest
<1>6. indices' \in {"open", "fit", "outside"}
  OBVIOUS
<1> QED
  BY <1>1, <1>2, <1>3, <1>4, <1>5, <1>6, <1>7

LEMMA TypeStep ==
  ASSUME TypeOK, [Next]_vars
  PROVE  TypeOK'
<1> USE ConstantsNat
<1>1. CASE Tick
  BY <1>1, TickCases, PublishTyped DEF TypeOK, Silence, slot, queue, hand
<1>2. CASE OnJoy
  <2>1. AtRest(joy') \subseteq Triggers
    BY DEF AtRest
  <2>2. joy' \in Reports /\ reports' \in Seq(Reports) /\ Len(reports') <= JoyDepth
    BY <1>2, TailAt DEF OnJoy
  <2>3. behind' \in 0..MaxLate
    BY <1>2 DEF OnJoy, TypeOK
  <2> QED
    BY <1>2, <2>1, <2>2, <2>3 DEF OnJoy, TypeOK, hand, slot
<1>3. CASE UnknownPad
  <2>1. Publish("zero") /\ Ends
    BY <1>3 DEF UnknownPad
  <2> QED
    BY <2>1, PublishTyped, EndsTyped DEF TypeOK, hand
<1>4. CASE Stops
  <2>1. Ends /\ (Publish("zero") \/ Silence)
    BY <1>4 DEF Stops
  <2>2. CASE Publish("zero")
    BY <2>1, <2>2, PublishTyped, EndsTyped DEF TypeOK, hand
  <2>3. CASE Silence
    BY <2>1, <2>3, EndsTyped DEF TypeOK, Silence, hand, slot
  <2> QED
    BY <2>1, <2>2, <2>3
<1>5. CASE Starts
  <2>1. Fresh /\ UNCHANGED <<hand, slot, idle>>
    BY <1>5 DEF Starts
  <2> QED
    BY <2>1, FreshTyped DEF TypeOK, hand, slot
<1>6. CASE Operator
  <2>1. /\ pad' \in [plugged : BOOLEAN, measured : BOOLEAN, rb : BOOLEAN]
        /\ trigger' \in [Triggers -> {"rest", "pressed"}] /\ known' \subseteq Triggers
    BY <1>6 DEF Operator, Fingers, TypeOK
  <2>2. idle' \in 0..(Reach + 1)
    BY <1>6 DEF Operator, Fingers, NotedIdle, TypeOK
  <2>3. CurrentReport' \in Reports
    BY <2>1 DEF CurrentReport, Reported, Reports, Triggers
  <2>4. reports' \in Seq(Reports) /\ Len(reports') <= JoyDepth
    BY <1>6, <2>3, SendsTyped DEF Operator
  <2> QED
    BY <1>6, <2>1, <2>2, <2>4 DEF Operator, Fingers, TypeOK, node, slot
<1>7. CASE Unplugged
  BY <1>7 DEF Unplugged, TypeOK, node, queue, slot, hist
<1>8. CASE Plugged
  <2>1. /\ pad' \in [plugged : BOOLEAN, measured : BOOLEAN, rb : BOOLEAN]
        /\ trigger' = trigger /\ known' \subseteq Triggers
    BY <1>8 DEF Plugged, TypeOK
  <2>2. idle' \in 0..(Reach + 1)
    BY <1>8 DEF Plugged, NotedIdle, TypeOK
  <2> QED
    BY <1>8, <2>1, <2>2 DEF Plugged, TypeOK, node, queue, slot
<1>10. CASE Elapse
  <2>1. late' \in 0..MaxLate /\ tail' \in 0..TailTime
    BY <1>10 DEF Elapse, Ages, TypeOK
  <2>2. quiet' \in 0..(Dropout + 1)
    BY <1>10, OlderBound DEF Elapse, Ages, TypeOK
  <2>3. idle' \in 0..(Reach + 1)
    <3>1. Older(idle, Reach) \in 0..(Reach + 1)
      BY OlderBound DEF TypeOK
    <3> QED
      BY <1>10, <3>1 DEF Elapse, Ages
  <2>4. teleop_age' \in 0..(MuxTimeout + 1)
    BY <1>10, OlderBound DEF Elapse, Ages, TypeOK
  <2>5. behind' \in 0..MaxLate
    BY <1>10 DEF Elapse, TypeOK
  <2>6. free_for' \in 0..Longest
    <3>1. Older(free_for, TailTime + MuxTimeout) \in 0..Longest
      <4>1. free_for \in 0..((TailTime + MuxTimeout) + 1) /\ TailTime + MuxTimeout \in Nat
        BY DEF TypeOK, Longest
      <4> QED
        BY <4>1, OlderBound DEF Longest
    <3> QED
      BY <1>10, <3>1 DEF Elapse, Ages, TypeOK
  <2>7. reports' \in Seq(Reports) /\ Len(reports') <= JoyDepth
    BY <1>10, ReportTyped, SendsTyped DEF Elapse
  <2> QED
    BY <1>10, <2>1, <2>2, <2>3, <2>4, <2>5, <2>6, <2>7 DEF Elapse, Ages, TypeOK, hand
<1>11. CASE UNCHANGED vars
  BY <1>11 DEF TypeOK, vars, node, queue, hand, slot, hist
<1> QED
  BY <1>1, <1>2, <1>3, <1>4, <1>5, <1>6, <1>7, <1>8, <1>10, <1>11 DEF Next

\* A tick that finds the pad silent disarms; one that does not arms what it sees
\* at rest.
LEMMA TickArms ==
  ASSUME TypeOK, Tick
  PROVE  /\ Stale => armed' = {} /\ ~engaged'
         /\ ~Stale => \/ armed' = armed /\ engaged' = engaged /\ indices = "outside"
                      \/ /\ armed' = armed \cup AtRest(joy) /\ indices # "outside"
                         /\ engaged' <=> Owns(joy)
<1>1. CASE Stale /\ Disarm
  BY <1>1 DEF Disarm
<1>2. CASE ~Stale /\ indices = "outside" /\ UNCHANGED <<armed, engaged, tail>>
  BY <1>2
<1>3. CASE ~Stale /\ indices # "outside" /\ Operate
  <2>1. armed' = armed \cup AtRest(joy)
    BY <1>3 DEF Operate, ArmedBy, AtRest
  <2>2. engaged' <=> Owns(joy)
    BY <1>3 DEF Operate, Disengage
  <2> QED
    BY <1>3, <2>1, <2>2
<1> QED
  BY <1>1, <1>2, <1>3 DEF Tick

LEMMA AtRestOfNone == AtRest(NoJoy) = {}
BY DEF AtRest, NoJoy, Triggers

LEMMA PadStep ==
  ASSUME TypeOK, PadInv, QueueInv, [Next]_vars
  PROVE  PadInv'
<1> USE ConstantsNat
<1>1. CASE Tick
  <2>1. /\ running /\ late > 0 /\ late' = 0 /\ armed' \subseteq Triggers
        /\ UNCHANGED <<running, indices, joy, quiet, pad, known>>
    BY <1>1, TickCases DEF hand
  <2>2. quiet > JoyTimeout + late' => armed' = {} /\ ~engaged'
    BY <1>1, <2>1, TickArms DEF Stale, TypeOK
  <2>3. running /\ pad.plugged => armed' \subseteq known
    <3>1. CASE Stale
      BY <1>1, <3>1, TickArms
    <3>2. CASE ~Stale
      <4>1. Current
        BY <2>1, <3>2 DEF Stale, Current, TypeOK
      <4> QED
        BY <1>1, <2>1, <3>2, <4>1, TickArms DEF PadInv
    <3> QED
      BY <3>1, <3>2
  <2>4. Current => armed' \subseteq Told(joy)
    <3>1. CASE Stale
      BY <1>1, <3>1, TickArms
    <3>2. CASE ~Stale
      BY <1>1, <3>2, TickArms DEF PadInv, AtRest, Told
    <3> QED
      BY <3>1, <3>2
  <2>5. engaged' => indices # "outside"
    BY <1>1, TickArms DEF PadInv
  <2>6. Current' <=> Current
    BY <2>1 DEF Current
  <2>7. AtRest(joy') = AtRest(joy) /\ Told(joy') = Told(joy)
    BY <2>1
  <2> QED
    BY <2>1, <2>2, <2>3, <2>4, <2>5, <2>6, <2>7 DEF PadInv
<1>2. CASE OnJoy
  <2>1. /\ running' /\ reports # <<>> /\ joy' = Head(reports) /\ quiet' = 0
        /\ UNCHANGED <<armed, engaged, late, pad, known>> /\ running
    BY <1>2 DEF OnJoy, hand
  <2>2. joy' = reports[1] /\ 1 \in DOMAIN reports
    BY <2>1, TailAt
  <2>3. pad.plugged => AtRest(joy') \subseteq known
    BY <2>2 DEF QueueInv
  <2>4. armed \subseteq Told(joy')
    BY <2>2 DEF QueueInv
  <2>5. engaged' => indices' # "outside"
    BY <1>2 DEF OnJoy, PadInv
  <2>6. quiet' > JoyTimeout + late' => armed' = {} /\ ~engaged'
    BY <2>1 DEF TypeOK
  <2> QED
    BY <2>1, <2>3, <2>4, <2>5, <2>6 DEF PadInv
<1>3. ASSUME Ends PROVE PadInv'
  BY <1>3 DEF Ends, PadInv, Current
<1>4. CASE Starts
  <2>1. /\ joy' = NoJoy /\ armed' = {} /\ ~engaged' /\ quiet' = 0 /\ late' = 0
    BY <1>4 DEF Starts, Fresh
  <2>2. AtRest(joy') = {}
    BY <2>1, AtRestOfNone
  <2> QED
    BY <2>1, <2>2 DEF PadInv
<1>5. CASE Operator
  <2>1. UNCHANGED <<running, indices, joy, armed, engaged, late, quiet>>
    BY <1>5 DEF Operator, Fingers, node
  <2>2. known \subseteq known' /\ pad'.plugged = pad.plugged
    BY <1>5 DEF Operator, Fingers, TypeOK
  <2>3. AtRest(joy') = AtRest(joy) /\ Told(joy') = Told(joy) /\ (Current' <=> Current)
    BY <2>1 DEF Current
  <2> QED
    BY <2>1, <2>2, <2>3 DEF PadInv
<1>6. CASE Unplugged
  <2>1. UNCHANGED <<running, indices, joy, armed, engaged, late, quiet>>
    BY <1>6 DEF Unplugged, node
  <2>2. ~pad'.plugged
    BY <1>6 DEF Unplugged, TypeOK
  <2>3. Current' <=> Current
    BY <2>1 DEF Current
  <2> QED
    BY <2>1, <2>2, <2>3 DEF PadInv
<1>7. CASE Plugged
  <2>1. UNCHANGED <<running, indices, joy, armed, engaged, late, quiet>>
    BY <1>7 DEF Plugged, node
  <2>5. running => quiet > Dropout
    BY <1>7 DEF Plugged
  <2>2. running => quiet > JoyTimeout + late /\ quiet > JoyTimeout
    BY <2>5 DEF TypeOK, Dropout
  <2>3. armed = {}
    BY <2>2 DEF PadInv
  <2>4. ~Current /\ ~Current'
    BY <2>1, <2>2 DEF Current, TypeOK
  <2> QED
    BY <2>1, <2>3, <2>4 DEF PadInv
<1>8. CASE Elapse
  <2>1. UNCHANGED <<running, indices, joy, armed, engaged, pad, known>>
    BY <1>8 DEF Elapse, Ages, hand
  <2>2. quiet' > JoyTimeout + late' => armed' = {} /\ ~engaged'
    <3>1. CASE ~running
      BY <2>1, <3>1 DEF PadInv
    <3>2. CASE running
      <4>1. /\ late < MaxLate /\ late' = late + 1
            /\ quiet' = Older(quiet, Dropout)
        BY <1>8, <3>2 DEF Elapse, Ages
      <4>2. quiet' > JoyTimeout + late' => quiet > JoyTimeout + late
        BY <4>1 DEF Older, Dropout, TypeOK
      <4> QED
        BY <2>1, <4>2 DEF PadInv
    <3> QED
      BY <3>1, <3>2
  <2>3. quiet <= quiet'
    BY <1>8, OlderBound DEF Elapse, Ages, TypeOK
  <2>4. AtRest(joy') = AtRest(joy) /\ Told(joy') = Told(joy) /\ (Current' => Current)
    BY <2>1, <2>3, TypeStep DEF Current, TypeOK
  <2> QED
    BY <2>1, <2>2, <2>4 DEF PadInv
<1>9. CASE UNCHANGED <<node, quiet, hand>>
  <2>1. AtRest(joy') = AtRest(joy) /\ Told(joy') = Told(joy) /\ (Current' <=> Current)
    BY <1>9 DEF Current, node
  <2> QED
    BY <1>9, <2>1 DEF PadInv, node, hand
<1>10. CASE UNCHANGED vars
  BY <1>9, <1>10 DEF vars
<1> QED
  BY <1>1, <1>2, <1>3, <1>4, <1>5, <1>6, <1>7, <1>8, <1>10
  DEF Next, UnknownPad, Stops

\* A report that is sent now tells of every axis the driver has heard of.
LEMMA QueueGrows ==
  ASSUME TypeOK, PadInv, QueueInv, NEW r \in Reports, Sends(r),
         UNCHANGED <<running, joy, armed>>, pad'.plugged = pad.plugged, known \subseteq known',
         AtRest(r) \subseteq known', Told(r) = known', Current' => Current
  PROVE  QueueInv'
<1>1. CASE ~(running /\ pad.plugged)
  <2>1. reports' = reports
    BY <1>1 DEF Sends
  <2>2. AtRest(joy') = AtRest(joy)
    OBVIOUS
  <2> QED BY <2>1, <2>2 DEF QueueInv
<1>2. CASE running /\ pad.plugged
  <2>1. reports' = Queued(r)
    BY <1>2 DEF Sends
  <2>2. PICK d \in {0, 1} :
          /\ Len(Queued(r)) = Len(reports) + 1 - d
          /\ \A i \in DOMAIN Queued(r) :
               Queued(r)[i] = IF i + d \in DOMAIN reports THEN reports[i + d] ELSE r
    BY QueuedAt
  <2>3. ASSUME NEW i \in DOMAIN reports'
        PROVE  /\ i \in Nat
               /\ \/ i + d \in DOMAIN reports /\ reports'[i] = reports[i + d]
                  \/ i + d \notin DOMAIN reports /\ reports'[i] = r
    <3>1. Queued(r) \in Seq(Reports)
      BY QueuedAt
    <3>2. i \in Nat
      BY <2>1, <3>1
    <3> QED BY <2>1, <2>2, <3>2
  <2>4. armed \subseteq known /\ (Current => AtRest(joy) \subseteq known)
    BY <1>2 DEF PadInv
  <2>5. ASSUME NEW i \in DOMAIN reports' PROVE armed' \subseteq Told(reports'[i])
    BY <2>3, <2>4 DEF QueueInv
  <2>6. ASSUME Current', NEW i \in DOMAIN reports'
        PROVE  AtRest(joy') \subseteq Told(reports'[i])
    <3>1. AtRest(joy') = AtRest(joy) /\ Current
      BY <2>6
    <3> QED BY <2>3, <2>4, <3>1 DEF QueueInv
  <2>7. ASSUME NEW i \in DOMAIN reports'
        PROVE  AtRest(reports'[i]) \subseteq known'
    <3>1. CASE i + d \in DOMAIN reports /\ reports'[i] = reports[i + d]
      BY <1>2, <3>1 DEF QueueInv
    <3> QED BY <2>3, <3>1
  <2>8. ASSUME NEW i \in DOMAIN reports', NEW j \in DOMAIN reports', i < j
        PROVE  AtRest(reports'[i]) \subseteq Told(reports'[j])
    <3>1. CASE j + d \notin DOMAIN reports /\ reports'[j] = r
      BY <2>7, <3>1
    <3>2. CASE j + d \in DOMAIN reports /\ reports'[j] = reports[j + d]
      <4>1. i \in Nat /\ j \in Nat /\ d \in Nat /\ i >= 1
        <5>1. Queued(r) \in Seq(Reports)
          BY QueuedAt
        <5> QED BY <2>1, <5>1
      <4>2. i + d < j + d /\ i + d >= 1
        BY <2>8, <4>1
      <4>3. DOMAIN reports = 1..Len(reports) /\ Len(reports) \in Nat
        BY DEF TypeOK
      <4>4. j + d <= Len(reports)
        BY <3>2, <4>1, <4>3
      <4>5. i + d \in DOMAIN reports
        BY <4>1, <4>2, <4>3, <4>4
      <4>6. reports'[i] = reports[i + d]
        BY <2>3, <4>5
      <4> QED BY <3>2, <4>2, <4>5, <4>6 DEF QueueInv
    <3> QED BY <2>3, <3>1, <3>2
  <2> QED BY <1>2, <2>5, <2>6, <2>7, <2>8 DEF QueueInv
<1> QED BY <1>1, <1>2

LEMMA QueueStep ==
  ASSUME TypeOK, PadInv, QueueInv, [Next]_vars
  PROVE  QueueInv'
<1> USE ConstantsNat
<1>1. CASE Tick
  <2>1. UNCHANGED <<running, joy, quiet, queue, pad, known>>
    BY <1>1, TickCases DEF hand
  <2>2. AtRest(joy') = AtRest(joy) /\ (Current' <=> Current)
    BY <2>1 DEF Current
  <2>3. \A i \in DOMAIN reports : armed' \subseteq Told(reports[i])
    <3>1. CASE Stale
      BY <1>1, <3>1, TickArms
    <3>2. CASE ~Stale
      <4>1. Current
        BY <1>1, <3>2 DEF Tick, Stale, Current, TypeOK
      <4>2. armed' \subseteq armed \cup AtRest(joy)
        BY <1>1, <3>2, TickArms
      <4> QED BY <4>1, <4>2 DEF QueueInv
    <3> QED BY <3>1, <3>2
  <2> QED BY <2>1, <2>2, <2>3 DEF QueueInv, queue
<1>2. CASE OnJoy
  <2>1. /\ running /\ reports # <<>> /\ joy' = Head(reports) /\ reports' = Tail(reports)
        /\ UNCHANGED <<running, armed, pad, known>>
    BY <1>2 DEF OnJoy, hand
  <2>2. joy' = reports[1] /\ 1 \in DOMAIN reports
    BY <2>1, TailAt
  <2>3. ASSUME NEW i \in DOMAIN reports'
        PROVE  reports'[i] = reports[i + 1] /\ i + 1 \in DOMAIN reports /\ i >= 1 /\ i \in Nat
    <3>1. Tail(reports) \in Seq(Reports)
      BY <2>1, TailAt
    <3>2. i \in Nat
      BY <2>1, <3>1
    <3> QED BY <2>1, <3>2, TailAt
  <2>4. ASSUME NEW i \in DOMAIN reports'
        PROVE  AtRest(joy') \subseteq Told(reports'[i])
    <3>1. 1 < i + 1
      BY <2>3
    <3> QED BY <2>2, <2>3, <3>1 DEF QueueInv
  <2>5. ASSUME NEW i \in DOMAIN reports', NEW j \in DOMAIN reports', i < j
        PROVE  AtRest(reports'[i]) \subseteq Told(reports'[j])
    <3>1. i + 1 < j + 1
      BY <2>3, <2>5
    <3> QED BY <2>3, <3>1 DEF QueueInv
  <2>6. ASSUME NEW i \in DOMAIN reports'
        PROVE  armed' \subseteq Told(reports'[i])
    BY <2>1, <2>3 DEF QueueInv
  <2>7. ASSUME pad'.plugged, NEW i \in DOMAIN reports'
        PROVE  AtRest(reports'[i]) \subseteq known'
    BY <2>1, <2>3, <2>7 DEF QueueInv
  <2> QED BY <2>1, <2>4, <2>5, <2>6, <2>7 DEF QueueInv
<1>3. ASSUME reports' = <<>> PROVE QueueInv'
  <2>1. DOMAIN reports' = {}
    BY <1>3
  <2> QED BY <1>3, <2>1 DEF QueueInv
<1>4. CASE UnknownPad \/ Stops \/ Starts
  BY <1>3, <1>4 DEF UnknownPad, Stops, Starts, Ends, Fresh
<1>5. CASE Operator
  <2>1. UNCHANGED <<running, joy, armed, quiet>> /\ pad'.plugged = pad.plugged
        /\ known \subseteq known' /\ Sends(CurrentReport')
    BY <1>5 DEF Operator, Fingers, node, TypeOK
  <2>2. TypeOK'
    BY TypeStep
  <2>3. /\ CurrentReport' \in Reports
        /\ AtRest(CurrentReport') \subseteq known' /\ Told(CurrentReport') = known'
    <3>1. /\ CurrentReport' \in Reports
          /\ \A t \in Triggers : CurrentReport'[t] = Reported(t)'
      BY <2>2 DEF TypeOK, CurrentReport, Reported, Triggers, Reports
    <3>2. \A t \in Triggers : trigger'[t] # "unset"
      BY <2>2 DEF TypeOK
    <3>3. known' \subseteq Triggers
      BY <2>2 DEF TypeOK
    <3> QED BY <3>1, <3>2, <3>3 DEF AtRest, Told, Reported
  <2>4. Current' <=> Current
    BY <2>1 DEF Current
  <2> QED BY <2>1, <2>3, <2>4, QueueGrows
<1>6. CASE Unplugged
  <2>1. UNCHANGED <<running, joy, armed, quiet, reports>> /\ ~pad'.plugged
    BY <1>6 DEF Unplugged, node, queue, TypeOK
  <2>2. AtRest(joy') = AtRest(joy) /\ (Current' <=> Current)
    BY <2>1 DEF Current
  <2> QED BY <2>1, <2>2 DEF QueueInv
<1>7. CASE Plugged
  <2>1. reports' = <<>>
    BY <1>7 DEF Plugged, queue, QueueInv
  <2> QED BY <1>3, <2>1
<1>8. CASE Elapse
  <2>1. /\ UNCHANGED <<running, joy, armed, pad, known>> /\ Sends(CurrentReport)
    BY <1>8 DEF Elapse, Ages, hand
  <2>2. Current' => Current
    <3>1. quiet <= quiet'
      BY <1>8, OlderBound DEF Elapse, Ages, TypeOK
    <3> QED BY <2>1, <3>1, TypeStep DEF Current, TypeOK
  <2>3. /\ CurrentReport \in Reports
        /\ AtRest(CurrentReport) \subseteq known' /\ Told(CurrentReport) = known'
    BY <2>1, ReportTyped
  <2> QED BY <2>1, <2>2, <2>3, QueueGrows
<1>9. CASE UNCHANGED vars
  <2>1. UNCHANGED <<running, joy, armed, quiet, reports, pad, known>>
    BY <1>9 DEF vars, node, queue, hand
  <2>2. AtRest(joy') = AtRest(joy) /\ (Current' <=> Current)
    BY <2>1 DEF Current
  <2> QED BY <2>1, <2>2 DEF QueueInv
<1> QED
  BY <1>1, <1>2, <1>4, <1>5, <1>6, <1>7, <1>8, <1>9 DEF Next

LEMMA HeardStep ==
  ASSUME TypeOK, HeardInv, [Next]_vars
  PROVE  HeardInv'
<1> USE ConstantsNat
<1>1. ASSUME UNCHANGED <<running, pad, quiet, reports, behind>> PROVE HeardInv'
  BY <1>1 DEF HeardInv
<1>2. CASE Tick \/ UNCHANGED vars
  BY <1>1, <1>2, TickCases DEF vars, node, queue, hand
<1>3. CASE OnJoy \/ Starts
  <2>1. quiet' = 0
    BY <1>3 DEF OnJoy, Starts, Fresh
  <2>2. reports' # <<>> => behind' \in Nat
    BY TypeStep DEF TypeOK
  <2> QED BY <2>1, <2>2 DEF HeardInv
<1>4. CASE UnknownPad \/ Stops
  BY <1>4 DEF UnknownPad, Stops, Ends, HeardInv
<1>5. CASE Operator
  <2>1. UNCHANGED <<running, quiet, behind>> /\ pad'.plugged = pad.plugged
    BY <1>5 DEF Operator, Fingers, node, TypeOK
  <2>2. running /\ pad.plugged => reports' # <<>>
    <3>1. Sends(CurrentReport') /\ CurrentReport' \in Reports
      <4>1. TypeOK'
        BY TypeStep
      <4> QED BY <1>5, <4>1 DEF Operator, CurrentReport, Reported, Reports, TypeOK, Triggers
    <3>2. Queued(CurrentReport') # <<>>
      BY <3>1, QueuedAt
    <3>3. Sends(CurrentReport') =>
            (running' /\ pad'.plugged => reports' = Queued(CurrentReport'))
      BY <2>1 DEF Sends
    <3> QED BY <2>1, <3>1, <3>2, <3>3
  <2> QED BY <2>1, <2>2 DEF HeardInv, TypeOK
<1>6. CASE Unplugged
  BY <1>6 DEF Unplugged, HeardInv, TypeOK
<1>7. CASE Plugged
  BY <1>7 DEF Plugged, HeardInv, node, TypeOK
<1>8. CASE Elapse
  <2>1. /\ UNCHANGED <<running, pad>> /\ Sends(CurrentReport)
        /\ running => quiet' = Older(quiet, Dropout)
        /\ behind' = IF reports = <<>> THEN 0 ELSE behind + 1
    BY <1>8 DEF Elapse, Ages, hand
  <2>2. running /\ pad.plugged => reports' # <<>>
    BY <2>1, ReportTyped, QueuedAt DEF Sends
  <2>3. running /\ quiet' <= Dropout => quiet <= Dropout /\ quiet' = quiet + 1
    BY <2>1 DEF Older, TypeOK
  <2> QED BY <2>1, <2>2, <2>3 DEF HeardInv, TypeOK
<1> QED
  BY <1>2, <1>3, <1>4, <1>5, <1>6, <1>7, <1>8 DEF Next

\* Who owns the vehicle and moves it has read only axes the driver knew of.
LEMMA OwnerIsRecent ==
  ASSUME TypeOK, PadInv, IdleInv, Current, Owns(joy), Motion(joy) = "moves"
  PROVE  idle <= quiet + MaxLate
<1>1. \A t \in Triggers : t \in armed \/ joy[t] = "rest"
  BY DEF Owns, ArmedBy
<1>2. Told(joy) = Triggers
  BY <1>1 DEF PadInv, Told
<1> QED
  BY <1>2 DEF Owns, IdleInv, Moves

\* A tick repeats the mode it is in, or what the operator holds now.
LEMMA TickPublishes ==
  ASSUME TypeOK, Tick
  PROVE  \/ Silence
         \/ Publish("zero")
         \/ Publish(Motion(joy)) /\ ~Stale /\ Owns(joy)
BY DEF Tick, Disarm, TailOrSilence, Operate, Disengage

\* What the driver tells of a mover is the operator's will.
LEMMA MovesMeant ==
  ASSUME TypeOK, pad.plugged, Moves(CurrentReport)
  PROVE  Meant(pad, trigger)
<1>1. known = Triggers
  BY ReportTyped DEF Moves
<1>2. CurrentReport.rt = trigger["rt"] /\ CurrentReport.lt = trigger["lt"]
        /\ CurrentReport.rb = pad.rb
  BY <1>1 DEF CurrentReport, Reported, Triggers
<1>3. trigger["rt"] # trigger["lt"]
  BY <1>2 DEF Moves, Motion
<1> QED BY <1>2, <1>3 DEF Moves, Meant

LEMMA WaitingGrows ==
  ASSUME TypeOK, NEW r \in Reports, Sends(r), pad'.plugged = pad.plugged,
         \A i \in DOMAIN reports : Moves(reports[i]) => idle' <= behind',
         pad.plugged /\ Moves(r) => idle' <= behind'
  PROVE  \A i \in DOMAIN reports' : Moves(reports'[i]) => idle' <= behind'
<1>1. CASE ~(running /\ pad.plugged)
  BY <1>1 DEF Sends
<1>2. CASE running /\ pad.plugged
  <2>1. reports' = Queued(r)
    BY <1>2 DEF Sends
  <2> TAKE i \in DOMAIN reports'
  <2>2. reports'[i] = r \/ \E k \in DOMAIN reports : reports'[i] = reports[k]
    BY <2>1, QueuedAt
  <2> QED BY <1>2, <2>2
<1> QED BY <1>1, <1>2

LEMMA IdleStep ==
  ASSUME TypeOK, PadInv, IdleInv, [Next]_vars
  PROVE  IdleInv'
<1> USE ConstantsNat
<1> DEFINE Recent == Current /\ Moves(joy) => idle <= quiet + MaxLate
           Waiting == \A i \in DOMAIN reports : Moves(reports[i]) => idle <= behind
           MeantNow == Meant(pad, trigger) => idle = 0
<1>i. IdleInv <=> MeantNow /\ Waiting /\ Recent /\ OperatorMeansMotion
  BY DEF IdleInv
<1>j. IdleInv' <=> MeantNow' /\ Waiting' /\ Recent' /\ OperatorMeansMotion'
  BY DEF IdleInv
<1>t. TypeOK'
  BY TypeStep
<1>1. CASE Tick
  <2>1. UNCHANGED <<running, joy, quiet, queue, hand, idle>>
    BY <1>1, TickCases
  <2>2. MeantNow' /\ Recent' /\ Waiting'
    <3>1. MeantNow'
      BY <1>i, <2>1 DEF hand, Meant
    <3>2. Recent'
      BY <1>i, <2>1 DEF Current, Moves
    <3>3. Waiting'
      BY <1>i, <2>1 DEF queue, Moves
    <3> QED BY <3>1, <3>2, <3>3
  <2>3. OperatorMeansMotion'
    <3>1. CASE Silence
      BY <1>i, <2>1, <3>1 DEF Silence, slot, OperatorMeansMotion
    <3>2. CASE Publish("zero")
      BY <3>2 DEF Publish, OperatorMeansMotion
    <3>3. CASE Publish(Motion(joy)) /\ ~Stale /\ Owns(joy)
      <4>1. Current
        BY <1>1, <3>3 DEF Tick, Stale, Current, TypeOK
      <4>2. Motion(joy) = "moves" => idle <= quiet + MaxLate
        BY <3>3, <4>1, OwnerIsRecent
      <4>3. command' = Motion(joy)
        BY <3>3 DEF Publish
      <4> QED
        BY <2>1, <4>1, <4>2, <4>3 DEF Current, OperatorMeansMotion, Reach, TypeOK
    <3> QED
      BY <1>1, <3>1, <3>2, <3>3, TickPublishes
  <2> QED
    BY <1>j, <2>2, <2>3
<1>2. CASE OnJoy
  <2>1. /\ joy' = Head(reports) /\ reports # <<>> /\ reports' = Tail(reports) /\ quiet' = 0
        /\ behind' = IF Len(reports) = 1 THEN 0 ELSE behind
        /\ UNCHANGED <<pad, trigger, idle, command, teleop_age>>
    BY <1>2 DEF OnJoy, hand, slot
  <2>2. Recent'
    <3>1. joy' = reports[1] /\ 1 \in DOMAIN reports
      BY <2>1, TailAt
    <3>2. Moves(joy') => idle <= behind
      BY <1>i, <3>1
    <3> QED BY <2>1, <3>2 DEF TypeOK
  <2>3. Waiting'
    <3>1. CASE Len(reports) = 1
      <4>1. reports' = <<>>
        BY <2>1, <3>1, <1>t DEF TypeOK
      <4> QED BY <4>1
    <3>2. CASE Len(reports) # 1
      <4>1. behind' = behind
        BY <2>1, <3>2
      <4>2. \A i \in DOMAIN reports' : \E k \in DOMAIN reports : reports'[i] = reports[k]
        BY <2>1, TailAt
      <4> QED BY <1>i, <2>1, <4>1, <4>2
    <3> QED BY <3>1, <3>2
  <2>4. MeantNow' /\ OperatorMeansMotion'
    BY <1>i, <2>1 DEF Meant, OperatorMeansMotion
  <2> QED
    BY <1>j, <2>2, <2>3, <2>4
<1>3. ASSUME ~running', reports' = <<>>, UNCHANGED <<hand, idle>>,
             Publish("zero") \/ Silence
      PROVE  IdleInv'
  <2>1. MeantNow' /\ Recent'
    BY <1>i, <1>3 DEF hand, Meant, Current
  <2>2. Waiting'
    BY <1>3
  <2>3. OperatorMeansMotion'
    BY <1>i, <1>3 DEF OperatorMeansMotion, Publish, Silence, slot
  <2> QED BY <1>j, <2>1, <2>2, <2>3
<1>4. CASE UnknownPad \/ Stops
  BY <1>3, <1>4 DEF UnknownPad, Stops, Ends
<1>5. CASE Starts
  <2>1. joy' = NoJoy /\ reports' = <<>> /\ UNCHANGED <<hand, slot, idle>>
    BY <1>5 DEF Starts, Fresh
  <2>2. ~Moves(joy')
    BY <2>1 DEF NoJoy, Moves
  <2>3. Waiting'
    BY <2>1
  <2> QED
    BY <1>i, <1>j, <2>1, <2>2, <2>3 DEF hand, slot, Meant, OperatorMeansMotion
<1>6. CASE Operator \/ Plugged
  <2>1. /\ UNCHANGED <<running, joy, quiet, behind, command, teleop_age>>
        /\ idle' = IF Meant(pad', trigger') THEN 0 ELSE idle
    BY <1>6 DEF Operator, Fingers, Plugged, NotedIdle, node, queue, slot
  <2>2. MeantNow' /\ idle' <= idle
    BY <2>1 DEF TypeOK
  <2>3. idle' \in Nat /\ idle \in Nat /\ quiet \in Nat /\ behind \in Nat
    BY <2>1 DEF TypeOK
  <2>4. Recent'
    BY <1>i, <2>1, <2>2, <2>3 DEF Current, Moves
  <2>5. OperatorMeansMotion'
    BY <1>i, <2>1, <2>2, <2>3 DEF OperatorMeansMotion, Reach
  <2>6. \A i \in DOMAIN reports : Moves(reports[i]) => idle' <= behind'
    <3> TAKE i \in DOMAIN reports
    <3> HAVE Moves(reports[i])
    <3>1. idle <= behind
      BY <1>i
    <3> QED BY <2>1, <2>2, <2>3, <3>1
  <2>7. Waiting'
    <3>1. CASE Plugged
      BY <2>6, <3>1 DEF Plugged, queue
    <3>2. CASE Operator
      <4>1. Sends(CurrentReport') /\ pad'.plugged = pad.plugged
        BY <3>2 DEF Operator, Fingers, TypeOK
      <4>2. CurrentReport' \in Reports
        BY <1>t DEF CurrentReport, Reported, Reports, TypeOK, Triggers
      <4>3. pad'.plugged /\ Moves(CurrentReport') => Meant(pad', trigger')
        <5> SUFFICES ASSUME pad'.plugged, Moves(CurrentReport') PROVE Meant(pad', trigger')
          OBVIOUS
        <5>1. \A t \in Triggers : CurrentReport'[t] = IF t \in known' THEN trigger'[t] ELSE "unset"
          BY DEF CurrentReport, Reported, Triggers
        <5>2. \A t \in Triggers : CurrentReport'[t] = trigger'[t]
          BY <5>1 DEF Moves, Told
        <5>3. CurrentReport'.rt # CurrentReport'.lt /\ CurrentReport'.rb = pad'.rb
          BY DEF Moves, Motion, CurrentReport
        <5>4. trigger'["rt"] # trigger'["lt"]
          BY <5>2, <5>3 DEF Triggers
        <5> QED BY <5>3, <5>4 DEF Meant, Moves
      <4>4. pad.plugged /\ Moves(CurrentReport') => idle' <= behind'
        BY <2>1, <2>3, <4>1, <4>3
      <4> QED BY <2>6, <4>1, <4>2, <4>4, WaitingGrows
    <3> QED BY <1>6, <3>1, <3>2
  <2> QED
    BY <1>j, <2>2, <2>4, <2>5, <2>7
<1>7. CASE Unplugged
  <2>1. UNCHANGED <<running, joy, quiet, reports, behind, command, teleop_age, idle>>
    BY <1>7 DEF Unplugged, node, queue, slot, hist
  <2>2. ~pad'.plugged
    BY <1>7 DEF Unplugged, TypeOK
  <2>3. MeantNow'
    BY <2>2 DEF Meant
  <2>4. Recent'
    BY <1>i, <2>1 DEF Moves, Current
  <2>5. Waiting'
    BY <1>i, <2>1 DEF Moves
  <2>6. OperatorMeansMotion'
    BY <1>i, <2>1 DEF OperatorMeansMotion
  <2> QED BY <1>j, <2>3, <2>4, <2>5, <2>6
<1>8. CASE Elapse
  <2>1. /\ UNCHANGED <<running, joy, pad, trigger, command>>
        /\ idle' = IF Meant(pad, trigger) THEN 0 ELSE Older(idle, Reach)
        /\ teleop_age' = Older(teleop_age, MuxTimeout)
        /\ behind' = IF reports = <<>> THEN 0 ELSE behind + 1
        /\ running => quiet' = Older(quiet, Dropout)
        /\ Sends(CurrentReport)
    BY <1>8 DEF Elapse, Ages, hand
  <2>2. MeantNow'
    BY <2>1 DEF Meant
  <2>3. idle' \in Nat /\ idle' <= idle + 1 /\ idle \in Nat
    <3>1. idle \in 0..(Reach + 1)
      BY DEF TypeOK
    <3>2. Older(idle, Reach) \in 0..(Reach + 1) /\ Older(idle, Reach) <= idle + 1
      BY <3>1, OlderBound
    <3> QED
      BY <2>1, <3>1, <3>2
  <2>4. Recent'
    <3> SUFFICES ASSUME Current', Moves(joy)
                 PROVE  idle' <= quiet' + MaxLate
      BY <2>1 DEF Moves
    <3>1. running /\ quiet' = quiet + 1 /\ quiet <= JoyTimeout
      BY <2>1 DEF Current, Older, Dropout, TypeOK
    <3>2. idle <= quiet + MaxLate
      BY <1>i, <3>1 DEF Current
    <3> QED
      BY <2>3, <3>1, <3>2 DEF TypeOK
  <2>5. OperatorMeansMotion'
    <3>1. teleop_age' # 0
      BY <2>1 DEF Older, TypeOK
    <3> QED BY <3>1 DEF OperatorMeansMotion
  <2>6. ASSUME NEW i \in DOMAIN reports, Moves(reports[i]) PROVE idle' <= behind'
    <3>1. idle <= behind /\ behind \in Nat
      BY <1>i, <2>6 DEF TypeOK
    <3>2. behind' = behind + 1
      BY <2>1
    <3> QED BY <2>3, <3>1, <3>2
  <2>7. pad.plugged /\ Moves(CurrentReport) => idle' <= behind'
    <3>1. behind' \in Nat
      BY <1>t DEF TypeOK
    <3> QED BY <2>1, <3>1, MovesMeant
  <2>8. Waiting'
    BY <2>1, <2>6, <2>7, ReportTyped, WaitingGrows
  <2> QED
    BY <1>j, <2>2, <2>4, <2>5, <2>8
<1>10. CASE UNCHANGED vars
  <2>1. UNCHANGED <<running, joy, quiet, reports, behind, pad, trigger, command, teleop_age, idle>>
    BY <1>10 DEF vars, node, queue, hand, slot, hist
  <2>2. MeantNow'
    BY <1>i, <2>1 DEF Meant
  <2>3. Recent' /\ Waiting'
    BY <1>i, <2>1 DEF Moves, Current
  <2>4. OperatorMeansMotion'
    BY <1>i, <2>1 DEF OperatorMeansMotion
  <2> QED BY <1>j, <2>2, <2>3, <2>4
<1> QED
  BY <1>1, <1>2, <1>4, <1>5, <1>6, <1>7, <1>8, <1>10 DEF Next

\* While the tail lasts or the operator owns the vehicle, a tick publishes.
LEMMA TickHolds ==
  ASSUME TypeOK, PadInv, Tick
  PROVE  /\ engaged' => Publish(Motion(joy))
         /\ engaged /\ ~engaged' => tail' = TailTime /\ Publish("zero")
         /\ ~engaged /\ ~engaged' =>
              tail' = tail /\ (IF tail > 0 THEN Publish("zero") ELSE Silence)
<1> USE ConstantsNat, XboxOverrideAssumption
<1>t. TailTime > 0
  OBVIOUS
<1>1. CASE Stale /\ Disarm
  BY <1>1, <1>t DEF Disarm, TailOrSilence
<1>2. CASE ~Stale /\ indices = "outside"
             /\ TailOrSilence(tail) /\ UNCHANGED <<armed, engaged, tail>>
  <2>1. ~engaged
    BY <1>2 DEF PadInv
  <2> QED
    BY <1>2, <2>1 DEF TailOrSilence
<1>3. CASE ~Stale /\ indices # "outside" /\ Operate
  <2>1. CASE Owns(joy)
    BY <1>3, <2>1 DEF Operate
  <2>2. CASE ~Owns(joy)
    BY <1>3, <1>t, <2>2 DEF Operate, Disengage, TailOrSilence
  <2> QED
    BY <2>1, <2>2
<1> QED
  BY <1>1, <1>2, <1>3 DEF Tick

LEMMA SlotStep ==
  ASSUME TypeOK, PadInv, SlotInv, [Next]_vars
  PROVE  SlotInv'
<1> USE ConstantsNat, XboxOverrideAssumption
<1>1. CASE Tick
  <2>1. /\ UNCHANGED running /\ running /\ late' = 0
        /\ free_for' = IF engaged' THEN 0 ELSE free_for
    BY <1>1, TickCases
  <2>2. ASSUME NEW m, Publish(m) PROVE teleop_age' = 0
    BY <2>2 DEF Publish
  <2>3. CASE engaged'
    BY <1>1, <2>1, <2>2, <2>3, TickHolds DEF SlotInv, SlotFree
  <2>4. CASE engaged /\ ~engaged'
    <3>1. /\ tail' = TailTime /\ teleop_age' = 0 /\ free_for' = 0
      BY <1>1, <2>1, <2>2, <2>4, TickHolds DEF SlotInv
    <3> QED
      BY <2>1, <2>4, <3>1 DEF SlotInv, SlotFree
  <2>5. CASE ~engaged /\ ~engaged' /\ tail > 0
    <3>1. /\ tail' = tail /\ teleop_age' = 0 /\ free_for' = free_for
      BY <1>1, <2>1, <2>2, <2>5, TickHolds
    <3> QED
      BY <2>1, <2>5, <3>1 DEF SlotInv, SlotFree, TypeOK
  <2>6. CASE ~engaged /\ ~engaged' /\ ~(tail > 0)
    <3>1. tail' = tail /\ free_for' = free_for /\ UNCHANGED slot
      BY <1>1, <2>1, <2>6, TickHolds DEF Silence
    <3> QED
      BY <2>1, <2>6, <3>1 DEF SlotInv, SlotFree, TypeOK, slot
  <2> QED
    BY <1>1, <2>3, <2>4, <2>5, <2>6, TickCases
<1>2. ASSUME UNCHANGED <<running, engaged, tail, late, teleop_age, free_for>>
      PROVE  SlotInv'
  BY <1>2 DEF SlotInv, SlotFree
<1>3. CASE OnJoy \/ Operator \/ Unplugged \/ Plugged \/ UNCHANGED vars
  BY <1>2, <1>3 DEF OnJoy, Operator, Fingers, Unplugged, Plugged, vars, node, slot, hist
<1>4. CASE UnknownPad \/ Stops
  <2>1. /\ ~running' /\ ~engaged' /\ tail' = 0 /\ free_for' = TailTime
        /\ Publish("zero") \/ Silence
    BY <1>4 DEF UnknownPad, Stops, Ends
  <2>2. CASE Publish("zero")
    BY <2>1, <2>2 DEF SlotInv, SlotFree, Publish
  <2>3. CASE Silence
    BY <2>1, <2>3 DEF SlotInv, SlotFree, Silence, slot, TypeOK
  <2> QED
    BY <2>1, <2>2, <2>3
<1>5. CASE Starts
  <2>1. /\ ~engaged' /\ tail' = 0 /\ free_for' = TailTime /\ UNCHANGED slot
    BY <1>5 DEF Starts, Fresh
  <2> QED
    BY <2>1 DEF SlotInv, SlotFree, slot, TypeOK
<1>7. CASE Elapse
  <2>1. /\ UNCHANGED <<running, engaged>>
        /\ late' = IF running THEN late + 1 ELSE late
        /\ tail' = IF tail > 0 THEN tail - 1 ELSE 0
        /\ teleop_age' = Older(teleop_age, MuxTimeout)
        /\ free_for' = IF engaged THEN 0 ELSE Older(free_for, TailTime + MuxTimeout)
        /\ running => late < MaxLate
    BY <1>7 DEF Elapse, Ages
  <2>2. /\ teleop_age' \in Nat /\ teleop_age' <= teleop_age + 1
        /\ ~(teleop_age' > MuxTimeout) =>
             teleop_age' = teleop_age + 1 /\ ~(teleop_age > MuxTimeout)
    BY <2>1 DEF Older, TypeOK
  <2>4. ~engaged => /\ free_for' \in Nat /\ free_for' <= free_for + 1
                    /\ free_for <= free_for'
                    /\ free_for < TailTime => free_for' = free_for + 1
    BY <2>1 DEF Older, TypeOK, Longest
  <2>5. engaged' => free_for' = 0
    BY <2>1
  <2>6. ~engaged' /\ tail' > 0 => tail' + free_for' = TailTime
    <3> SUFFICES ASSUME ~engaged, tail' > 0 PROVE tail' + free_for' = TailTime
      BY <2>1
    <3>1. tail \in Nat /\ tail > 0 /\ tail' = tail - 1 /\ free_for \in Nat
      BY <2>1 DEF TypeOK
    <3>2. tail + free_for = TailTime
      BY <3>1 DEF SlotInv
    <3>3. free_for' = free_for + 1
      BY <2>4, <3>1, <3>2
    <3> QED BY <3>1, <3>2, <3>3
  <2>7. running' /\ free_for' < TailTime
          => (engaged' \/ tail' > 0) /\ teleop_age' <= late'
    <3> SUFFICES ASSUME running, free_for' < TailTime
                 PROVE  (engaged \/ tail' > 0) /\ teleop_age' <= late + 1
      BY <2>1
    <3>1. free_for < TailTime
      BY <2>4 DEF SlotInv, TypeOK
    <3>2. teleop_age <= late /\ (engaged \/ tail > 0)
      BY <3>1 DEF SlotInv
    <3>3. engaged \/ tail' > 0
      <4> SUFFICES ASSUME ~engaged PROVE tail' > 0
        OBVIOUS
      <4>1. tail + free_for = TailTime /\ free_for' = free_for + 1
        BY <2>4, <3>1, <3>2 DEF SlotInv
      <4> QED
        BY <2>1, <3>2, <4>1 DEF TypeOK
    <3> QED
      BY <2>2, <3>2, <3>3 DEF TypeOK
  <2>8. ~SlotFree' => free_for' <= TailTime + teleop_age'
    <3>1. CASE engaged
      BY <2>1, <2>2, <3>1
    <3>2. CASE ~engaged
      BY <2>2, <2>4, <3>2 DEF SlotInv, SlotFree, TypeOK
    <3> QED
      BY <3>1, <3>2
  <2> QED
    BY <2>5, <2>6, <2>7, <2>8 DEF SlotInv
<1> QED
  BY <1>1, <1>3, <1>4, <1>5, <1>7 DEF Next

LEMMA RestStep ==
  ASSUME TypeOK, PadInv, RestInv, [Next]_vars
  PROVE  RestInv'
<1> USE ConstantsNat
<1>1. CASE Tick
  <2>1. UNCHANGED <<running, joy, rested>> /\ armed' \subseteq armed \cup AtRest(joy)
    BY <1>1, TickCases, TickArms
  <2> QED
    BY <2>1 DEF RestInv
<1>2. CASE OnJoy
  <2>1. /\ running /\ armed' = armed
        /\ rested' = AtRest(joy') \cup (IF quiet > Dropout THEN {} ELSE rested)
    BY <1>2 DEF OnJoy
  <2>2. quiet > Dropout => armed = {}
    BY DEF PadInv, Dropout, TypeOK
  <2> QED
    BY <2>1, <2>2 DEF RestInv
<1>3. CASE UnknownPad \/ Stops
  BY <1>3 DEF UnknownPad, Stops, Ends, RestInv
<1>4. CASE Starts
  <2>1. joy' = NoJoy /\ armed' = {}
    BY <1>4 DEF Starts, Fresh
  <2>2. AtRest(joy') = {}
    BY <2>1, AtRestOfNone
  <2> QED
    BY <2>1, <2>2 DEF RestInv
<1>5. ASSUME UNCHANGED <<running, armed, joy, rested>> PROVE RestInv'
  BY <1>5 DEF RestInv
<1>6. CASE Operator \/ Unplugged \/ Plugged \/ Elapse \/ UNCHANGED vars
  BY <1>5, <1>6 DEF Operator, Fingers, Unplugged, Plugged, Elapse, Ages, vars, node, hist
<1> QED
  BY <1>1, <1>2, <1>3, <1>4, <1>6 DEF Next

LEMMA HeldStep ==
  ASSUME TypeOK, HeldInv, [Next]_vars
  PROVE  HeldInv'
<1>1. CASE Tick
  <2>1. armed \subseteq Triggers
    BY DEF TypeOK
  <2>2. CASE Stale
    BY <1>1, <2>2, TickArms DEF HeldInv
  <2>3. CASE ~Stale
    BY <1>1, <2>1, <2>3, TickArms DEF HeldInv, Owns, ArmedBy, AtRest
  <2> QED BY <2>2, <2>3
<1>2. CASE UnknownPad \/ Stops \/ Starts
  BY <1>2 DEF UnknownPad, Stops, Starts, Ends, Fresh, HeldInv
<1>3. CASE OnJoy \/ Operator \/ Unplugged \/ Plugged \/ Elapse \/ UNCHANGED vars
  BY <1>3 DEF OnJoy, Operator, Fingers, Unplugged, Plugged, Elapse, Ages, vars, node, HeldInv
<1> QED BY <1>1, <1>2, <1>3 DEF Next

-----------------------------------------------------------------------------
LEMMA InitInv == Init => IInv
<1> SUFFICES ASSUME Init PROVE IInv
  OBVIOUS
<1> USE ConstantsNat, XboxOverrideAssumption DEF Init
<1>1. TypeOK
  <2>1. free_for \in 0..Longest /\ quiet \in 0..(Dropout + 1) /\ idle \in 0..(Reach + 1)
    OBVIOUS
  <2>2. tail \in 0..TailTime /\ late \in 0..MaxLate /\ teleop_age \in 0..(MuxTimeout + 1)
          /\ behind \in 0..MaxLate
    OBVIOUS
  <2>4. reports \in Seq(Reports) /\ Len(reports) <= JoyDepth
    OBVIOUS
  <2>3. running \in BOOLEAN /\ engaged \in BOOLEAN
    OBVIOUS
  <2> QED
    BY <2>1, <2>2, <2>3, <2>4 DEF TypeOK
<1>2. PadInv
  BY DEF PadInv, Current
<1>3. IdleInv
  BY DEF IdleInv, Current, Meant, OperatorMeansMotion
<1>4. SlotInv
  BY DEF SlotInv, SlotFree, Longest
<1>5. RestInv
  BY DEF RestInv
<1>6. HeldInv
  BY DEF HeldInv
<1>7. QueueInv /\ HeardInv
  BY DEF QueueInv, HeardInv
<1> QED
  BY <1>1, <1>2, <1>3, <1>4, <1>5, <1>6, <1>7 DEF IInv

LEMMA StepInv == IInv /\ [Next]_vars => IInv'
BY TypeStep, PadStep, QueueStep, HeardStep, IdleStep, SlotStep, RestStep, HeldStep DEF IInv

(* Every variable of the override and of what it drives keeps its type.    *)
THEOREM TypeCorrect == Spec => []TypeOK
<1>1. IInv => TypeOK
  BY DEF IInv
<1> QED
  BY <1>1, InitInv, StepInv, PTL DEF Spec

THEOREM Inductive == Spec => []IInv
BY InitInv, StepInv, PTL DEF Spec

(* No command that moves leaves the override on a will older than the      *)
(* staleness limit and the lateness of the executor together.              *)
THEOREM DeadMan == Spec => []OperatorMeansMotion
<1>1. IInv => OperatorMeansMotion
  BY DEF IInv, IdleInv
<1> QED
  BY <1>1, Inductive, PTL

(* An override nobody uses gives the slot of twist_mux back in time.       *)
THEOREM GivesBack == Spec => []SlotReleased
<1>1. IInv => SlotReleased
  BY ConstantsNat DEF IInv, SlotInv, SlotReleased, SlotFree, TypeOK
<1> QED
  BY <1>1, Inductive, PTL

(* Navigation gets nothing through before the operator has let go for the  *)
(* whole tail, while the process runs.                                     *)
THEOREM KeepsOff == Spec => []NavKeptOff
<1>1. IInv => NavKeptOff
  <2> SUFFICES ASSUME IInv, running, free_for < TailTime
               PROVE  ~SlotFree
    BY ConstantsNat DEF NavKeptOff, IInv, TypeOK
  <2>1. teleop_age <= late
    BY DEF IInv, SlotInv
  <2> QED
    BY <2>1, ConstantsNat, XboxOverrideAssumption DEF IInv, TypeOK, SlotFree
<1> QED
  BY <1>1, Inductive, PTL

(* Both triggers are seen at rest between a dropout and the next command.  *)
THEOREM RearmsFromRest == Spec => RearmNeedsRest
<1>1. IInv /\ [Next]_vars => (~engaged /\ engaged' => rested = Triggers)
  <2> SUFFICES ASSUME IInv, [Next]_vars, ~engaged, engaged'
               PROVE  rested = Triggers
    OBVIOUS
  <2>1. CASE Tick
    <3>1. running /\ armed \cup AtRest(joy) \subseteq rested /\ rested \subseteq Triggers
      BY <2>1, TickCases DEF IInv, RestInv, TypeOK
    <3>2. Owns(joy)
      BY <2>1, TickArms DEF IInv
    <3>3. armed \cup AtRest(joy) = Triggers
      BY <3>2 DEF Owns, ArmedBy, AtRest
    <3> QED
      BY <3>1, <3>3
  <2>2. CASE ~Tick
    BY <2>2 DEF Next, OnJoy, UnknownPad, Stops, Ends, Starts, Fresh, Operator, Fingers,
         Unplugged, Plugged, Elapse, Ages, vars, node
  <2> QED
    BY <2>1, <2>2
<1> QED
  BY <1>1, Inductive, PTL DEF Spec, RearmNeedsRest

(* Who has the vehicle and holds RB on a pad that works keeps it, unless   *)
(* the reports have waited for the whole staleness limit.                  *)
THEOREM HoldsVehicle == Spec => HeldKeepsVehicle
<1>1. IInv /\ [Next]_vars
      => (engaged /\ joy.rb /\ Ready /\ running' => engaged' \/ behind >= JoyTimeout)
  <2> SUFFICES ASSUME IInv, [Next]_vars, engaged, joy.rb, Ready, running', ~(behind >= JoyTimeout)
               PROVE  engaged'
    OBVIOUS
  <2>1. CASE Tick
    <3>1. joy # NoJoy /\ armed = Triggers /\ indices # "outside" /\ running /\ pad.plugged
      BY DEF IInv, HeldInv, Ready, NoJoy
    <3>2. quiet <= JoyTimeout + late
      BY ConstantsNat DEF IInv, PadInv, TypeOK
    <3>3. quiet <= Dropout
      BY <3>2, ConstantsNat DEF IInv, TypeOK, Dropout
    <3>4. quiet <= JoyTimeout
      BY <3>1, <3>3, ConstantsNat DEF IInv, HeardInv, TypeOK
    <3>5. ~Stale /\ Owns(joy)
      BY <3>1, <3>4, ConstantsNat DEF Stale, Owns, ArmedBy, IInv, TypeOK
    <3> QED BY <2>1, <3>1, <3>5, TickArms DEF IInv
  <2>2. CASE ~Tick
    BY <2>2 DEF Next, Ready, OnJoy, UnknownPad, Stops, Ends, Starts, Operator, Fingers, Unplugged,
       Plugged, Elapse, Ages, vars, node
  <2> QED BY <2>1, <2>2
<1> QED
  BY <1>1, Inductive, PTL DEF Spec, HeldKeepsVehicle
==================================================================================
