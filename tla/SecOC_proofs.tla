----------------------------- MODULE SecOC_proofs -----------------------------
(***************************************************************************)
(* Proofs about SecOC.tla for every modulus, window and number of frames.  *)
(***************************************************************************)
EXTENDS SecOC, TLAPS

\* The value the receiver reconstructs lies above its floor, by one modulus at
\* most.
LEMMA CandidateAhead ==
  ASSUME NEW floor \in Nat, NEW low \in 0..(Modulus - 1)
  PROVE  /\ Candidate(floor, low) \in Nat
         /\ Candidate(floor, low) > floor
         /\ Candidate(floor, low) <= floor + Modulus
<1>1. Modulus \in Nat /\ Modulus > 0
  BY SecOCAssumption
<1>2. floor % Modulus \in 0..(Modulus - 1)
  BY <1>1
<1>3. floor - (floor % Modulus) >= 0
  BY <1>1, <1>2
<1> QED
  BY <1>1, <1>2, <1>3 DEF Candidate

\* Division with remainder, in the form the next lemma needs.
LEMMA Remainder ==
  ASSUME NEW a \in Nat
  PROVE  a = Modulus * (a \div Modulus) + (a % Modulus)
  BY SecOCAssumption

\* Multiples of the modulus that are less than a modulus apart are equal.
LEMMA MultiplesApart ==
  ASSUME NEW p \in Int, NEW q \in Int,
         Modulus * p - Modulus * q < Modulus,
         Modulus * q - Modulus * p < Modulus
  PROVE  p = q
<1>1. Modulus \in Nat /\ Modulus > 0
  BY SecOCAssumption
<1>2. ASSUME p >= q + 1 PROVE FALSE
  <2>1. Modulus * p >= Modulus * (q + 1)
    BY <1>1, <1>2
  <2> QED
    BY <1>1, <2>1
<1>3. ASSUME q >= p + 1 PROVE FALSE
  <2>1. Modulus * q >= Modulus * (p + 1)
    BY <1>1, <1>3
  <2> QED
    BY <1>1, <2>1
<1> QED
  BY <1>2, <1>3

\* A value ahead of the floor by at most one modulus is the one reconstructed
\* from its low half.
LEMMA CandidateExact ==
  ASSUME NEW floor \in Nat, NEW fv \in Nat, fv > floor, fv <= floor + Modulus
  PROVE  Candidate(floor, fv % Modulus) = fv
<1> DEFINE p == fv \div Modulus
           q == floor \div Modulus
           r == fv % Modulus
           s == floor % Modulus
<1>1. Modulus \in Nat /\ Modulus > 0
  BY SecOCAssumption
<1>2. /\ p \in Nat /\ q \in Nat
      /\ r \in 0..(Modulus - 1) /\ s \in 0..(Modulus - 1)
  BY <1>1
<1>3. fv = Modulus * p + r /\ floor = Modulus * q + s
  BY Remainder
<1>4. Modulus * p \in Int /\ Modulus * q \in Int
  BY <1>1, <1>2
<1>5. floor - s = Modulus * q
  BY <1>2, <1>3, <1>4
<1> HIDE DEF p, q, r, s
<1>6. CASE Modulus * q + r <= floor
  <2>1. Modulus * (q + 1) = Modulus * q + Modulus
    BY <1>1, <1>2
  <2>2. p = q + 1
    BY <1>1, <1>2, <1>3, <1>4, <1>6, <2>1, MultiplesApart
  <2> QED
    BY <1>1, <1>2, <1>3, <1>4, <1>5, <1>6, <2>1, <2>2 DEF Candidate, r, s
<1>7. CASE ~(Modulus * q + r <= floor)
  <2>1. p = q
    BY <1>1, <1>2, <1>3, <1>4, <1>7, MultiplesApart
  <2> QED
    BY <1>1, <1>2, <1>3, <1>4, <1>5, <1>7, <2>1 DEF Candidate, r, s
<1> QED
  BY <1>6, <1>7

-----------------------------------------------------------------------------
IInv == TypeOK /\ FreshnessInv

LEMMA InitIInv == Init => IInv
  BY DEF Init, IInv, TypeOK, FreshnessInv, FloorBehindSender, HandledInOrder,
         None, FrameSet

\* Handling keeps the order because the waiting value is above all handled.
LEMMA HandleKeepsOrder ==
  ASSUME IInv, Handle
  PROVE  /\ \A i \in 1..Len(handled') : handled'[i] <= rx
         /\ HandledInOrder'
<1>1. /\ handled \in Seq(Nat) /\ accepted \in Nat /\ rx \in Nat
      /\ handled' = Append(handled, accepted)
      /\ accepted <= rx
  BY DEF IInv, TypeOK, FreshnessInv, Handle
<1>2. \A i \in 1..Len(handled) : /\ handled[i] <= rx
                                 /\ handled[i] < accepted
                                 /\ handled[i] \in Nat
  BY <1>1 DEF IInv, FreshnessInv, Handle
<1>3. /\ Len(handled') = Len(handled) + 1
      /\ \A i \in 1..Len(handled) : handled'[i] = handled[i]
      /\ handled'[Len(handled) + 1] = accepted
      /\ Len(handled) \in Nat
  BY <1>1
<1>4. HandledInOrder
  BY DEF IInv, FreshnessInv
<1>5. ASSUME NEW i \in 1..Len(handled'), NEW j \in 1..Len(handled'), i < j
      PROVE  handled'[i] < handled'[j]
  <2>1. i \in 1..Len(handled)
    BY <1>3, <1>5
  <2>2. CASE j \in 1..Len(handled)
    BY <1>3, <1>4, <1>5, <2>1, <2>2 DEF HandledInOrder
  <2>3. CASE j = Len(handled) + 1
    BY <1>2, <1>3, <2>1, <2>3
  <2> QED
    BY <1>3, <2>2, <2>3
<1>6. \A i \in 1..Len(handled') : handled'[i] <= rx
  BY <1>1, <1>2, <1>3
<1> QED
  BY <1>5, <1>6 DEF HandledInOrder

LEMMA NextIInv == IInv /\ [Next]_vars => IInv'
<1> SUFFICES ASSUME IInv, [Next]_vars PROVE IInv'
  OBVIOUS
<1>a. TypeOK /\ FreshnessInv
  BY DEF IInv
<1>b. Modulus \in Nat /\ Modulus > 0
  BY SecOCAssumption
<1>1. CASE Build
  BY <1>a, <1>1 DEF Build, IInv, TypeOK, FreshnessInv, FloorBehindSender,
                    HandledInOrder, FrameSet
<1>2. CASE Send
  <2>1. built % Modulus \in 0..(Modulus - 1)
    BY <1>a, <1>b DEF TypeOK
  <2> QED
    BY <1>a, <1>2, <2>1 DEF Send, IInv, TypeOK, FreshnessInv, FloorBehindSender,
                            HandledInOrder, FrameSet, None
<1>3. ASSUME NEW f \in bus, Accept(f) PROVE IInv'
  <2> DEFINE cand == Candidate(rx, f.low)
  <2>1. cand \in Nat /\ cand > rx
    BY <1>a, CandidateAhead DEF TypeOK, FreshnessInv, FrameSet
  <2>2. cand <= tx
    BY <1>a, <1>3 DEF Accept, Verifies, FreshnessInv
  <2>3. /\ rx' = cand /\ accepted' = cand
        /\ UNCHANGED <<tx, built, bus, handled>>
    BY <1>3 DEF Accept
  <2> HIDE DEF cand
  <2>4. TypeOK'
    BY <1>a, <2>1, <2>3 DEF TypeOK
  <2>5. \A i \in 1..Len(handled) : handled[i] \in Nat /\ handled[i] <= rx
    BY <1>a DEF TypeOK, FreshnessInv
  <2>6. FreshnessInv'
    BY <1>a, <2>1, <2>2, <2>3, <2>5
       DEF TypeOK, FreshnessInv, FloorBehindSender, HandledInOrder
  <2> QED
    BY <2>4, <2>6 DEF IInv
<1>4. CASE Handle
  <2>1. TypeOK'
    BY <1>a, <1>4 DEF Handle, TypeOK, None
  <2>2. FreshnessInv'
    BY <1>a, <1>4, HandleKeepsOrder
       DEF Handle, IInv, TypeOK, FreshnessInv, FloorBehindSender, None
  <2> QED
    BY <2>1, <2>2 DEF IInv
<1>5. ASSUME NEW f \in bus, Mangle(f) PROVE IInv'
  BY <1>a, <1>b, <1>5
     DEF Mangle, IInv, TypeOK, FreshnessInv, FloorBehindSender, HandledInOrder,
         FrameSet
<1>6. ASSUME NEW f \in bus, Lose(f) PROVE IInv'
  BY <1>a, <1>6 DEF Lose, IInv, TypeOK, FreshnessInv, FloorBehindSender,
                    HandledInOrder
<1>7. CASE SenderCrashes
  BY <1>a, <1>7 DEF SenderCrashes, IInv, TypeOK, FreshnessInv,
                    FloorBehindSender, HandledInOrder, None
<1>8. CASE ReceiverCrashes
  BY <1>a, <1>8 DEF ReceiverCrashes, IInv, TypeOK, FreshnessInv,
                    FloorBehindSender, HandledInOrder, None
<1>9. CASE UNCHANGED vars
  BY <1>a, <1>9 DEF vars, IInv, TypeOK, FreshnessInv, FloorBehindSender,
                    HandledInOrder
<1> QED
  BY <1>1, <1>2, <1>3, <1>4, <1>5, <1>6, <1>7, <1>8, <1>9 DEF Next

THEOREM Invariance == Spec => []IInv
<1> QED
  BY InitIInv, NextIInv, PTL DEF Spec

\* Frames of one data identifier are handled in the order they were built and
\* none twice, over loss, repetition, reordering and crashes: secoc_verify
\* stores the floor before _handle_can sees the payload.
THEOREM Order == Spec => []HandledInOrder
<1>1. IInv => HandledInOrder
  BY DEF IInv, FreshnessInv
<1> QED
  BY <1>1, Invariance, PTL

\* secoc_verify accepts every intact frame that is ahead of the floor by no
\* more than the window, whichever side of a wrap of the 16-bit half it is on.
THEOREM FreshAccepted == Spec => []FreshFrameVerifies
<1>1. ASSUME IInv PROVE FreshFrameVerifies
  <2> SUFFICES ASSUME NEW f \in bus, f.low = f.fv % Modulus,
                      f.fv > rx, f.fv - rx <= MaxJump
               PROVE  Verifies(f, rx)
    BY DEF FreshFrameVerifies
  <2>1. f.fv \in Nat /\ rx \in Nat /\ f.fv <= rx + Modulus
    BY <1>1, SecOCAssumption DEF IInv, TypeOK, FrameSet
  <2>2. Candidate(rx, f.low) = f.fv
    BY <2>1, CandidateExact
  <2> QED
    BY <2>2 DEF Verifies
<1> QED
  BY <1>1, Invariance, PTL

\* secoc_verify refuses every frame that is not ahead of the floor.
THEOREM StaleRefused == Spec => []StaleFrameRefused
<1>1. ASSUME IInv PROVE StaleFrameRefused
  <2> SUFFICES ASSUME NEW f \in bus, f.fv <= rx, Verifies(f, rx)
               PROVE  FALSE
    BY DEF StaleFrameRefused
  <2>1. Candidate(rx, f.low) > rx /\ f.fv \in Nat /\ rx \in Nat
    BY <1>1, CandidateAhead DEF IInv, TypeOK, FreshnessInv, FrameSet
  <2> QED
    BY <2>1 DEF Verifies
<1> QED
  BY <1>1, Invariance, PTL

\* What is accepted of the intact frames is exactly what lies inside the window.
THEOREM WindowHolds == Spec => []WindowExact
<1>1. FreshFrameVerifies /\ StaleFrameRefused => WindowExact
  BY DEF WindowExact
<1> QED
  BY <1>1, FreshAccepted, StaleRefused, PTL

\* The link implements the at-most-once, in-order promise of AtMostOnce.tla.
THEOREM Refinement == Spec => PromiseSpec
<1>1. Init => Promise!Init
  BY DEF Init, Promise!Init
<1>2. ASSUME IInv, [Next]_vars PROVE [Promise!Next]_(Promise!vars)
  <2>1. CASE Build
    BY <2>1 DEF Build, Promise!Next, Promise!Build
  <2>2. CASE Handle
    <3>1. /\ accepted \in 1..tx /\ handled \in Seq(Nat)
          /\ accepted # None
          /\ \A i \in 1..Len(handled) : handled[i] < accepted
          /\ handled' = Append(handled, accepted) /\ tx' = tx
      BY <1>2, <2>2 DEF Handle, IInv, TypeOK, FreshnessInv, FloorBehindSender,
                        None
    <3>2. accepted > Promise!Last
      BY <3>1 DEF Promise!Last
    <3> QED
      BY <3>1, <3>2 DEF Promise!Next, Promise!Handle
  <2>3. CASE UNCHANGED <<tx, handled>>
    BY <2>3 DEF Promise!vars
  <2> QED
    BY <1>2, <2>1, <2>2, <2>3
       DEF Next, vars, Send, Accept, Mangle, Lose, SenderCrashes,
           ReceiverCrashes
<1> QED
  BY <1>1, <1>2, Invariance, PTL DEF Spec, PromiseSpec, Promise!Spec
===============================================================================
