--------------------------------- MODULE SecOC ---------------------------------
(***************************************************************************)
(* One data identifier of the secured CAN link (secoc_utils.py): a sender  *)
(* that numbers its frames, a bus that loses, repeats, delays and mangles  *)
(* them, and a receiver that takes a frame only if its freshness value     *)
(* moves forward.  Both counters live in files, written before the frame   *)
(* is sent or its content handled, and survive a crash of either side.     *)
(*                                                                         *)
(* A frame carries the low half of its freshness value; the MAC covers the *)
(* payload and the whole value, so a frame is the pair of the value its    *)
(* MAC was made for and the low half found in it.                          *)
(***************************************************************************)
EXTENDS Integers, Sequences

CONSTANTS Modulus,   \* 2^16: the low half of the value travels in the frame
          MaxJump,   \* SECOC_FV_MAX_JUMP
          MaxFv      \* bound: frames the sender builds

ASSUME SecOCAssumption ==
  /\ Modulus \in Nat \ {0}
  /\ MaxJump \in 1..Modulus
  /\ MaxFv \in Nat

VARIABLES
  tx,        \* the sender's counter file
  rx,        \* the receiver's counter file: the last value accepted
  built,     \* value of the frame built and not yet sent, or None
  bus,       \* frames the bus may deliver, once, again or never
  accepted,  \* value of the frame verified and not yet handled, or None
  handled    \* values of the frames handled

vars == <<tx, rx, built, bus, accepted, handled>>

None == 0
FrameSet == [fv : Nat, low : Nat]

TypeOK ==
  /\ tx \in Nat /\ rx \in Nat
  /\ built \in Nat /\ accepted \in Nat
  /\ bus \subseteq FrameSet
  /\ handled \in Seq(Nat)

Init ==
  /\ tx = 0 /\ rx = 0
  /\ built = None /\ bus = {} /\ accepted = None /\ handled = <<>>

\* secoc_build: number the frame one above the stored counter, store that.
Build ==
  /\ built = None
  /\ tx < MaxFv
  /\ built' = tx + 1
  /\ tx' = tx + 1
  /\ UNCHANGED <<rx, bus, accepted, handled>>

\* can_send.
Send ==
  /\ built # None
  /\ bus' = bus \cup {[fv |-> built, low |-> built % Modulus]}
  /\ built' = None
  /\ UNCHANGED <<tx, rx, accepted, handled>>

\* Mutant: the wrap of the low half is not carried.
Candidate_NoCarry(floor, low) == (floor - (floor % Modulus)) + low

\* The full value the receiver tries: the least above the floor with that low
\* half.
Candidate(floor, low) ==
  LET cand == (floor - (floor % Modulus)) + low
  IN  IF cand <= floor THEN cand + Modulus ELSE cand

\* secoc_verify: the MAC is that of the candidate, and the candidate is within
\* the accept window.  Otherwise nothing changes.
Verifies(f, floor) ==
  LET cand == Candidate(floor, f.low)
  IN  /\ cand = f.fv
      /\ cand - floor <= MaxJump

\* Mutant: the accepted value is not stored.
Accept_Unstored(f) ==
  /\ accepted = None
  /\ f \in bus
  /\ Verifies(f, rx)
  /\ accepted' = Candidate(rx, f.low)
  /\ UNCHANGED <<tx, rx, built, bus, handled>>

\* An accepted value is stored before the caller sees the payload.
Accept(f) ==
  /\ accepted = None
  /\ f \in bus
  /\ Verifies(f, rx)
  /\ rx' = Candidate(rx, f.low)
  /\ accepted' = Candidate(rx, f.low)
  /\ UNCHANGED <<tx, built, bus, handled>>

\* _handle_can acts on the payload.
Handle ==
  /\ accepted # None
  /\ handled' = Append(handled, accepted)
  /\ accepted' = None
  /\ UNCHANGED <<tx, rx, built, bus>>

\* The bus mangles the low half of a frame, or loses a frame for good.
Mangle(f) ==
  /\ f \in bus
  /\ \E low \in 0..(Modulus - 1) : bus' = (bus \ {f}) \cup {[f EXCEPT !.low = low]}
  /\ UNCHANGED <<tx, rx, built, accepted, handled>>

Lose(f) ==
  /\ f \in bus
  /\ bus' = bus \ {f}
  /\ UNCHANGED <<tx, rx, built, accepted, handled>>

\* A crash loses what is in memory; the counters are files.
SenderCrashes   == built # None /\ built' = None
                   /\ UNCHANGED <<tx, rx, bus, accepted, handled>>
ReceiverCrashes == accepted # None /\ accepted' = None
                   /\ UNCHANGED <<tx, rx, built, bus, handled>>

Next ==
  \/ Build \/ Send \/ Handle
  \/ \E f \in bus : Accept(f) \/ Mangle(f) \/ Lose(f)
  \/ SenderCrashes \/ ReceiverCrashes

Spec == Init /\ [][Next]_vars

-----------------------------------------------------------------------------
(* Frames are handled in the order they were built, none of them twice,    *)
(* over loss, repetition, reordering and crashes on both sides.            *)
HandledInOrder ==
  \A i, j \in 1..Len(handled) : i < j => handled[i] < handled[j]

(* The receiver's floor never passes what the sender has numbered, so a    *)
(* sender that kept its counter is never taken for an old one for good.    *)
FloorBehindSender == rx <= tx

(* What makes the order inductive: every value on the way or in memory was *)
(* numbered by the sender, and whatever was handled is at most the floor   *)
(* and below the value that waits to be handled.                           *)
FreshnessInv ==
  /\ built <= tx
  /\ \A f \in bus : f.fv <= tx /\ f.low \in 0..(Modulus - 1)
  /\ FloorBehindSender
  /\ accepted <= rx
  /\ \A i \in 1..Len(handled) : /\ handled[i] <= rx
                                /\ accepted # None => handled[i] < accepted
  /\ HandledInOrder

(* An intact frame that is ahead of the floor by no more than the window   *)
(* is accepted, across every wrap of the 16-bit half.                      *)
FreshFrameVerifies ==
  \A f \in bus : (/\ f.low = f.fv % Modulus
                  /\ f.fv > rx /\ f.fv - rx <= MaxJump) => Verifies(f, rx)

(* A frame that is not ahead of the floor is refused, whatever its low     *)
(* half has become on the way.                                             *)
StaleFrameRefused == \A f \in bus : f.fv <= rx => ~Verifies(f, rx)

(* The window is exact on both sides, whatever low halves are on the way.  *)
WindowExact == FreshFrameVerifies /\ StaleFrameRefused

Promise == INSTANCE AtMostOnce WITH sent <- tx
PromiseSpec == Promise!Spec
===============================================================================
