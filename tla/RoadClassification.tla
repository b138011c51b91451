-------------------------- MODULE RoadClassification --------------------------
(***************************************************************************)
(* road_classification_node.cpp: a timer reads what the road ECU has sent  *)
(* on CAN and publishes a speed limit for nav2's controller each time.     *)
(***************************************************************************)
EXTENDS Integers, Sequences, SequencesExt

CONSTANTS ConfidenceThreshold, \* confidence_threshold
          Confidences,  \* confidences the ECU reports
          Buffer,       \* bound: frames the socket holds, the rest is lost
          MaxFrames,    \* bound: frames of the ECU
          MaxErrors,    \* bound: errors of read()
          MaxRestarts   \* bound: restarts of the controller

ASSUME RoadAssumption ==
  /\ ConfidenceThreshold \in Nat /\ Confidences \subseteq 0..255
  /\ {Buffer, MaxFrames, MaxErrors, MaxRestarts} \subseteq Nat

VARIABLES
  socket,    \* socket_fd_ is open
  inbox,     \* frames in its buffer
  is_rough,
  limit,     \* what the controller applies; "base" until a message arrives
  surface,   \* the verdict of the last frame that counts, among those received
  frames, errors, restarts

road_vars == <<socket, inbox, is_rough, limit, surface, frames, errors, restarts>>

\* A frame the filter lets through: long is can_dlc >= 6; the filter does not
\* look at the flags of the identifier, the loop compares all of it.
Frames == [plain : BOOLEAN, long : BOOLEAN, label : 0..1, conf : Confidences]

Counts(f) == f.plain /\ f.long

\* static_cast<uint8_t>(confidence_threshold_)
Rough(f) == f.label = 1 /\ f.conf >= ConfidenceThreshold % 256

\* readCANFrames, over the frames read() returns.
\* Mutant: one frame for each timer.
Drained_One(rough, read) == IF read # <<>> /\ Counts(Head(read)) THEN Rough(Head(read)) ELSE rough
Drained(rough, read) ==
  LET after[n \in 0..Len(read)] ==
        IF n = 0 THEN rough
        ELSE IF Counts(read[n]) THEN Rough(read[n]) ELSE after[n - 1]
  IN after[Len(read)]

LimitOf(rough) == IF rough THEN "rough_speed_limit" ELSE "smooth_speed_limit"

\* timerCallback
Published == LimitOf(is_rough')

\* read() goes on until there is no more, or until it fails; the rest then waits.
TimerCallback ==
  \E n \in 0..Len(inbox) :
    /\ n < Len(inbox) => errors < MaxErrors
    /\ errors' = IF n < Len(inbox) THEN errors + 1 ELSE errors
    /\ is_rough' = IF socket THEN Drained(is_rough, SubSeq(inbox, 1, n)) ELSE is_rough
    /\ inbox' = SubSeq(inbox, n + 1, Len(inbox))
    /\ limit' = Published
    /\ UNCHANGED <<socket, surface, frames, restarts>>

EcuSends(f) ==
  /\ frames < MaxFrames /\ frames' = frames + 1
  /\ IF socket /\ Len(inbox) < Buffer
     THEN /\ inbox' = Append(inbox, f)
          /\ surface' = IF Counts(f) THEN [label |-> f.label, conf |-> f.conf] ELSE surface
     ELSE UNCHANGED <<inbox, surface>>
  /\ UNCHANGED <<socket, is_rough, limit, errors, restarts>>

ControllerRestarts ==
  /\ restarts < MaxRestarts /\ restarts' = restarts + 1 /\ limit' = "base"
  /\ UNCHANGED <<socket, inbox, is_rough, surface, frames, errors>>

\* connectCAN succeeds or fails, once and for all.
RoadInit ==
  /\ socket \in BOOLEAN /\ inbox = <<>> /\ is_rough = FALSE /\ limit = "base"
  /\ surface = [label |-> 0, conf |-> 0] /\ frames = 0
  /\ errors = 0 /\ restarts = 0

RoadNext == TimerCallback \/ (\E f \in Frames : EcuSends(f)) \/ ControllerRestarts
RoadSpec == RoadInit /\ [][RoadNext]_road_vars
RoadFair == RoadSpec /\ WF_road_vars(TimerCallback)

-----------------------------------------------------------------------------
(* Properties *)

\* Nothing that was received is left out or overtaken: once the socket is empty
\* the limit is that of the newest frame that counts, however many had to wait
\* for a read() that failed and whatever followed it.
NewestVerdictCounts ==
  [][inbox' = <<>> /\ limit' # "base"
       => limit' = LimitOf(surface.label = 1 /\ surface.conf >= ConfidenceThreshold)]_road_vars

\* A controller that restarts is limited again, though the road stays as it is.
LimitReapplied ==
  <>[](limit = LimitOf(surface.label = 1 /\ surface.conf >= ConfidenceThreshold))

\* Each message and the limit that stays are those of the road.
LimitFollowsRoad == NewestVerdictCounts /\ LimitReapplied
=============================================================================
