---------------------------- MODULE SignDetection -----------------------------
(***************************************************************************)
(* yolo_class_node.cpp and its can_comms.cpp: each message of detections   *)
(* becomes one CAN frame for each class of sign seen in it.  The container *)
(* has no node if the CAN interface cannot be opened.                      *)
(***************************************************************************)
EXTENDS Integers, FiniteSets, Sequences, SequencesExt

CONSTANTS Scores, ScoreThreshold, \* conf_threshold
          Ids,               \* numbers a class_id may stand for
          MaxResults,        \* bound: results in a message
          SignDepth,             \* queue of SensorDataQoS
          MaxMessages        \* bound

ASSUME SignAssumption ==
  Scores \subseteq Nat /\ ScoreThreshold \in Nat /\ Ids \subseteq Int /\ {MaxResults, SignDepth} \subseteq Nat

VARIABLES node,    \* the component was loaded
          queue,   \* detections waiting for the callback
          pending, \* unique_classes not yet sent
          handled, \* the message being handled
          sent,    \* frames on the bus for it, in order
          lost,    \* classes whose frame write() refused
          messages

sign_vars == <<node, queue, pending, handled, sent, lost, messages>>

\* A result; id is what stoi reads, and what it cannot read is no sign either.
Unreadable == -1
Results  == [score : Scores, id : Ids \cup {Unreadable}]
Messages == UNION {[1..n -> Results] : n \in 0..MaxResults}

Wanted(m) ==
  {m[i].id : i \in {i \in DOMAIN m : m[i].score >= ScoreThreshold /\ m[i].id \in 0..14}}

Detect(m) ==
  /\ messages < MaxMessages /\ messages' = messages + 1
  /\ queue' = IF ~node THEN queue
              ELSE LET q == Append(queue, m) IN IF Len(q) > SignDepth THEN Tail(q) ELSE q
  /\ UNCHANGED <<node, pending, handled, sent, lost>>

OnDetections ==
  /\ pending = {} /\ queue # <<>>
  /\ handled' = Head(queue) /\ queue' = Tail(queue)
  /\ pending' = Wanted(Head(queue)) /\ sent' = <<>> /\ lost' = {}
  /\ UNCHANGED <<node, messages>>

\* send: a failing write is a warning.
\* Mutant: and ends the loop.
Left_Return(cls) == {}
Left(cls) == pending \ {cls}

Send(cls) ==
  /\ cls \in pending
  /\ \/ sent' = Append(sent, cls) /\ pending' = pending \ {cls} /\ UNCHANGED lost
     \/ lost' = lost \cup {cls} /\ pending' = Left(cls) /\ UNCHANGED sent
  /\ UNCHANGED <<node, queue, handled, messages>>

SignInit ==
  /\ node \in BOOLEAN /\ queue = <<>> /\ pending = {} /\ handled = <<>>
  /\ sent = <<>> /\ lost = {} /\ messages = 0

SignNext == (\E m \in Messages : Detect(m)) \/ OnDetections \/ \E cls \in pending : Send(cls)
SignSpec == SignInit /\ [][SignNext]_sign_vars

-----------------------------------------------------------------------------
(* Properties *)

\* When a message has been handled, each sign it shows with enough confidence
\* has had its frame, once, unless that very frame was refused.
EachSignOnce ==
  /\ pending = {} => {handled[i].id : i \in {i \in DOMAIN handled :
                        handled[i].score >= ScoreThreshold /\ handled[i].id \in 0..14}}
                     = ToSet(sent) \cup lost
  /\ Cardinality(ToSet(sent)) = Len(sent)
=============================================================================
