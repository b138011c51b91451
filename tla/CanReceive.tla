------------------------------- MODULE CanReceive -------------------------------
(***************************************************************************)
(* How a CAN frame gets from the socket to _handle_can in                  *)
(* update_coordinator/node.py: a reader thread puts it into can_queue and  *)
(* triggers a guard condition, the executor takes the trigger and drains   *)
(* the queue.  The two run concurrently, from the middle of __init__ to    *)
(* the middle of destroy_node.                                             *)
(*                                                                         *)
(* Frames are numbered in the order they reach the socket.                 *)
(***************************************************************************)
EXTENDS Naturals, Sequences, SequencesExt

CONSTANTS EarlyFrames,  \* a frame may come before the guard condition exists
          BusFails,     \* select or recv may raise (the interface goes down)
          MaxFrames     \* bound: frames that reach the socket

ASSUME CanReceiveAssumption ==
  EarlyFrames \in BOOLEAN /\ BusFails \in BOOLEAN /\ MaxFrames \in Nat

VARIABLES
  main,      \* where the main thread is
  gc_made,   \* self._gc is set
  gc_set,    \* the guard condition is triggered and not taken
  shutdown,  \* _shutdown_event
  open,      \* the socket is open
  reader,    \* where the reader thread is
  arrived,   \* frames that reached the socket (bounded by MaxFrames)
  socket,    \* frames in the socket
  taken,     \* the frame the reader thread has received, or <<>>
  can_queue, \* frames in the queue
  current,   \* the frame _handle_can works on, or <<>>
  handled    \* frames handled

receive_vars == <<main, gc_made, gc_set, shutdown, open, reader, arrived, socket, taken,
                  can_queue, current, handled>>

MainStages   == {"init", "waiting", "draining", "handling", "joining", "destroyed"}
ReaderStages == {"unborn", "receiving", "putting", "triggering", "ended"}

ReceiveTypeOK ==
  /\ main \in MainStages /\ reader \in ReaderStages
  /\ gc_made \in BOOLEAN /\ gc_set \in BOOLEAN
  /\ shutdown \in BOOLEAN /\ open \in BOOLEAN
  /\ arrived \in Nat
  /\ socket \in Seq(Nat) /\ taken \in Seq(Nat) /\ can_queue \in Seq(Nat)
  /\ current \in Seq(Nat) /\ handled \in Seq(Nat)

ReceiveInit ==
  /\ main = "init" /\ gc_made = FALSE /\ gc_set = FALSE
  /\ shutdown = FALSE /\ open = TRUE /\ reader = "unborn"
  /\ arrived = 0 /\ socket = <<>> /\ taken = <<>> /\ can_queue = <<>>
  /\ current = <<>> /\ handled = <<>>

frames == <<arrived, socket, taken, can_queue, current, handled>>

FrameArrives ==
  /\ open /\ arrived < MaxFrames
  /\ EarlyFrames \/ gc_made
  /\ arrived' = arrived + 1
  /\ socket' = Append(socket, arrived + 1)
  /\ UNCHANGED <<main, gc_made, gc_set, shutdown, open, reader, taken, can_queue,
                 current, handled>>

-----------------------------------------------------------------------------
(* The main thread *)

StartReader ==
  /\ main = "init" /\ reader = "unborn"
  /\ reader' = "receiving"
  /\ UNCHANGED <<main, gc_made, gc_set, shutdown, open, frames>>

MakeGuardCondition ==
  /\ main = "init" /\ reader # "unborn" /\ ~gc_made
  /\ gc_made' = TRUE
  /\ UNCHANGED <<main, gc_set, shutdown, open, reader, frames>>

Spin ==
  /\ main = "init" /\ gc_made
  /\ main' = "waiting"
  /\ UNCHANGED <<gc_made, gc_set, shutdown, open, reader, frames>>

\* The executor takes the trigger, then calls _on_can_event.
TakeTrigger ==
  /\ main = "waiting" /\ gc_set
  /\ gc_set' = FALSE
  /\ main' = "draining"
  /\ UNCHANGED <<gc_made, shutdown, open, reader, frames>>

\* while not self.can_queue.empty(): get
Get ==
  /\ main = "draining" /\ can_queue # <<>>
  /\ current' = <<Head(can_queue)>>
  /\ can_queue' = Tail(can_queue)
  /\ main' = "handling"
  /\ UNCHANGED <<gc_made, gc_set, shutdown, open, reader, arrived, socket, taken,
                 handled>>

\* Mutant: one frame for one trigger.
Handle_Once ==
  /\ main = "handling"
  /\ handled' = handled \o current
  /\ current' = <<>>
  /\ main' = "waiting"
  /\ UNCHANGED <<gc_made, gc_set, shutdown, open, reader, arrived, socket, taken,
                 can_queue>>

Handle ==
  /\ main = "handling"
  /\ handled' = handled \o current
  /\ current' = <<>>
  /\ main' = "draining"
  /\ UNCHANGED <<gc_made, gc_set, shutdown, open, reader, arrived, socket, taken,
                 can_queue>>

QueueEmpty ==
  /\ main = "draining" /\ can_queue = <<>>
  /\ main' = "waiting"
  /\ UNCHANGED <<gc_made, gc_set, shutdown, open, reader, frames>>

\* Spinning ends between two callbacks, or in the middle of one: of an exception it
\* raises, of a KeyboardInterrupt.
Spinning == main \in {"waiting", "draining", "handling"}

\* Mutant: the reader is not told.
DestroyNode_Untold ==
  /\ Spinning
  /\ main' = "joining"
  /\ UNCHANGED <<gc_made, gc_set, shutdown, open, reader, frames>>

\* destroy_node: set the event, close the socket, join the reader.
DestroyNode ==
  /\ Spinning
  /\ main' = "joining"
  /\ shutdown' = TRUE /\ open' = FALSE /\ socket' = <<>>
  /\ UNCHANGED <<gc_made, gc_set, reader, arrived, taken, can_queue, current,
                 handled>>

\* The join returns, or its two seconds are over; the node and its guard
\* condition are destroyed.
Joined ==
  /\ main = "joining"
  /\ main' = "destroyed"
  /\ gc_set' = FALSE
  /\ UNCHANGED <<gc_made, shutdown, open, reader, frames>>

-----------------------------------------------------------------------------
(* The reader thread *)

Receive ==
  /\ reader = "receiving" /\ ~shutdown /\ socket # <<>>
  /\ taken' = <<Head(socket)>>
  /\ socket' = Tail(socket)
  /\ reader' = "putting"
  /\ UNCHANGED <<main, gc_made, gc_set, shutdown, open, arrived, can_queue, current,
                 handled>>

Put ==
  /\ reader = "putting"
  /\ can_queue' = can_queue \o taken
  /\ taken' = <<>>
  /\ reader' = "triggering"
  /\ UNCHANGED <<main, gc_made, gc_set, shutdown, open, arrived, socket, current,
                 handled>>

\* self._gc is looked up now: before it is set, and when it is destroyed, the
\* trigger raises and the thread ends.
Trigger ==
  /\ reader = "triggering"
  /\ IF gc_made /\ main # "destroyed"
     THEN gc_set' = TRUE /\ reader' = "receiving"
     ELSE reader' = "ended" /\ UNCHANGED gc_set
  /\ UNCHANGED <<main, gc_made, shutdown, open, frames>>

\* The event is set, the socket is closed, or select or recv raises.
ReaderEnds ==
  /\ reader = "receiving" /\ (shutdown \/ ~open \/ BusFails)
  /\ reader' = "ended"
  /\ UNCHANGED <<main, gc_made, gc_set, shutdown, open, frames>>

-----------------------------------------------------------------------------
ReceiveNext ==
  \/ FrameArrives
  \/ StartReader \/ MakeGuardCondition \/ Spin
  \/ TakeTrigger \/ Get \/ Handle \/ QueueEmpty \/ DestroyNode \/ Joined
  \/ Receive \/ Put \/ Trigger \/ ReaderEnds

ReceiveSpec == ReceiveInit /\ [][ReceiveNext]_receive_vars

(* Both threads run; a reader that only may fail need not.                  *)
Fairness ==
  /\ WF_receive_vars(StartReader) /\ WF_receive_vars(MakeGuardCondition)
  /\ WF_receive_vars(Spin) /\ WF_receive_vars(TakeTrigger)
  /\ WF_receive_vars(Get) /\ WF_receive_vars(Handle)
  /\ WF_receive_vars(QueueEmpty) /\ WF_receive_vars(Joined)
  /\ WF_receive_vars(Receive) /\ WF_receive_vars(Put) /\ WF_receive_vars(Trigger)
  /\ WF_receive_vars((shutdown \/ ~open) /\ ReaderEnds)

ReceiveFair == ReceiveSpec /\ Fairness

-----------------------------------------------------------------------------
(* No wake-up is lost: when the executor waits with a frame in the queue,  *)
(* the trigger that will make it look is set or about to be.               *)
NothingStranded ==
  main = "waiting" /\ can_queue # <<>> => gc_set \/ reader = "triggering"

(* Until the socket is closed, every frame is in exactly one place, in the *)
(* order the frames came.                                                  *)
InFlightInOrder ==
  open => handled \o current \o can_queue \o taken \o socket
            = [i \in 1..arrived |-> i]

(* What the executor can find is what the bus brought, and it will look.   *)
FramesReachHandler == NothingStranded /\ InFlightInOrder

(* What makes the first inductive when no frame comes early: before the    *)
(* guard condition exists nothing is under way, and as long as it exists a *)
(* queue that is not being drained has its trigger.                        *)
WakeupInv ==
  /\ ~gc_made => /\ main = "init" /\ ~gc_set
                /\ socket = <<>> /\ can_queue = <<>>
                /\ reader \in {"unborn", "receiving", "ended"}
  /\ main \in {"init", "waiting"} /\ can_queue # <<>> =>
       gc_set \/ reader = "triggering"

(* What the reader has taken is handled unless the node is stopped first.  *)
TakenIsHandled ==
  \A i \in 1..MaxFrames :
    Contains(taken, i) ~> (Contains(handled, i) \/ shutdown)

(* A stop ends the reader too, wherever it finds the thread: also one that *)
(* outlives the join and meets a guard condition that is destroyed.        *)
StopEndsReader == main \in {"joining", "destroyed"} ~> reader = "ended"

(* Every frame and the thread itself come to their end.                    *)
ReaderAndFramesEnd == TakenIsHandled /\ StopEndsReader

-----------------------------------------------------------------------------
(* What a message of the program says and the code does not do.            *)

\* node.py:213: "Coordinator ready on {iface}": from then on, and as long as the
\* bus works, it listens.
ReadyListens ==
  main \notin {"init", "joining", "destroyed"} => reader # "ended"
===============================================================================
