-------------------------- MODULE UpdateCoordinator --------------------------
(***************************************************************************)
(* The update coordinator node (update_coordinator/node.py): it answers    *)
(* the ECUs' update REQUESTs after asking the driver through a file spool, *)
(* keeps the set of running updates, and holds the vehicle through the     *)
(* emergency-stop service while that set is not empty.                     *)
(*                                                                         *)
(* A SingleThreadedExecutor runs every callback of the node, so one        *)
(* callback is one action.  A drain of the CAN queue is one action per     *)
(* frame, a poll tick one action per prompt it resolves: the driver's      *)
(* verdict may land between any two reads of the loop, so the split adds   *)
(* no behaviour.                                                           *)
(*                                                                         *)
(* Time is abstracted to what the node tests: "overdue" (a prompt is past  *)
(* its deadline_ms) and "expired" (an update is older than timeout_sec).   *)
(* ApprovalWindow.tla keeps the milliseconds.                              *)
(***************************************************************************)
EXTENDS Naturals, FiniteSets, Sequences

CONSTANTS Requesters,       \* the ECUs that ask over CAN: "cluster", "esp32"
          Jetson,           \* the name under which the node's own host updates
          RequireApproval,  \* parameter require_approval
          OnNoVerdict,      \* parameter on_no_verdict
          Faults,           \* which faults of the environment may happen
          MaxAsks,          \* bound: REQUEST frames the ECUs send in all
          MaxQueue          \* bound: frames waiting in can_queue

FaultKinds == {"ui",      \* the head unit's app stops refreshing ui-alive
               "disk",    \* a write into the spool or the state directory fails
               "unlink",  \* a file of the spool cannot be removed
               "garbage", \* a verdict file holds neither approve nor deny
               "can",     \* a frame from an ECU is lost or rejected, a send raises
               "server",  \* the emergency-stop server goes away
               "reject",  \* a lock or unlock call is answered without success
               "restart"} \* the node stops and is started again

ASSUME CoordinatorAssumption ==
  /\ Jetson \notin Requesters
  /\ RequireApproval \in BOOLEAN
  /\ OnNoVerdict \in {"approve", "deny"}
  /\ Faults \subseteq FaultKinds
  /\ MaxAsks \in Nat
  /\ MaxQueue \in Nat

Names    == Requesters \cup {Jetson}
Verdicts == {"APPROVE", "DENY"}
Words    == {"approve", "deny", "garbage"}
Frames   == [from : Requesters, kind : {"REQUEST", "RUNNING", "reject"}]
Calls    == [label : {"lock", "unlock"},
             at : {"idle", "sent", "ok", "rejected", "lost"}]
NoPrompt == 0               \* offer ids count from 1
Idle     == [label |-> "unlock", at |-> "idle"]

VARIABLES
  up,                  \* the process runs
  active_ecus,         \* names with an update in progress
  expired,             \* those of them started more than timeout_sec ago
  is_locked,           \* what the node believes of the emergency lock
  lock_state_pending,  \* _lock_state_pending: a lock or unlock call is out
  timeout_timer,       \* _timeout_timer is not None
  pending,             \* name -> id of its prompt, or NoPrompt
  overdue,             \* names whose prompt is past its deadline
  poll_timer,          \* _poll_timer is not None
  offer_seq,           \* _offer_seq (with the clock, what makes ids unique)
  notice_timers,       \* names whose completion notice has an expiry timer
  can_queue,           \* frames from the reader thread
  call,                \* the outstanding service call and where it is
  self_flag,           \* jetson_updating.flag exists
  offers,              \* ids in offers/
  verdicts,            \* files in verdicts/
  notices,             \* names with a file in notices/
  ui_alive,            \* ui-alive is fresh and offers/ exists
  cards,               \* prompts on the head unit's screen
  server_ready,        \* lock_client.service_is_ready()
  ecu,                 \* what each requester is doing
  asks,                \* REQUEST frames sent so far (bounded by MaxAsks)
  wire                 \* verdict frames on their way to each requester

lockVars    == <<is_locked, lock_state_pending, timeout_timer, call>>
approvalVars== <<pending, overdue, poll_timer, offer_seq>>
spoolVars   == <<offers, verdicts>>
noticeVars  == <<notices, notice_timers>>
headUnit    == <<ui_alive, cards>>
ecuVars     == <<ecu, asks>>
vars == <<up, active_ecus, expired, lockVars, approvalVars, spoolVars,
          noticeVars, can_queue, self_flag, headUnit, server_ready, ecuVars,
          wire>>

TypeOK ==
  /\ up \in BOOLEAN /\ is_locked \in BOOLEAN /\ lock_state_pending \in BOOLEAN
  /\ timeout_timer \in BOOLEAN /\ poll_timer \in BOOLEAN
  /\ self_flag \in BOOLEAN /\ ui_alive \in BOOLEAN /\ server_ready \in BOOLEAN
  /\ active_ecus \subseteq Names /\ expired \subseteq active_ecus
  /\ pending \in [Requesters -> Nat] /\ overdue \subseteq Requesters
  /\ offer_seq \in Nat /\ asks \in Nat
  /\ offers \subseteq Nat /\ cards \subseteq Nat
  /\ verdicts \subseteq [id : Nat, word : Words]
  /\ notices \subseteq Requesters /\ notice_timers \subseteq Requesters
  /\ can_queue \in Seq(Frames)
  /\ call \in Calls
  /\ ecu \in [Requesters -> {"idle", "waiting", "updating"}]
  /\ wire \in [Requesters -> Seq(Verdicts)]

\* A car may run without a head unit.
Init ==
  /\ up = TRUE /\ active_ecus = {} /\ expired = {}
  /\ is_locked = FALSE /\ lock_state_pending = FALSE /\ timeout_timer = FALSE
  /\ pending = [n \in Requesters |-> NoPrompt] /\ overdue = {}
  /\ poll_timer = FALSE /\ offer_seq = 0
  /\ notices = {} /\ notice_timers = {}
  /\ can_queue = <<>> /\ call = Idle /\ self_flag = FALSE
  /\ offers = {} /\ verdicts = {} /\ cards = {}
  /\ ui_alive \in BOOLEAN /\ server_ready = TRUE
  /\ ecu = [n \in Requesters |-> "idle"] /\ asks = 0
  /\ wire = [n \in Requesters |-> <<>>]

-----------------------------------------------------------------------------
(* Helpers of the callbacks. *)

Prompted == {n \in Requesters : pending[n] # NoPrompt}

\* _call_service: a service that is not ready gets a warning and no call.
CallService(label) ==
  IF server_ready
  THEN /\ lock_state_pending' = TRUE
       /\ call' = [label |-> label, at |-> "sent"]
  ELSE UNCHANGED <<lock_state_pending, call>>

\* _update_lock_state, run last in a callback: it looks at the set the callback
\* leaves in active_ecus.
UpdateLockState ==
  /\ is_locked' = is_locked
  /\ IF lock_state_pending
     THEN UNCHANGED <<timeout_timer, lock_state_pending, call>>
     ELSE /\ timeout_timer' = (active_ecus' # {})
          /\ \/ active_ecus' # {} /\ ~is_locked /\ CallService("lock")
             \/ active_ecus' = {} /\ is_locked /\ CallService("unlock")
             \/ /\ (active_ecus' # {}) = is_locked
                /\ UNCHANGED <<lock_state_pending, call>>

\* Mutants: the lock is not asked for; the update is approved but not counted.
Hold_NoLock(n) ==
  /\ active_ecus' = active_ecus \cup {n}
  /\ expired' = expired \ {n}
  /\ UNCHANGED lockVars
Hold_Nothing(n) == UNCHANGED <<active_ecus, expired>> /\ UpdateLockState

\* self.active_ecus[name] = time.time(), then _update_lock_state.
Hold(n) ==
  /\ active_ecus' = active_ecus \cup {n}
  /\ expired' = expired \ {n}
  /\ UpdateLockState

\* del self.active_ecus[...], then _update_lock_state.
Release(S) ==
  /\ active_ecus' = active_ecus \ S
  /\ expired' = expired \ S
  /\ UpdateLockState

\* Mutant: only the verdict file is removed.
Withdraw_KeepsOffer(ids) ==
  /\ UNCHANGED offers
  /\ verdicts' = {v \in verdicts : v.id \notin ids}

\* An unlink that fails is passed over: the file stays.
Unlinked(files) == IF "unlink" \in Faults THEN SUBSET files ELSE {files}

\* _withdraw_offer: the prompt and its verdict file, if there is one.
Withdraw(ids) ==
  /\ \E gone \in Unlinked(ids) : offers' = offers \ gone
  /\ \E gone \in Unlinked(ids) : verdicts' = {v \in verdicts : v.id \notin gone}

\* Mutant: a deny is not sent.
SendVerdict_ApprovesOnly(n, v) ==
  IF v = "APPROVE" THEN wire' = [wire EXCEPT ![n] = Append(@, v)] ELSE UNCHANGED wire

\* _send_verdict.
SendVerdict(n, v) == wire' = [wire EXCEPT ![n] = Append(@, v)]

\* The process memory is gone; files stay, and the frames already sent.
MemoryLost ==
  /\ up' = FALSE
  /\ active_ecus' = {} /\ expired' = {}
  /\ is_locked' = FALSE /\ lock_state_pending' = FALSE
  /\ timeout_timer' = FALSE /\ poll_timer' = FALSE
  /\ pending' = [n \in Requesters |-> NoPrompt] /\ overdue' = {}
  /\ notice_timers' = {} /\ can_queue' = <<>> /\ call' = Idle
  /\ UNCHANGED offer_seq

\* An exception leaves executor.spin(): main's finally runs destroy_node,
\* which takes down the prompts still in _pending.
Unwind(stillPending) ==
  /\ MemoryLost
  /\ Withdraw(stillPending)

PromptIds(S) == {pending[n] : n \in S} \ {NoPrompt}

-----------------------------------------------------------------------------
(* _begin_approval *)

FailOpen == ~RequireApproval \/ ~ui_alive

\* Gate disabled or nobody to ask: approve at once.  An older prompt of the
\* same requester is not looked at on this path.
ApproveUnasked(n) ==
  /\ FailOpen
  /\ SendVerdict(n, "APPROVE")
  /\ Hold(n)
  /\ UNCHANGED <<up, approvalVars, spoolVars, noticeVars>>

\* Mutant: the sequence is not counted up.
NewOffer_Reused == IF offer_seq = 0 THEN 1 ELSE offer_seq

NewOffer == offer_seq + 1

\* _write_offer renames a complete file into offers/, after _withdraw_offer.
WriteOffer(gone, new) == offers' = (offers \ gone) \cup {new}

\* Ask the driver: drop the requester's older prompt, write a new offer.
AskDriver(n) ==
  /\ ~FailOpen
  /\ offer_seq' = NewOffer
  /\ pending' = [pending EXCEPT ![n] = NewOffer]
  /\ overdue' = overdue \ {n}
  /\ poll_timer' = TRUE
  /\ \E gone \in Unlinked({pending[n]}) : WriteOffer(gone, NewOffer)
  /\ \E gone \in Unlinked({pending[n]}) : verdicts' = {v \in verdicts : v.id \notin gone}
  /\ UNCHANGED <<up, active_ecus, expired, noticeVars, wire>>
  /\ UpdateLockState

\* _write_offer failed: the older prompt is already down, approve at once.
OfferUnwritable(n) ==
  /\ "disk" \in Faults /\ ~FailOpen
  /\ offer_seq' = NewOffer
  /\ pending' = [pending EXCEPT ![n] = NoPrompt]
  /\ overdue' = overdue \ {n}
  /\ Withdraw({pending[n]})
  /\ SendVerdict(n, "APPROVE")
  /\ Hold(n)
  /\ UNCHANGED <<up, poll_timer, noticeVars>>

BeginApproval(n) == ApproveUnasked(n) \/ AskDriver(n) \/ OfferUnwritable(n)

-----------------------------------------------------------------------------
(* CAN frames *)

\* _write_notice: the notice and the timer that deletes it, or neither.
WriteNotice(n) ==
  \/ /\ notices' = notices \cup {n}
     /\ notice_timers' = notice_timers \cup {n}
  \/ "disk" \in Faults /\ UNCHANGED noticeVars

\* RUNNING: the update is over; tell the driver.
HandleRunning(n) ==
  /\ Release({n})
  /\ WriteNotice(n)
  /\ UNCHANGED <<up, approvalVars, spoolVars, wire>>

\* Mutant: _on_can_event returns without _update_lock_state.
HandleReject_Returns ==
  UNCHANGED <<up, active_ecus, expired, lockVars, approvalVars, spoolVars,
              noticeVars, wire>>

\* A frame that fails the length, magic or SecOC test changes nothing, but
\* _on_can_event still ends with _update_lock_state.
HandleReject ==
  /\ UNCHANGED <<up, active_ecus, expired, approvalVars, spoolVars, noticeVars,
                 wire>>
  /\ UpdateLockState

OnCanEvent ==
  /\ up /\ can_queue # <<>>
  /\ can_queue' = Tail(can_queue)
  /\ LET f == Head(can_queue) IN
       \/ f.kind = "REQUEST" /\ BeginApproval(f.from)
       \/ f.kind = "RUNNING" /\ HandleRunning(f.from)
       \/ f.kind = "reject" /\ HandleReject
  /\ UNCHANGED <<self_flag, headUnit, server_ready, ecuVars>>

\* can_send raises (ENOBUFS) inside a fail-open approval: the node goes down
\* with the verdict unsent.
ApprovalSendRaises ==
  /\ up /\ "can" \in Faults /\ can_queue # <<>>
  /\ Head(can_queue).kind = "REQUEST" /\ FailOpen
  /\ Unwind(PromptIds(Requesters))
  /\ UNCHANGED <<notices, self_flag, headUnit, server_ready, ecuVars, wire>>

-----------------------------------------------------------------------------
(* Timers and the service reply *)

\* What the poll makes of the prompt: the verdict file first, then the
\* deadline.  A word that is neither approve nor deny is a deny.
Answered(n) == \E v \in verdicts : v.id = pending[n]
Approved(n) ==
  IF Answered(n) THEN \E v \in verdicts : v.id = pending[n] /\ v.word = "approve"
                 ELSE OnNoVerdict = "approve"

\* Mutant: the deadline is not looked at.
Decided_ByDriver(n) == pending[n] # NoPrompt /\ Answered(n)

Decided(n) == pending[n] # NoPrompt /\ (Answered(n) \/ n \in overdue)

\* _resolve, reached from _poll_approvals: pop the prompt, take it down, send.
Resolve(n) ==
  /\ pending' = [pending EXCEPT ![n] = NoPrompt]
  /\ overdue' = overdue \ {n}
  /\ Withdraw({pending[n]})
  /\ \/ Approved(n) /\ SendVerdict(n, "APPROVE") /\ Hold(n)
     \/ /\ ~Approved(n) /\ SendVerdict(n, "DENY")
        /\ UNCHANGED <<active_ecus, expired>>
        /\ UpdateLockState

StillPending(n) == Prompted # {n}

\* The timer is stopped by the tick that leaves no prompt.
PollApprovals(n) ==
  /\ up /\ poll_timer /\ Decided(n)
  /\ Resolve(n)
  /\ poll_timer' = StillPending(n)
  /\ UNCHANGED <<up, offer_seq, noticeVars, can_queue, self_flag, headUnit,
                 server_ready, ecuVars>>

PollFindsNothing ==
  /\ up /\ poll_timer /\ Prompted = {}
  /\ poll_timer' = FALSE
  /\ UNCHANGED <<up, active_ecus, expired, lockVars, pending, overdue, offer_seq,
                 spoolVars, noticeVars, can_queue, self_flag, headUnit,
                 server_ready, ecuVars, wire>>

\* can_send raises inside _resolve: the prompt is popped and withdrawn, the
\* verdict is never sent, the other prompts go down with the node.
ResolveSendRaises(n) ==
  /\ up /\ poll_timer /\ Decided(n) /\ "can" \in Faults
  /\ Unwind(PromptIds(Requesters))
  /\ UNCHANGED <<notices, self_flag, headUnit, server_ready, ecuVars, wire>>

\* _timeout_check finds something older than timeout_sec.
TimeoutCheck ==
  /\ up /\ timeout_timer /\ expired # {}
  /\ Release(expired)
  /\ UNCHANGED <<up, approvalVars, spoolVars, noticeVars, can_queue, self_flag,
                 headUnit, server_ready, ecuVars, wire>>

\* Mutants: the flag is cleared by a lock only; any success is taken for a lock.
OnServiceDone_LockOnly ==
  /\ up /\ call.at \in {"ok", "rejected"}
  /\ lock_state_pending' = (call.label = "unlock")
  /\ is_locked' = IF call.at = "ok" THEN call.label = "lock" ELSE is_locked
  /\ call' = Idle
  /\ UNCHANGED <<up, active_ecus, expired, timeout_timer, approvalVars, spoolVars,
                 noticeVars, can_queue, self_flag, headUnit, server_ready,
                 ecuVars, wire>>
OnServiceDone_AlwaysLocked ==
  /\ up /\ call.at \in {"ok", "rejected"}
  /\ lock_state_pending' = FALSE
  /\ is_locked' = (call.at = "ok" \/ is_locked)
  /\ call' = Idle
  /\ UNCHANGED <<up, active_ecus, expired, timeout_timer, approvalVars, spoolVars,
                 noticeVars, can_queue, self_flag, headUnit, server_ready,
                 ecuVars, wire>>

\* _on_service_done: it does not run _update_lock_state again.
OnServiceDone ==
  /\ up /\ call.at \in {"ok", "rejected"}
  /\ lock_state_pending' = FALSE
  /\ is_locked' = IF call.at = "ok" THEN call.label = "lock" ELSE is_locked
  /\ call' = Idle
  /\ UNCHANGED <<up, active_ecus, expired, timeout_timer, approvalVars, spoolVars,
                 noticeVars, can_queue, self_flag, headUnit, server_ready,
                 ecuVars, wire>>

ExpireNotice(n) ==
  /\ up /\ n \in notice_timers
  /\ notice_timers' = notice_timers \ {n}
  /\ \E gone \in Unlinked({n}) : notices' = notices \ gone
  /\ UNCHANGED <<up, active_ecus, expired, lockVars, approvalVars, spoolVars,
                 can_queue, self_flag, headUnit, server_ready, ecuVars, wire>>

-----------------------------------------------------------------------------
(* The host's own update *)

\* The lock call is issued before the flag is written.
OnSelfStart ==
  /\ up
  /\ Hold(Jetson)
  /\ self_flag' = TRUE
  /\ UNCHANGED <<up, approvalVars, spoolVars, noticeVars, can_queue, headUnit,
                 server_ready, ecuVars, wire>>

\* write_text raises: the node goes down after it asked for the lock.
SelfStartUnwritable ==
  /\ up /\ "disk" \in Faults
  /\ Unwind(PromptIds(Requesters))
  /\ UNCHANGED <<notices, self_flag, headUnit, server_ready, ecuVars, wire>>

OnSelfDone ==
  /\ up
  /\ Release({Jetson})
  /\ self_flag' = FALSE
  /\ UNCHANGED <<up, approvalVars, spoolVars, noticeVars, can_queue, headUnit,
                 server_ready, ecuVars, wire>>

-----------------------------------------------------------------------------
(* Stop and start *)

Crash ==
  /\ up /\ "restart" \in Faults
  /\ MemoryLost
  /\ UNCHANGED <<spoolVars, notices, self_flag, headUnit, server_ready, ecuVars,
                 wire>>

\* destroy_node on a signal.
DestroyNode ==
  /\ up /\ "restart" \in Faults
  /\ Unwind(PromptIds(Requesters))
  /\ UNCHANGED <<notices, self_flag, headUnit, server_ready, ecuVars, wire>>

\* Mutant: the notices of the last run are left on the screen.
SweepNotices_Skipped == UNCHANGED notices

SweepNotices == \E gone \in Unlinked(notices) : notices' = notices \ gone

\* The sets of __init__ are fresh: there is no jetson to take out of active_ecus,
\* and nothing is locked that _update_lock_state could unlock.
RecoverSelfUpdate == self_flag' = FALSE

SweepStaleOffers == Withdraw(offers)

\* __init__: fresh memory, then what the last run left behind.
Restart ==
  /\ ~up
  /\ up' = TRUE
  /\ RecoverSelfUpdate
  /\ SweepStaleOffers
  /\ SweepNotices
  /\ UNCHANGED <<active_ecus, expired, lockVars, approvalVars, notice_timers,
                 can_queue, headUnit, server_ready, ecuVars, wire>>

-----------------------------------------------------------------------------
(* Time *)

DeadlinePasses(n) ==
  /\ pending[n] # NoPrompt /\ n \notin overdue
  /\ overdue' = overdue \cup {n}
  /\ UNCHANGED <<up, active_ecus, expired, lockVars, pending, poll_timer,
                 offer_seq, spoolVars, noticeVars, can_queue, self_flag,
                 headUnit, server_ready, ecuVars, wire>>

\* timeout_sec is minutes: no answer of a live server takes that long.
UpdateAges(n) ==
  /\ n \in active_ecus \ expired
  /\ call.at \in {"idle", "lost"}
  /\ expired' = expired \cup {n}
  /\ UNCHANGED <<up, active_ecus, lockVars, approvalVars, spoolVars, noticeVars,
                 can_queue, self_flag, headUnit, server_ready, ecuVars, wire>>

-----------------------------------------------------------------------------
(* The environment: head unit, emergency-stop service, ECUs *)

\* The head unit rescans offers/: it shows what it has not answered yet and
\* drops the cards that were withdrawn.
HeadUnitScan ==
  /\ ui_alive
  /\ cards' = {o \in offers : \A v \in verdicts : v.id # o}
  /\ UNCHANGED <<up, active_ecus, expired, lockVars, approvalVars, spoolVars,
                 noticeVars, can_queue, self_flag, ui_alive, server_ready,
                 ecuVars, wire>>

\* The driver, or the popup's own auto-accept, answers a card; it may have
\* been withdrawn since the last scan.
HeadUnitAnswers(o, w) ==
  /\ ui_alive /\ o \in cards
  /\ w = "garbage" => "garbage" \in Faults
  /\ verdicts' = verdicts \cup {[id |-> o, word |-> w]}
  /\ cards' = cards \ {o}
  /\ UNCHANGED <<up, active_ecus, expired, lockVars, approvalVars, offers,
                 noticeVars, can_queue, self_flag, ui_alive, server_ready,
                 ecuVars, wire>>

HeadUnitUpOrDown ==
  /\ "ui" \in Faults
  /\ ui_alive' = ~ui_alive
  /\ cards' = {}
  /\ UNCHANGED <<up, active_ecus, expired, lockVars, approvalVars, spoolVars,
                 noticeVars, can_queue, self_flag, server_ready, ecuVars, wire>>

\* The service answers, or the call dies with the server.
ServerAnswers(result) ==
  /\ call.at = "sent"
  /\ result = "rejected" => "reject" \in Faults
  /\ result = "lost" => "server" \in Faults
  /\ call' = [call EXCEPT !.at = result]
  /\ UNCHANGED <<up, active_ecus, expired, is_locked, lock_state_pending,
                 timeout_timer, approvalVars, spoolVars, noticeVars, can_queue,
                 self_flag, headUnit, server_ready, ecuVars, wire>>

ServerComesOrGoes ==
  /\ "server" \in Faults
  /\ server_ready' = ~server_ready
  /\ UNCHANGED <<up, active_ecus, expired, lockVars, approvalVars, spoolVars,
                 noticeVars, can_queue, self_flag, headUnit, ecuVars, wire>>

\* An ECU's frame reaches the queue, or is lost or mangled; a node that is
\* down has no socket.
Transmit(n, kind) ==
  \/ /\ up /\ can_queue' = Append(can_queue, [from |-> n, kind |-> kind])
  \/ /\ up /\ "can" \in Faults
     /\ can_queue' = Append(can_queue, [from |-> n, kind |-> "reject"])
  \/ (~up \/ "can" \in Faults) /\ UNCHANGED can_queue

EcuRequests(n) ==
  /\ ecu[n] = "idle" /\ asks < MaxAsks /\ Len(can_queue) < MaxQueue
  /\ ecu' = [ecu EXCEPT ![n] = "waiting"]
  /\ asks' = asks + 1
  /\ Transmit(n, "REQUEST")
  /\ UNCHANGED <<up, active_ecus, expired, lockVars, approvalVars, spoolVars,
                 noticeVars, self_flag, headUnit, server_ready, wire>>

\* The wait for a verdict ends: the update is abandoned.
EcuGivesUp(n) ==
  /\ ecu[n] = "waiting"
  /\ ecu' = [ecu EXCEPT ![n] = "idle"]
  /\ UNCHANGED <<up, active_ecus, expired, lockVars, approvalVars, spoolVars,
                 noticeVars, can_queue, self_flag, headUnit, server_ready, asks,
                 wire>>

\* A verdict arrives; only an ECU that waits acts on it.
EcuReceives(n) ==
  /\ wire[n] # <<>>
  /\ wire' = [wire EXCEPT ![n] = Tail(@)]
  /\ ecu' = [ecu EXCEPT ![n] =
       IF @ # "waiting" THEN @
       ELSE IF Head(wire[n]) = "APPROVE" THEN "updating" ELSE "idle"]
  /\ UNCHANGED <<up, active_ecus, expired, lockVars, approvalVars, spoolVars,
                 noticeVars, can_queue, self_flag, headUnit, server_ready, asks>>

\* The ECU runs its new image and says so.
EcuRuns(n) ==
  /\ ecu[n] = "updating" /\ Len(can_queue) < MaxQueue
  /\ ecu' = [ecu EXCEPT ![n] = "idle"]
  /\ Transmit(n, "RUNNING")
  /\ UNCHANGED <<up, active_ecus, expired, lockVars, approvalVars, spoolVars,
                 noticeVars, self_flag, headUnit, server_ready, asks, wire>>

-----------------------------------------------------------------------------
Callback ==
  \/ OnCanEvent \/ ApprovalSendRaises
  \/ \E n \in Requesters : PollApprovals(n) \/ ResolveSendRaises(n)
  \/ PollFindsNothing
  \/ TimeoutCheck \/ OnServiceDone
  \/ \E n \in Requesters : ExpireNotice(n)
  \/ OnSelfStart \/ SelfStartUnwritable \/ OnSelfDone

Lifecycle == Crash \/ DestroyNode \/ Restart

Clock ==
  \/ \E n \in Requesters : DeadlinePasses(n)
  \/ \E n \in Names : UpdateAges(n)

HeadUnitActs ==
  \/ HeadUnitScan \/ HeadUnitUpOrDown
  \/ \E o \in cards, w \in Words : HeadUnitAnswers(o, w)

EcusAct ==
  \E n \in Requesters : EcuRequests(n) \/ EcuGivesUp(n) \/ EcuReceives(n)
                        \/ EcuRuns(n)

ServiceActs ==
  \/ \E result \in {"ok", "rejected", "lost"} : ServerAnswers(result)
  \/ ServerComesOrGoes

Environment == HeadUnitActs \/ EcusAct \/ ServiceActs

Next == Callback \/ Lifecycle \/ Clock \/ Environment

Spec == Init /\ [][Next]_vars

(* The executor runs every ready callback, time passes, a live service      *)
(* answers, frames are delivered.  Nobody promises that a driver answers,   *)
(* that an ECU finishes, or that a stopped node is started again.           *)
Fairness ==
  /\ WF_vars(OnCanEvent) /\ WF_vars(TimeoutCheck) /\ WF_vars(OnServiceDone)
  /\ WF_vars(PollFindsNothing)
  /\ \A n \in Requesters : /\ WF_vars(PollApprovals(n))
                           /\ WF_vars(DeadlinePasses(n))
                           /\ WF_vars(ExpireNotice(n))
                           /\ WF_vars(EcuReceives(n))
  /\ \A n \in Names : WF_vars(UpdateAges(n))
  /\ WF_vars(ServerAnswers("ok"))

FairSpec == Spec /\ Fairness

-----------------------------------------------------------------------------
(* Safety *)

\* While the node runs, the spool holds exactly the prompts it still waits
\* for: no question without a card and, where files can be removed, no card
\* without a question behind it, over re-requests, timeouts, failed writes and
\* restarts.
PromptsOnScreen ==
  up => /\ PromptIds(Requesters) \subseteq offers
        /\ "unlink" \in Faults \/ offers \subseteq PromptIds(Requesters)

\* A pending prompt is always polled: the poll timer is only stopped by a tick
\* that leaves nothing pending.
PendingIsPolled == Prompted # {} => poll_timer

\* No prompt serves two requests.
PromptsDistinct ==
  \A m, n \in Prompted : pending[m] = pending[n] => m = n

\* The guard against overlapping calls is up exactly while a call is out; a
\* flag left behind would freeze the lock state for good.
OneCallAtATime == lock_state_pending <=> call.at # "idle"

\* Every completion notice in the spool has the timer that deletes it.
NoticesExpire == up => "unlink" \in Faults \/ notices \subseteq notice_timers

\* No file of the spool is left behind, and none is missing.
SpoolInStep == PromptsOnScreen /\ NoticesExpire

\* A new prompt starts unanswered, even when the driver answered an earlier
\* card of the same requester after it was withdrawn.
NewPromptUnanswered ==
  [][\A n \in Requesters :
       pending'[n] \notin {NoPrompt, pending[n]} =>
         /\ pending'[n] \notin cards
         /\ \A v \in verdicts' : v.id # pending'[n]]_vars

\* The belief about the lock and the set of updates.
Mismatch == up /\ ~lock_state_pending /\ is_locked # (active_ecus # {})

\* The only ways for the two to part with no call out: a change overtook the
\* call that has just returned, the call was refused, or the service was away.
MismatchOnlyByLostCall ==
  [][~Mismatch /\ Mismatch' =>
       \/ call.at = "ok" /\ (call.label = "lock") # (active_ecus # {})
       \/ call.at = "rejected"
       \/ ~server_ready]_vars

\* With the service there, a change of the set or any CAN frame, even one that
\* is rejected, repairs a mismatch: a call goes out or the two agree.
MismatchRepaired ==
  [][/\ Mismatch /\ server_ready
     /\ \/ active_ecus' # active_ecus
        \/ can_queue # <<>> /\ can_queue' = Tail(can_queue)
     => ~Mismatch']_vars

\* What makes these inductive: ids never run ahead of the sequence that makes
\* them unique, and a node that is down waits for nothing, holds nothing and
\* believes the vehicle free.
PromptInv ==
  /\ \A n \in Requesters : pending[n] <= offer_seq
  /\ \A o \in offers \cup cards : o <= offer_seq
  /\ \A v \in verdicts : v.id <= offer_seq
  /\ ~up => Prompted = {}

DownInv == ~up => active_ecus = {} /\ ~is_locked

StrengtheningInv == PromptInv /\ DownInv

-----------------------------------------------------------------------------
(* The coordinator implements its promise *)

Gate == INSTANCE UpdateGate WITH owed <- Prompted, held <- active_ecus
GateSpec == Gate!Spec
=============================================================================
