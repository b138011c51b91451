----------------------- MODULE UpdateCoordinator_proofs -----------------------
(***************************************************************************)
(* Proofs about UpdateCoordinator.tla for every set of requesters, every   *)
(* choice of faults and every number of requests.                          *)
(***************************************************************************)
EXTENDS UpdateCoordinator, TLAPS

Prompts == PromptsOnScreen /\ PendingIsPolled /\ PromptsDistinct /\ PromptInv

IInv == TypeOK /\ Prompts /\ OneCallAtATime /\ NoticesExpire /\ DownInv

-----------------------------------------------------------------------------
(* _update_lock_state *)

\* Whatever the set is, _update_lock_state keeps the call guard, and with the
\* service there it leaves a call out or belief and set in agreement.
LEMMA LockStep ==
  ASSUME TypeOK, OneCallAtATime, UpdateLockState
  PROVE  /\ is_locked' \in BOOLEAN /\ lock_state_pending' \in BOOLEAN
         /\ timeout_timer' \in BOOLEAN /\ call' \in Calls
         /\ OneCallAtATime'
         /\ \/ lock_state_pending' \/ ~server_ready
            \/ is_locked' = (active_ecus' # {})
<1>1. /\ is_locked \in BOOLEAN /\ lock_state_pending \in BOOLEAN
      /\ timeout_timer \in BOOLEAN /\ call \in Calls
  BY DEF TypeOK
<1>2. CASE lock_state_pending
  BY <1>1, <1>2 DEF UpdateLockState, OneCallAtATime
<1>3. CASE ~lock_state_pending /\ UNCHANGED <<lock_state_pending, call>>
  BY <1>1, <1>3 DEF UpdateLockState, OneCallAtATime, CallService
<1>4. CASE ~lock_state_pending /\ ~UNCHANGED <<lock_state_pending, call>>
  <2>1. PICK l \in {"lock", "unlock"} :
          lock_state_pending' = TRUE /\ call' = [label |-> l, at |-> "sent"]
    BY <1>4 DEF UpdateLockState, CallService
  <2>2. /\ lock_state_pending' \in BOOLEAN /\ call' \in Calls
        /\ OneCallAtATime'
    BY <2>1 DEF OneCallAtATime, Calls
  <2> QED
    BY <1>1, <1>4, <2>1, <2>2 DEF UpdateLockState
<1> QED
  BY <1>2, <1>3, <1>4

-----------------------------------------------------------------------------
(* Type correctness *)

USE DEF NoPrompt

LEMMA HeadTail ==
  ASSUME NEW S, NEW q \in Seq(S), q # <<>>
  PROVE  Head(q) \in S /\ Tail(q) \in Seq(S)
  OBVIOUS

LEMMA AppendElement ==
  ASSUME NEW S, NEW q \in Seq(S), NEW e \in S
  PROVE  Append(q, e) \in Seq(S)
  OBVIOUS

\* What an unlink leaves behind, be it the file.
LEMMA UnlinkedFiles ==
  ASSUME NEW S, NEW gone \in Unlinked(S)
  PROVE  gone \subseteq S /\ ("unlink" \in Faults \/ gone = S)
BY DEF Unlinked

LEMMA WithdrawnFiles ==
  ASSUME NEW ids, Withdraw(ids)
  PROVE  /\ offers' \subseteq offers /\ offers \ ids \subseteq offers'
         /\ verdicts' \subseteq verdicts
         /\ "unlink" \in Faults \/ offers' = offers \ ids
<1>1. PICK gone \in Unlinked(ids) : offers' = offers \ gone
  BY DEF Withdraw
<1>2. verdicts' \subseteq verdicts
  BY DEF Withdraw
<1> QED BY <1>1, <1>2, UnlinkedFiles

\* Sending a verdict keeps the wires sequences of verdicts.
LEMMA SendType ==
  ASSUME TypeOK, NEW n \in Requesters, NEW v \in Verdicts, SendVerdict(n, v)
  PROVE  wire' \in [Requesters -> Seq(Verdicts)]
<1>1. wire[n] \in Seq(Verdicts) /\ wire \in [Requesters -> Seq(Verdicts)]
  BY DEF TypeOK
<1>2. Append(wire[n], v) \in Seq(Verdicts)
  BY <1>1, AppendElement
<1> QED
  BY <1>1, <1>2 DEF SendVerdict

\* The state of a process that is gone is well typed.
LEMMA MemoryLostType ==
  ASSUME TypeOK, MemoryLost
  PROVE  /\ up' \in BOOLEAN /\ is_locked' \in BOOLEAN
         /\ lock_state_pending' \in BOOLEAN /\ timeout_timer' \in BOOLEAN
         /\ poll_timer' \in BOOLEAN
         /\ active_ecus' \subseteq Names /\ expired' \subseteq active_ecus'
         /\ pending' \in [Requesters -> Nat] /\ overdue' \subseteq Requesters
         /\ offer_seq' \in Nat /\ notice_timers' \subseteq Requesters
         /\ can_queue' \in Seq(Frames) /\ call' \in Calls
<1>1. <<>> \in Seq(Frames) /\ Idle \in Calls
  BY DEF Idle, Calls
<1>2. [n \in Requesters |-> NoPrompt] \in [Requesters -> Nat]
  OBVIOUS
<1> QED
  BY <1>1, <1>2 DEF TypeOK, MemoryLost

\* An ECU's frame leaves a sequence of frames in the queue.
LEMMA TransmitType ==
  ASSUME TypeOK, NEW n \in Requesters, NEW k \in {"REQUEST", "RUNNING"},
         Transmit(n, k)
  PROVE  can_queue' \in Seq(Frames)
<1>1. can_queue \in Seq(Frames)
  BY DEF TypeOK
<1>2. \A kind \in {"REQUEST", "RUNNING", "reject"} :
        [from |-> n, kind |-> kind] \in Frames
  BY DEF Frames
<1>3. \A kind \in {"REQUEST", "RUNNING", "reject"} :
        Append(can_queue, [from |-> n, kind |-> kind]) \in Seq(Frames)
  BY <1>1, <1>2, AppendElement
<1> QED
  BY <1>1, <1>3 DEF Transmit

LEMMA TypeStep == TypeOK /\ OneCallAtATime /\ [Next]_vars => TypeOK'
<1> SUFFICES ASSUME TypeOK, OneCallAtATime, [Next]_vars PROVE TypeOK'
  OBVIOUS
<1> USE DEF Names, Words, lockVars, approvalVars, spoolVars,
            noticeVars, headUnit, ecuVars
<1>1. CASE OnCanEvent
  <2> DEFINE f == Head(can_queue)
  <2>1. /\ up /\ can_queue # <<>> /\ can_queue' = Tail(can_queue)
        /\ UNCHANGED <<self_flag, headUnit, server_ready, ecuVars>>
    BY <1>1 DEF OnCanEvent
  <2>2. f \in Frames /\ can_queue' \in Seq(Frames)
    BY <2>1, HeadTail DEF TypeOK
  <2>3. \/ ApproveUnasked(f.from) \/ AskDriver(f.from) \/ OfferUnwritable(f.from)
        \/ HandleRunning(f.from) \/ HandleReject
    BY <1>1 DEF OnCanEvent, BeginApproval
  <2>4. f.from \in Requesters
    BY <2>2 DEF Frames
  <2> HIDE DEF f
  <2>5. CASE ApproveUnasked(f.from)
    <3>1. UpdateLockState
      BY <2>5 DEF ApproveUnasked, Hold, SendVerdict
    <3>2. wire' \in [Requesters -> Seq(Verdicts)]
      BY <2>5, <2>4, SendType DEF ApproveUnasked, Verdicts
    <3> QED
      BY <2>1, <2>2, <2>4, <2>5, <3>1, LockStep, <3>2 DEF TypeOK, ApproveUnasked, Hold
  <2>6. CASE AskDriver(f.from)
    <3>1. UpdateLockState
      BY <2>6 DEF AskDriver, WriteOffer, NewOffer
    <3>2. /\ pending' \in [Requesters -> Nat] /\ overdue' \subseteq Requesters
          /\ offer_seq' \in Nat /\ poll_timer' \in BOOLEAN
      BY <2>4, <2>6 DEF TypeOK, AskDriver, WriteOffer, NewOffer
    <3>a. /\ offers' \subseteq offers \cup {offer_seq'}
          /\ verdicts' \subseteq verdicts
      <4>1. PICK gone \in Unlinked({pending[f.from]}) : WriteOffer(gone, NewOffer)
        BY <2>6 DEF AskDriver
      <4> QED BY <2>6, <4>1 DEF AskDriver, WriteOffer
    <3>3. offers' \subseteq Nat /\ verdicts' \subseteq [id : Nat, word : Words]
      BY <3>2, <3>a DEF TypeOK
    <3>4. UNCHANGED <<up, active_ecus, expired, noticeVars, wire>>
      BY <2>6 DEF AskDriver, WriteOffer
    <3> QED
      BY <2>1, <2>2, <3>1, <3>2, <3>3, <3>4, LockStep DEF TypeOK
  <2>7. CASE OfferUnwritable(f.from)
    <3>1. UpdateLockState
      BY <2>7 DEF OfferUnwritable, NewOffer, Withdraw, Hold, SendVerdict
    <3>2. wire' \in [Requesters -> Seq(Verdicts)]
      BY <2>7, <2>4, SendType DEF OfferUnwritable, Verdicts
    <3>3. /\ pending' \in [Requesters -> Nat] /\ overdue' \subseteq Requesters
          /\ offer_seq' \in Nat
      BY <2>4, <2>7 DEF TypeOK, OfferUnwritable, NewOffer
    <3>a. offers' \subseteq offers /\ verdicts' \subseteq verdicts
      BY <2>7, WithdrawnFiles DEF OfferUnwritable
    <3>b. offers' \subseteq Nat /\ verdicts' \subseteq [id : Nat, word : Words]
      BY <3>a DEF TypeOK
    <3>4. /\ active_ecus' \subseteq Names /\ expired' \subseteq active_ecus'
      BY <2>4, <2>7 DEF TypeOK, OfferUnwritable, Hold
    <3>5. UNCHANGED <<up, poll_timer, noticeVars>>
      BY <2>7 DEF OfferUnwritable
    <3> QED
      BY <2>1, <2>2, <3>1, <3>2, <3>3, <3>b, <3>4, <3>5, LockStep DEF TypeOK
  <2>8. CASE HandleRunning(f.from)
    <3>1. UpdateLockState
      BY <2>8 DEF HandleRunning, WriteNotice, Release
    <3> QED
      BY <2>1, <2>2, <2>4, <2>8, <3>1, LockStep DEF TypeOK, HandleRunning, WriteNotice, Release
  <2>9. CASE HandleReject
    <3>1. UpdateLockState
      BY <2>9 DEF HandleReject
    <3> QED
      BY <2>1, <2>2, <2>4, <2>9, <3>1, LockStep DEF TypeOK, HandleReject
  <2> QED
    BY <2>3, <2>5, <2>6, <2>7, <2>8, <2>9
<1>w. ASSUME NEW ids, Withdraw(ids)
      PROVE  offers' \subseteq Nat /\ verdicts' \subseteq [id : Nat, word : Words]
  BY <1>w, WithdrawnFiles DEF TypeOK
<1>2. CASE ApprovalSendRaises
  BY <1>2, <1>w, MemoryLostType DEF TypeOK, ApprovalSendRaises, Unwind
<1>3. ASSUME NEW n \in Requesters, PollApprovals(n) PROVE TypeOK'
  <2>1. UpdateLockState
    BY <1>3 DEF PollApprovals, Resolve, Hold
  <2>2. wire' \in [Requesters -> Seq(Verdicts)]
    BY <1>3, SendType DEF PollApprovals, Resolve, Verdicts
  <2>3. CASE Approved(n) /\ SendVerdict(n, "APPROVE") /\ Hold(n)
    BY <1>3, <1>w, <2>1, <2>2, <2>3, LockStep
       DEF TypeOK, PollApprovals, StillPending, Resolve, Hold
  <2>4. CASE UNCHANGED <<active_ecus, expired>>
    BY <1>3, <1>w, <2>1, <2>2, <2>4, LockStep
       DEF TypeOK, PollApprovals, StillPending, Resolve
  <2> QED
    BY <1>3, <2>3, <2>4 DEF PollApprovals, Resolve
<1>4. ASSUME NEW n \in Requesters, ResolveSendRaises(n) PROVE TypeOK'
  BY <1>4, <1>w, MemoryLostType DEF TypeOK, ResolveSendRaises, Unwind
<1>5. CASE PollFindsNothing
  BY <1>5 DEF TypeOK, PollFindsNothing
<1>6. CASE TimeoutCheck
  <2>1. UpdateLockState
    BY <1>6 DEF TimeoutCheck, Release
  <2> QED
    BY <1>6, <2>1, LockStep DEF TypeOK, TimeoutCheck, Release
<1>7. CASE OnServiceDone
  BY <1>7 DEF TypeOK, OnServiceDone, Idle, Calls
<1>8. ASSUME NEW n \in Requesters, ExpireNotice(n) PROVE TypeOK'
  BY <1>8 DEF TypeOK, ExpireNotice
<1>9. CASE OnSelfStart
  <2>1. UpdateLockState
    BY <1>9 DEF OnSelfStart, Hold
  <2> QED
    BY <1>9, <2>1, LockStep DEF TypeOK, OnSelfStart, Hold
<1>10. CASE SelfStartUnwritable
  BY <1>10, <1>w, MemoryLostType DEF TypeOK, SelfStartUnwritable, Unwind
<1>11. CASE OnSelfDone
  <2>1. UpdateLockState
    BY <1>11 DEF OnSelfDone, Release
  <2> QED
    BY <1>11, <2>1, LockStep DEF TypeOK, OnSelfDone, Release
<1>12. CASE Crash
  BY <1>12, MemoryLostType DEF TypeOK, Crash
<1>13. CASE DestroyNode
  BY <1>13, <1>w, MemoryLostType DEF TypeOK, DestroyNode, Unwind
<1>14. CASE Restart
  <2>1. notices' \subseteq notices
    BY <1>14 DEF Restart, SweepNotices
  <2> QED
    BY <1>14, <1>w, <2>1 DEF TypeOK, Restart, RecoverSelfUpdate, SweepStaleOffers
<1>15. ASSUME NEW n \in Requesters, DeadlinePasses(n) PROVE TypeOK'
  BY <1>15 DEF TypeOK, DeadlinePasses
<1>16. ASSUME NEW n \in Names, UpdateAges(n) PROVE TypeOK'
  BY <1>16 DEF TypeOK, UpdateAges
<1>17. CASE HeadUnitScan
  BY <1>17 DEF TypeOK, HeadUnitScan
<1>18. CASE HeadUnitUpOrDown
  BY <1>18 DEF TypeOK, HeadUnitUpOrDown
<1>19. ASSUME NEW o \in cards, NEW w \in Words, HeadUnitAnswers(o, w) PROVE TypeOK'
  BY <1>19 DEF TypeOK, HeadUnitAnswers
<1>20. ASSUME NEW r \in {"ok", "rejected", "lost"}, ServerAnswers(r) PROVE TypeOK'
  BY <1>20 DEF TypeOK, ServerAnswers, Calls
<1>21. CASE ServerComesOrGoes
  BY <1>21 DEF TypeOK, ServerComesOrGoes
<1>22. ASSUME NEW n \in Requesters, EcuRequests(n) PROVE TypeOK'
  BY <1>22, TransmitType DEF TypeOK, EcuRequests
<1>23. ASSUME NEW n \in Requesters, EcuGivesUp(n) PROVE TypeOK'
  BY <1>23 DEF TypeOK, EcuGivesUp
<1>24. ASSUME NEW n \in Requesters, EcuReceives(n) PROVE TypeOK'
  BY <1>24 DEF TypeOK, EcuReceives
<1>25. ASSUME NEW n \in Requesters, EcuRuns(n) PROVE TypeOK'
  BY <1>25, TransmitType DEF TypeOK, EcuRuns
<1>26. CASE UNCHANGED vars
  BY <1>26 DEF TypeOK, vars
<1> QED
  BY <1>1, <1>2, <1>3, <1>4, <1>5, <1>6, <1>7, <1>8, <1>9, <1>10, <1>11, <1>12, <1>13, <1>14, <1>15, <1>16, <1>17, <1>18, <1>19, <1>20, <1>21, <1>22, <1>23, <1>24, <1>25, <1>26
     DEF Next, Callback, Lifecycle, Clock, Environment,
     HeadUnitActs, EcusAct, ServiceActs

-----------------------------------------------------------------------------
(* Prompts and the spool *)

LEMMA PromptsSame ==
  ASSUME TypeOK, Prompts,
         UNCHANGED <<up, pending, poll_timer, offer_seq, offers, verdicts, cards>>
  PROVE  Prompts'
<1>1. PromptsOnScreen' /\ PendingIsPolled'
  BY DEF Prompts, PromptsOnScreen, PendingIsPolled, PromptIds, Prompted
<1>2. PromptsDistinct' /\ PromptInv'
  BY DEF Prompts, PromptsDistinct, PromptInv, Prompted
<1> QED
  BY <1>1, <1>2 DEF Prompts

\* Popping one prompt and unlinking its offer leaves the others as they were:
\* no other requester shares the id.
LEMMA DropPrompt ==
  ASSUME TypeOK, Prompts, up, up', NEW n \in Requesters,
         pending' = [pending EXCEPT ![n] = NoPrompt],
         Withdraw({pending[n]}), cards' = cards,
         offer_seq' \in Nat, offer_seq' >= offer_seq
  PROVE  PromptsOnScreen' /\ PromptsDistinct' /\ PromptInv'
<1>1. \A m \in Requesters : pending'[m] = IF m = n THEN NoPrompt ELSE pending[m]
  BY DEF TypeOK
<1>2. PromptsOnScreen'
  <2>1. /\ PromptIds(Requesters) \subseteq offers
        /\ "unlink" \in Faults \/ offers \subseteq PromptIds(Requesters)
    BY DEF Prompts, PromptsOnScreen
  <2>2. /\ offers \ {pending[n]} \subseteq offers'
        /\ "unlink" \in Faults \/ offers' = offers \ {pending[n]}
    BY WithdrawnFiles
  <2>3. \A m \in Requesters : m # n /\ pending[m] = pending[n] => pending[m] = NoPrompt
    BY DEF Prompts, PromptsDistinct, Prompted
  <2>4. PromptIds(Requesters)' = PromptIds(Requesters) \ {pending[n]}
    BY <1>1, <2>3 DEF PromptIds
  <2> QED
    BY <2>1, <2>2, <2>4 DEF PromptsOnScreen
<1>3. PromptsDistinct'
  BY <1>1 DEF Prompts, PromptsDistinct, Prompted
<1>4. PromptInv'
  <2>1. offers' \subseteq offers /\ verdicts' \subseteq verdicts
    BY WithdrawnFiles
  <2>2. \A m \in Requesters : pending'[m] <= offer_seq'
    BY <1>1 DEF TypeOK, Prompts, PromptInv
  <2>3. /\ \A o \in offers' \cup cards' : o <= offer_seq'
        /\ \A v \in verdicts' : v.id <= offer_seq'
    BY <2>1 DEF TypeOK, Prompts, PromptInv
  <2> QED
    BY <2>2, <2>3 DEF PromptInv
<1> QED
  BY <1>2, <1>3, <1>4

LEMMA AskDriverPrompts ==
  ASSUME TypeOK, Prompts, up, NEW n \in Requesters, AskDriver(n), cards' = cards
  PROVE  Prompts'
<1> DEFINE new == offer_seq + 1
<1>1. /\ up' /\ poll_timer' /\ offer_seq' = new
      /\ verdicts' \subseteq verdicts
  BY DEF AskDriver, WriteOffer, NewOffer
<1>9. /\ (offers \ {pending[n]}) \cup {new} \subseteq offers'
      /\ offers' \subseteq offers \cup {new}
      /\ "unlink" \in Faults \/ offers' = (offers \ {pending[n]}) \cup {new}
  <2>1. PICK gone \in Unlinked({pending[n]}) : WriteOffer(gone, NewOffer)
    BY DEF AskDriver
  <2> QED BY <2>1, UnlinkedFiles DEF WriteOffer, NewOffer
<1>2. \A m \in Requesters : pending'[m] = IF m = n THEN new ELSE pending[m]
  BY DEF TypeOK, AskDriver, WriteOffer, NewOffer
<1>3. /\ new \in Nat /\ new # NoPrompt
      /\ \A m \in Requesters : pending[m] <= offer_seq /\ pending[m] \in Nat
                               /\ pending[m] # new
  BY DEF TypeOK, Prompts, PromptInv
<1>4. /\ PromptIds(Requesters) \subseteq offers
      /\ "unlink" \in Faults \/ offers \subseteq PromptIds(Requesters)
  BY DEF Prompts, PromptsOnScreen
<1>5. \A m \in Requesters : m # n /\ pending[m] = pending[n] => pending[m] = NoPrompt
  BY DEF Prompts, PromptsDistinct, Prompted
<1>6. PromptInv'
  <2>1. \A m \in Requesters : pending'[m] <= offer_seq'
    <3>1. offer_seq \in Nat /\ offer_seq' = offer_seq + 1
      BY <1>1 DEF TypeOK
    <3>2. ASSUME NEW m \in Requesters PROVE pending'[m] <= offer_seq'
      <4>1. CASE m = n
        BY <1>2, <3>1, <4>1
      <4>2. CASE m # n
        BY <1>2, <1>3, <3>1, <4>2
      <4> QED
        BY <4>1, <4>2
    <3> QED
      BY <3>2
  <2>2. \A o \in offers' \cup cards' : o <= offer_seq'
    BY <1>1, <1>9 DEF TypeOK, Prompts, PromptInv
  <2>3. \A v \in verdicts' : v.id <= offer_seq'
    BY <1>1 DEF TypeOK, Prompts, PromptInv
  <2> QED
    BY <1>1, <2>1, <2>2, <2>3 DEF PromptInv
<1> HIDE DEF new
<1>7. PromptsOnScreen'
  <2>1. PromptIds(Requesters)' = (PromptIds(Requesters) \ {pending[n]}) \cup {new}
    BY <1>2, <1>3, <1>5 DEF PromptIds
  <2> QED
    BY <1>4, <1>9, <2>1 DEF PromptsOnScreen
<1>8. PromptsDistinct'
  BY <1>2, <1>3 DEF Prompts, PromptsDistinct, Prompted
<1> QED
  BY <1>1, <1>6, <1>7, <1>8 DEF Prompts, PendingIsPolled

\* A process that is gone waits for nothing; what it leaves in the spool is
\* still below the sequence.
LEMMA GonePrompts ==
  ASSUME TypeOK, Prompts, MemoryLost, cards' = cards,
         offers' \subseteq offers, verdicts' \subseteq verdicts
  PROVE  Prompts'
<1>1. \A n \in Requesters : pending'[n] = NoPrompt
  BY DEF MemoryLost
<1>2. Prompted' = {}
  BY <1>1 DEF Prompted
<1>3. ~up' /\ offer_seq' = offer_seq
  BY DEF MemoryLost
<1>4. PromptInv'
  BY <1>1, <1>2, <1>3 DEF TypeOK, Prompts, PromptInv
<1> QED
  BY <1>1, <1>2, <1>3, <1>4
     DEF Prompts, PromptsOnScreen, PendingIsPolled, PromptsDistinct

LEMMA PromptStep == TypeOK /\ TypeOK' /\ Prompts /\ [Next]_vars => Prompts'
<1> SUFFICES ASSUME TypeOK, TypeOK', Prompts, [Next]_vars PROVE Prompts'
  OBVIOUS
<1> USE DEF lockVars, approvalVars, spoolVars, noticeVars, headUnit, ecuVars
<1>1. CASE OnCanEvent
  <2> DEFINE n == Head(can_queue).from
  <2>1. /\ up /\ cards' = cards
        /\ \/ ApproveUnasked(n) \/ AskDriver(n) \/ OfferUnwritable(n)
           \/ HandleRunning(n) \/ HandleReject
    BY <1>1 DEF OnCanEvent, BeginApproval
  <2>2. n \in Requesters
    <3>1. can_queue # <<>> /\ can_queue \in Seq(Frames)
      BY <1>1 DEF OnCanEvent, TypeOK
    <3>2. Head(can_queue) \in Frames
      BY <3>1, HeadTail
    <3> QED
      BY <3>2 DEF Frames
  <2> HIDE DEF n
  <2>3. CASE ApproveUnasked(n) \/ HandleRunning(n) \/ HandleReject
    BY <2>1, <2>3, PromptsSame DEF ApproveUnasked, HandleRunning, WriteNotice, HandleReject
  <2>4. CASE AskDriver(n)
    BY <2>1, <2>2, <2>4, AskDriverPrompts
  <2>5. CASE OfferUnwritable(n)
    <3>1. /\ up' /\ pending' = [pending EXCEPT ![n] = NoPrompt]
          /\ Withdraw({pending[n]}) /\ poll_timer' = poll_timer
          /\ offer_seq' = offer_seq + 1
      BY <2>1, <2>5 DEF OfferUnwritable, NewOffer
    <3>2. PromptsOnScreen' /\ PromptsDistinct' /\ PromptInv'
      <4>1. offer_seq' \in Nat /\ offer_seq' >= offer_seq
        BY <3>1 DEF TypeOK
      <4> QED
        BY <2>1, <2>2, <3>1, <4>1, DropPrompt
    <3>3. Prompted' \subseteq Prompted
      BY <2>2, <3>1 DEF TypeOK, Prompted
    <3> QED
      BY <3>1, <3>2, <3>3 DEF Prompts, PendingIsPolled
  <2> QED
    BY <2>1, <2>3, <2>4, <2>5
<1>2. ASSUME NEW n \in Requesters, PollApprovals(n) PROVE Prompts'
  <2>1. /\ up /\ up' /\ pending' = [pending EXCEPT ![n] = NoPrompt]
        /\ Withdraw({pending[n]}) /\ poll_timer' = (Prompted # {n})
        /\ offer_seq' = offer_seq /\ cards' = cards /\ n \in Prompted
    BY <1>2 DEF PollApprovals, Resolve, Decided, StillPending, Prompted
  <2>2. PromptsOnScreen' /\ PromptsDistinct' /\ PromptInv'
    <3>1. offer_seq' \in Nat /\ offer_seq' >= offer_seq
      BY <2>1 DEF TypeOK
    <3> QED
      BY <2>1, <3>1, DropPrompt
  <2>3. Prompted' = Prompted \ {n}
    BY <2>1 DEF TypeOK, Prompted
  <2> QED
    BY <2>1, <2>2, <2>3 DEF Prompts, PendingIsPolled
<1>3. CASE PollFindsNothing
  <2>1. Prompted = {} /\ UNCHANGED <<up, pending, offer_seq, offers, verdicts, cards>>
    BY <1>3 DEF PollFindsNothing
  <2>2. Prompted' = {}
    BY <2>1 DEF Prompted
  <2> QED
    BY <2>1, <2>2
       DEF Prompts, PromptsOnScreen, PendingIsPolled, PromptsDistinct, PromptInv,
           PromptIds
<1>4. CASE MemoryLost /\ cards' = cards /\ offers' \subseteq offers
           /\ verdicts' \subseteq verdicts
  BY <1>4, GonePrompts
<1>5. CASE Crash
  <2>1. MemoryLost /\ cards' = cards /\ offers' = offers /\ verdicts' = verdicts
    BY <1>5 DEF Crash
  <2> QED
    BY <1>4, <2>1
<1>6. ASSUME Unwind(PromptIds(Requesters)), cards' = cards PROVE Prompts'
  <2>1. MemoryLost /\ offers' \subseteq offers /\ verdicts' \subseteq verdicts
    BY <1>6, WithdrawnFiles DEF Unwind
  <2> QED
    BY <1>4, <1>6, <2>1
<1>7. CASE ApprovalSendRaises \/ SelfStartUnwritable \/ DestroyNode
           \/ \E n \in Requesters : ResolveSendRaises(n)
  BY <1>6, <1>7
     DEF ApprovalSendRaises, SelfStartUnwritable, DestroyNode, ResolveSendRaises
<1>8. CASE Restart
  <2>1. /\ ~up /\ UNCHANGED <<pending, offer_seq, cards>>
        /\ offers' \subseteq offers /\ verdicts' \subseteq verdicts
        /\ "unlink" \in Faults \/ offers' = {}
    BY <1>8, WithdrawnFiles DEF Restart, RecoverSelfUpdate, SweepStaleOffers
  <2>2. Prompted = {}
    BY <2>1 DEF Prompts, PromptInv
  <2>3. Prompted' = {} /\ PromptIds(Requesters)' = {}
    BY <2>1, <2>2 DEF Prompted, PromptIds
  <2>4. PromptInv'
    BY <2>1, <2>3 DEF Prompts, PromptInv
  <2> QED
    BY <2>1, <2>3, <2>4
       DEF Prompts, PromptsOnScreen, PendingIsPolled, PromptsDistinct
<1>9. CASE HeadUnitScan \/ HeadUnitUpOrDown
  <2>1. /\ cards' \subseteq offers
        /\ UNCHANGED <<up, pending, poll_timer, offer_seq, offers, verdicts>>
    BY <1>9 DEF HeadUnitScan, HeadUnitUpOrDown
  <2>2. PromptInv'
    BY <2>1 DEF Prompts, PromptInv, Prompted
  <2> QED
    BY <2>1, <2>2
       DEF Prompts, PromptsOnScreen, PendingIsPolled, PromptsDistinct, Prompted,
           PromptIds
<1>10. ASSUME NEW o \in cards, NEW w \in Words, HeadUnitAnswers(o, w)
       PROVE  Prompts'
  <2>1. /\ cards' = cards \ {o} /\ verdicts' = verdicts \cup {[id |-> o, word |-> w]}
        /\ UNCHANGED <<up, pending, poll_timer, offer_seq, offers>>
    BY <1>10 DEF HeadUnitAnswers
  <2>2. PromptInv'
    BY <2>1 DEF Prompts, PromptInv, Prompted
  <2> QED
    BY <2>1, <2>2
       DEF Prompts, PromptsOnScreen, PendingIsPolled, PromptsDistinct, Prompted,
           PromptIds
<1>11. CASE TimeoutCheck \/ OnServiceDone \/ OnSelfStart \/ OnSelfDone
            \/ ServerComesOrGoes \/ UNCHANGED vars
  BY <1>11, PromptsSame
     DEF TimeoutCheck, OnServiceDone, OnSelfStart, OnSelfDone, ServerComesOrGoes,
         vars
<1>12. ASSUME NEW n \in Requesters,
              \/ ExpireNotice(n) \/ DeadlinePasses(n) \/ EcuRequests(n)
              \/ EcuGivesUp(n) \/ EcuReceives(n) \/ EcuRuns(n)
       PROVE  Prompts'
  BY <1>12, PromptsSame
     DEF ExpireNotice, DeadlinePasses, EcuRequests, EcuGivesUp, EcuReceives,
         EcuRuns
<1>13. ASSUME NEW n \in Names, UpdateAges(n) PROVE Prompts'
  BY <1>13, PromptsSame DEF UpdateAges
<1>14. ASSUME NEW r \in {"ok", "rejected", "lost"}, ServerAnswers(r)
       PROVE  Prompts'
  BY <1>14, PromptsSame DEF ServerAnswers
<1> QED
  BY <1>1, <1>2, <1>3, <1>5, <1>7, <1>8, <1>9, <1>10, <1>11, <1>12, <1>13, <1>14
     DEF Next, Callback, Lifecycle, Clock, Environment,
     HeadUnitActs, EcusAct, ServiceActs

-----------------------------------------------------------------------------
(* The lock call *)

\* A step that leaves the lock state alone may only lengthen the queue.
LockUntouched ==
  /\ UNCHANGED <<up, active_ecus, is_locked, lock_state_pending, call>>
  /\ \/ can_queue' = can_queue
     \/ \E f \in Frames : can_queue' = Append(can_queue, f)

\* What a step does to the lock state.
LockStepKind ==
  \/ up' /\ UpdateLockState /\ UNCHANGED server_ready
  \/ MemoryLost
  \/ OnServiceDone
  \/ /\ \E r \in {"ok", "rejected", "lost"} : ServerAnswers(r)
     /\ UNCHANGED <<up, active_ecus, is_locked, lock_state_pending, can_queue>>
  \/ Restart
  \/ LockUntouched

LEMMA StepKinds == [Next]_vars => LockStepKind
<1> SUFFICES ASSUME [Next]_vars PROVE LockStepKind
  OBVIOUS
<1> USE DEF lockVars, approvalVars, spoolVars, noticeVars, headUnit, ecuVars
<1>1. CASE OnCanEvent
  <2> DEFINE n == Head(can_queue).from
  <2>1. /\ up /\ UNCHANGED server_ready
        /\ \/ ApproveUnasked(n) \/ AskDriver(n) \/ OfferUnwritable(n)
           \/ HandleRunning(n) \/ HandleReject
    BY <1>1 DEF OnCanEvent, BeginApproval
  <2> HIDE DEF n
  <2>2. up' /\ UpdateLockState
    BY <2>1 DEF ApproveUnasked, AskDriver, WriteOffer, OfferUnwritable, HandleRunning, WriteNotice,
                HandleReject, Hold, Release
  <2> QED
    BY <2>1, <2>2 DEF LockStepKind
<1>2. ASSUME NEW n \in Requesters, PollApprovals(n) PROVE LockStepKind
  BY <1>2 DEF LockStepKind, PollApprovals, Resolve, Hold
<1>3. CASE TimeoutCheck \/ OnSelfStart \/ OnSelfDone
  BY <1>3 DEF LockStepKind, TimeoutCheck, OnSelfStart, OnSelfDone, Hold, Release
<1>4. CASE \/ ApprovalSendRaises \/ SelfStartUnwritable \/ DestroyNode \/ Crash
           \/ \E n \in Requesters : ResolveSendRaises(n)
  BY <1>4 DEF LockStepKind, ApprovalSendRaises, SelfStartUnwritable, DestroyNode,
              Crash, ResolveSendRaises, Unwind
<1>5. ASSUME NEW r \in {"ok", "rejected", "lost"}, ServerAnswers(r)
      PROVE  LockStepKind
  BY <1>5 DEF LockStepKind, ServerAnswers
<1>6. CASE OnServiceDone \/ Restart
  BY <1>6 DEF LockStepKind
<1>7. CASE \/ PollFindsNothing \/ HeadUnitScan \/ HeadUnitUpOrDown
           \/ ServerComesOrGoes \/ UNCHANGED vars
  BY <1>7 DEF LockStepKind, LockUntouched, PollFindsNothing, HeadUnitScan,
              HeadUnitUpOrDown, ServerComesOrGoes, vars
<1>8. ASSUME NEW n \in Requesters,
             \/ ExpireNotice(n) \/ DeadlinePasses(n) \/ EcuGivesUp(n)
             \/ EcuReceives(n)
      PROVE  LockStepKind
  BY <1>8 DEF LockStepKind, LockUntouched, ExpireNotice, DeadlinePasses,
              EcuGivesUp, EcuReceives
<1>9. ASSUME NEW n \in Requesters, EcuRequests(n) \/ EcuRuns(n)
      PROVE  LockStepKind
  <2>1. \A k \in {"REQUEST", "RUNNING", "reject"} :
          [from |-> n, kind |-> k] \in Frames
    BY DEF Frames
  <2> QED
    BY <1>9, <2>1
       DEF LockStepKind, LockUntouched, EcuRequests, EcuRuns, Transmit
<1>10. ASSUME NEW n \in Names, UpdateAges(n) PROVE LockStepKind
  BY <1>10 DEF LockStepKind, LockUntouched, UpdateAges
<1>11. ASSUME NEW o \in cards, NEW w \in Words, HeadUnitAnswers(o, w)
       PROVE  LockStepKind
  BY <1>11 DEF LockStepKind, LockUntouched, HeadUnitAnswers
<1> QED
  BY <1>1, <1>2, <1>3, <1>4, <1>5, <1>6, <1>7, <1>8, <1>9, <1>10, <1>11
     DEF Next, Callback, Lifecycle, Clock, Environment,
     HeadUnitActs, EcusAct, ServiceActs

LEMMA CallStep ==
  TypeOK /\ OneCallAtATime /\ [Next]_vars => OneCallAtATime'
<1> SUFFICES ASSUME TypeOK, OneCallAtATime, LockStepKind PROVE OneCallAtATime'
  BY StepKinds
<1>1. CASE UpdateLockState
  BY <1>1, LockStep
<1>2. CASE MemoryLost \/ OnServiceDone
  BY <1>2 DEF MemoryLost, OnServiceDone, OneCallAtATime, Idle
<1>3. ASSUME NEW r \in {"ok", "rejected", "lost"}, ServerAnswers(r),
             UNCHANGED lock_state_pending
      PROVE  OneCallAtATime'
  <2>1. call.at = "sent" /\ call'.at = r
    BY <1>3 DEF ServerAnswers, TypeOK, Calls
  <2> QED
    BY <1>3, <2>1 DEF OneCallAtATime
<1>4. CASE Restart
  BY <1>4 DEF Restart, RecoverSelfUpdate, SweepStaleOffers, OneCallAtATime, lockVars
<1>5. CASE LockUntouched
  BY <1>5 DEF LockUntouched, OneCallAtATime
<1> QED
  BY <1>1, <1>2, <1>3, <1>4, <1>5 DEF LockStepKind

LEMMA DownStep == DownInv /\ [Next]_vars => DownInv'
<1> SUFFICES ASSUME DownInv, LockStepKind PROVE DownInv'
  BY StepKinds
<1> QED
  BY DEF LockStepKind, LockUntouched, DownInv, MemoryLost, OnServiceDone, Restart, RecoverSelfUpdate, SweepStaleOffers

LEMMA NoticeStep == NoticesExpire /\ [Next]_vars => NoticesExpire'
<1> SUFFICES ASSUME NoticesExpire, [Next]_vars PROVE NoticesExpire'
  OBVIOUS
<1> USE DEF lockVars, approvalVars, spoolVars, noticeVars, headUnit, ecuVars
<1>1. CASE UNCHANGED <<up, notices, notice_timers>>
  BY <1>1 DEF NoticesExpire
<1>2. CASE OnCanEvent
  BY <1>1, <1>2
     DEF OnCanEvent, BeginApproval, ApproveUnasked, AskDriver, WriteOffer, OfferUnwritable,
         HandleRunning, WriteNotice, HandleReject, NoticesExpire
<1>3. CASE MemoryLost
  BY <1>3 DEF MemoryLost, NoticesExpire
<1>4. CASE \/ ApprovalSendRaises \/ SelfStartUnwritable \/ DestroyNode \/ Crash
           \/ \E n \in Requesters : ResolveSendRaises(n)
  BY <1>3, <1>4 DEF ApprovalSendRaises, SelfStartUnwritable, DestroyNode, Crash,
                    ResolveSendRaises, Unwind
<1>5. CASE Restart \/ \E n \in Requesters : ExpireNotice(n)
  <2>1. CASE "unlink" \in Faults
    BY <2>1 DEF NoticesExpire
  <2>2. CASE "unlink" \notin Faults
    <3>1. \A S : Unlinked(S) = {S}
      BY <2>2 DEF Unlinked
    <3>2. CASE Restart
      BY <3>1, <3>2 DEF Restart, SweepNotices, NoticesExpire
    <3>3. ASSUME NEW n \in Requesters, ExpireNotice(n) PROVE NoticesExpire'
      BY <3>1, <3>3 DEF ExpireNotice, NoticesExpire
    <3> QED BY <1>5, <3>2, <3>3
  <2> QED BY <2>1, <2>2
<1>6. CASE \/ PollFindsNothing \/ TimeoutCheck \/ OnServiceDone \/ OnSelfStart
           \/ OnSelfDone \/ HeadUnitScan \/ HeadUnitUpOrDown \/ ServerComesOrGoes
           \/ UNCHANGED vars
           \/ \E n \in Requesters : PollApprovals(n)
  BY <1>1, <1>6
     DEF PollFindsNothing, TimeoutCheck, OnServiceDone, OnSelfStart, OnSelfDone,
         HeadUnitScan, HeadUnitUpOrDown, ServerComesOrGoes, PollApprovals, vars
<1>7. CASE \/ \E n \in Requesters :
                \/ DeadlinePasses(n) \/ EcuRequests(n) \/ EcuGivesUp(n)
                \/ EcuReceives(n) \/ EcuRuns(n)
           \/ \E n \in Names : UpdateAges(n)
           \/ \E o \in cards, w \in Words : HeadUnitAnswers(o, w)
           \/ \E r \in {"ok", "rejected", "lost"} : ServerAnswers(r)
  BY <1>1, <1>7
     DEF DeadlinePasses, EcuRequests, EcuGivesUp, EcuReceives, EcuRuns,
         UpdateAges, HeadUnitAnswers, ServerAnswers
<1> QED
  BY <1>2, <1>4, <1>5, <1>6, <1>7 DEF Next, Callback, Lifecycle, Clock, Environment,
     HeadUnitActs, EcusAct, ServiceActs

-----------------------------------------------------------------------------
(* The invariants *)

LEMMA InitIInv == Init => IInv
<1> SUFFICES ASSUME Init PROVE IInv
  OBVIOUS
<1>1. TypeOK
  <2>1. <<>> \in Seq(Frames) /\ Idle \in Calls
    BY DEF Idle, Calls
  <2>2. /\ [n \in Requesters |-> NoPrompt] \in [Requesters -> Nat]
        /\ [n \in Requesters |-> "idle"]
             \in [Requesters -> {"idle", "waiting", "updating"}]
        /\ [n \in Requesters |-> <<>>] \in [Requesters -> Seq(Verdicts)]
    OBVIOUS
  <2> QED
    BY <2>1, <2>2 DEF Init, TypeOK
<1>2. \A n \in Requesters : pending[n] = NoPrompt
  BY DEF Init
<1>3. Prompted = {} /\ PromptIds(Requesters) = {}
  BY <1>2 DEF Prompted, PromptIds
<1> QED
  BY <1>1, <1>2, <1>3
     DEF Init, IInv, Prompts, PromptsOnScreen, PendingIsPolled, PromptsDistinct,
         OneCallAtATime, NoticesExpire, PromptInv, DownInv, Idle

LEMMA NextIInv == IInv /\ [Next]_vars => IInv'
  BY TypeStep, CallStep, PromptStep, NoticeStep, DownStep DEF IInv

THEOREM Invariance == Spec => []IInv
<1> QED
  BY InitIInv, NextIInv, PTL DEF Spec

\* Every variable of the node and of its environment keeps its type.
THEOREM TypeCorrect == Spec => []TypeOK
<1>1. IInv => TypeOK
  BY DEF IInv
<1> QED
  BY <1>1, Invariance, PTL

\* The spool holds the prompts the node waits for, over re-requests, deadlines,
\* failed writes, exceptions and restarts; and where files can be removed it holds
\* no other, and every notice in it has the timer that will delete it.
THEOREM SpoolAgrees == Spec => []SpoolInStep
<1>1. IInv => SpoolInStep
  BY DEF IInv, Prompts, SpoolInStep
<1> QED
  BY <1>1, Invariance, PTL

\* A prompt is pending only while the poll timer runs.
THEOREM AlwaysPolled == Spec => []PendingIsPolled
<1>1. IInv => PendingIsPolled
  BY DEF IInv, Prompts
<1> QED
  BY <1>1, Invariance, PTL

\* _lock_state_pending is up exactly while a lock or unlock call is out.
THEOREM CallGuarded == Spec => []OneCallAtATime
<1>1. IInv => OneCallAtATime
  BY DEF IInv
<1> QED
  BY <1>1, Invariance, PTL

-----------------------------------------------------------------------------
(* Action properties *)

\* Only _begin_approval makes a prompt, with an id above every card and
\* verdict the head unit may still hold.
THEOREM PromptStartsUnanswered == Spec => NewPromptUnanswered
<1> DEFINE Fresh(n) == pending'[n] \notin {NoPrompt, pending[n]} =>
                         /\ pending'[n] \notin cards
                         /\ \A v \in verdicts' : v.id # pending'[n]
<1>1. ASSUME IInv, [Next]_vars, NEW n \in Requesters PROVE Fresh(n)
  <2> USE DEF lockVars, approvalVars, spoolVars, noticeVars, headUnit, ecuVars
  <2>1. CASE pending' = pending
    BY <2>1
  <2>2. ASSUME NEW m \in Requesters, pending' = [pending EXCEPT ![m] = NoPrompt]
        PROVE  Fresh(n)
    BY <1>1, <2>2 DEF IInv, TypeOK
  <2>3. CASE MemoryLost
    BY <2>3 DEF MemoryLost
  <2>4. CASE OnCanEvent
    <3> DEFINE m == Head(can_queue).from
    <3>1. m \in Requesters
      <4>1. can_queue # <<>> /\ can_queue \in Seq(Frames)
        BY <1>1, <2>4 DEF OnCanEvent, IInv, TypeOK
      <4>2. Head(can_queue) \in Frames
        BY <4>1, HeadTail
      <4> QED
        BY <4>2 DEF Frames
    <3>2. \/ ApproveUnasked(m) \/ AskDriver(m) \/ OfferUnwritable(m)
          \/ HandleRunning(m) \/ HandleReject
      BY <2>4 DEF OnCanEvent, BeginApproval
    <3> HIDE DEF m
    <3>3. CASE AskDriver(m)
      <4>1. /\ pending' = [pending EXCEPT ![m] = offer_seq + 1]
            /\ verdicts' \subseteq verdicts
        BY <3>3 DEF AskDriver, WriteOffer, NewOffer
      <4>2. offer_seq + 1 \notin cards
        BY <1>1 DEF IInv, TypeOK, Prompts, PromptInv
      <4>3. \A v \in verdicts : v.id # offer_seq + 1
        BY <1>1 DEF IInv, TypeOK, Prompts, PromptInv
      <4> QED
        BY <1>1, <3>1, <4>1, <4>2, <4>3 DEF IInv, TypeOK
    <3>4. CASE OfferUnwritable(m)
      BY <2>2, <3>1, <3>4 DEF OfferUnwritable
    <3>5. CASE ApproveUnasked(m) \/ HandleRunning(m) \/ HandleReject
      BY <2>1, <3>5 DEF ApproveUnasked, HandleRunning, WriteNotice, HandleReject
    <3> QED
      BY <3>2, <3>3, <3>4, <3>5
  <2>5. ASSUME NEW m \in Requesters, PollApprovals(m) PROVE Fresh(n)
    BY <2>2, <2>5 DEF PollApprovals, Resolve
  <2>6. CASE \/ ApprovalSendRaises \/ SelfStartUnwritable \/ DestroyNode \/ Crash
             \/ \E m \in Requesters : ResolveSendRaises(m)
    BY <2>3, <2>6 DEF ApprovalSendRaises, SelfStartUnwritable, DestroyNode,
                      Crash, ResolveSendRaises, Unwind
  <2>7. CASE \/ PollFindsNothing \/ TimeoutCheck \/ OnServiceDone \/ OnSelfStart
             \/ OnSelfDone \/ Restart \/ HeadUnitScan \/ HeadUnitUpOrDown
             \/ ServerComesOrGoes \/ UNCHANGED vars
    BY <2>1, <2>7
       DEF PollFindsNothing, TimeoutCheck, OnServiceDone, OnSelfStart,
           OnSelfDone, Restart, RecoverSelfUpdate, SweepStaleOffers, HeadUnitScan, HeadUnitUpOrDown,
           ServerComesOrGoes, vars
  <2>8. CASE \/ \E m \in Requesters :
                  \/ ExpireNotice(m) \/ DeadlinePasses(m) \/ EcuRequests(m)
                  \/ EcuGivesUp(m) \/ EcuReceives(m) \/ EcuRuns(m)
             \/ \E m \in Names : UpdateAges(m)
             \/ \E o \in cards, w \in Words : HeadUnitAnswers(o, w)
             \/ \E r \in {"ok", "rejected", "lost"} : ServerAnswers(r)
    BY <2>1, <2>8
       DEF ExpireNotice, DeadlinePasses, EcuRequests, EcuGivesUp, EcuReceives,
           EcuRuns, UpdateAges, HeadUnitAnswers, ServerAnswers
  <2> QED
    BY <1>1, <2>4, <2>5, <2>6, <2>7, <2>8
       DEF Next, Callback, Lifecycle, Clock, Environment,
     HeadUnitActs, EcusAct, ServiceActs
<1>2. IInv /\ [Next]_vars => \A n \in Requesters : Fresh(n)
  BY <1>1
<1> QED
  BY <1>2, Invariance, PTL DEF Spec, NewPromptUnanswered

\* Taking a frame shortens the queue; no other step of the lock state does.
LEMMA TailShortens ==
  ASSUME NEW q \in Seq(Frames), q # <<>>
  PROVE  Tail(q) # q /\ \A f \in Frames : Tail(q) # Append(q, f)
<1>1. /\ Len(Tail(q)) = Len(q) - 1 /\ Len(q) \in Nat
      /\ \A f \in Frames : Len(Append(q, f)) = Len(q) + 1
  OBVIOUS
<1>2. ASSUME NEW f \in Frames, Tail(q) = Append(q, f) PROVE FALSE
  <2>1. Len(Tail(q)) = Len(q) + 1
    BY <1>1, <1>2
  <2> QED
    BY <1>1, <2>1
<1>3. ASSUME Tail(q) = q PROVE FALSE
  BY <1>1, <1>3
<1> QED
  BY <1>2, <1>3

\* With no call out, belief and set part only when a change overtook the call
\* that returned, when it was refused, or with the service away.
THEOREM PartOnlyByLostCall == Spec => MismatchOnlyByLostCall
<1>1. ASSUME IInv, [Next]_vars, ~Mismatch, Mismatch'
      PROVE  \/ call.at = "ok" /\ (call.label = "lock") # (active_ecus # {})
             \/ call.at = "rejected"
             \/ ~server_ready
  <2>1. TypeOK /\ OneCallAtATime /\ DownInv /\ LockStepKind
    BY <1>1, StepKinds DEF IInv
  <2>2. CASE UpdateLockState
    BY <1>1, <2>1, <2>2, LockStep DEF Mismatch
  <2>3. CASE MemoryLost
    BY <1>1, <2>3 DEF MemoryLost, Mismatch
  <2>4. CASE OnServiceDone
    BY <1>1, <2>1, <2>4 DEF OnServiceDone, Mismatch
  <2>5. CASE UNCHANGED <<up, active_ecus, is_locked, lock_state_pending>>
    BY <1>1, <2>5 DEF Mismatch
  <2>6. CASE Restart
    <3>1. active_ecus' = {} /\ ~is_locked'
      BY <2>1, <2>6 DEF Restart, RecoverSelfUpdate, SweepStaleOffers, DownInv, lockVars
    <3>2. is_locked' \in BOOLEAN
      BY <2>1, <2>6 DEF Restart, RecoverSelfUpdate, SweepStaleOffers, TypeOK, lockVars
    <3> QED
      BY <1>1, <3>1, <3>2 DEF Mismatch
  <2> QED
    BY <2>1, <2>2, <2>3, <2>4, <2>5, <2>6 DEF LockStepKind, LockUntouched
<1> QED
  BY <1>1, Invariance, PTL DEF Spec, MismatchOnlyByLostCall

\* With the service there, a change of the set or any CAN frame ends a
\* mismatch: a call is out or the two agree.
THEOREM FrameRepairs == Spec => MismatchRepaired
<1> DEFINE Looks == \/ active_ecus' # active_ecus
                    \/ can_queue # <<>> /\ can_queue' = Tail(can_queue)
<1>1. ASSUME IInv, [Next]_vars, Mismatch, server_ready, Looks PROVE ~Mismatch'
  <2>1. TypeOK /\ OneCallAtATime /\ LockStepKind
    BY <1>1, StepKinds DEF IInv
  <2>2. CASE UpdateLockState
    BY <1>1, <2>1, <2>2, LockStep DEF Mismatch
  <2>3. CASE MemoryLost
    BY <2>3 DEF MemoryLost, Mismatch
  <2>4. CASE OnServiceDone
    BY <1>1, <2>1, <2>4 DEF OnServiceDone, Mismatch, OneCallAtATime
  <2>5. CASE Restart
    BY <1>1, <2>5 DEF Restart, RecoverSelfUpdate, SweepStaleOffers, Mismatch
  <2>6. ASSUME active_ecus' = active_ecus,
               \/ can_queue' = can_queue
               \/ \E f \in Frames : can_queue' = Append(can_queue, f)
        PROVE  FALSE
    BY <1>1, <2>1, <2>6, TailShortens DEF TypeOK
  <2> QED
    BY <2>1, <2>2, <2>3, <2>4, <2>5, <2>6 DEF LockStepKind, LockUntouched
<1> QED
  BY <1>1, Invariance, PTL DEF Spec, MismatchRepaired

-----------------------------------------------------------------------------
(* The coordinator implements UpdateGate *)

\* With a head unit that does not fall silent or come back in the middle of a
\* prompt, whether or not there is one, a requester is owed a verdict exactly
\* while its prompt is pending: one verdict for each REQUEST taken up, and an
\* APPROVE never without holding the requester.
THEOREM GateRefinement == ASSUME "ui" \notin Faults
                          PROVE  Spec => GateSpec
<1> USE DEF lockVars, approvalVars, spoolVars, noticeVars, headUnit, ecuVars
<1> DEFINE GateStep == [Gate!Next]_(Gate!vars)
           Decides == FailOpen => \A m \in Requesters : pending[m] = NoPrompt
<1>1. Init => Gate!Init /\ Decides
  <2> SUFFICES ASSUME Init PROVE Gate!Init /\ Decides
    OBVIOUS
  <2>1. \A n \in Requesters : pending[n] = NoPrompt
    BY DEF Init
  <2> QED
    BY <2>1 DEF Init, Gate!Init, Prompted
<1>2. ASSUME IInv, Decides, [Next]_vars PROVE Decides'
  <2>1. ui_alive' = ui_alive
    BY <1>2
       DEF Next, Callback, Lifecycle, Clock, Environment,
       HeadUnitActs, EcusAct, ServiceActs, vars, OnCanEvent,
           ApprovalSendRaises, PollApprovals, ResolveSendRaises, PollFindsNothing,
           TimeoutCheck, OnServiceDone, ExpireNotice, OnSelfStart,
           SelfStartUnwritable, OnSelfDone, Crash, DestroyNode, Restart, RecoverSelfUpdate, SweepStaleOffers,
           DeadlinePasses, UpdateAges, HeadUnitScan, HeadUnitUpOrDown,
           HeadUnitAnswers, ServerAnswers, ServerComesOrGoes, EcuRequests,
           EcuGivesUp, EcuReceives, EcuRuns
  <2>2. ASSUME FailOpen PROVE \A m \in Requesters : pending'[m] = NoPrompt
    <3>1. \A m \in Requesters : pending[m] = NoPrompt
      BY <1>2, <2>2
    <3>2. CASE pending' = pending
      BY <3>1, <3>2
    <3>3. CASE MemoryLost
      BY <3>3 DEF MemoryLost
    <3>4. CASE OnCanEvent
      <4>1. pending' = pending
        BY <2>2, <3>4
           DEF OnCanEvent, BeginApproval, ApproveUnasked, AskDriver,
               OfferUnwritable, HandleRunning, HandleReject
      <4> QED
        BY <3>2, <4>1
    <3>5. CASE \E n \in Requesters : PollApprovals(n)
      BY <3>1, <3>5 DEF PollApprovals, Decided
    <3>6. CASE \/ ApprovalSendRaises \/ SelfStartUnwritable \/ DestroyNode \/ Crash
               \/ \E n \in Requesters : ResolveSendRaises(n)
      BY <3>3, <3>6 DEF ApprovalSendRaises, SelfStartUnwritable, DestroyNode,
                        Crash, ResolveSendRaises, Unwind
    <3>7. CASE \/ PollFindsNothing \/ TimeoutCheck \/ OnServiceDone
               \/ OnSelfStart \/ OnSelfDone \/ Restart \/ UNCHANGED vars
               \/ \E n \in Requesters : ExpireNotice(n)
      BY <3>2, <3>7
         DEF PollFindsNothing, TimeoutCheck, OnServiceDone, OnSelfStart, OnSelfDone,
             Restart, RecoverSelfUpdate, SweepStaleOffers, vars, ExpireNotice
    <3>8. CASE Clock \/ Environment
      BY <3>2, <3>8
         DEF Clock, Environment, HeadUnitActs, EcusAct, ServiceActs, DeadlinePasses,
             UpdateAges, HeadUnitScan, HeadUnitUpOrDown, HeadUnitAnswers,
             ServerAnswers, ServerComesOrGoes, EcuRequests, EcuGivesUp, EcuReceives,
             EcuRuns
    <3> QED
      BY <1>2, <3>4, <3>5, <3>6, <3>7, <3>8 DEF Next, Callback, Lifecycle
  <2> QED
    BY <2>1, <2>2 DEF FailOpen
<1>3. ASSUME IInv, Decides, [Next]_vars PROVE GateStep
  <2>a. TypeOK
    BY <1>3 DEF IInv
  <2>1. CASE UNCHANGED <<pending, active_ecus, wire>>
    BY <2>1 DEF Gate!vars, Prompted
  <2>2. ASSUME active_ecus' \subseteq active_ecus, UNCHANGED <<pending, wire>>
        PROVE  GateStep
    <3>1. Prompted' = Prompted
      BY <2>2 DEF Prompted
    <3>2. active_ecus' = active_ecus \ (active_ecus \ active_ecus')
      BY <2>2
    <3> QED
      BY <2>2, <3>1, <3>2 DEF Gate!Next, Gate!LetGo
  <2>3. ASSUME MemoryLost, wire' = wire PROVE GateStep
    <3>1. Prompted' = {} /\ active_ecus' = {}
      <4>1. \A n \in Requesters : pending'[n] = NoPrompt
        BY <2>3 DEF MemoryLost
      <4> QED
        BY <2>3, <4>1 DEF MemoryLost, Prompted
    <3> QED
      BY <2>3, <3>1 DEF Gate!Next, Gate!Forget
  <2>4. ASSUME NEW n \in Requesters, pending' = [pending EXCEPT ![n] = NoPrompt]
        PROVE  Prompted' = Prompted \ {n}
    BY <2>a, <2>4 DEF TypeOK, Prompted
  <2>5. CASE OnCanEvent
    <3> DEFINE n == Head(can_queue).from
    <3>1. n \in Requesters
      <4>1. can_queue # <<>> /\ can_queue \in Seq(Frames)
        BY <2>a, <2>5 DEF OnCanEvent, TypeOK
      <4>2. Head(can_queue) \in Frames
        BY <4>1, HeadTail
      <4> QED
        BY <4>2 DEF Frames
    <3>2. \/ ApproveUnasked(n) \/ AskDriver(n) \/ OfferUnwritable(n)
          \/ HandleRunning(n) \/ HandleReject
      BY <2>5 DEF OnCanEvent, BeginApproval
    <3> HIDE DEF n
    <3>3. CASE ApproveUnasked(n)
      <4>1. /\ active_ecus' = active_ecus \cup {n}
            /\ wire' = [wire EXCEPT ![n] = Append(@, "APPROVE")]
            /\ pending' = pending
        BY <3>3 DEF ApproveUnasked, Hold, SendVerdict
      <4>2. Prompted = {} /\ Prompted' = {}
        BY <1>3, <3>3, <4>1 DEF ApproveUnasked, Prompted
      <4>3. Prompted' = Prompted \ {n}
        BY <4>2
      <4> QED
        BY <3>1, <4>1, <4>3 DEF Gate!Next, Gate!GrantUnasked, Gate!Send
    <3>4. CASE AskDriver(n)
      <4>1. /\ pending' = [pending EXCEPT ![n] = offer_seq + 1]
            /\ offer_seq + 1 # NoPrompt
            /\ UNCHANGED <<active_ecus, wire>>
        BY <2>a, <3>4 DEF AskDriver, WriteOffer, NewOffer, TypeOK
      <4>2. Prompted' = Prompted \cup {n}
        BY <2>a, <3>1, <4>1 DEF TypeOK, Prompted
      <4> QED
        BY <3>1, <4>1, <4>2 DEF Gate!Next, Gate!Ask
    <3>5. CASE OfferUnwritable(n)
      <4>1. /\ Prompted' = Prompted \ {n}
            /\ active_ecus' = active_ecus \cup {n}
            /\ wire' = [wire EXCEPT ![n] = Append(@, "APPROVE")]
        BY <2>4, <3>1, <3>5 DEF OfferUnwritable, Hold, SendVerdict
      <4> QED
        BY <3>1, <4>1 DEF Gate!Next, Gate!GrantUnasked, Gate!Send
    <3>6. CASE HandleRunning(n)
      BY <2>2, <3>6 DEF HandleRunning, WriteNotice, Release
    <3>7. CASE HandleReject
      BY <2>1, <3>7 DEF HandleReject
    <3> QED
      BY <3>2, <3>3, <3>4, <3>5, <3>6, <3>7
  <2>6. ASSUME NEW n \in Requesters, PollApprovals(n) PROVE GateStep
    <3>1. n \in Prompted /\ Prompted' = Prompted \ {n}
      BY <2>4, <2>6 DEF PollApprovals, Resolve, Decided, StillPending, Prompted
    <3>2. CASE SendVerdict(n, "APPROVE") /\ Hold(n)
      BY <3>1, <3>2 DEF Gate!Next, Gate!Grant, Gate!Send, SendVerdict, Hold
    <3>3. CASE SendVerdict(n, "DENY") /\ active_ecus' = active_ecus
      BY <3>1, <3>3 DEF Gate!Next, Gate!Refuse, Gate!Send, SendVerdict
    <3> QED
      BY <2>6, <3>2, <3>3 DEF PollApprovals, Resolve
  <2>7. CASE \/ ApprovalSendRaises \/ SelfStartUnwritable \/ DestroyNode \/ Crash
             \/ \E n \in Requesters : ResolveSendRaises(n)
    BY <2>3, <2>7 DEF ApprovalSendRaises, SelfStartUnwritable, DestroyNode,
                      Crash, ResolveSendRaises, Unwind
  <2>8. CASE TimeoutCheck \/ OnSelfDone
    BY <2>2, <2>8 DEF TimeoutCheck, OnSelfDone, Release
  <2>9. CASE OnSelfStart
    <3>1. Prompted' = Prompted /\ active_ecus' = active_ecus \cup {Jetson}
          /\ wire' = wire
      BY <2>9 DEF OnSelfStart, Hold, Prompted
    <3> QED
      BY <3>1 DEF Gate!Next, Gate!HoldHost
  <2>10. ASSUME NEW n \in Requesters, EcuReceives(n) PROVE GateStep
    <3>1. /\ wire[n] # <<>> /\ wire' = [wire EXCEPT ![n] = Tail(@)]
          /\ Prompted' = Prompted /\ active_ecus' = active_ecus
      BY <2>10 DEF EcuReceives, Prompted
    <3> QED
      BY <3>1 DEF Gate!Next, Gate!Deliver
  <2>11. CASE \/ PollFindsNothing \/ OnServiceDone \/ Restart \/ HeadUnitScan
              \/ HeadUnitUpOrDown \/ ServerComesOrGoes \/ UNCHANGED vars
    BY <2>1, <2>11
       DEF PollFindsNothing, OnServiceDone, Restart, RecoverSelfUpdate, SweepStaleOffers, HeadUnitScan,
           HeadUnitUpOrDown, ServerComesOrGoes, vars
  <2>12. CASE \/ \E n \in Requesters :
                   \/ ExpireNotice(n) \/ DeadlinePasses(n) \/ EcuRequests(n)
                   \/ EcuGivesUp(n) \/ EcuRuns(n)
              \/ \E n \in Names : UpdateAges(n)
              \/ \E o \in cards, w \in Words : HeadUnitAnswers(o, w)
              \/ \E r \in {"ok", "rejected", "lost"} : ServerAnswers(r)
    BY <2>1, <2>12
       DEF ExpireNotice, DeadlinePasses, EcuRequests, EcuGivesUp, EcuRuns,
           UpdateAges, HeadUnitAnswers, ServerAnswers
  <2> QED
    BY <1>3, <2>5, <2>6, <2>7, <2>8, <2>9, <2>10, <2>11, <2>12
       DEF Next, Callback, Lifecycle, Clock, Environment,
     HeadUnitActs, EcusAct, ServiceActs
<1> QED
  BY <1>1, <1>2, <1>3, Invariance, PTL DEF Spec, GateSpec, Gate!Spec
===============================================================================
