----------------------------- MODULE ApprovalWindow -----------------------------
(***************************************************************************)
(* The clock of one driver approval (BUDGETS, _begin_approval and          *)
(* _poll_approvals of update_coordinator/node.py).  Three clocks race: the *)
(* prompt on the head unit, the coordinator's deadline and the wait of the *)
(* requester, which abandons the update when no verdict came in time.      *)
(*                                                                         *)
(* Time is counted in ticks of APPROVAL_POLL_S.  A tick is not taken while *)
(* something is at its latest moment: a frame in transit, a poll that is   *)
(* due, a prompt that accepts itself.                                      *)
(***************************************************************************)
EXTENDS Integers

CONSTANTS BUDGETS,     \* for each target [ui_ms, deadline_ms, peer_wait_ms], in ticks
          Poll,        \* APPROVAL_POLL_S
          Transit,     \* a frame with its SecOC work takes at most so long
          Lag,         \* the executor runs a due timer at most so late
          ShowDelay,   \* the head unit shows a new offer at most so late
          Back, Forward \* by how much the wall clock may be set, 0 if never

ASSUME ApprovalWindowAssumption ==
  /\ \A t \in DOMAIN BUDGETS :
       BUDGETS[t] \in [ui_ms : Nat, deadline_ms : Nat, peer_wait_ms : Nat]
  /\ Poll \in Nat \ {0} /\ {Transit, Lag, ShowDelay, Back, Forward} \subseteq Nat

\* BUDGETS of the node, in ticks of APPROVAL_POLL_S.
NodeBudgets ==
  [cluster |-> [peer_wait_ms |-> 600, ui_ms |-> 90, deadline_ms |-> 300],
   esp32   |-> [peer_wait_ms |-> 100, ui_ms |-> 90, deadline_ms |-> 95]]

VARIABLES
  now,        \* ticks since the request; nothing happens between requests
  wall,       \* time.time() minus now
  target,     \* who asks
  ecu,        \* what it is doing
  stage,      \* where its request is
  began,      \* when _begin_approval asked the driver
  deadline,   \* p["deadline"], on the wall clock
  next_poll,  \* when the poll timer is due, on the wall clock: the node's clock
  ui,         \* the head unit's app runs
  shown,      \* when the card appeared, or NotYet
  answered,   \* the verdict file is there
  decider,    \* who decided the verdict: "driver" or "default"
  sent_at     \* when the verdict was sent

vars == <<now, wall, target, ecu, stage, began, deadline, next_poll, ui, shown, answered,
          decider, sent_at>>

NotYet == -1

Prompt   == BUDGETS[target].ui_ms
Deadline == BUDGETS[target].deadline_ms
PeerWait == BUDGETS[target].peer_wait_ms
Stages == {"none",     \* no request
           "request",  \* the REQUEST frame is on its way
           "pending",  \* the driver is being asked
           "verdict"}  \* the verdict frame is on its way

TypeOK ==
  /\ now \in Nat /\ wall \in Int /\ target \in DOMAIN BUDGETS
  /\ ecu \in {"idle", "waiting", "gone"} /\ stage \in Stages
  /\ began \in Nat /\ deadline \in Int /\ next_poll \in Int
  /\ ui \in BOOLEAN /\ shown \in Int /\ answered \in BOOLEAN
  /\ decider \in {"nobody", "driver", "default"} /\ sent_at \in Nat

Init ==
  /\ now = 0 /\ wall = 0 /\ target \in DOMAIN BUDGETS /\ ecu = "idle" /\ stage = "none"
  /\ began = 0 /\ deadline = 0 /\ next_poll = 0
  /\ ui = TRUE /\ shown = NotYet /\ answered = FALSE
  /\ decider = "nobody" /\ sent_at = 0

\* A target asks, with no earlier request under way.
EcuAsks ==
  /\ ecu = "idle" /\ stage = "none"
  /\ ecu' = "waiting" /\ stage' = "request" /\ target' \in DOMAIN BUDGETS
  /\ now' = 0 /\ decider' = "nobody" /\ sent_at' = 0
  /\ UNCHANGED <<wall, began, deadline, next_poll, ui, shown, answered>>

\* Mutants: the requester's wait, or the prompt, is taken for the deadline.
DeadlineFrom_PeerWait(t) == t + PeerWait
DeadlineFrom_Prompt(t) == t + Prompt

DeadlineFrom(t) == t + Deadline

\* _begin_approval with a head unit there: the poll timer may be running for
\* another requester already.
BeginApproval ==
  /\ stage = "request" /\ ui
  /\ stage' = "pending" /\ began' = now
  /\ deadline' = DeadlineFrom(now + wall)
  /\ \E first \in 0..Poll : next_poll' = now + wall + first
  /\ UNCHANGED <<now, wall, target, ecu, ui, shown, answered, decider, sent_at>>

\* _begin_approval with nobody to ask: it approves at once.
FailOpen ==
  /\ stage = "request" /\ ~ui
  /\ stage' = "verdict" /\ decider' = "default" /\ sent_at' = now
  /\ UNCHANGED <<now, wall, target, ecu, began, deadline, next_poll, ui, shown, answered>>

\* _resolve pops the prompt, takes it off the screen and sends the verdict.
Resolve(who) ==
  /\ stage' = "verdict" /\ decider' = who /\ sent_at' = now
  /\ began' = 0 /\ deadline' = 0 /\ next_poll' = 0
  /\ shown' = NotYet /\ answered' = FALSE

\* _poll_approvals: the verdict file first, then the deadline on the wall clock.
\* The timer skips the periods it has missed.
PollApprovals ==
  /\ stage = "pending" /\ now + wall >= next_poll
  /\ \/ answered /\ Resolve("driver")
     \/ ~answered /\ now + wall >= deadline /\ Resolve("default")
     \/ /\ ~answered /\ now + wall < deadline
        /\ \/ next_poll + Poll >= now + wall /\ next_poll' = next_poll + Poll
           \/ /\ next_poll + Poll < now + wall
              /\ \E rest \in 0..Poll : next_poll' = now + wall + rest
        /\ UNCHANGED <<stage, began, deadline, shown, answered, decider, sent_at>>
  /\ UNCHANGED <<now, wall, target, ecu, ui>>

-----------------------------------------------------------------------------
(* The head unit, the ECU and the clocks *)

HeadUnitShows ==
  /\ stage = "pending" /\ ui /\ shown = NotYet
  /\ shown' = now
  /\ UNCHANGED <<now, wall, target, ecu, stage, began, deadline, next_poll, ui, answered,
                 decider, sent_at>>

HeadUnitAnswers ==
  /\ stage = "pending" /\ ui /\ shown # NotYet /\ ~answered
  /\ answered' = TRUE
  /\ UNCHANGED <<now, wall, target, ecu, stage, began, deadline, next_poll, ui, shown,
                 decider, sent_at>>

HeadUnitDies ==
  /\ ui /\ ui' = FALSE
  /\ UNCHANGED <<now, wall, target, ecu, stage, began, deadline, next_poll, shown,
                 answered, decider, sent_at>>

EcuReceives ==
  /\ stage = "verdict" /\ ecu \in {"waiting", "gone"}
  /\ stage' = "none"
  /\ ecu' = IF ecu = "waiting" THEN "idle" ELSE ecu
  /\ UNCHANGED <<now, wall, target, began, deadline, next_poll, ui, shown, answered,
                 decider, sent_at>>

EcuGivesUp ==
  /\ ecu = "waiting" /\ now >= PeerWait
  /\ ecu' = "gone"
  /\ UNCHANGED <<now, wall, target, stage, began, deadline, next_poll, ui, shown, answered,
                 decider, sent_at>>

\* The wall clock is set once, back or forward, by NTP or by hand.
ClockIsSet ==
  /\ wall = 0 /\ wall' \in {-Back, Forward} \ {0}
  /\ UNCHANGED <<now, target, ecu, stage, began, deadline, next_poll, ui, shown, answered,
                 decider, sent_at>>

Tick ==
  /\ stage = "request" => now < Transit
  /\ stage = "pending" =>
       /\ now + wall < next_poll + Lag
       /\ ui /\ shown = NotYet => now < began + ShowDelay
       /\ ui /\ shown # NotYet /\ ~answered => now < shown + Prompt
  /\ stage = "verdict" => now < sent_at + Transit
  /\ stage # "none"
  /\ ecu = "waiting" => now < PeerWait
  /\ now' = now + 1
  /\ UNCHANGED <<wall, target, ecu, stage, began, deadline, next_poll, ui, shown, answered,
                 decider, sent_at>>

Next ==
  \/ EcuAsks \/ BeginApproval \/ FailOpen \/ PollApprovals
  \/ HeadUnitShows \/ HeadUnitAnswers \/ HeadUnitDies
  \/ EcuReceives \/ EcuGivesUp \/ ClockIsSet \/ Tick

Spec == Init /\ [][Next]_vars

-----------------------------------------------------------------------------
Ahead  == IF wall > 0 THEN wall ELSE 0
Behind == IF wall < 0 THEN -wall ELSE 0

(* The requester's wall leaves room behind the deadline, for a poll that   *)
(* is just missed, the SecOC build and the frame (BUDGETS), and a setback  *)
(* of the wall clock.                                                      *)
Room == Transit + Deadline + Behind + Poll + Lag + Transit < PeerWait

(* Where there is that room the verdict is on time, whoever decides it and *)
(* whatever the head unit does: the ECU never gives up.                    *)
VerdictInTime == Room => ecu # "gone"

(* The driver has the whole prompt: while the head unit lives,             *)
(* on_no_verdict never overtakes a card that came up early enough to count *)
(* to its end before the deadline, less what the clock was set forward     *)
(* (BUDGETS: the deadline sits above the prompt plus the latency).         *)
Late == IF shown = NotYet THEN ShowDelay + Ahead >= Deadline
                          ELSE shown + Prompt + Ahead >= began + Deadline

DriverDecides ==
  [][stage = "pending" /\ stage' = "verdict" /\ decider' = "default" => ~ui \/ Late]_vars

\* The ages behind both.
WindowInv ==
  /\ stage = "none" => ecu # "waiting"
  /\ stage # "pending" => shown = NotYet /\ ~answered
  /\ stage = "request" => now <= Transit
  /\ stage = "pending" =>
       /\ began <= Transit /\ began <= now
       /\ began + Deadline <= deadline - wall + Ahead
       /\ deadline - wall <= began + Deadline + Behind
       /\ next_poll - wall <= began + Deadline + Behind + Poll
       /\ now <= began + Deadline + Behind + Poll + Lag
       /\ ui /\ shown = NotYet => now <= began + ShowDelay
       /\ ui /\ shown # NotYet /\ ~answered => now <= shown + Prompt
  /\ stage = "verdict" =>
       /\ sent_at <= Transit + Deadline + Behind + Poll + Lag
       /\ now <= sent_at + Transit

-----------------------------------------------------------------------------
(* What comments say and the code does not do.                             *)

\* node.py:106-107: with no answer "we fall through to on_no_verdict at 9.5 s, still
\* inside the wall".  The deadline is on the wall clock, which can be set back.
NoAnswerStillInTime == decider = "default" => ecu # "gone"

\* node.py:100: "the driver's window is genuinely 9 s on EVERY target now".  Of the
\* ESP32's card, half a second is left for the head unit to notice the offer and
\* for a wall clock that is set forward.
WindowOnEveryTarget == decider = "default" => ~ui
===============================================================================
