------------------------------ MODULE XboxOverride ------------------------------
(***************************************************************************)
(* The manual override (xbox_override.py): it owns the vehicle while RB is *)
(* held and both triggers have been seen at rest, stops it when the pad    *)
(* falls silent, and then yields to navigation by falling silent itself.   *)
(* Around it, from how it is used: the pad with joy_node, and the slot of  *)
(* twist_mux, which keeps every lower input out while this one has spoken  *)
(* within its timeout.                                                     *)
(*                                                                         *)
(* One executor runs one callback at a time, on_joy and tick, and may      *)
(* stall: reports then wait in the queue of /joy, and on_joy takes the     *)
(* time of its call for theirs.  Time is in periods of the timer (50 ms).  *)
(* Steering is left out: it is zero whenever the velocity is.  How the     *)
(* wheels follow a command is CommandChain, the lock above all inputs is   *)
(* EmergencyStop, the evdev source is EvdevPad.                            *)
(***************************************************************************)
EXTENDS Naturals, Sequences

CONSTANTS JoyTimeout,  \* --joy-timeout: 0.25 s
          TailTime,    \* --tail: 1.0 s
          MuxTimeout,  \* twist_mux_topics.yaml, timeout: 0.5 s
          JoyDepth,    \* queue of the subscription to /joy: 10
          Given,       \* the axes may be given on the command line, and wrong
          MaxLate      \* bound: a tick comes within that of the last one, and a
                       \* report is heard within that

ASSUME XboxOverrideAssumption ==
  /\ {JoyTimeout, JoyDepth, MaxLate} \subseteq Nat \ {0}
  /\ {MuxTimeout, TailTime} \subseteq Nat
  /\ Given \in BOOLEAN
  /\ MaxLate <= MuxTimeout /\ MuxTimeout < TailTime

VARIABLES
  running,      \* the process is there
  indices,      \* args.*_axis and rb_button: "open", "fit" the pad, or "outside" it
  joy,          \* st["joy"], or NoJoy
  armed,        \* the triggers seen at rest: st["armed_rt"], st["armed_lt"]
  engaged,
  tail,         \* what is left until tail_until
  late,         \* time since the last tick
  quiet,        \* time since joy_t
  reports,      \* what waits on /joy
  behind,       \* time since nothing did
  pad,          \* plugged, measured (a profile of PAD_MAPS), and RB
  trigger,      \* "rest" or "pressed", by the operator's fingers
  known,        \* the triggers the driver has heard of since the pad was plugged
  command,      \* what this node published last
  teleop_age,   \* twist_mux: time since then
  idle,         \* history: time since the operator last meant to move
  rested,       \* history: triggers reported at rest since the last dropout
  free_for      \* history: time since it was last engaged; TailTime when it starts or ends

node == <<running, indices, joy, armed, engaged, tail, late>>
hand == <<pad, trigger, known>>
queue == <<reports, behind>>
slot == <<command, teleop_age>>
hist == <<idle, rested, free_for>>
vars == <<node, quiet, queue, hand, slot, hist>>

Triggers == {"rt", "lt"}
Reports == [rb : BOOLEAN, rt : {"rest", "pressed", "unset"}, lt : {"rest", "pressed", "unset"}]
NoJoy == [rb |-> FALSE, rt |-> "none", lt |-> "none"]
Dropout == JoyTimeout + MaxLate       \* so long a silence no tick overlooks
Reach == JoyTimeout + MaxLate         \* so old may be what a tick acts upon
Longest == TailTime + MuxTimeout + 1  \* after that the slot is free
Older(age, limit) == IF age > limit THEN age ELSE age + 1

TypeOK ==
  /\ running \in BOOLEAN /\ indices \in {"open", "fit", "outside"}
  /\ joy \in {NoJoy} \cup Reports
  /\ reports \in Seq(Reports) /\ Len(reports) <= JoyDepth /\ behind \in 0..MaxLate
  /\ armed \subseteq Triggers /\ engaged \in BOOLEAN
  /\ tail \in 0..TailTime /\ late \in 0..MaxLate /\ quiet \in 0..(Dropout + 1)
  /\ pad \in [plugged : BOOLEAN, measured : BOOLEAN, rb : BOOLEAN]
  /\ trigger \in [Triggers -> {"rest", "pressed"}] /\ known \subseteq Triggers
  /\ command \in {"zero", "moves"} /\ teleop_age \in 0..(MuxTimeout + 1)
  /\ idle \in 0..(Reach + 1) /\ rested \subseteq Triggers
  /\ free_for \in 0..Longest

\* A process that starts.  Indices given on the command line are not compared
\* with the pad; teleop.launch.py gives none by itself.
Fresh ==
  /\ running' = TRUE /\ joy' = NoJoy /\ armed' = {} /\ engaged' = FALSE
  /\ indices' \in {"open"} \cup IF Given THEN {"outside"} ELSE {}
  /\ tail' = 0 /\ late' = 0 /\ quiet' = 0 /\ reports' = <<>> /\ behind' = 0
  /\ rested' = {} /\ free_for' = TailTime

Init ==
  /\ running = FALSE /\ joy = NoJoy /\ armed = {} /\ engaged = FALSE
  /\ indices = "open" /\ tail = 0 /\ late = 0 /\ quiet = 0
  /\ reports = <<>> /\ behind = 0
  /\ pad = [plugged |-> FALSE, measured |-> TRUE, rb |-> FALSE]
  /\ trigger = [t \in Triggers |-> "rest"] /\ known = {}
  /\ command = "zero" /\ teleop_age = MuxTimeout + 1
  /\ idle = Reach + 1 /\ rested = {} /\ free_for = Longest

-----------------------------------------------------------------------------
(* What leaves the node *)

\* The slot of highest priority: twist_mux passes what comes there at once.
Publish(motion) == command' = motion /\ teleop_age' = 0

Silence == UNCHANGED slot

\* Zeros while the tail lasts, then nothing.
TailOrSilence(left) == IF left > 0 THEN Publish("zero") ELSE Silence

\* An axis the driver has not heard of reads 0.0, half pressed.  REST_THRESH and
\* TRIGGER_DEADZONE are the same point of an axis.
Pulled(axis) == axis # "rest"

\* Both triggers pulled: zero.
Motion(report) == IF Pulled(report.rt) # Pulled(report.lt) THEN "moves" ELSE "zero"

-----------------------------------------------------------------------------
(* tick *)

\* Mutant: what was armed before the dropout still is.
Disarm_KeepsArmed ==
  /\ engaged' = FALSE
  /\ tail' = IF engaged THEN TailTime ELSE tail
  /\ TailOrSilence(tail') /\ UNCHANGED armed

\* Mutant: every tick without a pad starts the tail again.
Disarm_RestartsTail ==
  /\ armed' = {} /\ engaged' = FALSE
  /\ tail' = TailTime
  /\ TailOrSilence(tail')

Disarm ==
  /\ armed' = {} /\ engaged' = FALSE
  /\ tail' = IF engaged THEN TailTime ELSE tail
  /\ TailOrSilence(tail')

\* ARM-ON-RELEASE: a trigger counts once it has been seen at rest.
ArmedBy(report) == armed \cup {t \in Triggers : report[t] = "rest"}

\* Mutant: yield at once.
Disengage_NoTail ==
  /\ engaged' = FALSE /\ UNCHANGED tail
  /\ TailOrSilence(tail')

Disengage ==
  /\ engaged' = FALSE
  /\ tail' = IF engaged THEN TailTime ELSE tail
  /\ TailOrSilence(tail')

\* Mutant: RB and a trigger that is armed are enough.
Owns_OneTrigger(report) == report.rb /\ ArmedBy(report) # {}

Owns(report) == report.rb /\ ArmedBy(report) = Triggers

Operate ==
  /\ armed' = ArmedBy(joy)
  /\ IF Owns(joy)
     THEN engaged' = TRUE /\ Publish(Motion(joy)) /\ UNCHANGED tail
     ELSE Disengage

\* Mutant: a report never grows old.
Stale_Never == joy = NoJoy

\* Mutant: a report of the last period is too old.
Stale_Early == joy = NoJoy \/ quiet >= JoyTimeout

Stale == joy = NoJoy \/ quiet > JoyTimeout

Tick ==
  /\ running /\ late > 0
  /\ late' = 0
  /\ \/ /\ Stale
        /\ Disarm
     \/ /\ ~Stale /\ indices = "outside"
        /\ TailOrSilence(tail) /\ UNCHANGED <<armed, engaged, tail>>
     \/ /\ ~Stale /\ indices # "outside"
        /\ Operate
  /\ free_for' = IF engaged' THEN 0 ELSE free_for
  /\ UNCHANGED <<running, indices, joy, quiet, queue, hand, idle, rested>>

-----------------------------------------------------------------------------
(* The pad *)

Meant(p, t) == p.plugged /\ p.rb /\ t["rt"] # t["lt"]

NotedIdle == idle' = IF Meant(pad', trigger') THEN 0 ELSE idle

Reported(t) == IF t \in known THEN trigger[t] ELSE "unset"

\* joy_node sends a report of every change, and repeats itself.
CurrentReport == [rb |-> pad.rb, rt |-> Reported("rt"), lt |-> Reported("lt")]

AtRest(report) == {t \in Triggers : report[t] = "rest"}

Queued(report) == LET q == Append(reports, report) IN IF Len(q) > JoyDepth THEN Tail(q) ELSE q

Sends(report) == reports' = IF running /\ pad.plugged THEN Queued(report) ELSE reports

\* on_joy: the first report decides on the indices, unless they were all given.
OnJoy ==
  /\ running /\ reports # <<>>
  /\ indices = "open" => pad.measured
  /\ joy' = Head(reports) /\ quiet' = 0
  /\ reports' = Tail(reports) /\ behind' = IF Len(reports) = 1 THEN 0 ELSE behind
  /\ indices' = IF indices = "open" THEN "fit" ELSE indices
  /\ rested' = AtRest(joy') \cup (IF quiet > Dropout THEN {} ELSE rested)
  /\ UNCHANGED <<running, armed, engaged, tail, late, hand, slot, idle, free_for>>

\* What every end but a kill goes through: a burst of zeros, or an exception that
\* is swallowed when the context is already shut down.
Ends ==
  /\ running' = FALSE /\ joy' = NoJoy /\ armed' = {} /\ engaged' = FALSE
  /\ tail' = 0 /\ late' = 0 /\ quiet' = 0 /\ reports' = <<>> /\ behind' = 0
  /\ free_for' = TailTime
  /\ UNCHANGED <<indices, hand, idle, rested>>

\* A pad of no known shape: SystemExit out of the first on_joy.
UnknownPad ==
  /\ running /\ reports # <<>> /\ indices = "open" /\ ~pad.measured
  /\ Ends /\ Publish("zero")

Stops == running /\ Ends /\ (Publish("zero") \/ Silence)

\* The service starts the node when a pad comes.
Starts ==
  /\ ~running /\ pad.plugged
  /\ Fresh
  /\ UNCHANGED <<hand, slot, idle>>

\* The operator moves a finger; the driver hears of the trigger that moved.
Fingers ==
  /\ \/ pad' = [pad EXCEPT !.rb = ~@] /\ UNCHANGED <<trigger, known>>
     \/ \E t \in Triggers :
          /\ trigger' = [trigger EXCEPT ![t] = IF @ = "rest" THEN "pressed" ELSE "rest"]
          /\ known' = IF pad.plugged THEN known \cup {t} ELSE known
          /\ UNCHANGED pad
  /\ NotedIdle
  /\ UNCHANGED <<node, quiet, behind, slot, rested, free_for>>

Operator == Fingers /\ Sends(CurrentReport')

\* It is pulled out, its battery fails, or joy_node dies.
Unplugged ==
  /\ pad.plugged
  /\ pad' = [pad EXCEPT !.plugged = FALSE] /\ known' = {}
  /\ UNCHANGED <<trigger, node, quiet, queue, slot, hist>>

\* It comes back: later than a dropout, and with the shape it had while the node
\* that saw it runs.
Plugged ==
  /\ ~pad.plugged
  /\ running => quiet > Dropout /\ reports = <<>>
  /\ \E m \in BOOLEAN : /\ running => m = pad.measured
                        /\ pad' = [pad EXCEPT !.plugged = TRUE, !.measured = m]
  /\ known' \in SUBSET Triggers /\ UNCHANGED trigger
  /\ NotedIdle
  /\ UNCHANGED <<node, quiet, queue, slot, rested, free_for>>

-----------------------------------------------------------------------------
(* twist_mux and time *)

\* A lower input is passed when the override has not spoken for so long.
SlotFree == teleop_age > MuxTimeout

Ages ==
  /\ running => late < MaxLate
  /\ late' = IF running THEN late + 1 ELSE late
  /\ quiet' = IF running THEN Older(quiet, Dropout) ELSE quiet
  /\ tail' = IF tail > 0 THEN tail - 1 ELSE 0
  /\ teleop_age' = Older(teleop_age, MuxTimeout)
  /\ idle' = IF Meant(pad, trigger) THEN 0 ELSE Older(idle, Reach)
  /\ free_for' = IF engaged THEN 0 ELSE Older(free_for, TailTime + MuxTimeout)
  /\ UNCHANGED <<running, indices, joy, armed, engaged, hand, command, rested>>

\* joy_node repeats itself at 20 Hz; the executor is behind for MaxLate at most.
Elapse ==
  /\ Ages
  /\ reports # <<>> => behind < MaxLate
  /\ behind' = IF reports = <<>> THEN 0 ELSE behind + 1
  /\ Sends(CurrentReport)

Next ==
  \/ Tick \/ OnJoy \/ UnknownPad \/ Stops \/ Starts
  \/ Operator \/ Unplugged \/ Plugged \/ Elapse

Spec == Init /\ [][Next]_vars

\* The executor runs what is due, joy_node repeats, time passes.  Nobody need touch
\* the pad.
Fairness == WF_vars(Tick) /\ WF_vars(OnJoy \/ UnknownPad) /\ WF_vars(Elapse)

FairSpec == Spec /\ Fairness

-----------------------------------------------------------------------------
(* The dead man's handle: no command that moves leaves the node on a will  *)
(* of the operator, RB and one trigger, that is older than the staleness   *)
(* limit and the lateness of the executor together, whatever fell silent   *)
(* since: the fingers, the pad, joy_node or the executor; and an axis the  *)
(* driver never heard of moves nothing.                                    *)
OperatorMeansMotion == command = "moves" /\ teleop_age = 0 => idle <= Reach

(* "It holds the mux slot, so Nav2 cannot grab the vehicle back": while    *)
(* this process runs, nothing of lower priority can pass before the        *)
(* operator has let go for the whole tail, late ticks and a lost pad       *)
(* included.                                                               *)
NavKeptOff == running /\ SlotFree => free_for >= TailTime

(* To own the vehicle again after a dropout, the operator has to be seen   *)
(* releasing both triggers since: none of what was seen before counts.     *)
RearmNeedsRest == [][~engaged /\ engaged' => rested = Triggers]_vars

(* "Publish only on real operator input": an override that is not used     *)
(* yields the slot within the tail and the timeout of twist_mux, so        *)
(* navigation is not locked out by a node that repeats zeros.              *)
SlotReleased == free_for > TailTime + MuxTimeout => SlotFree

\* An operator who holds RB on a pad that works and has both triggers released.
Ready == /\ running /\ pad.plugged /\ pad.rb /\ indices = "fit"
         /\ \A t \in Triggers : t \in known /\ trigger[t] = "rest"

(* Such an operator gets the vehicle and keeps it, on an executor that is  *)
(* never late by the staleness limit.                                      *)
OperatorGetsVehicle == <>[]Ready => <>[]engaged

(* "RB HELD publish 20 Hz": an operator who has the vehicle and is ready   *)
(* does not lose it, however still the hand, unless the executor lets the  *)
(* reports wait for the whole staleness limit.                             *)
HeldKeepsVehicle ==
  [][engaged /\ joy.rb /\ Ready /\ running' => engaged' \/ behind >= JoyTimeout]_vars

-----------------------------------------------------------------------------
(* What makes these inductive.                                             *)

Current == running /\ quiet <= JoyTimeout

Told(report) == {t \in Triggers : report[t] # "unset"}

\* What the node holds of the pad: nothing armed outlives a silence, and nothing
\* is armed that the driver has not heard of.
PadInv ==
  /\ quiet > JoyTimeout + late => armed = {} /\ ~engaged
  /\ ~running => armed = {} /\ ~engaged
  /\ running /\ pad.plugged => armed \subseteq known
  /\ Current /\ pad.plugged => AtRest(joy) \subseteq known
  /\ Current => armed \subseteq Told(joy)
  /\ engaged => indices # "outside"

\* What waits on /joy: the driver does not forget an axis it has heard of.
QueueInv ==
  /\ ~running => reports = <<>>
  /\ \A i \in DOMAIN reports : armed \subseteq Told(reports[i])
  /\ Current => \A i \in DOMAIN reports : AtRest(joy) \subseteq Told(reports[i])
  /\ \A i, j \in DOMAIN reports : i < j => AtRest(reports[i]) \subseteq Told(reports[j])
  /\ pad.plugged => \A i \in DOMAIN reports : AtRest(reports[i]) \subseteq known

\* A pad that works is heard in each period, or its reports wait.
HeardInv ==
  running /\ pad.plugged /\ quiet <= Dropout
    => quiet <= IF reports = <<>> THEN 0 ELSE behind + 1

Moves(report) == report.rb /\ Motion(report) = "moves" /\ Told(report) = Triggers

\* How old the operator's will is when it moves something.
IdleInv ==
  /\ Meant(pad, trigger) => idle = 0
  /\ \A i \in DOMAIN reports : Moves(reports[i]) => idle <= behind
  /\ Current /\ Moves(joy) => idle <= quiet + MaxLate
  /\ OperatorMeansMotion

\* How the tail, the silence and the slot of twist_mux go together.
SlotInv ==
  /\ engaged => free_for = 0
  /\ ~engaged /\ tail > 0 => tail + free_for = TailTime
  /\ running /\ free_for < TailTime => (engaged \/ tail > 0) /\ teleop_age <= late
  /\ ~SlotFree => free_for <= TailTime + teleop_age

RestInv == running => armed \cup AtRest(joy) \subseteq rested

HeldInv == engaged => armed = Triggers

IInv == TypeOK /\ PadInv /\ QueueInv /\ HeardInv /\ IdleInv /\ SlotInv /\ RestInv /\ HeldInv
=================================================================================
