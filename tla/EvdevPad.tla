------------------------------- MODULE EvdevPad -------------------------------
(***************************************************************************)
(* xbox_override.py --input evdev: the same node and the same tick, but a  *)
(* thread reads /dev/input/eventN and writes the reports itself.  The      *)
(* kernel tells of changes only, so a steady pad is a silent one; the      *)
(* device is opened once; and the thread writes st["joy"] and st["joy_t"]  *)
(* in two steps, between which the tick may run, or which may both fall    *)
(* between the tick's own two reads.  Nothing waits on /joy.               *)
(***************************************************************************)
EXTENDS XboxOverride

CONSTANT MaxEvents \* bound: events the kernel holds

VARIABLES axes,   \* axes and btns of the thread
          events, \* what changed and has not been read
          device  \* the open file still leads to a pad

ev_vars == <<vars, axes, events, device>>
ev_own  == <<axes, events, device>>

\* Before the first event of an axis the thread takes a trigger to be at rest.
Seeded == [rb |-> FALSE, rt |-> "rest", lt |-> "rest"]

EvInit == Init /\ axes = Seeded /\ events = <<>> /\ device = FALSE

\* The pad map is the USB one without having seen the pad, and it fits axes and btns.
EvStarts ==
  /\ ~running /\ pad.plugged
  /\ running' = TRUE /\ joy' = NoJoy /\ armed' = {} /\ engaged' = FALSE
  /\ indices' = "fit" /\ tail' = 0 /\ late' = 0 /\ quiet' = 0 /\ UNCHANGED queue
  /\ rested' = {} /\ free_for' = TailTime
  /\ axes' = Seeded /\ events' = <<>> /\ device' = TRUE
  /\ UNCHANGED <<hand, slot, idle>>

Heard(e) == e.what \in Triggers /\ e.value = "rest"

\* pump reads an event; what it has read so far is the new report.
Read ==
  /\ running /\ device /\ events # <<>>
  /\ LET e == Head(events) IN
       /\ axes' = [axes EXCEPT ![e.what] = e.value] /\ events' = Tail(events)
       /\ rested' = (IF Heard(e) THEN {e.what} ELSE {})
                    \cup (IF quiet > Dropout THEN {} ELSE rested)
  /\ joy' = axes' /\ quiet' = 0
  /\ UNCHANGED <<running, indices, queue, hand, idle, device>>

Pump == Read /\ UNCHANGED <<armed, engaged, tail, late, slot, free_for>>

\* Both writes fall between the tick's reads of the report and of its time: it
\* takes the old report for a new one.  A tick between the two writes finds the
\* old time, and does what a tick before both would do.
TickAround ==
  /\ late > 0 /\ joy # NoJoy
  /\ Read /\ Operate
  /\ late' = 0 /\ free_for' = IF engaged' THEN 0 ELSE free_for

EvTick == Tick /\ UNCHANGED ev_own

Changed(what, value) ==
  events' = IF running /\ device THEN Append(events, [what |-> what, value |-> value]) ELSE events

EvOperator ==
  /\ Len(events) < MaxEvents
  /\ Fingers /\ UNCHANGED <<reports, axes, device>>
  /\ \/ pad' # pad /\ Changed("rb", pad'.rb)
     \/ \E t \in Triggers : trigger'[t] # trigger[t] /\ Changed(t, trigger'[t])

\* Nobody opens the device again.
EvUnplugged == Unplugged /\ device' = FALSE /\ UNCHANGED <<axes, events>>
EvPlugged   == Plugged /\ UNCHANGED ev_own
EvStops     == Stops /\ axes' = Seeded /\ events' = <<>> /\ device' = FALSE

\* What has changed is read before the next period; nothing repeats itself.
EvElapse == Ages /\ (running /\ device => events = <<>>) /\ UNCHANGED <<queue, ev_own>>

EvNext ==
  \/ Pump \/ TickAround \/ EvTick \/ EvStarts \/ EvStops
  \/ EvOperator \/ EvUnplugged \/ EvPlugged \/ EvElapse

EvSpec == EvInit /\ [][EvNext]_ev_vars

-----------------------------------------------------------------------------
(* NavKeptOff and SlotReleased of XboxOverride hold here too: the tail and *)
(* the silence are the same.                                               *)

\* HeldKeepsVehicle does not, for all that xbox_override.py:198 says: "Same
\* deadman, same caps, same arming, same topic."

\* xbox_override.py:58, "no trigger contributes anything until it has been SEEN
\* at rest": who engages has had both triggers reported at rest since a dropout.
EvdevSeesRest == [][~engaged /\ engaged' => rested' = Triggers]_ev_vars
=============================================================================
