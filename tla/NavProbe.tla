------------------------------- MODULE NavProbe -------------------------------
(***************************************************************************)
(* nav_probe.py against nav2 in the simulation: for each goal the vehicle  *)
(* is put back to the start, the goal is sent, and what happens until it   *)
(* ends or time is up is recorded.  Goals are known by their number.  A    *)
(* wait with a timeout may end at any time.                                *)
(***************************************************************************)
EXTENDS Integers, Sequences, SequencesExt

CONSTANT MaxLegs \* goals on the command line

ASSUME ProbeAssumption == MaxLegs \in Nat \ {0}

VARIABLES
  phase,    \* "reset", "send", "accept", "watch" or "done"
  leg,      \* the goal it is at
  place,    \* reset_state, or else where nav2 has driven since
  goal,     \* nav2: the goal it drives to, 0 for none
  asked,    \* a goal on its way to nav2, 0 for none
  answer,   \* of the goal under way: "none", "accepted", "rejected" and its end
  held,     \* self.plan: the goal it leads to, 0 for []
  samples,  \* self.samples: for each the leg it was taken in
  plans,    \* plan_snapshots: the goals they lead to
  steer,    \* self.steer and the commands: the goals driven to as they came in
  results   \* [outcome, samples, plans, steer] of each leg

probe_vars == <<phase, leg, place, goal, asked, answer, held, samples, plans, steer, results>>
nav2 == <<place, goal, asked>>

Legs == 1..MaxLegs

\* reset: each call is given up after its timeout, and nothing is cancelled.
Reset ==
  /\ phase = "reset" /\ phase' = "send"
  /\ place' \in {"start", place}
  /\ UNCHANGED <<leg, goal, asked, answer, held, samples, plans, steer, results>>

\* run_goal clears what it will record, but not the plan it was last told.
\* Mutant: and not the samples.
Cleared_Not == samples
Cleared == {}

SendGoal ==
  /\ phase = "send" /\ phase' = "accept"
  /\ samples' = Cleared /\ plans' = {} /\ steer' = {}
  /\ asked' = leg /\ answer' = "none"
  /\ UNCHANGED <<leg, place, goal, held, results>>

\* A refusal is all that is said of a leg that was refused.
NextLeg(outcome) ==
  /\ results' = Append(results,
       [outcome |-> outcome, samples |-> samples, plans |-> plans,
        steer |-> IF outcome = "REJECTED" THEN {} ELSE steer])
  /\ leg' = leg + 1 /\ phase' = IF leg = MaxLegs THEN "done" ELSE "reset"

\* spin_until_future_complete, 15 s: no answer is read as a refusal.
Accepted ==
  /\ phase = "accept"
  /\ IF answer = "accepted" THEN phase' = "watch" /\ UNCHANGED <<leg, results>>
     ELSE NextLeg("REJECTED")
  /\ UNCHANGED <<nav2, answer, held, samples, plans, steer>>

\* One turn of the loop: a sample, and the plan if it is a new one.
Sample ==
  /\ phase = "watch" /\ answer = "accepted"
  /\ samples' = samples \cup {leg}
  /\ plans' = IF held # 0 THEN plans \cup {held} ELSE plans
  /\ UNCHANGED <<phase, leg, nav2, answer, held, steer, results>>

Finish ==
  /\ phase = "watch"
  /\ NextLeg(IF answer = "accepted" THEN "TIMEOUT" ELSE answer)
  /\ UNCHANGED <<nav2, answer, held, samples, plans, steer>>

-----------------------------------------------------------------------------
(* nav2: a new goal takes the place of the one under way. *)

Answers(a) == answer' = IF leg \in {asked, goal} /\ phase \in {"accept", "watch"} THEN a ELSE answer

Accept ==
  /\ asked # 0 /\ goal' = asked /\ asked' = 0 /\ Answers("accepted")
  /\ UNCHANGED <<phase, leg, place, held, samples, plans, steer, results>>

Refuse ==
  /\ asked # 0 /\ asked' = 0 /\ answer' = IF asked = leg THEN "rejected" ELSE answer
  /\ UNCHANGED <<phase, leg, place, goal, held, samples, plans, steer, results>>

Plan ==
  /\ goal # 0 /\ held' = goal
  /\ UNCHANGED <<phase, leg, nav2, answer, samples, plans, steer, results>>

\* The probe hears of the wheels and of the commands whenever it waits.
Drive ==
  /\ goal # 0 /\ place' = "away"
  /\ steer' = IF phase = "done" THEN steer ELSE steer \cup {goal}
  /\ UNCHANGED <<phase, leg, goal, asked, answer, held, samples, plans, results>>

End ==
  /\ goal # 0 /\ goal' = 0
  /\ \E a \in {"SUCCEEDED", "CANCELED", "ABORTED"} : answer' = IF goal = leg /\ answer = "accepted" THEN a ELSE answer
  /\ UNCHANGED <<phase, leg, place, asked, held, samples, plans, steer, results>>

Probe == Reset \/ SendGoal \/ Accepted \/ Sample \/ Finish
ProbeInit ==
  /\ phase = "reset" /\ leg = 1 /\ place = "start" /\ goal = 0 /\ asked = 0 /\ answer = "none"
  /\ held = 0 /\ samples = {} /\ plans = {} /\ steer = {} /\ results = <<>>
ProbeNext == Probe \/ Accept \/ Refuse \/ Plan \/ Drive \/ End
ProbeSpec == ProbeInit /\ [][ProbeNext]_probe_vars
ProbeFair == ProbeSpec /\ WF_probe_vars(Reset \/ SendGoal \/ Accepted \/ Finish)

-----------------------------------------------------------------------------
(* Properties *)

\* The positions reported for a goal were sampled on the way to it.
SamplesAreOwn == \A k \in DOMAIN results : results[k].samples \subseteq {k}

\* nav_probe.py:23-24, "Runs are therefore independent - a run does not inherit
\* the previous run's ending pose or its accumulated obstacle marks".
RunsAreIndependent ==
  /\ \A k \in DOMAIN results : results[k].plans \cup results[k].steer \subseteq {k}
  /\ phase = "accept" => goal \in {0, leg}

\* The probe gets through its goals, whatever nav2 does, and then each position it
\* has reported for a goal was sampled on the way to it.
ProbeReportsAll == <>[](phase = "done" /\ SamplesAreOwn)
=============================================================================
