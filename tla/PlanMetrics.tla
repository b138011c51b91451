----------------------------- MODULE PlanMetrics ------------------------------
(***************************************************************************)
(* nav_probe.py, split_at_cusps and path_metrics: a plan is cut where it   *)
(* doubles back, and the changes of the sign of its curvature are counted  *)
(* within the pieces.  The plans grow point by point, on a small grid.     *)
(***************************************************************************)
EXTENDS Integers, Sequences, FiniteSets, SequencesExt

CONSTANTS Xs, Ys, \* coordinates of the points
          MaxPoints      \* bound

ASSUME PlanAssumption == Xs \subseteq Int /\ Ys \subseteq Int /\ MaxPoints \in Nat

VARIABLE pts

-----------------------------------------------------------------------------
Dot(p, i)   == (p[i][1] - p[i-1][1]) * (p[i+1][1] - p[i][1])
               + (p[i][2] - p[i-1][2]) * (p[i+1][2] - p[i][2])
Cross(p, i) == (p[i][1] - p[i-1][1]) * (p[i+1][2] - p[i][2])
               - (p[i][2] - p[i-1][2]) * (p[i+1][1] - p[i][1])
Inner(p)    == 2..Len(p) - 1

Cusps(p) == {i \in Inner(p) : Dot(p, i) < 0}

\* The loop: cur is the run under way; a cusp ends it and begins the next.
\* Mutant: the next run begins after the cusp.
Cut_After(p, s, i) ==
  IF i \in Cusps(p) THEN [runs |-> Append(s.runs, Append(s.cur, p[i])), cur |-> <<>>]
  ELSE [s EXCEPT !.cur = Append(@, p[i])]
Cut(p, s, i) ==
  IF i \in Cusps(p) THEN [runs |-> Append(s.runs, Append(s.cur, p[i])), cur |-> <<p[i]>>]
  ELSE [s EXCEPT !.cur = Append(@, p[i])]

Pieces(p) ==
  LET cut[n \in 0..Len(p) - 1] ==
        IF n <= 1 THEN [runs |-> <<>>, cur |-> <<p[1]>>] ELSE Cut(p, cut[n - 1], n)
      s == cut[Len(p) - 1]
  IN IF p = <<>> THEN <<>> ELSE Append(s.runs, Append(s.cur, p[Len(p)]))

\* split_at_cusps: a run of two points has no curvature and is dropped.
SplitAtCusps(p) == {k \in DOMAIN Pieces(p) : Len(Pieces(p)[k]) >= 3}

\* path_metrics.  Only triples that are not straight have a sign, and it changes from
\* one of them to the next.
Turns(r) == {i \in Inner(r) : Cross(r, i) # 0}
Reversals(r) ==
  {t \in Turns(r) \X Turns(r) :
     /\ t[1] < t[2] /\ \A h \in Turns(r) : h <= t[1] \/ t[2] <= h
     /\ (Cross(r, t[1]) > 0) # (Cross(r, t[2]) > 0)}

Metrics(p) ==
  LET runs == SplitAtCusps(p) IN
  [reversals |-> Cardinality(UNION {{k} \X Reversals(Pieces(p)[k]) : k \in runs}),
   cusps     |-> IF runs = {} THEN 0 ELSE Cardinality(runs) - 1]

PlanInit == pts = <<>>
PlanNext == /\ Len(pts) < MaxPoints
            /\ \E x \in Xs, y \in Ys : pts' = Append(pts, <<x, y>>)
PlanSpec == PlanInit /\ [][PlanNext]_pts

-----------------------------------------------------------------------------
(* Properties *)

\* ps are the pieces of p, each beginning where the one before ended, at[k].
CutAt(p, ps, at) ==
  /\ at[1] = 1 /\ at[Len(ps) + 1] = Len(p)
  /\ \A k \in DOMAIN ps : at[k] < at[k + 1] /\ ps[k] = SubSeq(p, at[k], at[k + 1])
  /\ {at[k] : k \in 2..Len(ps)} = Cusps(p)

\* "Curvature is then measured only WITHIN each run": no run doubles back, and the
\* runs are the whole plan, cut where it does and nowhere else.
PiecesPartitionPlan ==
  Len(pts) >= 2 =>
    LET ps == Pieces(pts) IN
    /\ \A k \in DOMAIN ps : Cusps(ps[k]) = {}
    /\ \E at \in [1..Len(ps) + 1 -> 1..Len(pts)] : CutAt(pts, ps, at)

\* A plan driven from its end to its start measures the same.
SameBothWays == Metrics(Reverse(pts)) = Metrics(pts)

\* nav_probe.py:118-119, "Cusps themselves are reported separately, as a count,
\* because a plan full of inversions is its own finding".
CuspsReported == Len(pts) >= 3 => Metrics(pts).cusps = Cardinality(Cusps(pts))

\* The cut and what is counted after it.
PlanIsMeasured == PiecesPartitionPlan /\ SameBothWays
=============================================================================
