----------------------------- MODULE MapCleaning ------------------------------
(***************************************************************************)
(* clean_map_from_bag.py: every beam of a recording is walked over the map *)
(* cell by cell; an occupied cell that beams have passed often enough and  *)
(* hardly ever returned from is erased, and the map is written as a PGM,   *)
(* whose first row is the top.  Coordinates are in half cells.             *)
(***************************************************************************)
EXTENDS Integers, Sequences, SequencesExt

CONSTANTS MapWidth, MapHeight, \* info.width and info.height
          Grid,     \* what /map says of each cell: -1, 0..64 or 65..100
          Lidars,   \* where the lidar may be
          Returns,  \* where beams may end, inside the map or not
          MinSeen,  \* MIN_SEEN
          HitRatio, \* HIT_RATIO in percent
          MaxWalk,  \* no beam is walked further, 600 cells
          MaxBeams  \* bound

Columns == 0..MapWidth - 1
Rows    == 0..MapHeight - 1
Cells   == Columns \X Rows

ASSUME MapCleaningAssumption ==
  /\ {MapWidth, MapHeight, MinSeen} \subseteq Nat \ {0} /\ {HitRatio, MaxWalk, MaxBeams} \subseteq Nat
  /\ Grid \in [Cells -> -1..100]
  /\ Lidars \subseteq Int \X Int /\ Returns \subseteq Int \X Int

VARIABLES seen, hit, \* the two counters
          through,   \* history: beams that crossed each cell on their way
          beam,      \* the last beam: [from, to]
          beams,
          pgm        \* the file, once it is written

clean_vars == <<seen, hit, through, beam, beams, pgm>>

Occ == {k \in Cells : Grid[k] >= 65}

\* int(): towards zero, so what lies up to a cell outside the lower edges falls in.
CellOf(x) == IF x >= 0 THEN x \div 2 ELSE -((-x) \div 2)
Abs(x)  == IF x < 0 THEN -x ELSE x
Sign(x) == IF x > 0 THEN 1 ELSE -1

\* One step of the walk w from cell a towards cell b.
Step(w, a, b) ==
  LET dc == Abs(b[1] - a[1])    dr == Abs(b[2] - a[2])
      onC == 2 * w.err > -dr    onR == 2 * w.err < dc IN
  [at    |-> <<IF onC THEN w.at[1] + Sign(b[1] - a[1]) ELSE w.at[1],
               IF onR THEN w.at[2] + Sign(b[2] - a[2]) ELSE w.at[2]>>,
   err   |-> w.err - (IF onC THEN dr ELSE 0) + (IF onR THEN dc ELSE 0),
   cells |-> Append(w.cells, w.at)]

\* The cells walked over, in order; b is not among them.
Walk(a, b) ==
  LET walked[n \in 0..MaxWalk] ==
        IF n = 0
        THEN [at |-> a, err |-> Abs(b[1] - a[1]) - Abs(b[2] - a[2]), cells |-> <<>>]
        ELSE LET w == walked[n - 1] IN IF w.at = b THEN w ELSE Step(w, a, b)
  IN walked[MaxWalk].cells

\* Mutant: the end of the beam counts among what it passed.
Passed_End(a, b) == Append(Walk(a, b), b)
Passed(a, b) == Walk(a, b)

\* A cell is crossed by a beam if it lies between its ends, at most half a cell
\* from the line that joins them.
Between(x, u, v) == (u <= x /\ x <= v) \/ (v <= x /\ x <= u)
Crossed(k, a, b) ==
  /\ k # b /\ Between(k[1], a[1], b[1]) /\ Between(k[2], a[2], b[2])
  /\ LET off == Abs((b[1] - a[1]) * (k[2] - a[2]) - (b[2] - a[2]) * (k[1] - a[1]))
         dc  == Abs(b[1] - a[1])  dr == Abs(b[2] - a[2]) IN
     2 * off <= IF dc > dr THEN dc ELSE dr

Beam(from, to) ==
  LET a == <<CellOf(from[1]), CellOf(from[2])>>
      b == <<CellOf(to[1]), CellOf(to[2])>> IN
  /\ pgm = <<>> /\ UNCHANGED pgm
  /\ beams < MaxBeams /\ beams' = beams + 1
  /\ seen' = [k \in Cells |-> IF k \in Occ /\ k \in ToSet(Passed(a, b)) THEN seen[k] + 1 ELSE seen[k]]
  /\ hit'  = [k \in Cells |-> IF k \in Occ /\ k = b THEN hit[k] + 1 ELSE hit[k]]
  /\ through' = [k \in Cells |-> IF Crossed(k, a, b) THEN through[k] + 1 ELSE through[k]]
  /\ beam' = [from |-> a, to |-> b]

CleanInit ==
  /\ seen = [k \in Cells |-> 0] /\ hit = [k \in Cells |-> 0]
  /\ through = [k \in Cells |-> 0] /\ beam = [from |-> <<0, 0>>, to |-> <<0, 0>>] /\ beams = 0
  /\ pgm = <<>>

Stale == {k \in Occ : seen[k] >= MinSeen /\ 100 * hit[k] <= HitRatio * seen[k]}

\* The file: row 0 is the top.
FileRow(r) == MapHeight - 1 - r

Value(k) == IF k \in Stale THEN 254
            ELSE IF Grid[k] >= 65 THEN 0
            ELSE IF Grid[k] < 0 THEN 205 ELSE 254
Write ==
  /\ pgm = <<>>
  /\ pgm' = [p \in Rows \X Columns |->
               LET r == CHOOSE r \in Rows : FileRow(r) = p[1] IN Value(<<p[2], r>>)]
  /\ UNCHANGED <<seen, hit, through, beam, beams>>

CleanNext == Write \/ \E from \in Lidars, to \in Returns : Beam(from, to)
CleanSpec == CleanInit /\ [][CleanNext]_clean_vars

\* map_server in trinary mode with the thresholds of the yaml (external): the
\* bottom row of the file is row 0 of the map.
Loaded(k) ==
  LET occ == 1000 * (255 - pgm[<<MapHeight - 1 - k[2], k[1]>>]) IN
  IF occ > 650 * 255 THEN 100 ELSE IF occ < 196 * 255 THEN 0 ELSE -1

-----------------------------------------------------------------------------
(* Properties *)

\* The walk is the line: one cell for each step along its longer side, each of
\* them crossed, whichever way the beam points.
WalkIsLine ==
  LET dc == Abs(beam.to[1] - beam.from[1])  dr == Abs(beam.to[2] - beam.from[2])
      w  == Walk(beam.from, beam.to) IN
  /\ Len(w) = IF dc > dr THEN dc ELSE dr
  /\ \A i \in DOMAIN w : Crossed(w[i], beam.from, beam.to)

\* "Erasing a real wall is a safety defect": what the new map has lost was crossed
\* by MinSeen beams that went on to another cell, and nothing else differs.
OnlySeenThroughErased ==
  pgm # <<>> => \A k \in Cells :
    Loaded(k) # (IF Grid[k] >= 65 THEN 100 ELSE IF Grid[k] < 0 THEN -1 ELSE 0)
      => k \in Occ /\ Loaded(k) = 0 /\ through[k] >= MinSeen

\* The walk decides what is erased, and only what it went through is.
ErasesNoWall == WalkIsLine /\ OnlySeenThroughErased
=============================================================================
