----------------------------- MODULE ArenaRaster ------------------------------
(***************************************************************************)
(* make_arena.py: the map of the simulated arena, drawn from the list of   *)
(* obstacles the world file is written from.  Lengths are in half steps of *)
(* the sampling, so a pixel is 2 * SubSample wide.                         *)
(***************************************************************************)
EXTENDS Integers, FiniteSets

CONSTANTS SubSample,    \* SUBSAMPLE, samples per pixel and axis
          HalfX, HalfY, \* the free space inside
          WallT,        \* thickness of the walls
          Margin,       \* around them
          Corners,      \* coordinates of interior obstacles
          MaxObstacles  \* bound: interior obstacles

ASSUME ArenaAssumption ==
  /\ {SubSample, HalfX, HalfY, WallT, Margin} \subseteq Nat \ {0}
  /\ Corners \subseteq Int /\ MaxObstacles \in Nat

VARIABLES obstacles, \* OBSTACLES, those in the interior
          px         \* the map, once it has been written for them

arena_vars == <<obstacles, px>>

Res     == 2 * SubSample
WIDTH   == (2 * (HalfX + Margin)) \div Res
HEIGHT  == (2 * (HalfY + Margin)) \div Res
Pixels  == (0..HEIGHT - 1) \X (0..WIDTH - 1)

\* An obstacle by the rectangle around it, in the plane of the map.
Box(x1, y1, x2, y2) == [kind |-> "box", x1 |-> x1, y1 |-> y1, x2 |-> x2, y2 |-> y2]
Cyl(x, y, r)        == [kind |-> "cyl", x1 |-> x - r, y1 |-> y - r, x2 |-> x + r, y2 |-> y + r]

Perimeter ==
  LET ox == HalfX + WallT   oy == HalfY + WallT IN
  {Box(-ox, HalfY, ox, oy), Box(-ox, -oy, ox, -HalfY),
   Box(HalfX, -oy, ox, oy), Box(-ox, -oy, -HalfX, oy)}
World == Perimeter \cup obstacles

\* write_map.  Samples of a pixel, from its centre; the last of three is on its edge.
\* Mutant: the centre alone.
Off_Centre == {0}
Off == IF SubSample > 1 THEN {2 * k - 1 : k \in 0..SubSample - 1} ELSE {0}

CentreX(c) == -(HalfX + Margin) + c * Res + SubSample
CentreY(r) == -(HalfY + Margin) + (HEIGHT - 1 - r) * Res + SubSample

\* For the cylinder in terms of its diameter.
Square(i) == i * i
Inside(b, x, y) ==
  IF b.kind = "box" THEN b.x1 <= x /\ x <= b.x2 /\ b.y1 <= y /\ y <= b.y2
  ELSE Square(2 * x - (b.x1 + b.x2)) + Square(2 * y - (b.y1 + b.y2)) <= Square(b.x2 - b.x1)
Sampled(p) == \E b \in World, dx, dy \in Off : Inside(b, CentreX(p[2]) + dx, CentreY(p[1]) + dy)

Interior(p) ==
  LET x == CentreX(p[2])  y == CentreY(p[1])  ox == HalfX + WallT  oy == HalfY + WallT IN
  -ox < x /\ x < ox /\ -oy < y /\ y < oy

Pixel(p) == IF Sampled(p) THEN "OCC" ELSE IF Interior(p) THEN "FREE" ELSE "UNKNOWN"

WriteMap == px = <<>> /\ px' = [p \in Pixels |-> Pixel(p)] /\ UNCHANGED obstacles

\* An edit of the list; the map is written anew after it.
Edit(b) ==
  /\ Cardinality(obstacles) < MaxObstacles
  /\ obstacles' = obstacles \cup {b} /\ px' = <<>>

ArenaInit == obstacles = {} /\ px = <<>>
ArenaNext ==
  \/ WriteMap
  \/ \E x1, y1, x2, y2 \in Corners : x1 < x2 /\ y1 < y2 /\ Edit(Box(x1, y1, x2, y2))
  \/ \E x, y \in Corners, r \in 1..HalfX :
       {x - r, x + r, y - r, y + r} \subseteq Corners /\ Edit(Cyl(x, y, r))
ArenaSpec == ArenaInit /\ [][ArenaNext]_arena_vars

-----------------------------------------------------------------------------
(* Properties *)

\* Where map_server puts a pixel (external): the bottom row is the first.
Edge(p) ==
  LET x == p[2] * Res - (HalfX + Margin)   y == (HEIGHT - 1 - p[1]) * Res - (HalfY + Margin) IN
  Box(x, y, x + Res, y + Res)

\* The two have a point in common: where both have integer coordinates, an integer one.
Meet(e, b) == \E x \in e.x1..e.x2, y \in e.y1..e.y2 : Inside(b, x, y)

\* And more than a point or an edge.
Overlap(e, b) ==
  IF b.kind = "box" THEN e.x1 < b.x2 /\ b.x1 < e.x2 /\ e.y1 < b.y2 /\ b.y1 < e.y2
  ELSE \E x \in e.x1..e.x2, y \in e.y1..e.y2 :
         Square(2 * x - (b.x1 + b.x2)) + Square(2 * y - (b.y1 + b.y2)) < Square(b.x2 - b.x1)

\* As wide as one step of the sampling, a cylinder as two.
Wide(b) == LET w == IF b.kind = "box" THEN 2 ELSE 4 IN b.x2 - b.x1 >= w /\ b.y2 - b.y1 >= w

\* "The world and the map move together": an obstacle that is wide enough is on the
\* map, and what is on the map touches an obstacle there.
WorldAndMapAgree ==
  px # <<>> =>
  LET occ == {p \in Pixels : px[p] = "OCC"} IN
  /\ \A b \in World : Wide(b) => \E p \in occ : Meet(Edge(p), b)
  /\ \A p \in occ : \E b \in World : Meet(Edge(p), b)

\* The planner cannot leave: no free pixel is next to an unknown one.
WallsAreClosed ==
  px # <<>> =>
  \A p \in Pixels : px[p] = "FREE" =>
    \A dr, dc \in -1..1 :
      LET q == <<p[1] + dr, p[2] + dc>> IN q \in Pixels => px[q] # "UNKNOWN"

\* make_arena.py:264, "it matches that world exactly": what is on the map has its
\* place in the world, not only the edge it shares with an obstacle.
OccupiedIsObstacle ==
  px # <<>> => \A p \in Pixels : px[p] = "OCC" => \E b \in World : Overlap(Edge(p), b)

\* The map is that of the world, and it is closed.
MapIsTheWorld == WorldAndMapAgree /\ WallsAreClosed
=============================================================================
