--------------------------- MODULE MCNavGenerator ---------------------------
(* A hall of 21 x 11 cells and what may stand in it, heights in half cells. *)
EXTENDS NavGenerator

MCTriangles == {"floor", "gate", "pillar", "ledge", "ramp", "bridge"}

Block(x0, x1, z0, z1) == (x0..x1) \X (z0..z1)
Slab(cells, lo, hi) == [c \in cells |-> [lo |-> lo, hi |-> hi]]
RampTop == <<6, 6, 8, 10, 12>>

MCClip ==
  [t \in MCTriangles |->
    CASE t = "floor"  -> Slab(Block(0, 20, 0, 10), 2, 2)
      [] t = "gate"   -> [c \in Block(10, 10, 0, 10) |->
                            [lo |-> IF c[2] \in 4..6 THEN 12 ELSE 0, hi |-> 30]]
      [] t = "pillar" -> Slab(Block(5, 5, 5, 5), 0, 30)
      [] t = "ledge"  -> Slab(Block(0, 4, 0, 6) \cup Block(16, 20, 0, 4), 8, 8)
      [] t = "ramp"   -> [c \in Block(11, 15, 6, 10) |-> [lo |-> 0, hi |-> RampTop[c[1] - 10]]]
      [] t = "bridge" -> Slab(Block(16, 20, 0, 10), 13, 14)]

\* The floor with any of the rest, and two maps without one: no ground at all,
\* and ground too narrow for a region.
MCMaps ==
  {{"floor"} \cup walls \cup way : walls \in SUBSET {"gate", "pillar", "ledge"},
                                   way \in {{}, {"ramp", "bridge"}}}
  \cup {{"pillar"}, {"bridge"}}

MCMaxErrorSquared == [num |-> 169, den |-> 100]  \* 1.3f squared
=============================================================================
