-------------------------- MODULE NavigationProofs --------------------------
(***************************************************************************)
(* Proofs about the navigation mesh, at its two ends: the columns and open *)
(* spaces it is built from (Heightfield), for every grid, map and agent,   *)
(* and the search that finds paths on it (PathSearch), for every tile,     *)
(* number of nodes and buffer.                                             *)
(*                                                                         *)
(* Heightfield: a new span and the spans it touches become their hull      *)
(* (MergedIsHull), so that a column stays in order and is solid where the  *)
(* triangles so far are (Built); the filters mark spans and move none, and *)
(* what they look at does not depend on the marks (SameShape).             *)
(* Open spaces of a column in order do not touch, and an agent that climbs *)
(* less than it is tall can step into one of them at most (OnePassable).   *)
(*                                                                         *)
(* PathSearch: the loops of the heap, which are recursive functions, have  *)
(* a value at every place because they go to a place of lower rank         *)
(* (Recursion); one of the two keeps the heap in order with a gap that     *)
(* moves up, the other with one that moves down (UpOrders, DownKeeps).     *)
(* The loop over the links adds or improves one node at a time (LoopInv),  *)
(* so that the heap, the pool and the costs agree after every turn         *)
(* (SearchInv), and each turn is a step of BestFirstSearch                 *)
(* (SearchRefinement).                                                     *)
(*                                                                         *)
(* BestFirstSearch: the found polygons are a tree whose costs do not fall  *)
(* on the way from a parent to its child (Rooted), so that a polygon that  *)
(* is found again at a lower cost is never an ancestor of the one it is    *)
(* found through (NoCycleStep).                                            *)
(*                                                                         *)
(* The corridor: parents that make no cycle are of lower rank than their   *)
(* children (RankExists), so that the path to a node is defined and, by    *)
(* the least bad node, a walk over links without repetition (TrailsAre).   *)
(***************************************************************************)
EXTENDS Heightfield, PathSearch, FiniteSetTheorems, SequenceTheorems, WellFoundedInduction, TLAPS

-----------------------------------------------------------------------------
(* Columns                                                                 *)

Spans == [smin : Nat, smax : Nat, area : {RC_NULL_AREA, RC_WALKABLE_AREA}]

Apart(s, r) == s.smax < r.smin \/ r.smax < s.smin
Column(column) ==
  /\ column \subseteq Spans
  /\ \A s \in column : s.smin < s.smax
  /\ \A s, r \in column : s = r \/ Apart(s, r)

\* Height v, in half cells, is solid in span s.
In(s, v) == 2 * s.smin <= v /\ v <= 2 * s.smax
Solid(spans, v) == \E s \in spans : In(s, v)

\* Of a column in order only one span reaches from below into the new one, and only one out of
\* it further up: the merged span is the hull of the new one and all it touches.
LEMMA MergedIsHull ==
  ASSUME NEW column, Column(column), NEW new \in Spans, new.smin < new.smax
  PROVE  LET m == Merged(column, new) IN
         /\ m \in Spans /\ m.smin < m.smax
         /\ m.smin <= new.smin /\ new.smax <= m.smax
         /\ \A s \in Overlapping(column, new) : m.smin <= s.smin /\ s.smax <= m.smax
         /\ m.smin = new.smin \/ \E s \in Overlapping(column, new) : s.smin = m.smin
         /\ m.smax = new.smax \/ \E s \in Overlapping(column, new) : s.smax = m.smax
<1> DEFINE touching == Overlapping(column, new)
           below == {s \in touching : s.smin < new.smin}
           above == {s \in touching : s.smax > new.smax}
           level == {s \in touching : Higher(s.smax, new.smax) - s.smax <= WalkableClimb}
           lo == IF below = {} THEN new.smin ELSE (CHOOSE s \in below : TRUE).smin
           hi == IF above = {} THEN new.smax ELSE (CHOOSE s \in above : TRUE).smax
           ar == IF \E s \in level : s.area > new.area THEN RC_WALKABLE_AREA ELSE new.area
           m == Merged(column, new)
<1>1. m = [smin |-> lo, smax |-> hi, area |-> ar]
  BY DEF Merged
<1>2. /\ touching \subseteq column
      /\ \A s \in touching : s.smin <= new.smax /\ new.smin <= s.smax
      /\ \A s \in touching : s \in Spans /\ s.smin < s.smax
  BY DEF Overlapping, Column, Spans
<1>3. new.smin \in Nat /\ new.smax \in Nat /\ \A s \in touching : s.smin \in Nat /\ s.smax \in Nat
  BY <1>2 DEF Spans
<1>4. \A s, r \in touching : s = r \/ s.smax < r.smin \/ r.smax < s.smin
  BY <1>2 DEF Column, Apart
<1> HIDE DEF touching
<1>5. \A s \in below : below = {s}
  BY <1>2, <1>3, <1>4
<1>6. \A s \in above : above = {s}
  BY <1>2, <1>3, <1>4
<1>7. below # {} => \E s \in below : lo = s.smin
  OBVIOUS
<1>8. above # {} => \E s \in above : hi = s.smax
  OBVIOUS
<1>9. /\ lo \in Nat /\ lo <= new.smin
      /\ \A s \in touching : lo <= s.smin
      /\ lo = new.smin \/ \E s \in touching : s.smin = lo
  <2>1. CASE below = {}
    <3>1. lo = new.smin
      BY <2>1
    <3> HIDE DEF lo
    <3>2. \A s \in touching : new.smin <= s.smin
      BY <1>3, <2>1
    <3> QED
      BY <1>3, <3>1, <3>2
  <2>2. CASE below # {}
    <3>1. PICK b \in below : lo = b.smin
      BY <1>7, <2>2
    <3> HIDE DEF lo
    <3>2. \A s \in touching : s = b \/ new.smin <= s.smin
      BY <1>3, <1>5
    <3> QED
      BY <1>3, <3>1, <3>2
  <2> QED
    BY <2>1, <2>2
<1>10. /\ hi \in Nat /\ new.smax <= hi
       /\ \A s \in touching : s.smax <= hi
       /\ hi = new.smax \/ \E s \in touching : s.smax = hi
  <2>1. CASE above = {}
    <3>1. hi = new.smax
      BY <2>1
    <3> HIDE DEF hi
    <3>2. \A s \in touching : s.smax <= new.smax
      BY <1>3, <2>1
    <3> QED
      BY <1>3, <3>1, <3>2
  <2>2. CASE above # {}
    <3>1. PICK b \in above : hi = b.smax
      BY <1>8, <2>2
    <3> HIDE DEF hi
    <3>2. \A s \in touching : s = b \/ s.smax <= new.smax
      BY <1>3, <1>6
    <3> QED
      BY <1>3, <3>1, <3>2
  <2> QED
    BY <2>1, <2>2
<1>11. ar \in {RC_NULL_AREA, RC_WALKABLE_AREA}
  BY DEF Spans
<1> HIDE DEF lo, hi, ar
<1>12. m \in Spans /\ m.smin = lo /\ m.smax = hi
  BY <1>1, <1>9, <1>10, <1>11 DEF Spans
<1> HIDE DEF m
<1>13. /\ m.smin < m.smax /\ m.smin <= new.smin /\ new.smax <= m.smax
       /\ \A s \in touching : m.smin <= s.smin /\ s.smax <= m.smax
       /\ m.smin = new.smin \/ \E s \in touching : s.smin = m.smin
       /\ m.smax = new.smax \/ \E s \in touching : s.smax = m.smax
  BY <1>3, <1>9, <1>10, <1>12
<1> QED
  BY <1>12, <1>13 DEF m, touching

\* addSpan leaves a column in order that is solid where it was and where the new span is, and
\* nowhere else.
LEMMA AddSpanAdds ==
  ASSUME NEW column, Column(column), NEW new \in Spans, new.smin < new.smax
  PROVE  /\ Column(AddSpan(column, new))
         /\ \A v \in Int : Solid(AddSpan(column, new), v) <=> Solid(column, v) \/ In(new, v)
<1> DEFINE touching == Overlapping(column, new)
           kept == column \ touching
           m == Merged(column, new)
           added == AddSpan(column, new)
<1>1. added = kept \cup {m}
  BY DEF AddSpan
<1>2. /\ touching \subseteq column
      /\ \A s \in touching : s.smin <= new.smax /\ new.smin <= s.smax
      /\ \A s \in kept : new.smax < s.smin \/ s.smax < new.smin
  BY DEF Overlapping, Column, Spans
<1>3. /\ m \in Spans /\ m.smin < m.smax
      /\ m.smin <= new.smin /\ new.smax <= m.smax
      /\ \A s \in touching : m.smin <= s.smin /\ s.smax <= m.smax
      /\ m.smin = new.smin \/ \E s \in touching : s.smin = m.smin
      /\ m.smax = new.smax \/ \E s \in touching : s.smax = m.smax
  BY MergedIsHull
<1> HIDE DEF touching, m, added
<1>4. /\ \A s \in column : s.smin \in Int /\ s.smax \in Int /\ s.smin < s.smax
      /\ new.smin \in Int /\ new.smax \in Int /\ m.smin \in Int /\ m.smax \in Int
  BY <1>3 DEF Column, Spans
<1>5. \A s \in kept : \A r \in touching : s.smax < r.smin \/ r.smax < s.smin
  BY <1>2 DEF Column, Apart
<1>6. \A s \in kept : m.smax < s.smin \/ s.smax < m.smin
  <2> SUFFICES ASSUME NEW s \in kept PROVE m.smax < s.smin \/ s.smax < m.smin
    OBVIOUS
  <2>1. CASE new.smax < s.smin
    <3>1. CASE m.smax = new.smax
      BY <2>1, <3>1
    <3>2. ASSUME NEW r \in touching, r.smax = m.smax PROVE m.smax < s.smin
      BY <1>2, <1>4, <1>5, <2>1, <3>2
    <3> QED
      BY <1>3, <3>1, <3>2
  <2>2. CASE s.smax < new.smin
    <3>1. CASE m.smin = new.smin
      BY <2>2, <3>1
    <3>2. ASSUME NEW r \in touching, r.smin = m.smin PROVE s.smax < m.smin
      BY <1>2, <1>4, <1>5, <2>2, <3>2
    <3> QED
      BY <1>3, <3>1, <3>2
  <2> QED
    BY <1>2, <2>1, <2>2
<1>7. Column(added)
  <2>1. added \subseteq Spans /\ \A s \in added : s.smin < s.smax
    BY <1>1, <1>3, <1>4 DEF Column
  <2>2. \A s, r \in kept : s = r \/ Apart(s, r)
    BY DEF Column
  <2>3. \A s \in kept : Apart(s, m) /\ Apart(m, s)
    BY <1>6 DEF Apart
  <2> QED
    BY <1>1, <2>1, <2>2, <2>3 DEF Column
<1>8. ASSUME NEW v \in Int
      PROVE  Solid(added, v) <=> Solid(column, v) \/ In(new, v)
  <2>1. ASSUME NEW s \in touching, In(s, v) PROVE In(m, v)
    BY <1>2, <1>3, <1>4, <2>1 DEF In
  <2>2. In(new, v) => In(m, v)
    BY <1>3, <1>4 DEF In
  <2>3. ASSUME In(m, v), ~In(new, v) PROVE \E s \in touching : In(s, v)
    <3>1. CASE v < 2 * new.smin
      <4>1. PICK s \in touching : s.smin = m.smin
        BY <1>3, <1>4, <2>3, <3>1 DEF In
      <4>2. In(s, v)
        BY <1>2, <1>4, <2>3, <3>1, <4>1 DEF In
      <4> QED
        BY <4>2
    <3>2. CASE v > 2 * new.smax
      <4>1. PICK s \in touching : s.smax = m.smax
        BY <1>3, <1>4, <2>3, <3>2 DEF In
      <4>2. In(s, v)
        BY <1>2, <1>4, <2>3, <3>2, <4>1 DEF In
      <4> QED
        BY <4>2
    <3> QED
      BY <1>4, <2>3, <3>1, <3>2 DEF In
  <2> QED
    BY <1>1, <1>2, <2>1, <2>2, <2>3 DEF Solid
<1> QED
  BY <1>7, <1>8 DEF added

-----------------------------------------------------------------------------
(* Pieces                                                                  *)

\* Halving an integer downwards, with what it does not reach.
LEMMA Halves ==
  ASSUME NEW x \in Int, NEW y \in Int, x <= y
  PROVE  /\ x \div 2 \in Int /\ x \div 2 <= y \div 2
         /\ 2 * (x \div 2) <= x /\ x <= 2 * (x \div 2) + 1
OBVIOUS

\* What fits into the bits of a span is kept.
LEMMA Fits ==
  ASSUME NEW n \in Nat, NEW x \in 0..n
  PROVE  x % (n + 1) = x
OBVIOUS

\* A clamp with bounds in order ends between them.
LEMMA Clamped ==
  ASSUME NEW v \in Int, NEW lo \in Int, NEW hi \in Int, lo <= hi
  PROVE  rcClamp(v, lo, hi) \in lo..hi /\ (v \in lo..hi => rcClamp(v, lo, hi) = v)
BY DEF rcClamp

\* A triangle leaves a span of at least one cell, whole and not wrapped: the box is less high
\* than a span can count.
LEMMA SnapFits ==
  ASSUME NEW piece, piece.lo \in Int, piece.hi \in Int, InBox(piece)
  PROVE  Snap(piece) \in Spans /\ Snap(piece).smin < Snap(piece).smax
<1> DEFINE low == Higher(piece.lo, 0)
           high == Lower(piece.hi, BoxTop) + 1
           lo == rcClamp(low \div 2, 0, SpanMaxHeight)
           hi == rcClamp(high \div 2, lo + 1, SpanMaxHeight)
<1>1. Snap(piece) = [smin |-> lo, smax |-> hi % (SpanMaxHeight + 1), area |-> RC_WALKABLE_AREA]
  BY DEF Snap
<1>2. low \in Int /\ 0 <= low /\ low <= BoxTop + 1 /\ high \in Int
  BY HeightfieldAssumption DEF InBox, Higher, Lower
<1> HIDE DEF low, high
<1>3. low \div 2 \in Int /\ 0 <= low \div 2 /\ low \div 2 < SpanMaxHeight /\ high \div 2 \in Int
  BY <1>2, HeightfieldAssumption, BoxAssumption
<1>4. lo = low \div 2
  BY <1>3, HeightfieldAssumption, Clamped
<1>5. lo \in Nat /\ lo + 1 <= SpanMaxHeight
  BY <1>3, <1>4, HeightfieldAssumption
<1> HIDE DEF lo
<1>6. hi \in (lo + 1)..SpanMaxHeight
  <2>1. high \div 2 \in Int /\ lo + 1 \in Int /\ SpanMaxHeight \in Int /\ lo + 1 <= SpanMaxHeight
    BY <1>3, <1>5, HeightfieldAssumption
  <2> HIDE DEF hi
  <2> QED
    BY <2>1, Clamped DEF hi
<1> HIDE DEF hi
<1>7. hi % (SpanMaxHeight + 1) = hi
  BY <1>5, <1>6, HeightfieldAssumption, Fits
<1> QED
  BY <1>1, <1>5, <1>6, <1>7 DEF Spans

-----------------------------------------------------------------------------
(* The build *)

Rasterised(c, t) == c \in DOMAIN Clip[t] /\ InBox(Clip[t][c])
Pieces(c) == {Snap(Clip[t][c]) : t \in {u \in map \ todo : Rasterised(c, u)}}

\* A column is in order and solid where the triangles rasterised so far are.
Built ==
  /\ map \subseteq Triangles /\ todo \subseteq map
  /\ step # "raster" => todo = {}
  /\ DOMAIN columns = Cells
  /\ \A c \in Cells :
       /\ Column(columns[c])
       /\ \A v \in Int : Solid(columns[c], v) <=> Solid(Pieces(c), v)

\* No map is rasterised yet.
LEMMA BuiltInit == HeightfieldInit => Built
<1> SUFFICES ASSUME HeightfieldInit PROVE Built
  OBVIOUS
<1>1. \A c \in Cells : columns[c] = {} /\ Pieces(c) = {}
  BY DEF HeightfieldInit, Pieces
<1>2. map \subseteq Triangles
  BY MapsAssumption DEF HeightfieldInit
<1> QED
  BY <1>1, <1>2 DEF HeightfieldInit, Built, Column, Solid

\* A triangle adds its piece to the cells it touches.
LEMMA RasterizeStep ==
  ASSUME Built, NEW t \in Triangles, RasterizeTri(t)
  PROVE  Built'
<1>1. /\ step = "raster" /\ t \in todo /\ todo' = todo \ {t} /\ map' = map /\ step' = step
      /\ columns' = [c \in Cells |-> IF Rasterised(c, t) THEN AddSpan(columns[c], Snap(Clip[t][c]))
                                     ELSE columns[c]]
  BY DEF RasterizeTri, Rasterised
<1>2. map \ todo' = (map \ todo) \cup {t}
  BY <1>1 DEF Built
<1>3. ASSUME NEW c \in Cells
      PROVE  /\ Column(columns'[c])
             /\ \A v \in Int : Solid(columns'[c], v) <=> Solid(Pieces(c)', v)
  <2>1. Column(columns[c]) /\ \A v \in Int : Solid(columns[c], v) <=> Solid(Pieces(c), v)
    BY DEF Built
  <2>2. CASE Rasterised(c, t)
    <3> DEFINE new == Snap(Clip[t][c])
    <3>1. new \in Spans /\ new.smin < new.smax
      BY <2>2, ClipAssumption, SnapFits DEF Rasterised
    <3>2. columns'[c] = AddSpan(columns[c], new)
      BY <1>1, <2>2
    <3>3. Pieces(c)' = Pieces(c) \cup {new}
      BY <1>1, <1>2, <2>2 DEF Pieces, Rasterised
    <3> HIDE DEF new
    <3>4. /\ Column(columns'[c])
          /\ \A v \in Int : Solid(columns'[c], v) <=> Solid(columns[c], v) \/ In(new, v)
      BY <2>1, <3>1, <3>2, AddSpanAdds
    <3>5. \A v \in Int : Solid(Pieces(c)', v) <=> Solid(Pieces(c), v) \/ In(new, v)
      BY <3>3 DEF Solid
    <3> QED
      BY <2>1, <3>4, <3>5
  <2>3. CASE ~Rasterised(c, t)
    <3>1. columns'[c] = columns[c]
      BY <1>1, <2>3
    <3>2. Pieces(c)' = Pieces(c)
      BY <1>1, <1>2, <2>3 DEF Pieces, Rasterised
    <3> QED
      BY <2>1, <3>1, <3>2
  <2> QED
    BY <2>2, <2>3
<1>4. map' \subseteq Triangles /\ todo' \subseteq map' /\ DOMAIN columns' = Cells
  BY <1>1 DEF Built
<1> QED
  BY <1>1, <1>3, <1>4 DEF Built

\* A filter marks spans and moves none: the order and what is solid stay.
LEMMA MarkedSpans ==
  ASSUME NEW column, Column(column), NEW f \in [column -> Spans],
         \A s \in column : f[s].smin = s.smin /\ f[s].smax = s.smax
  PROVE  LET marked == {f[s] : s \in column} IN
         Column(marked) /\ \A v \in Int : Solid(marked, v) <=> Solid(column, v)
<1> DEFINE marked == {f[s] : s \in column}
<1>1. marked \subseteq Spans
  OBVIOUS
<1>2. \A n \in marked : n.smin < n.smax
  BY DEF Column
<1>3. \A n, k \in marked : n = k \/ Apart(n, k)
  <2> SUFFICES ASSUME NEW s \in column, NEW r \in column PROVE f[s] = f[r] \/ Apart(f[s], f[r])
    OBVIOUS
  <2> QED
    BY DEF Column, Apart
<1>4. \A v \in Int : Solid(marked, v) <=> Solid(column, v)
  BY DEF Solid, In
<1> QED
  BY <1>1, <1>2, <1>3, <1>4 DEF Column

\* So does the build when a step marks the spans of every column.
LEMMA MarkingStep ==
  ASSUME Built, step # "raster" \/ todo = {}, UNCHANGED <<map, todo>>, step' # "raster",
         DOMAIN columns' = Cells,
         \A c \in Cells : \E f \in [columns[c] -> Spans] :
           /\ columns'[c] = {f[s] : s \in columns[c]}
           /\ \A s \in columns[c] : f[s].smin = s.smin /\ f[s].smax = s.smax
  PROVE  Built'
<1>1. ASSUME NEW c \in Cells
      PROVE  /\ Column(columns'[c])
             /\ \A v \in Int : Solid(columns'[c], v) <=> Solid(Pieces(c)', v)
  <2>1. Column(columns[c]) /\ \A v \in Int : Solid(columns[c], v) <=> Solid(Pieces(c), v)
    BY DEF Built
  <2>2. PICK f \in [columns[c] -> Spans] :
           /\ columns'[c] = {f[s] : s \in columns[c]}
           /\ \A s \in columns[c] : f[s].smin = s.smin /\ f[s].smax = s.smax
    OBVIOUS
  <2>3. Column(columns'[c]) /\ \A v \in Int : Solid(columns'[c], v) <=> Solid(columns[c], v)
    BY <2>1, <2>2, MarkedSpans
  <2>4. Pieces(c)' = Pieces(c)
    BY DEF Pieces, Rasterised
  <2> QED
    BY <2>1, <2>3, <2>4
<1> QED
  BY <1>1 DEF Built

\* Every step keeps the columns built.
LEMMA BuiltStep == Built /\ [HeightfieldNext]_hfVars => Built'
<1> SUFFICES ASSUME Built, [HeightfieldNext]_hfVars PROVE Built'
  OBVIOUS
<1>0. \A c \in Cells : \A s \in columns[c] :
        /\ s \in Spans
        /\ [s EXCEPT !.area = RC_WALKABLE_AREA] \in Spans /\ [s EXCEPT !.area = RC_NULL_AREA] \in Spans
        /\ [s EXCEPT !.area = RC_WALKABLE_AREA].smin = s.smin
        /\ [s EXCEPT !.area = RC_WALKABLE_AREA].smax = s.smax
        /\ [s EXCEPT !.area = RC_NULL_AREA].smin = s.smin
        /\ [s EXCEPT !.area = RC_NULL_AREA].smax = s.smax
  BY DEF Built, Column, Spans
<1>1. CASE RasterizeTriangles
  BY <1>1, RasterizeStep DEF RasterizeTriangles
<1>2. CASE FilterLowHangingWalkableObstacles
  <2> DEFINE g(c) == [s \in columns[c] |->
                        IF LowHanging(columns[c], s) THEN [s EXCEPT !.area = RC_WALKABLE_AREA] ELSE s]
  <2>1. ASSUME NEW c \in Cells
        PROVE  \E f \in [columns[c] -> Spans] :
           /\ columns'[c] = {f[s] : s \in columns[c]}
           /\ \A s \in columns[c] : f[s].smin = s.smin /\ f[s].smax = s.smax
    <3>1. g(c) \in [columns[c] -> Spans]
      BY <1>0
    <3>2. columns'[c] = {g(c)[s] : s \in columns[c]}
      BY <1>2 DEF FilterLowHangingWalkableObstacles
    <3>3. \A s \in columns[c] : g(c)[s].smin = s.smin /\ g(c)[s].smax = s.smax
      BY <1>0
    <3> HIDE DEF g
    <3> QED
      BY <3>1, <3>2, <3>3
  <2>2. /\ todo = {} /\ UNCHANGED <<map, todo>> /\ step' # "raster" /\ DOMAIN columns' = Cells
    BY <1>2 DEF FilterLowHangingWalkableObstacles
  <2> QED
    BY <2>1, <2>2, MarkingStep
<1>3. CASE FilterLedgeSpans
  <2> DEFINE g(c) == [s \in columns[c] |-> IF Ledge(c, s) THEN [s EXCEPT !.area = RC_NULL_AREA] ELSE s]
  <2>1. ASSUME NEW c \in Cells
        PROVE  \E f \in [columns[c] -> Spans] :
           /\ columns'[c] = {f[s] : s \in columns[c]}
           /\ \A s \in columns[c] : f[s].smin = s.smin /\ f[s].smax = s.smax
    <3>1. g(c) \in [columns[c] -> Spans]
      BY <1>0
    <3>2. columns'[c] = {g(c)[s] : s \in columns[c]}
      BY <1>3 DEF FilterLedgeSpans, Close
    <3>3. \A s \in columns[c] : g(c)[s].smin = s.smin /\ g(c)[s].smax = s.smax
      BY <1>0
    <3> HIDE DEF g
    <3> QED
      BY <3>1, <3>2, <3>3
  <2>2. /\ step # "raster" /\ UNCHANGED <<map, todo>> /\ step' # "raster" /\ DOMAIN columns' = Cells
    BY <1>3 DEF FilterLedgeSpans
  <2> QED
    BY <2>1, <2>2, MarkingStep
<1>4. CASE FilterWalkableLowHeightSpans
  <2> DEFINE g(c) == [s \in columns[c] |->
                        IF Cramped(columns[c], s) THEN [s EXCEPT !.area = RC_NULL_AREA] ELSE s]
  <2>1. ASSUME NEW c \in Cells
        PROVE  \E f \in [columns[c] -> Spans] :
           /\ columns'[c] = {f[s] : s \in columns[c]}
           /\ \A s \in columns[c] : f[s].smin = s.smin /\ f[s].smax = s.smax
    <3>1. g(c) \in [columns[c] -> Spans]
      BY <1>0
    <3>2. columns'[c] = {g(c)[s] : s \in columns[c]}
      BY <1>4 DEF FilterWalkableLowHeightSpans, Close
    <3>3. \A s \in columns[c] : g(c)[s].smin = s.smin /\ g(c)[s].smax = s.smax
      BY <1>0
    <3> HIDE DEF g
    <3> QED
      BY <3>1, <3>2, <3>3
  <2>2. /\ step # "raster" /\ UNCHANGED <<map, todo>> /\ step' # "raster" /\ DOMAIN columns' = Cells
    BY <1>4 DEF FilterWalkableLowHeightSpans
  <2> QED
    BY <2>1, <2>2, MarkingStep
<1>5. CASE BuildCompactHeightfield
  BY <1>5 DEF BuildCompactHeightfield, Built, Pieces, Rasterised
<1>6. CASE UNCHANGED hfVars
  BY <1>6 DEF hfVars, Built, Pieces, Rasterised
<1> QED
  BY <1>1, <1>2, <1>3, <1>4, <1>5, <1>6 DEF HeightfieldNext

\* addSpan keeps the spans of a column apart and a column solid exactly where a rasterised
\* triangle is, in whatever order the triangles come and whatever the filters mark.
THEOREM ColumnsAreUnionHolds == HeightfieldSpec => []ColumnsAreUnion
<1>1. Built => ColumnsAreUnion
  <2> SUFFICES ASSUME Built PROVE ColumnsAreUnion
    OBVIOUS
  <2>1. ColumnsAreSeparated
    BY DEF Built, Column, Apart, ColumnsAreSeparated
  <2>2. ASSUME step = "erode", NEW c \in Cells, NEW v \in 0..(2 * SpanMaxHeight)
        PROVE  (\E s \in columns[c] : 2 * s.smin <= v /\ v <= 2 * s.smax) <=>
               (\E p \in {Snap(Clip[t][c]) : t \in {t \in map : c \in DOMAIN Clip[t] /\ InBox(Clip[t][c])}} :
                   2 * p.smin <= v /\ v <= 2 * p.smax)
    <3>1. map \ todo = map
      BY <2>2 DEF Built
    <3>2. v \in Int
      BY HeightfieldAssumption
    <3>3. Solid(columns[c], v) <=> Solid(Pieces(c), v)
      BY <3>2 DEF Built
    <3> QED
      BY <3>1, <3>3 DEF Solid, In, Pieces, Rasterised
  <2> QED
    BY <2>1, <2>2 DEF ColumnsAreUnion
<1> QED
  BY BuiltInit, BuiltStep, <1>1, PTL DEF HeightfieldSpec

-----------------------------------------------------------------------------
(* The open spaces                                                         *)

\* A set of naturals has a least.
LEMMA LeastIs ==
  ASSUME NEW S, S \subseteq Nat, S # {}
  PROVE  \E m \in S : \A n \in S : m <= n
<1> DEFINE R == {p \in Nat \X Nat : p[1] < p[2]}
<1>1. IsWellFoundedOn(R, Nat)
  <2>1. OpToRel(<, Nat) = R
    BY Zenon DEF OpToRel
  <2> QED
    BY <2>1, NatLessThanWellFounded, Zenon
<1>2. PICK m \in S : \A n \in S : ~(<<n, m>> \in R)
  <2> HIDE DEF R
  <2> QED
    BY <1>1, WFMin
<1>3. ASSUME NEW n \in S PROVE m <= n
  <2>1. m \in Nat /\ n \in Nat /\ ~(n < m)
    BY <1>2
  <2> QED
    BY <2>1
<1> QED
  BY <1>3

\* The room over a span ends below whatever is over it.
LEMMA CeilingIsLow ==
  ASSUME NEW column, Column(column), NEW s \in column, NEW r \in Above(column, s)
  PROVE  Ceiling(column, s) \in Nat /\ s.smax < Ceiling(column, s) /\ Ceiling(column, s) <= r.smin
<1> DEFINE over == Above(column, s)
           lows == {n.smin : n \in over}
<1>1. over \subseteq column /\ \A n \in over : n.smin \in Nat /\ s.smax < n.smin
  BY DEF Above, Column, Spans
<1> HIDE DEF over
<1>2. lows \subseteq Nat /\ lows # {}
  BY <1>1 DEF over
<1>3. PICK m \in lows : \A n \in lows : m <= n
  <2> HIDE DEF lows
  <2> QED
    BY <1>2, LeastIs
<1>4. \E n \in over : \A o \in over : n.smin <= o.smin
  BY <1>3
<1>5. SpanAbove(column, s) = CHOOSE n \in over : \A o \in over : n.smin <= o.smin
  BY DEF SpanAbove, over
<1>6. SpanAbove(column, s) \in over /\ \A o \in over : SpanAbove(column, s).smin <= o.smin
  BY <1>4, <1>5
<1>7. Ceiling(column, s) = SpanAbove(column, s).smin
  BY DEF Ceiling
<1> QED
  BY <1>1, <1>6, <1>7 DEF over

\* The open spaces of a column in order have heights and do not touch: each ends below the floor
\* of the next.
LEMMA OpenSpacesApart ==
  ASSUME NEW column, Column(column), NEW a \in column, NEW b \in column, a.smax < b.smax
  PROVE  LET s == Open(column, a) n == Open(column, b) IN
         s.y \in Nat /\ s.h \in Nat /\ n.y \in Nat /\ s.y + s.h < n.y
<1>1. /\ a.smin \in Nat /\ a.smax \in Nat /\ b.smin \in Nat /\ b.smax \in Nat
      /\ a.smin < a.smax /\ b.smin < b.smax
      /\ a.smax < b.smin \/ b.smax < a.smin
  BY DEF Column, Spans, Apart
<1>2. b \in Above(column, a)
  BY <1>1 DEF Above
<1>3. Ceiling(column, a) \in Nat /\ a.smax < Ceiling(column, a) /\ Ceiling(column, a) <= b.smin
  BY <1>2, CeilingIsLow
<1> DEFINE room == Ceiling(column, a) - a.smax
<1>4. room \in Nat /\ a.smax + room <= b.smin
  BY <1>1, <1>3
<1> HIDE DEF room
<1>5. rcClamp(room, 0, 255) \in Nat /\ rcClamp(room, 0, 255) <= room
  BY <1>4 DEF rcClamp
<1>6. Open(column, a) = [y |-> a.smax, h |-> rcClamp(room, 0, 255)]
  BY DEF Open, room
<1>7. Open(column, b).y = b.smax
  BY DEF Open
<1> QED
  BY <1>1, <1>4, <1>5, <1>6, <1>7

\* The heights of an open space.
LEMMA OpenSpace ==
  ASSUME NEW column, Column(column), NEW a \in column
  PROVE  Open(column, a).y = a.smax /\ a.smax \in Nat /\ Open(column, a).h \in Nat
<1>1. a.smax \in Nat
  BY DEF Column, Spans
<1>2. Ceiling(column, a) \in Nat
  <2>1. CASE Above(column, a) = {}
    BY <2>1 DEF Ceiling, MAX_HEIGHT
  <2>2. CASE Above(column, a) # {}
    BY <2>2, CeilingIsLow
  <2> QED
    BY <2>1, <2>2
<1> DEFINE room == Ceiling(column, a) - a.smax
<1>3. room \in Int
  BY <1>1, <1>2
<1> HIDE DEF room
<1>4. rcClamp(room, 0, 255) \in Nat
  BY <1>3 DEF rcClamp
<1>5. Open(column, a) = [y |-> a.smax, h |-> rcClamp(room, 0, 255)]
  BY DEF Open, room
<1> QED
  BY <1>1, <1>4, <1>5

\* When the compact heightfield is done, its cells hold spaces that do not touch.
Cell(cell) ==
  /\ \A s \in cell : s.y \in Nat /\ s.h \in Nat
  /\ \A s, n \in cell : s = n \/ s.y + s.h < n.y \/ n.y + n.h < s.y
Compacted == step = "erode" => \A c \in Cells : Cell(compact[c])

\* Every step keeps that: the cells are filled in one step from columns in order.
LEMMA CompactStep ==
  ASSUME Built, Compacted, [HeightfieldNext]_hfVars
  PROVE  Compacted'
<1>1. CASE BuildCompactHeightfield
  <2> SUFFICES ASSUME NEW c \in Cells PROVE Cell(compact'[c])
    BY DEF Compacted
  <2>1. Column(columns[c])
    BY DEF Built
  <2>2. compact'[c] = {Open(columns[c], s) : s \in {w \in columns[c] : Walkable(w)}}
    BY <1>1 DEF BuildCompactHeightfield
  <2>3. \A s \in compact'[c] : \E a \in columns[c] : s = Open(columns[c], a)
    BY <2>2
  <2>4. ASSUME NEW s \in compact'[c] PROVE s.y \in Nat /\ s.h \in Nat
    BY <2>1, <2>3, OpenSpace
  <2>5. ASSUME NEW s \in compact'[c], NEW n \in compact'[c]
        PROVE  s = n \/ s.y + s.h < n.y \/ n.y + n.h < s.y
    <3>1. PICK a \in columns[c], b \in columns[c] : s = Open(columns[c], a) /\ n = Open(columns[c], b)
      BY <2>3
    <3>2. a = b \/ a.smax < b.smax \/ b.smax < a.smax
      BY <2>1 DEF Column, Apart, Spans
    <3> QED
      BY <2>1, <3>1, <3>2, OpenSpacesApart
  <2> QED
    BY <2>4, <2>5 DEF Cell
<1>2. CASE UNCHANGED <<compact, step>>
  BY <1>2 DEF Compacted
<1>3. CASE step' # "erode"
  BY <1>3 DEF Compacted
<1>4. CASE UNCHANGED hfVars
  BY <1>4 DEF hfVars, Compacted
<1> QED
  BY <1>1, <1>2, <1>3, <1>4 DEF HeightfieldNext, RasterizeTriangles, RasterizeTri,
     FilterLowHangingWalkableObstacles, FilterLedgeSpans, FilterWalkableLowHeightSpans

\* To step to and to step from are the same.
LEMMA PassableBothWays ==
  ASSUME NEW s, NEW n, s.y \in Nat, s.h \in Nat, n.y \in Nat, n.h \in Nat
  PROVE  Passable(s, n) <=> Passable(n, s)
<1>1. s.y + s.h \in Nat /\ n.y + n.h \in Nat
  OBVIOUS
<1>2. /\ Lower(s.y + s.h, n.y + n.h) = Lower(n.y + n.h, s.y + s.h)
      /\ Higher(s.y, n.y) = Higher(n.y, s.y)
      /\ Distance(n.y, s.y) = Distance(s.y, n.y)
  BY <1>1 DEF Lower, Higher, Distance
<1> QED
  BY <1>2 DEF Passable

\* An agent climbs less than it is tall, so that of two spaces one above the other it can step
\* into one at most.
LEMMA OnePassable ==
  ASSUME NEW cell, Cell(cell), NEW s, s.y \in Nat, s.h \in Nat,
         NEW n \in cell, NEW o \in cell, Passable(s, n), Passable(s, o)
  PROVE  n = o
<1>1. ASSUME NEW a \in cell, NEW b \in cell, Passable(s, a), Passable(s, b), a.y + a.h < b.y
      PROVE  FALSE
  <2>1. a.y \in Nat /\ a.h \in Nat /\ b.y \in Nat
    BY DEF Cell
  <2>2. a.y + a.h >= s.y + WalkableHeight
    BY <1>1, <2>1, HeightfieldAssumption DEF Passable, Lower, Higher
  <2>3. b.y <= s.y + WalkableClimb
    BY <1>1, <2>1, HeightfieldAssumption DEF Passable, Distance
  <2> QED
    BY <1>1, <2>1, <2>2, <2>3, HeightfieldAssumption, ClimbAssumption
<1> QED
  BY <1>1 DEF Cell

\* There and back is the same cell.
LEMMA ThereAndBack ==
  ASSUME NEW c \in Cells, NEW d \in Directions
  PROVE  Opposite(d) \in Directions /\ Beside(Beside(c, d), Opposite(d)) = c
<1>1. PICK x \in Int, z \in Int : c = <<x, z>>
  BY HeightfieldAssumption DEF Cells
<1>2. /\ d = 0 \/ d = 1 \/ d = 2 \/ d = 3
  BY DEF Directions
<1>3. /\ 0 \in Directions /\ 1 \in Directions /\ 2 \in Directions /\ 3 \in Directions
      /\ Opposite(0) = 2 /\ Opposite(1) = 3 /\ Opposite(2) = 0 /\ Opposite(3) = 1
  BY DEF Opposite, Directions
<1>4. /\ rcGetDirOffsetX[0] = -1 /\ rcGetDirOffsetX[1] = 0
      /\ rcGetDirOffsetX[2] = 1 /\ rcGetDirOffsetX[3] = 0
      /\ rcGetDirOffsetY[0] = 0 /\ rcGetDirOffsetY[1] = 1
      /\ rcGetDirOffsetY[2] = 0 /\ rcGetDirOffsetY[3] = -1
  BY <1>3 DEF rcGetDirOffsetX, rcGetDirOffsetY
<1>5. /\ Beside(c, 0) = <<x - 1, z>> /\ Beside(c, 1) = <<x, z + 1>>
      /\ Beside(c, 2) = <<x + 1, z>> /\ Beside(c, 3) = <<x, z - 1>>
  BY <1>1, <1>4 DEF Beside
<1>6. /\ Beside(<<x - 1, z>>, 2) = c /\ Beside(<<x, z + 1>>, 3) = c
      /\ Beside(<<x + 1, z>>, 0) = c /\ Beside(<<x, z - 1>>, 1) = c
  BY <1>1, <1>4 DEF Beside
<1> QED
  BY <1>2, <1>3, <1>5, <1>6

\* rcBuildCompactHeightfield links each space to the first it finds in the next cell.  It is the
\* only one, and links back, unless one of the two is on a layer beyond what six bits count: the
\* walks of the regions and of the contours turn round on the links and rely on it.
ConnectionsAreMutual ==
  step = "erode" =>
    \A c \in Cells : \A d \in Directions : \A s \in compact[c] :
      Connected(c, s, d) /\ Layer(compact[c], s) <= MAX_LAYERS =>
        LET b == Beside(c, d) n == Neighbour(c, s, d) IN
        /\ Candidates(c, s, d) = {n}
        /\ Connected(b, n, Opposite(d)) /\ Neighbour(b, n, Opposite(d)) = s

\* The links of the compact heightfield go both ways, whatever the map.
THEOREM ConnectionsAreMutualHolds == HeightfieldSpec => []ConnectionsAreMutual
<1>1. Compacted => ConnectionsAreMutual
  <2> SUFFICES ASSUME Compacted, step = "erode",
                      NEW c \in Cells, NEW d \in Directions, NEW s \in compact[c],
                      Connected(c, s, d), Layer(compact[c], s) <= MAX_LAYERS
               PROVE  LET b == Beside(c, d) n == Neighbour(c, s, d) IN
                      /\ Candidates(c, s, d) = {n}
                      /\ Connected(b, n, Opposite(d)) /\ Neighbour(b, n, Opposite(d)) = s
    BY DEF ConnectionsAreMutual
  <2> DEFINE b == Beside(c, d)
             n == Neighbour(c, s, d)
  <2>1. /\ b \in Cells /\ Candidates(c, s, d) # {} /\ Candidates(c, s, d) \subseteq compact[b]
        /\ \A o \in Candidates(c, s, d) : Passable(s, o)
    BY DEF Connected, Candidates
  <2>2. Cell(compact[b]) /\ Cell(compact[c])
    BY <2>1 DEF Compacted
  <2>3. s.y \in Nat /\ s.h \in Nat /\ \A o \in compact[b] : o.y \in Nat /\ o.h \in Nat
    BY <2>2 DEF Cell
  <2>4. PICK k \in Candidates(c, s, d) : Candidates(c, s, d) = {k}
    BY <2>1, <2>2, <2>3, OnePassable
  <2>5. n = k
    BY <2>1, <2>3, <2>4 DEF Neighbour
  <2> HIDE DEF n
  <2>6. n \in compact[b] /\ Passable(s, n) /\ Passable(n, s)
    BY <2>1, <2>3, <2>4, <2>5, PassableBothWays
  <2>7. Beside(b, Opposite(d)) = c
    BY ThereAndBack
  <2> HIDE DEF b
  <2>8. s \in Candidates(b, n, Opposite(d))
    BY <2>6, <2>7 DEF Candidates
  <2>9. \A o \in Candidates(b, n, Opposite(d)) : o \in compact[c] /\ Passable(n, o)
    BY <2>7 DEF Candidates
  <2>10. n.y \in Nat /\ n.h \in Nat
    BY <2>3, <2>6
  <2>11. Candidates(b, n, Opposite(d)) = {s}
    BY <2>2, <2>6, <2>8, <2>9, <2>10, OnePassable
  <2>12. Neighbour(b, n, Opposite(d)) = s
    BY <2>3, <2>11 DEF Neighbour
  <2> QED
    BY <2>4, <2>5, <2>11, <2>12 DEF Connected, b, n
<1>2. HeightfieldInit => Compacted
  BY DEF HeightfieldInit, Compacted
<1>3. Built /\ Compacted /\ [HeightfieldNext]_hfVars => Compacted'
  BY CompactStep
<1> QED
  BY BuiltInit, BuiltStep, <1>1, <1>2, <1>3, PTL DEF HeightfieldSpec

-----------------------------------------------------------------------------
(* The filters                                                             *)

\* What the filters look at are the extents of spans, which none of them changes.
SameExtent(s, t) == s.smin = t.smin /\ s.smax = t.smax
SameShape(a, b) ==
  /\ \A s \in a : \E t \in b : SameExtent(s, t)
  /\ \A t \in b : \E s \in a : SameExtent(s, t)

\* The room over a span ends at a span over it, or nowhere.
LEMMA CeilingIsSpan ==
  ASSUME NEW column, Column(column), NEW s \in column, Above(column, s) # {}
  PROVE  \E n \in Above(column, s) : Ceiling(column, s) = n.smin
<1> DEFINE lows == {n.smin : n \in Above(column, s)}
<1>1. Above(column, s) \subseteq column
  BY DEF Above
<1>2. lows \subseteq Nat /\ lows # {}
  BY <1>1 DEF Column, Spans
<1>3. PICK m \in lows : \A n \in lows : m <= n
  <2> HIDE DEF lows
  <2> QED
    BY <1>2, LeastIs
<1>4. \E n \in Above(column, s) : \A o \in Above(column, s) : n.smin <= o.smin
  BY <1>3
<1>5. SpanAbove(column, s) \in Above(column, s)
  BY <1>4 DEF SpanAbove
<1> QED
  BY <1>5 DEF Ceiling

\* The room over a span depends on the shape of its column only ...
LEMMA ShapeCeiling ==
  ASSUME NEW a, NEW b, Column(a), Column(b), SameShape(a, b),
         NEW s \in a, NEW t \in b, SameExtent(s, t)
  PROVE  Ceiling(a, s) = Ceiling(b, t)
<1>1. \A n \in Above(a, s) : \E k \in Above(b, t) : n.smin = k.smin
  BY DEF SameShape, SameExtent, Above
<1>2. \A k \in Above(b, t) : \E n \in Above(a, s) : n.smin = k.smin
  BY DEF SameShape, SameExtent, Above
<1>3. CASE Above(a, s) = {}
  <2>1. Above(b, t) = {}
    BY <1>2, <1>3
  <2> QED
    BY <1>3, <2>1 DEF Ceiling
<1>4. CASE Above(a, s) # {}
  <2>1. Above(b, t) # {}
    BY <1>1, <1>4
  <2>2. PICK n \in Above(a, s) : Ceiling(a, s) = n.smin
    BY <1>4, CeilingIsSpan
  <2>3. PICK k \in Above(b, t) : Ceiling(b, t) = k.smin
    BY <2>1, CeilingIsSpan
  <2>4. PICK p \in Above(b, t) : n.smin = p.smin
    BY <1>1
  <2>5. PICK q \in Above(a, s) : q.smin = k.smin
    BY <1>2
  <2>6. Ceiling(b, t) \in Nat /\ Ceiling(b, t) <= p.smin
    BY CeilingIsLow
  <2>7. Ceiling(a, s) \in Nat /\ Ceiling(a, s) <= q.smin
    BY CeilingIsLow
  <2> QED
    BY <2>2, <2>3, <2>4, <2>5, <2>6, <2>7
<1> QED
  BY <1>3, <1>4

\* The lowest span of a column.
LEMMA BottomIsLow ==
  ASSUME NEW column, Column(column), column # {}
  PROVE  /\ Bottom(column) \in Nat
         /\ \E s \in column : Bottom(column) = s.smin
         /\ \A s \in column : Bottom(column) <= s.smin
<1> DEFINE lows == {n.smin : n \in column}
<1>1. lows \subseteq Nat /\ lows # {}
  BY DEF Column, Spans
<1>2. PICK m \in lows : \A n \in lows : m <= n
  <2> HIDE DEF lows
  <2> QED
    BY <1>1, LeastIs
<1>3. \E n \in column : \A o \in column : n.smin <= o.smin
  BY <1>2
<1> DEFINE lowest == CHOOSE n \in column : \A o \in column : n.smin <= o.smin
<1>4. lowest \in column /\ \A o \in column : lowest.smin <= o.smin
  BY <1>3
<1>5. Bottom(column) = lowest.smin
  BY DEF Bottom
<1> HIDE DEF lowest
<1>6. lowest.smin \in Nat
  BY <1>4 DEF Column, Spans
<1> QED
  BY <1>4, <1>5, <1>6

\* ... and so does its lowest span.
LEMMA ShapeBottom ==
  ASSUME NEW a, NEW b, Column(a), Column(b), SameShape(a, b)
  PROVE  Bottom(a) = Bottom(b)
<1>1. CASE a = {}
  <2>1. b = {}
    BY <1>1 DEF SameShape
  <2> QED
    BY <1>1, <2>1
<1>2. CASE a # {}
  <2>1. b # {}
    BY <1>2 DEF SameShape
  <2>2. PICK n \in a : Bottom(a) = n.smin
    BY <1>2, BottomIsLow
  <2>3. PICK k \in b : Bottom(b) = k.smin
    BY <2>1, BottomIsLow
  <2>4. PICK p \in b : n.smin = p.smin
    BY DEF SameShape, SameExtent
  <2>5. PICK q \in a : q.smin = k.smin
    BY DEF SameShape, SameExtent
  <2>6. Bottom(b) \in Nat /\ Bottom(b) <= p.smin
    BY <2>1, BottomIsLow
  <2>7. Bottom(a) \in Nat /\ Bottom(a) <= q.smin
    BY <1>2, BottomIsLow
  <2> QED
    BY <2>2, <2>3, <2>4, <2>5, <2>6, <2>7
<1> QED
  BY <1>1, <1>2

\* The floors that can be reached from a span, and a drop beside it.
LEMMA ShapeReachable ==
  ASSUME NEW a, NEW b, Column(a), Column(b), SameShape(a, b),
         NEW s \in a, NEW t \in b, SameExtent(s, t),
         NEW na, NEW nb, Column(na), Column(nb), SameShape(na, nb)
  PROVE  /\ {n.smax : n \in Reachable(a, s, na)} = {n.smax : n \in Reachable(b, t, nb)}
         /\ Drop(a, s, na) <=> Drop(b, t, nb)
<1>1. Ceiling(a, s) = Ceiling(b, t) /\ s.smax = t.smax
  BY ShapeCeiling DEF SameExtent
<1>2. \A n \in na : \A k \in nb : SameExtent(n, k) => Ceiling(na, n) = Ceiling(nb, k)
  BY ShapeCeiling
<1>3. \A n \in Reachable(a, s, na) : \E k \in Reachable(b, t, nb) : n.smax = k.smax
  BY <1>1, <1>2 DEF Reachable, SameShape, SameExtent
<1>4. \A k \in Reachable(b, t, nb) : \E n \in Reachable(a, s, na) : n.smax = k.smax
  BY <1>1, <1>2 DEF Reachable, SameShape, SameExtent
<1>5. {n.smax : n \in Reachable(a, s, na)} = {n.smax : n \in Reachable(b, t, nb)}
  BY <1>3, <1>4
<1>6. Bottom(na) = Bottom(nb)
  BY ShapeBottom
<1>7. (\E n \in Reachable(a, s, na) : n.smax - s.smax < -WalkableClimb) <=>
      (\E n \in Reachable(b, t, nb) : n.smax - t.smax < -WalkableClimb)
  BY <1>1, <1>3, <1>4
<1>8. Drop(a, s, na) <=> Drop(b, t, nb)
  BY <1>1, <1>6, <1>7 DEF Drop
<1> QED
  BY <1>5, <1>8

\* A ledge is one whatever the areas are: it stays a ledge, and nothing else becomes one, when a
\* step only marks spans.
LEMMA LedgeStays ==
  ASSUME NEW c \in Cells,
         \A e \in Cells : Column(columns[e]) /\ Column(columns'[e]) /\ SameShape(columns[e], columns'[e]),
         NEW s \in columns[c], NEW t \in columns'[c], SameExtent(s, t)
  PROVE  Ledge(c, s) <=> Ledge(c, t)'
<1> DEFINE in == {Beside(c, d) : d \in Directions} \cap Cells
           f(e) == {n.smax : n \in Reachable(columns[c], s, columns[e])}
           g(e) == {n.smax : n \in Reachable(columns'[c], t, columns'[e])}
           near(all) == {h \in all : Distance(h, s.smax) <= WalkableClimb} \cup {s.smax}
           before == near(UNION {f(e) : e \in in})
           after == near(UNION {g(e) : e \in in})
<1>1. \A e \in in : f(e) = g(e) /\ (Drop(columns[c], s, columns[e]) <=> Drop(columns'[c], t, columns'[e]))
  BY ShapeReachable
<1>2. s.smax = t.smax
  BY DEF SameExtent
<1>3. Ledge(c, s) <=>
        \/ \E d \in Directions : Beside(c, d) \notin Cells
        \/ \E e \in in : Drop(columns[c], s, columns[e])
        \/ \E lowest, highest \in before : highest - lowest > WalkableClimb
  BY DEF Ledge
<1>4. Ledge(c, t)' <=>
        \/ \E d \in Directions : Beside(c, d) \notin Cells
        \/ \E e \in in : Drop(columns'[c], t, columns'[e])
        \/ \E lowest, highest \in after : highest - lowest > WalkableClimb
  BY <1>2 DEF Ledge
<1> HIDE DEF in, f, g
<1>5. {f(e) : e \in in} = {g(e) : e \in in}
  BY <1>1
<1>6. before = after
  BY <1>5
<1> QED
  BY <1>1, <1>3, <1>4, <1>6

\* When the filters are done a walkable span has headroom and is no ledge: the filter that makes
\* low obstacles walkable comes first, and what the two others close can make no other span a
\* ledge or low.
WalkableIsSafe ==
  step \in {"compact", "erode"} =>
    \A c \in Cells : \A s \in columns[c] :
      Walkable(s) => ~Ledge(c, s) /\ ~Cramped(columns[c], s)

\* From the second filter on no walkable span is a ledge, from the third on none is too low.
Filtered ==
  /\ step \in {"headroom", "compact", "erode"} =>
       \A c \in Cells : \A s \in columns[c] : Walkable(s) => ~Ledge(c, s)
  /\ step \in {"compact", "erode"} =>
       \A c \in Cells : \A s \in columns[c] : Walkable(s) => ~Cramped(columns[c], s)

\* A closing filter leaves the shape of a column; what it leaves walkable was so, and was not to
\* be closed.
LEMMA CloseKeepsShape ==
  ASSUME NEW column, Column(column), NEW bad, NEW closed,
         closed = {IF s \in bad THEN [s EXCEPT !.area = RC_NULL_AREA] ELSE s : s \in column}
  PROVE  /\ SameShape(column, closed)
         /\ \A t \in closed : Walkable(t) => t \in column \ bad
<1>1. \A s \in column : LET n == [s EXCEPT !.area = RC_NULL_AREA] IN
                         SameExtent(s, n) /\ SameExtent(s, s) /\ ~Walkable(n)
  BY DEF Column, Spans, SameExtent, Walkable
<1> QED
  BY <1>1 DEF SameShape

\* Every step keeps that, as long as the columns are in order.
LEMMA FilteredStep ==
  ASSUME Built, Built', Filtered, [HeightfieldNext]_hfVars
  PROVE  Filtered'
<1>0. \A c \in Cells : Column(columns[c]) /\ Column(columns'[c])
  BY DEF Built
<1>1. CASE FilterLedgeSpans
  <2> DEFINE bad(c) == {s \in columns[c] : Ledge(c, s)}
  <2>1. step' = "headroom" /\ \A c \in Cells : columns'[c] = 
          {IF s \in bad(c) THEN [s EXCEPT !.area = RC_NULL_AREA] ELSE s : s \in columns[c]}
    BY <1>1 DEF FilterLedgeSpans, Close
  <2>2. \A c \in Cells : /\ SameShape(columns[c], columns'[c])
                          /\ \A t \in columns'[c] : Walkable(t) => t \in columns[c] \ bad(c)
    <3> HIDE DEF bad
    <3> QED
      BY <1>0, <2>1, CloseKeepsShape
  <2>3. ASSUME NEW c \in Cells, NEW t \in columns'[c], Walkable(t) PROVE ~Ledge(c, t)'
    <3>1. t \in columns[c] /\ ~Ledge(c, t)
      BY <2>2, <2>3
    <3>2. SameExtent(t, t)
      BY DEF SameExtent
    <3> QED
      BY <1>0, <2>2, <3>1, <3>2, LedgeStays
  <2> QED
    BY <2>1, <2>3 DEF Filtered, Walkable
<1>2. CASE FilterWalkableLowHeightSpans
  <2> DEFINE bad(c) == {s \in columns[c] : Cramped(columns[c], s)}
  <2>1. step = "headroom" /\ step' = "compact" /\ \A c \in Cells : columns'[c] = 
          {IF s \in bad(c) THEN [s EXCEPT !.area = RC_NULL_AREA] ELSE s : s \in columns[c]}
    BY <1>2 DEF FilterWalkableLowHeightSpans, Close
  <2>2. \A c \in Cells : /\ SameShape(columns[c], columns'[c])
                          /\ \A t \in columns'[c] : Walkable(t) => t \in columns[c] \ bad(c)
    <3> HIDE DEF bad
    <3> QED
      BY <1>0, <2>1, CloseKeepsShape
  <2>3. ASSUME NEW c \in Cells, NEW t \in columns'[c], Walkable(t)
        PROVE  ~Ledge(c, t)' /\ ~Cramped(columns'[c], t)
    <3>1. t \in columns[c] /\ ~Cramped(columns[c], t) /\ ~Ledge(c, t)
      BY <2>1, <2>2, <2>3 DEF Filtered
    <3>2. SameExtent(t, t)
      BY DEF SameExtent
    <3>3. ~Ledge(c, t)'
      BY <1>0, <2>2, <3>1, <3>2, LedgeStays
    <3>4. Ceiling(columns'[c], t) = Ceiling(columns[c], t)
      BY <1>0, <2>2, <3>1, <3>2, ShapeCeiling
    <3> QED
      BY <3>1, <3>3, <3>4 DEF Cramped
  <2> QED
    BY <2>1, <2>3 DEF Filtered, Walkable
<1>3. CASE BuildCompactHeightfield
  BY <1>3 DEF BuildCompactHeightfield, Filtered, Ledge
<1>4. CASE UNCHANGED hfVars
  BY <1>4 DEF hfVars, Filtered, Ledge
<1>5. CASE step' \notin {"headroom", "compact", "erode"}
  BY <1>5 DEF Filtered
<1> QED
  BY <1>1, <1>2, <1>3, <1>4, <1>5 DEF HeightfieldNext, RasterizeTriangles, RasterizeTri,
     FilterLowHangingWalkableObstacles

\* What the filters leave walkable is safe to stand on, whatever the map.
THEOREM WalkableIsSafeHolds == HeightfieldSpec => []WalkableIsSafe
<1>1. HeightfieldInit => Filtered
  BY DEF HeightfieldInit, Filtered
<1>2. Built /\ Built' /\ Filtered /\ [HeightfieldNext]_hfVars => Filtered'
  BY FilteredStep
<1>3. Filtered => WalkableIsSafe
  BY DEF Filtered, WalkableIsSafe
<1> QED
  BY BuiltInit, BuiltStep, <1>1, <1>2, <1>3, PTL DEF HeightfieldSpec

-----------------------------------------------------------------------------
(* Induction and recursion, for sets and functions                         *)

\* A set of numbers with 0 in it and with every number its successor has them all.
LEMMA SetInduction ==
  ASSUME NEW S, 0 \in S, \A n \in Nat : n \in S => n + 1 \in S
  PROVE  Nat \subseteq S
<1> DEFINE T == Nat \ S
           R == {p \in Nat \X Nat : p[1] < p[2]}
<1> SUFFICES ASSUME T # {} PROVE FALSE
  OBVIOUS
<1>1. IsWellFoundedOn(R, Nat)
  <2>1. OpToRel(<, Nat) = R
    BY Zenon DEF OpToRel
  <2> QED
    BY <2>1, NatLessThanWellFounded, Zenon
<1>2. PICK t \in T : \A y \in T : ~(<<y, t>> \in R)
  <2>1. T \subseteq Nat
    OBVIOUS
  <2> HIDE DEF R, T
  <2> QED
    BY <1>1, <2>1, WFMin
<1>3. t # 0 /\ t - 1 \in Nat
  OBVIOUS
<1>4. <<t - 1, t>> \in R
  BY <1>3
<1>5. t - 1 \in S
  BY <1>2, <1>3, <1>4
<1> QED
  BY <1>3, <1>5

\* F[x][f] is the value at x if f holds the values of lower rank.
Recursive(D, V, rank, F) ==
  /\ F \in [D -> [[D -> V] -> V]]
  /\ \A x \in D : \A f, g \in [D -> V] :
       (\A y \in D : rank[y] < rank[x] => f[y] = g[y]) => F[x][f] = F[x][g]

Solution(D, V, F, f) == f \in [D -> V] /\ \A x \in D : f[x] = F[x][f]

\* A recursion whose rank is bounded has a solution.
LEMMA Recursion ==
  ASSUME NEW D, NEW V, V # {}, NEW m \in Nat, NEW r \in [D -> 0..m], NEW F, Recursive(D, V, r, F)
  PROVE  \E f : Solution(D, V, F, f)
<1> DEFINE Upto(n, f) == \A x \in D : r[x] < n => f[x] = F[x][f]
           S == {n \in Nat : \E f \in [D -> V] : Upto(n, f)}
<1> USE DEF Recursive, Solution
<1>1. 0 \in S
  <2>0. PICK any : any \in V
    OBVIOUS
  <2>1. [x \in D |-> any] \in [D -> V]
    BY <2>0
  <2>2. Upto(0, [x \in D |-> any])
    OBVIOUS
  <2> HIDE DEF Upto
  <2> QED
    BY <2>1, <2>2
<1>2. ASSUME NEW n \in Nat, n \in S PROVE n + 1 \in S
  <2>1. PICK f \in [D -> V] : Upto(n, f)
    <3> HIDE DEF Upto
    <3> QED
      BY <1>2
  <2> DEFINE g == [x \in D |-> IF r[x] < n THEN f[x] ELSE F[x][f]]
  <2>2. g \in [D -> V]
    OBVIOUS
  <2>3. ASSUME NEW x \in D, r[x] < n + 1 PROVE g[x] = F[x][g]
    <3>1. g[x] = F[x][f]
      BY <2>1
    <3>2. \A y \in D : r[y] < r[x] => f[y] = g[y]
      BY <2>3
    <3> HIDE DEF g
    <3> QED
      BY <2>2, <3>1, <3>2
  <2>4. Upto(n + 1, g)
    BY <2>3
  <2> HIDE DEF Upto, g
  <2> QED
    BY <2>2, <2>4
<1>3. m + 1 \in S
  <2> HIDE DEF S
  <2> QED
    BY <1>1, <1>2, SetInduction
<1>4. PICK f \in [D -> V] : Upto(m + 1, f)
  <2> HIDE DEF Upto
  <2> QED
    BY <1>3
<1>5. \A x \in D : r[x] < m + 1
  OBVIOUS
<1> QED
  BY <1>4, <1>5

-----------------------------------------------------------------------------
(* The loops of the heap                                                   *)

\* A turn of the loop upwards: the parent is moved into the gap, or the node is put there.
Stays(pool, h, k, node) == k = 1 \/ pool[h[k \div 2]].total <= pool[node].total
Move(h, k, p) == [h EXCEPT ![k] = h[p]]
Put(h, k, node) == [h EXCEPT ![k] = node]

UpTurn(pool, n, node, up, k) ==
  [h \in [1..n -> Nat] |-> IF Stays(pool, h, k, node) THEN Put(h, k, node)
                           ELSE up[k \div 2][Move(h, k, k \div 2)]]

\* The loop upwards does what its body says.
LEMMA UpAt ==
  ASSUME NEW pool, NEW n \in Nat, NEW node \in Nat, NEW i \in 1..n
  PROVE  Up(pool, n, node)[i] = UpTurn(pool, n, node, Up(pool, n, node), i)
<1> DEFINE D == 1..n
           A == [1..n -> Nat]
           V == [A -> A]
           At1(f, k) == UpTurn(pool, n, node, f, k)
           F == [k \in D |-> [f \in [D -> V] |-> At1(f, k)]]
           r == [k \in D |-> k]
<1>1. \A k \in D : k # 1 => k \div 2 \in D /\ k \div 2 < k
  OBVIOUS
<1>2. ASSUME NEW k \in D, NEW f \in [D -> V] PROVE At1(f, k) \in V
  <2>1. ASSUME NEW h \in A, ~Stays(pool, h, k, node)
        PROVE  f[k \div 2][Move(h, k, k \div 2)] \in A
    <3>1. k \div 2 \in D
      BY <1>1, <2>1 DEF Stays
    <3>2. f[k \div 2] \in V /\ Move(h, k, k \div 2) \in A
      BY <3>1 DEF Move
    <3> QED
      BY <3>2
  <2>2. \A h \in A : Put(h, k, node) \in A
    BY DEF Put
  <2> QED
    BY <2>1, <2>2 DEF UpTurn
<1>3. F \in [D -> [[D -> V] -> V]]
  <2> HIDE DEF At1, V
  <2> QED
    BY <1>2
<1>4. ASSUME NEW k \in D, NEW f \in [D -> V], NEW g \in [D -> V],
             \A j \in D : r[j] < r[k] => f[j] = g[j]
      PROVE  At1(f, k) = At1(g, k)
  <2>1. ASSUME k # 1 PROVE f[k \div 2] = g[k \div 2]
    BY <1>1, <1>4, <2>1
  <2>2. k = 1 => \A h \in A : Stays(pool, h, k, node)
    BY DEF Stays
  <2> QED
    BY <2>1, <2>2 DEF UpTurn
<1>5. V # {}
  <2>1. [h \in A |-> h] \in V
    OBVIOUS
  <2> QED
    BY <2>1
<1>6. \A k \in D : \A f \in [D -> V] : F[k][f] = At1(f, k)
  <2> HIDE DEF At1, V
  <2> QED
    OBVIOUS
<1>7. r \in [D -> 0..n]
  OBVIOUS
<1>8. \E f : Solution(D, V, F, f)
  <2>1. \A k \in D : \A f, g \in [D -> V] :
          (\A j \in D : r[j] < r[k] => f[j] = g[j]) => F[k][f] = F[k][g]
    <3> HIDE DEF At1, V, r, F, D
    <3> QED
      BY <1>4, <1>6
  <2>2. Recursive(D, V, r, F)
    <3> HIDE DEF F, r, V, D
    <3> QED
      BY <1>3, <2>1 DEF Recursive
  <2> HIDE DEF F, r, V, D
  <2> QED
    BY <1>5, <1>7, <2>2, Recursion, Zenon
<1>9. PICK f : f = [k \in D |-> At1(f, k)]
  <2>1. PICK f \in [D -> V] : \A k \in D : f[k] = At1(f, k)
    <3> HIDE DEF At1, V
    <3> QED
      BY <1>6, <1>8 DEF Solution
  <2>2. f = [k \in D |-> At1(f, k)]
    <3> HIDE DEF At1, V
    <3> QED
      BY <2>1
  <2> QED
    BY <2>2
<1> DEFINE up == Up(pool, n, node)
<1>10. up = [k \in D |-> At1(up, k)]
  BY <1>9 DEF Up, UpTurn, Stays, Put, Move
<1>11. up[i] = At1(up, i)
  <2> HIDE DEF up, At1
  <2> QED
    BY <1>10
<1> QED
  BY <1>11

\* bubbleUp ends where the parent does not come after the node.
LEMMA UpStays ==
  ASSUME NEW pool, NEW n \in Nat, NEW node \in Nat, NEW i \in 1..n, NEW heap \in [1..n -> Nat],
         Stays(pool, heap, i, node)
  PROVE  Up(pool, n, node)[i][heap] = Put(heap, i, node)
<1>1. Up(pool, n, node)[i] = UpTurn(pool, n, node, Up(pool, n, node), i)
  BY UpAt
<1>2. UpTurn(pool, n, node, Up(pool, n, node), i)[heap] = Put(heap, i, node)
  BY DEF UpTurn
<1> QED
  BY <1>1, <1>2
\* It goes on from the parent's place, with the parent moved down.
LEMMA UpRises ==
  ASSUME NEW pool, NEW n \in Nat, NEW node \in Nat, NEW i \in 1..n, NEW heap \in [1..n -> Nat],
         ~Stays(pool, heap, i, node)
  PROVE  Up(pool, n, node)[i][heap] = Up(pool, n, node)[i \div 2][Move(heap, i, i \div 2)]
<1>1. Up(pool, n, node)[i] = UpTurn(pool, n, node, Up(pool, n, node), i)
  BY UpAt
<1>2. UpTurn(pool, n, node, Up(pool, n, node), i)[heap] =
        Up(pool, n, node)[i \div 2][Move(heap, i, i \div 2)]
  BY DEF UpTurn
<1> QED
  BY <1>1, <1>2

\* A heap with other contents in the same places, or the same in other places.
Within(h) == {h[j] : j \in DOMAIN h}
Once(h) == \A i, j \in DOMAIN h : h[i] = h[j] => i = j
Rearranged(g, h) == Within(g) = Within(h) /\ (Once(h) => Once(g))

\* Moving and putting keep the heap one of the same nodes.
LEMMA MoveAndPut ==
  ASSUME NEW n \in Nat, NEW X, NEW h \in [1..n -> X], NEW k \in 1..n, NEW p \in 1..n,
         NEW node \in X
  PROVE  Move(h, k, p) \in [1..n -> X] /\ Put(h, k, node) \in [1..n -> X]
BY DEF Move, Put

\* What is moved into the gap leaves another.
LEMMA Swap ==
  ASSUME NEW n \in Nat, NEW X, NEW h \in [1..n -> X], NEW k \in 1..n, NEW p \in 1..n, k # p,
         NEW node \in X
  PROVE  Rearranged(Put(Move(h, k, p), p, node), Put(h, k, node))
<1> DEFINE g == Put(Move(h, k, p), p, node)
           f == Put(h, k, node)
<1>1. /\ DOMAIN g = 1..n /\ DOMAIN f = 1..n
      /\ g[k] = f[p] /\ g[p] = f[k] /\ \A j \in 1..n : j # k /\ j # p => g[j] = f[j]
  BY DEF Put, Move
<1> HIDE DEF g, f
<1>2. Within(g) = Within(f)
  BY <1>1 DEF Within
<1>3. Once(f) => Once(g)
  BY <1>1 DEF Once
<1> QED
  BY <1>2, <1>3 DEF Rearranged, g, f

\* A rearrangement of a rearrangement is one.
LEMMA Again ==
  ASSUME NEW f, NEW g, NEW h, Rearranged(f, g), Rearranged(g, h)
  PROVE  Rearranged(f, h)
BY DEF Rearranged

\* bubbleUp leaves the nodes there would be with the node put into the gap.
LEMMA UpRearranges ==
  ASSUME NEW pool, NEW n \in Nat, NEW X \in SUBSET Nat, NEW node \in X,
         NEW k \in 1..n, NEW h \in [1..n -> X]
  PROVE  /\ Up(pool, n, node)[k][h] \in [1..n -> X]
         /\ Rearranged(Up(pool, n, node)[k][h], Put(h, k, node))
<1> DEFINE up == Up(pool, n, node)
           Good(j, g) == up[j][g] \in [1..n -> X] /\ Rearranged(up[j][g], Put(g, j, node))
           S == {m \in Nat : \A j \in 1..n : \A g \in [1..n -> X] : j <= m => Good(j, g)}
<1>1. 0 \in S
  OBVIOUS
<1>2. ASSUME NEW m \in Nat, m \in S PROVE m + 1 \in S
  <2> SUFFICES ASSUME NEW j \in 1..n, NEW g \in [1..n -> X], j <= m + 1
               PROVE  Good(j, g)
    BY <1>2
  <2> DEFINE p == j \div 2
  <2>1. g \in [1..n -> Nat] /\ node \in Nat
    OBVIOUS
  <2>2. CASE Stays(pool, g, j, node)
    <3>1. up[j][g] = Put(g, j, node)
      BY <2>1, <2>2, UpStays
    <3> QED
      BY <3>1 DEF Rearranged, Put
  <2>3. CASE ~Stays(pool, g, j, node)
    <3>1. p \in 1..n /\ p # j /\ p <= m
      BY <2>3 DEF Stays
    <3>2. up[j][g] = up[p][Move(g, j, p)]
      <4>1. /\ n \in Nat /\ node \in Nat /\ j \in 1..n /\ g \in [1..n -> Nat]
            /\ ~Stays(pool, g, j, node)
        BY <2>1, <2>3
      <4> HIDE DEF Good, S
      <4> QED
        BY ONLY <4>1, UpRises
    <3>3. Move(g, j, p) \in [1..n -> X]
      BY <3>1, MoveAndPut
    <3>4. Good(p, Move(g, j, p))
      BY <1>2, <3>1, <3>3
    <3>5. Rearranged(Put(Move(g, j, p), p, node), Put(g, j, node))
      BY <3>1, Swap
    <3> QED
      BY <3>2, <3>4, <3>5, Again
  <2> HIDE DEF Good, up
  <2> QED
    BY <2>2, <2>3
<1>3. n \in S
  <2> HIDE DEF S
  <2> QED
    BY <1>1, <1>2, SetInduction
<1>4. Good(k, h)
  <2> HIDE DEF Good
  <2> QED
    BY <1>3
<1> QED
  BY <1>4

-----------------------------------------------------------------------------
Key(pool, x) == pool[x].total
Keys(pool, X) == \A x \in X : Key(pool, x) \in Nat

\* No node comes before its parent.
Ordered(pool, n, h) == \A j \in 2..n : Key(pool, h[j \div 2]) <= Key(pool, h[j])

\* The same without the gap, whose parent comes before its children.
Gap(pool, n, h, k) ==
  /\ \A j \in 2..n : j # k /\ j \div 2 # k => Key(pool, h[j \div 2]) <= Key(pool, h[j])
  /\ \A j \in 2..n : j \div 2 = k /\ k # 1 => Key(pool, h[k \div 2]) <= Key(pool, h[j])

\* The node may be put above the children of the gap.
NodeFits(pool, n, h, k, node) == \A j \in 2..n : j \div 2 = k => Key(pool, node) <= Key(pool, h[j])

\* A place other than the first is after its parent's.
LEMMA Halved ==
  ASSUME NEW n \in Nat, NEW j \in 2..n
  PROVE  j \in 1..n /\ j # 1 /\ j \div 2 \in 1..n /\ j \div 2 < j
OBVIOUS

\* A node that comes after the gap's parent and before its children can be put there.
LEMMA PutOrders ==
  ASSUME NEW pool, NEW n \in Nat, NEW X, NEW node \in X, NEW k \in 1..n, NEW h \in [1..n -> X],
         Keys(pool, X), Gap(pool, n, h, k), NodeFits(pool, n, h, k, node), Stays(pool, h, k, node)
  PROVE  Ordered(pool, n, Put(h, k, node))
<1> DEFINE g == Put(h, k, node)
<1>1. g[k] = node /\ \A j \in 1..n : j # k => g[j] = h[j]
  BY DEF Put
<1> HIDE DEF g
<1> SUFFICES ASSUME NEW j \in 2..n PROVE Key(pool, g[j \div 2]) <= Key(pool, g[j])
  BY DEF Ordered, g
<1>2. j \in 1..n /\ j # 1 /\ j \div 2 \in 1..n /\ j \div 2 < j
  BY Halved
<1>3. CASE j = k
  <2>1. Key(pool, h[j \div 2]) <= Key(pool, node)
    BY <1>2, <1>3 DEF Stays, Key
  <2> QED
    BY <1>1, <1>2, <1>3, <2>1
<1>4. CASE j \div 2 = k
  <2>1. Key(pool, node) <= Key(pool, h[j])
    BY <1>4 DEF NodeFits
  <2> QED
    BY <1>1, <1>2, <1>4, <2>1
<1>5. CASE j # k /\ j \div 2 # k
  <2>1. Key(pool, h[j \div 2]) <= Key(pool, h[j])
    BY <1>5 DEF Gap
  <2> QED
    BY <1>1, <1>2, <1>5, <2>1
<1> QED
  BY <1>3, <1>4, <1>5

\* The parent moves into the gap, which moves up.
LEMMA RiseKeepsGap ==
  ASSUME NEW pool, NEW n \in Nat, NEW X, NEW node \in X, NEW k \in 1..n, NEW h \in [1..n -> X],
         Keys(pool, X), Gap(pool, n, h, k), NodeFits(pool, n, h, k, node), ~Stays(pool, h, k, node)
  PROVE  /\ Gap(pool, n, Move(h, k, k \div 2), k \div 2)
         /\ NodeFits(pool, n, Move(h, k, k \div 2), k \div 2, node)
<1> DEFINE p == k \div 2
           g == Move(h, k, p)
<1>1. k \in 2..n /\ p \in 1..n /\ p < k
  BY DEF Stays
<1>2. g[k] = h[p] /\ \A j \in 1..n : j # k => g[j] = h[j]
  BY DEF Move
<1>3. \A j \in 1..n : Key(pool, h[j]) \in Nat
  BY DEF Keys
<1>4. Key(pool, node) < Key(pool, h[p]) /\ Key(pool, node) \in Nat
  BY <1>1, <1>3 DEF Stays, Key, Keys
<1>5. p # 1 => p \in 2..n /\ p \div 2 \in 1..n /\ p \div 2 < p /\ p \div 2 # k
  BY <1>1
<1>6. p # 1 => Key(pool, h[p \div 2]) <= Key(pool, h[p])
  BY <1>1, <1>5 DEF Gap
<1> HIDE DEF p, g
<1>7. ASSUME NEW j \in 2..n, j # p, j \div 2 # p
      PROVE  Key(pool, g[j \div 2]) <= Key(pool, g[j])
  <2>1. j \in 1..n /\ j \div 2 \in 1..n /\ j # k
    BY <1>7, Halved DEF p
  <2>2. CASE j \div 2 = k
    <3>1. Key(pool, h[p]) <= Key(pool, h[j])
      BY <1>1, <2>2 DEF Gap, p
    <3> QED
      BY <1>2, <2>1, <2>2, <3>1
  <2>3. CASE j \div 2 # k
    <3>1. Key(pool, h[j \div 2]) <= Key(pool, h[j])
      BY <2>1, <2>3 DEF Gap
    <3> QED
      BY <1>2, <2>1, <2>3, <3>1
  <2> QED
    BY <2>2, <2>3
<1>8. ASSUME NEW j \in 2..n, j \div 2 = p
      PROVE  Key(pool, h[p]) <= Key(pool, g[j])
  <2>1. CASE j = k
    BY <1>1, <1>2, <1>3, <2>1
  <2>2. CASE j # k
    <3>1. Key(pool, h[j \div 2]) <= Key(pool, h[j])
      BY <1>1, <1>8, <2>2 DEF Gap
    <3>2. j \in 1..n
      OBVIOUS
    <3> QED
      BY <1>2, <1>8, <2>2, <3>1, <3>2
  <2> QED
    BY <2>1, <2>2
<1>9. \A j \in 2..n : Key(pool, g[j]) \in Nat
  <2>1. \A j \in 2..n : j \in 1..n
    OBVIOUS
  <2> QED
    BY <1>1, <1>2, <1>3, <2>1
<1>10. Gap(pool, n, g, p)
  <2>1. ASSUME NEW j \in 2..n, j \div 2 = p, p # 1
        PROVE  Key(pool, g[p \div 2]) <= Key(pool, g[j])
    <3>1. g[p \div 2] = h[p \div 2] /\ Key(pool, h[p \div 2]) \in Nat /\ Key(pool, h[p]) \in Nat
      BY <1>1, <1>2, <1>3, <1>5, <2>1
    <3>2. Key(pool, h[p]) <= Key(pool, g[j]) /\ Key(pool, g[j]) \in Nat
      BY <1>8, <1>9, <2>1
    <3> QED
      BY <1>6, <2>1, <3>1, <3>2
  <2> QED
    BY <1>7, <2>1 DEF Gap
<1>11. NodeFits(pool, n, g, p, node)
  <2> SUFFICES ASSUME NEW j \in 2..n, j \div 2 = p PROVE Key(pool, node) <= Key(pool, g[j])
    BY DEF NodeFits
  <2>1. Key(pool, h[p]) <= Key(pool, g[j]) /\ Key(pool, g[j]) \in Nat /\ Key(pool, h[p]) \in Nat
    BY <1>1, <1>3, <1>8, <1>9
  <2> QED
    BY <1>4, <2>1
<1> QED
  BY <1>10, <1>11 DEF g, p

\* bubbleUp puts a heap in order that is so but for the gap.
LEMMA UpOrders ==
  ASSUME NEW pool, NEW n \in Nat, NEW X \in SUBSET Nat, NEW node \in X,
         NEW k \in 1..n, NEW h \in [1..n -> X],
         Keys(pool, X), Gap(pool, n, h, k), NodeFits(pool, n, h, k, node)
  PROVE  Ordered(pool, n, Up(pool, n, node)[k][h])
<1> DEFINE up == Up(pool, n, node)
           Good(j, g) == Gap(pool, n, g, j) /\ NodeFits(pool, n, g, j, node) => Ordered(pool, n, up[j][g])
           S == {m \in Nat : \A j \in 1..n : \A g \in [1..n -> X] : j <= m => Good(j, g)}
<1>1. 0 \in S
  OBVIOUS
<1>2. ASSUME NEW m \in Nat, m \in S PROVE m + 1 \in S
  <2> SUFFICES ASSUME NEW j \in 1..n, NEW g \in [1..n -> X], j <= m + 1,
                      Gap(pool, n, g, j), NodeFits(pool, n, g, j, node)
               PROVE  Ordered(pool, n, up[j][g])
    BY <1>2
  <2> DEFINE p == j \div 2
  <2>1. g \in [1..n -> Nat] /\ node \in Nat
    OBVIOUS
  <2>2. CASE Stays(pool, g, j, node)
    <3>1. up[j][g] = Put(g, j, node)
      BY <2>1, <2>2, UpStays
    <3> QED
      BY <2>2, <3>1, PutOrders
  <2>3. CASE ~Stays(pool, g, j, node)
    <3>1. p \in 1..n /\ p <= m
      <4>1. j # 1
        BY <2>3 DEF Stays
      <4> QED
        BY <4>1
    <3>2. up[j][g] = up[p][Move(g, j, p)]
      <4>1. n \in Nat /\ j \in 1..n
        OBVIOUS
      <4> QED
        BY ONLY <2>1, <2>3, <4>1, UpRises
    <3>3. Move(g, j, p) \in [1..n -> X]
      BY <3>1, MoveAndPut
    <3>4. Gap(pool, n, Move(g, j, p), p) /\ NodeFits(pool, n, Move(g, j, p), p, node)
      BY <2>3, RiseKeepsGap
    <3>5. Good(p, Move(g, j, p))
      BY <1>2, <3>1, <3>3
    <3> QED
      BY <3>2, <3>4, <3>5
  <2> QED
    BY <2>2, <2>3
<1>3. n \in S
  <2> HIDE DEF S
  <2> QED
    BY <1>1, <1>2, SetInduction
<1>4. Good(k, h)
  <2> HIDE DEF Good
  <2> QED
    BY <1>3
<1> QED
  BY <1>4

-----------------------------------------------------------------------------
(* The loop downwards                                                      *)

\* The child trickleDown goes on with is one of the gap's.
LEMMA LesserChildIs ==
  ASSUME NEW pool, NEW n \in Nat, NEW h, NEW k \in 1..n, 2 * k <= n
  PROVE  LET c == LesserChild(pool, n, h, k) IN c \in 2..n /\ c \in 1..n /\ k < c /\ c \div 2 = k
<1> DEFINE c == LesserChild(pool, n, h, k)
<1>1. c = 2 * k \/ (c = 2 * k + 1 /\ 2 * k < n)
  BY DEF LesserChild
<1> QED
  BY <1>1

\* No child comes before it.
LEMMA LesserChildIsLeast ==
  ASSUME NEW pool, NEW n \in Nat, NEW X, NEW h \in [1..n -> X], NEW k \in 1..n, 2 * k <= n,
         Keys(pool, X), NEW j \in 2..n, j \div 2 = k
  PROVE  Key(pool, h[LesserChild(pool, n, h, k)]) <= Key(pool, h[j])
<1> DEFINE c == LesserChild(pool, n, h, k)
<1>1. j = 2 * k \/ (j = 2 * k + 1 /\ 2 * k < n)
  OBVIOUS
<1>2. 2 * k \in 1..n /\ Key(pool, h[2 * k]) \in Nat
  BY DEF Keys
<1>3. 2 * k < n => Key(pool, h[2 * k + 1]) \in Nat
  BY DEF Keys
<1>4. CASE 2 * k < n /\ Key(pool, h[2 * k]) > Key(pool, h[2 * k + 1])
  <2>1. c = 2 * k + 1
    BY <1>4 DEF LesserChild, Key
  <2> QED
    BY <1>1, <1>2, <1>3, <1>4, <2>1
<1>5. CASE ~(2 * k < n /\ Key(pool, h[2 * k]) > Key(pool, h[2 * k + 1]))
  <2>1. c = 2 * k
    BY <1>5 DEF LesserChild, Key
  <2> QED
    BY <1>1, <1>2, <1>3, <1>5, <2>1
<1> QED
  BY <1>4, <1>5

DownTurn(pool, n, node, down, k) ==
  [h \in [1..n -> Nat] |->
     IF 2 * k > n THEN Up(pool, n, node)[k][h]
     ELSE down[LesserChild(pool, n, h, k)][Move(h, k, LesserChild(pool, n, h, k))]]

\* The loop downwards does what its body says.
LEMMA DownAt ==
  ASSUME NEW pool, NEW n \in Nat, NEW node \in Nat, NEW i \in 1..n
  PROVE  Down(pool, n, node)[i] = DownTurn(pool, n, node, Down(pool, n, node), i)
<1> DEFINE D == 1..n
           A == [1..n -> Nat]
           V == [A -> A]
           At1(f, k) == DownTurn(pool, n, node, f, k)
           F == [k \in D |-> [f \in [D -> V] |-> At1(f, k)]]
           r == [k \in D |-> n - k]
<1>1. ASSUME NEW k \in D, NEW h \in A, 2 * k <= n
      PROVE  LesserChild(pool, n, h, k) \in D /\ k < LesserChild(pool, n, h, k)
  BY <1>1, LesserChildIs
<1>2. ASSUME NEW k \in D, NEW f \in [D -> V] PROVE At1(f, k) \in V
  <2> DEFINE Next1(h) == f[LesserChild(pool, n, h, k)][Move(h, k, LesserChild(pool, n, h, k))]
  <2>1. ASSUME NEW h \in A, 2 * k <= n PROVE Next1(h) \in A
    <3> DEFINE c == LesserChild(pool, n, h, k)
    <3>1. c \in D
      BY <1>1, <2>1
    <3>2. f[c] \in V /\ Move(h, k, c) \in A
      BY <3>1 DEF Move
    <3> QED
      BY <3>2
  <2>2. \A h \in A : Up(pool, n, node)[k][h] \in A
    BY UpRearranges
  <2>3. At1(f, k) = [h \in A |-> IF 2 * k > n THEN Up(pool, n, node)[k][h] ELSE Next1(h)]
    BY DEF DownTurn
  <2> HIDE DEF At1, Next1
  <2>4. \A h \in A : (IF 2 * k > n THEN Up(pool, n, node)[k][h] ELSE Next1(h)) \in A
    <3>1. CASE 2 * k > n
      BY <2>2, <3>1
    <3>2. CASE ~(2 * k > n)
      <4> HIDE DEF A
      <4> QED
        BY <2>1, <3>2
    <3> QED
      BY <3>1, <3>2
  <2> QED
    BY <2>3, <2>4
<1>3. F \in [D -> [[D -> V] -> V]]
  <2> HIDE DEF At1, V
  <2> QED
    BY <1>2
<1>4. ASSUME NEW k \in D, NEW f \in [D -> V], NEW g \in [D -> V],
             \A j \in D : r[j] < r[k] => f[j] = g[j]
      PROVE  At1(f, k) = At1(g, k)
  <2>1. ASSUME NEW h \in A, 2 * k <= n
        PROVE  f[LesserChild(pool, n, h, k)] = g[LesserChild(pool, n, h, k)]
    <3> DEFINE c == LesserChild(pool, n, h, k)
    <3>1. c \in D /\ k < c
      BY <1>1, <2>1
    <3> HIDE DEF c
    <3>2. f[c] = g[c]
      BY <1>4, <3>1
    <3> QED
      BY <3>2 DEF c
  <2> DEFINE Next1(e, h) == e[LesserChild(pool, n, h, k)][Move(h, k, LesserChild(pool, n, h, k))]
             Value(e, h) == IF 2 * k > n THEN Up(pool, n, node)[k][h] ELSE Next1(e, h)
  <2>2. \A h \in A : 2 * k <= n => Next1(f, h) = Next1(g, h)
    BY <2>1
  <2>3. At1(f, k) = [h \in A |-> Value(f, h)] /\ At1(g, k) = [h \in A |-> Value(g, h)]
    BY DEF DownTurn
  <2> HIDE DEF At1, Next1
  <2>4. \A h \in A : Value(f, h) = Value(g, h)
    <3>1. CASE 2 * k > n
      BY <3>1
    <3>2. CASE ~(2 * k > n)
      BY <2>2, <3>2
    <3> QED
      BY <3>1, <3>2
  <2> QED
    BY <2>3, <2>4
<1>5. V # {}
  <2>1. [h \in A |-> h] \in V
    OBVIOUS
  <2> QED
    BY <2>1
<1>6. \A k \in D : \A f \in [D -> V] : F[k][f] = At1(f, k)
  <2> HIDE DEF At1, V
  <2> QED
    OBVIOUS
<1>7. r \in [D -> 0..n]
  OBVIOUS
<1>8. \E f : Solution(D, V, F, f)
  <2>1. \A k \in D : \A f, g \in [D -> V] :
          (\A j \in D : r[j] < r[k] => f[j] = g[j]) => F[k][f] = F[k][g]
    <3> HIDE DEF At1, V, r, F, D
    <3> QED
      BY <1>4, <1>6
  <2>2. Recursive(D, V, r, F)
    <3> HIDE DEF F, r, V, D
    <3> QED
      BY <1>3, <2>1 DEF Recursive
  <2> HIDE DEF F, r, V, D
  <2> QED
    BY <1>5, <1>7, <2>2, Recursion, Zenon
<1>9. PICK f : f = [k \in D |-> At1(f, k)]
  <2>1. PICK f \in [D -> V] : \A k \in D : f[k] = At1(f, k)
    <3> HIDE DEF At1, V
    <3> QED
      BY <1>6, <1>8 DEF Solution
  <2>2. f = [k \in D |-> At1(f, k)]
    <3> HIDE DEF At1, V
    <3> QED
      BY <2>1
  <2> QED
    BY <2>2
<1> DEFINE down == Down(pool, n, node)
<1>10. down = [k \in D |-> At1(down, k)]
  BY <1>9 DEF Down, DownTurn, Move
<1>11. down[i] = At1(down, i)
  <2> HIDE DEF down, At1
  <2> QED
    BY <1>10
<1> QED
  BY <1>11

\* The lesser child moves into the gap, which moves down.
LEMMA SinkKeepsGap ==
  ASSUME NEW pool, NEW n \in Nat, NEW X, NEW k \in 1..n, NEW h \in [1..n -> X], 2 * k <= n,
         Keys(pool, X), Gap(pool, n, h, k)
  PROVE  LET c == LesserChild(pool, n, h, k) IN Gap(pool, n, Move(h, k, c), c)
<1> DEFINE c == LesserChild(pool, n, h, k)
           g == Move(h, k, c)
<1>1. c \in 2..n /\ c \in 1..n /\ k < c /\ c \div 2 = k
  BY LesserChildIs
<1>2. \A j \in 2..n : j \div 2 = k => Key(pool, h[c]) <= Key(pool, h[j])
  BY LesserChildIsLeast
<1>3. g[k] = h[c] /\ \A j \in 1..n : j # k => g[j] = h[j]
  BY <1>1 DEF Move
<1> HIDE DEF c, g
<1>4. ASSUME NEW j \in 2..n, j # c, j \div 2 # c
      PROVE  Key(pool, g[j \div 2]) <= Key(pool, g[j])
  <2>1. j \in 1..n /\ j \div 2 \in 1..n /\ j \div 2 < j
    BY Halved
  <2>2. CASE j \div 2 = k
    <3>1. Key(pool, h[c]) <= Key(pool, h[j])
      BY <1>2, <2>2
    <3> QED
      BY <1>3, <2>1, <2>2, <3>1
  <2>3. CASE j = k
    <3>1. Key(pool, h[k \div 2]) <= Key(pool, h[c])
      BY <1>1, <2>3 DEF Gap
    <3> QED
      BY <1>3, <2>1, <2>3, <3>1
  <2>4. CASE j # k /\ j \div 2 # k
    <3>1. Key(pool, h[j \div 2]) <= Key(pool, h[j])
      BY <2>4 DEF Gap
    <3> QED
      BY <1>3, <2>1, <2>4, <3>1
  <2> QED
    BY <2>2, <2>3, <2>4
<1>5. ASSUME NEW j \in 2..n, j \div 2 = c
      PROVE  Key(pool, g[c \div 2]) <= Key(pool, g[j])
  <2>1. j \in 1..n /\ j # k /\ c # k
    BY <1>1, <1>5
  <2>2. Key(pool, h[c]) <= Key(pool, h[j])
    BY <1>5, <2>1 DEF Gap
  <2> QED
    BY <1>1, <1>3, <2>1, <2>2
<1>6. Gap(pool, n, g, c)
  BY <1>4, <1>5 DEF Gap
<1> QED
  BY <1>6 DEF c, g

\* Where the gap has no children trickleDown goes on as bubbleUp.
LEMMA DownStops ==
  ASSUME NEW pool, NEW n \in Nat, NEW node \in Nat, NEW k \in 1..n, NEW h \in [1..n -> Nat],
         2 * k > n
  PROVE  Down(pool, n, node)[k][h] = Up(pool, n, node)[k][h]
<1>1. Down(pool, n, node)[k] = DownTurn(pool, n, node, Down(pool, n, node), k)
  BY DownAt
<1>2. DownTurn(pool, n, node, Down(pool, n, node), k)[h] = Up(pool, n, node)[k][h]
  BY DEF DownTurn
<1> QED
  BY <1>1, <1>2

\* Elsewhere the lesser child moves into the gap.
LEMMA DownSinks ==
  ASSUME NEW pool, NEW n \in Nat, NEW node \in Nat, NEW k \in 1..n, NEW h \in [1..n -> Nat],
         2 * k <= n
  PROVE  Down(pool, n, node)[k][h] =
           Down(pool, n, node)[LesserChild(pool, n, h, k)][Move(h, k, LesserChild(pool, n, h, k))]
<1> DEFINE down == Down(pool, n, node)
<1>1. down[k] = DownTurn(pool, n, node, down, k)
  BY DownAt
<1>2. DownTurn(pool, n, node, down, k)[h] =
        down[LesserChild(pool, n, h, k)][Move(h, k, LesserChild(pool, n, h, k))]
  <2> HIDE DEF down
  <2> QED
    BY DEF DownTurn
<1> QED
  BY <1>1, <1>2

\* trickleDown puts the heap in order, with the nodes there would be with the node put in.
LEMMA DownKeeps ==
  ASSUME NEW pool, NEW n \in Nat, NEW X \in SUBSET Nat, NEW node \in X, Keys(pool, X),
         NEW k \in 1..n, NEW h \in [1..n -> X], Gap(pool, n, h, k)
  PROVE  /\ Down(pool, n, node)[k][h] \in [1..n -> X]
         /\ Rearranged(Down(pool, n, node)[k][h], Put(h, k, node))
         /\ Ordered(pool, n, Down(pool, n, node)[k][h])
<1> DEFINE down == Down(pool, n, node)
           Good(j, g) == /\ down[j][g] \in [1..n -> X]
                         /\ Rearranged(down[j][g], Put(g, j, node))
                         /\ Ordered(pool, n, down[j][g])
           S == {m \in Nat : \A j \in 1..n : \A g \in [1..n -> X] :
                               n - j < m /\ Gap(pool, n, g, j) => Good(j, g)}
<1>1. 0 \in S
  OBVIOUS
<1>2. ASSUME NEW m \in Nat, m \in S PROVE m + 1 \in S
  <2> SUFFICES ASSUME NEW j \in 1..n, NEW g \in [1..n -> X], n - j < m + 1, Gap(pool, n, g, j)
               PROVE  Good(j, g)
    BY <1>2
  <2>1. g \in [1..n -> Nat] /\ node \in Nat
    OBVIOUS
  <2>2. CASE 2 * j > n
    <3>1. down[j][g] = Up(pool, n, node)[j][g]
      BY <2>1, <2>2, DownStops
    <3>2. NodeFits(pool, n, g, j, node)
      <4>1. \A i \in 2..n : i \div 2 # j
        BY <2>2
      <4> QED
        BY <4>1 DEF NodeFits
    <3> HIDE DEF down
    <3>3. /\ Up(pool, n, node)[j][g] \in [1..n -> X]
          /\ Rearranged(Up(pool, n, node)[j][g], Put(g, j, node))
      BY UpRearranges
    <3>4. Ordered(pool, n, Up(pool, n, node)[j][g])
      BY <3>2, UpOrders
    <3> QED
      BY <3>1, <3>3, <3>4
  <2>3. CASE 2 * j <= n
    <3> DEFINE c == LesserChild(pool, n, g, j)
    <3>1. c \in 1..n /\ j < c
      BY <2>3, LesserChildIs
    <3>2. down[j][g] = down[c][Move(g, j, c)]
      BY <2>1, <2>3, DownSinks
    <3>3. Gap(pool, n, Move(g, j, c), c)
      BY <2>3, SinkKeepsGap
    <3> HIDE DEF c
    <3>4. Move(g, j, c) \in [1..n -> X]
      BY <3>1, MoveAndPut
    <3>5. n - c < m
      BY <3>1
    <3>6. Good(c, Move(g, j, c))
      <4> HIDE DEF Good
      <4> QED
        BY <1>2, <3>1, <3>3, <3>4, <3>5
    <3>7. Rearranged(Put(Move(g, j, c), c, node), Put(g, j, node))
      BY <3>1, Swap
    <3> HIDE DEF down
    <3> QED
      BY <3>2, <3>6, <3>7, Again
  <2> QED
    BY <2>2, <2>3
<1>3. n + 1 \in S
  <2> HIDE DEF S
  <2> QED
    BY <1>1, <1>2, SetInduction
<1>4. n - k < n + 1
  OBVIOUS
<1>5. Good(k, h)
  <2> HIDE DEF Good
  <2> QED
    BY <1>3, <1>4
<1> QED
  BY <1>5

\* The node at the top is the least.
LEMMA TopIsLeast ==
  ASSUME NEW pool, NEW n \in Nat, NEW X, NEW h \in [1..n -> X], Keys(pool, X),
         Ordered(pool, n, h), NEW k \in 1..n
  PROVE  Key(pool, h[1]) <= Key(pool, h[k])
<1> DEFINE S == {m \in Nat : \A j \in 1..n : j <= m => Key(pool, h[1]) <= Key(pool, h[j])}
<1>0. \A j \in 1..n : Key(pool, h[j]) \in Nat
  BY DEF Keys
<1>1. 0 \in S
  OBVIOUS
<1>2. ASSUME NEW m \in Nat, m \in S PROVE m + 1 \in S
  <2> SUFFICES ASSUME NEW j \in 1..n, j <= m + 1 PROVE Key(pool, h[1]) <= Key(pool, h[j])
    BY <1>2
  <2>1. CASE j = 1
    BY <1>0, <2>1
  <2>2. CASE j # 1
    <3>1. j \in 2..n /\ j \div 2 \in 1..n /\ j \div 2 <= m /\ 1 \in 1..n
      BY <2>2
    <3>2. Key(pool, h[1]) <= Key(pool, h[j \div 2])
      BY <1>2, <3>1
    <3>3. Key(pool, h[j \div 2]) <= Key(pool, h[j])
      BY <3>1 DEF Ordered
    <3> QED
      BY <1>0, <3>1, <3>2, <3>3
  <2> QED
    BY <2>1, <2>2
<1>3. n \in S
  <2> HIDE DEF S
  <2> QED
    BY <1>1, <1>2, SetInduction
<1> QED
  BY <1>3

-----------------------------------------------------------------------------
(* The open list                                                           *)

\* The list holds every node of X once, none before its parent.
HeapOf(pool, X, h) ==
  /\ X \in SUBSET Nat /\ h \in Seq(X)
  /\ Within(h) = X /\ Once(h) /\ Keys(pool, X) /\ Ordered(pool, Len(h), h)

\* A sequence is a function on its places.
LEMMA Listed ==
  ASSUME NEW X, NEW h \in Seq(X)
  PROVE  Len(h) \in Nat /\ h \in [1..Len(h) -> X] /\ DOMAIN h = 1..Len(h)
OBVIOUS

\* A function on places is a sequence.
LEMMA Listing ==
  ASSUME NEW X, NEW n \in Nat, NEW h \in [1..n -> X]
  PROVE  h \in Seq(X) /\ Len(h) = n /\ DOMAIN h = 1..n
OBVIOUS

\* What Append does to the places of a sequence.
LEMMA Appended ==
  ASSUME NEW X, NEW h \in Seq(X), NEW x \in X
  PROVE  /\ Append(h, x) \in [1..(Len(h) + 1) -> X] /\ Len(Append(h, x)) = Len(h) + 1
         /\ Append(h, x)[Len(h) + 1] = x /\ \A j \in 1..Len(h) : Append(h, x)[j] = h[j]
<1>1. /\ Append(h, x) \in Seq(X) /\ Len(Append(h, x)) = Len(h) + 1
      /\ Append(h, x)[Len(h) + 1] = x /\ \A j \in 1..Len(h) : Append(h, x)[j] = h[j]
  BY AppendProperties
<1> QED
  BY <1>1, Listed

\* A list without its last.
LEMMA Shortened ==
  ASSUME NEW X, NEW h \in Seq(X), h # <<>>
  PROVE  LET left == SubSeq(h, 1, Len(h) - 1)
         IN /\ left \in Seq(X) /\ Len(left) = Len(h) - 1
            /\ \A j \in 1..(Len(h) - 1) : left[j] = h[j]
<1> DEFINE m == Len(h) - 1
           left == SubSeq(h, 1, m)
<1>1. Len(h) \in Nat \ {0}
  BY EmptySeq
<1>2. m \in Nat /\ m \in Int /\ 1 \in Int /\ \A j \in 1..m : h[j] \in X
  BY <1>1
<1>3. /\ left \in Seq(X) /\ Len(left) = IF 1 <= m THEN m - 1 + 1 ELSE 0
      /\ \A j \in 1..(m - 1 + 1) : left[j] = h[1 + j - 1]
  BY <1>2, SubSeqProperties
<1> HIDE DEF left, m
<1>4. m - 1 + 1 = m /\ \A j \in 1..m : 1 + j - 1 = j
  BY <1>2
<1>5. Len(left) = m /\ \A j \in 1..m : left[j] = h[j]
  BY <1>2, <1>3, <1>4
<1> QED
  BY <1>3, <1>5 DEF left, m

\* What a loop of the heap gives is a heap.
LEMMA Reheaped ==
  ASSUME NEW pool, NEW X \in SUBSET Nat, Keys(pool, X), NEW n \in Nat, NEW h \in [1..n -> X],
         NEW g, Rearranged(h, g), Once(g), Within(g) = X, Ordered(pool, n, h)
  PROVE  HeapOf(pool, X, h)
BY Listing DEF HeapOf, Rearranged

\* push adds a node to the heap.
LEMMA PushAdds ==
  ASSUME NEW pool, NEW X, NEW h, HeapOf(pool, X, h), NEW node \in Nat, node \notin X,
         Key(pool, node) \in Nat
  PROVE  HeapOf(pool, X \union {node}, Push(pool, h, node))
<1> DEFINE Y == X \union {node}
           m == Len(h)
           n == m + 1
           g == Append(h, node)
           r == Up(pool, n, node)[n][g]
<1>1. m \in Nat /\ h \in [1..m -> X] /\ DOMAIN h = 1..m /\ X \in SUBSET Nat /\ h \in Seq(X)
  BY Listed DEF HeapOf
<1>2. Y \in SUBSET Nat /\ Keys(pool, Y) /\ node \in Y
  BY DEF HeapOf, Keys
<1>3. /\ g \in [1..n -> Y] /\ Len(g) = n /\ DOMAIN g = 1..n /\ g[n] = node
      /\ \A j \in 1..m : g[j] = h[j]
  <2>1. h \in Seq(Y)
    BY <1>1
  <2> HIDE DEF Y
  <2> QED
    BY <1>2, <2>1, Appended
<1> HIDE DEF g, Y
<1>4. Push(pool, h, node) = r
  BY <1>3 DEF Push, BubbleUp, g
<1>5. n \in Nat /\ n \in 1..n
  BY <1>1
<1>6. Gap(pool, n, g, n)
  <2>1. ASSUME NEW j \in 2..n, j # n, j \div 2 # n
        PROVE  Key(pool, g[j \div 2]) <= Key(pool, g[j])
    <3>1. j \in 2..m /\ j \in 1..m /\ j \div 2 \in 1..m
      BY <1>1, <2>1
    <3>2. Key(pool, h[j \div 2]) <= Key(pool, h[j])
      BY <3>1 DEF HeapOf, Ordered
    <3> QED
      BY <1>3, <3>1, <3>2
  <2>2. \A j \in 2..n : j \div 2 # n
    BY <1>1
  <2> QED
    BY <2>1, <2>2 DEF Gap
<1>7. NodeFits(pool, n, g, n, node)
  <2>1. \A j \in 2..n : j \div 2 # n
    BY <1>1
  <2> QED
    BY <2>1 DEF NodeFits
<1>8. Put(g, n, node) = g
  BY <1>3 DEF Put
<1> HIDE DEF n
<1>9. r \in [1..n -> Y] /\ Rearranged(r, g)
  <2>1. r \in [1..n -> Y] /\ Rearranged(r, Put(g, n, node))
    BY <1>2, <1>3, <1>5, UpRearranges
  <2> QED
    BY <1>8, <2>1
<1>10. Ordered(pool, n, r)
  BY <1>2, <1>3, <1>5, <1>6, <1>7, UpOrders
<1>11. Within(g) = Y
  <2>1. Within(g) = {g[j] : j \in 1..m} \union {g[n]}
    BY <1>1, <1>3, <1>5 DEF Within, n
  <2>2. {g[j] : j \in 1..m} = {h[j] : j \in 1..m}
    BY <1>3
  <2>3. {h[j] : j \in 1..m} = X
    BY <1>1 DEF HeapOf, Within
  <2> QED
    BY <1>3, <2>1, <2>2, <2>3 DEF Y
<1>12. Once(g)
  <2> SUFFICES ASSUME NEW i \in 1..n, NEW j \in 1..n, g[i] = g[j] PROVE i = j
    BY <1>3 DEF Once
  <2>1. \A k \in 1..n : k = n \/ k \in 1..m
    BY <1>1 DEF n
  <2>2. \A k \in 1..m : g[k] \in X
    BY <1>1, <1>3
  <2>3. CASE i \in 1..m /\ j \in 1..m
    BY <1>1, <1>3, <2>3 DEF HeapOf, Once
  <2> QED
    BY <1>3, <2>1, <2>2, <2>3
<1> QED
  BY <1>2, <1>4, <1>5, <1>9, <1>10, <1>11, <1>12, Reheaped DEF Y

\* modify keeps the heap in order when the total of one of its nodes has fallen.
LEMMA ModifyMoves ==
  ASSUME NEW old, NEW pool, NEW X, NEW h, HeapOf(old, X, h), NEW node \in X, Keys(pool, X),
         \A x \in X : x # node => Key(pool, x) = Key(old, x),
         Key(pool, node) <= Key(old, node)
  PROVE  HeapOf(pool, X, Modify(pool, h, node))
<1> DEFINE n == Len(h)
           k == CHOOSE i \in 1..Len(h) : h[i] = node
           r == Up(pool, n, node)[k][h]
<1>1. n \in Nat /\ h \in [1..n -> X] /\ DOMAIN h = 1..n /\ X \in SUBSET Nat /\ h \in Seq(X)
  BY Listed DEF HeapOf
<1>2. k \in 1..n /\ h[k] = node
  <2>1. \E i \in 1..n : h[i] = node
    BY <1>1 DEF HeapOf, Within
  <2> QED
    BY <2>1
<1>3. Modify(pool, h, node) = r
  BY DEF Modify, BubbleUp
<1> HIDE DEF k
<1>4. \A j \in 1..n : j # k => Key(pool, h[j]) = Key(old, h[j])
  BY <1>1, <1>2 DEF HeapOf, Once
<1>5. \A j \in 1..n : Key(pool, h[j]) \in Nat /\ Key(old, h[j]) \in Nat
  BY <1>1 DEF HeapOf, Keys
<1>6. \A j \in 2..n : Key(old, h[j \div 2]) <= Key(old, h[j])
  BY DEF HeapOf, Ordered
<1> HIDE DEF n
<1>7. NodeFits(pool, n, h, k, node)
  <2> SUFFICES ASSUME NEW j \in 2..n, j \div 2 = k PROVE Key(pool, node) <= Key(pool, h[j])
    BY DEF NodeFits
  <2>1. j \in 1..n /\ j # k
    BY <1>1, <1>2, Halved
  <2>2. Key(old, h[k]) <= Key(old, h[j])
    BY <1>6
  <2>3. Key(pool, h[j]) = Key(old, h[j]) /\ Key(old, h[j]) \in Nat
    BY <1>4, <1>5, <2>1
  <2>4. Key(pool, node) \in Nat /\ Key(old, node) \in Nat
    BY <1>2, <1>5
  <2> QED
    BY <1>2, <2>2, <2>3, <2>4
<1>8. Gap(pool, n, h, k)
  <2>1. ASSUME NEW j \in 2..n, j # k, j \div 2 # k
        PROVE  Key(pool, h[j \div 2]) <= Key(pool, h[j])
    <3>1. j \in 1..n /\ j \div 2 \in 1..n
      BY <1>1, Halved
    <3> QED
      BY <1>4, <1>6, <2>1, <3>1
  <2>2. ASSUME NEW j \in 2..n, j \div 2 = k, k # 1
        PROVE  Key(pool, h[k \div 2]) <= Key(pool, h[j])
    <3>1. j \in 1..n /\ j # k
      BY <1>1, <1>2, <2>2, Halved
    <3>2. k \in 2..n /\ k \div 2 \in 1..n /\ k \div 2 # k
      BY <1>1, <1>2, <2>2
    <3>3. Key(old, h[k \div 2]) <= Key(old, h[k]) /\ Key(old, h[k]) <= Key(old, h[j])
      BY <1>6, <2>2, <3>2
    <3> QED
      BY <1>2, <1>4, <1>5, <3>1, <3>2, <3>3
  <2> QED
    BY <2>1, <2>2 DEF Gap
<1>9. Put(h, k, node) = h
  BY <1>1, <1>2 DEF Put
<1>10. r \in [1..n -> X] /\ Rearranged(r, h)
  <2>1. r \in [1..n -> X] /\ Rearranged(r, Put(h, k, node))
    BY <1>1, <1>2, UpRearranges
  <2> QED
    BY <1>9, <2>1
<1>11. Ordered(pool, n, r)
  BY <1>1, <1>2, <1>7, <1>8, UpOrders
<1>12. Within(h) = X /\ Once(h)
  BY DEF HeapOf
<1> QED
  BY <1>1, <1>3, <1>10, <1>11, <1>12, Reheaped

\* The top is the least, and is taken off.
LEMMA TopOf ==
  ASSUME NEW pool, NEW X, NEW h, HeapOf(pool, X, h), h # <<>>
  PROVE  h[1] \in X /\ \A x \in X : Key(pool, h[1]) <= Key(pool, x)
<1> DEFINE n == Len(h)
<1>1. n \in Nat /\ h \in [1..n -> X] /\ DOMAIN h = 1..n /\ 1 \in 1..n
  BY Listed DEF HeapOf
<1>2. \A k \in 1..n : Key(pool, h[1]) <= Key(pool, h[k])
  BY <1>1, TopIsLeast DEF HeapOf
<1>3. \A x \in X : \E k \in 1..n : x = h[k]
  BY <1>1 DEF HeapOf, Within
<1> QED
  BY <1>1, <1>2, <1>3

\* pop takes the first node off the heap and leaves the others in order.
LEMMA PopTakes ==
  ASSUME NEW pool, NEW X, NEW h, HeapOf(pool, X, h), h # <<>>
  PROVE  HeapOf(pool, X \ {h[1]}, Pop(pool, h))
<1> DEFINE n == Len(h)
           m == n - 1
           left == SubSeq(h, 1, m)
           Y == X \ {h[1]}
           node == h[n]
           g == Put(left, 1, node)
<1>1. /\ n \in Nat /\ h \in [1..n -> X] /\ DOMAIN h = 1..n /\ X \in SUBSET Nat /\ h \in Seq(X)
      /\ m \in Nat /\ n \in 1..n /\ 1 \in 1..n
  BY Listed DEF HeapOf
<1>0. m < n /\ \A i \in 1..n : i = n \/ i \in 1..m
  <2>1. n \in Nat
    BY <1>1
  <2> HIDE DEF n
  <2> QED
    BY <2>1
<1>2. left \in Seq(X) /\ Len(left) = m /\ left \in [1..m -> X] /\ \A j \in 1..m : left[j] = h[j]
  <2>1. left \in Seq(X) /\ Len(left) = m /\ \A j \in 1..m : left[j] = h[j]
    BY <1>1, Shortened
  <2> HIDE DEF left, m
  <2> QED
    BY <2>1, Listed
<1>3. \A i, j \in 1..n : h[i] = h[j] => i = j
  BY <1>1 DEF HeapOf, Once
<1>4. Y \in SUBSET Nat /\ Keys(pool, Y)
  BY <1>1 DEF HeapOf, Keys
<1>5. Pop(pool, h) = IF left = <<>> THEN left ELSE TrickleDown(pool, left, node)
  BY DEF Pop
<1> HIDE DEF left
<1>6. CASE m = 0
  <2>1. left = <<>>
    <3> HIDE DEF m
    <3> QED
      BY <1>2, <1>6, EmptySeq
  <2>2. Y = {}
    <3>1. \A i \in 1..n : i = 1
      BY <1>0, <1>6
    <3>2. \A x \in X : \E i \in 1..n : x = h[i]
      BY <1>1 DEF HeapOf, Within
    <3> QED
      BY <3>1, <3>2
  <2>3. HeapOf(pool, {}, <<>>)
    BY DEF HeapOf, Within, Once, Keys, Ordered
  <2> QED
    BY <1>5, <2>1, <2>2, <2>3
<1>7. CASE m # 0
  <2> DEFINE r == Down(pool, m, node)[1][left]
  <2>1. left # <<>> /\ 1 \in 1..m /\ m \in 1..n /\ n \notin 1..m
    BY <1>1, <1>2, <1>7
  <2>2. Pop(pool, h) = r
    BY <1>2, <1>5, <2>1 DEF TrickleDown
  <2>3. node \in X /\ Keys(pool, X)
    BY <1>1 DEF HeapOf
  <2>4. Gap(pool, m, left, 1)
    <3>1. ASSUME NEW j \in 2..m PROVE Key(pool, left[j \div 2]) <= Key(pool, left[j])
      <4>1. j \in 2..n /\ j \in 1..m /\ j \div 2 \in 1..m
        BY <1>1
      <4>2. Key(pool, h[j \div 2]) <= Key(pool, h[j])
        BY <4>1 DEF HeapOf, Ordered
      <4> QED
        BY <1>2, <4>1, <4>2
    <3> QED
      BY <3>1 DEF Gap
  <2>5. r \in [1..m -> X] /\ Rearranged(r, g) /\ Ordered(pool, m, r)
    BY <1>1, <1>2, <2>1, <2>3, <2>4, DownKeeps
  <2>6. DOMAIN g = 1..m /\ g[1] = node /\ \A j \in 2..m : g[j] = h[j] /\ j \in 1..m
    BY <1>1, <1>2, <2>1 DEF Put
  <2> HIDE DEF g, node
  <2>7. Within(g) = Y
    <3>1. ASSUME NEW j \in 1..m PROVE g[j] \in Y
      <4>1. j = 1 \/ j \in 2..m
        OBVIOUS
      <4>2. n # 1
        BY <1>7
      <4> QED
        BY <1>1, <1>3, <2>1, <2>6, <4>1, <4>2 DEF node
    <3>2. ASSUME NEW x \in Y PROVE \E j \in 1..m : g[j] = x
      <4>1. PICK i \in 1..n : h[i] = x
        BY <1>1 DEF HeapOf, Within
      <4>2. i = n \/ i \in 2..m
        <5>1. i # 1
          BY <4>1
        <5> QED
          BY <1>0, <5>1
      <4> QED
        BY <2>1, <2>6, <4>1, <4>2 DEF node
    <3> QED
      BY <2>6, <3>1, <3>2 DEF Within
  <2>8. Once(g)
    <3> SUFFICES ASSUME NEW i \in 1..m, NEW j \in 1..m, g[i] = g[j] PROVE i = j
      BY <2>6 DEF Once
    <3>1. /\ i = 1 \/ (i \in 2..m /\ i \in 1..n /\ i # n)
          /\ j = 1 \/ (j \in 2..m /\ j \in 1..n /\ j # n)
      <4> HIDE DEF m, n
      <4> QED
        BY <1>0, <1>1
    <3> QED
      BY <1>1, <1>3, <2>6, <3>1 DEF node
  <2>9. r \in [1..m -> Y]
    <3>1. DOMAIN r = 1..m /\ Within(r) = Y
      BY <2>5, <2>7 DEF Rearranged
    <3> HIDE DEF r, Y
    <3>2. \A j \in 1..m : r[j] \in Y
      BY <3>1 DEF Within
    <3> QED
      BY <2>5, <3>1, <3>2
  <2> HIDE DEF r, Y, m
  <2> QED
    BY <1>1, <1>4, <2>2, <2>5, <2>7, <2>8, <2>9, Reheaped DEF Y
<1> QED
  BY <1>6, <1>7

\* A heap is one for any costs that agree on its nodes.
LEMMA SameKeys ==
  ASSUME NEW old, NEW pool, NEW X, NEW h, HeapOf(old, X, h),
         \A x \in X : Key(pool, x) = Key(old, x)
  PROVE  HeapOf(pool, X, h)
<1> DEFINE n == Len(h)
<1>1. n \in Nat /\ h \in [1..n -> X] /\ DOMAIN h = 1..n
  BY Listed DEF HeapOf
<1>2. Ordered(pool, n, h)
  <2> SUFFICES ASSUME NEW j \in 2..n PROVE Key(pool, h[j \div 2]) <= Key(pool, h[j])
    BY DEF Ordered
  <2>1. j \in 1..n /\ j \div 2 \in 1..n
    BY <1>1, Halved
  <2>2. Key(old, h[j \div 2]) <= Key(old, h[j])
    BY DEF HeapOf, Ordered
  <2> QED
    BY <1>1, <2>1, <2>2
<1> QED
  BY <1>2 DEF HeapOf, Keys

-----------------------------------------------------------------------------
(* The node pool                                                           *)

PoolNode ==
  [id : Polygons, pidx : Nat, cost : Nat, total : Nat, pos : Space,
   flag : {"new", "open", "closed"}]

\* Distances are natural numbers, and the search is for a point.
Distances == \A p, q \in Space : VDist(p, q) \in Nat
Measured == query.to.point \in Space /\ Distances

\* What is left from a node.
Rest(node) == IF node.id = query.to.ref THEN 0 ELSE Estimate(node.pos, query.to.point)

\* What is left from a node is a natural number.
LEMMA RestIs ==
  ASSUME Measured, NEW node \in PoolNode
  PROVE  Rest(node) \in Nat
<1>1. VDist(node.pos, query.to.point) \in Nat
  BY DEF Measured, Distances, PoolNode
<1>2. \A d \in Nat : (999 * d) \div 1000 \in Nat
  OBVIOUS
<1> QED
  BY <1>1, <1>2 DEF Rest, Estimate

\* By way of best, no polygon costs less than best.
LEMMA CostByIs ==
  ASSUME Measured, NEW pool, NEW best, NEW n, pool[best] \in PoolNode, pool[n] \in PoolNode
  PROVE  CostBy(pool, best, n) \in Nat /\ CostBy(pool, best, n) >= pool[best].cost
<1>1. /\ pool[best].cost \in Nat /\ VDist(pool[best].pos, pool[n].pos) \in Nat
      /\ VDist(pool[n].pos, query.to.point) \in Nat
  BY DEF Measured, Distances, PoolNode
<1> QED
  BY <1>1 DEF CostBy

\* The polygons of the pool are different ones, and every node but the first has
\* a parent.
PoolInv(pool) ==
  /\ pool \in Seq(PoolNode)
  /\ \A j, k \in DOMAIN pool : pool[j].id = pool[k].id => j = k
  /\ \A k \in DOMAIN pool :
       /\ pool[k].id \in LinkedPolys(navMesh) /\ pool[k].flag # "new"
       /\ pool[k].total = pool[k].cost + Rest(pool[k])
       /\ pool[k].pidx = 0 <=> k = 1
       /\ pool[k].pidx # 0 => pool[k].pidx \in DOMAIN pool
  /\ 1 \in DOMAIN pool /\ pool[1].id = query.from.ref /\ pool[1].cost = 0

OpenOf(pool) == {k \in DOMAIN pool : pool[k].flag = "open"}
Has(pool, ref) == \E k \in DOMAIN pool : pool[k].id = ref

\* What a neighbour's node is when it has been improved.
Renewed(new, node, best, c, t) ==
  /\ new \in PoolNode /\ new.id = node.id /\ new.pos = node.pos
  /\ new.pidx = best /\ new.cost = c /\ new.total = t /\ new.flag = "open"
Improved(new, node, best, c) == Renewed(new, node, best, c, c + Rest(node))

NewNode(node, best, c, t) ==
  [node EXCEPT !.pidx = best, !.cost = c, !.total = t, !.flag = "open"]

\* A node with a new parent and new costs.
LEMMA BetterNode ==
  ASSUME NEW node \in PoolNode, NEW best \in Nat, NEW c \in Nat, NEW t \in Nat
  PROVE  Renewed(NewNode(node, best, c, t), node, best, c, t)
<1> DEFINE new == NewNode(node, best, c, t)
<1> USE DEF NewNode
<1>1. DOMAIN new = {"id", "pidx", "cost", "total", "pos", "flag"}
  BY DEF PoolNode
<1>2. new = [f \in DOMAIN new |-> new[f]]
  OBVIOUS
<1>3. /\ new.id = node.id /\ new.pos = node.pos /\ new.pidx = best /\ new.cost = c
      /\ new.total = t /\ new.flag = "open"
  BY DEF PoolNode
<1>4. node.id \in Polygons /\ node.pos \in Space
  BY DEF PoolNode
<1> HIDE DEF new
<1>5. new \in PoolNode
  <2>1. /\ new.id \in Polygons /\ new.pos \in Space /\ new.pidx \in Nat /\ new.cost \in Nat
        /\ new.total \in Nat /\ new.flag \in {"new", "open", "closed"}
    BY <1>3, <1>4
  <2> QED
    BY ONLY <1>1, <1>2, <2>1 DEF PoolNode
<1> QED
  BY <1>3, <1>5 DEF new, Renewed

\* The neighbour is updated, and no other node.
LEMMA BetterIs ==
  ASSUME Measured, NEW m \in Nat, NEW pool \in [1..m -> PoolNode], NEW n \in 1..m, NEW best \in 1..m
  PROVE  LET r == Better(pool, best, n)
         IN /\ r \in [1..m -> PoolNode] /\ DOMAIN r = 1..m
            /\ Improved(r[n], pool[n], best, CostBy(pool, best, n))
            /\ \A j \in 1..m : j # n => r[j] = pool[j]
<1> DEFINE c == CostBy(pool, best, n)
           r == Better(pool, best, n)
<1>1. c \in Nat
  BY CostByIs
<1>2. RestFrom(pool, n) = Rest(pool[n]) /\ Rest(pool[n]) \in Nat
  BY RestIs DEF Rest, RestFrom
<1>3. DOMAIN r = 1..m /\ \A j \in 1..m : j # n => r[j] = pool[j]
  BY DEF Better
<1>4. r[n] = [pool[n] EXCEPT !.pidx = best, !.cost = c, !.total = c + Rest(pool[n]),
                             !.flag = "open"]
  BY <1>2 DEF Better
<1>5. r = [j \in 1..m |-> r[j]]
  BY <1>3 DEF Better
<1> HIDE DEF r, c
<1>6. Improved(r[n], pool[n], best, c)
  <2> DEFINE node == pool[n]
             t == c + Rest(node)
  <2>1. node \in PoolNode /\ best \in Nat /\ c \in Nat /\ t \in Nat
    BY <1>1, <1>2
  <2>2. r[n] = NewNode(node, best, c, t)
    BY <1>4 DEF NewNode
  <2>3. t = c + Rest(node)
    OBVIOUS
  <2> HIDE DEF node, t
  <2>4. Renewed(NewNode(node, best, c, t), node, best, c, t)
    BY ONLY <2>1, BetterNode, Zenon
  <2> QED
    BY <2>2, <2>3, <2>4 DEF Improved, node
<1>7. r \in [1..m -> PoolNode]
  <2>1. \A j \in 1..m : r[j] \in PoolNode
    BY <1>3, <1>6 DEF Improved, Renewed
  <2> QED
    BY <1>5, <2>1
<1> QED
  BY <1>3, <1>6, <1>7 DEF r, c

-----------------------------------------------------------------------------
(* One link of the best node                                               *)

\* The state of the loop over the links.
IsWork(w) == DOMAIN w = {"nodes", "open", "last", "out"} /\ w = [f \in DOMAIN w |-> w[f]]

\* Node n is improved, and r is w after it.
Turned(w, r, best, n) ==
  /\ IsWork(r) /\ r.out = w.out /\ r.nodes = Better(w.nodes, best, n)
  /\ r.open = IF w.nodes[n].flag = "open" THEN Modify(r.nodes, w.open, n)
              ELSE Push(r.nodes, w.open, n)
  /\ r.last = IF Rest(w.nodes[n]) < w.last.rest THEN [node |-> n, rest |-> Rest(w.nodes[n])]
              ELSE w.last

Worse(w, best, n) ==
  /\ w.nodes[n].flag # "new"
  /\ CostBy(w.nodes, best, n) + Rest(w.nodes[n]) >= w.nodes[n].total

\* A way that is worse changes nothing; a better one updates the neighbour, its place
\* in the heap and the node nearest to the goal.
LEMMA ImproveIs ==
  ASSUME Measured, NEW w, IsWork(w), NEW m \in Nat, w.nodes \in [1..m -> PoolNode],
         NEW n \in 1..m, NEW best \in 1..m
  PROVE  IF Worse(w, best, n) THEN Improve(w, best, n) = w
         ELSE Turned(w, Improve(w, best, n), best, n)
<1> DEFINE c == CostBy(w.nodes, best, n)
           pool == Better(w.nodes, best, n)
           left == RestFrom(pool, n)
           open1 == IF w.nodes[n].flag = "open" THEN Modify(pool, w.open, n)
                    ELSE Push(pool, w.open, n)
           last1 == IF left < w.last.rest THEN [node |-> n, rest |-> left] ELSE w.last
           r == [w EXCEPT !.nodes = pool, !.open = open1, !.last = last1]
<1>1. Improved(pool[n], w.nodes[n], best, c)
  BY BetterIs
<1>2. pool[n].total = c + Rest(w.nodes[n]) /\ left = Rest(w.nodes[n])
  <2>1. pool[n].total = c + Rest(w.nodes[n])
    BY <1>1 DEF Improved, Renewed
  <2>2. pool[n].id = w.nodes[n].id /\ pool[n].pos = w.nodes[n].pos
    BY <1>1 DEF Improved, Renewed
  <2> HIDE DEF pool, c
  <2> QED
    BY <2>1, <2>2 DEF RestFrom, Rest
<1>3. Improve(w, best, n) =
        IF w.nodes[n].flag # "new" /\ pool[n].total >= w.nodes[n].total THEN w ELSE r
  BY DEF Improve
<1> HIDE DEF c, pool, left, open1, last1
<1>4. /\ IsWork(r) /\ r.nodes = pool /\ r.open = open1 /\ r.last = last1 /\ r.out = w.out
  <2>1. DOMAIN r = DOMAIN w /\ r = [f \in DOMAIN r |-> r[f]]
    OBVIOUS
  <2>2. /\ r.nodes = pool /\ r.open = open1 /\ r.last = last1 /\ r.out = w.out
    BY DEF IsWork
  <2> QED
    BY <2>1, <2>2 DEF IsWork
<1> HIDE DEF r
<1>5. Turned(w, r, best, n)
  BY <1>2, <1>4 DEF Turned, open1, last1, pool
<1>6. Worse(w, best, n) <=> w.nodes[n].flag # "new" /\ pool[n].total >= w.nodes[n].total
  BY <1>2 DEF Worse, c
<1> QED
  BY <1>3, <1>5, <1>6

\* The polygon best was reached from is left out.
Skipped(pool, best, ref) == pool[best].pidx # 0 /\ pool[pool[best].pidx].id = ref

Fresh(pool, best, ref) ==
  [id |-> ref, pidx |-> 0, cost |-> 0, total |-> 0, flag |-> "new",
   pos |-> MidPoint(navMesh, pool[best].id, ref)]
WithFresh(w, best, ref) ==
  [w EXCEPT !.nodes = Append(w.nodes, Fresh(w.nodes, best, ref))]

Left(w, best, ref, r) == r = w /\ (Skipped(w.nodes, best, ref) \/ Has(w.nodes, ref))
NoRoom(w, best, ref, r) ==
  /\ ~Skipped(w.nodes, best, ref) /\ ~Has(w.nodes, ref) /\ Len(w.nodes) >= maxNodes
  /\ r = [w EXCEPT !.out = TRUE]
Again1(w, best, ref, r) ==
  /\ ~Skipped(w.nodes, best, ref)
  /\ \E n \in DOMAIN w.nodes :
       w.nodes[n].id = ref /\ ~Worse(w, best, n) /\ Turned(w, r, best, n)
Added(w, best, ref, r) ==
  /\ ~Skipped(w.nodes, best, ref) /\ ~Has(w.nodes, ref) /\ Len(w.nodes) < maxNodes
  /\ Turned(WithFresh(w, best, ref), r, best, Len(w.nodes) + 1)

Freshened(w, u, new) ==
  LET m == Len(w.nodes)
  IN /\ IsWork(u) /\ u.open = w.open /\ u.last = w.last /\ u.out = w.out
     /\ u.nodes = Append(w.nodes, new) /\ u.nodes \in [1..(m + 1) -> PoolNode]
     /\ u.nodes[m + 1] = new /\ \A j \in 1..m : u.nodes[j] = w.nodes[j]

\* The same of a node that has just been taken from the pool.
LEMMA FreshIs ==
  ASSUME NEW w, IsWork(w), NEW best, NEW ref \in Polygons, w.nodes \in Seq(PoolNode),
         MidPoint(navMesh, w.nodes[best].id, ref) \in Space
  PROVE  Freshened(w, WithFresh(w, best, ref), Fresh(w.nodes, best, ref))
<1> DEFINE u == WithFresh(w, best, ref)
           m == Len(w.nodes)
           new == Fresh(w.nodes, best, ref)
<1>1. new \in PoolNode
  BY DEF Fresh, PoolNode
<1>2. /\ Append(w.nodes, new) \in [1..(m + 1) -> PoolNode]
      /\ Append(w.nodes, new)[m + 1] = new /\ \A j \in 1..m : Append(w.nodes, new)[j] = w.nodes[j]
  <2> HIDE DEF new
  <2> QED
    BY <1>1, Appended
<1>3. DOMAIN u = DOMAIN w /\ u = [f \in DOMAIN u |-> u[f]]
  BY DEF WithFresh
<1>4. /\ u.open = w.open /\ u.last = w.last /\ u.out = w.out /\ u.nodes = Append(w.nodes, new)
  BY DEF WithFresh, IsWork
<1> HIDE DEF u, new
<1> QED
  BY <1>2, <1>3, <1>4 DEF IsWork, u, new, Freshened

\* A link leads back to the parent, to a polygon no node is left for, to one that has
\* a node, or to a new one.
LEMMA LinkIs ==
  ASSUME Measured, NEW w, IsWork(w), PoolInv(w.nodes), NEW best \in DOMAIN w.nodes,
         NEW ref \in Polygons, MidPoint(navMesh, w.nodes[best].id, ref) \in Space,
         maxNodes \in Nat
  PROVE  LET r == VisitLink(w, best, ref)
         IN \/ Left(w, best, ref, r) \/ NoRoom(w, best, ref, r)
            \/ Again1(w, best, ref, r) \/ Added(w, best, ref, r)
<1> DEFINE r == VisitLink(w, best, ref)
           pool == GetNode(w.nodes, ref, best)
           at == NodeOf(pool, ref)
           m == Len(w.nodes)
           n == CHOOSE k \in at : TRUE
           u == [w EXCEPT !.nodes = pool]
<1>1. /\ w.nodes \in Seq(PoolNode) /\ m \in Nat /\ w.nodes \in [1..m -> PoolNode]
      /\ DOMAIN w.nodes = 1..m
  BY Listed DEF PoolInv
<1>2. r = IF Skipped(w.nodes, best, ref) THEN w ELSE IF at = {} THEN [w EXCEPT !.out = TRUE]
          ELSE Improve(u, best, n)
  BY DEF VisitLink, Skipped
<1> SUFFICES \/ Left(w, best, ref, r) \/ NoRoom(w, best, ref, r)
             \/ Again1(w, best, ref, r) \/ Added(w, best, ref, r)
  OBVIOUS
<1> HIDE DEF r
<1>3. CASE Skipped(w.nodes, best, ref)
  BY <1>2, <1>3 DEF Left
<1>4. CASE ~Skipped(w.nodes, best, ref) /\ Has(w.nodes, ref)
  <2>1. pool = w.nodes
    <3>1. NodeOf(w.nodes, ref) # {}
      BY <1>4 DEF Has, NodeOf
    <3> QED
      BY <3>1 DEF GetNode
  <2>2. u = w
    BY <2>1 DEF IsWork
  <2>3. at # {} /\ n \in 1..m /\ w.nodes[n].id = ref
    BY <1>1, <1>4, <2>1 DEF Has, NodeOf
  <2> HIDE DEF u, at, n
  <2>4. r = Improve(w, best, n)
    BY <1>2, <1>4, <2>2, <2>3
  <2>5. IF Worse(w, best, n) THEN r = w ELSE Turned(w, r, best, n)
    BY <1>1, <2>3, <2>4, ImproveIs
  <2> QED
    BY <1>1, <1>4, <2>3, <2>5 DEF Left, Again1
<1>5. CASE ~Skipped(w.nodes, best, ref) /\ ~Has(w.nodes, ref) /\ m >= maxNodes
  <2>1. pool = w.nodes
    BY <1>5 DEF GetNode
  <2>2. at = {}
    BY <1>5, <2>1 DEF Has, NodeOf
  <2> QED
    BY <1>2, <1>5, <2>2 DEF NoRoom
<1>6. CASE ~Skipped(w.nodes, best, ref) /\ ~Has(w.nodes, ref) /\ m < maxNodes
  <2>1. NodeOf(w.nodes, ref) = {} /\ ~(m >= maxNodes)
    BY <1>1, <1>6 DEF Has, NodeOf
  <2>2. pool = Append(w.nodes, Fresh(w.nodes, best, ref))
    BY <2>1 DEF GetNode, Fresh
  <2>3. u = WithFresh(w, best, ref)
    BY <2>2 DEF WithFresh
  <2>4. /\ IsWork(u) /\ u.nodes = pool /\ pool \in [1..(m + 1) -> PoolNode]
        /\ pool[m + 1] = Fresh(w.nodes, best, ref) /\ \A j \in 1..m : pool[j] = w.nodes[j]
    <3>1. Freshened(w, WithFresh(w, best, ref), Fresh(w.nodes, best, ref))
      BY <1>1, FreshIs
    <3> HIDE DEF pool, u
    <3> QED
      BY <2>2, <2>3, <3>1 DEF Freshened
  <2> HIDE DEF u, pool
  <2>5. at = {m + 1}
    <3>1. DOMAIN pool = 1..(m + 1) /\ 1..(m + 1) = 1..m \union {m + 1}
      BY <1>1, <2>4
    <3>2. pool[m + 1].id = ref /\ \A j \in 1..m : pool[j].id # ref
      <4>1. Fresh(w.nodes, best, ref).id = ref
        BY DEF Fresh
      <4> QED
        BY <1>1, <1>6, <2>4, <4>1 DEF Has
    <3> QED
      BY <3>1, <3>2 DEF NodeOf
  <2>6. n = m + 1 /\ at # {}
    BY <2>5
  <2> HIDE DEF at, n
  <2>7. r = Improve(u, best, m + 1)
    BY <1>2, <1>6, <2>6
  <2>8. m + 1 \in Nat /\ m + 1 \in 1..(m + 1) /\ best \in 1..(m + 1)
    BY <1>1
  <2>9. ~Worse(u, best, m + 1)
    BY <2>4 DEF Worse, Fresh
  <2>10. u.nodes \in [1..(m + 1) -> PoolNode] /\ IsWork(u)
    BY <2>4
  <2> HIDE DEF m
  <2>11. Turned(u, Improve(u, best, m + 1), best, m + 1)
    BY <2>8, <2>9, <2>10, ImproveIs
  <2> QED
    BY <1>6, <2>3, <2>7, <2>11 DEF Added, m
<1> QED
  BY <1>1, <1>3, <1>4, <1>5, <1>6 DEF r

\* Pool B is A with node n improved, an old one or a new one.
Touched(A, B, n, best, ref) ==
  /\ B \in Seq(PoolNode) /\ n \in DOMAIN B /\ Len(B) = (IF n <= Len(A) THEN Len(A) ELSE Len(A) + 1)
  /\ n # best /\ n # 1
  /\ \A j \in DOMAIN A : j # n => B[j] = A[j]
  /\ B[n].id = ref /\ B[n].pidx = best /\ B[n].flag = "open"
  /\ B[n].cost >= A[best].cost /\ B[n].total = B[n].cost + Rest(B[n])
  /\ n \in DOMAIN A => A[n].id = ref /\ A[n].pos = B[n].pos /\ B[n].cost < A[n].cost
  /\ n \notin DOMAIN A => ~Has(A, ref) /\ Len(A) < maxNodes

Extended(w, r, n, best, ref) ==
  /\ Touched(w.nodes, r.nodes, n, best, ref)
  /\ IsWork(r) /\ r.out = w.out /\ HeapOf(r.nodes, OpenOf(r.nodes), r.open)
  /\ r.last = IF Rest(r.nodes[n]) < w.last.rest THEN [node |-> n, rest |-> Rest(r.nodes[n])]
              ELSE w.last

\* What is left depends on the polygon and the point of a node alone.
LEMMA RestStays ==
  ASSUME NEW a, NEW b, a.id = b.id, a.pos = b.pos
  PROVE  Rest(a) = Rest(b)
BY DEF Rest

\* A node that is improved is one of the open again, and all else of it is as before.
LEMMA AgainExtends ==
  ASSUME Measured, NEW w, IsWork(w), PoolInv(w.nodes), HeapOf(w.nodes, OpenOf(w.nodes), w.open),
         NEW best \in DOMAIN w.nodes, NEW ref, NEW r, NEW n \in DOMAIN w.nodes,
         w.nodes[n].id = ref, ~Worse(w, best, n), Turned(w, r, best, n)
  PROVE  Extended(w, r, n, best, ref)
<1> DEFINE A == w.nodes
           B == r.nodes
           m == Len(A)
           c == CostBy(A, best, n)
           X == OpenOf(A)
<1>1. A \in Seq(PoolNode) /\ m \in Nat /\ A \in [1..m -> PoolNode] /\ DOMAIN A = 1..m
  BY Listed DEF PoolInv
<1>2. c \in Nat /\ c >= A[best].cost
  BY <1>1, CostByIs
<1>3. B = Better(A, best, n)
  BY DEF Turned
<1>4. /\ B \in [1..m -> PoolNode] /\ DOMAIN B = 1..m /\ Improved(B[n], A[n], best, c)
      /\ \A j \in 1..m : j # n => B[j] = A[j]
  <2>1. n \in 1..m /\ best \in 1..m
    BY <1>1
  <2> HIDE DEF A, B, m
  <2> QED
    BY <1>1, <1>3, <2>1, BetterIs
<1>5. B \in Seq(PoolNode) /\ Len(B) = m
  BY <1>1, <1>4, Listing
<1> HIDE DEF c, B
<1>6. /\ B[n].id = ref /\ B[n].pidx = best /\ B[n].flag = "open" /\ A[n].pos = B[n].pos
      /\ B[n].cost = c /\ B[n].total = c + Rest(A[n])
  BY <1>4 DEF Improved, Renewed
<1>7. Rest(B[n]) = Rest(A[n]) /\ Rest(A[n]) \in Nat
  BY <1>1, <1>6, RestStays, RestIs
<1>8. /\ A[n].total = A[n].cost + Rest(A[n]) /\ A[n].flag # "new"
      /\ A[n].cost \in Nat /\ A[n].total \in Nat /\ A[best].cost \in Nat
  BY <1>1 DEF PoolInv, PoolNode
<1>9. c + Rest(A[n]) < A[n].total /\ c < A[n].cost
  BY <1>2, <1>7, <1>8 DEF Worse, c
<1>10. n # best /\ n # 1
  <2>1. n # best
    BY <1>2, <1>8, <1>9
  <2>2. n # 1
    BY <1>2, <1>8, <1>9 DEF PoolInv
  <2> QED
    BY <2>1, <2>2
<1>11. Touched(A, B, n, best, ref)
  BY <1>1, <1>2, <1>4, <1>5, <1>6, <1>7, <1>9, <1>10 DEF Touched
<1>12. \A x \in 1..m : Key(B, x) \in Nat /\ Key(A, x) \in Nat
  BY <1>1, <1>4 DEF Key, PoolNode
<1>13. \A x \in 1..m : x # n => Key(B, x) = Key(A, x)
  BY <1>4 DEF Key
<1>14. OpenOf(B) = X \union {n}
  BY <1>1, <1>4, <1>6 DEF OpenOf
<1>15. HeapOf(B, OpenOf(B), r.open)
  <2>1. CASE A[n].flag = "open"
    <3>1. n \in X /\ OpenOf(B) = X
      BY <1>14, <2>1 DEF OpenOf
    <3>2. Keys(B, X) /\ \A x \in X : x # n => Key(B, x) = Key(A, x)
      BY <1>1, <1>12, <1>13 DEF Keys, OpenOf
    <3>3. Key(B, n) <= Key(A, n)
      BY <1>1, <1>6, <1>8, <1>9, <1>12 DEF Key
    <3>4. r.open = Modify(B, w.open, n)
      BY <2>1 DEF Turned, B
    <3> HIDE DEF X
    <3>5. HeapOf(A, X, w.open)
      BY DEF X
    <3> HIDE DEF A
    <3>6. HeapOf(B, X, Modify(B, w.open, n))
      BY <3>1, <3>2, <3>3, <3>5, ModifyMoves
    <3> QED
      BY <3>1, <3>4, <3>6
  <2>2. CASE A[n].flag # "open"
    <3>1. n \notin X /\ n \in Nat
      BY <1>1, <2>2 DEF OpenOf
    <3>2. \A x \in X : Key(B, x) = Key(A, x)
      BY <1>1, <1>13, <3>1 DEF OpenOf
    <3>3. r.open = Push(B, w.open, n)
      BY <2>2 DEF Turned, B
    <3>4. Key(B, n) \in Nat
      BY <1>1, <1>12
    <3> HIDE DEF X
    <3>5. HeapOf(A, X, w.open)
      BY DEF X
    <3> HIDE DEF A
    <3>6. HeapOf(B, X, w.open)
      BY <3>2, <3>5, SameKeys
    <3>7. HeapOf(B, X \union {n}, Push(B, w.open, n))
      BY <3>1, <3>4, <3>6, PushAdds
    <3> QED
      BY <1>14, <3>3, <3>7
  <2> QED
    BY <2>1, <2>2
<1> QED
  BY <1>7, <1>11, <1>15 DEF Extended, Turned, B

\* So is a new one.
LEMMA AddedExtends ==
  ASSUME Measured, NEW w, IsWork(w), PoolInv(w.nodes), HeapOf(w.nodes, OpenOf(w.nodes), w.open),
         NEW best \in DOMAIN w.nodes, NEW ref \in Polygons,
         MidPoint(navMesh, w.nodes[best].id, ref) \in Space, NEW r, Added(w, best, ref, r)
  PROVE  Extended(w, r, Len(w.nodes) + 1, best, ref)
<1> DEFINE A == w.nodes
           B == r.nodes
           m == Len(A)
           n == m + 1
           u == WithFresh(w, best, ref)
           new == Fresh(A, best, ref)
           c == CostBy(u.nodes, best, n)
           X == OpenOf(A)
<1>1. A \in Seq(PoolNode) /\ m \in Nat /\ A \in [1..m -> PoolNode] /\ DOMAIN A = 1..m
  BY Listed DEF PoolInv
<1>2. Freshened(w, u, new)
  BY <1>1, FreshIs
<1>3. new.flag = "new" /\ new.id = ref
  BY DEF Fresh
<1>4. Turned(u, r, best, n)
  BY DEF Added
<1>5. ~Has(A, ref) /\ m < maxNodes
  BY DEF Added
<1> HIDE DEF u, new
<1>6. /\ u.nodes \in [1..n -> PoolNode] /\ u.nodes[n] = new
      /\ \A j \in 1..m : u.nodes[j] = A[j]
  BY <1>2 DEF Freshened
<1>7. n \in Nat /\ n \in 1..n /\ best \in 1..n /\ best # n /\ n # 1 /\ n \notin 1..m
      /\ 1..n = 1..m \union {n}
  BY <1>1 DEF PoolInv
<1>8. c \in Nat /\ c >= A[best].cost
  <2>1. u.nodes[best] \in PoolNode /\ u.nodes[n] \in PoolNode
    BY <1>6, <1>7
  <2>2. u.nodes[best] = A[best]
    BY <1>1, <1>6
  <2> HIDE DEF n
  <2> QED
    BY <2>1, <2>2, CostByIs
<1>9. B = Better(u.nodes, best, n)
  BY <1>4 DEF Turned
<1>10. /\ B \in [1..n -> PoolNode] /\ DOMAIN B = 1..n /\ Improved(B[n], u.nodes[n], best, c)
       /\ \A j \in 1..n : j # n => B[j] = u.nodes[j]
  <2> HIDE DEF n
  <2> QED
    BY <1>6, <1>7, <1>9, BetterIs
<1>11. B \in Seq(PoolNode) /\ Len(B) = n
  <2> HIDE DEF n
  <2> QED
    BY <1>7, <1>10, Listing
<1> HIDE DEF c, B
<1>12. /\ B[n].id = ref /\ B[n].pidx = best /\ B[n].flag = "open"
       /\ B[n].cost = c /\ B[n].total = c + Rest(new) /\ B[n].pos = new.pos
  BY <1>3, <1>6, <1>10 DEF Improved, Renewed
<1>13. Rest(B[n]) = Rest(new)
  BY <1>3, <1>12, RestStays
<1>14. \A j \in 1..m : B[j] = A[j]
  BY <1>6, <1>7, <1>10
<1>15. Touched(A, B, n, best, ref)
  BY <1>1, <1>5, <1>7, <1>8, <1>11, <1>12, <1>13, <1>14 DEF Touched
<1>16. HeapOf(B, OpenOf(B), r.open)
  <2>1. OpenOf(B) = X \union {n} /\ n \notin X
    BY <1>1, <1>7, <1>10, <1>12, <1>14 DEF OpenOf
  <2>2. \A x \in X : Key(B, x) = Key(A, x)
    BY <1>1, <1>14 DEF OpenOf, Key
  <2>3. r.open = Push(B, w.open, n)
    BY <1>2, <1>3, <1>4, <1>6 DEF Turned, B, Freshened
  <2>4. Key(B, n) \in Nat
    BY <1>7, <1>10 DEF Key, PoolNode
  <2> HIDE DEF X
  <2>5. HeapOf(A, X, w.open)
    BY DEF X
  <2> HIDE DEF A, n
  <2>6. HeapOf(B, X, w.open)
    BY <2>2, <2>5, SameKeys
  <2>7. HeapOf(B, X \union {n}, Push(B, w.open, n))
    BY <1>7, <2>1, <2>4, <2>6, PushAdds
  <2> QED
    BY <2>1, <2>3, <2>7
<1>17. /\ IsWork(r) /\ r.out = w.out
       /\ r.last = IF Rest(new) < w.last.rest THEN [node |-> n, rest |-> Rest(new)] ELSE w.last
  BY <1>2, <1>4, <1>6 DEF Turned, Freshened
<1> QED
  BY <1>13, <1>15, <1>16, <1>17 DEF Extended, B

\* The pool stays in order when a node is added or improved.
LEMMA TouchedKeepsPool ==
  ASSUME NEW A, PoolInv(A), NEW B, NEW n, NEW best \in DOMAIN A, NEW ref \in LinkedPolys(navMesh),
         Touched(A, B, n, best, ref)
  PROVE  PoolInv(B)
<1> DEFINE m == Len(A)
<1>1. A \in Seq(PoolNode) /\ m \in Nat /\ DOMAIN A = 1..m
  BY Listed DEF PoolInv
<1>2. B \in Seq(PoolNode) /\ Len(B) \in Nat /\ DOMAIN B = 1..Len(B) /\ n \in DOMAIN B
  BY Listed DEF Touched
<1>3. DOMAIN A \subseteq DOMAIN B /\ \A j \in DOMAIN B : j # n => j \in DOMAIN A
  BY <1>1, <1>2 DEF Touched
<1>4. \A j \in DOMAIN B : j # n => B[j] = A[j]
  BY <1>3 DEF Touched
<1>5. ASSUME NEW j \in DOMAIN B, NEW k \in DOMAIN B, B[j].id = B[k].id PROVE j = k
  <2>1. ASSUME NEW i \in DOMAIN B, i # n, B[i].id = ref PROVE FALSE
    <3>1. i \in DOMAIN A /\ A[i].id = ref
      BY <1>3, <1>4, <2>1
    <3>2. CASE n \in DOMAIN A
      BY <2>1, <3>1, <3>2 DEF Touched, PoolInv
    <3>3. CASE n \notin DOMAIN A
      BY <3>1, <3>3 DEF Touched, Has
    <3> QED
      BY <3>2, <3>3
  <2>2. B[n].id = ref
    BY DEF Touched
  <2>3. CASE j # n /\ k # n
    BY <1>3, <1>4, <1>5, <2>3 DEF PoolInv
  <2> QED
    BY <1>5, <2>1, <2>2, <2>3
<1>6. ASSUME NEW k \in DOMAIN B
      PROVE  /\ B[k].id \in LinkedPolys(navMesh) /\ B[k].flag # "new"
             /\ B[k].total = B[k].cost + Rest(B[k])
             /\ B[k].pidx = 0 <=> k = 1
             /\ B[k].pidx # 0 => B[k].pidx \in DOMAIN B
  <2>1. CASE k = n
    <3>1. best # 0 /\ best \in DOMAIN B
      BY <1>1, <1>3
    <3> QED
      BY <2>1, <3>1 DEF Touched
  <2>2. CASE k # n
    BY <1>3, <1>4, <2>2 DEF PoolInv
  <2> QED
    BY <2>1, <2>2
<1>7. 1 \in DOMAIN B /\ B[1] = A[1]
  BY <1>3, <1>4 DEF PoolInv, Touched
<1> QED
  BY <1>2, <1>5, <1>6, <1>7 DEF PoolInv

-----------------------------------------------------------------------------
(* The loop over the links of the best node.  A is the pool before it.     *)

Same(A, B, i) == i \in DOMAIN A /\ B[i] = A[i]
Gained(A, B, i, best) ==
  /\ B[i].pidx = best /\ B[i].flag = "open" /\ B[i].cost >= A[best].cost
  /\ i \in DOMAIN A => B[i].cost < A[i].cost
Met(A, best, links, k, ref) ==
  ~Skipped(A, best, ref) /\ \E j \in 1..k : links[j].ref = ref
Missing(A, B, best, ref) == ~Skipped(A, best, ref) /\ ~Has(B, ref)

\* The pool B after k links.
LoopPool(A, B, best, links, k) ==
  /\ DOMAIN A \subseteq DOMAIN B /\ B[best] = A[best]
  /\ \A i \in DOMAIN A : B[i].id = A[i].id /\ B[i].pos = A[i].pos
  /\ \A i \in DOMAIN B :
       Same(A, B, i) \/ (Gained(A, B, i, best) /\ Met(A, best, links, k, B[i].id))

\* The node of least rest among the last best and those improved.
LoopLast(A, B, last, now) ==
  /\ now.node \in DOMAIN B /\ now.rest = Rest(B[now.node]) /\ now.rest <= last.rest
  /\ now.node = last.node \/ ~Same(A, B, now.node)
  /\ \A i \in DOMAIN B : ~Same(A, B, i) => now.rest <= Rest(B[i])

\* Links are missed only for want of nodes.
LoopOut(A, B, best, links, k, out, now) ==
  /\ now \in BOOLEAN /\ (out => now)
  /\ now => out \/ \E j \in 1..k : Missing(A, B, best, links[j].ref)
  /\ \A j \in 1..k : Missing(A, B, best, links[j].ref) => now /\ Len(B) >= maxNodes

LoopInv(w, A, best, links, k, last, out) ==
  /\ IsWork(w) /\ PoolInv(w.nodes) /\ HeapOf(w.nodes, OpenOf(w.nodes), w.open)
  /\ LoopPool(A, w.nodes, best, links, k) /\ LoopLast(A, w.nodes, last, w.last)
  /\ LoopOut(A, w.nodes, best, links, k, out, w.out)

\* The parent of the node that is expanded is the same all through the loop.
LEMMA SkippedStays ==
  ASSUME NEW A, PoolInv(A), NEW best \in DOMAIN A, NEW B, NEW links, NEW k,
         LoopPool(A, B, best, links, k), NEW ref
  PROVE  Skipped(B, best, ref) <=> Skipped(A, best, ref)
<1>1. B[best] = A[best] /\ (A[best].pidx # 0 => A[best].pidx \in DOMAIN A)
  BY DEF LoopPool, PoolInv
<1> QED
  BY <1>1 DEF Skipped, LoopPool

\* What was met among k links was met among one more.
LEMMA LaterPool ==
  ASSUME NEW A, NEW B, NEW best, NEW links, NEW k \in Nat, LoopPool(A, B, best, links, k)
  PROVE  LoopPool(A, B, best, links, k + 1)
<1>1. \A ref : Met(A, best, links, k, ref) => Met(A, best, links, k + 1, ref)
  BY DEF Met
<1> QED
  BY <1>1 DEF LoopPool

\* One node added or improved at the next link keeps what the loop says of the pool ...
LEMMA TouchedLoopPool ==
  ASSUME NEW A, PoolInv(A), NEW best \in DOMAIN A, NEW links, NEW k \in Nat, NEW B, PoolInv(B),
         LoopPool(A, B, best, links, k), ~Skipped(A, best, links[k + 1].ref), NEW C, NEW n,
         Touched(B, C, n, best, links[k + 1].ref)
  PROVE  LoopPool(A, C, best, links, k + 1)
<1> DEFINE ref == links[k + 1].ref
<1>0. LoopPool(A, B, best, links, k + 1)
  BY LaterPool
<1>1. /\ DOMAIN B = 1..Len(B) /\ Len(B) \in Nat /\ DOMAIN C = 1..Len(C) /\ Len(C) \in Nat
      /\ B \in Seq(PoolNode) /\ C \in Seq(PoolNode)
  BY Listed DEF PoolInv, Touched
<1>2. /\ DOMAIN B \subseteq DOMAIN C /\ n \in DOMAIN C
      /\ \A j \in DOMAIN C : j # n => j \in DOMAIN B /\ C[j] = B[j]
  BY <1>1 DEF Touched
<1>3. DOMAIN A \subseteq DOMAIN C /\ C[best] = A[best]
  BY <1>2 DEF LoopPool, Touched
<1>4. ASSUME NEW i \in DOMAIN A PROVE C[i].id = A[i].id /\ C[i].pos = A[i].pos
  <2>1. i \in DOMAIN B /\ i \in DOMAIN C /\ B[i].id = A[i].id /\ B[i].pos = A[i].pos
    BY <1>2 DEF LoopPool
  <2>2. CASE i = n
    BY <2>1, <2>2 DEF Touched
  <2>3. CASE i # n
    BY <1>2, <2>1, <2>3
  <2> QED
    BY <2>2, <2>3
<1>5. Met(A, best, links, k + 1, ref)
  BY DEF Met
<1>6. Gained(A, C, n, best) /\ C[n].id = ref
  <2>1. /\ C[n].pidx = best /\ C[n].flag = "open" /\ C[n].id = ref /\ C[n].cost >= A[best].cost
    BY DEF Touched, LoopPool
  <2>2. ASSUME n \in DOMAIN A PROVE C[n].cost < A[n].cost
    <3>1. n \in DOMAIN B /\ C[n].cost < B[n].cost
      BY <2>2 DEF Touched, LoopPool
    <3>2. B[n].cost = A[n].cost \/ B[n].cost < A[n].cost
      BY <2>2, <3>1 DEF LoopPool, Same, Gained
    <3>3. C[n].cost \in Nat /\ B[n].cost \in Nat /\ A[n].cost \in Nat
      <4>1. C[n] \in PoolNode /\ B[n] \in PoolNode /\ A[n] \in PoolNode
        BY <1>1, <1>2, <2>2, <3>1, ElementOfSeq DEF PoolInv
      <4> QED
        BY <4>1 DEF PoolNode
    <3> QED
      BY <3>1, <3>2, <3>3
  <2> QED
    BY <2>1, <2>2 DEF Gained
<1>7. ASSUME NEW i \in DOMAIN C
      PROVE  Same(A, C, i) \/ (Gained(A, C, i, best) /\ Met(A, best, links, k + 1, C[i].id))
  <2>1. CASE i = n
    BY <1>5, <1>6, <2>1
  <2>2. CASE i # n
    <3>1. i \in DOMAIN B /\ C[i] = B[i]
      BY <1>2, <2>2
    <3>2. Same(A, B, i) \/ (Gained(A, B, i, best) /\ Met(A, best, links, k + 1, B[i].id))
      BY <1>0, <3>1 DEF LoopPool
    <3> QED
      BY <3>1, <3>2 DEF Same, Gained
  <2> QED
    BY <2>1, <2>2
<1> QED
  BY <1>3, <1>4, <1>7 DEF LoopPool

\* ... and of the node nearest to the goal ...
LEMMA TouchedLoopLast ==
  ASSUME Measured, NEW A, NEW best, NEW links, NEW k, NEW B, PoolInv(B), NEW last, last.rest \in Nat,
         NEW now, LoopPool(A, B, best, links, k),
         LoopLast(A, B, last, now), NEW ref, NEW C, NEW n, Touched(B, C, n, best, ref), NEW next,
         next = IF Rest(C[n]) < now.rest THEN [node |-> n, rest |-> Rest(C[n])] ELSE now
  PROVE  LoopLast(A, C, last, next)
<1>1. /\ DOMAIN B = 1..Len(B) /\ Len(B) \in Nat /\ DOMAIN C = 1..Len(C) /\ Len(C) \in Nat
      /\ B \in Seq(PoolNode) /\ C \in Seq(PoolNode)
  BY Listed DEF PoolInv, Touched
<1>2. /\ DOMAIN B \subseteq DOMAIN C /\ n \in DOMAIN C
      /\ \A j \in DOMAIN C : j # n => j \in DOMAIN B /\ C[j] = B[j]
  BY <1>1 DEF Touched
<1>3. ASSUME NEW i \in DOMAIN B PROVE Rest(C[i]) = Rest(B[i])
  <2>1. CASE i = n
    <3>1. C[i].id = B[i].id /\ C[i].pos = B[i].pos
      BY <2>1 DEF Touched
    <3> QED
      BY <3>1, RestStays
  <2>2. CASE i # n
    BY <1>2, <2>2
  <2> QED
    BY <2>1, <2>2
<1>4. \A i \in DOMAIN C : Rest(C[i]) \in Nat
  BY <1>1, ElementOfSeq, RestIs
<1>5. now.node \in DOMAIN C /\ now.rest = Rest(C[now.node]) /\ now.rest \in Nat
  BY <1>2, <1>3, <1>4 DEF LoopLast
<1>6. ~Same(A, C, n)
  <2> SUFFICES ASSUME n \in DOMAIN A, C[n] = A[n] PROVE FALSE
    BY DEF Same
  <2>1. n \in DOMAIN B /\ C[n].cost < B[n].cost /\ C[n].cost \in Nat /\ B[n].cost \in Nat
    <3>1. n \in DOMAIN B
      BY DEF LoopPool
    <3>2. C[n] \in PoolNode /\ B[n] \in PoolNode
      BY <1>1, <1>2, <3>1, ElementOfSeq
    <3> QED
      BY <3>1, <3>2 DEF Touched, PoolNode
  <2>2. B[n] = A[n] \/ B[n].cost < A[n].cost
    BY <2>1 DEF LoopPool, Same, Gained
  <2> QED
    BY <2>1, <2>2
<1>7. ASSUME NEW i \in DOMAIN C, ~Same(A, C, i), i # n PROVE now.rest <= Rest(C[i])
  <2>1. i \in DOMAIN B /\ ~Same(A, B, i)
    BY <1>2, <1>7 DEF Same
  <2> QED
    BY <1>3, <2>1 DEF LoopLast
<1>8. CASE Rest(C[n]) < now.rest
  <2>1. next.node = n /\ next.rest = Rest(C[n]) /\ Rest(C[n]) \in Nat
    BY <1>2, <1>4, <1>8
  <2>2. next.rest <= last.rest
    BY <1>5, <1>8, <2>1 DEF LoopLast
  <2>3. ASSUME NEW i \in DOMAIN C, ~Same(A, C, i) PROVE next.rest <= Rest(C[i])
    <3>1. CASE i = n
      BY <2>1, <3>1
    <3>2. CASE i # n
      BY <1>4, <1>5, <1>7, <1>8, <2>1, <2>3, <3>2
    <3> QED
      BY <3>1, <3>2
  <2> QED
    BY <1>2, <1>6, <2>1, <2>2, <2>3 DEF LoopLast
<1>9. CASE ~(Rest(C[n]) < now.rest)
  <2>1. next = now
    BY <1>9
  <2>2. now.node = last.node \/ ~Same(A, C, now.node)
    <3>1. CASE now.node = n
      BY <1>6, <3>1
    <3>2. CASE now.node # n
      <4>1. C[now.node] = B[now.node]
        BY <1>2, <1>5, <3>2
      <4> QED
        BY <4>1 DEF LoopLast, Same
    <3> QED
      BY <3>1, <3>2
  <2>3. ASSUME NEW i \in DOMAIN C, ~Same(A, C, i) PROVE now.rest <= Rest(C[i])
    <3>1. CASE i = n
      BY <1>4, <1>5, <1>9, <3>1
    <3>2. CASE i # n
      BY <1>7, <2>3, <3>2
    <3> QED
      BY <3>1, <3>2
  <2>4. now.rest <= last.rest
    BY DEF LoopLast
  <2> QED
    BY <1>5, <2>1, <2>2, <2>3, <2>4 DEF LoopLast
<1> QED
  BY <1>8, <1>9

\* A link that leads to a known polygon is not missed ...
LEMMA LeftLoopOut ==
  ASSUME NEW A, NEW B, NEW best, NEW links, NEW k \in Nat, NEW out, NEW now,
         LoopOut(A, B, best, links, k, out, now), ~Missing(A, B, best, links[k + 1].ref)
  PROVE  LoopOut(A, B, best, links, k + 1, out, now)
<1>1. \A j \in 1..(k + 1) : j \in 1..k \/ j = k + 1
  OBVIOUS
<1>2. 1..k \subseteq 1..(k + 1)
  OBVIOUS
<1> QED
  BY <1>1, <1>2 DEF LoopOut

\* ... one that no node is left for is reported ...
LEMMA NoRoomLoopOut ==
  ASSUME NEW A, NEW B, NEW best, NEW links, NEW k \in Nat, NEW out, NEW now,
         LoopOut(A, B, best, links, k, out, now),
         Missing(A, B, best, links[k + 1].ref), Len(B) >= maxNodes
  PROVE  LoopOut(A, B, best, links, k + 1, out, TRUE)
<1>1. \A j \in 1..(k + 1) : j \in 1..k \/ j = k + 1
  OBVIOUS
<1>2. k + 1 \in 1..(k + 1)
  OBVIOUS
<1> QED
  BY <1>1, <1>2 DEF LoopOut

\* ... and one whose node is added or improved is not missed.
LEMMA TouchedLoopOut ==
  ASSUME maxNodes \in Nat, NEW A, NEW B, PoolInv(B), NEW best, NEW links, NEW k \in Nat,
         NEW out, NEW now, LoopOut(A, B, best, links, k, out, now), NEW C, NEW n,
         Touched(B, C, n, best, links[k + 1].ref)
  PROVE  LoopOut(A, C, best, links, k + 1, out, now)
<1> DEFINE lost(D, j) == Missing(A, D, best, links[j].ref)
<1>1. /\ DOMAIN B = 1..Len(B) /\ Len(B) \in Nat /\ DOMAIN C = 1..Len(C) /\ Len(C) \in Nat
      /\ B \in Seq(PoolNode) /\ C \in Seq(PoolNode)
  BY Listed DEF PoolInv, Touched
<1>2. /\ DOMAIN B \subseteq DOMAIN C /\ n \in DOMAIN C /\ Len(B) <= Len(C)
      /\ \A j \in DOMAIN C : j # n => j \in DOMAIN B /\ C[j] = B[j]
  BY <1>1 DEF Touched
<1>3. \A j \in DOMAIN B : C[j].id = B[j].id
  BY <1>2 DEF Touched
<1>4. \A ref : Has(B, ref) => Has(C, ref)
  BY <1>2, <1>3 DEF Has
<1>5. ~lost(C, k + 1)
  BY <1>2 DEF Missing, Has, Touched
<1>6. \A j : lost(C, j) => lost(B, j)
  BY <1>4 DEF Missing
<1>7. ASSUME Len(B) >= maxNodes, NEW j, lost(B, j) PROVE lost(C, j)
  <2>1. DOMAIN C = DOMAIN B
    <3>1. n \in DOMAIN B
      BY <1>1, <1>7 DEF Touched
    <3> QED
      BY <1>2, <3>1
  <2>2. \A ref : Has(C, ref) => Has(B, ref)
    BY <1>3, <2>1 DEF Has
  <2> QED
    BY <1>7, <2>2 DEF Missing
<1>8. \A j \in 1..(k + 1) : j \in 1..k \/ j = k + 1
  OBVIOUS
<1>9. 1..k \subseteq 1..(k + 1)
  OBVIOUS
<1>10. now => out \/ \E j \in 1..(k + 1) : lost(C, j)
  <2> SUFFICES ASSUME now, ~out PROVE \E j \in 1..(k + 1) : lost(C, j)
    OBVIOUS
  <2>1. PICK j \in 1..k : lost(B, j)
    BY DEF LoopOut
  <2>2. Len(B) >= maxNodes
    BY <2>1 DEF LoopOut
  <2> HIDE DEF lost
  <2> QED
    BY <1>7, <1>9, <2>1, <2>2
<1>11. ASSUME NEW j \in 1..(k + 1), lost(C, j) PROVE now /\ Len(C) >= maxNodes
  <2>1. j \in 1..k /\ lost(B, j)
    BY <1>5, <1>6, <1>8, <1>11
  <2>2. now /\ Len(B) >= maxNodes
    BY <2>1 DEF LoopOut
  <2> QED
    BY <1>1, <1>2, <2>2
<1> QED
  BY <1>10, <1>11 DEF LoopOut

\* Every link keeps the invariant of the loop.
LEMMA LinkStep ==
  ASSUME Measured, maxNodes \in Nat, NEW A, PoolInv(A), NEW best \in DOMAIN A, NEW links,
         NEW last, last.rest \in Nat, NEW out, NEW k \in Nat, NEW w,
         LoopInv(w, A, best, links, k, last, out),
         links[k + 1].ref \in LinkedPolys(navMesh), LinkedPolys(navMesh) \subseteq Polygons,
         MidPoint(navMesh, A[best].id, links[k + 1].ref) \in Space
  PROVE  LoopInv(VisitLink(w, best, links[k + 1].ref), A, best, links, k + 1, last, out)
<1> DEFINE ref == links[k + 1].ref
           r == VisitLink(w, best, ref)
           B == w.nodes
<1>1. /\ IsWork(w) /\ PoolInv(B) /\ HeapOf(B, OpenOf(B), w.open)
      /\ LoopPool(A, B, best, links, k) /\ LoopLast(A, B, last, w.last)
      /\ LoopOut(A, B, best, links, k, out, w.out)
  BY DEF LoopInv
<1>2. best \in DOMAIN B /\ B[best] = A[best] /\ ref \in Polygons
  BY <1>1 DEF LoopPool
<1>3. Skipped(B, best, ref) <=> Skipped(A, best, ref)
  BY <1>1, SkippedStays
<1>4. \/ Left(w, best, ref, r) \/ NoRoom(w, best, ref, r)
      \/ Again1(w, best, ref, r) \/ Added(w, best, ref, r)
  BY <1>1, <1>2, LinkIs
<1>5. LoopPool(A, B, best, links, k + 1)
  BY <1>1, LaterPool
<1> SUFFICES LoopInv(r, A, best, links, k + 1, last, out)
  OBVIOUS
<1> HIDE DEF r
<1>6. CASE Left(w, best, ref, r)
  <2>1. ~Missing(A, B, best, ref)
    BY <1>3, <1>6 DEF Left, Missing
  <2>2. LoopOut(A, B, best, links, k + 1, out, w.out)
    BY <1>1, <2>1, LeftLoopOut
  <2> QED
    BY <1>1, <1>5, <1>6, <2>2 DEF Left, LoopInv
<1>7. CASE NoRoom(w, best, ref, r)
  <2>1. Missing(A, B, best, ref) /\ Len(B) >= maxNodes
    BY <1>3, <1>7 DEF NoRoom, Missing
  <2>2. LoopOut(A, B, best, links, k + 1, out, TRUE)
    BY <1>1, <2>1, NoRoomLoopOut
  <2>3. IsWork(r) /\ r.nodes = B /\ r.open = w.open /\ r.last = w.last /\ r.out = TRUE
    <3>1. r = [w EXCEPT !.out = TRUE]
      BY <1>7 DEF NoRoom
    <3>2. DOMAIN r = DOMAIN w /\ r = [f \in DOMAIN r |-> r[f]]
      BY <3>1
    <3> QED
      BY <1>1, <3>1, <3>2 DEF IsWork
  <2> QED
    BY <1>1, <1>5, <2>2, <2>3 DEF LoopInv
<1>8. ASSUME NEW n, ~Skipped(B, best, ref), Extended(w, r, n, best, ref)
      PROVE  LoopInv(r, A, best, links, k + 1, last, out)
  <2> DEFINE C == r.nodes
  <2>1. /\ Touched(B, C, n, best, ref) /\ IsWork(r) /\ r.out = w.out
        /\ HeapOf(C, OpenOf(C), r.open)
        /\ r.last = IF Rest(C[n]) < w.last.rest THEN [node |-> n, rest |-> Rest(C[n])] ELSE w.last
    BY <1>8 DEF Extended
  <2>2. PoolInv(C)
    BY <1>1, <1>2, <2>1, TouchedKeepsPool
  <2>3. LoopPool(A, C, best, links, k + 1)
    BY <1>1, <1>3, <1>8, <2>1, TouchedLoopPool
  <2>4. LoopLast(A, C, last, r.last)
    <3> HIDE DEF C, B, ref
    <3> QED
      BY <1>1, <2>1, TouchedLoopLast
  <2>5. LoopOut(A, C, best, links, k + 1, out, r.out)
    BY <1>1, <2>1, TouchedLoopOut
  <2> QED
    BY <2>1, <2>2, <2>3, <2>4, <2>5 DEF LoopInv
<1>9. CASE Again1(w, best, ref, r)
  <2>1. PICK n \in DOMAIN B : B[n].id = ref /\ ~Worse(w, best, n) /\ Turned(w, r, best, n)
    BY <1>9 DEF Again1
  <2>2. Extended(w, r, n, best, ref)
    BY <1>1, <1>2, <2>1, AgainExtends
  <2> QED
    BY <1>8, <1>9, <2>2 DEF Again1
<1>10. CASE Added(w, best, ref, r)
  <2>1. Extended(w, r, Len(B) + 1, best, ref)
    BY <1>1, <1>2, <1>10, AddedExtends
  <2> QED
    BY <1>8, <1>10, <2>1 DEF Added
<1> QED
  BY <1>4, <1>6, <1>7, <1>9, <1>10

\* The states of the loop, of which VisitLinks is the last.
Visited(w, best, links) ==
  LET visited[k \in 0..Len(links)] ==
        IF k = 0 THEN w ELSE VisitLink(visited[k - 1], best, links[k].ref)
  IN visited

\* The loop over the links, a link at a time.
LEMMA VisitedAt ==
  ASSUME NEW w, NEW best, NEW links, Len(links) \in Nat
  PROVE  /\ Visited(w, best, links)[0] = w
         /\ \A k \in Nat : k < Len(links) =>
              Visited(w, best, links)[k + 1] =
                VisitLink(Visited(w, best, links)[k], best, links[k + 1].ref)
<1> DEFINE N == Len(links)
           Body(f, k) == IF k = 0 THEN w ELSE VisitLink(f[k - 1], best, links[k].ref)
           S == {n \in Nat : \E f : f = [k \in 0..n |-> Body(f, k)]}
           visited == Visited(w, best, links)
<1>1. 0 \in S
  <2> DEFINE f == [k \in 0..0 |-> w]
  <2>1. f = [k \in 0..0 |-> Body(f, k)]
    OBVIOUS
  <2> HIDE DEF f, Body
  <2> QED
    BY <2>1
<1>2. ASSUME NEW n \in Nat, n \in S PROVE n + 1 \in S
  <2>1. PICK f : f = [k \in 0..n |-> Body(f, k)]
    <3> HIDE DEF Body
    <3> QED
      BY <1>2
  <2> DEFINE g == [k \in 0..(n + 1) |-> IF k <= n THEN f[k] ELSE Body(f, n + 1)]
  <2>2. ASSUME NEW k \in 0..(n + 1) PROVE g[k] = Body(g, k)
    <3>1. \A i \in 0..n : g[i] = f[i]
      OBVIOUS
    <3>2. g[k] = Body(f, k)
      <4>1. CASE k <= n
        <5>1. f[k] = Body(f, k)
          <6> HIDE DEF Body
          <6> QED
            BY <2>1, <4>1
        <5> HIDE DEF Body
        <5> QED
          BY <4>1, <5>1
      <4>2. CASE ~(k <= n)
        <5>1. k = n + 1
          BY <4>2
        <5> HIDE DEF Body
        <5> QED
          BY <4>2, <5>1
      <4> QED
        BY <4>1, <4>2
    <3>3. Body(g, k) = Body(f, k)
      <4> HIDE DEF g
      <4>1. k # 0 => k - 1 \in 0..n
        OBVIOUS
      <4> QED
        BY <3>1, <4>1
    <3> QED
      BY <3>2, <3>3
  <2>3. g = [k \in 0..(n + 1) |-> Body(g, k)]
    <3>1. g = [k \in 0..(n + 1) |-> g[k]]
      OBVIOUS
    <3> HIDE DEF g, Body
    <3> QED
      BY <2>2, <3>1
  <2> HIDE DEF g, Body
  <2> QED
    BY <2>3
<1>3. N \in S
  <2> HIDE DEF S, N
  <2>1. N \in Nat
    BY DEF N
  <2> QED
    BY <1>1, <1>2, <2>1, SetInduction
<1>4. visited = [k \in 0..N |-> Body(visited, k)]
  <2>1. PICK f : f = [k \in 0..N |-> Body(f, k)]
    <3> HIDE DEF Body
    <3> QED
      BY <1>3
  <2> QED
    BY <2>1 DEF Visited
<1>5. \A k \in 0..N : visited[k] = Body(visited, k)
  <2> HIDE DEF visited, Body
  <2> QED
    BY <1>4
<1> HIDE DEF visited, N
<1>6. N \in Nat
  BY DEF N
<1>7. visited[0] = w
  BY <1>5, <1>6
<1>8. ASSUME NEW k \in Nat, k < N
      PROVE  visited[k + 1] = VisitLink(visited[k], best, links[k + 1].ref)
  <2>1. k + 1 \in 0..N /\ k + 1 # 0 /\ k + 1 - 1 = k
    BY <1>6, <1>8
  <2> QED
    BY <1>5, <2>1
<1> QED
  BY <1>7, <1>8 DEF visited, N

\* The invariant of the loop holds after the last link.
LEMMA LinksVisited ==
  ASSUME Measured, maxNodes \in Nat, NEW A, PoolInv(A), NEW best \in DOMAIN A, NEW links,
         NEW last, last.rest \in Nat, NEW out, NEW w, LoopInv(w, A, best, links, 0, last, out),
         Len(links) \in Nat, LinkedPolys(navMesh) \subseteq Polygons,
         \A k \in 1..Len(links) : /\ links[k].ref \in LinkedPolys(navMesh)
                                  /\ MidPoint(navMesh, A[best].id, links[k].ref) \in Space
  PROVE  LoopInv(VisitLinks(w, best, links), A, best, links, Len(links), last, out)
<1> DEFINE visited == Visited(w, best, links)
           S == {k \in Nat : k <= Len(links) => LoopInv(visited[k], A, best, links, k, last, out)}
<1>1. /\ visited[0] = w
      /\ \A k \in Nat : k < Len(links) =>
           visited[k + 1] = VisitLink(visited[k], best, links[k + 1].ref)
  BY VisitedAt
<1> HIDE DEF visited
<1>2. 0 \in S
  BY <1>1
<1>3. ASSUME NEW k \in Nat, k \in S PROVE k + 1 \in S
  <2> SUFFICES ASSUME k + 1 <= Len(links)
               PROVE  LoopInv(visited[k + 1], A, best, links, k + 1, last, out)
    OBVIOUS
  <2>1. k < Len(links) /\ k + 1 \in 1..Len(links)
    OBVIOUS
  <2>2. LoopInv(visited[k], A, best, links, k, last, out)
    BY <1>3, <2>1
  <2>3. LoopInv(VisitLink(visited[k], best, links[k + 1].ref), A, best, links, k + 1, last, out)
    BY <2>1, <2>2, LinkStep
  <2> QED
    BY <1>1, <2>1, <2>3
<1>4. Len(links) \in S
  <2> HIDE DEF S
  <2> QED
    BY <1>2, <1>3, SetInduction
<1>5. VisitLinks(w, best, links) = visited[Len(links)]
  BY DEF VisitLinks, Visited, visited
<1> QED
  BY <1>4, <1>5

-----------------------------------------------------------------------------
(* One turn of the search                                                  *)

\* The pool C is N with the best node closed, the top of the heap.
Taken(N, heap, C, best) ==
  /\ best \in OpenOf(N) /\ \A k \in OpenOf(N) : N[best].total <= N[k].total
  /\ DOMAIN C = DOMAIN N /\ PoolInv(C)
  /\ \A k \in DOMAIN N :
       /\ C[k].id = N[k].id /\ C[k].pidx = N[k].pidx /\ C[k].pos = N[k].pos
       /\ C[k].cost = N[k].cost /\ C[k].total = N[k].total
  /\ OpenOf(C) = OpenOf(N) \ {best} /\ HeapOf(C, OpenOf(C), Pop(N, heap))

\* A node that is closed is otherwise as before.
LEMMA ClosedNode ==
  ASSUME NEW node \in PoolNode
  PROVE  LET new == [node EXCEPT !.flag = "closed"]
         IN /\ new \in PoolNode /\ new.id = node.id /\ new.pidx = node.pidx /\ new.pos = node.pos
            /\ new.cost = node.cost /\ new.total = node.total /\ new.flag = "closed"
<1> DEFINE new == [node EXCEPT !.flag = "closed"]
<1>1. DOMAIN new = {"id", "pidx", "cost", "total", "pos", "flag"} /\ new = [f \in DOMAIN new |-> new[f]]
  BY DEF PoolNode
<1>2. /\ new.id = node.id /\ new.pidx = node.pidx /\ new.pos = node.pos
      /\ new.cost = node.cost /\ new.total = node.total /\ new.flag = "closed"
  BY DEF PoolNode
<1>3. /\ new.id \in Polygons /\ new.pos \in Space /\ new.pidx \in Nat /\ new.cost \in Nat
      /\ new.total \in Nat /\ new.flag \in {"new", "open", "closed"}
  BY <1>2 DEF PoolNode
<1> HIDE DEF new
<1>4. new \in PoolNode
  BY ONLY <1>1, <1>3 DEF PoolNode
<1> QED
  BY <1>2, <1>4 DEF new

\* The turn of the search closes the best of the open nodes and takes it off the heap.
LEMMA TopTaken ==
  ASSUME NEW N, PoolInv(N), NEW heap, HeapOf(N, OpenOf(N), heap), heap # <<>>
  PROVE  Taken(N, heap, [N EXCEPT ![heap[1]].flag = "closed"], heap[1])
<1> DEFINE best == heap[1]
           C == [N EXCEPT ![heap[1]].flag = "closed"]
           m == Len(N)
           X == OpenOf(N)
<1>1. N \in Seq(PoolNode) /\ m \in Nat /\ N \in [1..m -> PoolNode] /\ DOMAIN N = 1..m
  BY Listed DEF PoolInv
<1>2. best \in X /\ \A x \in X : Key(N, best) <= Key(N, x)
  <2> HIDE DEF X
  <2>1. HeapOf(N, X, heap)
    BY DEF X
  <2> QED
    BY <2>1, TopOf
<1>3. HeapOf(N, X \ {best}, Pop(N, heap))
  <2> HIDE DEF X
  <2>1. HeapOf(N, X, heap)
    BY DEF X
  <2> QED
    BY <2>1, PopTakes
<1>4. best \in 1..m
  BY <1>1, <1>2 DEF OpenOf
<1> HIDE DEF best
<1>5. C = [N EXCEPT ![best] = [N[best] EXCEPT !.flag = "closed"]]
  BY <1>4 DEF best
<1> HIDE DEF C
<1>6. DOMAIN C = 1..m /\ \A k \in 1..m : k # best => C[k] = N[k]
  BY <1>1, <1>5
<1>7. /\ C[best] \in PoolNode /\ C[best].id = N[best].id /\ C[best].pidx = N[best].pidx
      /\ C[best].pos = N[best].pos /\ C[best].cost = N[best].cost
      /\ C[best].total = N[best].total /\ C[best].flag = "closed"
  <2> DEFINE node == N[best]
  <2>1. node \in PoolNode
    BY <1>1, <1>4
  <2>2. C[best] = [node EXCEPT !.flag = "closed"]
    BY <1>1, <1>4, <1>5
  <2> HIDE DEF node
  <2>3. LET new == [node EXCEPT !.flag = "closed"]
        IN /\ new \in PoolNode /\ new.id = node.id /\ new.pidx = node.pidx /\ new.pos = node.pos
           /\ new.cost = node.cost /\ new.total = node.total /\ new.flag = "closed"
    BY <2>1, ClosedNode
  <2> QED
    BY <2>2, <2>3 DEF node
<1>8. ASSUME NEW k \in 1..m
      PROVE  /\ C[k].id = N[k].id /\ C[k].pidx = N[k].pidx /\ C[k].pos = N[k].pos
             /\ C[k].cost = N[k].cost /\ C[k].total = N[k].total
  BY <1>6, <1>7
<1>9. C \in Seq(PoolNode)
  <2>1. \A k \in 1..m : C[k] \in PoolNode
    BY <1>1, <1>6, <1>7
  <2>2. C = [k \in 1..m |-> C[k]]
    BY <1>5, <1>6
  <2>3. C \in [1..m -> PoolNode]
    BY <2>1, <2>2
  <2> QED
    BY <1>1, <2>3, Listing
<1>10. PoolInv(C)
  <2>1. \A j, k \in 1..m : C[j].id = C[k].id => j = k
    BY <1>1, <1>8 DEF PoolInv
  <2>2. \A k \in 1..m : Rest(C[k]) = Rest(N[k])
    BY <1>8, RestStays
  <2>3. \A k \in 1..m : C[k].flag # "new"
    BY <1>1, <1>6, <1>7 DEF PoolInv
  <2> QED
    BY <1>1, <1>6, <1>8, <1>9, <2>1, <2>2, <2>3 DEF PoolInv
<1>11. OpenOf(C) = X \ {best}
  BY <1>1, <1>6, <1>7 DEF OpenOf
<1>12. HeapOf(C, X \ {best}, Pop(N, heap))
  <2>1. \A x \in X \ {best} : Key(C, x) = Key(N, x)
    BY <1>1, <1>8 DEF OpenOf, Key
  <2> HIDE DEF X
  <2> QED
    BY <1>3, <2>1, SameKeys
<1> QED
  BY <1>1, <1>2, <1>6, <1>8, <1>10, <1>11, <1>12 DEF Taken, Key, C, best

-----------------------------------------------------------------------------
(* The invariant of the search                                             *)

Blank ==
  /\ query = NoQuery /\ nodes = <<>> /\ openList = <<>>
  /\ lastBest.node = 0 /\ outOfNodes = FALSE

Tree ==
  /\ IsTile(navMesh) /\ Measured /\ query.from.ref # query.to.ref
  /\ {query.from.ref, query.to.ref} \subseteq LinkedPolys(navMesh)
  /\ PoolInv(nodes) /\ HeapOf(nodes, OpenOf(nodes), openList)
  /\ lastBest.node \in DOMAIN nodes /\ outOfNodes \in BOOLEAN

SearchInv ==
  /\ maxNodes \in Nat /\ phase \in {"idle", "searching", "ended"}
  /\ phase = "idle" => Blank
  /\ phase = "searching" => Tree /\ lastBest.rest = Rest(nodes[lastBest.node])
  /\ phase = "ended" => Blank \/ Tree

BestLinks == navMesh.links[nodes[openList[1]].id]

\* The links of a node's polygon lead to polygons of the tile.
LEMMA LinksAre ==
  ASSUME Tree, NEW k \in DOMAIN nodes
  PROVE  LET links == navMesh.links[nodes[k].id]
         IN /\ nodes[k].id \in LinkedPolys(navMesh) /\ Len(links) \in Nat
            /\ DOMAIN links = 1..Len(links)
            /\ \A j \in 1..Len(links) : /\ links[j].ref \in LinkedPolys(navMesh)
                                        /\ MidPoint(navMesh, nodes[k].id, links[j].ref) \in Space
<1> DEFINE id == nodes[k].id
           links == navMesh.links[id]
           L == [ref : LinkedPolys(navMesh), edge : Nat]
<1>1. id \in LinkedPolys(navMesh)
  BY DEF Tree, PoolInv
<1>2. /\ links \in Seq(L)
      /\ \A j \in DOMAIN links : MidPoint(navMesh, id, links[j].ref) \in Space
  BY <1>1 DEF Tree, IsTile
<1>3. \A l \in L : l.ref \in LinkedPolys(navMesh)
  OBVIOUS
<1> HIDE DEF links, L
<1>4. Len(links) \in Nat /\ links \in [1..Len(links) -> L] /\ DOMAIN links = 1..Len(links)
  BY <1>2, Listed
<1> QED
  BY <1>1, <1>2, <1>3, <1>4 DEF links

\* What a turn that expands the best node leaves behind.
Expanded(C, w) ==
  /\ Taken(nodes, openList, C, openList[1])
  /\ LoopInv(w, C, openList[1], BestLinks, Len(BestLinks), lastBest, outOfNodes)
  /\ nodes' = w.nodes /\ openList' = w.open /\ lastBest' = w.last /\ outOfNodes' = w.out
  /\ UNCHANGED <<query, navMesh, phase, maxNodes>>

\* A turn that does not take the goal expands the best node ...
LEMMA TurnExpands ==
  ASSUME Tree, lastBest.rest = Rest(nodes[lastBest.node]), maxNodes \in Nat,
         SearchStep, nodes[openList[1]].id # query.to.ref, UNCHANGED <<navMesh, maxNodes>>
  PROVE  \E C, w : Expanded(C, w)
<1> DEFINE best == openList[1]
           C == [nodes EXCEPT ![openList[1]].flag = "closed"]
           rest1 == Pop(nodes, openList)
           w0 == [nodes |-> C, open |-> rest1, last |-> lastBest, out |-> outOfNodes]
           links == BestLinks
           w == VisitLinks(w0, best, links)
<1>1. /\ openList # <<>> /\ nodes' = w.nodes /\ openList' = w.open /\ lastBest' = w.last
      /\ outOfNodes' = w.out /\ UNCHANGED <<query, navMesh, phase, maxNodes>>
  BY DEF SearchStep, BestLinks
<1>2. Taken(nodes, openList, C, best)
  BY <1>1, TopTaken DEF Tree
<1> HIDE DEF C, w, rest1, best
<1>3. /\ best \in DOMAIN nodes /\ DOMAIN C = DOMAIN nodes /\ PoolInv(C)
      /\ HeapOf(C, OpenOf(C), rest1) /\ C[best].id = nodes[best].id
  BY <1>2 DEF Taken, OpenOf, rest1
<1>4. lastBest.node \in DOMAIN C /\ lastBest.rest = Rest(C[lastBest.node]) /\ lastBest.rest \in Nat
  <2>1. lastBest.node \in DOMAIN C /\ lastBest.rest = Rest(C[lastBest.node])
    <3>1. lastBest.node \in DOMAIN nodes
      BY DEF Tree
    <3>2. Rest(C[lastBest.node]) = Rest(nodes[lastBest.node])
      BY <1>2, <3>1, RestStays DEF Taken
    <3> QED
      BY <1>3, <3>1, <3>2
  <2>2. C[lastBest.node] \in PoolNode
    BY <1>3, <2>1, ElementOfSeq, Listed DEF PoolInv
  <2>3. Rest(C[lastBest.node]) \in Nat
    BY <2>2, RestIs DEF Tree
  <2> QED
    BY <2>1, <2>3
<1>5. LoopInv(w0, C, best, links, 0, lastBest, outOfNodes)
  <2>1. /\ IsWork(w0) /\ w0.nodes = C /\ w0.open = rest1 /\ w0.last = lastBest
        /\ w0.out = outOfNodes
    BY DEF IsWork
  <2> HIDE DEF w0
  <2>2. LoopPool(C, C, best, links, 0)
    BY DEF LoopPool, Same
  <2>3. LoopLast(C, C, lastBest, lastBest)
    BY <1>4 DEF LoopLast, Same
  <2>4. LoopOut(C, C, best, links, 0, outOfNodes, outOfNodes)
    BY DEF LoopOut, Tree
  <2> QED
    BY <1>3, <2>1, <2>2, <2>3, <2>4 DEF LoopInv
<1>6. /\ Len(links) \in Nat /\ LinkedPolys(navMesh) \subseteq Polygons /\ Measured
      /\ \A j \in 1..Len(links) : /\ links[j].ref \in LinkedPolys(navMesh)
                                  /\ MidPoint(navMesh, C[best].id, links[j].ref) \in Space
  <2>1. links = navMesh.links[nodes[best].id]
    BY DEF BestLinks, best
  <2> HIDE DEF links
  <2> QED
    BY <1>3, <2>1, LinksAre DEF Tree, IsTile
<1>7. LoopInv(w, C, best, links, Len(links), lastBest, outOfNodes)
  <2> HIDE DEF links, w0
  <2> QED
    BY <1>3, <1>4, <1>5, <1>6, LinksVisited DEF w
<1>8. Expanded(C, w)
  <2> HIDE DEF w0
  <2> QED
    BY <1>1, <1>2, <1>7 DEF Expanded, best
<1> QED
  BY <1>8

\* ... which keeps the invariant.
LEMMA ExpandedTree ==
  ASSUME Tree, NEW C, NEW w, Expanded(C, w)
  PROVE  Tree' /\ lastBest'.rest = Rest(nodes[lastBest.node])'
<1>1. /\ PoolInv(nodes') /\ HeapOf(nodes', OpenOf(nodes'), openList')
      /\ lastBest'.node \in DOMAIN nodes' /\ lastBest'.rest = Rest(nodes'[lastBest'.node])
      /\ outOfNodes' \in BOOLEAN
  BY DEF Expanded, LoopInv, LoopLast, LoopOut
<1>2. query' = query /\ navMesh' = navMesh
  BY DEF Expanded
<1>3. PoolInv(nodes)' /\ HeapOf(nodes, OpenOf(nodes), openList)'
  <2>1. PoolInv(nodes)'
    BY <1>1, <1>2 DEF PoolInv, Rest, Estimate, LinkedPolys
  <2>2. HeapOf(nodes, OpenOf(nodes), openList)'
    BY <1>1 DEF HeapOf, OpenOf, Keys, Key, Ordered, Within, Once
  <2> QED
    BY <2>1, <2>2
<1>4. lastBest'.rest = Rest(nodes[lastBest.node])'
  BY <1>1, <1>2 DEF Rest, Estimate
<1>5. IsTile(navMesh)' /\ Measured' /\ query'.from.ref # query'.to.ref
  BY <1>2 DEF Tree, IsTile, Measured, LinkedPolys
<1> QED
  BY <1>1, <1>2, <1>3, <1>4, <1>5 DEF Tree, LinkedPolys

\* What a turn that takes the goal leaves behind.
Arrived(C) ==
  /\ Taken(nodes, openList, C, openList[1]) /\ nodes[openList[1]].id = query.to.ref
  /\ nodes' = C /\ openList' = Pop(nodes, openList) /\ lastBest'.node = openList[1]
  /\ phase' = "ended" /\ UNCHANGED <<query, navMesh, outOfNodes, maxNodes>>

\* A turn that takes the goal closes its node ...
LEMMA TurnArrives ==
  ASSUME Tree, SearchStep, nodes[openList[1]].id = query.to.ref, UNCHANGED <<navMesh, maxNodes>>
  PROVE  \E C : Arrived(C)
<1> DEFINE C == [nodes EXCEPT ![openList[1]].flag = "closed"]
<1>1. /\ openList # <<>> /\ nodes' = C /\ openList' = Pop(nodes, openList)
      /\ lastBest' = [node |-> openList[1], rest |-> lastBest.rest] /\ phase' = "ended"
      /\ UNCHANGED <<query, navMesh, outOfNodes, maxNodes>>
  BY DEF SearchStep
<1>2. Taken(nodes, openList, C, openList[1])
  BY <1>1, TopTaken DEF Tree
<1>3. lastBest'.node = openList[1]
  BY <1>1
<1> HIDE DEF C
<1>4. Arrived(C)
  BY <1>1, <1>2, <1>3 DEF Arrived
<1> QED
  BY <1>4

\* ... which keeps the invariant.
LEMMA ArrivedTree ==
  ASSUME Tree, NEW C, Arrived(C)
  PROVE  Tree'
<1>1. /\ PoolInv(nodes') /\ HeapOf(nodes', OpenOf(nodes'), openList')
      /\ lastBest'.node \in DOMAIN nodes'
  BY DEF Arrived, Taken, OpenOf
<1>2. query' = query /\ navMesh' = navMesh /\ outOfNodes' = outOfNodes
  BY DEF Arrived
<1>3. PoolInv(nodes)'
  BY <1>1, <1>2 DEF PoolInv, Rest, Estimate, LinkedPolys
<1>4. HeapOf(nodes, OpenOf(nodes), openList)'
  BY <1>1 DEF HeapOf, OpenOf, Keys, Key, Ordered, Within, Once
<1>5. IsTile(navMesh)' /\ Measured' /\ query'.from.ref # query'.to.ref
  BY <1>2 DEF Tree, IsTile, Measured, LinkedPolys
<1> QED
  BY <1>1, <1>2, <1>3, <1>4, <1>5 DEF Tree, LinkedPolys

Begins ==
  /\ IsTile(navMesh) /\ query'.from.ref # query'.to.ref
  /\ {query'.from.ref, query'.to.ref} \subseteq LinkedPolys(navMesh)
  /\ {query'.from.point, query'.to.point} \subseteq Space
  /\ BeginSearch(query'.from, query'.to) /\ UNCHANGED <<navMesh, maxNodes>>

\* A search begins with the node of the start alone.
LEMMA BeginTree ==
  ASSUME Distances, Begins
  PROVE  Tree' /\ lastBest'.rest = Rest(nodes[lastBest.node])' /\ lastBest'.node = 1
<1> DEFINE total == Estimate(query'.from.point, query'.to.point)
           first == [id |-> query'.from.ref, pidx |-> 0, cost |-> 0, total |-> total,
                     pos |-> query'.from.point, flag |-> "open"]
<1>1. /\ nodes' = <<first>> /\ openList' = <<1>> /\ lastBest' = [node |-> 1, rest |-> total]
      /\ outOfNodes' = FALSE /\ navMesh' = navMesh
  BY DEF Begins, BeginSearch
<1>2. Measured'
  BY DEF Begins, Measured
<1>3. query'.from.ref \in Polygons /\ query'.from.ref \in LinkedPolys(navMesh)
  BY DEF Begins, IsTile
<1>4. total \in Nat
  <2>1. VDist(query'.from.point, query'.to.point) \in Nat
    BY DEF Begins, Distances
  <2>2. \A d \in Nat : (999 * d) \div 1000 \in Nat
    OBVIOUS
  <2> QED
    BY <2>1, <2>2 DEF Estimate
<1> HIDE DEF total
<1>5. first \in PoolNode
  BY <1>3, <1>4 DEF PoolNode, Begins
<1>6. /\ first.id = query'.from.ref /\ first.pidx = 0 /\ first.cost = 0 /\ first.total = total
      /\ first.flag = "open" /\ first.pos = query'.from.point
  OBVIOUS
<1> HIDE DEF first
<1>7. nodes' \in Seq(PoolNode) /\ DOMAIN nodes' = {1} /\ nodes'[1] = first
  BY <1>1, <1>5
<1>8. (Rest(nodes[1]))' = total
  BY <1>6, <1>7 DEF Rest, total, Begins
<1>9. PoolInv(nodes)'
  <2>1. \A k \in DOMAIN nodes' : k = 1
    BY <1>7
  <2> QED
    BY <1>1, <1>3, <1>4, <1>6, <1>7, <1>8, <2>1 DEF PoolInv, LinkedPolys
<1>10. HeapOf(nodes, OpenOf(nodes), openList)'
  <2>1. OpenOf(nodes') = {1}
    BY <1>6, <1>7 DEF OpenOf
  <2>2. <<1>> \in Seq({1}) /\ Len(<<1>>) = 1 /\ DOMAIN <<1>> = {1} /\ <<1>>[1] = 1
    OBVIOUS
  <2>3. Within(<<1>>) = {1} /\ Once(<<1>>)
    BY <2>2 DEF Within, Once
  <2>4. Keys(nodes', {1})
    BY <1>4, <1>6, <1>7 DEF Keys, Key
  <2>5. Ordered(nodes', 1, <<1>>)
    BY DEF Ordered
  <2>6. HeapOf(nodes', {1}, <<1>>)
    BY <2>2, <2>3, <2>4, <2>5 DEF HeapOf
  <2>7. HeapOf(nodes', OpenOf(nodes'), openList')
    BY <1>1, <2>1, <2>6
  <2> QED
    BY <2>7 DEF HeapOf, OpenOf, Keys, Key, Ordered, Within, Once
<1>11. IsTile(navMesh)' /\ {query'.from.ref, query'.to.ref} \subseteq LinkedPolys(navMesh)'
  BY <1>1 DEF Begins, IsTile, LinkedPolys
<1>12. lastBest'.node = 1 /\ lastBest'.rest = total
  BY <1>1
<1>13. lastBest'.node \in DOMAIN nodes' /\ lastBest'.rest = Rest(nodes[lastBest.node])'
  BY <1>7, <1>8, <1>12
<1> QED
  BY <1>1, <1>2, <1>9, <1>10, <1>11, <1>12, <1>13 DEF Tree, Begins

\* The invariant is about nothing but the search and the tile.
LEMMA UnchangedInv ==
  ASSUME UNCHANGED <<navMesh, query, nodes, openList, lastBest, outOfNodes>>
  PROVE  (Tree => Tree') /\ (Blank => Blank')
<1>1. PoolInv(nodes) => PoolInv(nodes)'
  BY DEF PoolInv, Rest, Estimate, LinkedPolys
<1>2. HeapOf(nodes, OpenOf(nodes), openList) => HeapOf(nodes, OpenOf(nodes), openList)'
  <2>1. nodes' = nodes /\ openList' = openList
    OBVIOUS
  <2>2. OpenOf(nodes)' = OpenOf(nodes)
    BY <2>1 DEF OpenOf
  <2> QED
    BY <2>1, <2>2
<1>3. IsTile(navMesh) => IsTile(navMesh)'
  BY DEF IsTile, LinkedPolys
<1>4. Tree => Tree'
  BY <1>1, <1>2, <1>3 DEF Tree, Measured, LinkedPolys
<1> QED
  BY <1>4 DEF Blank

-----------------------------------------------------------------------------
(* The steps of the search                                                 *)

\* Before the first search there is no node.
LEMMA InitSearchInv == SearchInit /\ maxNodes \in Nat => SearchInv
BY DEF SearchInit, SearchInv, Blank

SearchTurn == LoadTile \/ FindPathOnTile

\* What each step of the search is.
LEMMA StepIs ==
  ASSUME SearchInv, Distances, [SearchTurn]_<<navMesh, maxNodes, searchVars>>
  PROVE  \/ Begins /\ phase = "idle"
         \/ Tree /\ phase = "searching" /\ \E C : Arrived(C)
         \/ /\ Tree /\ phase = "searching" /\ nodes[openList[1]].id # query.to.ref
            /\ openList # <<>> /\ \E C, w : Expanded(C, w)
         \/ /\ Tree /\ phase = "searching" /\ openList = <<>> /\ phase' = "ended"
            /\ UNCHANGED <<navMesh, maxNodes, query, nodes, openList, lastBest, outOfNodes>>
         \/ phase = "ended" /\ Blank' /\ phase' = "idle" /\ UNCHANGED <<navMesh, maxNodes>>
         \/ /\ phase = "idle" /\ phase' \in {"idle", "ended"} /\ Blank /\ maxNodes' \in Nat
            /\ UNCHANGED <<query, nodes, openList, lastBest, outOfNodes>>
         \/ UNCHANGED <<navMesh, maxNodes, searchVars>>
<1>1. CASE LoadTile
  BY <1>1 DEF LoadTile, SearchInv, searchVars
<1>2. CASE FindPathOnTile
  <2>1. UNCHANGED <<navMesh, maxNodes>>
    BY <1>2 DEF FindPathOnTile
  <2>2. CASE SkipSearch
    BY <2>1, <2>2 DEF SkipSearch, SearchInv
  <2>3. CASE EndSearch
    BY <2>1, <2>3 DEF EndSearch, SearchInv
  <2>4. CASE ClearSearch
    BY <2>1, <2>4 DEF ClearSearch, Blank
  <2>5. CASE SearchStep
    <3>1. phase = "searching" /\ openList # <<>> /\ Tree /\ maxNodes \in Nat
          /\ lastBest.rest = Rest(nodes[lastBest.node])
      BY <2>5 DEF SearchStep, SearchInv
    <3>2. CASE nodes[openList[1]].id = query.to.ref
      <4>1. \E C : Arrived(C)
        BY <2>1, <2>5, <3>1, <3>2, TurnArrives
      <4> QED
        BY <3>1, <4>1
    <3>3. CASE nodes[openList[1]].id # query.to.ref
      <4>1. \E C, w : Expanded(C, w)
        BY <2>1, <2>5, <3>1, <3>3, TurnExpands
      <4> QED
        BY <3>1, <3>3, <4>1
    <3> QED
      BY <3>2, <3>3
  <2>6. CASE Begins
    BY <2>6 DEF Begins, BeginSearch
  <2> QED
    BY <1>2, <2>1, <2>2, <2>3, <2>4, <2>5, <2>6 DEF FindPathOnTile, Begins
<1> QED
  BY <1>1, <1>2 DEF SearchTurn

\* Every step of the search, and loading a tile between two searches, keeps the invariant.
LEMMA SearchInvStep ==
  ASSUME SearchInv, Distances, [SearchTurn]_<<navMesh, maxNodes, searchVars>>
  PROVE  SearchInv'
<1>1. CASE Begins /\ phase = "idle"
  <2>1. Tree' /\ lastBest'.rest = Rest(nodes[lastBest.node])'
    BY <1>1, BeginTree
  <2>2. phase' = "searching" /\ maxNodes' = maxNodes
    BY <1>1 DEF Begins, BeginSearch
  <2> QED
    BY <2>1, <2>2 DEF SearchInv
<1>2. CASE Tree /\ \E C : Arrived(C)
  <2>1. PICK C : Arrived(C)
    BY <1>2
  <2>2. Tree' /\ phase' = "ended" /\ maxNodes' = maxNodes
    BY <1>2, <2>1, ArrivedTree DEF Arrived
  <2> QED
    BY <2>2 DEF SearchInv
<1>3. CASE Tree /\ phase = "searching" /\ \E C, w : Expanded(C, w)
  <2>1. PICK C, w : Expanded(C, w)
    BY <1>3
  <2>2. Tree' /\ lastBest'.rest = Rest(nodes[lastBest.node])'
    BY <1>3, <2>1, ExpandedTree
  <2>3. phase' = "searching" /\ maxNodes' = maxNodes
    BY <1>3, <2>1 DEF Expanded
  <2> QED
    BY <2>2, <2>3 DEF SearchInv
<1>4. CASE Tree /\ phase' = "ended"
           /\ UNCHANGED <<navMesh, maxNodes, query, nodes, openList, lastBest, outOfNodes>>
  BY <1>4, UnchangedInv DEF SearchInv
<1>5. CASE Blank' /\ phase' = "idle" /\ UNCHANGED <<navMesh, maxNodes>>
  BY <1>5 DEF SearchInv
<1>6. CASE /\ phase = "idle" /\ phase' \in {"idle", "ended"} /\ Blank /\ maxNodes' \in Nat
           /\ UNCHANGED <<query, nodes, openList, lastBest, outOfNodes>>
  <2>1. Blank'
    BY <1>6 DEF Blank
  <2> QED
    BY <1>6, <2>1 DEF SearchInv
<1>7. CASE UNCHANGED <<navMesh, maxNodes, searchVars>>
  <2>1. UNCHANGED <<navMesh, maxNodes, query, nodes, openList, lastBest, outOfNodes, phase>>
    BY <1>7 DEF searchVars
  <2>2. (Tree => Tree') /\ (Blank => Blank')
    BY <2>1, UnchangedInv
  <2>3. lastBest.rest = Rest(nodes[lastBest.node]) => lastBest'.rest = Rest(nodes[lastBest.node])'
    BY <2>1 DEF Rest, Estimate
  <2> QED
    BY <2>1, <2>2, <2>3 DEF SearchInv
<1> QED
  BY <1>1, <1>2, <1>3, <1>4, <1>5, <1>6, <1>7, StepIs

\* The search of dtNavMeshQuery::findPath keeps its data in order: the open list is a heap
\* of the open nodes, each once and none before its parent; no polygon has two nodes; the
\* total of a node is its cost and what is left; the estimate that the best node so far
\* is compared by is its own.
THEOREM SearchInvHolds == ASSUME Distances PROVE SearchSpec => []SearchInv
<1>1. SearchInit /\ maxNodes \in Nat => SearchInv
  BY InitSearchInv
<1>2. SearchInv /\ [SearchTurn]_<<navMesh, maxNodes, searchVars>> => SearchInv'
  BY SearchInvStep
<1>3. SearchSpec => SearchInit /\ maxNodes \in Nat /\ [][SearchTurn]_<<navMesh, maxNodes, searchVars>>
  BY PTL DEF SearchSpec, SearchTurn
<1> QED
  BY <1>1, <1>2, <1>3, PTL

-----------------------------------------------------------------------------
(* The search, as the variables of BestFirstSearch                         *)

\* What the variables of BestFirstSearch are, of the node of each polygon.
View ==
  /\ start \in Polygons /\ goal \in Polygons /\ start # goal
  /\ open = {nodes[k].id : k \in OpenOf(nodes)}
  /\ \A k \in DOMAIN nodes :
       /\ nodes[k].id \in Polygons
       /\ cost[nodes[k].id] = nodes[k].cost /\ rest[nodes[k].id] = Rest(nodes[k])
       /\ parent[nodes[k].id] =
            IF nodes[k].pidx = 0 THEN nodes[k].id ELSE nodes[nodes[k].pidx].id
  /\ nearest = nodes[lastBest.node].id
  /\ Abstract!TypeOK

\* A polygon has one node.
LEMMA AtIs ==
  ASSUME PoolInv(nodes), NEW k \in DOMAIN nodes
  PROVE  At(nodes[k].id) = k
<1> DEFINE P(j) == j \in DOMAIN nodes /\ nodes[j].id = nodes[k].id
<1>1. \A j : P(j) => j = k
  BY DEF PoolInv
<1>2. P(k)
  OBVIOUS
<1> QED
  BY <1>1, <1>2 DEF At

\* The variables of BestFirstSearch are those of the nodes.
LEMMA TreeView == Tree => View
<1> SUFFICES ASSUME Tree PROVE View
  OBVIOUS
<1>1. /\ PoolInv(nodes) /\ HeapOf(nodes, OpenOf(nodes), openList)
      /\ LinkedPolys(navMesh) \subseteq Polygons /\ query.from.ref # query.to.ref
      /\ {query.from.ref, query.to.ref} \subseteq LinkedPolys(navMesh)
      /\ lastBest.node \in DOMAIN nodes
  BY DEF Tree, IsTile
<1>2. start \in Polygons /\ goal \in Polygons /\ start # goal
  BY <1>1 DEF start, goal
<1>3. open = {nodes[k].id : k \in OpenOf(nodes)}
  <2>1. Within(openList) = OpenOf(nodes)
    BY <1>1 DEF HeapOf
  <2> QED
    BY <2>1 DEF open, Within
<1>4. /\ nodes \in Seq(PoolNode) /\ Len(nodes) \in Nat /\ DOMAIN nodes = 1..Len(nodes)
      /\ \A k \in DOMAIN nodes : nodes[k] \in PoolNode
  BY <1>1, Listed, ElementOfSeq DEF PoolInv
<1>5. \A k \in DOMAIN nodes : nodes[k].id \in Polygons /\ nodes[k].cost \in Nat /\ nodes[k].total \in Nat
  BY <1>4 DEF PoolNode
<1>6. \A k \in DOMAIN nodes : At(nodes[k].id) = k
  BY <1>1, AtIs
<1>7. \A ref \in found : At(ref) \in DOMAIN nodes /\ nodes[At(ref)].id = ref
  BY <1>6 DEF found
<1>8. \A k \in DOMAIN nodes : nodes[k].id \in found
  BY DEF found
<1>9. \A k \in DOMAIN nodes : Rest(nodes[k]) \in Nat /\ nodes[k].total = nodes[k].cost + Rest(nodes[k])
  BY <1>1, <1>4, RestIs DEF Tree, PoolInv
<1>10. \A k \in DOMAIN nodes : nodes[k].total - nodes[k].cost = Rest(nodes[k])
  BY <1>5, <1>9
<1>11. ASSUME NEW k \in DOMAIN nodes
       PROVE  /\ cost[nodes[k].id] = nodes[k].cost /\ rest[nodes[k].id] = Rest(nodes[k])
              /\ parent[nodes[k].id] =
                   IF nodes[k].pidx = 0 THEN nodes[k].id ELSE nodes[nodes[k].pidx].id
  BY <1>5, <1>6, <1>8, <1>10 DEF cost, rest, parent
<1>12. nearest = nodes[lastBest.node].id
  BY <1>1, <1>4 DEF nearest
<1>13. Abstract!TypeOK
  <2>1. cost \in [Polygons -> Nat]
    BY <1>5, <1>7 DEF cost
  <2>2. rest \in [Polygons -> Nat]
    BY <1>7, <1>9, <1>10 DEF rest
  <2>3. parent \in [Polygons -> Polygons]
    <3>1. \A ref \in found : nodes[At(ref)].pidx # 0 => nodes[nodes[At(ref)].pidx].id \in Polygons
      BY <1>1, <1>5, <1>7 DEF PoolInv
    <3> QED
      BY <3>1 DEF parent
  <2>4. beside \in [Polygons -> SUBSET Polygons]
    <3>1. ASSUME NEW ref \in LinkedPolys(navMesh)
          PROVE  {navMesh.links[ref][k].ref : k \in DOMAIN navMesh.links[ref]} \subseteq Polygons
      <4> DEFINE links == navMesh.links[ref]
      <4>1. links \in Seq([ref : LinkedPolys(navMesh), edge : Nat])
        BY DEF Tree, IsTile
      <4>2. \A k \in DOMAIN links : links[k] \in [ref : LinkedPolys(navMesh), edge : Nat]
        <5> HIDE DEF links
        <5> QED
          BY <4>1, ElementOfSeq, Listed
      <4> HIDE DEF links
      <4>3. \A k \in DOMAIN links : links[k].ref \in LinkedPolys(navMesh)
        BY <4>2
      <4> QED
        BY <1>1, <4>3 DEF links
    <3> QED
      BY <3>1 DEF beside, Neighbours
  <2>5. found \in SUBSET Polygons /\ open \in SUBSET Polygons /\ nearest \in Polygons
    BY <1>1, <1>3, <1>5, <1>12 DEF found, OpenOf
  <2>6. searching \in BOOLEAN /\ dropped \in BOOLEAN
    BY DEF searching, dropped, Tree
  <2> QED
    BY <1>2, <2>1, <2>2, <2>3, <2>4, <2>5, <2>6 DEF Abstract!TypeOK
<1> QED
  BY <1>2, <1>3, <1>5, <1>11, <1>12, <1>13 DEF View

\* Without nodes nothing is found.
LEMMA BlankView ==
  Blank => /\ found = {} /\ open = {} /\ dropped = FALSE /\ start = 1 /\ goal = 1 /\ nearest = 1
           /\ beside = [ref \in Polygons |-> {}] /\ parent = [ref \in Polygons |-> ref]
           /\ cost = [ref \in Polygons |-> 0] /\ rest = [ref \in Polygons |-> 0]
<1> SUFFICES ASSUME Blank
             PROVE /\ found = {} /\ open = {} /\ dropped = FALSE /\ start = 1 /\ goal = 1 /\ nearest = 1
                   /\ beside = [ref \in Polygons |-> {}] /\ parent = [ref \in Polygons |-> ref]
                   /\ cost = [ref \in Polygons |-> 0] /\ rest = [ref \in Polygons |-> 0]
  OBVIOUS
<1>1. start = 1 /\ goal = 1
  BY DEF Blank, NoQuery, start, goal
<1>2. found = {} /\ open = {} /\ dropped = FALSE /\ nearest = start
  BY DEF Blank, found, open, dropped, nearest
<1> QED
  BY <1>1, <1>2 DEF beside, parent, cost, rest

\* They have the types BestFirstSearch gives them.
LEMMA SearchTypes == SearchInv => Abstract!TypeOK
<1> SUFFICES ASSUME SearchInv PROVE Abstract!TypeOK
  OBVIOUS
<1>1. CASE Tree
  BY <1>1, TreeView DEF View
<1>2. CASE Blank
  <2>1. searching \in BOOLEAN
    BY DEF searching
  <2>2. 1 \in Polygons
    BY PolygonsAssumption
  <2>3. /\ found = {} /\ open = {} /\ dropped = FALSE /\ start = 1 /\ goal = 1 /\ nearest = 1
        /\ beside = [ref \in Polygons |-> {}] /\ parent = [ref \in Polygons |-> ref]
        /\ cost = [ref \in Polygons |-> 0] /\ rest = [ref \in Polygons |-> 0]
    BY <1>2, BlankView
  <2>4. /\ beside \in [Polygons -> SUBSET Polygons] /\ parent \in [Polygons -> Polygons]
        /\ cost \in [Polygons -> Nat] /\ rest \in [Polygons -> Nat]
    BY <2>3
  <2> QED
    BY <2>1, <2>2, <2>3, <2>4 DEF Abstract!TypeOK
<1> QED
  BY <1>1, <1>2 DEF SearchInv

-----------------------------------------------------------------------------
(* Its steps, as those of BestFirstSearch                                  *)

\* The same after a step.
LEMMA TreeViewNext == Tree' => View'
BY TreeView, PTL

\* The primed view, with the rest of a node before the step.
LEMMA NextView ==
  ASSUME Tree', query' = query
  PROVE  /\ Abstract!TypeOK'
         /\ open' = {nodes'[k].id : k \in OpenOf(nodes')}
         /\ \A k \in DOMAIN nodes' :
              /\ cost'[nodes'[k].id] = nodes'[k].cost /\ rest'[nodes'[k].id] = Rest(nodes'[k])
              /\ parent'[nodes'[k].id] =
                   IF nodes'[k].pidx = 0 THEN nodes'[k].id ELSE nodes'[nodes'[k].pidx].id
         /\ nearest' = nodes'[lastBest'.node].id
<1>1. View'
  BY TreeViewNext
<1>2. \A k \in DOMAIN nodes' : rest'[nodes'[k].id] = Rest(nodes'[k])
  BY <1>1 DEF View, Rest, Estimate
<1>3. open' = {nodes'[k].id : k \in OpenOf(nodes')}
  BY <1>1 DEF View, OpenOf
<1> QED
  BY <1>1, <1>2, <1>3 DEF View

\* The turn that expands the best node, seen from BestFirstSearch.
LEMMA ExpandedImplements ==
  ASSUME Tree, phase = "searching", nodes[openList[1]].id # query.to.ref, NEW C, NEW w,
         lastBest.rest = Rest(nodes[lastBest.node]), Expanded(C, w)
  PROVE  \E b \in open : \E improved \in SUBSET (beside[b] \ {parent[b]}) : Abstract!Expand(b, improved)
<1> DEFINE A == nodes
           B == nodes'
           best == openList[1]
           links == BestLinks
           b == A[best].id
           New == {j \in DOMAIN B : ~Same(C, B, j)}
           improved == {B[i].id : i \in New}
<1>1. View /\ Tree' /\ PoolInv(A)
  BY TreeView, ExpandedTree DEF Tree
<1>2. /\ best \in OpenOf(A) /\ \A k \in OpenOf(A) : A[best].total <= A[k].total
      /\ DOMAIN C = DOMAIN A /\ PoolInv(C) /\ OpenOf(C) = OpenOf(A) \ {best}
      /\ \A k \in DOMAIN A : /\ C[k].id = A[k].id /\ C[k].pidx = A[k].pidx /\ C[k].pos = A[k].pos
                             /\ C[k].cost = A[k].cost
  BY DEF Expanded, Taken
<1>3. best \in DOMAIN A /\ best # 0
  <2>1. DOMAIN A = 1..Len(A) /\ Len(A) \in Nat
    BY <1>1, Listed DEF PoolInv
  <2> QED
    BY <1>2, <2>1 DEF OpenOf
<1>4. /\ PoolInv(B) /\ LoopPool(C, B, best, links, Len(links))
      /\ LoopLast(C, B, lastBest, lastBest')
      /\ LoopOut(C, B, best, links, Len(links), outOfNodes, outOfNodes')
      /\ UNCHANGED <<query, navMesh, phase, maxNodes>>
  BY DEF Expanded, LoopInv
<1>5. /\ DOMAIN A \subseteq DOMAIN B /\ B[best] = C[best]
      /\ \A i \in DOMAIN A : B[i].id = A[i].id /\ B[i].pos = A[i].pos
      /\ \A i \in DOMAIN A : i \notin New => B[i] = C[i]
      /\ \A i \in DOMAIN B : i \notin New => i \in DOMAIN A
  BY <1>2, <1>4 DEF LoopPool, Same
<1>6. \A i \in New :
        /\ i \in DOMAIN B /\ B[i].pidx = best /\ B[i].flag = "open" /\ B[i].cost >= A[best].cost
        /\ (i \in DOMAIN A => B[i].cost < A[i].cost) /\ Met(C, best, links, Len(links), B[i].id)
  BY <1>2, <1>3, <1>4 DEF LoopPool, Gained
<1>7. best \notin New
  BY <1>2, <1>3, <1>5 DEF Same
<1>8. \A j, k \in DOMAIN B : B[j].id = B[k].id => j = k
  BY <1>4 DEF PoolInv
<1>9. /\ Abstract!TypeOK'
      /\ open' = {B[k].id : k \in OpenOf(B)}
      /\ \A k \in DOMAIN B : /\ cost'[B[k].id] = B[k].cost /\ rest'[B[k].id] = Rest(B[k])
                             /\ parent'[B[k].id] = IF B[k].pidx = 0 THEN B[k].id ELSE B[B[k].pidx].id
      /\ nearest' = B[lastBest'.node].id
  BY <1>1, <1>4, NextView
<1>10. \A i \in DOMAIN A : Rest(B[i]) = Rest(A[i])
  BY <1>5, RestStays
<1>11. found = {A[k].id : k \in DOMAIN A} /\ found' = {B[k].id : k \in DOMAIN B}
  BY DEF found
<1>12. start' = start /\ goal' = goal /\ beside' = beside /\ searching' = searching /\ searching
  BY <1>4 DEF start, goal, beside, Neighbours, LinkedPolys, searching
<1>13. open = {A[k].id : k \in OpenOf(A)} /\ b \in open /\ b # goal
  BY <1>1, <1>2 DEF View, goal
<1>14. \A k \in DOMAIN A : /\ A[k].id \in Polygons
                           /\ cost[A[k].id] = A[k].cost /\ rest[A[k].id] = Rest(A[k])
                           /\ parent[A[k].id] = IF A[k].pidx = 0 THEN A[k].id ELSE A[A[k].pidx].id
                           /\ A[k].total = A[k].cost + Rest(A[k])
                           /\ (A[k].pidx # 0 => A[k].pidx \in DOMAIN A)
  BY <1>1 DEF View, PoolInv
<1>15. beside[b] = {links[j].ref : j \in 1..Len(links)}
  <2>1. /\ b \in LinkedPolys(navMesh) /\ DOMAIN links = 1..Len(links) /\ links = navMesh.links[b]
    BY <1>3, LinksAre DEF BestLinks
  <2>2. b \in Polygons /\ start # goal
    BY <1>1, <1>3, <1>14 DEF View
  <2> QED
    BY <2>1, <2>2 DEF beside, Neighbours
<1>16. \A ref : Skipped(C, best, ref) <=> A[best].pidx # 0 /\ parent[b] = ref
  BY <1>2, <1>3, <1>14 DEF Skipped
<1> HIDE DEF A, B, best, links, New
<1>17. improved \subseteq beside[b] \ {parent[b]}
  <2> SUFFICES ASSUME NEW i \in New PROVE B[i].id \in beside[b] /\ B[i].id # parent[b]
    OBVIOUS
  <2>1. ~Skipped(C, best, B[i].id) /\ \E j \in 1..Len(links) : links[j].ref = B[i].id
    BY <1>6 DEF Met
  <2>2. B[i].id # parent[b]
    <3>1. CASE A[best].pidx # 0
      BY <1>16, <2>1, <3>1
    <3>2. CASE A[best].pidx = 0
      <4>1. parent[b] = b /\ b = B[best].id /\ best \in DOMAIN B
        BY <1>3, <1>5, <1>14, <3>2
      <4> QED
        BY <1>6, <1>7, <1>8, <4>1
    <3> QED
      BY <3>1, <3>2
  <2> QED
    BY <1>15, <2>1, <2>2
<1>18. Abstract!Least(b)
  <2>1. ASSUME NEW k \in OpenOf(A) PROVE Abstract!Total(b) <= Abstract!Total(A[k].id)
    <3>1. k \in DOMAIN A /\ A[best].total <= A[k].total
      BY <1>2, <2>1 DEF OpenOf
    <3> QED
      BY <1>3, <1>14, <3>1 DEF Abstract!Total
  <2> QED
    BY <1>13, <2>1 DEF Abstract!Least
<1>19. open' = (open \ {b}) \union improved
  <2>1. \A k \in OpenOf(A) : k \in DOMAIN A /\ (k = best \/ k \in OpenOf(C))
    BY <1>2 DEF OpenOf
  <2>2. ASSUME NEW k \in OpenOf(B) PROVE B[k].id \in (open \ {b}) \union improved
    <3>1. k \in DOMAIN B /\ B[k].flag = "open"
      BY DEF OpenOf
    <3>2. CASE k \notin New
      <4>1. k \in DOMAIN A /\ B[k] = C[k] /\ B[k].id = A[k].id
        BY <1>5, <3>1, <3>2
      <4>2. k \in OpenOf(A) /\ k # best
        BY <1>2, <3>1, <4>1 DEF OpenOf
      <4>3. A[k].id # b
        BY <1>1, <1>3, <4>1, <4>2 DEF PoolInv
      <4> QED
        BY <1>13, <4>1, <4>2, <4>3
    <3> QED
      BY <3>2
  <2>3. ASSUME NEW k \in OpenOf(A), A[k].id # b PROVE \E j \in OpenOf(B) : A[k].id = B[j].id
    <3>1. k \in DOMAIN A /\ k \in OpenOf(C) /\ k \in DOMAIN B /\ B[k].id = A[k].id
      BY <1>5, <2>1, <2>3
    <3>2. B[k].flag = "open"
      BY <1>5, <1>6, <3>1 DEF OpenOf
    <3> QED
      BY <3>1, <3>2 DEF OpenOf
  <2>4. \A i \in New : i \in OpenOf(B)
    BY <1>6 DEF OpenOf
  <2> QED
    BY <1>9, <1>13, <2>2, <2>3, <2>4
<1>20. found' = found \union improved
  <2>1. \A k \in DOMAIN B : k \notin New => k \in DOMAIN A /\ B[k].id = A[k].id
    BY <1>5
  <2>2. \A k \in DOMAIN A : k \in DOMAIN B /\ B[k].id = A[k].id
    BY <1>5
  <2>3. \A k \in New : k \in DOMAIN B
    BY <1>6
  <2> QED
    BY <1>11, <2>1, <2>2, <2>3
<1>21. ASSUME NEW n \in improved PROVE parent'[n] = b /\ cost'[n] >= cost[b]
  <2>1. PICK i \in New : n = B[i].id
    OBVIOUS
  <2>2. i \in DOMAIN B /\ B[i].pidx = best /\ B[best].id = b /\ B[i].cost >= A[best].cost
    BY <1>3, <1>5, <1>6
  <2> QED
    BY <1>3, <1>9, <1>14, <2>1, <2>2
<1>22. ASSUME NEW n \in improved \intersect found PROVE cost'[n] < cost[n] /\ rest'[n] = rest[n]
  <2>1. PICK i \in New, k \in DOMAIN A : n = B[i].id /\ n = A[k].id
    BY <1>11
  <2>2. k \in New /\ k \in DOMAIN B /\ B[k].id = n /\ A[k].id = n
    <3>1. i = k
      <4>1. i \in DOMAIN B /\ k \in DOMAIN B /\ B[i].id = B[k].id
        BY <1>5, <1>6, <2>1
      <4> QED
        BY <1>8, <4>1
    <3> QED
      BY <1>6, <2>1, <3>1
  <2> HIDE DEF improved
  <2>3. cost'[n] = B[k].cost /\ B[k].cost < A[k].cost /\ A[k].cost = cost[n]
    BY <1>6, <1>9, <1>14, <2>2
  <2>4. rest'[n] = Rest(B[k]) /\ Rest(A[k]) = rest[n]
    BY <1>9, <1>14, <2>2
  <2> QED
    BY <1>10, <2>3, <2>4
<1>23. ASSUME NEW n \in found \ improved
       PROVE  parent'[n] = parent[n] /\ cost'[n] = cost[n] /\ rest'[n] = rest[n]
  <2>1. PICK k \in DOMAIN A : n = A[k].id
    BY <1>11
  <2>2. k \in DOMAIN B /\ B[k].id = n /\ k \notin New
    BY <1>5, <2>1
  <2>3. B[k] = C[k] /\ B[k].pidx = A[k].pidx /\ B[k].cost = A[k].cost
    BY <1>2, <1>5, <2>1, <2>2
  <2>4. A[k].pidx # 0 => B[A[k].pidx].id = A[A[k].pidx].id
    BY <1>5, <1>14, <2>1
  <2>5. parent'[n] = parent[n]
    BY <1>9, <1>14, <2>1, <2>2, <2>3, <2>4
  <2> QED
    BY <1>9, <1>10, <1>14, <2>1, <2>2, <2>3, <2>5
<1>24. dropped' = (dropped \/ ~(beside[b] \ {parent[b]} \subseteq found'))
  <2>1. \A ref : Has(B, ref) <=> ref \in found'
    BY <1>11 DEF Has
  <2>2. b \in found'
    BY <1>3, <1>5, <1>11
  <2>3. A[best].pidx = 0 => parent[b] = b
    BY <1>3, <1>14
  <2>4. \A ref : Missing(C, B, best, ref) <=> ref # parent[b] /\ ref \notin found'
    BY <1>16, <2>1, <2>2, <2>3 DEF Missing
  <2>5. (\E j \in 1..Len(links) : Missing(C, B, best, links[j].ref))
          <=> ~(beside[b] \ {parent[b]} \subseteq found')
    BY <1>15, <2>4
  <2>6. /\ outOfNodes' \in BOOLEAN /\ (outOfNodes => outOfNodes')
        /\ outOfNodes' => outOfNodes \/ \E j \in 1..Len(links) : Missing(C, B, best, links[j].ref)
        /\ (\E j \in 1..Len(links) : Missing(C, B, best, links[j].ref)) => outOfNodes'
    BY <1>4 DEF LoopOut
  <2>7. outOfNodes \in BOOLEAN
    BY DEF Tree
  <2>8. outOfNodes' = (outOfNodes \/ ~(beside[b] \ {parent[b]} \subseteq found'))
    BY <2>5, <2>6, <2>7
  <2> QED
    BY <2>8 DEF dropped
<1>25. /\ lastBest.node \in DOMAIN A /\ nearest = A[lastBest.node].id
       /\ lastBest'.node \in DOMAIN B /\ lastBest'.rest = Rest(B[lastBest'.node])
       /\ lastBest'.rest <= lastBest.rest /\ lastBest.rest = Rest(A[lastBest.node])
       /\ lastBest'.node = lastBest.node \/ lastBest'.node \in New
       /\ \A i \in New : lastBest'.rest <= Rest(B[i])
  BY <1>1, <1>4, <1>6 DEF Tree, View, LoopLast, New, A
<1>26. nearest' \in {nearest} \union improved
  <2>1. lastBest'.node = lastBest.node => nearest' = nearest
    BY <1>5, <1>9, <1>25
  <2>2. lastBest'.node \in New => nearest' \in improved
    BY <1>9
  <2> QED
    BY <1>25, <2>1, <2>2
<1>27. \A n \in {nearest} \union improved : rest'[nearest'] <= rest'[n]
  <2>1. rest'[nearest'] = lastBest'.rest
    BY <1>9, <1>25
  <2>2. rest'[nearest] = lastBest.rest
    <3>1. lastBest.node \in DOMAIN B /\ B[lastBest.node].id = nearest
      BY <1>5, <1>25
    <3> QED
      BY <1>9, <1>10, <1>25, <3>1
  <2>3. \A i \in New : lastBest'.rest <= rest'[B[i].id]
    BY <1>6, <1>9, <1>25
  <2> QED
    BY <1>25, <2>1, <2>2, <2>3
<1> HIDE DEF improved, b
<1>28. parent' \in [Polygons -> Polygons] /\ cost' \in [Polygons -> Nat] /\ rest' \in [Polygons -> Nat]
  BY <1>9 DEF Abstract!TypeOK
<1>29. Abstract!Expand(b, improved)
  BY <1>12, <1>13, <1>18, <1>19, <1>20, <1>21, <1>22, <1>23, <1>24, <1>26, <1>27, <1>28
  DEF Abstract!Expand
<1> QED
  BY <1>13, <1>17, <1>29

\* The turn that takes the goal, seen from BestFirstSearch.
LEMMA ArrivedImplements ==
  ASSUME Tree, phase = "searching", NEW C, Arrived(C)
  PROVE  Abstract!Arrive
<1> DEFINE A == nodes
           B == nodes'
           best == openList[1]
<1>1. View /\ Tree' /\ PoolInv(A) /\ UNCHANGED <<query, navMesh, outOfNodes>>
  BY TreeView, ArrivedTree DEF Tree, Arrived
<1>2. /\ best \in OpenOf(A) /\ \A k \in OpenOf(A) : A[best].total <= A[k].total
      /\ DOMAIN B = DOMAIN A /\ OpenOf(B) = OpenOf(A) \ {best}
      /\ \A k \in DOMAIN A : /\ B[k].id = A[k].id /\ B[k].pidx = A[k].pidx /\ B[k].pos = A[k].pos
                             /\ B[k].cost = A[k].cost /\ B[k].total = A[k].total
      /\ lastBest'.node = best /\ phase' = "ended" /\ A[best].id = query.to.ref
  BY DEF Arrived, Taken
<1>3. best \in DOMAIN A
  BY <1>2 DEF OpenOf
<1>4. /\ Abstract!TypeOK' /\ open' = {B[k].id : k \in OpenOf(B)} /\ nearest' = B[best].id
  BY <1>1, <1>2, NextView
<1>5. \A j, k \in DOMAIN A : A[j].id = A[k].id => j = k
  BY <1>1 DEF PoolInv
<1>6. open = {A[k].id : k \in OpenOf(A)} /\ goal = A[best].id /\ goal \in open
  BY <1>1, <1>2 DEF View, goal
<1>7. \A k \in DOMAIN A : /\ cost[A[k].id] = A[k].cost /\ rest[A[k].id] = Rest(A[k])
                          /\ A[k].total = A[k].cost + Rest(A[k])
  BY <1>1 DEF View, PoolInv
<1>8. /\ start' = start /\ goal' = goal /\ beside' = beside /\ searching /\ ~searching'
      /\ dropped' = dropped
  BY <1>1, <1>2 DEF start, goal, beside, Neighbours, LinkedPolys, searching, dropped
<1>9. \A ref : At(ref)' = At(ref)
  BY <1>2 DEF At
<1>10. found' = found
  BY <1>2 DEF found
<1>11. \A ref \in found : At(ref) \in DOMAIN A
  <2>1. \A k \in DOMAIN A : At(A[k].id) = k
    BY <1>1, AtIs
  <2> QED
    BY <2>1 DEF found
<1>12. \A k \in DOMAIN A : A[k].pidx # 0 => A[k].pidx \in DOMAIN A
  BY <1>1 DEF PoolInv
<1>13. cost' = cost
  BY <1>2, <1>9, <1>10, <1>11 DEF cost
<1>14. rest' = rest
  BY <1>2, <1>9, <1>10, <1>11 DEF rest
<1>15. parent' = parent
  BY <1>2, <1>9, <1>10, <1>11, <1>12 DEF parent
<1> HIDE DEF A, B, best
<1>16. Abstract!Least(goal)
  <2>1. ASSUME NEW k \in OpenOf(A) PROVE Abstract!Total(goal) <= Abstract!Total(A[k].id)
    <3>1. k \in DOMAIN A /\ A[best].total <= A[k].total
      BY <1>2, <2>1 DEF OpenOf
    <3> QED
      BY <1>3, <1>6, <1>7, <3>1 DEF Abstract!Total
  <2> QED
    BY <1>6, <2>1 DEF Abstract!Least
<1>17. open' = open \ {goal}
  <2>1. \A k \in OpenOf(B) : k \in OpenOf(A) /\ k \in DOMAIN A /\ k # best
    BY <1>2 DEF OpenOf
  <2>2. \A k \in OpenOf(A) : k \in DOMAIN A /\ (k # best => k \in OpenOf(B))
    BY <1>2 DEF OpenOf
  <2> QED
    BY <1>2, <1>3, <1>4, <1>5, <1>6, <2>1, <2>2
<1>18. nearest' = goal
  BY <1>2, <1>3, <1>4, <1>6
<1> QED
  BY <1>8, <1>10, <1>13, <1>14, <1>15, <1>16, <1>17, <1>18 DEF Abstract!Arrive

\* The start of a search, seen from BestFirstSearch.
LEMMA BeginsImplements ==
  ASSUME Distances, Begins, phase = "idle"
  PROVE  Abstract!Begin
<1>1. Tree' /\ lastBest'.node = 1
  BY BeginTree
<1>2. View'
  BY <1>1, TreeViewNext
<1>3. /\ Len(nodes') = 1 /\ nodes'[1].id = query'.from.ref /\ nodes'[1].pidx = 0 /\ nodes'[1].cost = 0
      /\ nodes'[1].flag = "open" /\ outOfNodes' = FALSE /\ phase' = "searching" /\ DOMAIN nodes' = {1}
  BY DEF Begins, BeginSearch
<1>4. ~searching /\ searching' /\ dropped' = FALSE /\ start' = nodes'[1].id
  BY <1>3 DEF searching, dropped, start
<1>5. found' = {start'}
  BY <1>3, <1>4 DEF found
<1>6. open' = {start'}
  <2>1. open' = {nodes'[k].id : k \in OpenOf(nodes')}
    BY <1>2 DEF View, OpenOf
  <2>2. OpenOf(nodes') = {1}
    BY <1>3 DEF OpenOf
  <2> QED
    BY <1>4, <2>1, <2>2
<1>7. nearest' = start' /\ parent'[start'] = start' /\ cost'[start'] = 0
  BY <1>1, <1>2, <1>3, <1>4 DEF View
<1>8. /\ beside' \in [Polygons -> SUBSET Polygons] /\ start' \in Polygons /\ goal' \in Polygons
      /\ parent' \in [Polygons -> Polygons] /\ cost' \in [Polygons -> Nat]
      /\ rest' \in [Polygons -> Nat]
  BY <1>2 DEF View, Abstract!TypeOK
<1> QED
  BY <1>4, <1>5, <1>6, <1>7, <1>8 DEF Abstract!Begin

\* A step that leaves the search alone leaves BestFirstSearch alone.
LEMMA SameVars ==
  ASSUME UNCHANGED <<navMesh, query, nodes, openList, lastBest, outOfNodes>>
  PROVE  UNCHANGED <<beside, start, goal, found, open, parent, cost, rest, nearest, dropped>>
<1>1. start' = start /\ goal' = goal /\ dropped' = dropped /\ found' = found /\ open' = open
  BY DEF start, goal, dropped, found, open
<1>2. \A ref : At(ref)' = At(ref)
  BY DEF At
<1>3. beside' = beside
  BY <1>1 DEF beside, Neighbours, LinkedPolys
<1>4. parent' = parent
  BY <1>1, <1>2 DEF parent
<1>5. cost' = cost /\ rest' = rest
  BY <1>1, <1>2 DEF cost, rest
<1>6. nearest' = nearest
  BY <1>1 DEF nearest
<1> QED
  BY <1>1, <1>3, <1>4, <1>5, <1>6

\* Without nodes nothing is found, after a step.
LEMMA BlankViewNext ==
  ASSUME Blank'
  PROVE  /\ found' = {} /\ open' = {} /\ dropped' = FALSE /\ start' = 1 /\ goal' = 1 /\ nearest' = 1
         /\ beside' = [ref \in Polygons |-> {}] /\ parent' = [ref \in Polygons |-> ref]
         /\ cost' = [ref \in Polygons |-> 0] /\ rest' = [ref \in Polygons |-> 0]
<1>1. (Blank => /\ found = {} /\ open = {} /\ dropped = FALSE /\ start = 1 /\ goal = 1 /\ nearest = 1
           /\ beside = [ref \in Polygons |-> {}] /\ parent = [ref \in Polygons |-> ref]
           /\ cost = [ref \in Polygons |-> 0] /\ rest = [ref \in Polygons |-> 0])'
  BY BlankView, PTL
<1> QED
  BY <1>1

\* The types after a step.
LEMMA SearchTypesNext == SearchInv' => Abstract!TypeOK'
BY SearchTypes, PTL

\* Every step is one of BestFirstSearch, or leaves it alone.
LEMMA SearchStepImplements ==
  ASSUME SearchInv, Distances, [SearchTurn]_<<navMesh, maxNodes, searchVars>>
  PROVE  [Abstract!Next]_(Abstract!vars)
<1>1. CASE Begins /\ phase = "idle"
  BY <1>1, BeginsImplements DEF Abstract!Next
<1>2. CASE Tree /\ phase = "searching" /\ \E C : Arrived(C)
  BY <1>2, ArrivedImplements DEF Abstract!Next
<1>3. CASE Tree /\ phase = "searching" /\ nodes[openList[1]].id # query.to.ref
           /\ \E C, w : Expanded(C, w)
  BY <1>3, ExpandedImplements DEF Abstract!Next, SearchInv
<1>4. CASE /\ Tree /\ phase = "searching" /\ openList = <<>> /\ phase' = "ended"
           /\ UNCHANGED <<navMesh, maxNodes, query, nodes, openList, lastBest, outOfNodes>>
  <2>1. open = {} /\ searching /\ searching' = FALSE
    BY <1>4 DEF open, searching
  <2>2. Abstract!GiveUp
    BY <1>4, <2>1, SameVars DEF Abstract!GiveUp
  <2> QED
    BY <2>2 DEF Abstract!Next
<1>5. CASE phase = "ended" /\ Blank' /\ phase' = "idle" /\ UNCHANGED <<navMesh, maxNodes>>
  <2>1. ~searching /\ searching' = FALSE
    BY <1>5 DEF searching
  <2>2. Abstract!TypeOK'
    BY SearchInvStep, SearchTypesNext
  <2>3. found' = {} /\ open' = {} /\ dropped' = FALSE
    BY <1>5, BlankViewNext
  <2>4. Abstract!Clear
    BY <2>1, <2>2, <2>3 DEF Abstract!Clear
  <2> QED
    BY <2>4 DEF Abstract!Next
<1>6. CASE /\ phase = "idle" /\ phase' \in {"idle", "ended"} /\ Blank /\ maxNodes' \in Nat
           /\ UNCHANGED <<query, nodes, openList, lastBest, outOfNodes>>
  <2>1. Blank'
    BY <1>6 DEF Blank
  <2>2. searching' = searching
    BY <1>6 DEF searching
  <2>3. UNCHANGED Abstract!vars
    BY <1>6, <2>1, <2>2, BlankView, BlankViewNext DEF Abstract!vars
  <2> QED
    BY <2>3
<1>7. CASE UNCHANGED <<navMesh, maxNodes, searchVars>>
  <2>1. UNCHANGED <<navMesh, maxNodes, query, nodes, openList, lastBest, outOfNodes, phase>>
    BY <1>7 DEF searchVars
  <2>2. searching' = searching
    BY <2>1 DEF searching
  <2>3. UNCHANGED Abstract!vars
    BY <2>1, <2>2, SameVars DEF Abstract!vars
  <2> QED
    BY <2>3
<1> QED
  BY <1>1, <1>2, <1>3, <1>4, <1>5, <1>6, <1>7, StepIs

\* findPath, with its heap, its pool of nodes and its costs, is a best-first search of the
\* graph of links: every turn takes an open polygon of least total, improves what it
\* finds a better way to, and keeps the nearest to the goal.
THEOREM SearchRefinement == ASSUME Distances PROVE SearchSpec => SearchImplementsBestFirst
<1>1. SearchInit /\ maxNodes \in Nat => Abstract!Init
  <2> SUFFICES ASSUME SearchInit, maxNodes \in Nat PROVE Abstract!Init
    OBVIOUS
  <2>1. SearchInv /\ Blank /\ searching = FALSE
    BY InitSearchInv DEF SearchInit, Blank, searching
  <2>2. found = {} /\ open = {} /\ dropped = FALSE
    BY <2>1, BlankView
  <2> QED
    BY <2>1, <2>2, SearchTypes DEF Abstract!Init
<1>2. SearchInv /\ [SearchTurn]_<<navMesh, maxNodes, searchVars>> => [Abstract!Next]_(Abstract!vars)
  BY SearchStepImplements
<1>3. SearchSpec => SearchInit /\ maxNodes \in Nat /\ [][SearchTurn]_<<navMesh, maxNodes, searchVars>>
  BY PTL DEF SearchSpec, SearchTurn
<1>4. SearchSpec => []SearchInv
  BY SearchInvHolds
<1> QED
  BY <1>1, <1>2, <1>3, <1>4, PTL DEF SearchImplementsBestFirst, Abstract!Spec

-----------------------------------------------------------------------------
(* The invariant of BestFirstSearch                                        *)

\* The found polygons are a tree with the start at its root.
Rooted ==
  /\ open \subseteq found
  /\ searching => found # {}
  /\ found # {} =>
       /\ start \in found /\ nearest \in found
       /\ cost[start] = 0 /\ parent[start] = start
  /\ \A n \in found \ {start} : parent[n] \in found /\ cost[n] >= cost[parent[n]]

\* What is no longer open has been expanded, but for the goal the search ended at.
Explored ==
  /\ ~dropped => \A n \in found \ open :
       beside[n] \subseteq found \/ (n = goal /\ nearest = goal /\ ~searching)
  /\ ~searching => open = {} \/ nearest = goal

\* While a search goes on, the nearest is the nearest of all found.
NearestSoFar ==
  /\ searching => \A n \in found : rest[nearest] <= rest[n]
  /\ Abstract!EndsNearest

\* A polygon is beside its parent, and the goal is not expanded.
Along ==
  /\ \A n \in found \ {start} : n \in beside[parent[n]]
  /\ goal \in found => IF searching THEN goal \in open ELSE nearest = goal

BestFirstInv == Abstract!TypeOK /\ Along /\ Rooted /\ Abstract!NoCycle /\ Explored /\ NearestSoFar

-----------------------------------------------------------------------------

\* Nothing is found before the first search.
LEMMA InitBestFirst == Abstract!Init => BestFirstInv
<1> SUFFICES ASSUME Abstract!Init PROVE BestFirstInv
  OBVIOUS
<1>1. Abstract!TypeOK /\ found = {} /\ open = {} /\ ~searching
  BY DEF Abstract!Init
<1> QED
  BY <1>1 DEF BestFirstInv, Rooted, Along, Abstract!NoCycle, Explored, NearestSoFar, Abstract!EndsNearest

\* Every step keeps the types.
LEMMA TypeStep == Abstract!TypeOK /\ [Abstract!Next]_(Abstract!vars) => Abstract!TypeOK'
<1> SUFFICES ASSUME Abstract!TypeOK, [Abstract!Next]_(Abstract!vars) PROVE Abstract!TypeOK'
  OBVIOUS
<1> USE DEF Abstract!TypeOK
<1>1. CASE Abstract!Begin
  <2>1. found' \in SUBSET Polygons /\ open' \in SUBSET Polygons /\ nearest' \in Polygons
    BY <1>1 DEF Abstract!Begin
  <2> QED
    BY <1>1, <2>1 DEF Abstract!Begin
<1>2. CASE Abstract!Arrive
  BY <1>2 DEF Abstract!Arrive
<1>3. CASE Abstract!GiveUp
  BY <1>3 DEF Abstract!GiveUp
<1>4. CASE Abstract!Clear
  BY <1>4 DEF Abstract!Clear
<1>5. ASSUME NEW b \in open, NEW improved \in SUBSET (beside[b] \ {parent[b]}),
             Abstract!Expand(b, improved)
      PROVE Abstract!TypeOK'
  <2>1. improved \subseteq Polygons
    OBVIOUS
  <2>2. found' \in SUBSET Polygons /\ open' \in SUBSET Polygons /\ nearest' \in Polygons
    BY <1>5, <2>1 DEF Abstract!Expand
  <2>3. dropped' \in BOOLEAN
    BY <1>5 DEF Abstract!Expand
  <2> QED
    BY <1>5, <2>2, <2>3 DEF Abstract!Expand
<1>6. CASE UNCHANGED Abstract!vars
  BY <1>6 DEF Abstract!vars
<1> QED
  BY <1>1, <1>2, <1>3, <1>4, <1>5, <1>6 DEF Abstract!Next

\* The start is never found again, nor is the polygon that is expanded: every step
\* away from it costs at least nothing.
LEMMA NotImproved ==
  ASSUME BestFirstInv, NEW b \in open, NEW improved \in SUBSET (beside[b] \ {parent[b]}),
         Abstract!Expand(b, improved)
  PROVE  /\ improved \subseteq Polygons /\ b \in found /\ b \notin improved
         /\ start \in found /\ start \notin improved
         /\ \A n \in improved \intersect found : cost[b] < cost[n]
<1>1. improved \subseteq Polygons /\ b \in found /\ start \in found /\ cost[start] = 0 /\ b \in Polygons
  BY DEF BestFirstInv, Abstract!TypeOK, Rooted
<1>2. \A n \in Polygons : cost[n] \in Nat /\ cost'[n] \in Nat
  BY DEF BestFirstInv, Abstract!TypeOK, Abstract!Expand
<1>3. \A n \in improved \intersect found : cost[b] < cost[n]
  <2> SUFFICES ASSUME NEW n \in improved \intersect found PROVE cost[b] < cost[n]
    OBVIOUS
  <2>1. cost'[n] >= cost[b] /\ cost'[n] < cost[n]
    BY DEF Abstract!Expand
  <2> QED
    BY <1>1, <1>2, <2>1
<1>4. b \notin improved
  BY <1>1, <1>2, <1>3
<1>5. start \notin improved
  BY <1>1, <1>2, <1>3
<1> QED
  BY <1>1, <1>3, <1>4, <1>5

-----------------------------------------------------------------------------
(* The tree                                                                *)

\* Every step keeps the tree.
LEMMA RootedStep == BestFirstInv /\ [Abstract!Next]_(Abstract!vars) => Rooted'
<1> SUFFICES ASSUME BestFirstInv, [Abstract!Next]_(Abstract!vars) PROVE Rooted'
  OBVIOUS
<1> USE DEF BestFirstInv
<1>1. CASE Abstract!Begin
  BY <1>1 DEF Abstract!Begin, Rooted
<1>2. CASE Abstract!Arrive
  BY <1>2 DEF Abstract!Arrive, Rooted, Abstract!Least
<1>3. CASE Abstract!GiveUp
  BY <1>3 DEF Abstract!GiveUp, Rooted
<1>4. CASE Abstract!Clear
  BY <1>4 DEF Abstract!Clear, Rooted
<1>5. ASSUME NEW b \in open, NEW improved \in SUBSET (beside[b] \ {parent[b]}),
             Abstract!Expand(b, improved)
      PROVE Rooted'
  <2>1. /\ improved \subseteq Polygons /\ b \in found /\ b \notin improved
        /\ start \in found /\ start \notin improved
    BY <1>5, NotImproved
  <2>2. open' \subseteq found' /\ start' \in found' /\ nearest' \in found'
    BY <1>5, <2>1 DEF Abstract!Expand, Rooted
  <2>3. cost'[start'] = 0 /\ parent'[start'] = start'
    BY <1>5, <2>1 DEF Abstract!Expand, Rooted
  <2>4. ASSUME NEW n \in found' \ {start'}
        PROVE parent'[n] \in found' /\ cost'[n] >= cost'[parent'[n]]
    <3>1. CASE n \in improved
      <4>1. parent'[n] = b /\ cost'[n] >= cost[b] /\ cost'[b] = cost[b]
        BY <1>5, <2>1, <3>1 DEF Abstract!Expand
      <4> QED
        BY <1>5, <2>1, <4>1 DEF Abstract!Expand
    <3>2. CASE n \in found \ improved
      <4>1. parent'[n] = parent[n] /\ cost'[n] = cost[n]
        BY <1>5, <3>2 DEF Abstract!Expand
      <4>2. parent[n] \in found /\ cost[n] >= cost[parent[n]]
        BY <1>5, <2>4, <3>2 DEF Rooted, Abstract!Expand
      <4>3. cost'[parent[n]] = cost[parent[n]] \/ cost'[parent[n]] < cost[parent[n]]
        BY <1>5, <4>2 DEF Abstract!Expand
      <4>4. cost[n] \in Nat /\ cost[parent[n]] \in Nat /\ cost'[parent[n]] \in Nat
        BY <1>5, <3>2, <4>2 DEF Abstract!TypeOK, Abstract!Expand
      <4> QED
        BY <1>5, <4>1, <4>2, <4>3, <4>4 DEF Abstract!Expand
    <3> QED
      BY <1>5, <2>4, <3>1, <3>2 DEF Abstract!Expand
  <2> QED
    BY <2>2, <2>3, <2>4 DEF Rooted
<1>6. CASE UNCHANGED Abstract!vars
  BY <1>6 DEF Abstract!vars, Rooted
<1> QED
  BY <1>1, <1>2, <1>3, <1>4, <1>5, <1>6 DEF Abstract!Next

\* Expanding makes no cycle.  Of a set that holds the expanded polygon b, take the
\* part that costs no more than b: nothing in it is found again, and the parent
\* that leaves it leaves the whole set, as a parent costs no more than its child.
LEMMA ExpandNoCycle ==
  ASSUME BestFirstInv, NEW b \in open, NEW improved \in SUBSET (beside[b] \ {parent[b]}),
         Abstract!Expand(b, improved)
  PROVE  Abstract!NoCycle'
<1> SUFFICES ASSUME NEW S \in SUBSET found', S # {}, start' \notin S
             PROVE \E n \in S : parent'[n] \notin S
  BY DEF Abstract!NoCycle
<1>1. /\ b \in found /\ start' = start /\ found' = found \union improved
      /\ \A n \in improved \intersect found : cost[b] < cost[n]
      /\ \A n \in improved : parent'[n] = b
      /\ \A n \in found \ improved : parent'[n] = parent[n]
  BY NotImproved DEF Abstract!Expand
<1>2. CASE \E n \in S : n \in improved /\ b \notin S
  BY <1>1, <1>2
<1>3. CASE S \intersect improved = {}
  <2>1. S \in SUBSET found
    BY <1>1, <1>3
  <2>2. PICK n \in S : parent[n] \notin S
    BY <1>1, <2>1 DEF BestFirstInv, Abstract!NoCycle
  <2> QED
    BY <1>1, <1>3, <2>1, <2>2
<1>4. CASE b \in S
  <2> DEFINE T == {n \in S \intersect found : cost[n] <= cost[b]}
  <2>1. b \in T /\ T \in SUBSET found /\ start \notin T
    BY <1>1, <1>4 DEF BestFirstInv, Abstract!TypeOK
  <2>2. PICK n \in T : parent[n] \notin T
    BY <2>1 DEF BestFirstInv, Abstract!NoCycle
  <2>3. n \in found /\ n # start /\ n \in Polygons /\ b \in Polygons
    BY <2>1 DEF BestFirstInv, Abstract!TypeOK
  <2>4. parent[n] \in found /\ cost[n] >= cost[parent[n]] /\ cost[n] <= cost[b]
    BY <2>3 DEF BestFirstInv, Rooted
  <2>5. cost[parent[n]] \in Nat /\ cost[n] \in Nat /\ cost[b] \in Nat
    BY <2>3, <2>4 DEF BestFirstInv, Abstract!TypeOK
  <2>6. cost[parent[n]] <= cost[b]
    BY <2>4, <2>5
  <2>7. parent[n] \notin S
    BY <2>2, <2>4, <2>6
  <2>8. n \notin improved
    BY <1>1, <2>3, <2>4, <2>5
  <2> QED
    BY <1>1, <2>3, <2>7, <2>8
<1> QED
  BY <1>2, <1>3, <1>4

\* No step makes a cycle.
LEMMA NoCycleStep == BestFirstInv /\ [Abstract!Next]_(Abstract!vars) => Abstract!NoCycle'
<1> SUFFICES ASSUME BestFirstInv, [Abstract!Next]_(Abstract!vars) PROVE Abstract!NoCycle'
  OBVIOUS
<1>1. CASE Abstract!Begin
  <2>1. \A S \in SUBSET found' : S # {} => start' \in S
    BY <1>1 DEF Abstract!Begin
  <2> QED
    BY <2>1 DEF Abstract!NoCycle
<1>2. CASE Abstract!Arrive
  BY <1>2 DEF Abstract!Arrive, BestFirstInv, Abstract!NoCycle
<1>3. CASE Abstract!GiveUp
  BY <1>3 DEF Abstract!GiveUp, BestFirstInv, Abstract!NoCycle
<1>4. CASE Abstract!Clear
  BY <1>4 DEF Abstract!Clear, Abstract!NoCycle
<1>5. ASSUME NEW b \in open, NEW improved \in SUBSET (beside[b] \ {parent[b]}),
             Abstract!Expand(b, improved)
      PROVE Abstract!NoCycle'
  BY <1>5, ExpandNoCycle
<1>6. CASE UNCHANGED Abstract!vars
  BY <1>6 DEF Abstract!vars, BestFirstInv, Abstract!NoCycle
<1> QED
  BY <1>1, <1>2, <1>3, <1>4, <1>5, <1>6 DEF Abstract!Next

-----------------------------------------------------------------------------
(* The end of a search                                                     *)

\* Every step keeps what is known of the polygons that are not open.
LEMMA ExploredStep == BestFirstInv /\ [Abstract!Next]_(Abstract!vars) => Explored'
<1> SUFFICES ASSUME BestFirstInv, [Abstract!Next]_(Abstract!vars) PROVE Explored'
  OBVIOUS
<1> USE DEF BestFirstInv
<1>1. CASE Abstract!Begin
  BY <1>1 DEF Abstract!Begin, Explored
<1>2. CASE Abstract!Arrive
  BY <1>2 DEF Abstract!Arrive, Explored, Abstract!Least, Rooted
<1>3. CASE Abstract!GiveUp
  BY <1>3 DEF Abstract!GiveUp, Explored
<1>4. CASE Abstract!Clear
  BY <1>4 DEF Abstract!Clear, Explored
<1>5. ASSUME NEW b \in open, NEW improved \in SUBSET (beside[b] \ {parent[b]}),
             Abstract!Expand(b, improved)
      PROVE Explored'
  <2>1. searching' /\ searching /\ found' = found \union improved
    BY <1>5 DEF Abstract!Expand
  <2>2. ASSUME ~dropped', NEW n \in found' \ open' PROVE beside'[n] \subseteq found'
    <3>1. ~dropped /\ beside[b] \ {parent[b]} \subseteq found' /\ beside' = beside
      BY <1>5, <2>2 DEF Abstract!Expand
    <3>2. CASE n = b
      <4>1. b \in found /\ parent[b] \in found
        BY DEF Rooted
      <4> QED
        BY <2>1, <3>1, <3>2, <4>1
    <3>3. CASE n # b
      <4>1. n \in found \ open
        BY <1>5, <2>2, <3>3 DEF Abstract!Expand
      <4> QED
        BY <2>1, <3>1, <4>1 DEF Explored
    <3> QED
      BY <3>2, <3>3
  <2> QED
    BY <2>1, <2>2 DEF Explored
<1>6. CASE UNCHANGED Abstract!vars
  BY <1>6 DEF Abstract!vars, Explored
<1> QED
  BY <1>1, <1>2, <1>3, <1>4, <1>5, <1>6 DEF Abstract!Next

\* Every step keeps the way to the found polygons, and the goal.
LEMMA AlongStep == BestFirstInv /\ [Abstract!Next]_(Abstract!vars) => Along'
<1> SUFFICES ASSUME BestFirstInv, [Abstract!Next]_(Abstract!vars) PROVE Along'
  OBVIOUS
<1> USE DEF BestFirstInv
<1>1. CASE Abstract!Begin
  BY <1>1 DEF Abstract!Begin, Along
<1>2. CASE Abstract!Arrive
  BY <1>2 DEF Abstract!Arrive, Along
<1>3. CASE Abstract!GiveUp
  BY <1>3 DEF Abstract!GiveUp, Along
<1>4. CASE Abstract!Clear
  BY <1>4 DEF Abstract!Clear, Along
<1>5. ASSUME NEW b \in open, NEW improved \in SUBSET (beside[b] \ {parent[b]}),
             Abstract!Expand(b, improved)
      PROVE Along'
  <2>1. /\ found' = found \union improved /\ open' = (open \ {b}) \union improved /\ b # goal
        /\ start' = start /\ goal' = goal /\ beside' = beside /\ searching /\ searching'
        /\ \A n \in improved : parent'[n] = b
        /\ \A n \in found \ improved : parent'[n] = parent[n]
    BY <1>5 DEF Abstract!Expand
  <2>2. ASSUME NEW n \in found' \ {start'} PROVE n \in beside'[parent'[n]]
    BY <2>1 DEF Along
  <2>3. goal' \in found' => goal' \in open'
    BY <2>1 DEF Along
  <2> QED
    BY <2>1, <2>2, <2>3 DEF Along
<1>6. CASE UNCHANGED Abstract!vars
  BY <1>6 DEF Abstract!vars, Along
<1> QED
  BY <1>1, <1>2, <1>3, <1>4, <1>5, <1>6 DEF Abstract!Next

\* Every step keeps the nearest the nearest.
LEMMA NearestStep == BestFirstInv /\ [Abstract!Next]_(Abstract!vars) => NearestSoFar'
<1> SUFFICES ASSUME BestFirstInv, [Abstract!Next]_(Abstract!vars) PROVE NearestSoFar'
  OBVIOUS
<1> USE DEF BestFirstInv, Abstract!EndsNearest
<1>1. CASE Abstract!Begin
  <2>1. found' = {nearest'} /\ rest'[nearest'] \in Nat
    BY <1>1 DEF Abstract!Begin
  <2> QED
    BY <2>1 DEF NearestSoFar
<1>2. CASE Abstract!Arrive
  BY <1>2 DEF Abstract!Arrive, NearestSoFar
<1>3. CASE Abstract!GiveUp
  BY <1>3 DEF Abstract!GiveUp, NearestSoFar
<1>4. CASE Abstract!Clear
  BY <1>4 DEF Abstract!Clear, NearestSoFar
<1>5. ASSUME NEW b \in open, NEW improved \in SUBSET (beside[b] \ {parent[b]}),
             Abstract!Expand(b, improved)
      PROVE NearestSoFar'
  <2>1. improved \subseteq Polygons /\ nearest \in found /\ found \subseteq Polygons
    BY <1>5, NotImproved DEF Rooted, Abstract!TypeOK
  <2>2. nearest' \in Polygons /\ \A n \in Polygons : rest[n] \in Nat /\ rest'[n] \in Nat
    BY <1>5, <2>1 DEF Abstract!Expand, Abstract!TypeOK
  <2>3. rest'[nearest] = rest[nearest]
    BY <1>5, <2>1 DEF Abstract!Expand
  <2>4. ASSUME NEW n \in found' PROVE rest'[nearest'] <= rest'[n]
    <3>1. CASE n \in improved
      BY <1>5, <3>1 DEF Abstract!Expand
    <3>2. CASE n \in found \ improved
      <4>1. rest'[n] = rest[n] /\ rest[nearest] <= rest[n] /\ rest'[nearest'] <= rest'[nearest]
        BY <1>5, <3>2 DEF Abstract!Expand, NearestSoFar
      <4> QED
        BY <2>1, <2>2, <2>3, <3>2, <4>1
    <3> QED
      BY <1>5, <2>4, <3>1, <3>2 DEF Abstract!Expand
  <2> QED
    BY <2>4 DEF NearestSoFar
<1>6. CASE UNCHANGED Abstract!vars
  BY <1>6 DEF Abstract!vars, NearestSoFar
<1> QED
  BY <1>1, <1>2, <1>3, <1>4, <1>5, <1>6 DEF Abstract!Next

-----------------------------------------------------------------------------

\* The invariant is inductive.
LEMMA BestFirstHolds == Abstract!Spec => []BestFirstInv
<1>1. Abstract!Init => BestFirstInv
  BY InitBestFirst
<1>2. BestFirstInv /\ [Abstract!Next]_(Abstract!vars) => BestFirstInv'
  <2> SUFFICES ASSUME BestFirstInv, [Abstract!Next]_(Abstract!vars) PROVE BestFirstInv'
    OBVIOUS
  <2> QED
    BY TypeStep, RootedStep, NoCycleStep, ExploredStep, AlongStep, NearestStep DEF BestFirstInv
<1> QED
  BY <1>1, <1>2, PTL DEF Abstract!Spec

\* The state of a search keeps its types, whatever the mesh.
THEOREM TypeCorrectness == Abstract!Spec => []Abstract!TypeOK
<1>1. BestFirstInv => Abstract!TypeOK
  BY DEF BestFirstInv
<1> QED
  BY <1>1, BestFirstHolds, PTL

\* The parents of a search never make a cycle, at any moment and however often a
\* polygon is found again: dtNavMeshQuery::getPathToNode, which follows them until
\* there is none, always comes to an end.
THEOREM NoCycleHolds == Abstract!Spec => []Abstract!NoCycle
<1>1. BestFirstInv => Abstract!NoCycle
  BY DEF BestFirstInv
<1> QED
  BY <1>1, BestFirstHolds, PTL

\* A search that ends elsewhere than at the goal, with a node for every polygon it
\* came to, has found everything the start reaches.
THEOREM FoundAllHolds == Abstract!Spec => []Abstract!FoundAll
<1>1. BestFirstInv => Abstract!FoundAll
  BY DEF BestFirstInv, Explored, Abstract!FoundAll
<1> QED
  BY <1>1, BestFirstHolds, PTL

\* A search ends at the goal or at a polygon no found one is nearer to it than.
THEOREM EndsNearestHolds == Abstract!Spec => []Abstract!EndsNearest
<1>1. BestFirstInv => Abstract!EndsNearest
  BY DEF BestFirstInv, NearestSoFar
<1> QED
  BY <1>1, BestFirstHolds, PTL

-----------------------------------------------------------------------------
(* The corridor                                                            *)

\* Parents that make no cycle are of lower rank than their children.
Ranked(T, p, r, n) ==
  \A k \in T : r[k] < n /\ (p[k] # 0 => p[k] \in T /\ r[p[k]] < r[k])

\* If every set of nodes has one whose parent is not in it, the nodes have a rank: it is
\* built a node at a time, from a set that holds the parents of its nodes.
LEMMA RankExists ==
  ASSUME NEW m \in Nat, NEW p,
         \A S \in SUBSET (1..m) : S # {} => \E k \in S : p[k] = 0 \/ p[k] \in 1..m \ S
  PROVE  \E r \in [1..m -> 0..m] : \A k \in 1..m : p[k] # 0 => p[k] \in 1..m /\ r[p[k]] < r[k]
<1> DEFINE D == 1..m
           Grown(n, T, r) ==
             /\ T \in SUBSET D /\ r \in [D -> 0..m] /\ Ranked(T, p, r, n)
             /\ Cardinality(T) = n \/ T = D
           S == {n \in Nat : n <= m + 1 => \E T, r : Grown(n, T, r)}
<1>0. IsFiniteSet(D) /\ Cardinality(D) = m
  BY FS_Interval
<1>1. 0 \in S
  <2>1. Grown(0, {}, [k \in D |-> 0])
    <3>1. Cardinality({}) = 0
      BY FS_EmptySet
    <3> QED
      BY <3>1 DEF Ranked
  <2> HIDE DEF Grown
  <2> QED
    BY <2>1
<1>2. ASSUME NEW n \in Nat, n \in S PROVE n + 1 \in S
  <2> SUFFICES ASSUME n + 1 <= m + 1 PROVE \E T, r : Grown(n + 1, T, r)
    BY <1>2
  <2>1. PICK T, r : Grown(n, T, r)
    <3> HIDE DEF Grown
    <3> QED
      BY <1>2
  <2>2. CASE T = D
    <3>1. Ranked(T, p, r, n + 1)
      BY <2>1, <2>2 DEF Ranked
    <3>2. Grown(n + 1, T, r)
      BY <2>1, <2>2, <3>1
    <3> HIDE DEF Grown
    <3> QED
      BY <3>2
  <2>3. CASE T # D
    <3>1. D \ T # {} /\ D \ T \in SUBSET D
      BY <2>1, <2>3
    <3>2. PICK k \in D \ T : p[k] = 0 \/ p[k] \in D \ (D \ T)
      BY <3>1
    <3>3. p[k] # 0 => p[k] \in T
      BY <3>2
    <3> DEFINE q == [r EXCEPT ![k] = n]
               U == T \union {k}
    <3>4. U \in SUBSET D /\ q \in [D -> 0..m] /\ q[k] = n /\ \A j \in T : q[j] = r[j]
      BY <2>1, <3>2
    <3>5. IsFiniteSet(T)
      <4> HIDE DEF D
      <4> QED
        BY <1>0, <2>1, FS_Subset
    <3>6. Cardinality(U) = n + 1
      <4>1. Cardinality(T) = n /\ k \notin T
        BY <2>1, <2>3, <3>2
      <4>2. Cardinality(T \union {k}) = IF k \in T THEN Cardinality(T) ELSE Cardinality(T) + 1
        BY ONLY <3>5, FS_AddElement
      <4> QED
        BY <4>1, <4>2
    <3>7. Ranked(U, p, q, n + 1)
      <4>1. \A j \in T : q[j] \in Int /\ q[j] < n /\ (p[j] # 0 => p[j] \in T /\ q[p[j]] < q[j])
        BY <2>1, <3>4 DEF Ranked
      <4> HIDE DEF q
      <4>2. ASSUME NEW j \in U PROVE q[j] < n + 1 /\ (p[j] # 0 => p[j] \in U /\ q[p[j]] < q[j])
        <5>1. CASE j \in T
          BY <4>1, <5>1
        <5>2. CASE j = k
          <6>1. p[k] # 0 => p[k] \in U /\ q[p[k]] < q[k]
            BY <3>3, <3>4, <4>1
          <6> QED
            BY <3>4, <5>2, <6>1
        <5> QED
          BY <5>1, <5>2
      <4> QED
        BY <4>2 DEF Ranked
    <3>8. Grown(n + 1, U, q)
      BY <3>4, <3>6, <3>7
    <3> HIDE DEF Grown
    <3> QED
      BY <3>8
  <2> QED
    BY <2>2, <2>3
<1>3. m + 1 \in S
  <2> HIDE DEF S
  <2> QED
    BY <1>1, <1>2, SetInduction
<1>4. PICK T, r : Grown(m + 1, T, r)
  <2> HIDE DEF Grown
  <2> QED
    BY <1>3
<1>5. T = D
  <2>1. Cardinality(T) <= m /\ Cardinality(T) \in Nat
    <3>1. T \in SUBSET D
      BY <1>4
    <3> HIDE DEF D
    <3>2. IsFiniteSet(T) /\ Cardinality(T) <= Cardinality(D)
      BY <1>0, <3>1, FS_Subset
    <3> QED
      BY <1>0, <3>2, FS_CardinalityType
  <2> QED
    BY <1>4, <2>1
<1> QED
  BY <1>4, <1>5 DEF Ranked

\* Rank r falls on the way from a node to its parent.
Falls(pool, r) ==
  \A k \in DOMAIN pool : pool[k].pidx # 0 => pool[k].pidx \in DOMAIN pool /\ r[pool[k].pidx] < r[k]

Trails(pool) ==
  LET to[k \in DOMAIN pool] ==
        IF pool[k].pidx = 0 THEN <<pool[k].id>> ELSE Append(to[pool[k].pidx], pool[k].id)
  IN to

\* The path to a node is that to its parent and the node.
LEMMA TrailAt ==
  ASSUME NEW pool, NEW m \in Nat, DOMAIN pool = 1..m, \A k \in 1..m : pool[k].id \in Polygons,
         NEW r \in [1..m -> 0..m], Falls(pool, r), NEW i \in 1..m
  PROVE  Trails(pool)[i] = IF pool[i].pidx = 0 THEN <<pool[i].id>>
                           ELSE Append(Trails(pool)[pool[i].pidx], pool[i].id)
<1> DEFINE D == 1..m
           V == Seq(Polygons)
           Body(f, k) == IF pool[k].pidx = 0 THEN <<pool[k].id>> ELSE Append(f[pool[k].pidx], pool[k].id)
           F == [k \in D |-> [f \in [D -> V] |-> Body(f, k)]]
<1>1. \A k \in D : pool[k].pidx # 0 => pool[k].pidx \in D /\ r[pool[k].pidx] < r[k]
  BY DEF Falls
<1>2. ASSUME NEW k \in D, NEW f \in [D -> V] PROVE Body(f, k) \in V
  <2>1. CASE pool[k].pidx = 0
    BY <2>1
  <2>2. CASE pool[k].pidx # 0
    <3>1. f[pool[k].pidx] \in V /\ pool[k].id \in Polygons
      BY <1>1, <2>2
    <3> QED
      BY <2>2, <3>1, AppendProperties
  <2> QED
    BY <2>1, <2>2
<1>3. \A k \in D : \A f \in [D -> V] : F[k][f] = Body(f, k)
  <2> HIDE DEF Body, V
  <2> QED
    OBVIOUS
<1>4. Recursive(D, V, r, F)
  <2>1. F \in [D -> [[D -> V] -> V]]
    <3> HIDE DEF Body, V
    <3> QED
      BY <1>2
  <2>2. ASSUME NEW k \in D, NEW f \in [D -> V], NEW g \in [D -> V],
               \A j \in D : r[j] < r[k] => f[j] = g[j]
        PROVE  F[k][f] = F[k][g]
    <3>1. Body(f, k) = Body(g, k)
      BY <1>1, <2>2
    <3> HIDE DEF Body, F, V
    <3> QED
      BY <1>3, <3>1
  <2> HIDE DEF F, V, D
  <2> QED
    BY <2>1, <2>2 DEF Recursive
<1>5. V # {}
  <2>1. <<>> \in V
    OBVIOUS
  <2> QED
    BY <2>1
<1>6. \E f : Solution(D, V, F, f)
  <2> HIDE DEF F, V
  <2> QED
    BY <1>4, <1>5, Recursion, Zenon
<1>7. PICK f : f = [k \in D |-> Body(f, k)]
  <2>1. PICK f \in [D -> V] : \A k \in D : f[k] = Body(f, k)
    <3> HIDE DEF Body, V
    <3> QED
      BY <1>3, <1>6 DEF Solution
  <2>2. f = [k \in D |-> Body(f, k)]
    <3> HIDE DEF Body, V
    <3> QED
      BY <2>1
  <2> QED
    BY <2>2
<1> DEFINE to == Trails(pool)
<1>8. to = [k \in D |-> Body(to, k)]
  BY <1>7 DEF Trails
<1>9. to[i] = Body(to, i)
  <2> HIDE DEF to, Body
  <2> QED
    BY <1>8
<1> QED
  BY <1>9

\* What the path to node k is.
IsTrail(k, s, r) ==
  /\ s \in Seq(Polygons) /\ s # <<>> /\ s[1] = start /\ s[Len(s)] = nodes[k].id
  /\ \A i \in 1..(Len(s) - 1) : s[i + 1] \in Neighbours(s[i])
  /\ \A i, j \in DOMAIN s : s[i] = s[j] => i = j
  /\ \A i \in DOMAIN s : \E j \in DOMAIN nodes : s[i] = nodes[j].id /\ r[j] <= r[k]

\* The path to the parent and the node is a path to the node.
LEMMA TrailGrows ==
  ASSUME PoolInv(nodes), NEW r, NEW k \in DOMAIN nodes, NEW p \in DOMAIN nodes, NEW s, IsTrail(p, s, r),
         r[p] \in Nat, r[k] \in Nat, r[p] < r[k], \A j \in DOMAIN nodes : r[j] \in Nat,
         nodes[k].id \in Polygons, nodes[k].id \in Neighbours(nodes[p].id)
  PROVE  IsTrail(k, Append(s, nodes[k].id), r)
<1> DEFINE id == nodes[k].id
           t == Append(s, id)
           n == Len(s)
<1>1. s \in Seq(Polygons) /\ n \in Nat /\ s # <<>> /\ s \in [1..n -> Polygons] /\ DOMAIN s = 1..n
  BY Listed DEF IsTrail
<1>2. n # 0
  BY <1>1, EmptySeq
<1>3. t \in Seq(Polygons) /\ Len(t) = n + 1 /\ t[n + 1] = id /\ DOMAIN t = 1..(n + 1)
      /\ \A i \in 1..n : t[i] = s[i]
  BY <1>1, AppendProperties
<1>4. /\ s[1] = start /\ s[n] = nodes[p].id
      /\ \A i \in 1..(n - 1) : s[i + 1] \in Neighbours(s[i])
      /\ \A i, j \in DOMAIN s : s[i] = s[j] => i = j
      /\ \A i \in DOMAIN s : \E j \in DOMAIN nodes : s[i] = nodes[j].id /\ r[j] <= r[p]
  BY DEF IsTrail
<1> HIDE DEF t, n
<1>5. t[1] = start /\ t # <<>> /\ t[Len(t)] = id
  BY <1>1, <1>2, <1>3, <1>4
<1>6. ASSUME NEW i \in 1..(Len(t) - 1) PROVE t[i + 1] \in Neighbours(t[i])
  <2>1. CASE i = n
    BY <1>3, <1>4, <1>1, <1>2, <2>1
  <2>2. CASE i # n
    <3>1. i \in 1..(n - 1) /\ i \in 1..n /\ i + 1 \in 1..n
      BY <1>1, <1>3, <2>2
    <3> QED
      BY <1>3, <1>4, <3>1
  <2> QED
    BY <2>1, <2>2
<1>7. ASSUME NEW i \in 1..n PROVE s[i] # id
  <2>0. i \in DOMAIN s
    BY <1>1
  <2>1. PICK j \in DOMAIN nodes : s[i] = nodes[j].id /\ r[j] <= r[p]
    BY <2>0, <1>4
  <2>2. r[j] \in Nat
    OBVIOUS
  <2>3. j # k
    BY <2>1, <2>2
  <2> QED
    BY <2>1, <2>3 DEF PoolInv
<1>8. ASSUME NEW i \in DOMAIN t, NEW j \in DOMAIN t, t[i] = t[j] PROVE i = j
  <2>1. \A l \in DOMAIN t : l \in 1..n \/ l = n + 1
    BY <1>1, <1>3
  <2> QED
    BY <1>1, <1>3, <1>4, <1>7, <1>8, <2>1
<1>9. ASSUME NEW i \in DOMAIN t PROVE \E j \in DOMAIN nodes : t[i] = nodes[j].id /\ r[j] <= r[k]
  <2>1. CASE i \in 1..n
    <3>1. PICK j \in DOMAIN nodes : s[i] = nodes[j].id /\ r[j] <= r[p]
      BY <1>1, <1>4, <2>1
    <3>2. r[j] \in Nat
      OBVIOUS
    <3> QED
      BY <1>3, <2>1, <3>1, <3>2
  <2>2. CASE i = n + 1
    BY <1>3, <2>2
  <2> QED
    BY <1>1, <1>3, <2>1, <2>2
<1> QED
  BY <1>3, <1>5, <1>6, <1>8, <1>9 DEF IsTrail, t

\* The parents of the nodes, as those of BestFirstSearch.
LEMMA NodesAre ==
  ASSUME Tree, BestFirstInv
  PROVE  /\ \A k \in DOMAIN nodes : nodes[k].pidx # 0 =>
              nodes[k].id \in Neighbours(nodes[nodes[k].pidx].id)
         /\ \A S \in SUBSET DOMAIN nodes : S # {} =>
              \E k \in S : nodes[k].pidx = 0 \/ nodes[k].pidx \in DOMAIN nodes \ S
<1>1. View /\ PoolInv(nodes) /\ start # goal
  BY TreeView DEF Tree, View
<1>2. /\ \A j, k \in DOMAIN nodes : nodes[j].id = nodes[k].id => j = k
      /\ \A k \in DOMAIN nodes : /\ nodes[k].id \in LinkedPolys(navMesh) /\ (nodes[k].pidx = 0 <=> k = 1)
                                 /\ (nodes[k].pidx # 0 => nodes[k].pidx \in DOMAIN nodes)
                                 /\ nodes[k].id \in Polygons
                                 /\ parent[nodes[k].id] =
                                      IF nodes[k].pidx = 0 THEN nodes[k].id ELSE nodes[nodes[k].pidx].id
      /\ 1 \in DOMAIN nodes /\ start = nodes[1].id
  BY <1>1 DEF PoolInv, View, start
<1>3. found = {nodes[k].id : k \in DOMAIN nodes}
  BY DEF found
<1>4. \A k \in DOMAIN nodes : beside[nodes[k].id] = Neighbours(nodes[k].id)
  BY <1>1, <1>2 DEF beside
<1>5. ASSUME NEW k \in DOMAIN nodes, nodes[k].pidx # 0
      PROVE  nodes[k].id \in Neighbours(nodes[nodes[k].pidx].id)
  <2>1. nodes[k].id \in found \ {start}
    BY <1>2, <1>3, <1>5
  <2>2. nodes[k].id \in beside[parent[nodes[k].id]]
    BY <2>1 DEF BestFirstInv, Along
  <2> QED
    BY <1>2, <1>4, <1>5, <2>2
<1>6. ASSUME NEW S \in SUBSET DOMAIN nodes, S # {}
      PROVE  \E k \in S : nodes[k].pidx = 0 \/ nodes[k].pidx \in DOMAIN nodes \ S
  <2>1. CASE 1 \in S
    BY <1>2, <2>1
  <2>2. CASE 1 \notin S
    <3> DEFINE R == {nodes[k].id : k \in S}
    <3>1. R \in SUBSET found /\ R # {}
      BY <1>3, <1>6
    <3>2. start \notin R
      BY <1>2, <2>2
    <3>3. \E n \in R : parent[n] \notin R
      BY <3>1, <3>2 DEF BestFirstInv, Abstract!NoCycle
    <3>4. PICK k \in S : parent[nodes[k].id] \notin R
      BY <3>3
    <3>5. nodes[k].pidx # 0 => parent[nodes[k].id] = nodes[nodes[k].pidx].id
      BY <1>2
    <3>6. nodes[k].pidx # 0 => nodes[k].pidx \notin S
      BY <3>4, <3>5
    <3> QED
      BY <1>2, <3>6
  <2> QED
    BY <2>1, <2>2
<1> QED
  BY <1>5, <1>6

\* The path to every node is one from the start over links, without repetition.
LEMMA TrailsAre ==
  ASSUME Tree, BestFirstInv
  PROVE  \E r : \A k \in DOMAIN nodes : IsTrail(k, Trails(nodes)[k], r)
<1> DEFINE m == Len(nodes)
           p == [k \in 1..m |-> nodes[k].pidx]
           to == Trails(nodes)
<1>1. /\ PoolInv(nodes) /\ DOMAIN nodes = 1..m /\ m \in Nat
      /\ \A k \in 1..m : nodes[k].id \in Polygons
  BY Listed, TreeView DEF Tree, PoolInv, View
<1>2. \A k \in 1..m : nodes[k].pidx # 0 => nodes[k].id \in Neighbours(nodes[nodes[k].pidx].id)
  BY <1>1, NodesAre
<1>3. \A S \in SUBSET (1..m) : S # {} => \E k \in S : p[k] = 0 \/ p[k] \in 1..m \ S
  <2>1. \A S \in SUBSET (1..m) : S # {} => \E k \in S : nodes[k].pidx = 0 \/ nodes[k].pidx \in 1..m \ S
    <3> HIDE DEF m
    <3> QED
      BY <1>1, NodesAre
  <2> QED
    BY <2>1
<1>4. PICK r \in [1..m -> 0..m] : \A k \in 1..m : p[k] # 0 => p[k] \in 1..m /\ r[p[k]] < r[k]
  <2> HIDE DEF m, p
  <2> QED
    BY <1>1, <1>3, RankExists
<1>5. \A k \in 1..m : nodes[k].pidx # 0 => nodes[k].pidx \in 1..m /\ r[nodes[k].pidx] < r[k]
  BY <1>4
<1> HIDE DEF m, p, to
<1>6. Falls(nodes, r)
  BY <1>1, <1>5 DEF Falls
<1>7. \A k \in 1..m : to[k] = IF nodes[k].pidx = 0 THEN <<nodes[k].id>>
                              ELSE Append(to[nodes[k].pidx], nodes[k].id)
  BY <1>1, <1>6, TrailAt DEF to
<1> DEFINE Bad == {k \in 1..m : ~IsTrail(k, to[k], r)}
<1>8. ASSUME NEW k \in 1..m, nodes[k].pidx = 0 PROVE IsTrail(k, to[k], r)
  <2>1. to[k] = <<start>> /\ nodes[k].id = start /\ start \in Polygons
    <3>1. k = 1 /\ nodes[1].id = start
      BY <1>1, <1>8 DEF PoolInv, start
    <3> QED
      BY <1>1, <1>7, <1>8, <3>1
  <2>2. r[k] <= r[k]
    OBVIOUS
  <2>3. /\ <<start>> \in Seq(Polygons) /\ <<start>> # <<>> /\ <<start>>[1] = start
        /\ Len(<<start>>) = 1 /\ DOMAIN <<start>> = {1}
    BY <2>1
  <2> QED
    BY <1>1, <2>1, <2>2, <2>3 DEF IsTrail
<1>9. ASSUME NEW k \in 1..m, nodes[k].pidx # 0, IsTrail(nodes[k].pidx, to[nodes[k].pidx], r)
      PROVE  IsTrail(k, to[k], r)
  <2> DEFINE q == nodes[k].pidx
             s == to[nodes[k].pidx]
  <2>1. q \in DOMAIN nodes /\ k \in DOMAIN nodes /\ r[q] < r[k]
        /\ \A j \in DOMAIN nodes : r[j] \in Nat
    BY <1>1, <1>5, <1>9
  <2>2. IsTrail(q, s, r) /\ nodes[k].id \in Neighbours(nodes[q].id) /\ nodes[k].id \in Polygons
    BY <1>1, <1>2, <1>9
  <2>3. to[k] = Append(s, nodes[k].id)
    BY <1>7, <1>9
  <2> HIDE DEF q, s
  <2>4. IsTrail(k, Append(s, nodes[k].id), r)
    BY <1>1, <2>1, <2>2, TrailGrows
  <2> QED
    BY <2>3, <2>4
<1>10. Bad = {}
  <2> SUFFICES ASSUME Bad # {} PROVE FALSE
    OBVIOUS
  <2>1. PICK k \in Bad : nodes[k].pidx = 0 \/ nodes[k].pidx \in (1..m) \ Bad
    <3>1. Bad \in SUBSET DOMAIN nodes
      BY <1>1
    <3> HIDE DEF Bad
    <3>2. \E k \in Bad : nodes[k].pidx = 0 \/ nodes[k].pidx \in DOMAIN nodes \ Bad
      BY <3>1, NodesAre
    <3> QED
      BY <1>1, <3>2
  <2> QED
    BY <1>8, <1>9, <2>1
<1> QED
  BY <1>1, <1>10 DEF to

\* What a search comes to that ends.
LEMMA GoalIsReached ==
  ASSUME Tree, BestFirstInv, phase = "ended"
  PROVE  /\ nearest = goal => GoalCanBeReached
         /\ ~outOfNodes /\ GoalCanBeReached => nearest = goal
<1>1. View /\ PoolInv(nodes) /\ start # goal /\ ~searching
  BY TreeView DEF Tree, View, searching
<1>2. /\ \A k \in DOMAIN nodes : nodes[k].id \in LinkedPolys(navMesh) /\ nodes[k].id \in Polygons
      /\ 1 \in DOMAIN nodes /\ start = nodes[1].id
  BY <1>1 DEF PoolInv, View, start
<1>3. found = {nodes[k].id : k \in DOMAIN nodes}
  BY DEF found
<1>4. start \in found /\ found \in SUBSET LinkedPolys(navMesh) /\ nearest \in found
  BY <1>2, <1>3 DEF BestFirstInv, Rooted
<1>5. \A n \in found : beside[n] = Neighbours(n)
  BY <1>1, <1>2, <1>3 DEF beside
<1>6. ASSUME nearest = goal, NEW S \in SUBSET LinkedPolys(navMesh), start \in S,
             \A ref \in S : Neighbours(ref) \subseteq S
      PROVE  goal \in S
  <2> SUFFICES ASSUME goal \notin S PROVE FALSE
    OBVIOUS
  <2>1. found \ S \in SUBSET found /\ found \ S # {} /\ start \notin found \ S
    BY <1>4, <1>6
  <2>2. PICK n \in found \ S : parent[n] \notin found \ S
    BY <2>1 DEF BestFirstInv, Abstract!NoCycle
  <2>3. n # start /\ parent[n] \in found
    BY <2>1, <2>2 DEF BestFirstInv, Rooted
  <2>4. parent[n] \in S /\ n \in beside[parent[n]]
    BY <2>2, <2>3 DEF BestFirstInv, Along
  <2> QED
    BY <1>5, <1>6, <2>2, <2>3, <2>4
<1>7. ASSUME ~outOfNodes, GoalCanBeReached, nearest # goal PROVE FALSE
  <2>1. \A n \in found : beside[n] \subseteq found
    BY <1>1, <1>7 DEF BestFirstInv, Explored, dropped
  <2>2. goal \in found
    BY <1>4, <1>5, <1>7, <2>1 DEF GoalCanBeReached
  <2> QED
    BY <1>1, <1>7, <2>2 DEF BestFirstInv, Along
<1> QED
  BY <1>6, <1>7 DEF GoalCanBeReached

\* The head of a path of nodes.
LEMMA Cut ==
  ASSUME NEW s \in Seq(Polygons), s # <<>>
  PROVE  LET c == SubSeq(s, 1, IF Len(s) <= MaxPath THEN Len(s) ELSE MaxPath)
         IN /\ Len(c) \in 1..MaxPath /\ Len(c) <= Len(s) /\ DOMAIN c = 1..Len(c)
            /\ \A i \in 1..Len(c) : c[i] = s[i]
            /\ Len(c) < MaxPath => Len(c) = Len(s)
<1> DEFINE n == IF Len(s) <= MaxPath THEN Len(s) ELSE MaxPath
           c == SubSeq(s, 1, n)
<1>1. Len(s) \in Nat /\ Len(s) # 0 /\ MaxPath \in Nat /\ MaxPath # 0
  BY LenProperties, EmptySeq, MaxPathAssumption
<1>2. n \in 1..Len(s) /\ n \in 1..MaxPath /\ (n < MaxPath => n = Len(s))
  BY <1>1
<1> HIDE DEF n
<1>3. Len(c) = n /\ \A i \in 1..n : c[i] = s[i]
  BY <1>1, <1>2, SubSeqProperties
<1>4. DOMAIN c = 1..n
  BY <1>1, <1>2, <1>3, SubSeqProperties
<1> QED
  BY <1>1, <1>2, <1>3, <1>4 DEF n

\* The corridor of a search that has ended is right.
LEMMA CorridorOfTree ==
  ASSUME Tree, BestFirstInv, phase = "ended"
  PROVE  CorridorIsRight
<1> DEFINE k == lastBest.node
           s == Trails(nodes)[k]
           c == PathToNode(nodes, k)
<1>1. PICK r : \A j \in DOMAIN nodes : IsTrail(j, Trails(nodes)[j], r)
  BY TrailsAre
<1>2. k \in DOMAIN nodes /\ nearest = nodes[k].id
  BY TreeView DEF Tree, View
<1>3. IsTrail(k, s, r)
  BY <1>1, <1>2
<1>4. c = SubSeq(s, 1, IF Len(s) <= MaxPath THEN Len(s) ELSE MaxPath)
  BY DEF PathToNode, Trails
<1> HIDE DEF s, c
<1>5. /\ Len(c) \in 1..MaxPath /\ Len(c) <= Len(s) /\ DOMAIN c = 1..Len(c)
      /\ \A i \in 1..Len(c) : c[i] = s[i]
      /\ Len(c) < MaxPath => Len(c) = Len(s)
  BY <1>3, <1>4, Cut DEF IsTrail
<1>6. Len(s) \in Nat /\ DOMAIN s = 1..Len(s) /\ Len(c) \in Nat /\ MaxPath \in Nat /\ 1 \in 1..Len(c)
  BY <1>3, <1>5, Listed, MaxPathAssumption DEF IsTrail
<1> DEFINE m == Len(c)
           n == Len(s)
<1>11. m \in Nat /\ n \in Nat /\ m <= n /\ m <= MaxPath /\ DOMAIN c = 1..m /\ DOMAIN s = 1..n
       /\ (\A i \in 1..m : c[i] = s[i]) /\ 1 \in 1..m
  <2>1. m \in Nat /\ n \in Nat /\ DOMAIN s = 1..n /\ 1 \in 1..m
    BY ONLY <1>6, Zenon
  <2>2. m <= n /\ DOMAIN c = 1..m /\ \A i \in 1..m : c[i] = s[i]
    BY ONLY <1>5, Zenon
  <2>3. m \in 1..MaxPath
    BY ONLY <1>5, Zenon
  <2> HIDE DEF m, n
  <2>4. m <= MaxPath
    BY <2>3
  <2> QED
    BY <2>1, <2>2, <2>4
<1> HIDE DEF m, n
<1>7. c[1] = start /\ Len(c) <= MaxPath
  <2>1. c[1] = s[1]
    BY <1>11
  <2> QED
    BY <1>3, <1>11, <2>1 DEF IsTrail, m
<1>8. ASSUME NEW i \in 1..(m - 1) PROVE c[i + 1] \in Neighbours(c[i])
  <2>1. i \in 1..(n - 1) /\ i \in 1..m /\ i + 1 \in 1..m
    BY <1>11
  <2> QED
    BY <1>3, <1>11, <2>1 DEF IsTrail, n
<1>9. ASSUME NEW i \in DOMAIN c, NEW j \in DOMAIN c, c[i] = c[j] PROVE i = j
  <2>1. i \in DOMAIN s /\ j \in DOMAIN s /\ s[i] = s[j]
    BY <1>9, <1>11
  <2> QED
    BY <1>3, <2>1 DEF IsTrail
<1>10. ASSUME ~outOfNodes, Len(c) < MaxPath PROVE c[Len(c)] = goal <=> GoalCanBeReached
  <2>1. c[Len(c)] = nearest
    <3>1. Len(c) \in 1..Len(c) /\ Len(c) = Len(s)
      BY <1>5, <1>6, <1>10
    <3> QED
      BY <1>2, <1>3, <1>5, <3>1 DEF IsTrail
  <2> QED
    BY <1>10, <2>1, GoalIsReached
<1> QED
  BY <1>7, <1>8, <1>9, <1>10 DEF CorridorIsRight, c, k, m

-----------------------------------------------------------------------------
(* What holds of the search                                                *)

\* What holds of every best-first search holds of the search of Detour.
LEMMA SearchIsBestFirst == ASSUME Distances PROVE SearchSpec => []BestFirstInv
<1> QED
  BY SearchRefinement, BestFirstHolds, PTL DEF SearchImplementsBestFirst

\* dtNavMeshQuery::findPath makes no cycle of parents, so that getPathToNode ends; a
\* search that ends elsewhere than at the goal, and had a node for every polygon, has
\* been everywhere the start leads to, and ends at the found polygon nearest to the goal.
THEOREM SearchEndsRight ==
  ASSUME Distances
  PROVE  SearchSpec => [](Abstract!NoCycle /\ Abstract!FoundAll /\ Abstract!EndsNearest)
<1>1. BestFirstInv => Abstract!NoCycle /\ Abstract!FoundAll /\ Abstract!EndsNearest
  BY DEF BestFirstInv, Explored, NearestSoFar, Abstract!FoundAll
<1> QED
  BY <1>1, SearchIsBestFirst, PTL

\* The corridor getPathToNode answers with, on every mesh and between any two of its
\* polygons: a walk over links, without repetition and no longer than the buffer; if
\* neither the nodes nor the buffer gave out it ends at the goal exactly when the
\* goal can be reached.
THEOREM CorridorIsRightHolds == ASSUME Distances PROVE SearchSpec => []CorridorIsRight
<1>1. SearchInv /\ BestFirstInv => CorridorIsRight
  <2> SUFFICES ASSUME SearchInv, BestFirstInv PROVE CorridorIsRight
    OBVIOUS
  <2>1. CASE phase = "ended" /\ nodes # <<>>
    <3>1. Tree
      BY <2>1 DEF SearchInv, Blank
    <3> QED
      BY <2>1, <3>1, CorridorOfTree
  <2>2. CASE ~(phase = "ended" /\ nodes # <<>>)
    BY <2>2 DEF CorridorIsRight
  <2> QED
    BY <2>1, <2>2
<1> QED
  BY <1>1, SearchInvHolds, SearchIsBestFirst, PTL
=============================================================================
