---------------------------- MODULE Heightfield ----------------------------
(***************************************************************************)
(* The first half of the navigation mesh build that NavGenerator runs      *)
(* (RecastNavMesh::Build, steps 2 to 4): the triangles of a map are        *)
(* rasterised into columns of solid spans, three filters take back the     *)
(* spans on which nobody could stand, and the open space above the others  *)
(* becomes the compact heightfield with its connections.                   *)
(*                                                                         *)
(* A column is the set of its spans: the list of the code is in order of   *)
(* height, and ColumnsAreSeparated says that the set has one such order.   *)
(* Heights of triangles are in half cells, so that rounding to cells has   *)
(* something to do.  Failed allocations are left out.                      *)
(***************************************************************************)
EXTENDS Integers, FiniteSets

CONSTANTS
  Width,          \* cells along x
  Depth,          \* cells along z
  Triangles,      \* the triangles of all the maps
  Clip,           \* triangle -> the cells it touches -> its lo and hi there
  Maps,           \* the maps: sets of triangles
  BoxTop,         \* height of the bounding box, in half cells
  WalkableHeight,
  WalkableClimb,
  SpanMaxHeight   \* RC_SPAN_MAX_HEIGHT

Cells == (0..(Width - 1)) \X (0..(Depth - 1))

ASSUME HeightfieldAssumption ==
  /\ Width \in Nat \ {0} /\ Depth \in Nat \ {0}
  /\ BoxTop \in Nat /\ WalkableHeight \in Nat /\ WalkableClimb \in Nat
  /\ SpanMaxHeight \in Nat

ASSUME MapsAssumption == Maps \subseteq SUBSET Triangles

ASSUME ClipAssumption ==
  \A t \in Triangles :
    /\ DOMAIN Clip[t] \subseteq Cells
    /\ \A c \in DOMAIN Clip[t] :
         /\ Clip[t][c].lo \in Int /\ Clip[t][c].hi \in Int
         /\ Clip[t][c].lo <= Clip[t][c].hi

\* An agent that climbs as high as it stands tall would fit nowhere.
ASSUME ClimbAssumption == WalkableClimb < WalkableHeight

\* No map is as high as a span can count: 8191 cells of 10 cm.  The build does
\* not test it; a floor right at that height would wrap in the bit field.
ASSUME BoxAssumption == (BoxTop + 1) \div 2 < SpanMaxHeight

RC_NULL_AREA == 0
RC_WALKABLE_AREA == 63
MAX_HEIGHT == 65535  \* 0xffff
MAX_LAYERS == 62     \* RC_NOT_CONNECTED - 1

Directions == 0..3
rcGetDirOffsetX == [d \in Directions |-> CASE d = 0 -> -1 [] d = 2 -> 1 [] OTHER -> 0]
rcGetDirOffsetY == [d \in Directions |-> CASE d = 1 -> 1 [] d = 3 -> -1 [] OTHER -> 0]
Opposite(d) == (d + 2) % 4

\* The cell next to c in direction d; it may lie outside the grid.
Beside(c, d) == <<c[1] + rcGetDirOffsetX[d], c[2] + rcGetDirOffsetY[d]>>

Lower(a, b) == IF a <= b THEN a ELSE b
Higher(a, b) == IF a <= b THEN b ELSE a
rcClamp(v, lo, hi) == IF v < lo THEN lo ELSE IF v > hi THEN hi ELSE v
Distance(a, b) == IF a <= b THEN b - a ELSE a - b

VARIABLES
  map,        \* the triangles of the file being built
  todo,       \* those not yet rasterised
  columns,    \* rcHeightfield: cell -> its spans [smin, smax, area]
  compact,    \* rcCompactHeightfield: cell -> its open spans [y, h]
  step        \* the next call of Build

hfVars == <<map, todo, columns, compact, step>>

-----------------------------------------------------------------------------
(* Rasterisation *)

Overlapping(column, new) ==
  {s \in column : ~(s.smin > new.smax) /\ ~(s.smax < new.smin)}

\* Mutant: the merged span ends where the new one ends.
Merged_ForgetsTop(column, new) ==
  LET below == {s \in Overlapping(column, new) : s.smin < new.smin}
  IN [new EXCEPT !.smin = IF below = {} THEN @ ELSE (CHOOSE s \in below : TRUE).smin]

\* The list is in order and its spans apart, so that at most one overlapping
\* span reaches further down, and at most one further up.
Merged(column, new) ==
  LET touching == Overlapping(column, new)
      below == {s \in touching : s.smin < new.smin}
      above == {s \in touching : s.smax > new.smax}
      level == {s \in touching : Higher(s.smax, new.smax) - s.smax <= WalkableClimb}
  IN [smin |-> IF below = {} THEN new.smin ELSE (CHOOSE s \in below : TRUE).smin,
      smax |-> IF above = {} THEN new.smax ELSE (CHOOSE s \in above : TRUE).smax,
      area |-> IF \E s \in level : s.area > new.area THEN RC_WALKABLE_AREA
               ELSE new.area]

AddSpan(column, new) ==
  (column \ Overlapping(column, new)) \cup {Merged(column, new)}

\* What a triangle leaves in one cell: cut to the box, then rounded outwards to
\* at least one cell.
InBox(piece) == piece.hi >= 0 /\ piece.lo <= BoxTop
Snap(piece) ==
  LET lo == rcClamp(Higher(piece.lo, 0) \div 2, 0, SpanMaxHeight)
      hi == rcClamp((Lower(piece.hi, BoxTop) + 1) \div 2, lo + 1, SpanMaxHeight)
  IN [smin |-> lo, smax |-> hi % (SpanMaxHeight + 1), area |-> RC_WALKABLE_AREA]

RasterizeTri(t) ==
  /\ step = "raster" /\ t \in todo
  /\ todo' = todo \ {t}
  /\ columns' = [c \in Cells |->
       IF c \in DOMAIN Clip[t] /\ InBox(Clip[t][c])
       THEN AddSpan(columns[c], Snap(Clip[t][c])) ELSE columns[c]]
  /\ UNCHANGED <<map, compact, step>>

RasterizeTriangles == \E t \in Triangles : RasterizeTri(t)

-----------------------------------------------------------------------------
(* The three filters *)

Walkable(s) == s.area # RC_NULL_AREA

\* The spans over s, the one right over it, and where the room over s ends.
Above(column, s) == {n \in column : n.smin > s.smax}
Below(column, s) == {n \in column : n.smax < s.smin}
SpanAbove(column, s) == CHOOSE n \in Above(column, s) : \A o \in Above(column, s) : n.smin <= o.smin
SpanBelow(column, s) == CHOOSE n \in Below(column, s) : \A o \in Below(column, s) : n.smax >= o.smax
Ceiling(column, s) ==
  IF Above(column, s) = {} THEN MAX_HEIGHT ELSE SpanAbove(column, s).smin
Bottom(column) ==
  IF column = {} THEN MAX_HEIGHT
  ELSE (CHOOSE s \in column : \A o \in column : s.smin <= o.smin).smin

Close(column, unwalkable(_)) ==
  {IF unwalkable(s) THEN [s EXCEPT !.area = RC_NULL_AREA] ELSE s : s \in column}

\* A low obstacle on walkable ground is walkable.  The loop remembers what the
\* span below was before the loop changed it.
LowHanging(column, s) ==
  /\ ~Walkable(s) /\ Below(column, s) # {}
  /\ Walkable(SpanBelow(column, s))
  /\ s.smax - SpanBelow(column, s).smax <= WalkableClimb

FilterLowHangingWalkableObstacles ==
  /\ step = "raster" /\ todo = {}
  /\ columns' = [c \in Cells |->
       {IF LowHanging(columns[c], s) THEN [s EXCEPT !.area = RC_WALKABLE_AREA]
        ELSE s : s \in columns[c]}]
  /\ step' = "ledges"
  /\ UNCHANGED <<map, todo, compact>>

\* The floors an agent on s could step to in the column next to it.
Reachable(column, s, neighbour) ==
  {n \in neighbour :
     Lower(Ceiling(column, s), Ceiling(neighbour, n)) - Higher(s.smax, n.smax)
       >= WalkableHeight}

Drop(column, s, neighbour) ==
  \/ Lower(Ceiling(column, s), Bottom(neighbour)) - s.smax >= WalkableHeight
  \/ \E n \in Reachable(column, s, neighbour) : n.smax - s.smax < -WalkableClimb

\* A span beside the edge of the grid or a drop, or on a slope whose steps up
\* and down are together too high.
Ledge(c, s) ==
  LET in == {Beside(c, d) : d \in Directions} \cap Cells
      floors == UNION {{n.smax : n \in Reachable(columns[c], s, columns[b])} : b \in in}
      steps == {f \in floors : Distance(f, s.smax) <= WalkableClimb} \cup {s.smax}
  IN \/ \E d \in Directions : Beside(c, d) \notin Cells
     \/ \E b \in in : Drop(columns[c], s, columns[b])
     \/ \E lowest, highest \in steps : highest - lowest > WalkableClimb

FilterLedgeSpans ==
  /\ step = "ledges"
  /\ columns' = [c \in Cells |-> Close(columns[c], LAMBDA s : Ledge(c, s))]
  /\ step' = "headroom"
  /\ UNCHANGED <<map, todo, compact>>

Cramped(column, s) == Ceiling(column, s) - s.smax < WalkableHeight

FilterWalkableLowHeightSpans ==
  /\ step = "headroom"
  /\ columns' = [c \in Cells |-> Close(columns[c], LAMBDA s : Cramped(columns[c], s))]
  /\ step' = "compact"
  /\ UNCHANGED <<map, todo, compact>>

-----------------------------------------------------------------------------
(* The compact heightfield *)

Open(column, s) ==
  [y |-> s.smax, h |-> rcClamp(Ceiling(column, s) - s.smax, 0, 255)]

BuildCompactHeightfield ==
  /\ step = "compact"
  /\ compact' = [c \in Cells |->
       {Open(columns[c], s) : s \in {w \in columns[c] : Walkable(w)}}]
  /\ step' = "erode"
  /\ UNCHANGED <<map, todo, columns>>

\* An agent can step from one open space to the other.
Passable(s, n) ==
  /\ Lower(s.y + s.h, n.y + n.h) - Higher(s.y, n.y) >= WalkableHeight
  /\ Distance(n.y, s.y) <= WalkableClimb

Layer(cell, s) == Cardinality({o \in cell : o.y < s.y})

\* The first passable span of the cell in direction d, as far as the layers
\* that fit into six bits go.
Candidates(c, s, d) ==
  IF Beside(c, d) \notin Cells THEN {}
  ELSE {n \in compact[Beside(c, d)] :
          Passable(s, n) /\ Layer(compact[Beside(c, d)], n) <= MAX_LAYERS}
Connected(c, s, d) == Candidates(c, s, d) # {}
Neighbour(c, s, d) ==
  CHOOSE n \in Candidates(c, s, d) : \A o \in Candidates(c, s, d) : n.y <= o.y

-----------------------------------------------------------------------------
HeightfieldInit ==
  /\ map \in Maps
  /\ todo = map
  /\ columns = [c \in Cells |-> {}]
  /\ compact = [c \in Cells |-> {}]
  /\ step = "raster"

HeightfieldNext ==
  \/ RasterizeTriangles
  \/ FilterLowHangingWalkableObstacles
  \/ FilterLedgeSpans
  \/ FilterWalkableLowHeightSpans
  \/ BuildCompactHeightfield

HeightfieldSpec == HeightfieldInit /\ [][HeightfieldNext]_hfVars
-----------------------------------------------------------------------------
(* Properties *)

\* Part of ColumnsAreUnion.  The spans of a column never touch: addSpan has merged
\* every pair that did, whatever the order of the triangles, and what the loop of addSpan relies on
\* when it stops at the first span past the new one is always true.
ColumnsAreSeparated ==
  \A c \in Cells : \A s, r \in columns[c] :
    /\ s.smin < s.smax
    /\ s = r \/ s.smax < r.smin \/ r.smax < s.smin

\* The spans of a column never touch, and when the heightfield is done a column is
\* solid exactly where a rasterised triangle is: merging and unlinking spans in
\* addSpan loses no ground and makes up none.  Half heights tell a span from two
\* that meet.
ColumnsAreUnion ==
  /\ ColumnsAreSeparated
  /\ step = "erode" =>
    \A c \in Cells :
      LET pieces == {Snap(Clip[t][c]) : t \in {t \in map : c \in DOMAIN Clip[t]
                                                        /\ InBox(Clip[t][c])}}
          in(s, v) == 2 * s.smin <= v /\ v <= 2 * s.smax
      IN \A v \in 0..(2 * SpanMaxHeight) :
           (\E s \in columns[c] : in(s, v)) <=> (\E p \in pieces : in(p, v))

=============================================================================
