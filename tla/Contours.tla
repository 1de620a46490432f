------------------------------ MODULE Contours ------------------------------
(***************************************************************************)
(* rcBuildContours, step 7 of the navigation mesh build: the outline of    *)
(* every region is walked, simplified to within an error, and the outlines *)
(* of its holes are joined to its own by a pair of edges.                  *)
(*                                                                         *)
(* A point is [x, y, z, reg, border]: reg is the region on the other side  *)
(* of the edge that ends there, border whether the area changes across it  *)
(* (RC_AREA_BORDER).  Squared distances are fractions [num, den]: the      *)
(* floats of the code, without their rounding.                             *)
(***************************************************************************)
EXTENDS Regions

CONSTANTS MaxErrorSquared, \* a fraction, maxSimplificationError squared
          MaxEdgeLen

Ring(k, n) == IF k > n THEN k - n ELSE IF k < 1 THEN k + n ELSE k
InsertAfter(seq, k, e) == SubSeq(seq, 1, k) \o <<e>> \o SubSeq(seq, k + 1, Len(seq))
RotatedTo(seq, k) == SubSeq(seq, k, Len(seq)) \o SubSeq(seq, 1, k - 1)
Square(n) == n * n

-----------------------------------------------------------------------------
(* Tracing *)

OuterEdges(chf, reg, i) ==
  IF reg[i] = 0 THEN {} ELSE {d \in DIRS : IsSolidEdge(chf, reg, i, d)}

\* The height of a corner is that of the highest of the spans around it.
CornerHeight(chf, i, d) ==
  LET e == ClockWise(d)
      around == {i, Con(chf, i, d), Con(chf, i, e), Corner(chf, i, d, e), Corner(chf, i, e, d)}
  IN Greatest({chf.y[j] : j \in around \ {0}})

ContourPoint(chf, areas, reg, i, d) ==
  LET a == Con(chf, i, d)
  IN [x |-> chf.cell[i][1] + (IF d \in {1, 2} THEN 1 ELSE 0),
      y |-> CornerHeight(chf, i, d),
      z |-> chf.cell[i][2] + (IF d \in {0, 1} THEN 1 ELSE 0),
      reg |-> RegionBeside(chf, reg, i, d),
      border |-> a # 0 /\ areas[a] # areas[i]]

\* Walk the outline from side d of span i and strike off the edges passed.
WalkEdge(chf, areas, reg, w) ==
  IF w.d \in w.flags[w.i]
  THEN [w EXCEPT !.flags[w.i] = @ \ {w.d}, !.d = ClockWise(@),
                 !.points = Append(@, ContourPoint(chf, areas, reg, w.i, w.d))]
  ELSE [w EXCEPT !.i = Con(chf, w.i, w.d), !.d = CounterClockWise(@)]

WalkContour(chf, areas, reg, flags, i, d) ==
  While(LAMBDA w : WalkEdge(chf, areas, reg, w), LAMBDA w : <<w.i, w.d>> = <<i, d>>,
        WalkEdge(chf, areas, reg, [flags |-> flags, points |-> <<>>, i |-> i, d |-> d]))

-----------------------------------------------------------------------------
(* Simplification: a contour is a sequence of indices into its raw points *)

Changes(points) ==
  SelectSeq(AscendingFrom(Len(points)), LAMBDA k :
    LET next == points[Ring(k + 1, Len(points))]
    IN points[k].reg # next.reg \/ points[k].border # next.border)

Southwest(p, q) == p.x < q.x \/ (p.x = q.x /\ p.z < q.z)
Extremes(points) ==
  LET all == DOMAIN points
  IN <<Least({k \in all : \A j \in all : ~Southwest(points[j], points[k])}),
       Least({k \in all : \A j \in all : ~Southwest(points[k], points[j])})>>

\* Mutant: the ends of the boundary with another region are not kept.
InitialPoints_ExtremesOnly(points) == Extremes(points)

InitialPoints(points) ==
  IF (\E k \in DOMAIN points : points[k].reg # 0) /\ Changes(points) # <<>>
  THEN Changes(points) ELSE Extremes(points)

\* Squared distance of p from the segment between a and b.
DistancePtSeg(p, a, b) ==
  LET ux == b.x - a.x  uz == b.z - a.z  vx == p.x - a.x  vz == p.z - a.z
      length == Square(ux) + Square(uz)
      along == ux * vx + uz * vz
  IN IF along <= 0 THEN [num |-> Square(vx) + Square(vz), den |-> 1]
     ELSE IF along >= length THEN [num |-> Square(p.x - b.x) + Square(p.z - b.z), den |-> 1]
     ELSE [num |-> Square(ux * vz - uz * vx), den |-> length]
Further(d, e) == d.num * e.den > e.num * d.den

\* The raw points between two chosen ones, in the order in which the walk from
\* the southwestern end meets them: a segment and its opposite agree.
Forward(points, from, to) == Southwest(points[from], points[to])

Between(points, from, to) ==
  LET n == Len(points)
      steps == (to - from - 1 + n) % n
  IN IF Forward(points, from, to) THEN [k \in 1..steps |-> Ring(from + k, n)]
     ELSE [k \in 1..steps |-> Ring(to - k, n)]

Refined(points, from, to) ==
  LET first == IF Forward(points, from, to) THEN Ring(from + 1, Len(points))
               ELSE Ring(to - 1, Len(points))
  IN points[first].reg = 0 \/ points[first].border
Worst(d) == Least({k \in DOMAIN d : \A j \in DOMAIN d : ~Further(d[j], d[k])})
TooFar(run, d) ==
  IF run # <<>> /\ Further(d[Worst(d)], MaxErrorSquared) THEN run[Worst(d)] ELSE 0
FarthestOf(points, run, from, to) ==
  TooFar(run, [k \in DOMAIN run |-> DistancePtSeg(points[run[k]], points[from], points[to])])
\* Where a segment deviates most, 0 if nowhere too far.  Only outer edges and
\* those between areas are refined.
Farthest(points, from, to) ==
  IF Refined(points, from, to) THEN FarthestOf(points, Between(points, from, to), from, to) ELSE 0

PutIn(w, found) ==
  IF found # 0 THEN [w EXCEPT !.chosen = InsertAfter(@, w.k, found)] ELSE [w EXCEPT !.k = @ + 1]
\* Go round a chosen sequence and put in what extra(from, to) finds between two
\* of its points, until it finds nothing more.
Filled(chosen, extra(_, _)) ==
  While(LAMBDA w : PutIn(w, extra(w.chosen[w.k], w.chosen[Ring(w.k + 1, Len(w.chosen))])),
        LAMBDA w : w.k > Len(w.chosen), [chosen |-> chosen, k |-> 1]).chosen

\* The middle of a wall edge that is too long, 0 if it is not.
Middle(points, from, to) ==
  LET n == Len(points)
      a == points[from]  b == points[to]
      run == IF to < from THEN to + n - from ELSE to - from
  IN IF /\ MaxEdgeLen > 0 /\ points[Ring(from + 1, n)].reg = 0
        /\ Square(b.x - a.x) + Square(b.z - a.z) > Square(MaxEdgeLen) /\ run > 1
     THEN Ring(from + (IF Forward(points, from, to) THEN run \div 2 ELSE (run + 1) \div 2), n)
     ELSE 0

\* A simplified vertex takes the region behind the edge that starts there.
Vertices(points, chosen) ==
  LET after(k) == points[Ring(chosen[k] + 1, Len(points))]
  IN [k \in DOMAIN chosen |-> [points[chosen[k]] EXCEPT !.reg = after(k).reg,
                                                        !.border = after(k).border]]
SimplifyContour(points) ==
  Vertices(points,
    Filled(Filled(InitialPoints(points), LAMBDA from, to : Farthest(points, from, to)),
           LAMBDA from, to : Middle(points, from, to)))

SamePlace(p, q) == p.x = q.x /\ p.z = q.z

\* The loop goes on to the next vertex after it has removed one.
WithoutDegenerate(verts) ==
  While(LAMBDA w : [k |-> w.k + 1,
          verts |-> IF SamePlace(w.verts[w.k], w.verts[Ring(w.k + 1, Len(w.verts))])
                    THEN Remove(w.verts, w.k) ELSE w.verts],
        LAMBDA w : w.k > Len(w.verts), [verts |-> verts, k |-> 1]).verts

Kept(contour, found) == IF Len(contour.verts) < 3 THEN found ELSE Append(found, contour)
AddWalk(walk, found, region, area) ==
  [flags |-> walk.flags,
   found |-> Kept([verts |-> WithoutDegenerate(SimplifyContour(walk.points)), raw |-> walk.points,
                   reg |-> region, area |-> area], found)]
TraceSpan(chf, areas, reg, w, i) ==
  IF w.flags[i] \in {{}, DIRS} THEN [w EXCEPT !.flags[i] = {}]
  ELSE AddWalk(WalkContour(chf, areas, reg, w.flags, i, Least(w.flags[i])), w.found, reg[i], areas[i])

TracedContours(chf, areas, reg) ==
  For(LAMBDA w, i : TraceSpan(chf, areas, reg, w, i),
      [flags |-> [i \in SpansOf(chf) |-> OuterEdges(chf, reg, i)], found |-> <<>>], 1, chf.n).found
-----------------------------------------------------------------------------
(* Plane geometry; the same predicates serve RecastMesh.cpp *)

Area2(a, b, c) == (b.x - a.x) * (c.z - a.z) - (c.x - a.x) * (b.z - a.z)
Left(a, b, c) == Area2(a, b, c) < 0
LeftOn(a, b, c) == Area2(a, b, c) <= 0
Collinear(a, b, c) == Area2(a, b, c) = 0

IntersectProp(a, b, c, d) ==
  /\ ~Collinear(a, b, c) /\ ~Collinear(a, b, d) /\ ~Collinear(c, d, a) /\ ~Collinear(c, d, b)
  /\ Left(a, b, c) # Left(a, b, d) /\ Left(c, d, a) # Left(c, d, b)

OnSegment(a, b, c) ==
  /\ Collinear(a, b, c)
  /\ IF a.x # b.x THEN (a.x <= c.x /\ c.x <= b.x) \/ (a.x >= c.x /\ c.x >= b.x)
     ELSE (a.z <= c.z /\ c.z <= b.z) \/ (a.z >= c.z /\ c.z >= b.z)

Intersect(a, b, c, d) ==
  \/ IntersectProp(a, b, c, d)
  \/ OnSegment(a, b, c) \/ OnSegment(a, b, d) \/ OnSegment(c, d, a) \/ OnSegment(c, d, b)

InCone(verts, k, p) ==
  LET at == verts[k]
      next == verts[Ring(k + 1, Len(verts))]
      prev == verts[Ring(k - 1, Len(verts))]
  IN IF LeftOn(prev, at, next) THEN Left(at, p, prev) /\ Left(p, at, next)
     ELSE ~(LeftOn(at, p, next) /\ LeftOn(p, at, prev))

TwiceArea(verts) ==
  For(LAMBDA sum, k : LET a == verts[Ring(k - 1, Len(verts))]  b == verts[k]
                      IN sum + b.x * a.z - a.x * b.z, 0, 1, Len(verts))

-----------------------------------------------------------------------------
(* Holes *)

\* (area + 1) / 2 rounds towards zero: a contour wound backwards round one
\* cell counts as an outline.
IsHole(contour) == TwiceArea(contour.verts) + 1 <= -2

Leftmost(verts) == Extremes(verts)[1]

\* Does the diagonal from p to q meet an edge of a contour?  The edges at the
\* vertices of skip, and those that share an end with it, do not count.
Blocked(p, q, skip, verts, Meets(_, _, _, _)) ==
  \E k \in DOMAIN verts :
    LET k1 == Ring(k + 1, Len(verts))
        a == verts[k]  b == verts[k1]
    IN /\ {k, k1} \cap skip = {}
       /\ ~SamePlace(p, a) /\ ~SamePlace(q, a) /\ ~SamePlace(p, b) /\ ~SamePlace(q, b)
       /\ Meets(p, q, a, b)

\* The diagonals from a corner of a hole to the outline, the shortest first.
\* qsort may leave ties in any order; here the lower index is first.
Diagonals(outline, corner) ==
  LET cone == {k \in DOMAIN outline : InCone(outline, k, corner)}
      length(k) == Square(outline[k].x - corner.x) + Square(outline[k].z - corner.z)
      shorter(j, k) == length(j) < length(k) \/ (length(j) = length(k) /\ j < k)
      rank(k) == 1 + Cardinality({j \in cone : shorter(j, k)})
  IN [n \in 1..Cardinality(cone) |-> CHOOSE k \in cone : rank(k) = n]

FreeOf(outline, holes, i, corner, diags) ==
  LET skip == IF i \in DOMAIN diags THEN {diags[i]} ELSE {}
  IN {j \in DOMAIN diags :
        /\ ~Blocked(outline[diags[j]], corner, skip, outline, Intersect)
        /\ \A k \in i..Len(holes) :
             ~Blocked(outline[diags[j]], corner, {}, holes[k], Intersect)}
FirstFree(diags, free) == IF free = {} THEN 0 ELSE diags[Least(free)]
JoinBy(outline, holes, i, corner, diags) ==
  FirstFree(diags, FreeOf(outline, holes, i, corner, diags))
\* The vertex of the outline to join the corner to, 0 for none: the first
\* diagonal that crosses nothing.  The test passes over the edges at the vertex
\* of diagonal i, the number of the hole, where that of diagonal j was meant.
JoinAt(outline, holes, i, corner) ==
  JoinBy(outline, holes, i, corner, Diagonals(outline, corner))

\* Corner after corner of the hole, from its leftmost.
Join(outline, holes, i) ==
  LET hole == holes[i]
      try(best, tries) == [best |-> best, tries |-> tries,
                           at |-> JoinAt(outline, holes, i, hole[best])]
  IN While(LAMBDA w : try(Ring(w.best + 1, Len(hole)), w.tries - 1),
           LAMBDA w : w.at # 0 \/ w.tries = 1, try(Leftmost(hole), Len(hole)))

Closed(verts, k) == Append(RotatedTo(verts, k), verts[k])

\* A hole that cannot be joined stays a contour of its own.
JoinHole(w, hole, i, to) ==
  IF to.at = 0 THEN w
  ELSE [outline |-> Closed(w.outline, to.at) \o Closed(hole, to.best), joined |-> w.joined \cup {i}]
MergeHoles(outline, holes) ==
  For(LAMBDA w, i : JoinHole(w, holes[i], i, Join(w.outline, holes, i)),
      [outline |-> outline, joined |-> {}], 1, Len(holes))

\* The holes of a region from left to right, and its outline, the last found.
HolesOf(contours, r) ==
  LET holes == {k \in DOMAIN contours : contours[k].reg = r /\ IsHole(contours[k])}
      corner(k) == contours[k].verts[Leftmost(contours[k].verts)]
      before(j, k) == \/ Southwest(corner(j), corner(k))
                      \/ SamePlace(corner(j), corner(k)) /\ j < k
  IN [n \in 1..Cardinality(holes) |->
       CHOOSE k \in holes : Cardinality({j \in holes : before(j, k)}) = n - 1]
OutlinesOf(contours, r) ==
  {k \in DOMAIN contours : contours[k].reg = r /\ ~IsHole(contours[k])}

Replaced(contours, outline, holes, merged) ==
  LET gone == {holes[n] : n \in merged.joined}
  IN [k \in DOMAIN contours |->
       IF k = outline THEN [contours[k] EXCEPT !.verts = merged.outline]
       ELSE IF k \in gone THEN [contours[k] EXCEPT !.verts = <<>>] ELSE contours[k]]
MergeInto(contours, outline, holes) ==
  Replaced(contours, outline, holes,
           MergeHoles(contours[outline].verts, [n \in DOMAIN holes |-> contours[holes[n]].verts]))
MergeWithOne(contours, outlines, holes) ==
  IF holes = <<>> \/ outlines = {} THEN contours ELSE MergeInto(contours, Greatest(outlines), holes)
MergeRegionHoles(contours, r) ==
  MergeWithOne(contours, OutlinesOf(contours, r), HolesOf(contours, r))

BuildContours(chf, areas, regions) ==
  For(MergeRegionHoles, TracedContours(chf, areas, regions.reg), 1, regions.maxRegions)
=============================================================================
