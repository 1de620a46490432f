---------------------------- MODULE DetourCommon ----------------------------
(***************************************************************************)
(* The geometry of DetourCommon.cpp and DetourCommon.h.  A point is        *)
(* [x, y, z] on a lattice of 5 cm and y is up; what the code rounds to a   *)
(* float, a projection or a height, is rounded here to the lattice.  The   *)
(* parameter of a ray is a fraction <<numerator, denominator>> and exact.  *)
(***************************************************************************)
EXTENDS Integers, Sequences, FiniteSets, Loops

Abs(n) == IF n < 0 THEN -n ELSE n
Clamp(v, low, high) == IF v < low THEN low ELSE IF v > high THEN high ELSE v
Rounded(n, d) == (2 * n + d) \div (2 * d)
NextOf(i, n) == IF i = n THEN 1 ELSE i + 1
FirstOf(S) == CHOOSE k \in S : \A j \in S : k <= j

Minus(p, q) == [x |-> p.x - q.x, y |-> p.y - q.y, z |-> p.z - q.z]
LengthSqr(v) == v.x * v.x + v.y * v.y + v.z * v.z
DistSqr(p, q) == LengthSqr(Minus(p, q))
DistSqr2D(p, q) == LengthSqr([Minus(p, q) EXCEPT !.y = 0])

\* The square root, rounded down: its bits, the highest first.
Root(n) ==
  ForEach(LAMBDA r, bit : IF (r + bit) * (r + bit) <= n THEN r + bit ELSE r, 0,
          <<2048, 1024, 512, 256, 128, 64, 32, 16, 8, 4, 2, 1>>)
\* In tenths of the lattice's unit.
Dist(p, q) == Root(100 * DistSqr(p, q))

\* dtVlerp: n / d of the way from p to q.
Lerp(p, q, n, d) ==
  LET to == Minus(q, p)
  IN [x |-> p.x + Rounded(to.x * n, d), y |-> p.y + Rounded(to.y * n, d),
      z |-> p.z + Rounded(to.z * n, d)]

Perp2D(u, v) == u.z * v.x - u.x * v.z
TriArea2D(a, b, c) == (c.x - a.x) * (b.z - a.z) - (b.x - a.x) * (c.z - a.z)

ClosestAlong(p, q, pq, to, d) ==
  IF d = 0 THEN p ELSE Lerp(p, q, Clamp(pq.x * to.x + pq.z * to.z, 0, d), d)
\* dtDistancePtSegSqr2D: the point of p..q nearest to pt on the ground plan.
ClosestOnSeg(pt, p, q) == ClosestAlong(p, q, Minus(q, p), Minus(pt, p), DistSqr2D(p, q))

-----------------------------------------------------------------------------
(* Polygons: sequences of points; edge k goes from the k-th to the next *)

\* The line from pt towards +x crosses the edge vj..vi.
Crosses(pt, vi, vj) ==
  LET rise == vj.z - vi.z
      side == (pt.x - vi.x) * rise - (vj.x - vi.x) * (pt.z - vi.z)
  IN (vi.z > pt.z) # (vj.z > pt.z) /\ (IF rise > 0 THEN side < 0 ELSE side > 0)

PointInPolygon(pt, vs) ==
  Cardinality({k \in DOMAIN vs : Crosses(pt, vs[NextOf(k, Len(vs))], vs[k])}) % 2 = 1

NearestTo(pt, on) ==
  on[FirstOf({k \in DOMAIN on : \A j \in DOMAIN on : DistSqr2D(pt, on[k]) <= DistSqr2D(pt, on[j])})]
\* The point of the polygon's boundary nearest to pt on the ground plan.
ClosestOnBoundary(pt, vs) ==
  NearestTo(pt, [k \in DOMAIN vs |-> ClosestOnSeg(pt, vs[k], vs[NextOf(k, Len(vs))])])

\* The triangle's height above p, <<>> if p is not over it: p is at u / denom of
\* the way v0 and at v / denom of v1.
Sign(n) == IF n < 0 THEN -1 ELSE 1
HeightAt(y, v0, v1, u, v, denom) ==
  IF denom = 0 \/ u < 0 \/ v < 0 \/ u + v > denom THEN <<>>
  ELSE <<y + Rounded(v0.y * u + v1.y * v, denom)>>
HeightAlong(y, v0, v1, v2, denom) ==
  HeightAt(y, v0, v1, Sign(denom) * Perp2D(v1, v2), Sign(denom) * Perp2D(v2, v0), Abs(denom))
HeightFrom(y, v0, v1, v2) == HeightAlong(y, v0, v1, v2, Perp2D(v1, v0))
HeightOnTriangle(p, a, b, c) == HeightFrom(a.y, Minus(c, a), Minus(b, a), Minus(p, a))

Less(s, t) == s[1] * t[2] < t[1] * s[2]

\* A line crosses that of an edge at the fraction t, inwards where d < 0 and
\* outwards where d > 0; it is parallel to the edge where d = 0.
Cut(n, d) == [n |-> n, d |-> d, t |-> IF d < 0 THEN <<-n, -d>> ELSE <<n, d>>]
CutBy(p0, p1, from, edge) == Cut(Perp2D(edge, Minus(p0, from)), Perp2D(Minus(p1, p0), edge))
SegMax(cuts, leaves) ==
  LET least == {j \in leaves : \A k \in leaves : ~Less(cuts[k].t, cuts[j].t)}
  IN IF leaves = {} THEN 0 ELSE IF Len(cuts) \in least THEN Len(cuts) ELSE FirstOf(least)
PartInside(cuts, segMax, tmax) ==
  [meets |-> /\ ~Less(tmax, <<0, 1>>)
             /\ \A j \in DOMAIN cuts :
                  IF cuts[j].d = 0 THEN cuts[j].n >= 0 ELSE cuts[j].d < 0 => ~Less(tmax, cuts[j].t),
   tmax |-> tmax, segMax |-> segMax]
PartUpTo(cuts, segMax) == PartInside(cuts, segMax, IF segMax = 0 THEN <<1, 1>> ELSE cuts[segMax].t)
PartBetween(cuts) ==
  PartUpTo(cuts, SegMax(cuts, {j \in DOMAIN cuts : cuts[j].d > 0 /\ Less(cuts[j].t, <<1, 1>>)}))
\* dtIntersectSegmentPoly2D: the part of p0..p1 inside the polygon ends at the
\* fraction tmax, where it leaves over the edge segMax; 0 if it does not leave.
IntersectSegmentPoly2D(p0, p1, vs) ==
  PartBetween([j \in DOMAIN vs |-> CutBy(p0, p1, vs[j], Minus(vs[NextOf(j, Len(vs))], vs[j]))])
=============================================================================
