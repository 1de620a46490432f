---------------------------- MODULE NavMeshQuery ----------------------------
(***************************************************************************)
(* The queries of dtNavMeshQuery that run to their end in one call: the    *)
(* nearest polygon, the portal between two polygons, the straight path     *)
(* through a corridor of polygons, a ray along the ground, and a random    *)
(* point.  findPath is the state machine of PathSearch.                    *)
(***************************************************************************)
EXTENDS NavMesh

CONSTANTS PathLimit, RayLimit  \* the 256 entries of the callers' buffers
ASSUME PathLimitAssumption == PathLimit \in Nat \ {0, 1} /\ RayLimit \in Nat \ {0}

-----------------------------------------------------------------------------
(* findNearestPoly *)

\* queryPolygons: the tile takes part if the search box touches it, by the tile
\* numbers of the box's corners; height is no part of that.
TouchesTile(tile, qmin, qmax) ==
  /\ qmin.x < tile.bmax.x /\ qmax.x >= tile.bmin.x
  /\ qmin.z < tile.bmax.z /\ qmax.z >= tile.bmin.z

\* The search box clamped to the tile and widened to even and odd places.
QuantBox(tile, qmin, qmax) ==
  LET q(p, axis) == (Clamp(p[axis], tile.bmin[axis], tile.bmax[axis]) - tile.bmin[axis]) \div CellSize
      low(axis) == q(qmin, axis) - (q(qmin, axis) % 2)
      high(axis) == q(qmax, axis) + 1 + (q(qmax, axis) % 2)
  IN Box([axis \in {"x", "y", "z"} |-> low(axis)], [axis \in {"x", "y", "z"} |-> high(axis)])
Overlap(a, b) == \A axis \in {"x", "y", "z"} : a.min[axis] <= b.max[axis] /\ b.min[axis] <= a.max[axis]

\* queryPolygonsInTile: a node that is no leaf and does not overlap is left with
\* all that is below it.
VisitNode(tree, box, w) ==
  LET node == tree[w.node]
      overlap == Overlap(box, node.box)
  IN [node |-> IF overlap \/ node.i > 0 THEN w.node + 1 ELSE w.node - node.i,
      refs |-> IF overlap /\ node.i > 0 THEN Append(w.refs, node.i) ELSE w.refs]

QueryPolygonsInTile(tile, box) ==
  While(LAMBDA w : VisitNode(tile.bvTree, box, w), LAMBDA w : w.node > Len(tile.bvTree),
        [node |-> 1, refs |-> <<>>]).refs

\* dtFindNearestPolyQuery: over a polygon only the height beyond the climb counts.
Nearness(center, on) ==
  LET over == Abs(center.y - on.point.y) - WalkableClimb
  IN IF ~on.over THEN DistSqr(center, on.point) ELSE IF over > 0 THEN over * over ELSE 0
NearerAt(best, ref, on, d) ==
  IF best.ref = 0 \/ d < best.d THEN [ref |-> ref, point |-> on.point, d |-> d] ELSE best
NearerOn(center, best, ref, on) == NearerAt(best, ref, on, Nearness(center, on))
Nearer(tile, center, best, ref) ==
  NearerOn(center, best, ref, ClosestPointOnPoly(tile, ref, center))

\* The nearest polygon and the point on it; the reference is 0 if no box of the
\* tree overlaps the search box.
FindNearestPoly(tile, center, extents) ==
  LET qmin == Minus(center, extents)
      qmax == [x |-> center.x + extents.x, y |-> center.y + extents.y, z |-> center.z + extents.z]
      none == [ref |-> 0, point |-> center, d |-> 0]
  IN IF tile = NoTile \/ ~TouchesTile(tile, qmin, qmax) THEN none
     ELSE ForEach(LAMBDA best, ref : Nearer(tile, center, best, ref), none,
                  QueryPolygonsInTile(tile, QuantBox(tile, qmin, qmax)))

-----------------------------------------------------------------------------
(* getPortalPoints and getEdgeMidPoint *)

LinksTo(tile, from, to) == {k \in DOMAIN tile.links[from] : tile.links[from][k].ref = to}
PortalOver(vs, edge) == [left |-> vs[edge], right |-> vs[NextOf(edge, Len(vs))]]
Portal(tile, from, to) ==
  PortalOver(Outline(tile, from), tile.links[from][FirstOf(LinksTo(tile, from, to))].edge)
Middle(portal) == Lerp(portal.left, portal.right, 1, 2)
EdgeMidPoint(tile, from, to) == Middle(Portal(tile, from, to))

-----------------------------------------------------------------------------
(* findStraightPath: the funnel between the left and the right portal ends *)

\* closestPointOnPolyBoundary: the height is not corrected inside the polygon.
ClosestPointOnPolyBoundary(tile, ref, pos) ==
  LET vs == Outline(tile, ref)
  IN IF PointInPolygon(pos, vs) THEN pos ELSE ClosestOnBoundary(pos, vs)

\* appendVertex: a point twice in a row is stored once; the search is over when
\* the buffer is full and when the end is stored.
AppendVertex(w, pos, isEnd) ==
  LET again == w.points # <<>> /\ w.points[Len(w.points)] = pos
      points == IF again THEN w.points ELSE Append(w.points, pos)
  IN [w EXCEPT !.points = points, !.done = ~again /\ (Len(points) >= PathLimit \/ isEnd)]

\* Mutant: the search for the next corner goes on where this one was found.
MoveApex_GoOn(w, corner, index, isEnd) ==
  [AppendVertex(w, corner, isEnd) EXCEPT
     !.apex = corner, !.left = corner, !.right = corner,
     !.leftIndex = index, !.rightIndex = index, !.i = w.i + 1]

\* The apex moves to a corner and the funnel starts again from its portal.
MoveApex(w, corner, index, isEnd) ==
  [AppendVertex(w, corner, isEnd) EXCEPT
     !.apex = corner, !.left = corner, !.right = corner,
     !.leftIndex = index, !.rightIndex = index, !.i = index + 1]

NarrowLeft(w, n, left) ==
  IF TriArea2D(w.apex, w.left, left) < 0 THEN [w EXCEPT !.i = @ + 1]
  ELSE IF w.apex = w.left \/ TriArea2D(w.apex, w.right, left) < 0
       THEN [w EXCEPT !.left = left, !.leftIndex = w.i, !.leftIsEnd = (w.i = n), !.i = @ + 1]
  ELSE MoveApex(w, w.right, w.rightIndex, w.rightIsEnd)

NarrowRight(w, n, right) ==
  IF TriArea2D(w.apex, w.right, right) > 0 THEN w
  ELSE [w EXCEPT !.right = right, !.rightIndex = w.i, !.rightIsEnd = (w.i = n)]

ThroughPortal(portal, n, w) ==
  LET atPortal == DistSqr2D(w.apex, ClosestOnSeg(w.apex, portal.left, portal.right)) = 0
      crossed == /\ TriArea2D(w.apex, w.right, portal.right) <= 0
                 /\ w.apex # w.right /\ TriArea2D(w.apex, w.left, portal.right) <= 0
  IN IF w.i = 1 /\ n > 1 /\ atPortal THEN [w EXCEPT !.i = 2]
     ELSE IF crossed THEN MoveApex(w, w.left, w.leftIndex, w.leftIsEnd)
     ELSE NarrowLeft(NarrowRight(w, n, portal.right), n, portal.left)

FunnelStep(tile, path, end, w) ==
  ThroughPortal(IF w.i < Len(path) THEN Portal(tile, path[w.i], path[w.i + 1])
                ELSE [left |-> end, right |-> end], Len(path), w)

FunnelFrom(start) ==
  [points |-> <<start>>, done |-> FALSE, apex |-> start, left |-> start, right |-> start,
   leftIndex |-> 1, rightIndex |-> 1, leftIsEnd |-> FALSE, rightIsEnd |-> FALSE, i |-> 1]
PathTo(end, w) == IF w.done THEN w.points ELSE AppendVertex(w, end, TRUE).points
PathBetween(tile, path, start, end) ==
  PathTo(end, While(LAMBDA v : FunnelStep(tile, path, end, v),
                    LAMBDA v : v.done \/ v.i > Len(path) \/ Len(path) = 1, FunnelFrom(start)))
StraightPath(tile, startPos, endPos, path) ==
  PathBetween(tile, path, ClosestPointOnPolyBoundary(tile, path[1], startPos),
              ClosestPointOnPolyBoundary(tile, path[Len(path)], endPos))

-----------------------------------------------------------------------------
(* raycast: along the ground plan; heights do not count *)

\* Mutant: the ray goes on over a polygon's first link whatever edge it leaves by.
GoOn_FirstLink(tile, w, at) ==
  LET path == Append(w.path, w.ref)
  IN IF ~at.meets THEN [w EXCEPT !.ref = 0]
     ELSE IF at.segMax = 0 THEN [ref |-> 0, t |-> <<1, 0>>, path |-> path]
     ELSE [ref |-> IF Len(path) >= RayLimit THEN 0 ELSE tile.links[w.ref][1].ref,
           t |-> at.tmax, path |-> path]

\* The ray ends in a polygon, meets a wall, or goes on beyond the edge it leaves
\* by.  A fraction of <<1, 0>> is FLT_MAX: nothing was hit.
GoOn(tile, w, at) ==
  LET t == IF Less(w.t, at.tmax) THEN at.tmax ELSE w.t
      full == Len(w.path) >= RayLimit
      path == IF full THEN w.path ELSE Append(w.path, w.ref)
      over == {k \in DOMAIN tile.links[w.ref] : tile.links[w.ref][k].edge = at.segMax}
  IN IF ~at.meets THEN [w EXCEPT !.ref = 0]
     ELSE IF at.segMax = 0 THEN [ref |-> 0, t |-> <<1, 0>>, path |-> path]
     ELSE [ref |-> IF over = {} \/ full THEN 0 ELSE tile.links[w.ref][FirstOf(over)].ref,
           t |-> t, path |-> path]

RayStep(tile, startPos, endPos, w) ==
  GoOn(tile, w, IntersectSegmentPoly2D(startPos, endPos, Outline(tile, w.ref)))

Raycast(tile, startRef, startPos, endPos) ==
  While(LAMBDA w : RayStep(tile, startPos, endPos, w), LAMBDA w : w.ref = 0,
        [ref |-> startRef, t |-> <<0, 1>>, path |-> <<>>])

-----------------------------------------------------------------------------
(* findRandomPoint: any point of any polygon, by the dice it is given *)

RandomPoints(tile, points) ==
  {ClosestPointOnPoly(tile, ref, p).point :
     <<ref, p>> \in {<<ref, p>> \in Polys(tile) \X points : PointInPolygon(p, Outline(tile, ref))}}
=============================================================================
