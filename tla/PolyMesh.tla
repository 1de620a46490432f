------------------------------ MODULE PolyMesh ------------------------------
(***************************************************************************)
(* rcBuildPolyMesh, step 8 of the navigation mesh build: every contour is  *)
(* cut into triangles, the triangles are merged into convex polygons, and  *)
(* the polygons that share an edge are made neighbours.                    *)
(*                                                                         *)
(* The mesh is [verts, polys]; a polygon has its vertices in order, the    *)
(* region and area of its contour, and per edge the polygon beside it, 0   *)
(* for RC_MESH_NULL_IDX.  Without a border there are no border vertices:   *)
(* canRemoveVertex and removeVertex are never called.                      *)
(***************************************************************************)
EXTENDS Contours

CONSTANT MaxVertsPerPoly

-----------------------------------------------------------------------------
(* triangulate: ears are cut off, the shortest first *)

InConeLoose(verts, k, p) ==
  LET at == verts[k]
      next == verts[Ring(k + 1, Len(verts))]
      prev == verts[Ring(k - 1, Len(verts))]
  IN IF LeftOn(prev, at, next) THEN LeftOn(at, p, prev) /\ LeftOn(p, at, next)
     ELSE ~(LeftOn(at, p, next) /\ LeftOn(p, at, prev))

Diagonal(verts, i, j) ==
  InCone(verts, i, verts[j]) /\ ~Blocked(verts[i], verts[j], {i, j}, verts, Intersect)
DiagonalLoose(verts, i, j) ==
  InConeLoose(verts, i, verts[j]) /\ ~Blocked(verts[i], verts[j], {i, j}, verts, IntersectProp)

Length2(a, b) == Square(b.x - a.x) + Square(b.z - a.z)
\* The first k of a set whose value f(k) is the least.
FirstLeast(S, f(_)) == CHOOSE k \in S : \A j \in S : f(k) < f(j) \/ (f(k) = f(j) /\ k <= j)

\* What is left of a contour: the numbers of its vertices and their places,
\* and whether a vertex is an ear.
EarAt(w) ==
  LET n == Len(w.left)
      at(i, k) == w.places[Ring(i + k, n)]
      ears == {i \in 1..n : w.ear[Ring(i + 1, n)]}
      loose == {i \in 1..n : DiagonalLoose(w.places, i, Ring(i + 2, n))}
  IN IF ears # {} THEN FirstLeast(ears, LAMBDA i : Length2(at(i, 0), at(i, 2)))
     ELSE IF loose # {} THEN FirstLeast(loose, LAMBDA i : Length2(at(i, 0), at(i, 3)))
     ELSE 0

Triangle(w, i) == [k \in 1..3 |-> w.left[Ring(i + k - 1, Len(w.left))]]

EarsBeside(ear, places, before, after, n) ==
  [ear EXCEPT ![before] = Diagonal(places, Ring(before - 1, n), after),
              ![after] = Diagonal(places, before, Ring(after + 1, n))]
WithoutVertex(w, gone, places, after) ==
  [w EXCEPT !.left = Remove(@, gone), !.places = places,
            !.ear = EarsBeside(Remove(@, gone), places, Ring(after - 1, Len(places)), after,
                               Len(places))]
RemoveVertexAt(w, gone) ==
  WithoutVertex(w, gone, Remove(w.places, gone), IF gone = Len(w.left) THEN 1 ELSE gone)
CutEarAt(w, i) ==
  IF i = 0 THEN [w EXCEPT !.stuck = TRUE]
  ELSE [RemoveVertexAt(w, Ring(i + 1, Len(w.left))) EXCEPT !.tris = Append(@, Triangle(w, i))]
CutEar(w) == CutEarAt(w, EarAt(w))

\* The triangles, those found so far when no ear is left to cut.
TrianglesOf(w) == IF w.stuck THEN w.tris ELSE Append(w.tris, Triangle(w, 1))
Triangulate(verts) ==
  LET n == Len(verts)
      ear(i) == Diagonal(verts, Ring(i - 1, n), Ring(i + 1, n))
  IN TrianglesOf(While(CutEar, LAMBDA v : v.stuck \/ Len(v.left) = 3,
                       [left |-> AscendingFrom(n), places |-> verts, tris |-> <<>>,
                        stuck |-> FALSE, ear |-> [i \in 1..n |-> ear(i)]]))

-----------------------------------------------------------------------------
(* Merging triangles into polygons *)

ULeft(a, b, c) == Left(a, b, c)
EdgeFrom(p, k) == {p[k], p[Ring(k + 1, Len(p))]}

LastShared(both) ==
  IF both = {} THEN <<>>
  ELSE CHOOSE e \in both : \A f \in both : f[1] < e[1] \/ (f[1] = e[1] /\ f[2] >= e[2])
\* The edge two polygons share, the last of the first one; <<>> if none.
SharedEdge(pa, pb) ==
  LastShared({<<i, j>> \in (DOMAIN pa) \X (DOMAIN pb) : EdgeFrom(pa, i) = EdgeFrom(pb, j)})

\* Mutant: only one of the two corners of the merge is tested.
MergeValueOver_OneCorner(e, verts, pa, pb) ==
  LET a(k) == verts[pa[Ring(e[1] + k, Len(pa))]]
      b(k) == verts[pb[Ring(e[2] + k, Len(pb))]]
  IN IF \/ Len(pa) + Len(pb) - 2 > MaxVertsPerPoly \/ e = <<>> \/ ~ULeft(a(-1), a(0), b(2))
     THEN -1 ELSE Length2(a(0), a(1))

\* The squared length of the shared edge, -1 if the polygons may not merge.
MergeValueOver(e, verts, pa, pb) ==
  LET a(k) == verts[pa[Ring(e[1] + k, Len(pa))]]
      b(k) == verts[pb[Ring(e[2] + k, Len(pb))]]
  IN IF \/ Len(pa) + Len(pb) - 2 > MaxVertsPerPoly
        \/ e = <<>>
        \/ ~ULeft(a(-1), a(0), b(2))
        \/ ~ULeft(b(-1), b(0), a(2))
     THEN -1 ELSE Length2(a(0), a(1))
MergeValue(verts, pa, pb) == MergeValueOver(SharedEdge(pa, pb), verts, pa, pb)

MergedOver(e, pa, pb) ==
  [k \in 1..(Len(pa) + Len(pb) - 2) |->
    IF k < Len(pa) THEN pa[Ring(e[1] + k, Len(pa))]
    ELSE pb[Ring(e[2] + k - (Len(pa) - 1), Len(pb))]]
MergePolyVerts(pa, pb) == MergedOver(SharedEdge(pa, pb), pa, pb)

Pairs(polys) == {<<j, k>> \in (DOMAIN polys) \X (DOMAIN polys) : j < k}

BestPairs(value) ==
  {jk \in DOMAIN value : value[jk] > 0 /\ \A lm \in DOMAIN value : value[lm] <= value[jk]}
FirstPair(best) == CHOOSE jk \in best : \A lm \in best : jk[1] < lm[1] \/ (jk[1] = lm[1] /\ jk[2] <= lm[2])
MergePair(polys, pa, pb) ==
  LET last == Len(polys)
  IN SubSeq([polys EXCEPT ![pa] = MergePolyVerts(@, polys[pb]), ![pb] = polys[last]], 1, last - 1)
MergeAmong(w, best) ==
  IF best = {} THEN [w EXCEPT !.done = TRUE]
  ELSE [w EXCEPT !.polys = MergePair(@, FirstPair(best)[1], FirstPair(best)[2])]
\* The best pair is merged, the last polygon takes the place of the second.
MergeBest(verts, w) ==
  MergeAmong(w, BestPairs([jk \in Pairs(w.polys) |->
                            MergeValue(verts, w.polys[jk[1]], w.polys[jk[2]])]))

MergePolygons(verts, polys) ==
  IF MaxVertsPerPoly <= 3 THEN polys
  ELSE While(LAMBDA w : MergeBest(verts, w), LAMBDA w : w.done,
             [polys |-> polys, done |-> FALSE]).polys

-----------------------------------------------------------------------------
(* Vertices and contours *)

\* A vertex within two units of height of one already there is that one.
SameVertex(v, p) == v.x = p.x /\ v.z = p.z /\ v.y - p.y \in -2..2
AddVertex(w, p) ==
  LET same == {k \in DOMAIN w.verts : SameVertex(w.verts[k], p)}
  IN IF same # {} THEN [w EXCEPT !.index = Append(@, Greatest(same))]
     ELSE [verts |-> Append(w.verts, [x |-> p.x, y |-> p.y, z |-> p.z]),
           index |-> Append(w.index, Len(w.verts) + 1)]

ByIndex(tris, index) == [n \in DOMAIN tris |-> [k \in 1..3 |-> index[tris[n][k]]]]
RealTriangles(tris) == SelectSeq(tris, LAMBDA t : Cardinality({t[1], t[2], t[3]}) = 3)
OfContour(polys, contour) ==
  [n \in DOMAIN polys |-> [verts |-> polys[n], reg |-> contour.reg, area |-> contour.area]]
AddPolygons(mesh, contour, added) ==
  [verts |-> added.verts,
   polys |-> mesh.polys \o OfContour(
     MergePolygons(added.verts, ByIndex(RealTriangles(Triangulate(contour.verts)), added.index)),
     contour)]
AddContour(mesh, contour) ==
  IF Len(contour.verts) < 3 THEN mesh
  ELSE AddPolygons(mesh, contour,
                   ForEach(AddVertex, [verts |-> mesh.verts, index |-> <<>>], contour.verts))

-----------------------------------------------------------------------------
(* buildMeshAdjacency *)

EdgesOf(polys) ==
  ForEach(LAMBDA list, p :
    list \o [k \in DOMAIN polys[p].verts |->
              [poly |-> p, edge |-> k, from |-> polys[p].verts[k],
               to |-> polys[p].verts[Ring(k + 1, Len(polys[p].verts))]]],
    <<>>, AscendingFrom(Len(polys)))

\* An edge that runs backwards meets the last one the same way round that no
\* other polygon has met.
Meet(up, other, back) ==
  LET open == {k \in DOMAIN up : /\ up[k].from = back.to /\ up[k].to = back.from
                                 /\ other[k].poly = up[k].poly}
  IN IF open = {} THEN other ELSE [other EXCEPT ![Greatest(open)] = back]

Beyond(up, other, p, e) ==
  LET shared == {k \in DOMAIN up : other[k].poly # up[k].poly}
  IN {other[k].poly : k \in {k \in shared : up[k].poly = p /\ up[k].edge = e}}
     \cup {up[k].poly : k \in {k \in shared : other[k].poly = p /\ other[k].edge = e}}
WithNeighbours(polys, up, other) ==
  [p \in DOMAIN polys |->
    [verts |-> polys[p].verts, reg |-> polys[p].reg, area |-> polys[p].area,
     neis |-> [e \in DOMAIN polys[p].verts |->
                IF Beyond(up, other, p, e) = {} THEN 0 ELSE Least(Beyond(up, other, p, e))]]]
Pair(polys, up, down) ==
  WithNeighbours(polys, up, ForEach(LAMBDA o, back : Meet(up, o, back), up, down))
PairUp(polys, edges) ==
  Pair(polys, SelectSeq(edges, LAMBDA e : e.from < e.to), SelectSeq(edges, LAMBDA e : e.from > e.to))
BuildMeshAdjacency(polys) == PairUp(polys, EdgesOf(polys))

BuildPolyMesh(contours) ==
  [ForEach(AddContour, [verts |-> <<>>, polys |-> <<>>], contours)
     EXCEPT !.polys = BuildMeshAdjacency(@)]
=============================================================================
