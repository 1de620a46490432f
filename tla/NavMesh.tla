------------------------------- MODULE NavMesh -------------------------------
(***************************************************************************)
(* The navigation mesh as the server holds it: the tile that               *)
(* dtCreateNavMeshData makes of a polygon mesh, and the links addTile      *)
(* gives its polygons.  The program builds one tile of one layer and no    *)
(* off-mesh connections, never removes the tile, and marks every polygon   *)
(* with the flag the filter asks for: a polygon's reference is its number  *)
(* in the tile and 0 refers to none.                                       *)
(*                                                                         *)
(* The detail mesh is not modelled.  In its place a polygon is cut into    *)
(* the fan of triangles of its first vertex, which lie one cell height     *)
(* lower in the tile than in the detail mesh the bounds are taken from.    *)
(***************************************************************************)
EXTENDS DetourCommon, TLC

CONSTANTS
  CellSize, CellHeight,  \* cs and ch
  WalkableClimb,         \* params.walkableClimb
  MaxVertsPerPoly,       \* nvp
  MaxQuant               \* 0xffff, the largest place in the bounding volume tree

NoTile == [polys |-> <<>>]

-----------------------------------------------------------------------------
(* createBVTree: bounding boxes in units of cs, on all three axes *)

Least(S) == CHOOSE v \in S : \A w \in S : v <= w
Greatest(S) == CHOOSE v \in S : \A w \in S : v >= w
Box(low, high) == [min |-> low, max |-> high]
Hull(mins, maxs) ==
  Box([x |-> Least({p.x : p \in mins}), y |-> Least({p.y : p \in mins}), z |-> Least({p.z : p \in mins})],
      [x |-> Greatest({p.x : p \in maxs}), y |-> Greatest({p.y : p \in maxs}),
       z |-> Greatest({p.z : p \in maxs})])

Quant(p, origin) ==
  LET q(v) == Clamp(v \div CellSize, 0, MaxQuant)
      from == Minus(p, origin)
  IN [x |-> q(from.x), y |-> q(from.y), z |-> q(from.z)]
Lifted(p) == [p EXCEPT !.y = @ + CellHeight]
Item(vs, origin, i) ==
  LET ps == {Quant(Lifted(vs[k]), origin) : k \in DOMAIN vs}
  IN [box |-> Hull(ps, ps), i |-> i]

\* Mutant: the last of the boxes is left out.
CalcExtends_LessOne(items) ==
  LET n == Greatest({1, Len(items) - 1})
  IN Hull({items[k].box.min : k \in 1..n}, {items[k].box.max : k \in 1..n})

CalcExtends(items) ==
  Hull({items[k].box.min : k \in DOMAIN items}, {items[k].box.max : k \in DOMAIN items})

LongestAxis(box) ==
  LET d == Minus(box.max, box.min)
  IN IF d.z > Greatest({d.x, d.y}) THEN "z" ELSE IF d.y > d.x THEN "y" ELSE "x"

\* The tree in the order of its nodes; a node that is no leaf has the number
\* of its nodes, negative, where a leaf has its polygon.
Subdivide[items \in Seq([box : [min : [x : Nat, y : Nat, z : Nat], max : [x : Nat, y : Nat, z : Nat]],
                         i : Nat])] ==
  IF Len(items) = 1 THEN items
  ELSE LET box == CalcExtends(items)
           axis == LongestAxis(box)
           sorted == SortSeq(items, LAMBDA a, b : a.box.min[axis] < b.box.min[axis])
           split == Len(items) \div 2
           below == Subdivide[SubSeq(sorted, 1, split)]
                      \o Subdivide[SubSeq(sorted, split + 1, Len(items))]
       IN <<[box |-> box, i |-> -(Len(below) + 1)]>> \o below

\* There is room for twice as many nodes as polygons and the tree has one less:
\* the last node is what memset left, a leaf for the first polygon.
Unused == [box |-> Box([x |-> 0, y |-> 0, z |-> 0], [x |-> 0, y |-> 0, z |-> 0]), i |-> 1]
CreateBVTree(outlines, origin) ==
  Append(Subdivide[[i \in DOMAIN outlines |-> Item(outlines[i], origin, i)]], Unused)

-----------------------------------------------------------------------------
(* dtCreateNavMeshData *)

Place(v, origin) ==
  [x |-> origin.x + v.x * CellSize, y |-> origin.y + v.y * CellHeight, z |-> origin.z + v.z * CellSize]
Outline(tile, i) == tile.polys[i].verts
Polys(tile) == DOMAIN tile.polys

Edges(tile) == {<<i, j>> \in Polys(tile) \X (1..MaxVertsPerPoly) : j \in DOMAIN tile.polys[i].verts}
Internal(tile) == {e \in Edges(tile) : tile.polys[e[1]].neis[e[2]] # 0}

\* A polygon of the mesh has its vertices by number, one of the tile has them in
\* place; per edge there is the polygon beyond it, 0 at a border.
CreateNavMeshData(mesh) ==
  LET corners(p) == [k \in DOMAIN p.verts |-> Place(mesh.verts[p.verts[k]], mesh.bmin)]
      tile == [bmin |-> mesh.bmin, bmax |-> mesh.bmax,
               polys |-> [i \in DOMAIN mesh.polys |->
                            [verts |-> corners(mesh.polys[i]), neis |-> mesh.polys[i].neis]]]
  IN IF mesh.verts = <<>> \/ mesh.polys = <<>> THEN NoTile
     ELSE [bvTree |-> CreateBVTree([i \in Polys(tile) |-> Outline(tile, i)], mesh.bmin),
           maxLinkCount |-> Cardinality(Edges(tile))] @@ tile

-----------------------------------------------------------------------------
(* addTile *)

\* The links are taken from the tile's pool polygon by polygon, the last edge of
\* a polygon first; an edge that finds the pool empty goes without.
TakenBefore(tile, e) ==
  {f \in Internal(tile) : f[1] < e[1] \/ (f[1] = e[1] /\ f[2] > e[2])}
Linked(tile, e) == e \in Internal(tile) /\ Cardinality(TakenBefore(tile, e)) < tile.maxLinkCount

\* A polygon's list has its links from the lowest edge to the highest.
ConnectIntLinks(tile) ==
  [i \in Polys(tile) |->
     [k \in DOMAIN SelectSeq([j \in DOMAIN tile.polys[i].verts |-> j], LAMBDA j : Linked(tile, <<i, j>>)) |->
       LET edge == SelectSeq([j \in DOMAIN tile.polys[i].verts |-> j],
                             LAMBDA j : Linked(tile, <<i, j>>))[k]
       IN [ref |-> tile.polys[i].neis[edge], edge |-> edge]]]
AddTile(tile) == [links |-> ConnectIntLinks(tile)] @@ tile

\* isValidPolyRef
Valid(tile, ref) == ref \in Polys(tile)

-----------------------------------------------------------------------------
(* The surface of a polygon *)

FirstHeight(on) ==
  LET over == {k \in DOMAIN on : on[k] # <<>>}
  IN IF over = {} THEN <<>> ELSE on[FirstOf(over)]
HeightInOutline(vs, pos) ==
  IF ~PointInPolygon(pos, vs) THEN <<>>
  ELSE FirstHeight([k \in 2..(Len(vs) - 1) |-> HeightOnTriangle(pos, vs[1], vs[k], vs[k + 1])])
\* getPolyHeight: <<>> when pos is not over the polygon.
PolyHeight(tile, ref, pos) == HeightInOutline(Outline(tile, ref), pos)

ClosestAt(height, vs, pos) ==
  IF height # <<>> THEN [over |-> TRUE, point |-> [pos EXCEPT !.y = height[1]]]
  ELSE [over |-> FALSE, point |-> ClosestOnBoundary(pos, vs)]
ClosestPointOnPoly(tile, ref, pos) ==
  ClosestAt(PolyHeight(tile, ref, pos), Outline(tile, ref), pos)
=============================================================================
