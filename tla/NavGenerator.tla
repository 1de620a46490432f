---------------------------- MODULE NavGenerator ----------------------------
(***************************************************************************)
(* RecastNavMesh::Build of the NavGenerator tool: the stages of the        *)
(* navigation mesh build in the order in which Build calls them, each      *)
(* reading what the one before has left.  Build tests the results of two   *)
(* of the calls only.                                                      *)
(***************************************************************************)
EXTENDS Heightfield, PolyMesh

VARIABLES
  chf,        \* the compact heightfield as arrays (see Regions)
  areas,      \* chf.areas
  field,      \* chf.dist and chf.maxDistance
  regions,    \* the reg of each span, and chf.maxRegions
  contours,   \* rcContourSet
  pmesh       \* rcPolyMesh

vars == <<hfVars, chf, areas, field, regions, contours, pmesh>>

\* The arrays of the compact heightfield, row by row and from the lowest span
\* of a cell to the highest.
InOrder(cell) == [k \in 1..Cardinality(cell) |-> CHOOSE s \in cell : Layer(cell, s) = k - 1]

Listed(cells) ==
  For(LAMBDA list, k :
        LET c == <<k % Width, k \div Width>>
            row == InOrder(cells[c])
        IN list \o [l \in DOMAIN row |-> [cell |-> c, span |-> row[l]]],
      <<>>, 0, Width * Depth - 1)

CompactArrays ==
  LET list == Listed(compact)
      index == [p \in {<<list[i].cell, list[i].span>> : i \in DOMAIN list} |->
                 CHOOSE i \in DOMAIN list : <<list[i].cell, list[i].span>> = p]
      con(i, d) ==
        LET c == list[i].cell s == list[i].span
        IN IF Connected(c, s, d) THEN index[<<Beside(c, d), Neighbour(c, s, d)>>] ELSE 0
  IN [n |-> Len(list),
      cell |-> [i \in DOMAIN list |-> list[i].cell],
      y |-> [i \in DOMAIN list |-> list[i].span.y],
      con |-> [i \in DOMAIN list |-> [d \in Directions |-> con(i, d)]]]

Erode ==
  /\ step = "erode"
  /\ LET arrays == CompactArrays
     IN /\ chf' = arrays
        /\ areas' = ErodeWalkableArea(arrays, [i \in 1..arrays.n |-> RC_WALKABLE_AREA])
  /\ step' = "field"
  /\ UNCHANGED <<map, todo, columns, compact, field, regions, contours, pmesh>>

DistanceField ==
  /\ step = "field"
  /\ field' = BuildDistanceField(chf, areas)
  /\ step' = "regions"
  /\ UNCHANGED <<map, todo, columns, compact, chf, areas, regions, contours, pmesh>>

Partition ==
  /\ step = "regions"
  /\ regions' = BuildRegions(chf, areas, field)
  /\ step' = "contours"
  /\ UNCHANGED <<map, todo, columns, compact, chf, areas, field, contours, pmesh>>

Outlines ==
  /\ step = "contours"
  /\ contours' = BuildContours(chf, areas, regions)
  /\ step' = "polymesh"
  /\ UNCHANGED <<map, todo, columns, compact, chf, areas, field, regions, pmesh>>

\* A mesh without a polygon fails the build, and nothing is saved.
Polygons ==
  /\ step = "polymesh"
  /\ pmesh' = BuildPolyMesh(contours)
  /\ step' = IF pmesh'.polys = <<>> THEN "failed" ELSE "built"
  /\ UNCHANGED <<map, todo, columns, compact, chf, areas, field, regions, contours>>

NoArrays == [n |-> 0, cell |-> <<>>, y |-> <<>>, con |-> <<>>]

Init ==
  /\ HeightfieldInit
  /\ chf = NoArrays
  /\ areas = <<>>
  /\ field = [dist |-> <<>>, maxDistance |-> 0]
  /\ regions = [reg |-> <<>>, maxRegions |-> 0]
  /\ contours = <<>>
  /\ pmesh = [verts |-> <<>>, polys |-> <<>>]

Rasterise ==
  /\ HeightfieldNext
  /\ UNCHANGED <<chf, areas, field, regions, contours, pmesh>>

Next ==
  \/ Rasterise
  \/ Erode
  \/ DistanceField
  \/ Partition
  \/ Outlines
  \/ Polygons

Spec == Init /\ [][Next]_vars

-----------------------------------------------------------------------------
(* Properties *)

\* The elements reached from i through the successors next gives.
Closure(i, next(_)) ==
  While(LAMBDA w : LET new == UNION {next(j) : j \in w.new} \ w.all
                   IN [all |-> w.all \cup new, new |-> new],
        LAMBDA w : w.new = {}, [all |-> {i}, new |-> {i}]).all

Finished == step \in {"built", "failed"}
WalkableSpans == {i \in SpansOf(chf) : areas[i] # NULL_AREA}
Steps(i) == {Con(chf, i, d) : d \in DIRS} \ {0}
Ground(i) == Closure(i, LAMBDA j : Steps(j) \cap WalkableSpans)
RegionSpans(r) == {i \in SpansOf(chf) : regions.reg[i] = r}
RegionsUsed == {regions.reg[i] : i \in SpansOf(chf)} \ {0}

\* The walkable spans, divided into those that can be walked to from each other.
Patches ==
  While(LAMBDA w : LET p == Ground(Least(w.left))
                   IN [left |-> w.left \ p, all |-> w.all \cup {p}],
        LAMBDA w : w.left = {}, [left |-> WalkableSpans, all |-> {}]).all

\* rcBuildRegions gives a region to every span of a patch of ground that is as
\* large as minRegionArea, and to none of a smaller one, whatever the watershed
\* leaves on its stacks and however the regions are merged.  (On ground that is
\* nowhere three spans wide maxDistance is 0, the loop over the levels is not
\* entered and there are no regions at all.)
GroundIsKept ==
  step = "contours" /\ field.maxDistance > 0 =>
    \A patch \in Patches : \A i \in patch :
      regions.reg[i] # 0 <=> Cardinality(patch) >= MinRegionArea

\* The regions are what the documentation of rcBuildRegions says of them,
\* connected and not overlapping: the flood and the merging never take in two
\* floors of one column, and never leave a region in two parts.
RegionsAreSound ==
  step = "contours" =>
    \A r \in RegionsUsed :
      LET spans == RegionSpans(r)
      IN /\ spans = Closure(Least(spans), LAMBDA j : Steps(j) \cap spans)
         /\ Cardinality({chf.cell[i] : i \in spans}) = Cardinality(spans)

PolyPlaces(p) == [k \in DOMAIN p.verts |-> pmesh.verts[p.verts[k]]]
Convex(places) ==
  \A k \in DOMAIN places :
    LeftOn(places[k], places[Ring(k + 1, Len(places))], places[Ring(k + 2, Len(places))])
TotalArea(list, area(_), r) ==
  ForEach(LAMBDA sum, e : IF e.reg = r THEN sum + area(e) ELSE sum, 0, list)

\* The polygons of a region are convex, have at most nvp corners and cover as
\* much as its simplified outline less its holes: no ear that triangulate cuts
\* off and no merge loses ground or covers some twice, holes joined or not.
PolygonsFillOutlines ==
  Finished =>
    /\ \A n \in DOMAIN pmesh.polys :
         /\ Len(pmesh.polys[n].verts) \in 3..MaxVertsPerPoly
         /\ Convex(PolyPlaces(pmesh.polys[n]))
    /\ \A r \in RegionsUsed :
         TotalArea(pmesh.polys, LAMBDA p : TwiceArea(PolyPlaces(p)), r)
           = TotalArea(contours, LAMBDA c : TwiceArea(c.verts), r)

Neis(n) == {pmesh.polys[n].neis[e] : e \in DOMAIN pmesh.polys[n].neis} \ {0}
RegionOf(n) == pmesh.polys[n].reg
\* The regions that can be walked to from region r over the ground.
GroundRegions(r) == {regions.reg[i] : i \in Ground(Least(RegionSpans(r)))} \ {0}

\* A region by itself that is so narrow that its outline stays within the error
\* of the line between its two ends: simplified to these it has no polygon.
CornersOf(i) == {[x |-> chf.cell[i][1] + dx, z |-> chf.cell[i][2] + dz] : dx, dz \in {0, 1}}
Sliver(r) ==
  LET corners == UNION {CornersOf(i) : i \in RegionSpans(r)}
      end(Before(_, _)) == CHOOSE a \in corners : \A b \in corners \ {a} : Before(a, b)
      west == end(Southwest)
      east == end(LAMBDA a, b : Southwest(b, a))
  IN /\ GroundRegions(r) = {r}
     /\ \A p \in corners : ~Further(DistancePtSeg(p, west, east), MaxErrorSquared)

\* A path exists in the mesh exactly where one exists on the ground: every
\* region but a sliver has a polygon, and from a polygon the neighbours lead to all those of
\* the regions that can be walked to and to no other.  Each outline is
\* simplified on its own and each contour triangulated on its own: that the two
\* sides of a boundary still meet in the same edges is what this shows.
MeshConnectsGround ==
  Finished =>
    /\ {RegionOf(n) : n \in DOMAIN pmesh.polys} = {r \in RegionsUsed : ~Sliver(r)}
    /\ \A n \in DOMAIN pmesh.polys :
         /\ Closure(n, Neis)
              = {m \in DOMAIN pmesh.polys : RegionOf(m) \in GroundRegions(RegionOf(n))}
         /\ \A m \in Neis(n) : n \in Neis(m)
=============================================================================
