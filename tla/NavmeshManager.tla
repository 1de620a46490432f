--------------------------- MODULE NavmeshManager ---------------------------
(***************************************************************************)
(* The server's use of the navigation mesh, NavmeshManager.cpp: the file   *)
(* the generator saved is loaded, a monster's path is searched step by     *)
(* step, and a player's move, a shot and a place to appear are decided by  *)
(* one query.  All of it happens in the jobs of one room: nothing else     *)
(* runs while a search goes on.                                            *)
(*                                                                         *)
(* Positions are the game's, [x, y, z] with z up; the mesh's have y up.    *)
(***************************************************************************)
EXTENDS NavMeshQuery, PathSearch

CONSTANTS
  Meshes,      \* the polygon meshes a saved file may hold
  NodeLimits,  \* 2048 in the code
  Points,      \* places, of the mesh or off it, characters may be at or go to
  Heights,     \* a client may say it is at, besides those of the floors
  Reach,       \* of findNearestPoly: 100, 200, 100
  ShotReach,   \* 50, 100, 50
  MapReach,    \* 200, 400, 200
  Tolerance,   \* of CanMove: 100
  MapCellSize  \* CELL_SIZE of GameMap

VARIABLES
  navQuery,  \* a file has been loaded
  grid,      \* GameMap's bounds
  position,  \* of the character the room's jobs are about; <<>> before it has one
  answer     \* what FindPath gave: the corridor of polygons and the path's points

vars == <<navMesh, maxNodes, navQuery, grid, position, answer, searchVars>>

NoAnswer == [corridor |-> <<>>]
Elements(s) == {s[k] : k \in DOMAIN s}
NoGrid == [minX |-> 0, maxX |-> 0, minY |-> 0, maxY |-> 0]

UeToDetour(p) == [x |-> p.y, y |-> p.z, z |-> -p.x]
DetourToUe(p) == [x |-> -p.z, y |-> p.x, z |-> p.y]

Nearest(p, reach) == FindNearestPoly(navMesh, UeToDetour(p), reach)

-----------------------------------------------------------------------------
(* LoadNavMesh and LoadMapData *)

\* SaveNavMeshBinary: nothing is saved when dtCreateNavMeshData has failed.
SavedFiles == {m \in Meshes : CreateNavMeshData(m) # NoTile}

\* The bounds of the tile in the game's axes, a cell wider on each side.
GridOf(tile) ==
  [minX |-> -tile.bmax.z - MapCellSize, maxX |-> -tile.bmin.z + MapCellSize,
   minY |-> tile.bmin.x - MapCellSize, maxY |-> tile.bmax.x + MapCellSize]

Load ==
  /\ navQuery = FALSE /\ navQuery' = TRUE
  /\ \E m \in SavedFiles : navMesh' = AddTile(CreateNavMeshData(m))
  /\ maxNodes' \in NodeLimits
  /\ grid' = GridOf(navMesh')
  /\ UNCHANGED <<position, answer, searchVars>>

-----------------------------------------------------------------------------
(* The queries of one call *)

IsOutOfBounds(p) == ~navQuery \/ Nearest(p, MapReach).ref = 0

\* The ray from the mesh below a position towards another, and where it ends.
Ray(near, to) == Raycast(navMesh, near.ref, near.point, UeToDetour(to))
Clear(ray) == ray.t[1] >= ray.t[2]

\* Mutant: a move that a wall cuts short is accepted wherever it was to end.
CanMove_NoWalls(from, to) == navQuery /\ Nearest(from, Reach).ref # 0

\* A move that is cut short may still end near enough to where it was to.
NearEnough(near, ray, end) ==
  IF Clear(ray) THEN TRUE
  ELSE DistSqr(Lerp(near.point, end, ray.t[1], ray.t[2]), end) < Tolerance * Tolerance
CanMoveFrom(near, to) == near.ref # 0 /\ NearEnough(near, Ray(near, to), UeToDetour(to))
CanMove(from, to) == navQuery /\ CanMoveFrom(Nearest(from, Reach), to)

\* The method RayCast: for a shot, 95 of 100 parts of the way are enough.
FarEnough(ray) == 100 * ray.t[1] >= 95 * ray.t[2]
ShotHitsFrom(near, to) == near.ref # 0 /\ FarEnough(Ray(near, to))
ShotHits(from, to) == navQuery /\ ShotHitsFrom(Nearest(from, ShotReach), to)

\* GetRandomPosition, where a dummy appears; a spawn point that is out of bounds
\* is reported and used all the same.
Appear ==
  /\ navQuery /\ position = <<>>
  /\ \E p \in RandomPoints(navMesh, {UeToDetour(q) : q \in Points}) : position' = <<DetourToUe(p)>>
  /\ UNCHANGED <<navMesh, maxNodes, navQuery, grid, answer, searchVars>>

\* A client says where it is, on any floor there or at a height that no floor has.
Floors(p) == UNION {Elements(PolyHeight(navMesh, ref, UeToDetour(p))) : ref \in Polys(navMesh)}
Places(p) == {[p EXCEPT !.z = h] : h \in Floors(p) \cup Heights}

\* PlayerMove: the position is taken over if CanMove accepts it; if not, the client
\* is told where it is.
PlayerMove ==
  /\ phase = "idle" /\ position # <<>>
  /\ \E p \in Points : \E to \in Places(p) :
       position' = IF CanMove(position[1], to) THEN <<to>> ELSE position
  /\ UNCHANGED <<navMesh, maxNodes, navQuery, grid, answer, searchVars>>

-----------------------------------------------------------------------------
(* FindPath, from the character to another one's place *)

Answer(corridor, from, to) ==
  [corridor |-> corridor, from |-> from, to |-> to,
   points |-> StraightPath(navMesh, from.point, to.point, corridor)]

\* The ends are in one polygon: findPath answers at once.
FindPathInPolygon(from, to) ==
  /\ from.ref = to.ref
  /\ SkipSearch /\ answer' = Answer(<<from.ref>>, from, to)

FindPathBeyond(from, to) ==
  /\ from.ref # to.ref
  /\ BeginSearch(from, to)
  /\ UNCHANGED answer

FindPathFrom(from, to) ==
  /\ from.ref # 0 /\ to.ref # 0
  /\ FindPathInPolygon(from, to) \/ FindPathBeyond(from, to)

FindPath ==
  /\ navQuery /\ phase = "idle" /\ position # <<>>
  /\ \E p \in Points : \E place \in Places(p) :
       FindPathFrom(Nearest(position[1], Reach), Nearest(place, Reach))
  /\ UNCHANGED <<navMesh, maxNodes, navQuery, grid, position>>

Search ==
  /\ SearchStep \/ EndSearch
  /\ UNCHANGED <<navMesh, maxNodes, navQuery, grid, position, answer>>

\* The corridor is made straight.  Nobody looks at the status: a corridor to the
\* polygon nearest to the goal is answered like one to the goal.
Straighten ==
  /\ phase = "ended" /\ answer = NoAnswer
  /\ answer' = Answer(PathToNode(nodes, lastBest.node), query.from, query.to)
  /\ UNCHANGED <<navMesh, maxNodes, navQuery, grid, position, searchVars>>

Return ==
  /\ answer # NoAnswer
  /\ ClearSearch /\ answer' = NoAnswer
  /\ UNCHANGED <<navMesh, maxNodes, navQuery, grid, position>>

-----------------------------------------------------------------------------
Init ==
  /\ navMesh = NoTile /\ maxNodes = 0 /\ navQuery = FALSE
  /\ grid = NoGrid /\ position = <<>> /\ answer = NoAnswer /\ SearchInit
Next == Load \/ Appear \/ PlayerMove \/ FindPath \/ Search \/ Straighten \/ Return
Spec == Init /\ [][Next]_vars

-----------------------------------------------------------------------------
(* Properties *)

\* Over one of these polygons, a rounding aside.
Over(p, refs) ==
  \E ref \in refs :
    LET vs == Outline(navMesh, ref)
    IN PointInPolygon(p, vs) \/ DistSqr2D(p, ClosestOnBoundary(p, vs)) <= 2
AllOver(p, q, refs) == \A k \in 0..8 : Over(Lerp(p, q, k, 8), refs)
WayLength(s) == For(LAMBDA sum, k : sum + Dist(s[k], s[k + 1]), 0, 1, Len(s) - 1)

\* The path FindPath returns starts at the monster, does not leave the corridor
\* between its points, and is no longer than the way through the portals' middles.
StraightPathIsTaut ==
  LET c == answer.corridor
      s == answer.points
      middles == <<s[1]>> \o [k \in 1..(Len(c) - 1) |-> EdgeMidPoint(navMesh, c[k], c[k + 1])]
                   \o <<s[Len(s)]>>
  IN answer # NoAnswer =>
       /\ s[1] = ClosestPointOnPolyBoundary(navMesh, c[1], answer.from.point)
       /\ \A k \in 1..(Len(s) - 1) : AllOver(s[k], s[k + 1], Elements(c))
       /\ Len(s) < PathLimit => WayLength(s) <= WayLength(middles) + 10 * Len(s)

\* The tree of boxes loses nothing: no polygon with a point in the search box is
\* nearer than the one findNearestPoly finds.
InBox(p, center, reach) ==
  \A axis \in {"x", "y", "z"} : Abs(p[axis] - center[axis]) <= reach[axis]
NotNearer(on, near, center, reach) ==
  InBox(on.point, center, reach) => near.ref # 0 /\ near.d <= Nearness(center, on)
NothingNearer(near, center, reach) ==
  \A ref \in Polys(navMesh) :
    NotNearer(ClosestPointOnPoly(navMesh, ref, center), near, center, reach)
NearestIsNearest ==
  \A reach \in IF phase = "idle" /\ position # <<>> THEN {Reach, ShotReach, MapReach} ELSE {} :
    NothingNearer(Nearest(position[1], reach), UeToDetour(position[1]), reach)

\* What a ray passed is on the mesh, over polygons that are linked one to the next:
\* a way that is clear can be walked, and a shot that hits has gone through no wall
\* but in its last part.
PassedOnMesh(near, ray, end) ==
  Len(ray.path) < RayLimit =>
    /\ AllOver(near.point, IF Clear(ray) THEN end ELSE Lerp(near.point, end, 95, 100),
               Elements(ray.path))
    /\ \A k \in 1..(Len(ray.path) - 1) : ray.path[k + 1] \in Neighbours(ray.path[k])
ShotOnMesh(near, to) == PassedOnMesh(near, Ray(near, to), UeToDetour(to))
RayStaysOnMesh ==
  \A p \in IF phase = "idle" /\ position # <<>> THEN Points ELSE {} :
    ShotHits(position[1], p) => ShotOnMesh(Nearest(position[1], ShotReach), p)

\* Accepted moves leave a player where none is accepted only by the height its
\* client gave: at the height of some ground about it, it could make its next move.
\* And whatever the height, it is in a cell of the room's grid.
Cell(v, low) == (v - low) \div MapCellSize
GroundAbout(p) == {Outline(navMesh, ref)[1].y : ref \in Polys(navMesh)} \cup Floors(p)
LostOnlyByHeight ==
  position # <<>> =>
    /\ \E h \in GroundAbout(position[1]) :
         LET there == [position[1] EXCEPT !.z = h]
         IN CanMove(there, there) /\ ~IsOutOfBounds(there)
    /\ Cell(position[1].x, grid.minX) \in 0..Cell(grid.maxX, grid.minX)
    /\ Cell(position[1].y, grid.minY) \in 0..Cell(grid.maxY, grid.minY)
=============================================================================
