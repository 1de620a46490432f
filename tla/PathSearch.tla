----------------------------- MODULE PathSearch -----------------------------
(***************************************************************************)
(* dtNavMeshQuery::findPath, an A* search over the polygons: one step per  *)
(* turn of its loop.  A node of the pool is referred to by its number, 0   *)
(* for none; the open list is a binary heap of nodes by their total.  The  *)
(* hash table by which the pool finds a node, and the tile-crossing state  *)
(* of a node, which is 0 with one tile, are left out.                      *)
(*                                                                         *)
(* The geometry is a parameter: the search asks only for distances and for *)
(* the points where it crosses from one polygon to the next.               *)
(***************************************************************************)
EXTENDS Integers, Sequences

CONSTANTS
  MaxPath,          \* the 256 entries of the buffer for the corridor
  Polygons,         \* the references a tile may have
  Space,            \* the points
  VDist(_, _),      \* dtVdist
  MidPoint(_, _, _) \* getEdgeMidPoint of a tile, between two of its polygons

\* References are numbers, and 0 refers to none.
ASSUME PolygonsAssumption == Polygons \subseteq Nat \ {0} /\ 1 \in Polygons
ASSUME MaxPathAssumption == MaxPath \in Nat \ {0}

VARIABLES
  navMesh,    \* m_nav, the tile
  query,      \* the ends, each a polygon and a point on it
  nodes,      \* m_nodePool
  openList,   \* m_openList
  lastBest,   \* lastBestNode and lastBestNodeCost
  outOfNodes,
  maxNodes,   \* m_nodePool->getMaxNodes()
  phase       \* "idle", "searching" or "ended"

searchVars == <<query, nodes, openList, lastBest, outOfNodes, phase>>

NoQuery == [from |-> [ref |-> 1], to |-> [ref |-> 1]]
SearchInit ==
  /\ query = NoQuery /\ nodes = <<>> /\ openList = <<>>
  /\ lastBest = [node |-> 0, rest |-> 0] /\ outOfNodes = FALSE /\ phase = "idle"

-----------------------------------------------------------------------------
(* dtNodeQueue *)

\* Mutant: a node stays where it is put.
BubbleUp_Never(pool, heap, i, node) == [heap EXCEPT ![i] = node]

\* The loops go on from place k with a heap h of n nodes, which has a gap at k: a
\* parent or a child moves into it, or else the node does.
Up(pool, n, node) ==
  LET up[k \in 1..n] ==
        [h \in [1..n -> Nat] |->
           IF k = 1 \/ pool[h[k \div 2]].total <= pool[node].total THEN [h EXCEPT ![k] = node]
           ELSE up[k \div 2][[h EXCEPT ![k] = h[k \div 2]]]]
  IN up
BubbleUp(pool, heap, i, node) == Up(pool, Len(heap), node)[i][heap]

LesserChild(pool, n, heap, i) ==
  IF 2 * i < n /\ pool[heap[2 * i]].total > pool[heap[2 * i + 1]].total THEN 2 * i + 1 ELSE 2 * i
Down(pool, n, node) ==
  LET down[k \in 1..n] ==
        [h \in [1..n -> Nat] |->
           LET child == LesserChild(pool, n, h, k)
           IN IF 2 * k > n THEN Up(pool, n, node)[k][h]
              ELSE down[child][[h EXCEPT ![k] = h[child]]]]
  IN down
TrickleDown(pool, heap, node) == Down(pool, Len(heap), node)[1][heap]

Push(pool, heap, node) == BubbleUp(pool, Append(heap, node), Len(heap) + 1, node)
Modify(pool, heap, node) ==
  BubbleUp(pool, heap, CHOOSE i \in 1..Len(heap) : heap[i] = node, node)
Pop(pool, heap) ==
  LET rest == SubSeq(heap, 1, Len(heap) - 1)
  IN IF rest = <<>> THEN rest ELSE TrickleDown(pool, rest, heap[Len(heap)])

-----------------------------------------------------------------------------
(* The search *)

Estimate(p, q) == (999 * VDist(p, q)) \div 1000  \* H_SCALE

\* findPath up to its loop, for two different polygons and the points on them.
BeginSearch(from, to) ==
  LET total == Estimate(from.point, to.point)
  IN /\ phase = "idle"
     /\ query' = [from |-> from, to |-> to]
     /\ nodes' = <<[id |-> from.ref, pidx |-> 0, cost |-> 0, total |-> total, pos |-> from.point,
                    flag |-> "open"]>>
     /\ openList' = <<1>> /\ lastBest' = [node |-> 1, rest |-> total]
     /\ outOfNodes' = FALSE /\ phase' = "searching"

\* getNode: a node of that polygon, the old one or a new one if there is room.
NodeOf(pool, ref) == {k \in DOMAIN pool : pool[k].id = ref}
GetNode(pool, ref, best) ==
  IF NodeOf(pool, ref) # {} \/ Len(pool) >= maxNodes THEN pool
  ELSE Append(pool, [id |-> ref, pidx |-> 0, cost |-> 0, total |-> 0, flag |-> "new",
                     pos |-> MidPoint(navMesh, pool[best].id, ref)])

\* The cost of the neighbour n by way of best, and what is left from there.
CostBy(pool, best, n) ==
  pool[best].cost + VDist(pool[best].pos, pool[n].pos)
    + (IF pool[n].id = query.to.ref THEN VDist(pool[n].pos, query.to.point) ELSE 0)
RestFrom(pool, n) ==
  IF pool[n].id = query.to.ref THEN 0 ELSE Estimate(pool[n].pos, query.to.point)

\* The neighbour is added, or updated if this way is better.
Better(pool, best, n) ==
  LET cost == CostBy(pool, best, n)
  IN [pool EXCEPT ![n].pidx = best, ![n].cost = cost, ![n].total = cost + RestFrom(pool, n),
                  ![n].flag = "open"]
Improve(w, best, n) ==
  LET pool == Better(w.nodes, best, n)
      rest == RestFrom(pool, n)
  IN IF w.nodes[n].flag # "new" /\ pool[n].total >= w.nodes[n].total THEN w
     ELSE [w EXCEPT !.nodes = pool,
             !.open = IF w.nodes[n].flag = "open" THEN Modify(pool, @, n) ELSE Push(pool, @, n),
             !.last = IF rest < @.rest THEN [node |-> n, rest |-> rest] ELSE @]

VisitLink(w, best, ref) ==
  LET parent == w.nodes[best].pidx
      pool == GetNode(w.nodes, ref, best)
      at == NodeOf(pool, ref)
  IN IF parent # 0 /\ w.nodes[parent].id = ref THEN w
     ELSE IF at = {} THEN [w EXCEPT !.out = TRUE]
     ELSE Improve([w EXCEPT !.nodes = pool], best, CHOOSE n \in at : TRUE)

\* The loop over the links of best, up to the last of them.
VisitLinks(w, best, links) ==
  LET visited[k \in 0..Len(links)] ==
        IF k = 0 THEN w ELSE VisitLink(visited[k - 1], best, links[k].ref)
  IN visited[Len(links)]

\* One turn of the loop: the best node is closed; the goal ends the search, any
\* other is expanded.
SearchStep ==
  LET best == openList[1]
      closed == [nodes EXCEPT ![best].flag = "closed"]
      rest == Pop(nodes, openList)
      w == VisitLinks([nodes |-> closed, open |-> rest, last |-> lastBest, out |-> outOfNodes],
                      best, navMesh.links[nodes[best].id])
  IN /\ phase = "searching" /\ openList # <<>>
     /\ UNCHANGED query
     /\ IF nodes[best].id = query.to.ref
        THEN /\ nodes' = closed /\ openList' = rest /\ phase' = "ended"
             /\ lastBest' = [node |-> best, rest |-> lastBest.rest] /\ UNCHANGED outOfNodes
        ELSE /\ nodes' = w.nodes /\ openList' = w.open /\ lastBest' = w.last
             /\ outOfNodes' = w.out /\ UNCHANGED phase

EndSearch ==
  /\ phase = "searching" /\ openList = <<>>
  /\ phase' = "ended"
  /\ UNCHANGED <<query, nodes, openList, lastBest, outOfNodes>>

\* The ends are in one polygon: there is no search.
SkipSearch ==
  /\ phase = "idle" /\ phase' = "ended"
  /\ UNCHANGED <<query, nodes, openList, lastBest, outOfNodes>>

\* The pool and the list are cleared.  The code does it when the next search
\* begins; nothing reads them before.
ClearSearch ==
  /\ phase = "ended"
  /\ query' = NoQuery /\ nodes' = <<>> /\ openList' = <<>>
  /\ lastBest' = [node |-> 0, rest |-> 0] /\ outOfNodes' = FALSE /\ phase' = "idle"

-----------------------------------------------------------------------------
(* getPathToNode: from the start of a search to one of its nodes *)

\* Mutant: of a path too long it is the end that is kept.
PathToNode_End(pool, n) ==
  LET to[k \in DOMAIN pool] ==
        IF pool[k].pidx = 0 THEN <<pool[k].id>> ELSE Append(to[pool[k].pidx], pool[k].id)
  IN SubSeq(to[n], IF Len(to[n]) <= MaxPath THEN 1 ELSE Len(to[n]) - MaxPath + 1, Len(to[n]))

\* The path to a node is that to its parent and the node.  What does not fit is cut off.
PathToNode(pool, n) ==
  LET to[k \in DOMAIN pool] ==
        IF pool[k].pidx = 0 THEN <<pool[k].id>> ELSE Append(to[pool[k].pidx], pool[k].id)
  IN SubSeq(to[n], 1, IF Len(to[n]) <= MaxPath THEN Len(to[n]) ELSE MaxPath)

-----------------------------------------------------------------------------
(* The search by itself: what it needs of the program around it is that    *)
(* the mesh is loaded while no search goes on, that its links lead to its  *)
(* polygons, and that the two ends are on two of them.                     *)

LinkedPolys(tile) == DOMAIN tile.links
Neighbours(ref) == {navMesh.links[ref][k].ref : k \in DOMAIN navMesh.links[ref]}
IsTile(tile) ==
  /\ LinkedPolys(tile) \subseteq Polygons
  /\ \A ref \in LinkedPolys(tile) :
       /\ tile.links[ref] \in Seq([ref : LinkedPolys(tile), edge : Nat])
       /\ \A k \in DOMAIN tile.links[ref] : MidPoint(tile, ref, tile.links[ref][k].ref) \in Space

LoadTile ==
  /\ phase = "idle" /\ IsTile(navMesh') /\ maxNodes' \in Nat \ {0}
  /\ UNCHANGED searchVars

FindPathOnTile ==
  /\ \/ /\ IsTile(navMesh) /\ query'.from.ref # query'.to.ref
        /\ {query'.from.ref, query'.to.ref} \subseteq LinkedPolys(navMesh)
        /\ {query'.from.point, query'.to.point} \subseteq Space
        /\ BeginSearch(query'.from, query'.to)
     \/ SkipSearch \/ SearchStep \/ EndSearch \/ ClearSearch
  /\ UNCHANGED <<navMesh, maxNodes>>

SearchSpec ==
  /\ SearchInit /\ maxNodes \in Nat
  /\ [][LoadTile \/ FindPathOnTile]_<<navMesh, maxNodes, searchVars>>

-----------------------------------------------------------------------------
(* The search as a best-first search of the graph of links: the variables  *)
(* of BestFirstSearch.                                                     *)

At(ref) == CHOOSE k \in DOMAIN nodes : nodes[k].id = ref

searching == phase = "searching"
start == query.from.ref
goal == query.to.ref
beside ==
  [ref \in Polygons |->
     IF start # goal /\ ref \in LinkedPolys(navMesh) THEN Neighbours(ref) ELSE {}]
found == {nodes[k].id : k \in DOMAIN nodes}
open == {nodes[openList[i]].id : i \in DOMAIN openList}
parent ==
  [ref \in Polygons |->
     IF ref \in found /\ nodes[At(ref)].pidx # 0 THEN nodes[nodes[At(ref)].pidx].id ELSE ref]
cost == [ref \in Polygons |-> IF ref \in found THEN nodes[At(ref)].cost ELSE 0]
rest ==
  [ref \in Polygons |-> IF ref \in found THEN nodes[At(ref)].total - nodes[At(ref)].cost ELSE 0]
nearest == IF lastBest.node = 0 THEN start ELSE nodes[lastBest.node].id
dropped == outOfNodes

Abstract == INSTANCE BestFirstSearch WITH Node <- Polygons

\* The search keeps its heap, its pool and its costs in step: it always takes the
\* best open polygon, and the tree it grows is that of a best-first search.
SearchImplementsBestFirst == Abstract!Spec

\* A set of polygons that leads nowhere else holds the goal if it holds the start.
GoalCanBeReached ==
  \A S \in SUBSET LinkedPolys(navMesh) :
    start \in S /\ (\A ref \in S : Neighbours(ref) \subseteq S) => goal \in S

\* The corridor FindPath answers with is a walk over links without repetition, and
\* unless the nodes or the buffer gave out it ends at the goal if the goal can be
\* reached: a monster that is not led to its target could not have been.
CorridorIsRight ==
  LET c == PathToNode(nodes, lastBest.node)
  IN phase = "ended" /\ nodes # <<>> =>
       /\ c[1] = start /\ Len(c) <= MaxPath
       /\ \A k \in 1..(Len(c) - 1) : c[k + 1] \in Neighbours(c[k])
       /\ \A j, k \in DOMAIN c : c[j] = c[k] => j = k
       /\ ~outOfNodes /\ Len(c) < MaxPath => (c[Len(c)] = goal <=> GoalCanBeReached)
=============================================================================
