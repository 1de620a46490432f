------------------------------ MODULE Regions ------------------------------
(***************************************************************************)
(* The second part of the navigation mesh build (RecastNavMesh::Build,     *)
(* steps 5 and 6): the walkable ground is eroded by the radius of an       *)
(* agent, a distance field is built over it, and a watershed over the      *)
(* field divides it into regions, which are then merged and filtered.      *)
(*                                                                         *)
(* A compact heightfield is a record chf: its spans are numbered 1..chf.n  *)
(* in the order of the array, chf.cell[i] and chf.y[i] are the place of    *)
(* one, and chf.con[i][d] is the span it is connected to in direction d,   *)
(* 0 for RC_NOT_CONNECTED.  Arrays with an entry per span (areas, dist,    *)
(* reg) are sequences.  Build passes a border size of 0: no border region  *)
(* is painted and none is met here.                                        *)
(***************************************************************************)
EXTENDS Integers, Sequences, FiniteSets, TLC, Loops

CONSTANTS WalkableRadius, MinRegionArea, MergeRegionArea

NULL_AREA == 0
DIRS == 0..3
ClockWise(d) == (d + 1) % 4
CounterClockWise(d) == (d + 3) % 4

SpansOf(chf) == 1..chf.n
Con(chf, i, d) == chf.con[i][d]
\* The span round the corner: one step in direction d, then one in direction e.
Corner(chf, i, d, e) == IF Con(chf, i, d) = 0 THEN 0 ELSE Con(chf, Con(chf, i, d), e)

Least(S) == CHOOSE m \in S : \A n \in S : m <= n
Greatest(S) == CHOOSE m \in S : \A n \in S : m >= n
AscendingFrom(n) == [k \in 1..n |-> k]
DescendingFrom(n) == [k \in 1..n |-> n + 1 - k]

-----------------------------------------------------------------------------
(* Distances: two sweeps, straight steps cost 2 and diagonal ones 3 *)

Capped(v, cap) == IF v > cap THEN cap ELSE v

Nearer(chf, src, i, turns, cap) ==
  LET straight == {Con(chf, i, t[1]) : t \in turns} \ {0}
      diagonal == {Corner(chf, i, t[1], t[2]) : t \in turns} \ {0}
  IN Least({src[i]} \cup {Capped(src[a] + 2, cap) : a \in straight}
                    \cup {Capped(src[b] + 3, cap) : b \in diagonal})

Sweep(chf, src, order, turns, cap) ==
  ForEach(LAMBDA d, i : [d EXCEPT ![i] = Nearer(chf, d, i, turns, cap)], src, order)

FirstTurns == {<<0, 3>>, <<3, 2>>}
SecondTurns == {<<2, 1>>, <<1, 0>>}

Distances(chf, src, cap) ==
  Sweep(chf, Sweep(chf, src, AscendingFrom(chf.n), FirstTurns, cap),
        DescendingFrom(chf.n), SecondTurns, cap)

\* rcErodeWalkableArea: ground nearer to its edge than the radius is closed.
AtEdge(chf, areas, i) ==
  \/ areas[i] = NULL_AREA
  \/ \E d \in DIRS : Con(chf, i, d) = 0 \/ areas[Con(chf, i, d)] = NULL_AREA

ErodeWalkableArea(chf, areas) ==
  LET src == [i \in SpansOf(chf) |-> IF AtEdge(chf, areas, i) THEN 0 ELSE 255]
      distanceToBoundary == Distances(chf, src, 255)
  IN [i \in SpansOf(chf) |->
       IF distanceToBoundary[i] < 2 * WalkableRadius THEN NULL_AREA ELSE areas[i]]

\* rcBuildDistanceField: the largest distance is that before the blur.
AtBorder(chf, areas, i) ==
  \E d \in DIRS : Con(chf, i, d) = 0 \/ areas[Con(chf, i, d)] # areas[i]

BlurThreshold == 2

Blurred(chf, src, i) ==
  LET cd == src[i]
      side == [d \in DIRS |->
        IF Con(chf, i, d) = 0 THEN 2 * cd
        ELSE src[Con(chf, i, d)]
             + LET b == Corner(chf, i, d, ClockWise(d)) IN IF b = 0 THEN cd ELSE src[b]]
  IN IF cd <= BlurThreshold THEN cd ELSE (cd + side[0] + side[1] + side[2] + side[3] + 5) \div 9

BuildDistanceField(chf, areas) ==
  LET src == Distances(chf, [i \in SpansOf(chf) |->
                              IF AtBorder(chf, areas, i) THEN 0 ELSE 65535], 65535)
  IN [dist |-> [i \in SpansOf(chf) |-> Blurred(chf, src, i)],
      maxDistance |-> IF chf.n = 0 THEN 0 ELSE Greatest({src[i] : i \in SpansOf(chf)})]

-----------------------------------------------------------------------------
(* The watershed *)

\* floodRegion: fill with region r from the top of the stack; a span next to
\* another region, or at a corner of one, is given back.
TouchesOther(chf, areas, reg, i, r) ==
  \E d \in DIRS :
    LET a == Con(chf, i, d)
        b == Corner(chf, i, d, ClockWise(d))
    IN /\ a # 0 /\ areas[a] = areas[i]
       /\ \/ reg[a] \notin {0, r}
          \/ b # 0 /\ areas[b] = areas[i] /\ reg[b] \notin {0, r}

FloodNext(chf, areas, dist, reg, i, lev) ==
  SelectSeq(<<0, 1, 2, 3>>, LAMBDA d :
    LET a == Con(chf, i, d)
    IN a # 0 /\ areas[a] = areas[i] /\ dist[a] >= lev /\ reg[a] = 0)

\* Mutant: the span is given back after the flood has gone on from it.
FloodStep_GivesBackLate(chf, areas, w, r, lev) ==
  LET i == w.stack[Len(w.stack)]
      rest == SubSeq(w.stack, 1, Len(w.stack) - 1)
      next == FloodNext(chf, areas, w.levels, w.reg, i, lev)
      new == {Con(chf, i, next[k]) : k \in DOMAIN next}
  IN [w EXCEPT !.count = @ + 1,
               !.reg = [j \in {i} |-> IF TouchesOther(chf, areas, w.reg, i, r) THEN 0 ELSE r]
                         @@ [j \in new |-> r] @@ @,
               !.dist = [j \in new |-> 0] @@ @,
               !.stack = rest \o [k \in DOMAIN next |-> Con(chf, i, next[k])]]

FloodStep(chf, areas, w, r, lev) ==
  LET i == w.stack[Len(w.stack)]
      rest == SubSeq(w.stack, 1, Len(w.stack) - 1)
      next == FloodNext(chf, areas, w.levels, w.reg, i, lev)
      new == {Con(chf, i, next[k]) : k \in DOMAIN next}
  IN IF TouchesOther(chf, areas, w.reg, i, r)
     THEN [w EXCEPT !.reg[i] = 0, !.stack = rest]
     ELSE [w EXCEPT !.count = @ + 1,
                    !.reg = [j \in new |-> r] @@ @,
                    !.dist = [j \in new |-> 0] @@ @,
                    !.stack = rest \o [k \in DOMAIN next |-> Con(chf, i, next[k])]]

FloodRegion(chf, areas, w, i, r, lev) ==
  While(LAMBDA v : FloodStep(chf, areas, v, r, lev), LAMBDA v : v.stack = <<>>,
        [w EXCEPT !.reg[i] = r, !.dist[i] = 0, !.count = 0, !.stack = <<i>>])

\* expandRegions: in one round every waiting span next to a region joins the
\* one it is nearest to, the first direction winning a tie.
Neighbouring(chf, areas, w, i) ==
  {d \in DIRS : LET a == Con(chf, i, d)
                IN a # 0 /\ areas[a] = areas[i] /\ w.reg[a] # 0}

Nearest(chf, areas, w, i) ==
  LET near == Neighbouring(chf, areas, w, i)
      away(d) == w.dist[Con(chf, i, d)]
  IN CHOOSE d \in near : \A e \in near : away(d) < away(e) \/ (away(d) = away(e) /\ d <= e)

ExpandRound(chf, areas, w) ==
  LET dirty == {w.stack[k] : k \in {k \in DOMAIN w.stack :
                                      Neighbouring(chf, areas, w, w.stack[k]) # {}}}
      from == [i \in dirty |-> Con(chf, i, Nearest(chf, areas, w, i))]
  IN [w EXCEPT
       !.reg = [i \in dirty |-> @[from[i]]] @@ @,
       !.dist = [i \in dirty |-> @[from[i]] + 2] @@ @,
       !.stack = SelectSeq(@, LAMBDA i : i \notin dirty),
       !.idle = dirty = {}, !.iter = @ + 1]

ExpandRegions(chf, areas, w, stack, maxIter, level) ==
  While(LAMBDA v : ExpandRound(chf, areas, v),
        LAMBDA v : v.idle \/ (level > 0 /\ v.iter = maxIter),
        [w EXCEPT !.stack = stack, !.iter = 0, !.idle = FALSE])

NB_STACKS == 8
ExpandIters == 8

Unassigned(chf, areas, reg) ==
  SelectSeq(AscendingFrom(chf.n), LAMBDA i : areas[i] # NULL_AREA /\ reg[i] = 0)

SortCellsByLevel(chf, areas, dist, reg, startLevel) ==
  LET sId(i) == (startLevel \div 2) - (dist[i] \div 2)
  IN [s \in 0..(NB_STACKS - 1) |->
       SelectSeq(Unassigned(chf, areas, reg),
                 LAMBDA i : sId(i) = s \/ (s = 0 /\ sId(i) < 0))]

\* What expansion left over starts regions of its own.
FloodFrom(chf, areas, w, level) ==
  ForEach(LAMBDA v, i :
            IF v.reg[i] # 0 THEN v
            ELSE LET flood == FloodRegion(chf, areas, v, i, v.regionId,
                                          IF level >= 2 THEN level - 2 ELSE 0)
                 IN [flood EXCEPT !.regionId = IF flood.count > 0 THEN @ + 1 ELSE @],
          w, w.stack)

\* One level after the other, each on the stack of its level; what a level
\* left over goes to the next.
NextLevel(chf, areas, w) ==
  LET level == IF w.level >= 2 THEN w.level - 2 ELSE 0
      s == w.sId
      unassigned(stack) == SelectSeq(stack, LAMBDA i : w.reg[i] = 0)
      sorted == IF s = 0 THEN SortCellsByLevel(chf, areas, w.levels, w.reg, level)
                ELSE [w.stacks EXCEPT ![s] = @ \o unassigned(w.stacks[s - 1])]
      expanded == ExpandRegions(chf, areas, w, unassigned(sorted[s]), ExpandIters, level)
  IN [FloodFrom(chf, areas, expanded, level) EXCEPT
       !.stacks = [sorted EXCEPT ![s] = expanded.stack],
       !.level = level, !.sId = (s + 1) % NB_STACKS]

Watershed(chf, areas, w) ==
  While(LAMBDA v : NextLevel(chf, areas, v), LAMBDA v : v.level = 0, w)

\* The regions before merging: reg, and the number of the next one.
PaintRegions(chf, areas, field) ==
  LET zero == [i \in SpansOf(chf) |-> 0]
      w == Watershed(chf, areas,
             [reg |-> zero, dist |-> zero, levels |-> field.dist, regionId |-> 1, count |-> 0,
              stack |-> <<>>, stacks |-> [s \in 0..(NB_STACKS - 1) |-> <<>>], sId |-> 0,
              level |-> 2 * ((field.maxDistance + 1) \div 2), iter |-> 0, idle |-> FALSE])
  IN ExpandRegions(chf, areas, w, Unassigned(chf, areas, w.reg), 8 * ExpandIters, 0)
-----------------------------------------------------------------------------
(* Merging and filtering: mergeAndFilterRegions *)

RegionBeside(chf, reg, i, d) == IF Con(chf, i, d) = 0 THEN 0 ELSE reg[Con(chf, i, d)]
IsSolidEdge(chf, reg, i, d) == RegionBeside(chf, reg, i, d) # reg[i]

Remove(seq, k) == SubSeq(seq, 1, k - 1) \o SubSeq(seq, k + 1, Len(seq))

\* Drop every element of a ring that equals the one after it.
RemoveAdjacentNeighbours(ring) ==
  While(LAMBDA w : IF w.ring[w.k] = w.ring[(w.k % Len(w.ring)) + 1]
                   THEN [w EXCEPT !.ring = Remove(@, w.k)] ELSE [w EXCEPT !.k = @ + 1],
        LAMBDA w : w.k > Len(w.ring) \/ Len(w.ring) <= 1, [ring |-> ring, k |-> 1]).ring

\* The regions met along the contour that starts at side dir of span i, until
\* the walk is back where it began.
WalkOn(chf, reg, w) ==
  LET beside == RegionBeside(chf, reg, w.i, w.dir)
  IN IF ~IsSolidEdge(chf, reg, w.i, w.dir)
     THEN [w EXCEPT !.i = Con(chf, w.i, w.dir), !.dir = CounterClockWise(@)]
     ELSE [w EXCEPT !.dir = ClockWise(@),
                    !.met = IF beside = @[Len(@)] THEN @ ELSE Append(@, beside)]

WalkRegionContour(chf, reg, i, dir) ==
  LET start == [i |-> i, dir |-> dir, met |-> <<RegionBeside(chf, reg, i, dir)>>]
  IN RemoveAdjacentNeighbours(
       While(LAMBDA w : WalkOn(chf, reg, w), LAMBDA w : <<w.i, w.dir>> = <<i, dir>>,
             WalkOn(chf, reg, start)).met)

\* The table of regions; floors holds each id once.  The contour is that of
\* the first span of the region that has a solid edge.
RegionRecord(chf, areas, reg, r) ==
  LET members == {i \in SpansOf(chf) : reg[i] = r}
      column(i) == {j \in SpansOf(chf) \ {i} : chf.cell[j] = chf.cell[i]}
      floors == UNION {{reg[j] : j \in column(i)} : i \in members} \ {0}
      edges == {i \in members : \E d \in DIRS : IsSolidEdge(chf, reg, i, d)}
  IN IF r = 0 \/ members = {} THEN [count |-> 0, id |-> r, area |-> 0, overlap |-> FALSE,
                                    connections |-> <<>>, floors |-> {}]
     ELSE [count |-> Cardinality(members), id |-> r,
           area |-> areas[Least(members)], overlap |-> r \in floors, floors |-> floors,
           connections |-> IF edges = {} THEN <<>> ELSE
             WalkRegionContour(chf, reg, Least(edges),
               Least({d \in DIRS : IsSolidEdge(chf, reg, Least(edges), d)}))]

RegionTable(chf, areas, reg, next) ==
  For(LAMBDA table, r : table @@ (r :> RegionRecord(chf, areas, reg, r)), <<>>, 0, next)

\* What is reached from the regions of found along their contours.
ReachedFrom(table, r, seen) ==
  LET beside(q) == {table[q].connections[k] : k \in DOMAIN table[q].connections}
      new(found) == {q \in UNION {beside(q) : q \in found} : table[q].id # 0} \ (found \cup seen)
  IN While(LAMBDA found : found \cup new(found), LAMBDA found : new(found) = {}, {r})

\* Groups of regions that are together too small are taken out.
\* Mutant: a group that is just large enough goes too.
RemoveGroup_OffByOne(w, r) ==
  LET group == ReachedFrom(w.table, r, w.seen)
      total == Cardinality(UNION {{<<g, k>> : k \in 1..w.table[g].count} : g \in group})
  IN IF w.table[r].id = 0 \/ w.table[r].count = 0 \/ r \in w.seen THEN w
     ELSE [seen |-> w.seen \cup group,
           table |-> IF total > MinRegionArea THEN w.table
                     ELSE [q \in group |-> [w.table[q] EXCEPT !.count = 0, !.id = 0]] @@ w.table]

RemoveGroup(w, r) ==
  LET group == ReachedFrom(w.table, r, w.seen)
      total == Cardinality(UNION {{<<g, k>> : k \in 1..w.table[g].count} : g \in group})
  IN IF w.table[r].id = 0 \/ w.table[r].count = 0 \/ r \in w.seen THEN w
     ELSE [seen |-> w.seen \cup group,
           table |-> IF total >= MinRegionArea THEN w.table
                     ELSE [q \in group |-> [w.table[q] EXCEPT !.count = 0, !.id = 0]] @@ w.table]

RemoveSmall(table) ==
  For(RemoveGroup, [table |-> table, seen |-> {}], 0, Greatest(DOMAIN table)).table

Times(ring, id) == Cardinality({k \in DOMAIN ring : ring[k] = id})

CanMergeWithRegion(a, b) ==
  /\ a.area = b.area
  /\ Times(a.connections, b.id) <= 1
  /\ b.id \notin a.floors

\* The smallest neighbour that may take the region in; its own id if none.
MergeTarget(table, r) ==
  LET reg == table[r]
      fits(k) == LET n == table[reg.connections[k]]
                 IN /\ n.id # 0 /\ ~n.overlap
                    /\ CanMergeWithRegion(reg, n) /\ CanMergeWithRegion(n, reg)
      size(k) == table[reg.connections[k]].count
      ks == {k \in DOMAIN reg.connections : fits(k)}
  IN IF ks = {} THEN reg.id
     ELSE table[reg.connections[
            CHOOSE k \in ks : \A j \in ks : size(k) < size(j) \/ (size(k) = size(j) /\ k <= j)]].id

After(ring, k) == SubSeq(ring, k + 1, Len(ring)) \o SubSeq(ring, 1, k - 1)
First(ring, id) == Least({k \in DOMAIN ring : ring[k] = id})

\* mergeRegions(a, b): a takes the ring of b in where they met.
MergeRegions(a, b) ==
  [a EXCEPT !.connections = RemoveAdjacentNeighbours(
              After(a.connections, First(a.connections, b.id))
              \o After(b.connections, First(b.connections, a.id))),
            !.floors = @ \cup b.floors,
            !.count = @ + b.count]

ReplaceNeighbour(rec, old, new) ==
  LET ring == [k \in DOMAIN rec.connections |->
                 IF rec.connections[k] = old THEN new ELSE rec.connections[k]]
  IN [rec EXCEPT !.connections = IF ring = @ THEN @ ELSE RemoveAdjacentNeighbours(ring),
                 !.floors = {IF f = old THEN new ELSE f : f \in @}]

Stays(table, r) ==
  LET reg == table[r]
  IN \/ reg.id = 0 \/ reg.overlap \/ reg.count = 0
     \/ reg.count > MergeRegionArea /\ \E k \in DOMAIN reg.connections : reg.connections[k] = 0

Merge(table, r, target) ==
  LET old == table[r].id
      met == [table EXCEPT ![target] = MergeRegions(table[target], table[r]),
                           ![r] = [table[r] EXCEPT !.count = 0, !.connections = <<>>]]
  IN [q \in {q \in DOMAIN table : met[q].id # 0} |->
       ReplaceNeighbour([met[q] EXCEPT !.id = IF @ = old THEN target ELSE @], old, target)] @@ met

\* Round after round until a whole round merges nothing.
MergeOne(w, r) ==
  LET table == w.table
      target == IF Stays(table, r) THEN table[r].id ELSE MergeTarget(table, r)
      meet == /\ Times(table[target].connections, table[r].id) > 0
              /\ Times(table[r].connections, table[target].id) > 0
  IN IF target = table[r].id \/ ~meet THEN w
     ELSE [table |-> Merge(table, r, target), merged |-> TRUE]

MergeAll(table) ==
  While(LAMBDA w : For(MergeOne, [w EXCEPT !.merged = FALSE], 0, Greatest(DOMAIN w.table)),
        LAMBDA w : ~w.merged, [table |-> table, merged |-> TRUE]).table

\* Ids are numbered anew in the order in which they are first met.
FirstWith(table, id) == Least({q \in DOMAIN table : table[q].id = id})
Renumbered(table, id) ==
  IF id = 0 THEN 0
  ELSE Cardinality({FirstWith(table, table[q].id) :
         q \in {q \in DOMAIN table : /\ table[q].id # 0
                                     /\ FirstWith(table, table[q].id) <= FirstWith(table, id)}})

MergeAndFilterRegions(chf, areas, reg, next) ==
  LET table == MergeAll(RemoveSmall(RegionTable(chf, areas, reg, next)))
  IN [reg |-> [i \in SpansOf(chf) |-> Renumbered(table, table[reg[i]].id)],
      maxRegions |-> Greatest({Renumbered(table, table[q].id) : q \in DOMAIN table})]

BuildRegions(chf, areas, field) ==
  LET painted == PaintRegions(chf, areas, field)
  IN MergeAndFilterRegions(chf, areas, painted.reg, painted.regionId)
=============================================================================
