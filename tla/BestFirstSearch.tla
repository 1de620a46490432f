--------------------------- MODULE BestFirstSearch ---------------------------
(***************************************************************************)
(* What a search of the navigation mesh promises, without its node pool,   *)
(* its heap and its geometry.  A search grows a tree of the polygons it    *)
(* has found.  It takes the open one of least cost plus rest, the estimate *)
(* of what is left to the goal, and makes it the parent of those of its    *)
(* neighbours it improves.  A neighbour may be left out for want of a      *)
(* node; then "dropped" is set.  One search follows another.               *)
(***************************************************************************)
EXTENDS Integers

CONSTANT Node

VARIABLES
  searching,  \* a search is going on
  beside,     \* the neighbours of every polygon, as they are during the search
  start, goal,
  found,      \* the polygons of the tree
  open,       \* those still to be taken, or to be taken again
  parent,     \* the start is its own
  cost, rest,
  nearest,    \* the one found with the least rest, the goal when it is taken
  dropped

vars == <<searching, beside, start, goal, found, open, parent, cost, rest, nearest, dropped>>

TypeOK ==
  /\ searching \in BOOLEAN /\ dropped \in BOOLEAN
  /\ beside \in [Node -> SUBSET Node]
  /\ start \in Node /\ goal \in Node /\ nearest \in Node
  /\ found \in SUBSET Node /\ open \in SUBSET Node
  /\ parent \in [Node -> Node] /\ cost \in [Node -> Nat] /\ rest \in [Node -> Nat]

Total(n) == cost[n] + rest[n]

Init ==
  /\ TypeOK
  /\ searching = FALSE /\ found = {} /\ open = {} /\ dropped = FALSE

Begin ==
  /\ ~searching /\ searching' = TRUE
  /\ beside' \in [Node -> SUBSET Node] /\ start' \in Node /\ goal' \in Node
  /\ found' = {start'} /\ open' = {start'} /\ nearest' = start' /\ dropped' = FALSE
  /\ parent' \in [Node -> Node] /\ cost' \in [Node -> Nat] /\ rest' \in [Node -> Nat]
  /\ parent'[start'] = start' /\ cost'[start'] = 0

Least(b) == b \in open /\ \A n \in open : Total(b) <= Total(n)

\* The goal is taken: the search ends at it.
Arrive ==
  /\ searching /\ searching' = FALSE
  /\ Least(goal) /\ open' = open \ {goal} /\ nearest' = goal
  /\ UNCHANGED <<beside, start, goal, found, parent, cost, rest, dropped>>

\* Polygon b is taken; improved are the neighbours that are found through it, or
\* found again at a lower total than before.
Expand(b, improved) ==
  /\ searching /\ b # goal
  /\ Least(b) /\ open' = (open \ {b}) \union improved
  /\ found' = found \union improved
  /\ parent' \in [Node -> Node] /\ cost' \in [Node -> Nat] /\ rest' \in [Node -> Nat]
  /\ \A n \in improved : parent'[n] = b /\ cost'[n] >= cost[b]
  /\ \A n \in improved \intersect found : cost'[n] < cost[n] /\ rest'[n] = rest[n]
  /\ \A n \in found \ improved :
       parent'[n] = parent[n] /\ cost'[n] = cost[n] /\ rest'[n] = rest[n]
  /\ dropped' = (dropped \/ ~(beside[b] \ {parent[b]} \subseteq found'))
  /\ nearest' \in {nearest} \union improved
  /\ \A n \in {nearest} \union improved : rest'[nearest'] <= rest'[n]
  /\ UNCHANGED <<searching, beside, start, goal>>

\* Nothing is left to take: the search ends at the nearest.
GiveUp ==
  /\ searching /\ open = {}
  /\ searching' = FALSE
  /\ UNCHANGED <<beside, start, goal, found, open, parent, cost, rest, nearest, dropped>>

\* What a search has left behind is thrown away.
Clear ==
  /\ ~searching /\ searching' = FALSE
  /\ found' = {} /\ open' = {} /\ dropped' = FALSE /\ TypeOK'

Next ==
  \/ Begin \/ Arrive \/ GiveUp \/ Clear
  \/ \E b \in open : \E improved \in SUBSET (beside[b] \ {parent[b]}) : Expand(b, improved)
Spec == Init /\ [][Next]_vars

-----------------------------------------------------------------------------
(* What follows from it *)

\* The tree has no cycle: in every set of found polygons without the start there
\* is one whose parent is outside it.  getPathToNode follows the parents without
\* a bound, so a cycle would hang the room.
NoCycle ==
  \A S \in SUBSET found : S # {} /\ start \notin S => \E n \in S : parent[n] \notin S

\* A search that has given up with no polygon dropped has found all that the
\* start reaches: the goal cannot be reached.
FoundAll ==
  ~searching /\ ~dropped /\ nearest # goal => \A n \in found : beside[n] \subseteq found

\* The search ends at the polygon of least rest among the found.
EndsNearest == nearest = goal \/ \A n \in found : rest[nearest] <= rest[n]
=============================================================================
