--------------------------- MODULE RoomViewProofs ---------------------------
(***************************************************************************)
(* The invariants of RoomView, for every set of players and monsters and   *)
(* every size of the grid.                                                 *)
(*                                                                         *)
(* Every job that changes a view is one of two kinds: a subject s that is  *)
(* in the room changes its place (or leaves), or one that is not yet in it *)
(* enters.  Both reduce to one lemma about UpdateView: if the targets that *)
(* leave and enter are exactly those whose nearness to s changes, the      *)
(* lists are again the neighbourhoods, the clients show their lists and    *)
(* the monsters are awake exactly while watched.                           *)
(***************************************************************************)
EXTENDS RoomView, TLAPS

USE DEF Objects

(***************************************************************************)
(* The inductive invariant.  It asks more of the clients than              *)
(* ClientsShowTheirView: a client that has not yet entered shows nothing.  *)
(***************************************************************************)
ClientsInStep ==
  \A p \in Players : online[p] =>
    \A o \in Objects \ {p} : shown[p][o] = viewList[p][o]

WatchedAwake ==
  \A m \in Monsters : ~dead[m] =>
    (wakeUp[m] <=> \E p \in Players : viewList[p][m] > 0)

Inv ==
  /\ TypeOK
  /\ players = objects \cap Players
  /\ GridMatchesIndex
  /\ ViewIsNeighbourhood
  /\ ClientsInStep
  /\ WatchedAwake

Mutual == \A a, b \in Objects : Near(a, b) <=> Near(b, a)

\* Being in the 3x3 cells around one another is mutual, by the arithmetic of
\* GetNeighborCells.
LEMMA NeighborsAreMutual ==
  ASSUME NEW c \in Cells, NEW d \in Cells
  PROVE  c \in GetNeighborCells(d) <=> d \in GetNeighborCells(c)
<1>1. /\ c[1] \in Int /\ c[2] \in Int
      /\ d[1] \in Int /\ d[2] \in Int
  BY RoomAssumption DEF Cells
<1>. QED
  BY <1>1 DEF GetNeighborCells, VIEW_RANGE_CELLS

\* Two objects are in each other's neighbourhoods or in neither.
LEMMA NearIsMutual ==
  ASSUME TypeOK, GridMatchesIndex
  PROVE  Mutual
<1>1. \A o \in objects : id2CellPos[o] \in Cells
  BY DEF TypeOK, GridMatchesIndex
<1>. QED
  BY <1>1, NeighborsAreMutual DEF Mutual, Near

\* What GameMap collects from a set of cells: the objects whose cell is in it.
LEMMA CollectFinds ==
  ASSUME GridMatchesIndex, NEW cells, cells \subseteq Cells
  PROVE  Collect(grid, cells) = {o \in objects : id2CellPos[o] \in cells}
  BY DEF GridMatchesIndex, Collect

(***************************************************************************)
(* The lemma about UpdateView.                                             *)
(***************************************************************************)
LEMMA SwapViewsKeeps ==
  ASSUME Inv, Mutual,
         NEW s \in Objects, NEW E, NEW L,
         Mutual',
         \A a, b \in Objects \ {s} : Near(a, b)' <=> Near(a, b),
         L = {t \in Objects : Watching(s, t) /\ Near(s, t) /\ ~Near(s, t)'},
         E = {t \in Objects : Watching(s, t) /\ ~Near(s, t) /\ Near(s, t)'},
         SwapViews(s, E, L), UNCHANGED <<dead, online>>
  PROVE  /\ ViewIsNeighbourhood'
         /\ viewList' \in [Objects -> [Objects -> Nat]]
         /\ shown' \in [Players -> [Objects -> Int]]
         /\ wakeUp' \in [Monsters -> BOOLEAN]
         /\ ClientsInStep'
         /\ WatchedAwake'
<1>. DEFINE left == Remaining(s, L)
<1>0. s \notin E /\ s \notin L
  BY DEF Watching
<1>1. \A a, b \in Objects :
        viewList[a][b] = IF Watching(a, b) /\ Near(a, b) THEN 1 ELSE 0
  BY DEF Inv, ViewIsNeighbourhood
<1>2. \A a, b \in Objects : Watching(a, b) <=> Watching(b, a)
  BY DEF Watching
<1>3. \A a, b \in Objects : left[a][b] =
        IF Watching(a, b) /\ Near(a, b) /\ Near(a, b)' THEN 1 ELSE 0
  <2>. TAKE a, b \in Objects
  <2>1. left[a][b] = IF Either(a, b, s, L) THEN Less(viewList[a][b])
                     ELSE viewList[a][b]
    BY DEF Remaining
  <2>2. Either(a, b, s, L) <=>
          Watching(a, b) /\ Near(a, b) /\ ~Near(a, b)'
    <3>1. CASE a = s
      BY <3>1, <1>0 DEF Either
    <3>2. CASE a # s /\ b = s
      BY <3>2, <1>0, <1>2 DEF Either, Mutual
    <3>3. CASE a # s /\ b # s
      BY <3>3 DEF Either
    <3>. QED BY <3>1, <3>2, <3>3
  <2>. QED BY <2>1, <2>2, <1>1 DEF Less
<1>4. \A a, b \in Objects : Either(a, b, s, E) <=>
        Watching(a, b) /\ ~Near(a, b) /\ Near(a, b)'
  <2>. TAKE a, b \in Objects
  <2>1. CASE a = s
    BY <2>1, <1>0 DEF Either
  <2>2. CASE a # s /\ b = s
    BY <2>2, <1>0, <1>2 DEF Either, Mutual
  <2>3. CASE a # s /\ b # s
    BY <2>3 DEF Either
  <2>. QED BY <2>1, <2>2, <2>3
<1>5. \A a, b \in Objects : Either(a, b, s, L) <=>
        Watching(a, b) /\ Near(a, b) /\ ~Near(a, b)'
  <2>. TAKE a, b \in Objects
  <2>1. CASE a = s
    BY <2>1, <1>0 DEF Either
  <2>2. CASE a # s /\ b = s
    BY <2>2, <1>0, <1>2 DEF Either, Mutual
  <2>3. CASE a # s /\ b # s
    BY <2>3 DEF Either
  <2>. QED BY <2>1, <2>2, <2>3
<1>6. viewList' = [a \in Objects |-> [b \in Objects |->
         IF Either(a, b, s, E) THEN left[a][b] + 1 ELSE left[a][b]]]
  BY DEF SwapViews
<1>7. \A a, b \in Objects : viewList'[a][b] =
        IF Watching(a, b) /\ Near(a, b)' THEN 1 ELSE 0
  BY <1>3, <1>4, <1>6
<1>8. viewList' \in [Objects -> [Objects -> Nat]]
  BY <1>3, <1>6
<1>9. \A p \in Players, o \in Objects : shown'[p][o] =
        IF online[p]
        THEN shown[p][o] + (IF Either(p, o, s, E) THEN 1 ELSE 0)
                         - (IF Either(p, o, s, L) THEN 1 ELSE 0)
        ELSE shown[p][o]
  BY DEF SwapViews, Tell
<1>10. shown' \in [Players -> [Objects -> Int]]
  BY DEF SwapViews, Tell, Inv, TypeOK
<1>11. ClientsInStep'
  <2>. SUFFICES ASSUME NEW p \in Players, online[p], NEW o \in Objects \ {p}
                PROVE  shown'[p][o] = viewList'[p][o]
    BY DEF ClientsInStep
  <2>1. shown[p][o] = viewList[p][o]
    BY DEF Inv, ClientsInStep
  <2>2. p \in Objects /\ o \in Objects /\ online[p]
    BY DEF Inv
  <2>3. viewList'[p][o] = viewList[p][o]
          + (IF Either(p, o, s, E) THEN 1 ELSE 0)
          - (IF Either(p, o, s, L) THEN 1 ELSE 0)
    BY <2>2, <1>1, <1>4, <1>5, <1>7
  <2>. QED BY <2>1, <2>2, <2>3, <1>9
<1>12. \A m \in Monsters : wakeUp[m] \in BOOLEAN /\ dead[m] \in BOOLEAN
  BY DEF Inv, TypeOK
<1>13. /\ wakeUp' \in [Monsters -> BOOLEAN]
       /\ WatchedAwake'
  <2>. DEFINE Slept(m) == IF PlayerIn(m, s, L) THEN Asleep(m, left[m])
                          ELSE wakeUp[m]
  <2>1. wakeUp' = [m \in Monsters |->
           IF PlayerIn(m, s, E) THEN Awake(m, Slept(m)) ELSE Slept(m)]
    BY DEF SwapViews
  <2>2. \A m \in Monsters : Slept(m) \in BOOLEAN
    BY <1>12 DEF Asleep
  <2>3. wakeUp' \in [Monsters -> BOOLEAN]
    BY <2>1, <2>2, Zenon DEF Awake
  <2>4. ASSUME NEW m \in Monsters, ~dead[m]
        PROVE  Slept(m) <=> \E p \in Players : left[p][m] > 0
    <3>1. wakeUp[m] <=> \E p \in Players : viewList[p][m] > 0
      BY <2>4 DEF Inv, WatchedAwake
    <3>2. \A b \in Objects : left[m][b] = left[b][m]
      BY <1>2, <1>3 DEF Mutual
    <3>3. \A b \in Objects : b \notin Players => left[m][b] = 0
      BY <1>3, RoomAssumption DEF Watching
    <3>4. (\A b \in Objects : left[m][b] = 0)
            <=> ~\E p \in Players : left[p][m] > 0
      BY <3>2, <3>3, <1>3
    <3>5. CASE PlayerIn(m, s, L)
      <4>1. \E p \in Players : viewList[p][m] > 0
        <5>1. PICK p \in Players : Either(m, p, s, L)
          BY <3>5 DEF PlayerIn
        <5>. QED BY <5>1, <1>1, <1>2, <1>5 DEF Mutual
      <4>. QED BY <4>1, <3>1, <3>4, <3>5, <2>4, Zenon DEF Asleep
    <3>6. CASE ~PlayerIn(m, s, L)
      <4>1. \A p \in Players : ~Either(p, m, s, L)
        BY <3>6 DEF PlayerIn, Either
      <4>2. \A p \in Players : left[p][m] = viewList[p][m]
        BY <4>1 DEF Remaining
      <4>. QED BY <4>2, <3>1, <3>6, Zenon
    <3>. QED BY <3>5, <3>6
  <2>5. ASSUME NEW m \in Monsters, ~dead[m]
        PROVE  wakeUp'[m] <=> \E p \in Players : viewList'[p][m] > 0
    <3>1. CASE PlayerIn(m, s, E)
      <4>1. \E p \in Players : viewList'[p][m] > 0
        <5>1. PICK p \in Players : Either(m, p, s, E)
          BY <3>1 DEF PlayerIn
        <5>2. Watching(m, p) /\ Near(m, p)'
          BY <5>1, <1>4
        <5>3. Watching(p, m) /\ Near(p, m)'
          BY <5>2, <1>2 DEF Mutual
        <5>. QED BY <5>3, <1>7
      <4>2. wakeUp'[m] = TRUE
        BY <3>1, <2>1, <2>5, Zenon DEF Awake
      <4>. QED BY <4>1, <4>2
    <3>2. CASE ~PlayerIn(m, s, E)
      <4>1. \A p \in Players : ~Either(p, m, s, E)
        BY <3>2 DEF PlayerIn, Either
      <4>2. \A p \in Players : viewList'[p][m] = left[p][m]
        BY <4>1, <1>6
      <4>3. wakeUp'[m] = Slept(m)
        BY <3>2, <2>1, Zenon
      <4>. QED BY <4>2, <4>3, <2>4, <2>5, Zenon
    <3>. QED BY <3>1, <3>2
  <2>. QED BY <2>3, <2>5 DEF WatchedAwake
<1>14. ViewIsNeighbourhood'
  BY <1>7 DEF ViewIsNeighbourhood
<1>. QED BY <1>8, <1>10, <1>11, <1>13, <1>14

-----------------------------------------------------------------------------
(* The map operations, each as the nearness it leaves behind.              *)

\* What a job changes besides the lists, the flags and the clients.
MapKeeps ==
  /\ objects \subseteq Objects
  /\ players = objects \cap Players
  /\ grid \in [Cells -> SUBSET Objects]
  /\ id2CellPos \in [Objects -> Cells \cup {NoCell}]
  /\ GridMatchesIndex

\* An object that is added keeps grid and index in step.
LEMMA EnterKeepsMap ==
  ASSUME Inv, NEW o \in Objects \ objects, NEW c \in Cells,
         Place(o, c), objects' = objects \cup {o},
         players' = objects' \cap Players
  PROVE  /\ MapKeeps'
         /\ \A a \in Objects \ {o} : Near(o, a)' <=> a \in Collect(grid, GetNeighborCells(c))
         /\ \A a, b \in Objects \ {o} : Near(a, b)' <=> Near(a, b)
<1>. USE DEF Inv, TypeOK
<1>1. id2CellPos' = [id2CellPos EXCEPT ![o] = c]
  BY DEF Place
<1>2. grid' = [grid EXCEPT ![c] = @ \cup {o}]
  BY DEF Place
<1>3. GridMatchesIndex'
  BY <1>1, <1>2, NoCellAssumption DEF GridMatchesIndex
<1>4. MapKeeps'
  BY <1>1, <1>2, <1>3 DEF MapKeeps
<1>5. GetNeighborCells(c) \subseteq Cells
  BY DEF GetNeighborCells
<1>6. \A a \in Objects \ {o} :
        Near(o, a)' <=> a \in Collect(grid, GetNeighborCells(c))
  BY <1>1, <1>5, CollectFinds DEF Near
<1>7. \A a, b \in Objects \ {o} : Near(a, b)' <=> Near(a, b)
  BY <1>1 DEF Near
<1>. QED BY <1>4, <1>6, <1>7

\* So does one that moves to another cell,
LEMMA ShiftKeepsMap ==
  ASSUME Inv, NEW o \in objects, NEW c \in Cells,
         Shift(o, c), UNCHANGED <<objects, players>>
  PROVE  /\ MapKeeps'
         /\ \A a \in Objects \ {o} : Near(o, a)' <=> a \in Collect(grid, GetNeighborCells(c))
         /\ \A a, b \in Objects \ {o} : Near(a, b)' <=> Near(a, b)
<1>. USE DEF Inv, TypeOK
<1>1. id2CellPos' = [id2CellPos EXCEPT ![o] = c]
  BY DEF Shift
<1>2. grid' = [d \in Cells |-> IF d = c THEN grid[d] \cup {o} ELSE grid[d] \ {o}]
  BY DEF Shift
<1>3. GridMatchesIndex'
  BY <1>1, <1>2, NoCellAssumption DEF GridMatchesIndex
<1>4. MapKeeps'
  BY <1>1, <1>2, <1>3 DEF MapKeeps
<1>5. GetNeighborCells(c) \subseteq Cells
  BY DEF GetNeighborCells
<1>6. \A a \in Objects \ {o} :
        Near(o, a)' <=> a \in Collect(grid, GetNeighborCells(c))
  BY <1>1, <1>5, CollectFinds DEF Near
<1>7. \A a, b \in Objects \ {o} : Near(a, b)' <=> Near(a, b)
  BY <1>1 DEF Near
<1>. QED BY <1>4, <1>6, <1>7

\* and one that is removed.
LEMMA LeaveKeepsMap ==
  ASSUME Inv, NEW o \in objects, Lift(o), objects' = objects \ {o},
         players' = objects' \cap Players
  PROVE  /\ MapKeeps'
         /\ \A a \in Objects : ~Near(o, a)' /\ ~Near(a, o)'
         /\ \A a, b \in Objects \ {o} : Near(a, b)' <=> Near(a, b)
<1>. USE DEF Inv, TypeOK
<1>0. id2CellPos[o] \in Cells
  BY DEF GridMatchesIndex
<1>1. id2CellPos' = [id2CellPos EXCEPT ![o] = NoCell]
  BY DEF Lift
<1>2. grid' = [grid EXCEPT ![id2CellPos[o]] = @ \ {o}]
  BY DEF Lift
<1>3. GridMatchesIndex'
  BY <1>0, <1>1, <1>2, NoCellAssumption DEF GridMatchesIndex
<1>4. MapKeeps'
  BY <1>1, <1>2, <1>3 DEF MapKeeps
<1>5. \A a \in Objects : ~Near(o, a)' /\ ~Near(a, o)'
  BY DEF Near
<1>6. \A a, b \in Objects \ {o} : Near(a, b)' <=> Near(a, b)
  BY <1>1 DEF Near
<1>. QED BY <1>4, <1>5, <1>6

\* After any of the three, SwapViewsKeeps gives the invariant back.
LEMMA UpdateViewKeeps ==
  ASSUME Inv, MapKeeps',
         NEW s \in Objects, NEW entered, NEW leaved,
         UpdateView(s, entered, leaved), UNCHANGED <<dead, online>>,
         \A a, b \in Objects \ {s} : Near(a, b)' <=> Near(a, b),
         \A a \in Objects \ {s} :
           /\ a \in entered \cap objects <=> ~Near(s, a) /\ Near(s, a)'
           /\ a \in leaved \cap objects <=> Near(s, a) /\ ~Near(s, a)'
  PROVE  Inv'
<1>1. Mutual
  BY NearIsMutual DEF Inv
<1>2. Mutual'
  <2>1. \A o \in objects' : id2CellPos'[o] \in Cells
    BY DEF MapKeeps, GridMatchesIndex
  <2>. QED BY <2>1, NeighborsAreMutual DEF Mutual, Near
<1>3. Watchable(s, leaved) =
        {t \in Objects : Watching(s, t) /\ Near(s, t) /\ ~Near(s, t)'}
  BY DEF Watchable, Watching, Inv, TypeOK
<1>4. Watchable(s, entered) =
        {t \in Objects : Watching(s, t) /\ ~Near(s, t) /\ Near(s, t)'}
  BY DEF Watchable, Watching, Inv, TypeOK
<1>5. SwapViews(s, Watchable(s, entered), Watchable(s, leaved))
  BY DEF UpdateView
<1>6. /\ ViewIsNeighbourhood'
      /\ viewList' \in [Objects -> [Objects -> Nat]]
      /\ shown' \in [Players -> [Objects -> Int]]
      /\ wakeUp' \in [Monsters -> BOOLEAN]
      /\ ClientsInStep'
      /\ WatchedAwake'
  BY <1>1, <1>2, <1>3, <1>4, <1>5, SwapViewsKeeps
<1>. QED
  BY <1>6 DEF Inv, TypeOK, MapKeeps

-----------------------------------------------------------------------------

\* A move to another cell keeps the invariant, by UpdateViewKeeps.
LEMMA ChangeCellKeeps ==
  ASSUME Inv, NEW o \in objects, NEW c \in Cells, ChangeCell(o, c)
  PROVE  Inv'
<1>. DEFINE old == GetNeighborCells(id2CellPos[o])
            new == GetNeighborCells(c)
<1>0. /\ Shift(o, c)
      /\ UpdateView(o, Collect(grid, new \ old), Collect(grid, old \ new))
      /\ UNCHANGED <<objects, players, dead, online>>
  BY DEF ChangeCell
<1>1. old \subseteq Cells /\ new \subseteq Cells /\ o \in Objects
  BY DEF GetNeighborCells, Inv, TypeOK
<1>2. \A a \in Objects \ {o} : Near(o, a)' <=> a \in Collect(grid, new)
  BY <1>0, ShiftKeepsMap
<1>3. \A a \in Objects : Near(o, a) <=> a \in Collect(grid, old)
  BY <1>1, CollectFinds DEF Near, Inv
<1>4. \A a \in Objects \ {o} :
        /\ a \in Collect(grid, new \ old) \cap objects
             <=> ~Near(o, a) /\ Near(o, a)'
        /\ a \in Collect(grid, old \ new) \cap objects
             <=> Near(o, a) /\ ~Near(o, a)'
  <2>1. \A a \in Objects : a \in Collect(grid, new \ old)
          <=> a \in Collect(grid, new) /\ a \notin Collect(grid, old)
    BY <1>1, CollectFinds DEF Inv
  <2>2. \A a \in Objects : a \in Collect(grid, old \ new)
          <=> a \in Collect(grid, old) /\ a \notin Collect(grid, new)
    BY <1>1, CollectFinds DEF Inv
  <2>3. \A a \in Objects :
          a \in Collect(grid, old) \/ a \in Collect(grid, new) => a \in objects
    BY <1>1, CollectFinds DEF Inv
  <2>. QED BY <2>1, <2>2, <2>3, <1>2, <1>3
<1>5. MapKeeps' /\ \A a, b \in Objects \ {o} : Near(a, b)' <=> Near(a, b)
  BY <1>0, ShiftKeepsMap
<1>. QED BY <1>0, <1>1, <1>4, <1>5, UpdateViewKeeps

\* So does an entry,
LEMMA EnterKeeps ==
  ASSUME Inv, NEW o \in Objects \ objects, NEW c \in Cells,
         Place(o, c), objects' = objects \cup {o},
         players' = objects' \cap Players,
         UpdateView(o, Members(c), {}), UNCHANGED <<dead, online>>
  PROVE  Inv'
<1>1. /\ MapKeeps'
      /\ \A a \in Objects \ {o} : Near(o, a)' <=> a \in Members(c)
      /\ \A a, b \in Objects \ {o} : Near(a, b)' <=> Near(a, b)
  BY EnterKeepsMap DEF Members
<1>2. Members(c) \subseteq objects
  BY CollectFinds DEF Members, GetNeighborCells, Inv
<1>3. \A a \in Objects : ~Near(o, a)
  BY DEF Near
<1>4. \A a \in Objects \ {o} :
        /\ a \in Members(c) \cap objects <=> ~Near(o, a) /\ Near(o, a)'
        /\ a \in {} \cap objects <=> Near(o, a) /\ ~Near(o, a)'
  BY <1>1, <1>2, <1>3
<1>. QED BY <1>1, <1>4, UpdateViewKeeps

\* and a leave.
LEMMA LeaveKeeps ==
  ASSUME Inv, NEW p \in players, PlayerLeaveRoom(p)
  PROVE  Inv'
<1>1. /\ p \in objects /\ p \in Objects
      /\ id2CellPos[p] \in Cells
      /\ objects' = objects \ {p}
      /\ players' = objects' \cap Players
  BY DEF PlayerLeaveRoom, Inv, TypeOK, GridMatchesIndex
<1>2. /\ MapKeeps'
      /\ \A a \in Objects : ~Near(p, a)' /\ ~Near(a, p)'
      /\ \A a, b \in Objects \ {p} : Near(a, b)' <=> Near(a, b)
  BY <1>1, LeaveKeepsMap DEF PlayerLeaveRoom
<1>3. \A a \in Objects : Near(p, a) <=> a \in Members(id2CellPos[p]) \cap objects
  BY <1>1, CollectFinds DEF Near, Members, GetNeighborCells, Inv
<1>4. \A a \in Objects \ {p} :
        /\ a \in {} \cap objects <=> ~Near(p, a) /\ Near(p, a)'
        /\ a \in Members(id2CellPos[p]) \cap objects
             <=> Near(p, a) /\ ~Near(p, a)'
  BY <1>2, <1>3
<1>5. /\ UpdateView(p, {}, Members(id2CellPos[p]))
      /\ UNCHANGED <<dead, online>>
  BY DEF PlayerLeaveRoom
<1>. QED BY <1>1, <1>2, <1>4, <1>5, UpdateViewKeeps

-----------------------------------------------------------------------------

\* The empty room satisfies the invariant.
LEMMA InvInit == Init => Inv
<1>. SUFFICES ASSUME Init PROVE Inv
  OBVIOUS
<1>1. TypeOK
  BY DEF Init, TypeOK
<1>2. players = objects \cap Players
  BY DEF Init
<1>3. GridMatchesIndex
  BY DEF Init, GridMatchesIndex
<1>4. ViewIsNeighbourhood
  BY DEF Init, ViewIsNeighbourhood, Near
<1>5. ClientsInStep
  BY DEF Init, ClientsInStep
<1>6. WatchedAwake
  BY DEF Init, WatchedAwake
<1>. QED BY <1>1, <1>2, <1>3, <1>4, <1>5, <1>6 DEF Inv

\* Every step keeps it.
LEMMA InvNext == Inv /\ [Next]_vars => Inv'
<1>. SUFFICES ASSUME Inv, [Next]_vars PROVE Inv'
  OBVIOUS
<1>0. /\ players = objects \cap Players
      /\ Players \cap Monsters = {}
  BY RoomAssumption DEF Inv
<1>1. ASSUME NEW m \in Monsters, NEW c \in Cells, NpcEnterRoom(m, c)
      PROVE  Inv'
  BY <1>0, <1>1, EnterKeeps DEF NpcEnterRoom
<1>2. ASSUME NEW p \in Players, NEW c \in Cells, PlayerEnterRoom(p, c)
      PROVE  Inv'
  BY <1>0, <1>2, EnterKeeps DEF PlayerEnterRoom
<1>3. ASSUME NEW p \in Players, NEW c \in Cells, PlayerMove(p, c)
      PROVE  Inv'
  <2>1. p \in objects /\ ChangeCell(p, c)
    BY <1>0, <1>3 DEF PlayerMove
  <2>. QED BY <2>1, ChangeCellKeeps
<1>4. ASSUME NEW m \in Monsters, NEW c \in Cells, NPCMove(m, c)
      PROVE  Inv'
  <2>1. m \in objects /\ ChangeCell(m, c)
    BY <1>4 DEF NPCMove
  <2>. QED BY <2>1, ChangeCellKeeps
<1>5. ASSUME NEW p \in Players, PlayerLeaveRoom(p)
      PROVE  Inv'
  BY <1>5, LeaveKeeps DEF PlayerLeaveRoom
<1>6. ASSUME NEW p \in Players, Disconnect(p)
      PROVE  Inv'
  <2>. USE <1>6 DEF Inv, Disconnect, mapVars, viewVars
  <2>1. TypeOK'
    BY DEF TypeOK
  <2>2. GridMatchesIndex' /\ ViewIsNeighbourhood'
    BY DEF GridMatchesIndex, ViewIsNeighbourhood, Near
  <2>3. ClientsInStep'
    <3>1. \A q \in Players : online'[q] => online[q]
      BY DEF TypeOK
    <3>. QED BY <3>1 DEF ClientsInStep
  <2>4. WatchedAwake'
    BY DEF WatchedAwake
  <2>. QED BY <2>1, <2>2, <2>3, <2>4
<1>7. ASSUME NEW m \in Monsters, OnDead(m)
      PROVE  Inv'
  <2>. USE <1>7 DEF Inv, OnDead, mapVars, viewVars
  <2>1. TypeOK'
    BY DEF TypeOK
  <2>2. GridMatchesIndex' /\ ViewIsNeighbourhood' /\ ClientsInStep'
    BY DEF GridMatchesIndex, ViewIsNeighbourhood, Near, ClientsInStep
  <2>3. WatchedAwake'
    <3>1. \A n \in Monsters : ~dead'[n] => ~dead[n]
      BY DEF TypeOK
    <3>. QED BY <3>1 DEF WatchedAwake
  <2>. QED BY <2>1, <2>2, <2>3
<1>8. CASE UNCHANGED vars
  <2>. USE <1>8 DEF vars, Inv
  <2>1. TypeOK'
    BY DEF TypeOK
  <2>2. GridMatchesIndex'
    BY DEF GridMatchesIndex
  <2>3. ViewIsNeighbourhood'
    BY DEF ViewIsNeighbourhood, Near
  <2>4. ClientsInStep' /\ WatchedAwake'
    BY DEF ClientsInStep, WatchedAwake
  <2>. QED BY <2>1, <2>2, <2>3, <2>4
<1>. QED
  BY <1>1, <1>2, <1>3, <1>4, <1>5, <1>6, <1>7, <1>8 DEF Next

\* The invariant holds in every reachable state of the room.
THEOREM Invariance == Spec => []Inv
BY InvInit, InvNext, PTL DEF Spec

\* The variables keep their types, whatever the players, monsters and grid
\* (Room.h, GameMap.h).
THEOREM TypeCorrectness == Spec => []TypeOK
BY Invariance, PTL DEF Inv

\* GameMap's grid and its index agree, and hold just the objects of the room
\* (EnterMap, UpdateMap, LeaveMap).
THEOREM GridMatchesIndexHolds == Spec => []GridMatchesIndex
BY Invariance, PTL DEF Inv

\* The lists that Room::UpdateView keeps by differences are the neighbourhoods.
THEOREM ViewIsNeighbourhoodHolds == Spec => []ViewIsNeighbourhood
BY Invariance, PTL DEF Inv

\* A connected client shows just its view: no ghosts, no invisible neighbours.
THEOREM ClientsShowTheirViewHolds == Spec => []ClientsShowTheirView
<1>1. Inv => ClientsShowTheirView
  BY DEF Inv, TypeOK, ClientsInStep, ClientsShowTheirView
<1>. QED BY <1>1, Invariance, PTL

\* A live monster is awake just while a player sees it (WakeUpByPlayer,
\* SleepIfNoPlayer).
THEOREM AwakeIffWatchedHolds == Spec => []AwakeIffWatched
<1>1. Inv => AwakeIffWatched
  <2>. SUFFICES ASSUME Inv, NEW m \in Monsters, ~dead[m]
                PROVE  wakeUp[m] <=> \E p \in players : viewList[p][m] > 0
    BY DEF AwakeIffWatched
  <2>1. wakeUp[m] <=> \E p \in Players : viewList[p][m] > 0
    BY DEF Inv, WatchedAwake
  <2>2. \A p \in Players : viewList[p][m] > 0 => p \in players
    BY DEF Inv, ViewIsNeighbourhood, Near
  <2>3. players \subseteq Players
    BY DEF Inv, TypeOK
  <2>. QED BY <2>1, <2>2, <2>3
<1>. QED BY <1>1, Invariance, PTL
=============================================================================
