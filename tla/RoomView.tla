------------------------------ MODULE RoomView ------------------------------
(***************************************************************************)
(* Who sees whom in one Room: the grid of GameMap (GameMap.cpp), the view  *)
(* lists that Room::UpdateView keeps (Room.cpp), the wake-up flags of the  *)
(* monsters (Monster.cpp), and what each client has been told.             *)
(*                                                                         *)
(* A room's jobs run one at a time (module JobQueue), so each job is one   *)
(* action.  A session can disconnect at any moment; what is sent to it     *)
(* after that is dropped.                                                  *)
(***************************************************************************)
EXTENDS Integers

CONSTANTS
  Players,   \* player ids
  Monsters,  \* monster ids
  Width,     \* _gridWidth
  Height,    \* _gridHeight
  NoCell

ASSUME RoomAssumption ==
  /\ Players \cap Monsters = {}
  /\ Width \in Nat \ {0} /\ Height \in Nat \ {0}

VIEW_RANGE_CELLS == 1

Objects == Players \cup Monsters
Cells == (0..(Width - 1)) \X (0..(Height - 1))

ASSUME NoCellAssumption == NoCell \notin Cells

VARIABLES
  objects,    \* keys of _objects
  players,    \* keys of _players
  grid,       \* _grid: cell -> the ids in it
  id2CellPos, \* _id2CellPos: id -> its cell, or NoCell
  viewList,   \* _viewList: how often the second id is in the list of the first
  wakeUp,     \* _wakeUp of each monster
  dead,       \* IsDead() of each monster
  online,     \* _connected of each player's session
  shown       \* client -> other id -> SC_ADD_OBJECTs less SC_REMOVE_OBJECTs

vars == <<objects, players, grid, id2CellPos, viewList, wakeUp, dead, online,
          shown>>

mapVars == <<grid, id2CellPos>>
viewVars == <<viewList, wakeUp, shown>>

TypeOK ==
  /\ objects \subseteq Objects
  /\ players \subseteq Players
  /\ grid \in [Cells -> SUBSET Objects]
  /\ id2CellPos \in [Objects -> Cells \cup {NoCell}]
  /\ viewList \in [Objects -> [Objects -> Nat]]
  /\ wakeUp \in [Monsters -> BOOLEAN]
  /\ dead \in [Monsters -> BOOLEAN]
  /\ online \in [Players -> BOOLEAN]
  /\ shown \in [Players -> [Objects -> Int]]

\* The map is empty when the room is made; InitRoom then adds the monsters.
Init ==
  /\ objects = {}
  /\ players = {}
  /\ grid = [c \in Cells |-> {}]
  /\ id2CellPos = [o \in Objects |-> NoCell]
  /\ viewList = [a \in Objects |-> [b \in Objects |-> 0]]
  /\ wakeUp = [m \in Monsters |-> FALSE]
  /\ dead = [m \in Monsters |-> FALSE]
  /\ online = [p \in Players |-> TRUE]
  /\ shown = [p \in Players |-> [o \in Objects |-> 0]]

-----------------------------------------------------------------------------
(* GameMap.                                                                *)

GetNeighborCells(c) ==
  {d \in Cells : /\ d[1] \in (c[1] - VIEW_RANGE_CELLS)..(c[1] + VIEW_RANGE_CELLS)
                 /\ d[2] \in (c[2] - VIEW_RANGE_CELLS)..(c[2] + VIEW_RANGE_CELLS)}

\* The ids that g, a grid, has in a set of cells.
Collect(g, cells) == UNION {g[c] : c \in cells}

Place(o, c) ==
  /\ grid' = [grid EXCEPT ![c] = @ \cup {o}]
  /\ id2CellPos' = [id2CellPos EXCEPT ![o] = c]

Shift(o, c) ==
  /\ grid' = [d \in Cells |-> IF d = c THEN grid[d] \cup {o} ELSE grid[d] \ {o}]
  /\ id2CellPos' = [id2CellPos EXCEPT ![o] = c]

Lift(o) ==
  /\ grid' = [grid EXCEPT ![id2CellPos[o]] = @ \ {o}]
  /\ id2CellPos' = [id2CellPos EXCEPT ![o] = NoCell]

-----------------------------------------------------------------------------
(* Room::UpdateView.                                                       *)

\* Two characters can be in each other's view list: one must be a player.
Watching(a, b) == a # b /\ (a \in Players \/ b \in Players)

\* Character::RemoveView: one occurrence, if there is one.
Less(n) == IF n > 0 THEN n - 1 ELSE 0

Either(a, b, s, ts) == (a = s /\ b \in ts) \/ (b = s /\ a \in ts)

\* The lists once s and the targets L have left each other's view.
Remaining(s, L) == [a \in Objects |-> [b \in Objects |->
  IF Either(a, b, s, L) THEN Less(viewList[a][b]) ELSE viewList[a][b]]]

\* Mutant: asleep as soon as one player has left.
Asleep_OneLeft(m, list) == IF ~dead[m] THEN FALSE ELSE wakeUp[m]

\* Monster::SleepIfNoPlayer, on a monster that a player has left and whose view
\* list is now list.
Asleep(m, list) ==
  IF ~dead[m] /\ (\A b \in Objects : list[b] = 0) THEN FALSE ELSE wakeUp[m]

\* Monster::WakeUpByPlayer, on a monster whose flag is flag.
Awake(m, flag) == IF dead[m] THEN flag ELSE TRUE

PlayerIn(m, s, ts) == \E p \in Players : Either(m, p, s, ts)

\* Mutant: the client that moves away is not told, only those it leaves.
Tell_OthersOnly(s, E, L) ==
  shown' = [p \in Players |-> [o \in Objects |->
    IF online[p]
    THEN shown[p][o] + (IF Either(p, o, s, E) THEN 1 ELSE 0)
                     - (IF o = s /\ p \in L THEN 1 ELSE 0)
    ELSE shown[p][o]]]

\* What the clients are sent, each about the other: the leaving ones a
\* SC_REMOVE_OBJECT and then the entering ones a SC_ADD_OBJECT.
Tell(s, E, L) ==
  shown' = [p \in Players |-> [o \in Objects |->
    IF online[p]
    THEN shown[p][o] + (IF Either(p, o, s, E) THEN 1 ELSE 0)
                     - (IF Either(p, o, s, L) THEN 1 ELSE 0)
    ELSE shown[p][o]]]

\* First the targets L of s and s leave each other's view, then E and s enter it.
SwapViews(s, E, L) ==
  LET left == Remaining(s, L)
      Slept(m) == IF PlayerIn(m, s, L) THEN Asleep(m, left[m]) ELSE wakeUp[m]
  IN
  /\ viewList' = [a \in Objects |-> [b \in Objects |->
       IF Either(a, b, s, E) THEN left[a][b] + 1 ELSE left[a][b]]]
  /\ wakeUp' = [m \in Monsters |->
       IF PlayerIn(m, s, E) THEN Awake(m, Slept(m)) ELSE Slept(m)]
  /\ Tell(s, E, L)

\* Of the ids that GameMap collected, those of characters that s can watch.
Watchable(s, ids) == {t \in ids \cap objects : Watching(s, t)}

UpdateView(s, entered, leaved) ==
  SwapViews(s, Watchable(s, entered), Watchable(s, leaved))

-----------------------------------------------------------------------------
(* The jobs of the room.                                                   *)

Members(c) == Collect(grid, GetNeighborCells(c))

\* InitRoom adds the monsters before the room takes its first job.
NpcEnterRoom(m, c) ==
  /\ m \in Monsters \ objects
  /\ objects' = objects \cup {m}
  /\ Place(m, c)
  /\ UpdateView(m, Members(c), {})
  /\ UNCHANGED <<players, dead, online>>

\* PlayerEnterRoom puts the player on its spawn point.  AddObject refuses a
\* player that is in the room.  (What a client is told of itself is left out.)
PlayerEnterRoom(p, c) ==
  /\ Monsters \subseteq objects
  /\ p \in Players \ objects
  /\ objects' = objects \cup {p}
  /\ players' = players \cup {p}
  /\ Place(p, c)
  /\ UpdateView(p, Members(c), {})
  /\ UNCHANGED <<dead, online>>

\* PlayerLeaveRoom is pushed by Disconnect.
PlayerLeaveRoom(p) ==
  /\ p \in players
  /\ ~online[p]
  /\ objects' = objects \ {p}
  /\ players' = players \ {p}
  /\ Lift(p)
  /\ UpdateView(p, {}, Members(id2CellPos[p]))
  /\ UNCHANGED <<dead, online>>

\* Mutant: all of the new area enters the view, not only what is new in it.
ChangeCell_WholeArea(o, c) ==
  LET old == GetNeighborCells(id2CellPos[o])
      new == GetNeighborCells(c)
  IN
  /\ c # id2CellPos[o]
  /\ Shift(o, c)
  /\ UpdateView(o, Collect(grid, new), Collect(grid, old \ new))
  /\ UNCHANGED <<objects, players, dead, online>>

\* UpdateMap and UpdateView, for an object that is in another cell now.
ChangeCell(o, c) ==
  LET old == GetNeighborCells(id2CellPos[o])
      new == GetNeighborCells(c)
  IN
  /\ c # id2CellPos[o]
  /\ Shift(o, c)
  /\ UpdateView(o, Collect(grid, new \ old), Collect(grid, old \ new))
  /\ UNCHANGED <<objects, players, dead, online>>

\* A move within the cell, and one that CanMove refuses, change no view.
PlayerMove(p, c) == p \in players /\ ChangeCell(p, c)

\* A tick of an awake monster on its way.
NPCMove(m, c) ==
  /\ m \in Monsters \cap objects
  /\ wakeUp[m] /\ ~dead[m]
  /\ ChangeCell(m, c)

\* A hit kills a monster, be it one that lands when nobody sees it any more.  It
\* stays in the room.
OnDead(m) ==
  /\ m \in Monsters \cap objects
  /\ ~dead[m]
  /\ dead' = [dead EXCEPT ![m] = TRUE]
  /\ UNCHANGED <<objects, players, online, mapVars, viewVars>>

Disconnect(p) ==
  /\ online[p]
  /\ online' = [online EXCEPT ![p] = FALSE]
  /\ UNCHANGED <<objects, players, dead, mapVars, viewVars>>

Next ==
  \/ \E m \in Monsters, c \in Cells : NpcEnterRoom(m, c) \/ NPCMove(m, c)
  \/ \E p \in Players, c \in Cells : PlayerEnterRoom(p, c) \/ PlayerMove(p, c)
  \/ \E p \in Players : PlayerLeaveRoom(p) \/ Disconnect(p)
  \/ \E m \in Monsters : OnDead(m)

Spec == Init /\ [][Next]_vars

-----------------------------------------------------------------------------
(* Properties *)

\* The two halves of GameMap agree: an id is in exactly the cell that
\* _id2CellPos names, and the ids on the map are the objects of the room.
GridMatchesIndex ==
  /\ \A c \in Cells : grid[c] = {o \in objects : id2CellPos[o] = c}
  /\ \A o \in Objects : id2CellPos[o] = NoCell <=> o \notin objects

\* b is in the area around a.
Near(a, b) ==
  /\ a \in objects /\ b \in objects
  /\ id2CellPos[b] \in GetNeighborCells(id2CellPos[a])

\* However objects enter, move and leave, the view list of a character holds,
\* once each, the characters in the 3x3 cells around it, monsters seeing only
\* players; who is not in the room is in no list.  (Room.cpp keeps the lists by
\* differences; GameMap.cpp:78 wants all that was in view removed on leaving.)
ViewIsNeighbourhood ==
  \A a, b \in Objects :
    viewList[a][b] = IF Watching(a, b) /\ Near(a, b) THEN 1 ELSE 0

\* Each connected client has been sent one SC_ADD_OBJECT for every character
\* in its view, and a SC_REMOVE_OBJECT for every other it was ever shown: no
\* ghosts and no invisible neighbours, and BroadcastAOI reaches exactly the
\* clients that show the character.
ClientsShowTheirView ==
  \A p \in players : online[p] =>
    \A o \in Objects \ {p} : shown[p][o] = viewList[p][o]

\* A live monster is awake just while a player sees it (Monster.cpp:302 takes
\* an empty list to mean that there is no player).
AwakeIffWatched ==
  \A m \in Monsters : ~dead[m] =>
    (wakeUp[m] <=> \E p \in players : viewList[p][m] > 0)
=============================================================================
