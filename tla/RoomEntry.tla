----------------------------- MODULE RoomEntry -----------------------------
(***************************************************************************)
(* From login to leaving: PacketHandler, the login answer of DatabaseWorker *)
(* and AuthLobby, RoomManager::EnterPlayer, Session::Disconnect, and the   *)
(* jobs by which a Room lets players in and out.                           *)
(*                                                                         *)
(* These run on different threads.  EnterPlayer is serialised by the       *)
(* RoomManager's lock, the jobs of a room and of the lobby by their        *)
(* JobQueue, and Disconnect, which any thread may call that sends or       *)
(* receives for the session, by nothing but the exchange of _connected.    *)
(***************************************************************************)
EXTENDS Naturals, Sequences, FiniteSets, Functions

CONSTANTS
  Sessions,   \* clients, each with one session
  Rooms,      \* rooms that can be created
  FirstRoom,  \* the room that main creates
  NoRoom,
  Capacity,   \* MAX_ROOM_CAPACITY
  MaxLogins,  \* bound: login requests of a session
  MaxEnters,  \* bound: CS_ENTER_ROOMs of a session
  MaxRequests \* bound: both, of all sessions together

ASSUME RoomEntryAssumption ==
  /\ FirstRoom \in Rooms /\ NoRoom \notin Rooms
  /\ Capacity \in Nat \ {0}
  /\ {MaxLogins, MaxEnters, MaxRequests} \subseteq Nat

\* The Player object that the k-th login of a session makes; its id is the
\* session's.  The 0-th is the null _currPlayer.
PlayerObjects == Sessions \X (1..MaxLogins)
Id(player) == player[1]

VARIABLES
  connected,   \* session -> _connected
  currPlayer,  \* session -> which Player _currPlayer is, 0 for null
  dbJobs,      \* session -> TryLogin jobs that wait for the database
  logins,      \* session -> CS_LOGINs it has sent
  lobbyJobs,   \* sessions whose OnLoginSuccess waits in the AuthLobby's queue
  lobbyAt,     \* "idle", or "checked" when its first job saw IsConnected
  enters,      \* session -> CS_ENTER_ROOMs it has sent
  ownerRoom,   \* player -> _ownerRoom
  rooms,       \* keys of RoomManager's _rooms
  full,        \* the rooms EnterPlayer has found full, each with its player
  entering,    \* the player and room that EnterPlayer is at, in a set, or {}
  closing,     \* session -> where its Disconnect is
  found,       \* session -> the room its Disconnect found
  roomJobs,    \* room -> enter and leave jobs in its queue
  stranded,    \* room -> they came while its queue was being left
  players,     \* room -> the Player objects in _players
  crashed      \* a null player was dereferenced

vars == <<connected, currPlayer, dbJobs, logins, lobbyJobs, lobbyAt, enters,
          ownerRoom, rooms, full, entering, closing, found, roomJobs, stranded,
          players, crashed>>

loginVars == <<currPlayer, dbJobs, logins, lobbyJobs, lobbyAt>>
closeVars == <<connected, closing, found>>
managerVars == <<rooms, full, entering>>
roomVars == <<roomJobs, stranded, players>>

Jobs == [kind : {"enter", "leave"}, player : PlayerObjects]
EnterJob(player) == [kind |-> "enter", player |-> player]
LeaveJob(player) == [kind |-> "leave", player |-> player]

TypeOK ==
  /\ connected \in [Sessions -> BOOLEAN]
  /\ currPlayer \in [Sessions -> 0..MaxLogins]
  /\ dbJobs \in [Sessions -> Nat]
  /\ logins \in [Sessions -> 0..MaxLogins]
  /\ lobbyJobs \in Seq(Sessions) /\ lobbyAt \in {"idle", "checked"}
  /\ enters \in [Sessions -> 0..MaxEnters]
  /\ ownerRoom \in [PlayerObjects -> Rooms \cup {NoRoom}]
  /\ rooms \in SUBSET Rooms
  /\ {full, entering} \subseteq SUBSET (PlayerObjects \X Rooms)
  /\ closing \in [Sessions -> {"no", "find", "push", "released"}]
  /\ found \in [Sessions -> Rooms \cup {NoRoom}]
  /\ roomJobs \in [Rooms -> Seq(Jobs)] /\ stranded \in [Rooms -> BOOLEAN]
  /\ players \in [Rooms -> SUBSET PlayerObjects]
  /\ crashed \in BOOLEAN

Init ==
  /\ connected = [s \in Sessions |-> TRUE]
  /\ currPlayer = [s \in Sessions |-> 0]
  /\ dbJobs = [s \in Sessions |-> 0]
  /\ logins = [s \in Sessions |-> 0]
  /\ lobbyJobs = <<>>
  /\ lobbyAt = "idle"
  /\ enters = [s \in Sessions |-> 0]
  /\ ownerRoom = [p \in PlayerObjects |-> NoRoom]
  /\ rooms = {FirstRoom}
  /\ full = {} /\ entering = {}
  /\ closing = [s \in Sessions |-> "no"]
  /\ found = [s \in Sessions |-> NoRoom]
  /\ roomJobs = [r \in Rooms |-> <<>>] /\ stranded = [r \in Rooms |-> FALSE]
  /\ players = [r \in Rooms |-> {}]
  /\ crashed = FALSE

-----------------------------------------------------------------------------
(* Login.                                                                  *)

Sum(counts) == FoldFunction(+, 0, counts)
MoreRequests == Sum(logins) + Sum(enters) < MaxRequests

\* A packet that was received before the session closed can still be handled.
HandleLogin(s) ==
  /\ logins[s] < MaxLogins /\ MoreRequests
  /\ logins' = [logins EXCEPT ![s] = @ + 1]
  /\ dbJobs' = [dbJobs EXCEPT ![s] = @ + 1]
  /\ UNCHANGED <<currPlayer, lobbyJobs, lobbyAt, enters, ownerRoom,
                 managerVars, closeVars, roomVars, crashed>>

\* The database threads answer in any order; OnLoginFailed, and no answer when
\* the query fails, change nothing.
TryLogin(s, accepted) ==
  /\ dbJobs[s] > 0
  /\ dbJobs' = [dbJobs EXCEPT ![s] = @ - 1]
  /\ lobbyJobs' = IF accepted THEN Append(lobbyJobs, s) ELSE lobbyJobs
  /\ UNCHANGED <<currPlayer, logins, lobbyAt, enters, ownerRoom,
                 managerVars, closeVars, roomVars, crashed>>

\* OnLoginSuccess tests IsConnected and then makes the Player.
CheckConnected ==
  /\ lobbyAt = "idle" /\ lobbyJobs # <<>>
  /\ \/ /\ connected[Head(lobbyJobs)]
        /\ lobbyAt' = "checked"
        /\ UNCHANGED lobbyJobs
     \/ /\ ~connected[Head(lobbyJobs)]
        /\ lobbyJobs' = Tail(lobbyJobs)
        /\ UNCHANGED lobbyAt
  /\ UNCHANGED <<currPlayer, dbJobs, logins, enters, ownerRoom,
                 managerVars, closeVars, roomVars, crashed>>

OnLoginSuccess ==
  /\ lobbyAt = "checked"
  /\ currPlayer' = [currPlayer EXCEPT ![Head(lobbyJobs)] = @ + 1]
  /\ lobbyJobs' = Tail(lobbyJobs)
  /\ lobbyAt' = "idle"
  /\ UNCHANGED <<dbJobs, logins, enters, ownerRoom, managerVars,
                 closeVars, roomVars, crashed>>

-----------------------------------------------------------------------------
(* RoomManager::EnterPlayer, under the RoomManager's lock.                 *)

\* NumPlayers() is read without regard to jobs that wait in the room's queue.
HasRoom(r) == Cardinality(players[r]) < Capacity

\* Player p's EnterPlayer has the lock; it is the session's player at the call.
Enters(p) ==
  /\ entering = {}
  /\ \/ /\ full = {} /\ p[2] = currPlayer[Id(p)]
        /\ enters[Id(p)] < MaxEnters /\ MoreRequests
        /\ enters' = [enters EXCEPT ![Id(p)] = @ + 1]
     \/ full # {} /\ full \subseteq {p} \X Rooms /\ UNCHANGED enters

\* The rooms are asked one after the other, while players come and go in them.
\* Bound: that the last of Rooms is full, when there is none left to create.
AskRoom(p, r) ==
  /\ Enters(p)
  /\ r \in rooms /\ <<p, r>> \notin full /\ ~HasRoom(r)
  /\ full' = full \cup {<<p, r>>} /\ full' # {p} \X Rooms
  /\ UNCHANGED <<loginVars, ownerRoom, rooms, entering, closeVars, roomVars,
                 crashed>>

\* A room that has space becomes the player's owner.
ChooseRoom(p, r) ==
  /\ Enters(p)
  /\ r \in rooms /\ <<p, r>> \notin full /\ HasRoom(r)
  /\ ownerRoom' = [ownerRoom EXCEPT ![p] = r]
  /\ entering' = {<<p, r>>} /\ full' = {}
  /\ UNCHANGED <<loginVars, rooms, closeVars, roomVars, crashed>>

\* With none, one is created; the player gets its owner when it is let in.
CreateRoom(p, r) ==
  /\ Enters(p)
  /\ full = {p} \X rooms
  /\ r \in Rooms \ rooms
  /\ rooms' = rooms \cup {r}
  /\ entering' = {<<p, r>>} /\ full' = {}
  /\ UNCHANGED <<loginVars, ownerRoom, closeVars, roomVars, crashed>>

\* Handle_CS_ENTER_ROOM does not test _currPlayer.
EnterWithoutLogin(s) ==
  /\ enters[s] < MaxEnters /\ MoreRequests /\ entering = {} /\ full = {}
  /\ currPlayer[s] = 0
  /\ crashed' = TRUE
  /\ UNCHANGED <<loginVars, enters, ownerRoom, managerVars, closeVars,
                 roomVars>>

\* Room::PushJob.  A worker is on the queue or is posted, but what is pushed just
\* after it found the queue empty, having run a job of whatever kind, waits for
\* the next push (JobQueue.h:32-37; RoomTick has that window step by step).
PushJob(r, job) ==
  /\ roomJobs' = [roomJobs EXCEPT ![r] = Append(@, job)]
  /\ \/ stranded' = [stranded EXCEPT ![r] = FALSE]
     \/ /\ roomJobs[r] = <<>> \/ stranded[r]
        /\ stranded' = [stranded EXCEPT ![r] = TRUE]

PushEnter(player, r) ==
  /\ <<player, r>> \in entering
  /\ PushJob(r, EnterJob(player))
  /\ entering' = {}
  /\ UNCHANGED <<loginVars, enters, ownerRoom, rooms, full, closeVars, players,
                 crashed>>

-----------------------------------------------------------------------------
(* Session::Disconnect.                                                    *)

\* Mutant: the player is dropped before its room is asked for.
Disconnect_DropsPlayer(s) ==
  /\ connected[s]
  /\ connected' = [connected EXCEPT ![s] = FALSE]
  /\ closing' = [closing EXCEPT ![s] = "find"]
  /\ currPlayer' = [currPlayer EXCEPT ![s] = 0]
  /\ UNCHANGED <<dbJobs, logins, lobbyJobs, lobbyAt, enters, ownerRoom,
                 managerVars, found, roomVars, crashed>>

Disconnect(s) ==
  /\ connected[s]
  /\ connected' = [connected EXCEPT ![s] = FALSE]
  /\ closing' = [closing EXCEPT ![s] = "find"]
  /\ UNCHANGED <<loginVars, enters, ownerRoom, managerVars, found,
                 roomVars, crashed>>

\* _currPlayer->GetCurrentRoom(): of a client that has not logged in, a null
\* dereference.
FindRoom(s) ==
  /\ closing[s] = "find"
  /\ crashed' = (currPlayer[s] = 0)
  /\ found' = [found EXCEPT ![s] =
       IF currPlayer[s] = 0 THEN NoRoom ELSE ownerRoom[<<s, currPlayer[s]>>]]
  /\ closing' = [closing EXCEPT ![s] =
       IF found'[s] = NoRoom THEN "released" ELSE "push"]
  /\ UNCHANGED <<loginVars, enters, ownerRoom, managerVars, connected,
                 roomVars>>

\* Mutant: the leave goes to the first room, whichever the player is in.
PushLeave_FirstRoom(s) ==
  /\ closing[s] = "push"
  /\ PushJob(FirstRoom, LeaveJob(<<s, currPlayer[s]>>))
  /\ closing' = [closing EXCEPT ![s] = "released"]
  /\ UNCHANGED <<loginVars, enters, ownerRoom, managerVars, connected,
                 found, players, crashed>>

PushLeave(s) ==
  /\ closing[s] = "push"
  /\ PushJob(found[s], LeaveJob(<<s, currPlayer[s]>>))
  /\ closing' = [closing EXCEPT ![s] = "released"]
  /\ UNCHANGED <<loginVars, enters, ownerRoom, managerVars, connected,
                 found, players, crashed>>

-----------------------------------------------------------------------------
(* The jobs of a room.                                                     *)

Ids(set) == {Id(p) : p \in set}
Runs(r) == ~stranded[r] /\ roomJobs[r] # <<>>

\* AddObject refuses an id that is in the room.
PlayerEnterRoom(r) ==
  /\ Runs(r) /\ Head(roomJobs[r]).kind = "enter"
  /\ LET p == Head(roomJobs[r]).player IN
     \/ /\ Id(p) \notin Ids(players[r])
        /\ players' = [players EXCEPT ![r] = @ \cup {p}]
        /\ ownerRoom' = [ownerRoom EXCEPT ![p] = r]
     \/ Id(p) \in Ids(players[r]) /\ UNCHANGED <<players, ownerRoom>>
  /\ roomJobs' = [roomJobs EXCEPT ![r] = Tail(@)]
  /\ UNCHANGED <<loginVars, enters, managerVars, closeVars, stranded, crashed>>

\* Mutant: the player is not erased.
PlayerLeaveRoom_Kept(r) ==
  /\ Runs(r) /\ Head(roomJobs[r]).kind = "leave"
  /\ roomJobs' = [roomJobs EXCEPT ![r] = Tail(@)]
  /\ UNCHANGED <<loginVars, enters, ownerRoom, managerVars, closeVars,
                 stranded, players, crashed>>

\* The player is removed by its id; a leave of an id that is not in the room
\* does nothing.
PlayerLeaveRoom(r) ==
  /\ Runs(r) /\ Head(roomJobs[r]).kind = "leave"
  /\ players' = [players EXCEPT
       ![r] = {p \in @ : Id(p) # Id(Head(roomJobs[r]).player)}]
  /\ roomJobs' = [roomJobs EXCEPT ![r] = Tail(@)]
  /\ UNCHANGED <<loginVars, enters, ownerRoom, managerVars, closeVars,
                 stranded, crashed>>

\* A push of another job, a tick or a packet of another player's, has the whole
\* queue run.
PushOther(r) ==
  /\ stranded[r]
  /\ stranded' = [stranded EXCEPT ![r] = FALSE]
  /\ UNCHANGED <<loginVars, enters, ownerRoom, managerVars, closeVars,
                 roomJobs, players, crashed>>

-----------------------------------------------------------------------------

Handle(s) == HandleLogin(s) \/ EnterWithoutLogin(s)
EnterPlayer(p, r) == AskRoom(p, r) \/ ChooseRoom(p, r) \/ CreateRoom(p, r)

\* The steps of a job or a handler that has begun.
Database == \E s \in Sessions, accepted \in BOOLEAN : TryLogin(s, accepted)
Lobby == CheckConnected \/ OnLoginSuccess
Finish(s) == FindRoom(s) \/ PushLeave(s)
Manager ==
  \E p \in PlayerObjects, r \in Rooms :
    PushEnter(p, r) \/ (full # {} /\ EnterPlayer(p, r))
RunRoom(r) == PlayerEnterRoom(r) \/ PlayerLeaveRoom(r)

Next ==
  /\ ~crashed
  /\ \/ \E s \in Sessions : Handle(s) \/ Disconnect(s) \/ Finish(s)
     \/ Database \/ Lobby \/ Manager
     \/ \E p \in PlayerObjects, r \in Rooms : EnterPlayer(p, r)
     \/ \E r \in Rooms : RunRoom(r) \/ PushOther(r)

Spec == Init /\ [][Next]_vars

\* A thread that has begun goes on, and a worker runs the jobs of a room's queue
\* unless they were stranded.  Nothing has to be pushed that would rescue those:
\* the tick may be among them.
Fairness ==
  /\ WF_vars(~crashed /\ Manager)
  /\ \A s \in Sessions : WF_vars(~crashed /\ Finish(s))
  /\ \A r \in Rooms : WF_vars(~crashed /\ RunRoom(r))

FairSpec == Spec /\ Fairness

-----------------------------------------------------------------------------
(* Properties *)

\* Where the enter and leave jobs of s wait in r's queue.
Waiting(s, r) == {k \in DOMAIN roomJobs[r] : Id(roomJobs[r][k].player) = s}

\* Once r's queue has drained, s will be in r.
Stays(s, r) ==
  IF Waiting(s, r) = {} THEN s \in Ids(players[r])
  ELSE \E k \in Waiting(s, r) : /\ roomJobs[r][k].kind = "enter"
                                /\ \A l \in Waiting(s, r) : l <= k

\* The session is gone, and nothing will take its player out of the room.
Ghost(s, r) == closing[s] = "released" /\ Stays(s, r)

\* The three ways, and no other, in which Disconnect can leave a player behind:
\* its entry is pushed only after Disconnect has pushed the leave
\* (Room.cpp:450-451); Disconnect finds no room, as the player entered a newly
\* created one that has not let it in yet (Room.cpp:455-456) or a new login has
\* replaced it; or it finds another room than the one the player is in.
LeftBehindOnlyBy ==
  [][\A s \in Sessions, r \in Rooms :
       Ghost(s, r)' /\ ~Ghost(s, r) =>
         \/ s \in Ids({e[1] : e \in entering})
         \/ closing[s] = "find"
              /\ (ownerRoom[<<s, currPlayer[s]>>] = NoRoom)
         \/ closing[s] = "push" /\ found[s] # r]_vars

\* A client that has logged in and asked to enter once.
Once(s) == logins[s] <= 1 /\ enters[s] <= 1

\* The server goes down only for a session that has no player: one that
\* disconnects (Session.cpp:63) or enters (PacketHandler.cpp:64) before its
\* login is answered.
CrashOnlyWithoutPlayer ==
  crashed => \E s \in Sessions :
    /\ currPlayer[s] = 0
    /\ closing[s] # "push"
    /\ \A r \in Rooms : s \notin Ids(players[r]) /\ Waiting(s, r) = {}

\* As long as the server is up, such a client's player that is in a room or waits
\* before it when its Disconnect finds that room is out of it in the end, and
\* nothing is on the way that would let it in again.  The exception is that the
\* room's queue stays stranded with a job of the player's in it, which nobody but
\* the next push to that room takes up.
LeaverDisappears ==
  \A s \in Sessions, r \in Rooms :
    \/ closing[s] = "push" /\ found[s] = r /\ s \notin Ids({e[1] : e \in entering}) ~>
         crashed \/ ~Once(s) \/ (s \notin Ids(players[r]) /\ Waiting(s, r) = {})
    \/ <>[](stranded[r] /\ Waiting(s, r) # {})
=============================================================================
