--------------------------- MODULE RoomEntryProofs ---------------------------
(***************************************************************************)
(* Proofs about RoomEntry, for every set of sessions and rooms.            *)
(*                                                                         *)
(* Every player in a room, in its queue or on the way to it was made by a  *)
(* login of its session that has been answered, and no answer is given     *)
(* twice: so who has no player has nothing in any room, and null is        *)
(* dereferenced for nobody else.                                           *)
(***************************************************************************)
EXTENDS RoomEntry, FiniteSetTheorems, SequenceTheorems, TLAPS

\* Where x occurs in a sequence.
Occurs(q, x) == {k \in DOMAIN q : q[k] = x}
Count(q, x) == Cardinality(Occurs(q, x))

\* Each login is with the database, in the lobby, answered or refused.
LoginInv ==
  \A s \in Sessions :
    currPlayer[s] + dbJobs[s] + Count(lobbyJobs, s) <= logins[s]

LobbyInv == lobbyAt = "checked" => lobbyJobs # <<>>

\* Who is in a room, before it or on the way to it has a player.
MadeInv ==
  /\ \A e \in full \cup entering : currPlayer[Id(e[1])] # 0
  /\ \A r \in Rooms : /\ \A p \in players[r] : currPlayer[Id(p)] # 0
                      /\ \A k \in DOMAIN roomJobs[r] :
                           currPlayer[Id(roomJobs[r][k].player)] # 0

\* A Disconnect that pushes a leave has found the player's room.
PushInv ==
  \A s \in Sessions : closing[s] = "push" => currPlayer[s] # 0 /\ found[s] \in Rooms

IInv ==
  TypeOK /\ LoginInv /\ LobbyInv /\ MadeInv /\ PushInv /\ CrashOnlyWithoutPlayer

-----------------------------------------------------------------------------

\* The occurrences are finite, so they can be counted.
LEMMA CountType ==
  ASSUME NEW S, NEW q \in Seq(S), NEW x
  PROVE  IsFiniteSet(Occurs(q, x)) /\ Count(q, x) \in Nat
<1>1. DOMAIN q = 1..Len(q) /\ Len(q) \in Nat
  OBVIOUS
<1>2. IsFiniteSet(1..Len(q))
  BY <1>1, FS_Interval
<1>3. Occurs(q, x) \subseteq 1..Len(q)
  BY <1>1 DEF Occurs
<1>4. IsFiniteSet(Occurs(q, x))
  BY <1>2, <1>3, FS_Subset
<1> QED
  BY <1>4, FS_CardinalityType DEF Count

\* Appending an element adds an occurrence of it and of nothing else.
LEMMA CountAppend ==
  ASSUME NEW S, NEW q \in Seq(S), NEW y \in S, NEW x
  PROVE  Count(Append(q, y), x) = IF x = y THEN Count(q, x) + 1 ELSE Count(q, x)
<1>1. /\ DOMAIN q = 1..Len(q) /\ Len(q) \in Nat
      /\ DOMAIN Append(q, y) = 1..(Len(q) + 1)
      /\ \A k \in 1..Len(q) : Append(q, y)[k] = q[k]
      /\ Append(q, y)[Len(q) + 1] = y
  BY AppendProperties
<1>2. CASE x = y
  <2>1. Occurs(Append(q, y), x) = Occurs(q, x) \cup {Len(q) + 1}
    BY <1>1, <1>2 DEF Occurs
  <2>2. Len(q) + 1 \notin Occurs(q, x)
    BY <1>1 DEF Occurs
  <2>3. IsFiniteSet(Occurs(q, x))
    BY CountType
  <2>4. Cardinality(Occurs(q, x) \cup {Len(q) + 1}) = Cardinality(Occurs(q, x)) + 1
    BY <2>2, <2>3, FS_AddElement
  <2> QED
    BY <1>2, <2>1, <2>4 DEF Count
<1>3. CASE x # y
  <2>1. Occurs(Append(q, y), x) = Occurs(q, x)
    BY <1>1, <1>3 DEF Occurs
  <2> QED
    BY <1>3, <2>1 DEF Count
<1> QED
  BY <1>2, <1>3

\* Taking the first element takes one occurrence of it and of nothing else.
LEMMA CountTail ==
  ASSUME NEW S, NEW q \in Seq(S), q # <<>>, NEW x
  PROVE  Count(Tail(q), x) = IF x = Head(q) THEN Count(q, x) - 1 ELSE Count(q, x)
<1> DEFINE Rest == Occurs(q, x) \ {1}
           shift == [k \in Rest |-> k - 1]
<1>1. /\ DOMAIN q = 1..Len(q) /\ Len(q) \in Nat \ {0} /\ Head(q) = q[1]
      /\ DOMAIN Tail(q) = 1..(Len(q) - 1)
      /\ \A k \in 1..(Len(q) - 1) : Tail(q)[k] = q[k + 1]
  BY HeadTailProperties
<1>2. IsFiniteSet(Occurs(q, x)) /\ Count(q, x) \in Nat
  BY CountType
<1>3. IsFiniteSet(Rest)
  BY <1>2, FS_RemoveElement
<1>4. Cardinality(Rest) = IF x = Head(q) THEN Count(q, x) - 1 ELSE Count(q, x)
  <2>1. 1 \in Occurs(q, x) <=> x = Head(q)
    BY <1>1 DEF Occurs
  <2> QED
    BY <1>2, <2>1, FS_RemoveElement DEF Count
<1>5. shift \in Bijection(Rest, Occurs(Tail(q), x))
  <2>1. \A k \in Rest : k - 1 \in Occurs(Tail(q), x)
    BY <1>1 DEF Occurs
  <2>2. \A j \in Occurs(Tail(q), x) : j + 1 \in Rest /\ (j + 1) - 1 = j
    BY <1>1 DEF Occurs
  <2>3. \A j, k \in Rest : j - 1 = k - 1 => j = k
    BY <1>1 DEF Occurs
  <2> QED
    BY <2>1, <2>2, <2>3 DEF Bijection, Injection, Surjection, IsInjective
<1>6. Cardinality(Occurs(Tail(q), x)) = Cardinality(Rest)
  BY <1>3, <1>5, FS_Bijection DEF ExistsBijection
<1> QED
  BY <1>4, <1>6 DEF Count

-----------------------------------------------------------------------------
(* Types.                                                                  *)

\* Nobody has logged in and the rooms are empty.
LEMMA InitIInv == Init => IInv
<1> SUFFICES ASSUME Init PROVE IInv
  OBVIOUS
<1>1. TypeOK
  <2>1. /\ connected \in [Sessions -> BOOLEAN] /\ crashed \in BOOLEAN
    BY Zenon DEF Init
  <2>2. /\ lobbyJobs = <<>> /\ lobbyAt = "idle" /\ rooms = {FirstRoom} /\ full = {} /\ entering = {}
        /\ ownerRoom = [p \in PlayerObjects |-> NoRoom]
        /\ closing = [s \in Sessions |-> "no"] /\ found = [s \in Sessions |-> NoRoom]
        /\ roomJobs = [r \in Rooms |-> <<>>] /\ players = [r \in Rooms |-> {}]
    BY Zenon DEF Init
  <2>3. /\ currPlayer \in [Sessions -> 0..MaxLogins] /\ logins \in [Sessions -> 0..MaxLogins]
        /\ dbJobs \in [Sessions -> Nat] /\ enters \in [Sessions -> 0..MaxEnters]
    BY RoomEntryAssumption DEF Init
  <2>4. roomJobs \in [Rooms -> Seq(Jobs)]
    BY <2>2
  <2>5. rooms \in SUBSET Rooms
    BY <2>2, RoomEntryAssumption
  <2>6. stranded \in [Rooms -> BOOLEAN]
    BY DEF Init
  <2> QED
    BY <2>1, <2>2, <2>3, <2>4, <2>5, <2>6 DEF TypeOK
<1>2. LoginInv
  <2>1. \A s \in Sessions : Occurs(lobbyJobs, s) = {}
    BY DEF Init, Occurs
  <2>2. \A s \in Sessions : currPlayer[s] = 0 /\ dbJobs[s] = 0 /\ logins[s] = 0
    BY DEF Init
  <2> QED
    BY <2>1, <2>2, FS_EmptySet DEF LoginInv, Count
<1>3. LobbyInv /\ MadeInv /\ PushInv /\ CrashOnlyWithoutPlayer
  <2>1. lobbyAt = "idle" /\ full = {} /\ entering = {} /\ ~crashed
    BY Zenon DEF Init
  <2>2. /\ \A r \in Rooms : players[r] = {} /\ roomJobs[r] = <<>>
        /\ \A s \in Sessions : closing[s] = "no"
    BY DEF Init
  <2> QED
    BY <2>1, <2>2 DEF LobbyInv, MadeInv, PushInv, CrashOnlyWithoutPlayer
<1> QED
  BY <1>1, <1>2, <1>3 DEF IInv

\* The Player that an entering session has is one of PlayerObjects.
LEMMA CurrentPlayerIsOne ==
  ASSUME TypeOK, NEW s \in Sessions, currPlayer[s] # 0
  PROVE  <<s, currPlayer[s]>> \in PlayerObjects
BY RoomEntryAssumption DEF TypeOK, PlayerObjects

\* A session whose answer the lobby serves has logged in more often than it has
\* been answered.
LEMMA AnswerIsDue ==
  ASSUME TypeOK, LoginInv, lobbyJobs # <<>>
  PROVE  /\ Head(lobbyJobs) \in Sessions
         /\ currPlayer[Head(lobbyJobs)] + 1 <= logins[Head(lobbyJobs)]
<1> DEFINE s == Head(lobbyJobs)
<1>1. s \in Sessions
  BY HeadTailProperties DEF TypeOK
<1>2. Count(lobbyJobs, s) \in Nat \ {0}
  <2>1. Count(Tail(lobbyJobs), s) = Count(lobbyJobs, s) - 1
    BY CountTail DEF TypeOK
  <2>2. Count(Tail(lobbyJobs), s) \in Nat /\ Count(lobbyJobs, s) \in Nat
    BY CountType, HeadTailProperties DEF TypeOK
  <2> QED
    BY <2>1, <2>2
<1>3. currPlayer[s] \in Nat /\ dbJobs[s] \in Nat /\ logins[s] \in Nat
  BY <1>1, RoomEntryAssumption DEF TypeOK
<1>4. currPlayer[s] + dbJobs[s] + Count(lobbyJobs, s) <= logins[s]
  BY <1>1 DEF LoginInv
<1> QED
  BY <1>1, <1>2, <1>3, <1>4

\* A push appends a job, and leaves the queue served or not.
LEMMA PushJobType ==
  ASSUME TypeOK, NEW r \in Rooms, NEW j \in Jobs, PushJob(r, j)
  PROVE  roomJobs' \in [Rooms -> Seq(Jobs)] /\ stranded' \in [Rooms -> BOOLEAN]
<1>1. /\ roomJobs' = [roomJobs EXCEPT ![r] = Append(roomJobs[r], j)]
      /\ \E b \in BOOLEAN : stranded' = [stranded EXCEPT ![r] = b]
  BY DEF PushJob
<1>2. roomJobs \in [Rooms -> Seq(Jobs)] /\ stranded \in [Rooms -> BOOLEAN]
  BY DEF TypeOK
<1>3. Append(roomJobs[r], j) \in Seq(Jobs)
  BY <1>2, AppendProperties
<1>4. roomJobs' \in [Rooms -> Seq(Jobs)]
  BY <1>1, <1>2, <1>3
<1>5. stranded' \in [Rooms -> BOOLEAN]
  BY <1>1, <1>2, Zenon
<1> QED
  BY <1>4, <1>5

\* Every step keeps the types.
LEMMA StepTypeOK == TypeOK /\ LoginInv /\ LobbyInv /\ PushInv /\ [Next]_vars => TypeOK'
<1> SUFFICES ASSUME TypeOK, LoginInv, LobbyInv, PushInv, [Next]_vars PROVE TypeOK'
  OBVIOUS
<1> USE RoomEntryAssumption
<1>1. ASSUME NEW s \in Sessions, HandleLogin(s) PROVE TypeOK'
  <2>1. logins' \in [Sessions -> 0..MaxLogins] /\ dbJobs' \in [Sessions -> Nat]
    BY <1>1 DEF HandleLogin, TypeOK
  <2>2. UNCHANGED <<currPlayer, lobbyJobs, lobbyAt, enters, ownerRoom, rooms, full,
                    entering, connected, closing, found, roomJobs, stranded, players, crashed>>
    BY <1>1 DEF HandleLogin, managerVars, closeVars, roomVars
  <2> QED
    BY <2>1, <2>2 DEF TypeOK
<1>2. ASSUME NEW s \in Sessions, NEW accepted \in BOOLEAN, TryLogin(s, accepted) PROVE TypeOK'
  <2>1. dbJobs' \in [Sessions -> Nat]
    BY <1>2 DEF TryLogin, TypeOK
  <2>2. lobbyJobs' \in Seq(Sessions)
    <3>1. lobbyJobs' = lobbyJobs \/ lobbyJobs' = Append(lobbyJobs, s)
      BY <1>2, Zenon DEF TryLogin
    <3>2. lobbyJobs \in Seq(Sessions)
      BY DEF TypeOK
    <3> QED
      BY <3>1, <3>2, AppendProperties
  <2>3. UNCHANGED <<currPlayer, logins, lobbyAt, enters, ownerRoom, rooms, full,
                    entering, connected, closing, found, roomJobs, stranded, players, crashed>>
    BY <1>2 DEF TryLogin, managerVars, closeVars, roomVars
  <2> QED
    BY <2>1, <2>2, <2>3 DEF TypeOK
<1>3. CASE CheckConnected
  <2>1. lobbyJobs' \in Seq(Sessions) /\ lobbyAt' \in {"idle", "checked"}
    <3>1. \/ lobbyJobs' = lobbyJobs /\ lobbyAt' = "checked"
          \/ lobbyJobs # <<>> /\ lobbyJobs' = Tail(lobbyJobs) /\ lobbyAt' = lobbyAt
      BY <1>3, Zenon DEF CheckConnected
    <3>2. lobbyJobs \in Seq(Sessions) /\ lobbyAt \in {"idle", "checked"}
      BY DEF TypeOK
    <3> QED
      BY <3>1, <3>2, HeadTailProperties
  <2>2. UNCHANGED <<currPlayer, dbJobs, logins, enters, ownerRoom, rooms, full,
                    entering, connected, closing, found, roomJobs, stranded, players, crashed>>
    BY <1>3 DEF CheckConnected, managerVars, closeVars, roomVars
  <2> QED
    BY <2>1, <2>2 DEF TypeOK
<1>4. CASE OnLoginSuccess
  <2>1. lobbyJobs # <<>> /\ lobbyJobs' = Tail(lobbyJobs) /\ lobbyAt' = "idle"
    BY <1>4 DEF OnLoginSuccess, LobbyInv
  <2>2. lobbyJobs' \in Seq(Sessions)
    BY <2>1, HeadTailProperties DEF TypeOK
  <2>3. currPlayer' \in [Sessions -> 0..MaxLogins]
    <3> DEFINE s == Head(lobbyJobs)
    <3>1. /\ s \in Sessions
          /\ currPlayer[s] + 1 <= logins[s]
      BY <2>1, AnswerIsDue
    <3>2. currPlayer[s] + 1 \in 0..MaxLogins
      <4>1. currPlayer[s] \in 0..MaxLogins /\ logins[s] \in 0..MaxLogins
        BY <3>1 DEF TypeOK
      <4> HIDE DEF s
      <4> QED
        BY <3>1, <4>1
    <3>3. currPlayer' = [currPlayer EXCEPT ![s] = currPlayer[s] + 1]
      BY <1>4 DEF OnLoginSuccess
    <3> HIDE DEF s
    <3> QED
      BY <3>1, <3>2, <3>3 DEF TypeOK
  <2>4. UNCHANGED <<dbJobs, logins, enters, ownerRoom, rooms, full, entering,
                    connected, closing, found, roomJobs, stranded, players, crashed>>
    BY <1>4 DEF OnLoginSuccess, managerVars, closeVars, roomVars
  <2> QED
    BY <2>1, <2>2, <2>3, <2>4 DEF TypeOK
<1>5. ASSUME NEW p \in PlayerObjects, NEW r \in Rooms, EnterPlayer(p, r) PROVE TypeOK'
  <2>1. Id(p) \in Sessions
    BY DEF PlayerObjects, Id
  <2>2. enters' \in [Sessions -> 0..MaxEnters]
    <3>1. \/ enters[Id(p)] < MaxEnters /\ enters' = [enters EXCEPT ![Id(p)] = enters[Id(p)] + 1]
          \/ enters' = enters
      BY <1>5 DEF EnterPlayer, AskRoom, ChooseRoom, CreateRoom, Enters
    <3>2. enters \in [Sessions -> 0..MaxEnters] /\ MaxEnters \in Nat
      BY DEF TypeOK
    <3>3. CASE enters[Id(p)] < MaxEnters
      <4>1. enters[Id(p)] + 1 \in 0..MaxEnters
        BY <2>1, <3>2, <3>3
      <4> QED
        BY <3>1, <3>2, <4>1
    <3> QED
      BY <3>1, <3>2, <3>3
  <2>3. /\ ownerRoom' = ownerRoom \/ ownerRoom' = [ownerRoom EXCEPT ![p] = r]
        /\ rooms' = rooms \/ rooms' = rooms \cup {r}
        /\ full' \subseteq full \cup {<<p, r>>} /\ entering' \subseteq entering \cup {<<p, r>>}
    BY <1>5 DEF EnterPlayer, AskRoom, ChooseRoom, CreateRoom
  <2>4. UNCHANGED <<currPlayer, dbJobs, logins, lobbyJobs, lobbyAt, connected,
                    closing, found, roomJobs, stranded, players, crashed>>
    BY <1>5 DEF EnterPlayer, AskRoom, ChooseRoom, CreateRoom, loginVars, closeVars, roomVars
  <2>5. /\ ownerRoom' \in [PlayerObjects -> Rooms \cup {NoRoom}] /\ rooms' \in SUBSET Rooms
        /\ {full', entering'} \subseteq SUBSET (PlayerObjects \X Rooms)
    BY <2>3 DEF TypeOK
  <2> QED
    BY <2>2, <2>4, <2>5 DEF TypeOK
<1>6. ASSUME NEW r \in Rooms, PushOther(r) PROVE TypeOK'
  <2>1. stranded' \in [Rooms -> BOOLEAN]
    BY <1>6, Zenon DEF PushOther, TypeOK
  <2> QED
    BY <1>6, <2>1 DEF PushOther, TypeOK, loginVars, managerVars, closeVars
<1>7. ASSUME NEW s \in Sessions, EnterWithoutLogin(s) PROVE TypeOK'
  BY <1>7 DEF EnterWithoutLogin, TypeOK, loginVars, managerVars, closeVars, roomVars
<1>8. ASSUME NEW p \in PlayerObjects, NEW r \in Rooms, PushEnter(p, r) PROVE TypeOK'
  <2>1. EnterJob(p) \in Jobs
    BY DEF EnterJob, Jobs
  <2>2. roomJobs' \in [Rooms -> Seq(Jobs)] /\ stranded' \in [Rooms -> BOOLEAN]
    BY <1>8, <2>1, PushJobType DEF PushEnter
  <2> QED
    BY <1>8, <2>2 DEF PushEnter, TypeOK, loginVars, closeVars
<1>9. ASSUME NEW s \in Sessions, Disconnect(s) PROVE TypeOK'
  <2>1. connected' \in [Sessions -> BOOLEAN]
    BY <1>9, Zenon DEF Disconnect, TypeOK
  <2> QED
    BY <1>9, <2>1 DEF Disconnect, TypeOK, loginVars, managerVars, roomVars
<1>10. ASSUME NEW s \in Sessions, FindRoom(s) PROVE TypeOK'
  <2>1. crashed' \in BOOLEAN
    BY <1>10, Zenon DEF FindRoom
  <2>2. found' \in [Sessions -> Rooms \cup {NoRoom}]
    BY <1>10, CurrentPlayerIsOne DEF FindRoom, TypeOK
  <2>3. closing' \in [Sessions -> {"no", "find", "push", "released"}]
    BY <1>10 DEF FindRoom, TypeOK
  <2>4. UNCHANGED <<currPlayer, dbJobs, logins, lobbyJobs, lobbyAt, enters, ownerRoom,
                    rooms, full, entering, connected, roomJobs, stranded, players>>
    BY <1>10 DEF FindRoom, loginVars, managerVars, roomVars
  <2> QED
    BY <2>1, <2>2, <2>3, <2>4 DEF TypeOK
<1>11. ASSUME NEW s \in Sessions, PushLeave(s) PROVE TypeOK'
  <2>1. LeaveJob(<<s, currPlayer[s]>>) \in Jobs
    BY <1>11, CurrentPlayerIsOne DEF PushLeave, PushInv, LeaveJob, Jobs
  <2>2. roomJobs' \in [Rooms -> Seq(Jobs)] /\ stranded' \in [Rooms -> BOOLEAN]
    <3>1. found[s] \in Rooms
      BY <1>11 DEF PushLeave, PushInv
    <3> QED
      BY <1>11, <2>1, <3>1, PushJobType DEF PushLeave
  <2> QED
    BY <1>11, <2>2 DEF PushLeave, TypeOK, loginVars, managerVars
<1>12. ASSUME NEW r \in Rooms, RunRoom(r) PROVE TypeOK'
  <2>1. roomJobs[r] # <<>> /\ roomJobs' = [roomJobs EXCEPT ![r] = Tail(@)]
    BY <1>12 DEF RunRoom, PlayerEnterRoom, PlayerLeaveRoom, Runs
  <2>2. Head(roomJobs[r]) \in Jobs /\ Tail(roomJobs[r]) \in Seq(Jobs)
    BY <2>1, HeadTailProperties DEF TypeOK
  <2>3. roomJobs' \in [Rooms -> Seq(Jobs)]
    BY <2>1, <2>2 DEF TypeOK
  <2>4. Head(roomJobs[r]).player \in PlayerObjects
    BY <2>2 DEF Jobs
  <2>5. players' \in [Rooms -> SUBSET PlayerObjects]
    <3>1. \/ players' = [players EXCEPT ![r] = players[r] \cup {Head(roomJobs[r]).player}]
          \/ players' = players
          \/ players' = [players EXCEPT
                 ![r] = {p \in players[r] : Id(p) # Id(Head(roomJobs[r]).player)}]
      BY <1>12 DEF RunRoom, PlayerEnterRoom, PlayerLeaveRoom
    <3>2. players \in [Rooms -> SUBSET PlayerObjects]
      BY DEF TypeOK
    <3>3. /\ players[r] \cup {Head(roomJobs[r]).player} \in SUBSET PlayerObjects
          /\ {p \in players[r] : Id(p) # Id(Head(roomJobs[r]).player)} \in SUBSET PlayerObjects
      BY <2>4, <3>2
    <3> QED
      BY <3>1, <3>2, <3>3
  <2>6. ownerRoom' \in [PlayerObjects -> Rooms \cup {NoRoom}]
    <3>1. \/ ownerRoom' = ownerRoom
          \/ ownerRoom' = [ownerRoom EXCEPT ![Head(roomJobs[r]).player] = r]
      BY <1>12 DEF RunRoom, PlayerEnterRoom, PlayerLeaveRoom
    <3> QED
      BY <2>4, <3>1 DEF TypeOK
  <2>7. UNCHANGED <<currPlayer, dbJobs, logins, lobbyJobs, lobbyAt, enters, rooms,
                    full, entering, connected, closing, found, stranded, crashed>>
    BY <1>12 DEF RunRoom, PlayerEnterRoom, PlayerLeaveRoom, loginVars, managerVars, closeVars
  <2> QED
    BY <2>3, <2>5, <2>6, <2>7 DEF TypeOK
<1>13. CASE UNCHANGED vars
  BY <1>13 DEF vars, TypeOK
<1> QED
  BY <1>1, <1>2, <1>3, <1>4, <1>5, <1>6, <1>7, <1>8, <1>9, <1>10, <1>11, <1>12, <1>13
     DEF Next, Handle, Finish, Database, Lobby, Manager

-----------------------------------------------------------------------------
(* Logins and players.                                                     *)

\* No login is answered twice.
LEMMA StepLoginInv ==
  TypeOK /\ LoginInv /\ LobbyInv /\ [Next]_vars => LoginInv'
<1> SUFFICES ASSUME TypeOK, LoginInv, LobbyInv, [Next]_vars,
                    NEW s \in Sessions
             PROVE  (currPlayer[s] + dbJobs[s] + Count(lobbyJobs, s) <= logins[s])'
  BY DEF LoginInv
<1>1. /\ currPlayer \in [Sessions -> Nat] /\ dbJobs \in [Sessions -> Nat]
      /\ logins \in [Sessions -> Nat] /\ lobbyJobs \in Seq(Sessions)
  BY RoomEntryAssumption DEF TypeOK
<1>2. Count(lobbyJobs, s) \in Nat
  BY <1>1, CountType
<1>3. currPlayer[s] + dbJobs[s] + Count(lobbyJobs, s) <= logins[s]
  BY DEF LoginInv
<1>4. CASE UNCHANGED <<currPlayer, dbJobs, logins, lobbyJobs>>
  BY <1>3, <1>4
<1>5. ASSUME NEW t \in Sessions, HandleLogin(t) PROVE (currPlayer[s] + dbJobs[s] + Count(lobbyJobs, s) <= logins[s])'
  <2>1. /\ logins' = [logins EXCEPT ![t] = logins[t] + 1]
        /\ dbJobs' = [dbJobs EXCEPT ![t] = dbJobs[t] + 1]
        /\ UNCHANGED <<currPlayer, lobbyJobs>>
    BY <1>5 DEF HandleLogin
  <2> QED
    BY <1>1, <1>2, <1>3, <2>1
<1>6. ASSUME NEW t \in Sessions, NEW accepted \in BOOLEAN, TryLogin(t, accepted)
      PROVE  (currPlayer[s] + dbJobs[s] + Count(lobbyJobs, s) <= logins[s])'
  <2>1. /\ dbJobs[t] > 0 /\ dbJobs' = [dbJobs EXCEPT ![t] = dbJobs[t] - 1]
        /\ lobbyJobs' = lobbyJobs \/ lobbyJobs' = Append(lobbyJobs, t)
        /\ UNCHANGED <<currPlayer, logins>>
    BY <1>6 DEF TryLogin
  <2>2. \/ Count(lobbyJobs', s) = Count(lobbyJobs, s)
        \/ s = t /\ Count(lobbyJobs', s) = Count(lobbyJobs, s) + 1
    <3>1. Count(Append(lobbyJobs, t), s) = IF s = t THEN Count(lobbyJobs, s) + 1
                                           ELSE Count(lobbyJobs, s)
      BY <1>1, CountAppend
    <3> QED
      BY <2>1, <3>1
  <2> QED
    BY <1>1, <1>2, <1>3, <2>1, <2>2
<1>7. ASSUME lobbyJobs # <<>>, lobbyJobs' = Tail(lobbyJobs),
             UNCHANGED <<dbJobs, logins>>,
             \/ currPlayer' = currPlayer
             \/ currPlayer' = [currPlayer EXCEPT
                                 ![Head(lobbyJobs)] = currPlayer[Head(lobbyJobs)] + 1]
      PROVE  (currPlayer[s] + dbJobs[s] + Count(lobbyJobs, s) <= logins[s])'
  <2>1. Count(lobbyJobs', s) = IF s = Head(lobbyJobs) THEN Count(lobbyJobs, s) - 1
                               ELSE Count(lobbyJobs, s)
    BY <1>1, <1>7, CountTail
  <2>2. /\ currPlayer'[s] = currPlayer[s] \/ (s = Head(lobbyJobs) /\ currPlayer'[s] = currPlayer[s] + 1)
        /\ dbJobs'[s] = dbJobs[s] /\ logins'[s] = logins[s]
    BY <1>1, <1>7
  <2> QED
    BY <1>1, <1>2, <1>3, <2>1, <2>2
<1>8. CASE CheckConnected
  BY <1>4, <1>7, <1>8 DEF CheckConnected
<1>9. CASE OnLoginSuccess
  BY <1>7, <1>9 DEF OnLoginSuccess, LobbyInv
<1>10. ASSUME NEW t \in Sessions,
              EnterWithoutLogin(t) \/ Disconnect(t) \/ Finish(t)
       PROVE  UNCHANGED loginVars
  BY <1>10 DEF EnterWithoutLogin, Disconnect, Finish, FindRoom, PushLeave
<1>11. ASSUME NEW p \in PlayerObjects, NEW r \in Rooms, PushEnter(p, r) \/ EnterPlayer(p, r)
       PROVE  UNCHANGED loginVars
  BY <1>11 DEF PushEnter, EnterPlayer, AskRoom, ChooseRoom, CreateRoom
<1>12. ASSUME NEW r \in Rooms, RunRoom(r) \/ PushOther(r) PROVE UNCHANGED loginVars
  BY <1>12 DEF RunRoom, PlayerEnterRoom, PlayerLeaveRoom, PushOther
<1>13. CASE UNCHANGED vars
  BY <1>4, <1>13 DEF vars
<1>14. CASE UNCHANGED loginVars
  BY <1>4, <1>14 DEF loginVars
<1> QED
  BY <1>5, <1>6, <1>8, <1>9, <1>10, <1>11, <1>12, <1>13, <1>14
     DEF Next, Handle, Database, Lobby, Manager

\* The lobby works on the job that it has looked at.
LEMMA StepLobbyInv == TypeOK /\ LobbyInv /\ [Next]_vars => LobbyInv'
<1> SUFFICES ASSUME TypeOK, LobbyInv, [Next]_vars PROVE LobbyInv'
  OBVIOUS
<1>1. CASE UNCHANGED <<lobbyJobs, lobbyAt>>
  BY <1>1 DEF LobbyInv
<1>2. ASSUME NEW s \in Sessions, NEW accepted \in BOOLEAN, TryLogin(s, accepted) PROVE LobbyInv'
  <2>1. lobbyAt' = lobbyAt /\ (lobbyJobs' = lobbyJobs \/ lobbyJobs' = Append(lobbyJobs, s))
    BY <1>2, Zenon DEF TryLogin
  <2>2. Append(lobbyJobs, s) # <<>>
    <3>1. lobbyJobs \in Seq(Sessions)
      BY DEF TypeOK
    <3> QED
      BY <3>1, AppendProperties
  <2> QED
    BY <2>1, <2>2 DEF LobbyInv
<1>3. CASE CheckConnected
  BY <1>3 DEF CheckConnected, LobbyInv
<1>4. CASE OnLoginSuccess
  BY <1>4 DEF OnLoginSuccess, LobbyInv
<1> QED
  BY <1>1, <1>2, <1>3, <1>4
     DEF Next, vars, loginVars, Handle, Database, Lobby, Finish, Manager, RunRoom, HandleLogin,
         EnterWithoutLogin, EnterPlayer, AskRoom, ChooseRoom, CreateRoom, Disconnect, FindRoom,
         PushLeave, PushEnter, PlayerEnterRoom, PlayerLeaveRoom, PushOther

\* Who has a player keeps having one.
LEMMA PlayerStays ==
  ASSUME TypeOK, LobbyInv, [Next]_vars, NEW s \in Sessions, currPlayer[s] # 0
  PROVE  currPlayer'[s] # 0
<1>1. currPlayer \in [Sessions -> Nat]
  BY RoomEntryAssumption DEF TypeOK
<1>2. CASE OnLoginSuccess
  <2>1. currPlayer' = [currPlayer EXCEPT ![Head(lobbyJobs)] = currPlayer[Head(lobbyJobs)] + 1]
    BY <1>2 DEF OnLoginSuccess
  <2> QED
    BY <1>1, <2>1
<1>3. CASE ~OnLoginSuccess
  <2>1. currPlayer' = currPlayer
    BY <1>3 DEF Next, vars, loginVars, Handle, Database, Lobby, Finish, Manager, RunRoom,
         HandleLogin, TryLogin, CheckConnected, EnterWithoutLogin, EnterPlayer, AskRoom,
         ChooseRoom, CreateRoom, Disconnect, FindRoom, PushLeave, PushEnter, PlayerEnterRoom,
         PlayerLeaveRoom, PushOther
  <2> QED
    BY <2>1
<1> QED
  BY <1>2, <1>3

\* A job is appended for a session with a player.
LEMMA MadeAppend ==
  ASSUME TypeOK, MadeInv, NEW q \in Rooms, NEW j \in Jobs, currPlayer[Id(j.player)] # 0,
         NEW jobs, jobs = [roomJobs EXCEPT ![q] = Append(roomJobs[q], j)]
  PROVE  \A r \in Rooms : \A k \in DOMAIN jobs[r] : currPlayer[Id(jobs[r][k].player)] # 0
<1> SUFFICES ASSUME NEW r \in Rooms, NEW k \in DOMAIN jobs[r]
             PROVE  currPlayer[Id(jobs[r][k].player)] # 0
  OBVIOUS
<1>1. roomJobs \in [Rooms -> Seq(Jobs)] /\ roomJobs[q] \in Seq(Jobs)
  BY DEF TypeOK
<1>2. \A i \in DOMAIN roomJobs[r] : currPlayer[Id(roomJobs[r][i].player)] # 0
  BY DEF MadeInv
<1>3. CASE r # q
  BY <1>1, <1>2, <1>3
<1>4. CASE r = q
  <2>1. jobs[r] = Append(roomJobs[q], j)
    BY <1>1, <1>4
  <2>2. k \in 1..Len(roomJobs[q]) \/ k = Len(roomJobs[q]) + 1
    BY <1>1, <2>1
  <2>3. CASE k = Len(roomJobs[q]) + 1
    <3>1. jobs[r][k] = j
      BY <1>1, <2>1, <2>3, AppendProperties
    <3> QED
      BY <3>1
  <2>4. CASE k \in 1..Len(roomJobs[q])
    <3>1. jobs[r][k] = roomJobs[r][k] /\ k \in DOMAIN roomJobs[r]
      BY <1>1, <1>4, <2>1, <2>4, AppendProperties
    <3> QED
      BY <1>2, <3>1
  <2> QED
    BY <2>2, <2>3, <2>4
<1> QED
  BY <1>3, <1>4

\* No step lets a player in that no login has made.
LEMMA StepMadeInv ==
  TypeOK /\ LobbyInv /\ PushInv /\ MadeInv /\ [Next]_vars => MadeInv'
<1> SUFFICES ASSUME TypeOK, LobbyInv, PushInv, MadeInv, [Next]_vars PROVE MadeInv'
  OBVIOUS
<1>1. \A s \in Sessions : currPlayer[s] # 0 => currPlayer'[s] # 0
  BY PlayerStays
<1>2. \A p \in PlayerObjects : Id(p) \in Sessions
  BY DEF PlayerObjects, Id
<1>3. /\ full \cup entering \in SUBSET (PlayerObjects \X Rooms)
      /\ players \in [Rooms -> SUBSET PlayerObjects]
      /\ roomJobs \in [Rooms -> Seq(Jobs)]
  BY DEF TypeOK
<1>4. /\ \A e \in full \cup entering : Id(e[1]) \in Sessions
      /\ \A r \in Rooms : /\ \A p \in players[r] : Id(p) \in Sessions
                          /\ \A k \in DOMAIN roomJobs[r] : Id(roomJobs[r][k].player) \in Sessions
  <2>1. \A e \in full \cup entering : e[1] \in PlayerObjects
    BY <1>3
  <2>2. \A r \in Rooms : \A k \in DOMAIN roomJobs[r] : roomJobs[r][k].player \in PlayerObjects
    <3> SUFFICES ASSUME NEW r \in Rooms, NEW k \in DOMAIN roomJobs[r]
                 PROVE  roomJobs[r][k].player \in PlayerObjects
      OBVIOUS
    <3>1. roomJobs[r] \in Seq(Jobs)
      BY <1>3
    <3>2. roomJobs[r][k] \in Jobs
      BY <3>1
    <3> QED
      BY <3>2 DEF Jobs
  <2>3. \A r \in Rooms : \A p \in players[r] : p \in PlayerObjects
    BY <1>3
  <2> QED
    BY <1>2, <2>1, <2>2, <2>3
<1>5. CASE UNCHANGED <<full, entering, players, roomJobs>>
  BY <1>1, <1>4, <1>5 DEF MadeInv
<1>6. ASSUME NEW p \in PlayerObjects, NEW r \in Rooms, EnterPlayer(p, r) PROVE MadeInv'
  <2>1. Enters(p)
    BY <1>6 DEF EnterPlayer, AskRoom, ChooseRoom, CreateRoom
  <2>2. currPlayer[Id(p)] # 0
    <3>1. CASE p[2] = currPlayer[Id(p)]
      BY <3>1 DEF PlayerObjects
    <3>2. CASE full # {} /\ full \subseteq {p} \X Rooms
      <4>1. PICK e \in full : e[1] = p
        BY <3>2
      <4> QED
        BY <4>1 DEF MadeInv
    <3> QED
      BY <2>1, <3>1, <3>2 DEF Enters
  <2>3. /\ full' \subseteq full \cup {<<p, r>>} /\ entering' \subseteq entering \cup {<<p, r>>}
        /\ UNCHANGED <<currPlayer, players, roomJobs>>
    BY <1>6 DEF EnterPlayer, AskRoom, ChooseRoom, CreateRoom, loginVars, roomVars
  <2>4. ASSUME NEW e \in full' \cup entering' PROVE currPlayer[Id(e[1])] # 0
    <3>1. e \in full \cup entering \/ e[1] = p
      BY <2>3
    <3> QED
      BY <2>2, <3>1 DEF MadeInv
  <2> QED
    BY <2>3, <2>4 DEF MadeInv
<1>7. ASSUME NEW p \in PlayerObjects, NEW r \in Rooms, PushEnter(p, r) PROVE MadeInv'
  <2>1. /\ <<p, r>> \in entering /\ entering' = {}
        /\ roomJobs' = [roomJobs EXCEPT ![r] = Append(roomJobs[r], EnterJob(p))]
        /\ UNCHANGED <<currPlayer, players, full>>
    BY <1>7 DEF PushEnter, PushJob, loginVars
  <2>2. EnterJob(p) \in Jobs /\ EnterJob(p).player = p
    BY DEF EnterJob, Jobs
  <2>3. currPlayer[Id(p)] # 0
    BY <2>1 DEF MadeInv
  <2>4. \A q \in Rooms : \A k \in DOMAIN roomJobs'[q] : currPlayer[Id(roomJobs'[q][k].player)] # 0
    BY <2>1, <2>2, <2>3, MadeAppend, ZenonT(60)
  <2> QED
    BY <2>1, <2>4 DEF MadeInv
<1>8. ASSUME NEW s \in Sessions, PushLeave(s) PROVE MadeInv'
  <2>1. currPlayer[s] # 0 /\ found[s] \in Rooms
    BY <1>8 DEF PushLeave, PushInv
  <2> DEFINE j == LeaveJob(<<s, currPlayer[s]>>)
  <2>2. j \in Jobs /\ Id(j.player) = s
    BY <2>1, CurrentPlayerIsOne DEF LeaveJob, Jobs, Id
  <2>3. /\ roomJobs' = [roomJobs EXCEPT ![found[s]] = Append(roomJobs[found[s]], j)]
        /\ UNCHANGED <<currPlayer, players, full, entering>>
    BY <1>8 DEF PushLeave, PushJob, loginVars, managerVars
  <2> HIDE DEF j
  <2>4. \A q \in Rooms : \A k \in DOMAIN roomJobs'[q] : currPlayer[Id(roomJobs'[q][k].player)] # 0
    BY <2>1, <2>2, <2>3, MadeAppend, ZenonT(60)
  <2> QED
    BY <2>3, <2>4 DEF MadeInv
<1>9. ASSUME NEW r \in Rooms, RunRoom(r) PROVE MadeInv'
  <2>1. /\ roomJobs[r] # <<>> /\ roomJobs' = [roomJobs EXCEPT ![r] = Tail(roomJobs[r])]
        /\ UNCHANGED <<currPlayer, full, entering>>
    BY <1>9 DEF RunRoom, PlayerEnterRoom, PlayerLeaveRoom, Runs, loginVars, managerVars
  <2>2. /\ roomJobs[r] \in Seq(Jobs) /\ Head(roomJobs[r]) = roomJobs[r][1] /\ 1 \in DOMAIN roomJobs[r]
    BY <1>3, <2>1
  <2>3. \A q \in Rooms : \A p \in players'[q] : p \in players[q] \/ p = Head(roomJobs[r]).player
    <3>1. \/ players' = [players EXCEPT ![r] = players[r] \cup {Head(roomJobs[r]).player}]
          \/ players' = players
          \/ players' = [players EXCEPT
                 ![r] = {p \in players[r] : Id(p) # Id(Head(roomJobs[r]).player)}]
      BY <1>9 DEF RunRoom, PlayerEnterRoom, PlayerLeaveRoom
    <3> QED
      BY <1>3, <3>1
  <2>4. currPlayer[Id(Head(roomJobs[r]).player)] # 0
    BY <2>2 DEF MadeInv
  <2>5. ASSUME NEW q \in Rooms, NEW k \in DOMAIN roomJobs'[q]
        PROVE  currPlayer[Id(roomJobs'[q][k].player)] # 0
    <3>1. CASE q # r
      BY <1>3, <2>1, <3>1 DEF MadeInv
    <3>2. CASE q = r
      <4>1. roomJobs'[q] = Tail(roomJobs[r])
        BY <1>3, <2>1, <3>2
      <4>2. k + 1 \in DOMAIN roomJobs[r] /\ Tail(roomJobs[r])[k] = roomJobs[r][k + 1]
        <5>1. /\ Len(Tail(roomJobs[r])) = Len(roomJobs[r]) - 1
              /\ Tail(roomJobs[r]) \in Seq(Jobs)
              /\ \A i \in 1..Len(Tail(roomJobs[r])) : Tail(roomJobs[r])[i] = roomJobs[r][i + 1]
          BY <2>1, <2>2, HeadTailProperties
        <5>2. k \in 1..Len(Tail(roomJobs[r]))
          BY <4>1, <5>1
        <5> QED
          BY <2>2, <5>1, <5>2
      <4> QED
        BY <3>2, <4>1, <4>2 DEF MadeInv
    <3> QED
      BY <3>1, <3>2
  <2> QED
    BY <2>1, <2>3, <2>4, <2>5 DEF MadeInv
<1>10. CASE UNCHANGED vars
  BY <1>5, <1>10 DEF vars
<1> QED
  BY <1>5, <1>6, <1>7, <1>8, <1>9, <1>10
     DEF Next, Handle, Finish, Database, Lobby, Manager, HandleLogin, TryLogin, CheckConnected,
         OnLoginSuccess, EnterWithoutLogin, Disconnect, FindRoom, PushOther, managerVars, closeVars,
         roomVars, loginVars

\* The room that Disconnect found is its player's until the leave is pushed.
LEMMA StepPushInv ==
  TypeOK /\ LobbyInv /\ PushInv /\ [Next]_vars => PushInv'
<1> SUFFICES ASSUME TypeOK, LobbyInv, PushInv, [Next]_vars, NEW s \in Sessions, closing'[s] = "push"
             PROVE  currPlayer'[s] # 0 /\ found'[s] \in Rooms
  BY DEF PushInv
<1>1. currPlayer[s] # 0 => currPlayer'[s] # 0
  BY PlayerStays
<1>2. closing \in [Sessions -> {"no", "find", "push", "released"}] /\ found \in [Sessions -> Rooms \cup {NoRoom}]
  BY DEF TypeOK
<1>3. CASE UNCHANGED <<closing, found>>
  BY <1>1, <1>3 DEF PushInv
<1>4. ASSUME NEW t \in Sessions, Disconnect(t) PROVE currPlayer'[s] # 0 /\ found'[s] \in Rooms
  BY <1>1, <1>2, <1>4 DEF Disconnect, PushInv
<1>5. ASSUME NEW t \in Sessions, FindRoom(t) PROVE currPlayer'[s] # 0 /\ found'[s] \in Rooms
  <2>1. CASE s = t
    <3>1. found'[s] # NoRoom
      BY <1>2, <1>5, <2>1 DEF FindRoom
    <3>2. currPlayer[s] # 0 /\ found'[s] = ownerRoom[<<s, currPlayer[s]>>]
      BY <1>2, <1>5, <2>1, <3>1 DEF FindRoom
    <3> QED
      BY <1>1, <3>1, <3>2, CurrentPlayerIsOne DEF TypeOK
  <2>2. CASE s # t
    <3>1. closing'[s] = closing[s] /\ found'[s] = found[s]
      BY <1>2, <1>5, <2>2 DEF FindRoom
    <3> QED
      BY <1>1, <3>1 DEF PushInv
  <2> QED
    BY <2>1, <2>2
<1>6. ASSUME NEW t \in Sessions, PushLeave(t) PROVE currPlayer'[s] # 0 /\ found'[s] \in Rooms
  BY <1>1, <1>2, <1>6 DEF PushLeave, PushInv
<1> QED
  BY <1>3, <1>4, <1>5, <1>6
     DEF Next, vars, Handle, Finish, Database, Lobby, Manager, RunRoom, HandleLogin, TryLogin,
         CheckConnected, OnLoginSuccess, EnterWithoutLogin, EnterPlayer, AskRoom, ChooseRoom, CreateRoom,
         PushEnter, PlayerEnterRoom, PlayerLeaveRoom, PushOther, closeVars

-----------------------------------------------------------------------------
(* The invariant.                                                          *)

\* Who has no player has nothing in a room and no leave on its way.
LEMMA NothingOfNobody ==
  ASSUME MadeInv, PushInv, NEW s \in Sessions, currPlayer[s] = 0
  PROVE  /\ closing[s] # "push"
         /\ \A r \in Rooms : s \notin Ids(players[r]) /\ Waiting(s, r) = {}
BY DEF MadeInv, PushInv, Ids, Waiting

\* Only a null player brings the server down.
LEMMA StepCrash ==
  TypeOK /\ MadeInv /\ PushInv /\ CrashOnlyWithoutPlayer /\ [Next]_vars => CrashOnlyWithoutPlayer'
<1> SUFFICES ASSUME TypeOK, MadeInv, PushInv, CrashOnlyWithoutPlayer, [Next]_vars
             PROVE  CrashOnlyWithoutPlayer'
  OBVIOUS
<1>1. CASE UNCHANGED vars
  BY <1>1 DEF vars, CrashOnlyWithoutPlayer, Ids, Waiting
<1>2. ASSUME Next PROVE CrashOnlyWithoutPlayer'
  <2> SUFFICES ASSUME crashed' PROVE CrashOnlyWithoutPlayer'
    BY Zenon DEF CrashOnlyWithoutPlayer
  <2>1. ~crashed
    BY <1>2, Zenon DEF Next
  <2>2. ASSUME NEW s \in Sessions, EnterWithoutLogin(s) \/ FindRoom(s)
        PROVE  CrashOnlyWithoutPlayer'
    <3>1. currPlayer[s] = 0 /\ UNCHANGED <<currPlayer, players, roomJobs>>
      BY <2>2 DEF EnterWithoutLogin, FindRoom, loginVars, roomVars
    <3>2. /\ closing[s] # "push"
          /\ \A r \in Rooms : s \notin Ids(players[r]) /\ Waiting(s, r) = {}
      BY <3>1, NothingOfNobody
    <3>3. closing'[s] # "push"
      BY <2>2, <3>1, <3>2 DEF EnterWithoutLogin, FindRoom, closeVars, TypeOK
    <3>4. \A r \in Rooms : Ids(players'[r]) = Ids(players[r]) /\ Waiting(s, r)' = Waiting(s, r)
      BY <3>1 DEF Waiting
    <3> QED
      BY <3>1, <3>2, <3>3, <3>4 DEF CrashOnlyWithoutPlayer
  <2>3. ASSUME ~\E s \in Sessions : EnterWithoutLogin(s) \/ FindRoom(s) PROVE crashed' = crashed
    BY <1>2, <2>3
       DEF Next, Handle, Finish, Database, Lobby, Manager, RunRoom, HandleLogin, TryLogin,
           CheckConnected, OnLoginSuccess, EnterPlayer, AskRoom, ChooseRoom, CreateRoom,
           Disconnect, PushLeave, PushEnter, PlayerEnterRoom, PlayerLeaveRoom, PushOther
  <2> QED
    BY <2>1, <2>2, <2>3
<1> QED
  BY <1>1, <1>2

\* The parts together are inductive.
LEMMA StepIInv == IInv /\ [Next]_vars => IInv'
BY StepTypeOK, StepLoginInv, StepLobbyInv, StepMadeInv, StepPushInv, StepCrash DEF IInv

\* However logins, entries and disconnects interleave, null is dereferenced only
\* for a session that never got a player, and no room ever had anything of it
\* (Session.cpp:63, PacketHandler.cpp:64).
THEOREM CrashOnlyWithoutPlayerHolds == Spec => []CrashOnlyWithoutPlayer
<1>1. IInv => CrashOnlyWithoutPlayer
  BY DEF IInv
<1> QED
  BY InitIInv, StepIInv, <1>1, PTL DEF Spec

\* A session has at most as many Player objects as it sent logins, and every
\* index, queue and owner stays in its range.
THEOREM TypeCorrectness == Spec => []TypeOK
<1>1. IInv => TypeOK
  BY DEF IInv
<1> QED
  BY InitIInv, StepIInv, <1>1, PTL DEF Spec

-----------------------------------------------------------------------------
(* Who is left behind.                                                     *)

\* A step that leaves the queue, the room and the session's Disconnect alone
\* turns nobody into a ghost.
LEMMA SameGhost ==
  ASSUME NEW s \in Sessions, NEW r \in Rooms, closing'[s] = closing[s],
         roomJobs'[r] = roomJobs[r], players'[r] = players[r]
  PROVE  Ghost(s, r)' = Ghost(s, r)
<1>1. Waiting(s, r)' = Waiting(s, r)
  BY DEF Waiting
<1> QED
  BY <1>1 DEF Ghost, Stays

\* A job that is appended to r's queue waits behind those that are there.
LEMMA AppendWaits ==
  ASSUME TypeOK, NEW s \in Sessions, NEW r \in Rooms, NEW j \in Jobs,
         roomJobs'[r] = Append(roomJobs[r], j)
  PROVE  /\ Id(j.player) # s => Waiting(s, r)' = Waiting(s, r)
         /\ Id(j.player) = s => Waiting(s, r)' = Waiting(s, r) \cup {Len(roomJobs[r]) + 1}
         /\ \A k \in Waiting(s, r) : roomJobs'[r][k] = roomJobs[r][k] /\ k \in 1..Len(roomJobs[r])
         /\ roomJobs'[r][Len(roomJobs[r]) + 1] = j /\ Len(roomJobs[r]) \in Nat
<1>1. roomJobs[r] \in Seq(Jobs)
  BY DEF TypeOK
<1>2. /\ DOMAIN roomJobs[r] = 1..Len(roomJobs[r]) /\ Len(roomJobs[r]) \in Nat
      /\ DOMAIN roomJobs'[r] = 1..(Len(roomJobs[r]) + 1)
      /\ \A k \in 1..Len(roomJobs[r]) : roomJobs'[r][k] = roomJobs[r][k]
      /\ roomJobs'[r][Len(roomJobs[r]) + 1] = j
  BY <1>1, AppendProperties
<1> QED
  BY <1>2 DEF Waiting

\* The others' ways out stay as they are when a job is appended.
LEMMA AppendOfOther ==
  ASSUME TypeOK, NEW s \in Sessions, NEW r \in Rooms, NEW j \in Jobs, Id(j.player) # s,
         roomJobs'[r] = Append(roomJobs[r], j), players'[r] = players[r],
         closing'[s] = closing[s]
  PROVE  Ghost(s, r)' = Ghost(s, r)
<1>1. Waiting(s, r)' = Waiting(s, r)
  BY AppendWaits
<1>2. \A k \in Waiting(s, r) : roomJobs'[r][k] = roomJobs[r][k]
  BY AppendWaits
<1> QED
  BY <1>1, <1>2 DEF Ghost, Stays

\* A leave that is appended takes its session out.
LEMMA AppendedLeave ==
  ASSUME TypeOK, NEW s \in Sessions, NEW r \in Rooms, NEW j \in Jobs, Id(j.player) = s,
         j.kind = "leave", roomJobs'[r] = Append(roomJobs[r], j)
  PROVE  ~Ghost(s, r)'
<1> DEFINE n == Len(roomJobs[r]) + 1
<1>1. /\ Waiting(s, r)' = Waiting(s, r) \cup {n} /\ roomJobs'[r][n] = j /\ n \in Nat
      /\ \A k \in Waiting(s, r) : k < n /\ k \in Nat
  BY AppendWaits
<1>2. ~Stays(s, r)'
  BY <1>1 DEF Stays
<1> QED
  BY <1>2 DEF Ghost

\* Running the first job of a room takes nobody's way out: what decides whether
\* s stays is its last job that waits, and the room itself after that.
LEMMA RunKeepsStays ==
  ASSUME TypeOK, NEW s \in Sessions, NEW r \in Rooms, RunRoom(r), Stays(s, r)'
  PROVE  Stays(s, r)
<1> DEFINE j == Head(roomJobs[r])
<1>1. /\ roomJobs[r] # <<>> /\ roomJobs[r] \in Seq(Jobs) /\ players[r] \in SUBSET PlayerObjects
      /\ roomJobs'[r] = Tail(roomJobs[r]) /\ j = roomJobs[r][1]
  BY DEF RunRoom, PlayerEnterRoom, PlayerLeaveRoom, Runs, TypeOK
<1>2. /\ DOMAIN roomJobs[r] = 1..Len(roomJobs[r]) /\ Len(roomJobs[r]) \in Nat \ {0}
      /\ DOMAIN roomJobs'[r] = 1..(Len(roomJobs[r]) - 1)
      /\ \A k \in 1..(Len(roomJobs[r]) - 1) : roomJobs'[r][k] = roomJobs[r][k + 1]
  BY <1>1, HeadTailProperties
<1>3. /\ \A k \in Waiting(s, r)' : /\ k \in Nat \ {0} /\ k + 1 \in Waiting(s, r)
                                  /\ roomJobs'[r][k] = roomJobs[r][k + 1]
      /\ \A k \in Waiting(s, r) : k \in Nat \ {0} /\ (k # 1 => k - 1 \in Waiting(s, r)')
      /\ 1 \in Waiting(s, r) <=> Id(j.player) = s
  BY <1>1, <1>2 DEF Waiting
<1>4. CASE Waiting(s, r)' # {}
  <2>1. PICK k \in Waiting(s, r)' : /\ roomJobs'[r][k].kind = "enter"
                                   /\ \A l \in Waiting(s, r)' : l <= k
    BY <1>4 DEF Stays
  <2>2. k + 1 \in Waiting(s, r) /\ roomJobs[r][k + 1].kind = "enter" /\ k \in Nat \ {0}
    BY <1>3, <2>1
  <2>3. ASSUME NEW l \in Waiting(s, r) PROVE l <= k + 1
    <3>1. l \in Nat \ {0} /\ (l # 1 => l - 1 <= k)
      BY <1>3, <2>1
    <3> QED
      BY <2>2, <3>1
  <2> QED
    BY <2>2, <2>3 DEF Stays
<1>5. CASE Waiting(s, r)' = {}
  <2>1. s \in Ids(players'[r])
    BY <1>5 DEF Stays
  <2>2. Waiting(s, r) \subseteq {1}
    BY <1>3, <1>5
  <2>3. CASE Id(j.player) # s
    <3>1. Waiting(s, r) = {}
      BY <1>3, <2>2, <2>3
    <3>2. s \in Ids(players[r])
      BY <2>1, <2>3 DEF RunRoom, PlayerEnterRoom, PlayerLeaveRoom, TypeOK, Ids
    <3> QED
      BY <3>1, <3>2 DEF Stays
  <2>4. CASE Id(j.player) = s
    <3>1. Waiting(s, r) = {1}
      BY <1>3, <2>2, <2>4
    <3>2. j.kind # "leave"
      <4> SUFFICES ASSUME j.kind = "leave" PROVE FALSE
        OBVIOUS
      <4>1. players'[r] = {p \in players[r] : Id(p) # s}
        BY <2>4 DEF RunRoom, PlayerEnterRoom, PlayerLeaveRoom, TypeOK
      <4> QED
        BY <2>1, <4>1 DEF Ids
    <3>3. roomJobs[r][1].kind = "enter"
      BY <1>1, <3>2 DEF RunRoom, PlayerEnterRoom, PlayerLeaveRoom
    <3> QED
      BY <3>1, <3>3 DEF Stays
  <2> QED
    BY <2>3, <2>4
<1> QED
  BY <1>4, <1>5

\* The three ways of LeftBehindOnlyBy, for one session and one room.
Excused(s, r) ==
  \/ s \in Ids({e[1] : e \in entering})
  \/ closing[s] = "find" /\ (ownerRoom[<<s, currPlayer[s]>>] = NoRoom)
  \/ closing[s] = "push" /\ found[s] # r

\* Each step that makes a ghost is one of them.
LEMMA NewGhostExcused ==
  ASSUME IInv, Next, NEW s \in Sessions, NEW r \in Rooms, Ghost(s, r)', ~Ghost(s, r)
  PROVE  Excused(s, r)
<1>1. /\ TypeOK /\ MadeInv /\ PushInv
      /\ closing \in [Sessions -> {"no", "find", "push", "released"}]
      /\ roomJobs \in [Rooms -> Seq(Jobs)] /\ players \in [Rooms -> SUBSET PlayerObjects]
  BY DEF IInv, TypeOK
<1>2. CASE UNCHANGED <<closing, roomJobs, players>>
  <2>1. FALSE
    BY <1>2, SameGhost
  <2> QED
    BY <2>1
<1>3. ASSUME NEW p \in PlayerObjects, NEW q \in Rooms, PushEnter(p, q) PROVE Excused(s, r)
  <2>1. /\ <<p, q>> \in entering /\ closing' = closing /\ players' = players
        /\ roomJobs' = [roomJobs EXCEPT ![q] = Append(roomJobs[q], EnterJob(p))]
    BY <1>3 DEF PushEnter, PushJob, closeVars
  <2>2. CASE Id(p) = s
    <3>1. p \in {e[1] : e \in entering}
      BY <2>1
    <3> QED
      BY <2>2, <3>1 DEF Excused, Ids
  <2>3. CASE Id(p) # s
    <3>1. EnterJob(p) \in Jobs /\ EnterJob(p).player = p
      BY DEF EnterJob, Jobs
    <3>2. CASE q = r
      <4>1. roomJobs'[r] = Append(roomJobs[r], EnterJob(p))
        BY <1>1, <2>1, <3>2
      <4>2. Ghost(s, r)' = Ghost(s, r)
        BY <1>1, <2>1, <2>3, <3>1, <4>1, AppendOfOther
      <4> QED
        BY <4>2
    <3>3. CASE q # r
      <4>1. roomJobs'[r] = roomJobs[r]
        BY <1>1, <2>1, <3>3
      <4>2. Ghost(s, r)' = Ghost(s, r)
        BY <2>1, <4>1, SameGhost
      <4> QED
        BY <4>2
    <3> QED
      BY <3>2, <3>3
  <2> QED
    BY <2>2, <2>3
<1>4. ASSUME NEW t \in Sessions, Disconnect(t) PROVE Excused(s, r)
  <2>1. /\ closing' = [closing EXCEPT ![t] = "find"] /\ UNCHANGED <<roomJobs, players>>
    BY <1>4 DEF Disconnect, roomVars
  <2>2. CASE t = s
    <3>1. closing'[s] = "find"
      BY <1>1, <2>1, <2>2
    <3> QED
      BY <3>1 DEF Ghost
  <2>3. CASE t # s
    <3>1. closing'[s] = closing[s]
      BY <1>1, <2>1, <2>3
    <3>2. Ghost(s, r)' = Ghost(s, r)
      BY <2>1, <3>1, SameGhost
    <3> QED
      BY <3>2
  <2> QED
    BY <2>2, <2>3
<1>5. ASSUME NEW t \in Sessions, FindRoom(t) PROVE Excused(s, r)
  <2>1. UNCHANGED <<roomJobs, players, currPlayer, ownerRoom>>
    BY <1>5 DEF FindRoom, roomVars, loginVars
  <2>2. CASE t = s
    <3>1. closing[s] = "find"
      BY <1>5, <2>2 DEF FindRoom
    <3>2. currPlayer[s] # 0
      <4> SUFFICES ASSUME currPlayer[s] = 0 PROVE FALSE
        OBVIOUS
      <4>1. s \notin Ids(players[r]) /\ Waiting(s, r) = {}
        BY <1>1, NothingOfNobody
      <4>2. s \notin Ids(players'[r]) /\ Waiting(s, r)' = {}
        BY <2>1, <4>1 DEF Waiting
      <4> QED
        BY <4>2 DEF Ghost, Stays
    <3>3. closing'[s] = "released"
      BY DEF Ghost
    <3>4. ownerRoom[<<s, currPlayer[s]>>] = NoRoom
      <4>1. /\ closing' = [closing EXCEPT ![s] = IF found'[s] = NoRoom THEN "released" ELSE "push"]
            /\ found' = [found EXCEPT ![s] = ownerRoom[<<s, currPlayer[s]>>]]
        BY <1>5, <2>2, <3>2 DEF FindRoom
      <4>2. found'[s] = NoRoom
        BY <1>1, <3>3, <4>1
      <4>3. found \in [Sessions -> Rooms \cup {NoRoom}]
        BY <1>1 DEF TypeOK
      <4> QED
        BY <4>1, <4>2, <4>3
    <3> QED
      BY <3>1, <3>4 DEF Excused
  <2>3. CASE t # s
    <3>1. closing'[s] = closing[s]
      BY <1>1, <1>5, <2>3 DEF FindRoom
    <3>2. Ghost(s, r)' = Ghost(s, r)
      BY <2>1, <3>1, SameGhost
    <3> QED
      BY <3>2
  <2> QED
    BY <2>2, <2>3
<1>6. ASSUME NEW t \in Sessions, PushLeave(t) PROVE Excused(s, r)
  <2> DEFINE j == LeaveJob(<<t, currPlayer[t]>>)
  <2>1. /\ closing[t] = "push" /\ players' = players
        /\ closing' = [closing EXCEPT ![t] = "released"]
        /\ roomJobs' = [roomJobs EXCEPT ![found[t]] = Append(roomJobs[found[t]], j)]
    BY <1>6 DEF PushLeave, PushJob
  <2>2. currPlayer[t] # 0 /\ found[t] \in Rooms
    BY <1>1, <2>1 DEF PushInv
  <2>3. j \in Jobs /\ Id(j.player) = t /\ j.kind = "leave"
    BY <1>1, <2>2, CurrentPlayerIsOne DEF LeaveJob, Jobs, Id
  <2> HIDE DEF j
  <2>4. CASE found[t] # r
    <3>1. roomJobs'[r] = roomJobs[r]
      BY <1>1, <2>1, <2>2, <2>4
    <3>2. CASE t = s
      BY <2>1, <2>4, <3>2 DEF Excused
    <3>3. CASE t # s
      <4>1. closing'[s] = closing[s]
        BY <1>1, <2>1, <3>3
      <4>2. Ghost(s, r)' = Ghost(s, r)
        BY <2>1, <3>1, <4>1, SameGhost
      <4> QED
        BY <4>2
    <3> QED
      BY <3>2, <3>3
  <2>5. CASE found[t] = r
    <3>1. roomJobs'[r] = Append(roomJobs[r], j)
      BY <1>1, <2>1, <2>5
    <3>2. CASE t = s
      <4>1. ~Ghost(s, r)'
        BY <1>1, <2>3, <3>1, <3>2, AppendedLeave
      <4> QED
        BY <4>1
    <3>3. CASE t # s
      <4>1. closing'[s] = closing[s]
        BY <1>1, <2>1, <3>3
      <4>2. Ghost(s, r)' = Ghost(s, r)
        BY <1>1, <2>1, <2>3, <3>1, <3>3, <4>1, AppendOfOther
      <4> QED
        BY <4>2
    <3> QED
      BY <3>2, <3>3
  <2> QED
    BY <2>4, <2>5
<1>7. ASSUME NEW q \in Rooms, RunRoom(q) PROVE Excused(s, r)
  <2>1. closing' = closing
    BY <1>7 DEF RunRoom, PlayerEnterRoom, PlayerLeaveRoom, closeVars
  <2>2. CASE q = r
    <3>1. closing[s] = "released" /\ Stays(s, r)'
      BY <2>1 DEF Ghost
    <3>2. Stays(s, r)
      BY <1>1, <1>7, <2>2, <3>1, RunKeepsStays
    <3> QED
      BY <3>1, <3>2 DEF Ghost
  <2>3. CASE q # r
    <3>1. roomJobs'[r] = roomJobs[r] /\ players'[r] = players[r]
      BY <1>1, <1>7, <2>3 DEF RunRoom, PlayerEnterRoom, PlayerLeaveRoom
    <3>2. Ghost(s, r)' = Ghost(s, r)
      BY <2>1, <3>1, SameGhost
    <3> QED
      BY <3>2
  <2> QED
    BY <2>2, <2>3
<1> QED
  BY <1>2, <1>3, <1>4, <1>5, <1>6, <1>7
     DEF Next, Handle, Finish, Database, Lobby, Manager, HandleLogin, TryLogin, CheckConnected,
         OnLoginSuccess, EnterWithoutLogin, EnterPlayer, AskRoom, ChooseRoom, CreateRoom, PushOther,
         closeVars, roomVars

\* Whatever the interleaving of EnterPlayer, Session::Disconnect and the room's
\* jobs, a player stays behind in a room for good only in the three ways that
\* LeftBehindOnlyBy lists (Room.cpp:450-456, Session.cpp:63-69).
THEOREM LeftBehindOnlyByHolds == Spec => LeftBehindOnlyBy
<1>1. IInv /\ Next =>
        \A s \in Sessions, r \in Rooms : Ghost(s, r)' /\ ~Ghost(s, r) => Excused(s, r)
  BY NewGhostExcused
<1>2. IInv /\ [Next]_vars =>
        [\A s \in Sessions, r \in Rooms :
           Ghost(s, r)' /\ ~Ghost(s, r) =>
             \/ s \in Ids({e[1] : e \in entering})
             \/ closing[s] = "find"
                  /\ (ownerRoom[<<s, currPlayer[s]>>] = NoRoom)
             \/ closing[s] = "push" /\ found[s] # r]_vars
  BY <1>1 DEF Excused
<1> QED
  BY InitIInv, StepIInv, <1>2, PTL DEF Spec, LeftBehindOnlyBy
=============================================================================
