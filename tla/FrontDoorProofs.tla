--------------------------- MODULE FrontDoorProofs ---------------------------
(***************************************************************************)
(* Proofs about FrontDoor, for every number of sessions, of connections    *)
(* and of packets, and every set of accounts.                              *)
(*                                                                         *)
(* The pool: a thread holds a connection just while a job of its is        *)
(* between Pop and Push, and the connections in the pool and in the hands  *)
(* of threads add up to NumConnections.  A thread that is about to pop     *)
(* holds none, so that the others, one fewer than there are connections,   *)
(* cannot hold them all.                                                   *)
(*                                                                         *)
(* The table: an id belongs to one session, and where a session is on its  *)
(* way in or out says whether it is in the table.  Only a session past     *)
(* OnConnected can have packets, jobs or answers that close it.            *)
(*                                                                         *)
(* The order: a sign-up that was a client's first packet waits with        *)
(* nothing of the client before it, is with a thread, or is through.       *)
(*                                                                         *)
(* The wakeups: each queued job is counted with the receiver that will     *)
(* notify for it or with a thread that will test the queue.                *)
(***************************************************************************)
EXTENDS FrontDoor, FiniteSetTheorems, TLAPS

Holding(w) == worker[w] \in {"execute", "answer", "return"}
Holders == {w \in Threads : conn[w] # 0}

\* Every connection is in the pool or with one thread.
PoolInv ==
  /\ \A w \in Threads : conn[w] # 0 <=> Holding(w)
  /\ \A i, j \in 1..Len(pool) : pool[i] = pool[j] => i = j
  /\ Len(pool) + Cardinality(Holders) = NumConnections
  /\ ConnectionsSuffice

Past(s) == accept[s] \in {"register", "done"}

\* An id is given once, and the table says whose it is.
IdInv ==
  /\ \A s \in Sessions : cid[s] < clientId
  /\ \A s, t \in Sessions : cid[s] # 0 /\ cid[s] = cid[t] => s = t
  /\ \A id \in DOMAIN sessions : id # 0 /\ cid[sessions[id]] = id

\* What a client has sent, or is to be told, belongs to a session that has been
\* through OnConnected.
KnownInv ==
  /\ \A s \in Sessions : recv[s] # "none" => Past(s)
  /\ \A i \in 1..Len(dbJobs) : Past(dbJobs[i].session)
  /\ \A w \in Threads : job[w] \in Job => Past(job[w].session)
  /\ \A i \in 1..Len(lobby) : Past(lobby[i].session)
  /\ \A w \in Threads : worker[w] \notin {"asleep", "awake"} => job[w] \in Job

\* On the way in and on the way out.
WayInv(s) ==
  /\ cid[s] = 0 => ~connected[s] /\ closing[s] = "no"
  /\ accept[s] \in {"unused", "pending", "connect", "dropped"} => cid[s] = 0
  /\ accept[s] \in {"add", "recv"} => cid[s] # 0
  /\ accept[s] = "add" => connected[s] /\ closing[s] = "no" /\ ~InTable(s)
  /\ accept[s] = "recv" /\ crashed = "no" => connected[s] /\ closing[s] = "no" /\ InTable(s)
  /\ Past(s) /\ cid[s] # 0 => /\ connected[s] <=> closing[s] = "no"
                              /\ InTable(s) <=> closing[s] # "closed"
TableInv == \A s \in Sessions : WayInv(s)

IInv == TypeOK /\ PoolInv /\ IdInv /\ KnownInv /\ TableInv

-----------------------------------------------------------------------------
(* Types *)

\* The front door starts well typed.
LEMMA InitTypes == Init => TypeOK
<1> SUFFICES ASSUME Init PROVE TypeOK
  OBVIOUS
<1> USE DEF Init, ListenerInit, DatabaseInit, TypeOK
<1>1. pool \in Seq(Connections) /\ Len(pool) = NumConnections
  BY NumConnectionsAssumption DEF Connections
<1>2. dbJobs \in Seq(Job) /\ lobby \in Seq(Answer) /\ sent \in [Sessions -> Seq(Job)]
  OBVIOUS
<1>3. sessions \in [DOMAIN sessions -> Sessions] /\ DOMAIN sessions \subseteq Nat
  OBVIOUS
<1> QED
  BY <1>1, <1>2, <1>3

\* Every step of the listener and of a session keeps the types.
LEMMA ListenerTypes ==
  ASSUME TypeOK, NEW s \in Sessions, UNCHANGED <<dbVars, sent, lobbyVars, failed>>,
         \/ Accepted(s) \/ ProcessAccept(s) \/ RecvFails(s) \/ Leave(s) \/ Release(s)
  PROVE  TypeOK'
<1> USE DEF TypeOK, dbVars, queueVars, connVars, lobbyVars, closeVars, acceptVars
<1>1. CASE Accepted(s)
  BY <1>1 DEF Accepted, At
<1>2. CASE SetConnected(s)
  BY <1>2 DEF SetConnected, At, GoOn, AfterLine
<1>3. CASE AddSession(s)
  <2>1. DOMAIN sessions' \subseteq Nat /\ sessions' \in [DOMAIN sessions' -> Sessions]
    BY <1>3 DEF AddSession
  <2> QED
    BY <1>3, <2>1 DEF AddSession, At, GoOn, AfterLine
<1>4. CASE FirstRecv(s)
  <2>1. CASE recv' = [recv EXCEPT ![s] = "posted"] /\ GoOn(s) /\ UNCHANGED <<connected, crashed>>
    BY <1>4, <2>1 DEF FirstRecv, At, GoOn, AfterLine
  <2>2. CASE /\ connected' = [connected EXCEPT ![s] = FALSE] /\ crashed' = "player"
             /\ UNCHANGED <<accept, recv>>
    BY <1>4, <2>2 DEF FirstRecv
  <2> QED
    BY <1>4, <2>1, <2>2 DEF FirstRecv
<1>5. CASE RegisterAccept(s)
  BY <1>5 DEF RegisterAccept, At
<1>6. CASE RecvFails(s)
  BY <1>6, ZenonT(60) DEF RecvFails, Disconnect
<1>7. CASE Leave(s)
  BY <1>7, ZenonT(60) DEF Leave
<1>8. CASE Release(s)
  <2>1. DOMAIN sessions' \subseteq Nat /\ sessions' \in [DOMAIN sessions' -> Sessions]
    BY <1>8 DEF Release, Restrict
  <2> QED
    BY <1>8, <2>1 DEF Release
<1> QED
  BY <1>1, <1>2, <1>3, <1>4, <1>5, <1>6, <1>7, <1>8 DEF ProcessAccept

\* Every step of a packet handler keeps the types.
LEMMA HandlerTypes ==
  ASSUME TypeOK, NEW s \in Sessions, Handle(s) \/ Handled(s)
  PROVE  TypeOK'
<1> USE DEF TypeOK, connVars, lobbyVars, closeVars, acceptVars
<1>1. CASE Handle(s)
  <2>1. PICK j \in Requests(s) : PushDBJob(j) /\ sent' = [sent EXCEPT ![s] = Append(@, j)]
    BY <1>1 DEF Handle
  <2>2. j \in Job
    BY DEF Requests, Job
  <2>3. dbJobs' \in Seq(Job) /\ sent' \in [Sessions -> Seq(Job)]
    BY <2>1, <2>2 DEF PushDBJob
  <2> QED
    BY <1>1, <2>3 DEF Handle
<1>2. CASE Handled(s)
  <2>1. worker' \in [Threads -> {"asleep", "awake", "pop", "execute", "answer", "return"}]
    <3>1. CASE UNCHANGED worker
      BY <3>1
    <3>2. CASE \E w \in Asleep : worker' = [worker EXCEPT ![w] = "awake"]
      BY <3>2
    <3> QED
      BY <1>2, <3>1, <3>2 DEF Handled, NotifyOne
  <2>2. UNCHANGED <<accept, clientId, cid, sessions, player, crashed, dbJobs, job, conn, pool, outcome,
                    accounts, lobby, sent, lobbyAt, answered, failed>>
    BY <1>2 DEF Handled, NextRecv, Disconnect
  <2>3. /\ recv' \in [Sessions -> {"none", "posted", "next"}]
        /\ closing' \in [Sessions -> {"no", "leave", "release", "closed"}]
        /\ closedBy' \in [Sessions -> {"nobody", "receiver", "lobby"}]
    <3>1. CASE recv' = [recv EXCEPT ![s] = "posted"] /\ UNCHANGED <<closing, closedBy>>
      BY <3>1
    <3>2. CASE recv' = [recv EXCEPT ![s] = "none"] /\ Disconnect(s, "receiver")
      BY <3>2, ZenonT(60) DEF Disconnect
    <3> QED
      BY <1>2, <3>1, <3>2 DEF Handled, NextRecv
  <2>4. connected' \in [Sessions -> BOOLEAN]
    <3>1. connected' = connected \/ connected' = [connected EXCEPT ![s] = FALSE]
      BY <1>2 DEF Handled, NextRecv, Disconnect
    <3> QED
      BY <3>1
  <2> QED
    BY <2>1, <2>2, <2>3, <2>4
<1> QED
  BY <1>1, <1>2

\* Every step of a thread of the database keeps the types.
LEMMA WorkerTypes ==
  ASSUME TypeOK, KnownInv, PoolInv, NEW w \in Threads, Working(w) \/ (WakeUp(w) /\ Others)
  PROVE  TypeOK'
<1> USE DEF TypeOK, connVars, lobbyVars, closeVars, acceptVars, listenerVars, WorkerAt, To, JobEnds
<1>0. /\ worker[w] \in {"pop", "execute", "answer", "return"} => job[w] \in Job
      /\ worker[w] = "return" => conn[w] # 0
  BY DEF KnownInv, PoolInv, Holding
<1>1. ASSUME Working(w)
      PROVE  /\ failed' \in SUBSET Sessions /\ UNCHANGED <<sent, answered>>
             /\ lobbyAt' \in {"off", "idle", "make", "send", "left"}
  <2>1. CASE worker[w] = "execute"
    BY <1>0, <1>1, <2>1 DEF Working, RegisterJobs, Job
  <2>2. CASE worker[w] # "execute"
    BY <1>1, <2>2 DEF Working, RegisterJobs
  <2> QED
    BY <2>1, <2>2
<1>2. ASSUME Working(w), WaitPop(w) PROVE TypeOK'
  <2>1. dbJobs' \in Seq(Job) /\ job' \in [Threads -> Job \union {NoJob}]
    <3>1. CASE dbJobs = <<>>
      BY <1>2, <3>1 DEF WaitPop
    <3>2. CASE dbJobs # <<>>
      <4>1. Head(dbJobs) \in Job /\ Tail(dbJobs) \in Seq(Job)
        BY <3>2
      <4> QED
        BY <1>2, <3>2, <4>1, ZenonT(60) DEF WaitPop
    <3> QED
      BY <3>1, <3>2
  <2> QED
    BY <1>1, <1>2, <2>1, ZenonT(60) DEF WaitPop
<1>3. ASSUME Working(w), PopConnection(w) PROVE TypeOK'
  <2>1. pool' \in Seq(Connections) /\ conn' \in [Threads -> Connections \union {0}]
    <3>1. CASE pool = <<>>
      BY <1>3, <3>1 DEF PopConnection
    <3>2. CASE pool # <<>>
      <4>1. Head(pool) \in Connections /\ Tail(pool) \in Seq(Connections)
        BY <3>2
      <4> QED
        BY <1>3, <3>2, <4>1, ZenonT(60) DEF PopConnection
    <3> QED
      BY <3>1, <3>2
  <2> QED
    BY <1>1, <1>3, <2>1 DEF PopConnection
<1>4. ASSUME Working(w), ExecuteLogin(w) PROVE TypeOK'
  BY <1>1, <1>4 DEF ExecuteLogin, LoginOutcomes
<1>5. ASSUME Working(w), ExecuteSignUp(w) PROVE TypeOK'
  <2>1. job[w].name \in Names
    BY <1>0, <1>5 DEF ExecuteSignUp, Job
  <2> QED
    BY <1>1, <1>5, <2>1, ZenonT(60) DEF ExecuteSignUp
<1>6. ASSUME Working(w), PushAnswer(w) PROVE TypeOK'
  <2>1. lobby' \in Seq(Answer)
    <3>1. [session |-> job[w].session, ok |-> outcome[w] = "success"] \in Answer
      BY <1>0, <1>6 DEF PushAnswer, Job, Answer
    <3> QED
      BY <1>6, <3>1 DEF PushAnswer
  <2> QED
    BY <1>1, <1>6, <2>1 DEF PushAnswer
<1>7. ASSUME Working(w), PushConnection(w) PROVE TypeOK'
  <2>1. pool' \in Seq(Connections)
    BY <1>0, <1>7 DEF PushConnection
  <2> QED
    BY <1>1, <1>7, <2>1 DEF PushConnection
<1>8. CASE WakeUp(w) /\ Others
  BY <1>8 DEF WakeUp, Others
<1> QED
  BY <1>2, <1>3, <1>4, <1>5, <1>6, <1>7, <1>8 DEF Working, Run, Statement

\* Every step of the lobby keeps the types.
LEMMA LobbyTypes == TypeOK /\ Lobby => TypeOK'
<1> SUFFICES ASSUME TypeOK, Lobby PROVE TypeOK'
  OBVIOUS
<1> USE DEF TypeOK, connVars, queueVars, dbVars, closeVars, acceptVars, listenerVars, LobbyRuns
<1>1. ASSUME lobby # <<>>
      PROVE Head(lobby).session \in Sessions /\ Tail(lobby) \in Seq(Answer)
  <2>1. Head(lobby) \in Answer /\ Tail(lobby) \in Seq(Answer)
    BY <1>1
  <2> QED
    BY <2>1 DEF Answer
<1>2. CASE CheckConnected
  <2>1. lobby' \in Seq(Answer) /\ lobbyAt' \in {"off", "idle", "make", "send", "left"}
    BY <1>1, <1>2, ZenonT(60) DEF CheckConnected
  <2> QED
    BY <1>2, <2>1 DEF CheckConnected
<1>3. CASE MakePlayer
  BY <1>1, <1>3 DEF MakePlayer
<1>4. CASE SendLoginInfo
  <2> DEFINE s == Head(lobby).session
  <2>1. s \in Sessions /\ lobby' \in Seq(Answer) /\ lobbyAt' = "idle"
    BY <1>1, <1>4 DEF SendLoginInfo
  <2>2. CASE /\ answered' = [answered EXCEPT ![s] = @ \/ connected[s]]
             /\ UNCHANGED <<connected, closeVars>>
    <3>1. answered' \in [Sessions -> BOOLEAN]
      BY <2>1, <2>2
    <3> QED
      BY <1>4, <2>1, <2>2, <3>1 DEF SendLoginInfo
  <2>3. CASE connected[s] /\ Disconnect(s, "lobby") /\ UNCHANGED answered
    <3>1. /\ connected' = [connected EXCEPT ![s] = FALSE]
          /\ closing' = [closing EXCEPT ![s] = "leave"]
          /\ closedBy' = [closedBy EXCEPT ![s] = "lobby"] /\ sessions' = sessions
      BY <2>3 DEF Disconnect
    <3> QED
      BY <1>4, <2>1, <2>3, <3>1 DEF SendLoginInfo
  <2> QED
    BY <1>4, <2>2, <2>3 DEF SendLoginInfo
<1> QED
  BY <1>2, <1>3, <1>4 DEF Lobby

-----------------------------------------------------------------------------
(* The pool of connections *)

\* Nothing but PopConnection and PushConnection takes or gives a connection.
LEMMA PoolFrame ==
  ASSUME PoolInv, UNCHANGED <<conn, pool>>, crashed' # "connection",
         \A w \in Threads : Holding(w)' <=> Holding(w)
  PROVE  PoolInv'
<1>1. Holders' = Holders
  BY DEF Holders
<1> QED
  BY <1>1 DEF PoolInv, ConnectionsSuffice

\* All connections are in the pool at first.
LEMMA InitPool == Init => PoolInv
<1> SUFFICES ASSUME Init PROVE PoolInv
  OBVIOUS
<1> USE DEF Init, ListenerInit, DatabaseInit
<1>1. Holders = {} /\ Cardinality(Holders) = 0
  BY FS_EmptySet DEF Holders
<1>2. Len(pool) = NumConnections /\ \A i \in 1..Len(pool) : pool[i] = i
  BY NumConnectionsAssumption DEF Connections
<1> QED
  BY <1>1, <1>2, NumConnectionsAssumption DEF PoolInv, Holding, ConnectionsSuffice, Threads, Connections

\* The threads are finitely many.
LEMMA HoldersFinite ==
  /\ IsFiniteSet(Threads) /\ Cardinality(Threads) = NumConnections
  /\ IsFiniteSet(Holders) /\ Cardinality(Holders) \in Nat
<1>1. IsFiniteSet(Threads) /\ Cardinality(Threads) = NumConnections
  BY NumConnectionsAssumption, FS_Interval DEF Threads
<1>2. Holders \in SUBSET Threads
  BY DEF Holders
<1>3. IsFiniteSet(Holders)
  BY <1>1, <1>2, FS_Subset
<1> QED
  BY <1>1, <1>3, FS_CardinalityType

\* A thread that is about to pop finds a connection: it holds none itself, so that
\* at most NumConnections - 1 are held.
LEMMA PoolNotEmpty ==
  ASSUME TypeOK, PoolInv, NEW w \in Threads, worker[w] = "pop"
  PROVE  pool # <<>>
<1> SUFFICES ASSUME pool = <<>> PROVE FALSE
  OBVIOUS
<1>1. w \notin Holders
  BY DEF Holders, PoolInv, Holding
<1>2. Holders \in SUBSET (Threads \ {w})
  BY <1>1 DEF Holders
<1>3. IsFiniteSet(Threads \ {w}) /\ Cardinality(Threads \ {w}) = NumConnections - 1
  BY HoldersFinite, FS_RemoveElement
<1>4. Cardinality(Holders) <= NumConnections - 1
  BY <1>2, <1>3, FS_Subset
<1>5. Cardinality(Holders) = NumConnections
  BY HoldersFinite DEF PoolInv
<1> QED
  BY <1>4, <1>5, NumConnectionsAssumption

\* Popping moves a connection from the pool to the thread.
LEMMA PopPool ==
  ASSUME TypeOK, PoolInv, NEW w \in Threads, PopConnection(w)
  PROVE  PoolInv'
<1>1. worker[w] = "pop" /\ pool # <<>>
  BY PoolNotEmpty DEF PopConnection, WorkerAt
<1>2. /\ conn' = [conn EXCEPT ![w] = Head(pool)] /\ pool' = Tail(pool)
      /\ worker' = [worker EXCEPT ![w] = "execute"] /\ crashed' = crashed
  BY <1>1 DEF PopConnection, To
<1>3. conn[w] = 0 /\ Head(pool) # 0 /\ Head(pool) = pool[1] /\ pool[1] \in Connections
  <2>1. Head(pool) = pool[1] /\ pool[1] \in Connections
    BY <1>1 DEF TypeOK
  <2> QED
    BY <1>1, <2>1, NumConnectionsAssumption DEF PoolInv, Holding, Connections
<1>4. Len(pool') = Len(pool) - 1 /\ \A i \in 1..Len(pool') : pool'[i] = pool[i + 1]
  BY <1>1, <1>2 DEF TypeOK
<1>5. Cardinality(Holders') = Cardinality(Holders) + 1
  <2>1. Holders' = Holders \union {w} /\ w \notin Holders
    BY <1>2, <1>3 DEF Holders, TypeOK
  <2> QED
    BY <2>1, HoldersFinite, FS_AddElement
<1>6. Len(pool') + Cardinality(Holders') = NumConnections
  BY <1>4, <1>5, HoldersFinite DEF PoolInv, TypeOK
<1>7. \A v \in Threads : conn'[v] # 0 <=> Holding(v)'
  BY <1>1, <1>2, <1>3 DEF PoolInv, Holding, TypeOK
<1>8. \A i, j \in 1..Len(pool') : pool'[i] = pool'[j] => i = j
  <2> SUFFICES ASSUME NEW i \in 1..Len(pool'), NEW j \in 1..Len(pool'), pool'[i] = pool'[j]
               PROVE i = j
    OBVIOUS
  <2>1. i + 1 \in 1..Len(pool) /\ j + 1 \in 1..Len(pool) /\ pool[i + 1] = pool[j + 1]
    BY <1>4 DEF TypeOK
  <2>2. i + 1 = j + 1
    BY <2>1 DEF PoolInv
  <2> QED
    BY <2>2
<1>9. ConnectionsSuffice'
  <2>1. \A u, v \in Threads : u # v /\ conn'[u] # 0 => conn'[u] # conn'[v]
    <3>1. \A v \in Threads : pool[1] # conn[v]
      BY <1>1 DEF PoolInv, ConnectionsSuffice, TypeOK
    <3> QED
      BY <1>2, <1>3, <3>1 DEF PoolInv, ConnectionsSuffice, TypeOK
  <2>2. \A v \in Threads, i \in DOMAIN pool' : pool'[i] # conn'[v]
    <3> SUFFICES ASSUME NEW v \in Threads, NEW i \in 1..Len(pool') PROVE pool'[i] # conn'[v]
      BY <1>1, <1>2 DEF TypeOK
    <3>1. i + 1 \in 1..Len(pool) /\ 1 \in 1..Len(pool) /\ i + 1 # 1
      BY <1>4 DEF TypeOK
    <3>2. pool[i + 1] # pool[1] /\ pool[i + 1] # conn[v]
      <4>1. DOMAIN pool = 1..Len(pool)
        BY DEF TypeOK
      <4> QED
        BY <3>1, <4>1 DEF PoolInv, ConnectionsSuffice
    <3> QED
      BY <1>2, <1>3, <1>4, <3>2 DEF TypeOK
  <2> QED
    BY <1>2, <2>1, <2>2 DEF ConnectionsSuffice, PoolInv
<1> QED
  BY <1>6, <1>7, <1>8, <1>9 DEF PoolInv

\* Pushing moves it back.
LEMMA PushPool ==
  ASSUME TypeOK, PoolInv, NEW w \in Threads, PushConnection(w)
  PROVE  PoolInv'
<1>1. /\ worker[w] = "return" /\ worker' = [worker EXCEPT ![w] = "awake"]
      /\ conn' = [conn EXCEPT ![w] = 0] /\ pool' = Append(pool, conn[w]) /\ crashed' = crashed
  BY DEF PushConnection, WorkerAt, To, JobEnds, listenerVars
<1>2. conn[w] # 0 /\ conn[w] \in Connections
  BY <1>1 DEF PoolInv, Holding, TypeOK
<1>3. /\ Len(pool') = Len(pool) + 1 /\ pool'[Len(pool) + 1] = conn[w] /\ Len(pool) \in Nat
      /\ \A i \in 1..Len(pool) : pool'[i] = pool[i] /\ pool[i] # conn[w]
      /\ DOMAIN pool' = 1..Len(pool')
  BY <1>1, <1>2 DEF TypeOK, PoolInv, ConnectionsSuffice
<1>4. Cardinality(Holders') = Cardinality(Holders) - 1
  <2>1. Holders' = Holders \ {w} /\ w \in Holders
    BY <1>1, <1>2 DEF Holders, TypeOK
  <2> QED
    BY <2>1, HoldersFinite, FS_RemoveElement
<1>5. Len(pool') + Cardinality(Holders') = NumConnections
  BY <1>3, <1>4, HoldersFinite DEF PoolInv
<1>6. \A v \in Threads : conn'[v] # 0 <=> Holding(v)'
  BY <1>1, <1>2 DEF PoolInv, Holding, TypeOK
<1>7. \A i, j \in 1..Len(pool') : pool'[i] = pool'[j] => i = j
  BY <1>3 DEF PoolInv
<1>8. ConnectionsSuffice'
  <2>1. \A u, v \in Threads : u # v /\ conn'[u] # 0 => conn'[u] # conn'[v]
    BY <1>1 DEF PoolInv, ConnectionsSuffice, TypeOK
  <2>2. \A v \in Threads, i \in DOMAIN pool' : pool'[i] # conn'[v]
    <3> SUFFICES ASSUME NEW v \in Threads, NEW i \in 1..Len(pool') PROVE pool'[i] # conn'[v]
      BY <1>3
    <3>1. CASE i = Len(pool) + 1
      BY <1>1, <1>2, <1>3, <3>1 DEF PoolInv, ConnectionsSuffice, TypeOK
    <3>2. CASE i \in 1..Len(pool)
      <4>1. pool[i] # conn[v] /\ pool[i] # 0
        <5>1. pool[i] \in Connections
          BY <3>2 DEF TypeOK
        <5> QED
          BY <1>3, <3>2, <5>1, NumConnectionsAssumption DEF PoolInv, ConnectionsSuffice, TypeOK, Connections
      <4> QED
        BY <1>1, <1>3, <3>2, <4>1 DEF TypeOK
    <3> QED
      BY <1>3, <3>1, <3>2
  <2> QED
    BY <1>1, <2>1, <2>2 DEF ConnectionsSuffice, PoolInv
<1> QED
  BY <1>5, <1>6, <1>7, <1>8 DEF PoolInv

\* Every step keeps the pool right.
LEMMA PoolStep == IInv /\ [Next]_vars => PoolInv'
<1> SUFFICES ASSUME IInv, [Next]_vars PROVE PoolInv'
  OBVIOUS
<1> USE DEF IInv, dbVars, connVars, queueVars, listenerVars, Holding
<1>1. crashed # "connection"
  BY DEF PoolInv, ConnectionsSuffice
<1>2. ASSUME NEW s \in Sessions, Accepting(s) PROVE PoolInv'
  <2>1. crashed' # "connection"
    BY <1>1, <1>2 DEF Accepting, Accepted, ProcessAccept, SetConnected, AddSession, FirstRecv,
                      RegisterAccept
  <2> QED
    BY <1>2, <2>1, PoolFrame DEF Accepting
<1>3. ASSUME NEW s \in Sessions, Handle(s) PROVE PoolInv'
  BY <1>1, <1>3, PoolFrame DEF Handle
<1>4. ASSUME NEW s \in Sessions, Handled(s) PROVE PoolInv'
  <2>1. UNCHANGED <<conn, pool, crashed>> /\ NotifyOne
    BY <1>4 DEF Handled, NextRecv
  <2>2. \A w \in Threads : Holding(w)' <=> Holding(w)
    <3>1. CASE UNCHANGED worker
      BY <3>1
    <3>2. CASE \E w \in Asleep : worker' = [worker EXCEPT ![w] = "awake"]
      BY <3>2 DEF Asleep, TypeOK
    <3> QED
      BY <2>1, <3>1, <3>2 DEF NotifyOne
  <2> QED
    BY <1>1, <2>1, <2>2, PoolFrame
<1>5. ASSUME NEW s \in Sessions, RecvFails(s) /\ UNCHANGED dbVars PROVE PoolInv'
  BY <1>1, <1>5, PoolFrame DEF RecvFails
<1>6. ASSUME NEW s \in Sessions, Closing(s) PROVE PoolInv'
  <2>1. crashed' # "connection"
    BY <1>1, <1>6 DEF Closing, Leave, Release
  <2> QED
    BY <1>6, <2>1, PoolFrame DEF Closing
<1>7. ASSUME NEW w \in Threads, Working(w) PROVE PoolInv'
  <2>1. CASE PopConnection(w)
    BY <2>1, PopPool
  <2>2. CASE PushConnection(w)
    BY <2>2, PushPool
  <2>3. CASE WaitPop(w) \/ ExecuteLogin(w) \/ ExecuteSignUp(w) \/ PushAnswer(w)
    <3>1. UNCHANGED <<conn, pool, crashed>>
      BY <2>3 DEF WaitPop, ExecuteLogin, ExecuteSignUp, PushAnswer
    <3>2. \A v \in Threads : Holding(v)' <=> Holding(v)
      BY <2>3 DEF WaitPop, ExecuteLogin, ExecuteSignUp, PushAnswer, WorkerAt, To, TypeOK
    <3> QED
      BY <1>1, <3>1, <3>2, PoolFrame
  <2> QED
    BY <1>7, <2>1, <2>2, <2>3 DEF Working, Run, Statement
<1>8. ASSUME NEW w \in Threads, WakeUp(w) PROVE PoolInv'
  <2>1. \A v \in Threads : Holding(v)' <=> Holding(v)
    BY <1>8 DEF WakeUp, WorkerAt, To, TypeOK
  <2> QED
    BY <1>1, <1>8, <2>1, PoolFrame DEF WakeUp
<1>9. CASE Lobby
  <2>1. UNCHANGED <<worker, conn, pool, crashed>>
    BY <1>9 DEF Lobby, CheckConnected, MakePlayer, SendLoginInfo
  <2> QED
    BY <1>1, <2>1, PoolFrame
<1>10. CASE UNCHANGED vars
  <2>1. UNCHANGED <<worker, conn, pool, crashed>>
    BY <1>10 DEF vars
  <2> QED
    BY <1>1, <2>1, PoolFrame
<1> QED
  BY <1>2, <1>3, <1>4, <1>5, <1>6, <1>7, <1>8, <1>9, <1>10 DEF Next, Receiving

-----------------------------------------------------------------------------
(* What is known of a session *)

\* A session that is past OnConnected stays so, and only such a session receives.
LEMMA PastStep ==
  ASSUME IInv, NEW s \in Sessions, Accepting(s)
  PROVE  /\ \A t \in Sessions : Past(t) => Past(t)'
         /\ \A t \in Sessions : recv'[t] # "none" => Past(t)'
<1> USE DEF IInv, TypeOK, KnownInv, Past, At, GoOn, AfterLine
<1>1. CASE Accepted(s)
  BY <1>1 DEF Accepted
<1>2. CASE SetConnected(s)
  BY <1>2 DEF SetConnected
<1>3. CASE AddSession(s)
  BY <1>3 DEF AddSession
<1>4. CASE FirstRecv(s)
  <2>1. CASE UNCHANGED <<accept, recv>>
    BY <2>1
  <2>2. CASE /\ accept' = [accept EXCEPT ![s] = "register"]
             /\ recv' = [recv EXCEPT ![s] = "posted"]
    BY <1>4, <2>2 DEF FirstRecv
  <2> QED
    BY <1>4, <2>1, <2>2 DEF FirstRecv
<1>5. CASE RegisterAccept(s)
  <2>1. PICK t \in Sessions :
          /\ CreateSession(t)
          /\ \/ accept' = [accept EXCEPT ![t] = "pending", ![s] = "done"]
             \/ accept' = [accept EXCEPT ![t] = "dropped"]
             \/ UNCHANGED accept
    BY <1>5 DEF RegisterAccept
  <2>2. accept[t] = "unused" /\ accept[s] = "register" /\ recv' = recv
    BY <1>5, <2>1 DEF RegisterAccept, CreateSession
  <2>3. ASSUME NEW u \in Sessions, Past(u) PROVE Past(u)'
    <3>1. u # t
      BY <2>2, <2>3
    <3> QED
      BY <2>1, <2>2, <2>3, <3>1
  <2>4. \A u \in Sessions : recv'[u] # "none" => Past(u)
    BY <2>2
  <2> QED
    BY <2>3, <2>4
<1> QED
  BY <1>1, <1>2, <1>3, <1>4, <1>5 DEF Accepting, ProcessAccept

\* When no session changes its place, only the queues matter.
LEMMA KnownFrame ==
  ASSUME KnownInv, UNCHANGED accept,
         \A s \in Sessions : recv'[s] # "none" => recv[s] # "none",
         \A i \in 1..Len(dbJobs') : Past(dbJobs'[i].session),
         \A w \in Threads : job'[w] \in Job => Past(job'[w].session),
         \A i \in 1..Len(lobby') : Past(lobby'[i].session),
         \A w \in Threads : worker'[w] \notin {"asleep", "awake"} => job'[w] \in Job
  PROVE  KnownInv'
BY DEF KnownInv, Past

\* The threads of the database pass on what they know.
LEMMA WorkerKnown ==
  ASSUME IInv, NEW w \in Threads, Run(w)
  PROVE  KnownInv'
<1> USE DEF IInv, TypeOK, WorkerAt, To, JobEnds, listenerVars, acceptVars, connVars
<1>1. CASE WaitPop(w)
  <2>1. UNCHANGED <<accept, recv, lobby>>
    BY <1>1 DEF WaitPop
  <2>2. CASE dbJobs = <<>>
    BY <1>1, <2>1, <2>2, KnownFrame, ZenonT(60) DEF WaitPop, KnownInv
  <2>3. CASE dbJobs # <<>>
    <3>1. /\ Head(dbJobs) = dbJobs[1] /\ 1 \in 1..Len(dbJobs) /\ dbJobs[1] \in Job
          /\ dbJobs' = Tail(dbJobs) /\ job' = [job EXCEPT ![w] = dbJobs[1]]
          /\ worker' = [worker EXCEPT ![w] = "pop"]
      BY <1>1, <2>3 DEF WaitPop
    <3>2. \A i \in 1..Len(dbJobs') : i + 1 \in 1..Len(dbJobs) /\ dbJobs'[i] = dbJobs[i + 1]
      BY <2>3, <3>1
    <3>3. \A i \in 1..Len(dbJobs') : Past(dbJobs'[i].session)
      BY <3>2 DEF KnownInv
    <3>4. Past(dbJobs[1].session)
      BY <3>1 DEF KnownInv
    <3> QED
      BY <2>1, <3>1, <3>3, <3>4, KnownFrame DEF KnownInv
  <2> QED
    BY <2>2, <2>3
<1>2. CASE PopConnection(w)
  BY <1>2, KnownFrame DEF PopConnection, KnownInv
<1>3. CASE ExecuteLogin(w) \/ ExecuteSignUp(w)
  BY <1>3, KnownFrame, ZenonT(60) DEF ExecuteLogin, ExecuteSignUp, KnownInv
<1>4. CASE PushAnswer(w)
  <2>1. UNCHANGED <<accept, recv, dbJobs, job>> /\ worker' = [worker EXCEPT ![w] = "return"]
    BY <1>4 DEF PushAnswer
  <2>2. job[w] \in Job /\ Past(job[w].session)
    BY <1>4 DEF PushAnswer, KnownInv
  <2>3. \A i \in 1..Len(lobby') : Past(lobby'[i].session)
    <3> DEFINE a == [session |-> job[w].session, ok |-> outcome[w] = "success"]
    <3>1. CASE lobby' = lobby
      BY <3>1 DEF KnownInv
    <3>2. CASE lobby' = Append(lobby, a)
      <4>1. Len(lobby') = Len(lobby) + 1 /\ lobby'[Len(lobby) + 1] = a /\ Len(lobby) \in Nat
        BY <3>2
      <4>2. \A i \in 1..Len(lobby) : lobby'[i] = lobby[i]
        BY <3>2
      <4>3. \A i \in 1..Len(lobby') : i \in 1..Len(lobby) \/ i = Len(lobby) + 1
        <5>1. \A m \in Nat : \A i \in 1..(m + 1) : i \in 1..m \/ i = m + 1
          OBVIOUS
        <5> QED
          BY <4>1, <5>1, Zenon
      <4> QED
        <5> SUFFICES ASSUME NEW i \in 1..Len(lobby') PROVE Past(lobby'[i].session)
          OBVIOUS
        <5>1. CASE i \in 1..Len(lobby)
          BY <4>2, <5>1 DEF KnownInv
        <5>2. CASE i = Len(lobby) + 1
          <6>1. lobby'[i].session = job[w].session
            BY <4>1, <5>2
          <6> QED
            BY <2>2, <6>1
        <5> QED
          BY <4>3, <5>1, <5>2
    <3> QED
      BY <1>4, <3>1, <3>2 DEF PushAnswer
  <2> QED
    BY <2>1, <2>2, <2>3, KnownFrame DEF KnownInv
<1>5. CASE PushConnection(w)
  <2>1. UNCHANGED <<accept, recv, dbJobs, lobby>> /\ worker' = [worker EXCEPT ![w] = "awake"]
    BY <1>5 DEF PushConnection
  <2>2. job' = [job EXCEPT ![w] = NoJob] /\ NoJob \notin Job
    BY <1>5 DEF PushConnection, NoJob, Job
  <2> QED
    BY <2>1, <2>2, KnownFrame DEF KnownInv
<1> QED
  BY <1>1, <1>2, <1>3, <1>4, <1>5 DEF Run, Statement

\* Whatever is pushed or posted belongs to a session past OnConnected.
LEMMA KnownStep == IInv /\ [Next]_vars => KnownInv'
<1> SUFFICES ASSUME IInv, [Next]_vars PROVE KnownInv'
  OBVIOUS
<1> USE DEF IInv
<1>1. ASSUME NEW s \in Sessions, Accepting(s) PROVE KnownInv'
  <2>1. UNCHANGED <<dbJobs, job, lobby, worker>>
    BY <1>1 DEF Accepting, dbVars, queueVars
  <2>2. /\ \A t \in Sessions : Past(t) => Past(t)'
        /\ \A t \in Sessions : recv'[t] # "none" => Past(t)'
    BY <1>1, PastStep
  <2>3. \A i \in 1..Len(dbJobs) : dbJobs[i].session \in Sessions
    <3>1. \A i \in 1..Len(dbJobs) : dbJobs[i] \in Job
      BY DEF TypeOK
    <3> QED
      BY <3>1 DEF Job
  <2>4. \A i \in 1..Len(lobby) : lobby[i].session \in Sessions
    <3>1. \A i \in 1..Len(lobby) : lobby[i] \in Answer
      BY DEF TypeOK
    <3> QED
      BY <3>1 DEF Answer
  <2>5. \A w \in Threads : job[w] \in Job => job[w].session \in Sessions
    BY DEF Job
  <2> QED
    BY <2>1, <2>2, <2>3, <2>4, <2>5 DEF KnownInv
<1>2. ASSUME NEW s \in Sessions, Handle(s) PROVE KnownInv'
  <2>1. PICK j \in Requests(s) : dbJobs' = Append(dbJobs, j)
    BY <1>2 DEF Handle, PushDBJob
  <2>2. j \in Job /\ j.session = s /\ Past(s)
    BY <1>2 DEF Requests, Job, Handle, KnownInv
  <2>3. /\ UNCHANGED <<accept, job, worker, lobby>> /\ recv' = [recv EXCEPT ![s] = "next"]
        /\ recv[s] = "posted"
    BY <1>2 DEF Handle, acceptVars
  <2>4. \A i \in 1..Len(dbJobs') : Past(dbJobs'[i].session)
    <3>1. /\ Len(dbJobs') = Len(dbJobs) + 1 /\ dbJobs'[Len(dbJobs) + 1] = j /\ Len(dbJobs) \in Nat
          /\ \A i \in 1..Len(dbJobs) : dbJobs'[i] = dbJobs[i]
      BY <2>1, <2>2 DEF TypeOK
    <3>2. \A i \in 1..Len(dbJobs') : i \in 1..Len(dbJobs) \/ i = Len(dbJobs) + 1
      BY <3>1
    <3> QED
      BY <2>2, <3>1, <3>2 DEF KnownInv
  <2>5. \A t \in Sessions : recv'[t] # "none" => recv[t] # "none"
    BY <2>3 DEF TypeOK
  <2> QED
    BY <2>3, <2>4, <2>5, KnownFrame DEF KnownInv
<1>3. ASSUME NEW s \in Sessions, Handled(s) PROVE KnownInv'
  <2>1. /\ UNCHANGED <<accept, dbJobs, job, lobby>> /\ NotifyOne /\ recv[s] = "next"
        /\ \/ recv' = [recv EXCEPT ![s] = "posted"] \/ recv' = [recv EXCEPT ![s] = "none"]
    BY <1>3 DEF Handled, NextRecv, acceptVars
  <2>2. \A t \in Sessions : recv'[t] # "none" => recv[t] # "none"
    BY <2>1 DEF TypeOK
  <2>3. \A w \in Threads : worker'[w] \notin {"asleep", "awake"} => worker'[w] = worker[w]
    BY <2>1 DEF NotifyOne, Asleep, TypeOK
  <2> QED
    BY <2>1, <2>2, <2>3, KnownFrame DEF KnownInv
<1>4. ASSUME NEW s \in Sessions, RecvFails(s) /\ UNCHANGED dbVars PROVE KnownInv'
  <2>1. UNCHANGED <<accept, dbJobs, job, lobby, worker>> /\ recv' = [recv EXCEPT ![s] = "none"]
    BY <1>4 DEF RecvFails, dbVars, queueVars, acceptVars
  <2>2. \A t \in Sessions : recv'[t] # "none" => recv[t] # "none"
    BY <2>1 DEF TypeOK
  <2> QED
    BY <2>1, <2>2, KnownFrame DEF KnownInv
<1>5. ASSUME NEW s \in Sessions, Closing(s) PROVE KnownInv'
  <2>1. UNCHANGED <<accept, recv, dbJobs, job, lobby, worker>>
    BY <1>5 DEF Closing, Leave, Release, dbVars, queueVars, acceptVars
  <2> QED
    BY <2>1, KnownFrame DEF KnownInv
<1>6. ASSUME NEW w \in Threads, Working(w) PROVE KnownInv'
  BY <1>6, WorkerKnown DEF Working
<1>7. ASSUME NEW w \in Threads, WakeUp(w) PROVE KnownInv'
  <2>1. /\ UNCHANGED <<accept, recv, dbJobs, job, lobby>>
        /\ worker' = [worker EXCEPT ![w] = "awake"]
    BY <1>7 DEF WakeUp, To, listenerVars, acceptVars
  <2> QED
    BY <2>1, KnownFrame DEF KnownInv, TypeOK
<1>8. CASE Lobby
  <2>1. UNCHANGED <<accept, recv, dbJobs, job, worker>>
    BY <1>8 DEF Lobby, CheckConnected, MakePlayer, SendLoginInfo, listenerVars, acceptVars, dbVars,
                queueVars
  <2>2. lobby' = lobby \/ (lobby # <<>> /\ lobby' = Tail(lobby))
    BY <1>8 DEF Lobby, CheckConnected, MakePlayer, SendLoginInfo, LobbyRuns, dbVars
  <2>3. \A i \in 1..Len(lobby') : Past(lobby'[i].session)
    <3>1. CASE lobby # <<>> /\ lobby' = Tail(lobby)
      <4>1. \A i \in 1..Len(lobby') : i + 1 \in 1..Len(lobby) /\ lobby'[i] = lobby[i + 1]
        BY <3>1 DEF TypeOK
      <4> QED
        BY <4>1 DEF KnownInv
    <3> QED
      BY <2>2, <3>1 DEF KnownInv
  <2> QED
    BY <2>1, <2>3, KnownFrame DEF KnownInv
<1>9. CASE UNCHANGED vars
  <2>1. UNCHANGED <<accept, recv, dbJobs, job, lobby, worker>>
    BY <1>9 DEF vars, listenerVars, acceptVars, dbVars, queueVars
  <2> QED
    BY <2>1, KnownFrame DEF KnownInv
<1> QED
  BY <1>1, <1>2, <1>3, <1>4, <1>5, <1>6, <1>7, <1>8, <1>9 DEF Next, Receiving

-----------------------------------------------------------------------------
(* The table of sessions *)

\* A step that moves no session keeps the table right.
LEMMA TableFrame ==
  ASSUME IdInv, TableInv, UNCHANGED <<accept, clientId, cid, connected, closing, sessions>>,
         crashed' = "no" => crashed = "no"
  PROVE  IdInv' /\ TableInv'
<1>1. IdInv'
  BY DEF IdInv
<1>2. ASSUME NEW s \in Sessions PROVE WayInv(s)'
  <2>1. WayInv(s)
    BY DEF TableInv
  <2> QED
    BY <2>1 DEF WayInv, Past, InTable
<1> QED
  BY <1>1, <1>2 DEF TableInv

\* A session that accepts gets its id, its place in the table and its first receive,
\* in this order; no other session is touched.
LEMMA AcceptTable ==
  ASSUME IInv, NEW s \in Sessions, Accepting(s)
  PROVE  IdInv' /\ TableInv'
<1> USE DEF IInv, TypeOK, At, GoOn, AfterLine, closeVars
<1>1. WayInv(s) /\ \A t \in Sessions : WayInv(t)
  BY DEF TableInv
<1>2. CASE Accepted(s)
  <2>1. IdInv'
    BY <1>2 DEF Accepted, IdInv
  <2>2. ASSUME NEW t \in Sessions PROVE WayInv(t)'
    BY <1>1, <1>2 DEF Accepted, WayInv, Past, InTable
  <2> QED
    BY <2>1, <2>2 DEF TableInv
<1>3. CASE SetConnected(s)
  <2>1. /\ accept[s] = "connect" /\ accept' = [accept EXCEPT ![s] = "add"]
        /\ clientId' = clientId + 1 /\ cid' = [cid EXCEPT ![s] = clientId]
        /\ connected' = [connected EXCEPT ![s] = TRUE]
        /\ UNCHANGED <<sessions, closing, crashed>>
    BY <1>3 DEF SetConnected
  <2>2. cid[s] = 0 /\ closing[s] = "no"
    BY <1>1, <2>1 DEF WayInv
  <2>3. \A id \in DOMAIN sessions : sessions[id] \in Sessions /\ sessions[id] # s /\ id # clientId
    BY <2>2 DEF IdInv
  <2>4. IdInv'
    <3>1. \A t \in Sessions : cid'[t] < clientId'
      BY <2>1 DEF IdInv
    <3>2. \A t, u \in Sessions : cid'[t] # 0 /\ cid'[t] = cid'[u] => t = u
      BY <2>1 DEF IdInv
    <3>3. \A id \in DOMAIN sessions' : id # 0 /\ cid'[sessions'[id]] = id
      BY <2>1, <2>3 DEF IdInv
    <3> QED
      BY <3>1, <3>2, <3>3 DEF IdInv
  <2>5. WayInv(s)'
    <3>1. /\ cid'[s] = clientId /\ clientId # 0 /\ accept'[s] = "add" /\ connected'[s]
          /\ closing'[s] = "no"
      BY <2>1, <2>2
    <3>2. ~InTable(s)'
      BY <2>1, <2>3, <3>1 DEF InTable
    <3> QED
      BY <3>1, <3>2 DEF WayInv, Past
  <2>6. ASSUME NEW t \in Sessions, t # s PROVE WayInv(t)'
    <3>1. UNCHANGED <<accept[t], cid[t], connected[t], closing[t], crashed, sessions>>
      BY <2>1, <2>6
    <3>2. WayInv(t)
      BY <1>1
    <3> QED
      BY <3>1, <3>2 DEF WayInv, Past, InTable
  <2> QED
    BY <2>4, <2>5, <2>6 DEF TableInv
<1>4. CASE AddSession(s)
  <2>1. /\ accept[s] = "add" /\ accept' = [accept EXCEPT ![s] = "recv"]
        /\ UNCHANGED <<clientId, cid, connected, closing, crashed>>
    BY <1>4 DEF AddSession
  <2>2. cid[s] # 0 /\ connected[s] /\ closing[s] = "no" /\ ~InTable(s)
    BY <1>1, <2>1 DEF WayInv
  <2>3. cid[s] \notin DOMAIN sessions
    BY <2>2 DEF IdInv, InTable
  <2>4. /\ DOMAIN sessions' = DOMAIN sessions \union {cid[s]} /\ sessions'[cid[s]] = s
        /\ \A id \in DOMAIN sessions : sessions'[id] = sessions[id] /\ id # cid[s]
    BY <1>4, <2>3 DEF AddSession
  <2>5. IdInv'
    BY <2>1, <2>2, <2>4 DEF IdInv
  <2>6. WayInv(s)'
    <3>1. /\ cid'[s] = cid[s] /\ accept'[s] = "recv" /\ connected'[s] /\ closing'[s] = "no"
      BY <2>1, <2>2
    <3>2. InTable(s)'
      BY <2>4, <3>1 DEF InTable
    <3> QED
      BY <2>2, <3>1, <3>2 DEF WayInv, Past
  <2>7. ASSUME NEW t \in Sessions, t # s PROVE WayInv(t)'
    <3>1. UNCHANGED <<accept[t], cid[t], connected[t], closing[t], crashed>>
      BY <2>1, <2>7
    <3>2. InTable(t)' <=> InTable(t)
      BY <2>1, <2>2, <2>4, <2>7 DEF InTable, IdInv
    <3>3. WayInv(t)
      BY <1>1
    <3> QED
      BY <3>1, <3>2, <3>3 DEF WayInv, Past
  <2> QED
    BY <2>5, <2>6, <2>7 DEF TableInv
<1>5. CASE FirstRecv(s)
  <2>1. IdInv'
    BY <1>5 DEF FirstRecv, IdInv
  <2>2. accept[s] = "recv" /\ crashed = "no" /\ UNCHANGED <<cid, closing, sessions>>
    BY <1>5 DEF FirstRecv
  <2>3. cid[s] # 0 /\ connected[s] /\ closing[s] = "no" /\ InTable(s)
    BY <1>1, <2>2 DEF WayInv
  <2>4. CASE accept' = [accept EXCEPT ![s] = "register"] /\ UNCHANGED <<connected, crashed>>
    <3>1. ASSUME NEW t \in Sessions PROVE WayInv(t)'
      BY <1>1, <2>2, <2>3, <2>4 DEF WayInv, Past, InTable
    <3> QED
      BY <2>1, <3>1 DEF TableInv
  <2>5. CASE /\ connected' = [connected EXCEPT ![s] = FALSE] /\ crashed' = "player"
             /\ UNCHANGED accept
    <3>1. ASSUME NEW t \in Sessions PROVE WayInv(t)'
      <4>1. CASE t = s
        BY <2>2, <2>3, <2>5, <4>1 DEF WayInv, Past
      <4>2. CASE t # s
        <5>1. UNCHANGED <<accept[t], cid[t], connected[t], closing[t], sessions>> /\ crashed' # "no"
          BY <2>2, <2>5, <4>2
        <5> QED
          BY <1>1, <5>1 DEF WayInv, Past, InTable
      <4> QED
        BY <4>1, <4>2
    <3> QED
      BY <2>1, <3>1 DEF TableInv
  <2> QED
    BY <1>5, <2>2, <2>4, <2>5 DEF FirstRecv
<1>6. CASE RegisterAccept(s)
  <2>1. PICK t \in Sessions :
          /\ CreateSession(t)
          /\ \/ accept' = [accept EXCEPT ![t] = "pending", ![s] = "done"] /\ UNCHANGED crashed
             \/ accept' = [accept EXCEPT ![t] = "dropped"] /\ UNCHANGED crashed
             \/ crashed' = "session" /\ UNCHANGED accept
    BY <1>6 DEF RegisterAccept
  <2>2. /\ accept[t] = "unused" /\ accept[s] = "register" /\ t # s
        /\ UNCHANGED <<clientId, cid, connected, closing, sessions>>
    BY <1>6, <2>1 DEF RegisterAccept, CreateSession
  <2>3. IdInv'
    BY <2>2 DEF IdInv
  <2>4. ASSUME NEW u \in Sessions PROVE WayInv(u)'
    <3>1. UNCHANGED <<cid[u], connected[u], closing[u], sessions>> /\ WayInv(u)
      BY <1>1, <2>2
    <3>2. crashed' = "no" => crashed = "no"
      BY <1>6, <2>1 DEF RegisterAccept
    <3>3. \/ accept'[u] = accept[u]
          \/ accept[u] = "register" /\ accept'[u] = "done"
          \/ accept[u] = "unused" /\ accept'[u] \in {"pending", "dropped"}
      BY <2>1, <2>2, ZenonT(60)
    <3> QED
      BY <3>1, <3>2, <3>3 DEF WayInv, Past, InTable
  <2> QED
    BY <2>3, <2>4 DEF TableInv
<1> QED
  BY <1>2, <1>3, <1>4, <1>5, <1>6 DEF Accepting, ProcessAccept

\* The one caller that passes the exchange leaves the session in the table.
LEMMA DisconnectTable ==
  ASSUME IInv, NEW s \in Sessions, NEW by, Past(s), Disconnect(s, by),
         UNCHANGED <<accept, clientId, cid, crashed>>
  PROVE  IdInv' /\ TableInv'
<1> USE DEF IInv, TypeOK
<1>1. IdInv'
  BY DEF Disconnect, IdInv
<1>2. WayInv(s) /\ \A t \in Sessions : WayInv(t)
  BY DEF TableInv
<1>3. connected' = [connected EXCEPT ![s] = FALSE] /\ sessions' = sessions
  BY DEF Disconnect
<1>4. ASSUME NEW t \in Sessions, t # s PROVE WayInv(t)'
  <2>1. UNCHANGED <<accept[t], cid[t], connected[t], closing[t], crashed, sessions>>
    BY <1>3, <1>4 DEF Disconnect
  <2> QED
    BY <1>2, <2>1 DEF WayInv, Past, InTable
<1>5. WayInv(s)'
  <2>1. CASE connected[s]
    <3>1. closing' = [closing EXCEPT ![s] = "leave"]
      BY <2>1 DEF Disconnect
    <3>2. cid[s] # 0 /\ InTable(s)
      BY <1>2, <2>1 DEF WayInv
    <3>3. InTable(s)' /\ cid'[s] # 0 /\ ~connected'[s] /\ closing'[s] = "leave" /\ Past(s)'
      BY <1>3, <3>1, <3>2 DEF InTable, Past
    <3> QED
      BY <3>3 DEF WayInv, Past
  <2>2. CASE ~connected[s]
    <3>1. UNCHANGED closing /\ ~connected'[s]
      BY <1>3, <2>2 DEF Disconnect
    <3> QED
      BY <1>2, <1>3, <2>2, <3>1 DEF WayInv, Past, InTable
  <2> QED
    BY <2>1, <2>2
<1> QED
  BY <1>1, <1>4, <1>5 DEF TableInv

\* Releasing takes out of the table just the session that closes.
LEMMA ClosingTable ==
  ASSUME IInv, NEW s \in Sessions, Closing(s)
  PROVE  IdInv' /\ TableInv'
<1> USE DEF IInv, TypeOK, acceptVars
<1>1. WayInv(s) /\ \A t \in Sessions : WayInv(t)
  BY DEF TableInv
<1>2. CASE Leave(s)
  <2>1. IdInv'
    BY <1>2 DEF Leave, IdInv
  <2>2. /\ crashed = "no" /\ closing[s] = "leave"
        /\ UNCHANGED <<accept, clientId, cid, connected, sessions>>
    BY <1>2 DEF Leave
  <2>3. \/ closing' = [closing EXCEPT ![s] = "release"] /\ crashed' = crashed
        \/ closing' = closing /\ crashed' = "player"
    BY <1>2 DEF Leave
  <2>4. ASSUME NEW t \in Sessions PROVE WayInv(t)'
    <3>1. CASE t = s
      BY <1>1, <2>2, <2>3, <3>1 DEF WayInv, Past, InTable
    <3>2. CASE t # s
      <4>1. UNCHANGED <<accept[t], cid[t], connected[t], closing[t], sessions>>
        BY <2>2, <2>3, <3>2
      <4> QED
        BY <1>1, <2>2, <4>1 DEF WayInv, Past, InTable
    <3> QED
      BY <3>1, <3>2
  <2> QED
    BY <2>1, <2>4 DEF TableInv
<1>3. CASE Release(s)
  <2>1. /\ crashed = "no" /\ closing[s] = "release" /\ closing' = [closing EXCEPT ![s] = "closed"]
        /\ UNCHANGED <<accept, clientId, cid, connected, crashed>>
    BY <1>3 DEF Release
  <2>2. cid[s] # 0 /\ Past(s) /\ ~connected[s] /\ InTable(s)
    BY <1>1, <2>1 DEF WayInv, Past
  <2>3. /\ DOMAIN sessions' = DOMAIN sessions \ {cid[s]}
        /\ \A id \in DOMAIN sessions' : sessions'[id] = sessions[id]
    BY <1>3 DEF Release, Restrict
  <2>4. IdInv'
    BY <2>1, <2>3 DEF IdInv
  <2>5. WayInv(s)'
    <3>1. ~InTable(s)' /\ ~connected'[s] /\ closing'[s] = "closed" /\ Past(s)' /\ cid'[s] # 0
      BY <2>1, <2>2, <2>3 DEF InTable, Past
    <3> QED
      BY <3>1 DEF WayInv, Past
  <2>6. ASSUME NEW t \in Sessions, t # s PROVE WayInv(t)'
    <3>1. UNCHANGED <<accept[t], cid[t], connected[t], closing[t], crashed>>
      BY <2>1, <2>6
    <3>2. InTable(t)' <=> InTable(t)
      BY <2>1, <2>2, <2>3, <2>6 DEF InTable, IdInv
    <3> QED
      BY <1>1, <3>1, <3>2 DEF WayInv, Past
  <2> QED
    BY <2>4, <2>5, <2>6 DEF TableInv
<1> QED
  BY <1>2, <1>3 DEF Closing

\* Every step keeps the table right.
LEMMA TableStep == IInv /\ [Next]_vars => IdInv' /\ TableInv'
<1> SUFFICES ASSUME IInv, [Next]_vars PROVE IdInv' /\ TableInv'
  OBVIOUS
<1> USE DEF IInv, acceptVars, closeVars, listenerVars
<1>1. ASSUME NEW s \in Sessions, Accepting(s) PROVE IdInv' /\ TableInv'
  BY <1>1, AcceptTable
<1>2. ASSUME NEW s \in Sessions, Handle(s) PROVE IdInv' /\ TableInv'
  BY <1>2, TableFrame DEF Handle
<1>3. ASSUME NEW s \in Sessions, Handled(s) PROVE IdInv' /\ TableInv'
  <2>1. Past(s) /\ UNCHANGED <<accept, clientId, cid, crashed>>
    BY <1>3 DEF Handled, NextRecv, KnownInv
  <2>2. CASE Disconnect(s, "receiver")
    BY <2>1, <2>2, DisconnectTable
  <2>3. CASE UNCHANGED <<connected, closing, closedBy, sessions>>
    BY <2>1, <2>3, TableFrame
  <2> QED
    BY <1>3, <2>2, <2>3 DEF Handled, NextRecv
<1>4. ASSUME NEW s \in Sessions, RecvFails(s) PROVE IdInv' /\ TableInv'
  <2>1. Past(s) /\ UNCHANGED <<accept, clientId, cid, crashed>> /\ Disconnect(s, "receiver")
    BY <1>4 DEF RecvFails, KnownInv
  <2> QED
    BY <2>1, DisconnectTable
<1>5. ASSUME NEW s \in Sessions, Closing(s) PROVE IdInv' /\ TableInv'
  BY <1>5, ClosingTable
<1>6. ASSUME NEW w \in Threads, Working(w) \/ WakeUp(w) PROVE IdInv' /\ TableInv'
  <2>1. /\ UNCHANGED <<accept, clientId, cid, connected, closing, sessions>>
        /\ crashed' \in {crashed, "connection"}
    BY <1>6 DEF Working, Run, Statement, WaitPop, PopConnection, ExecuteLogin, ExecuteSignUp, PushAnswer,
                PushConnection, JobEnds, WakeUp
  <2> QED
    BY <2>1, TableFrame
<1>7. CASE CheckConnected \/ MakePlayer
  BY <1>7, TableFrame DEF CheckConnected, MakePlayer
<1>8. CASE SendLoginInfo
  <2> DEFINE s == Head(lobby).session
  <2>1. s \in Sessions /\ Past(s)
    <3>1. 1 \in 1..Len(lobby) /\ Head(lobby) = lobby[1] /\ lobby[1] \in Answer
      BY <1>8 DEF SendLoginInfo, LobbyRuns, TypeOK
    <3> QED
      BY <3>1 DEF KnownInv, Answer
  <2>2. UNCHANGED <<accept, clientId, cid, crashed>>
    BY <1>8 DEF SendLoginInfo
  <2>3. CASE Disconnect(s, "lobby")
    BY <2>1, <2>2, <2>3, DisconnectTable
  <2>4. CASE UNCHANGED <<connected, closing, closedBy, sessions>>
    BY <2>2, <2>4, TableFrame
  <2> QED
    BY <1>8, <2>3, <2>4 DEF SendLoginInfo
<1>9. CASE UNCHANGED vars
  BY <1>9, TableFrame DEF vars
<1> QED
  BY <1>1, <1>2, <1>3, <1>4, <1>5, <1>6, <1>7, <1>8, <1>9 DEF Next, Receiving, Lobby

-----------------------------------------------------------------------------

\* Nothing has happened at first.
LEMMA InitIInv == Init => IInv
<1> SUFFICES ASSUME Init PROVE IInv
  OBVIOUS
<1>1. TypeOK /\ PoolInv
  BY InitTypes, InitPool
<1> USE DEF Init, ListenerInit, DatabaseInit
<1>2. IdInv
  BY DEF IdInv
<1>3. KnownInv
  BY DEF KnownInv, NoJob, Job
<1>4. TableInv
  BY DEF TableInv, WayInv, Past, InTable
<1> QED
  BY <1>1, <1>2, <1>3, <1>4 DEF IInv

\* Every step keeps the types.
LEMMA TypeStep == IInv /\ [Next]_vars => TypeOK'
<1> SUFFICES ASSUME IInv, [Next]_vars PROVE TypeOK'
  OBVIOUS
<1>1. TypeOK /\ KnownInv /\ PoolInv
  BY DEF IInv
<1>2. CASE UNCHANGED vars
  BY <1>1, <1>2 DEF vars, TypeOK, listenerVars, acceptVars, closeVars, dbVars, queueVars, connVars,
                    lobbyVars
<1>3. CASE Next
  BY <1>1, <1>3, ListenerTypes, HandlerTypes, WorkerTypes, LobbyTypes
     DEF Next, Accepting, Receiving, Closing, Others
<1> QED
  BY <1>2, <1>3

\* The invariant is inductive.
LEMMA IInvHolds == Spec => []IInv
<1>1. Init => IInv
  BY InitIInv
<1>2. IInv /\ [Next]_vars => IInv'
  BY TypeStep, PoolStep, KnownStep, TableStep DEF IInv
<1> QED
  BY <1>1, <1>2, PTL DEF Spec

\* The state of the front door keeps its types.
THEOREM TypeCorrectness == Spec => []TypeOK
<1>1. IInv => TypeOK
  BY DEF IInv
<1> QED
  BY <1>1, IInvHolds, PTL

\* With any number of database threads and as many connections, Pop never returns
\* null, whichever statements fail, and no connection is used by two threads.
THEOREM ConnectionsSufficeHolds == Spec => []ConnectionsSuffice
<1>1. IInv => ConnectionsSuffice
  BY DEF IInv, PoolInv
<1> QED
  BY <1>1, IInvHolds, PTL

\* With any number of clients, a session that is neither being accepted nor closed
\* is in the service's table if and only if it is connected.
THEOREM TableHoldsTheConnectedHolds == Spec => []TableHoldsTheConnected
<1>1. IInv => TableHoldsTheConnected
  <2> SUFFICES ASSUME IInv, NEW s \in Sessions, accept[s] = "done", closing[s] \in {"no", "closed"}
               PROVE  InTable(s) <=> connected[s]
    BY DEF TableHoldsTheConnected
  <2>1. WayInv(s) /\ Past(s)
    BY DEF IInv, TableInv, Past
  <2>2. CASE cid[s] = 0
    BY <2>1, <2>2 DEF WayInv, InTable, IInv, IdInv
  <2>3. CASE cid[s] # 0
    BY <2>1, <2>3 DEF WayInv
  <2> QED
    BY <2>2, <2>3
<1> QED
  BY <1>1, IInvHolds, PTL
-----------------------------------------------------------------------------
(* The order of a client's packets *)

\* What is queued or runs was sent, by the session it says.
SentInv ==
  /\ \A s \in Sessions : sent[s] # <<>> => sent[s][1].session = s
  /\ \A i \in 1..Len(dbJobs) : sent[dbJobs[i].session] # <<>>
  /\ \A w \in Threads : job[w] \in Job => sent[job[w].session] # <<>>

\* A client's sign-up that waits has nothing of the client before it.
Waits(s) ==
  /\ \E k \in 1..Len(dbJobs) :
       dbJobs[k] = sent[s][1] /\ \A i \in 1..(k - 1) : dbJobs[i].session # s
  /\ \A w \in Threads : job[w] \in Job => job[w].session # s

UnderWay(s) == \E v \in Threads : worker[v] \in {"pop", "execute"} /\ job[v] = sent[s][1]

\* A client whose first packet signs up waits, is under way, or is through.
SignUpInv ==
  \A s \in Sessions :
    sent[s] # <<>> /\ sent[s][1].kind = "signup" =>
      Waits(s) \/ UnderWay(s) \/ sent[s][1].name \in accounts \/ s \in failed

OrderInv == SentInv /\ SignUpInv

-----------------------------------------------------------------------------

\* When no job moves, a sign-up under way goes on or is through.
LEMMA OrderFrame ==
  ASSUME OrderInv, UNCHANGED <<sent, dbJobs, job>>,
         accounts \subseteq accounts', failed \subseteq failed',
         \A v \in Threads : worker[v] \in {"pop", "execute"} /\ job[v].kind = "signup" =>
           \/ worker'[v] \in {"pop", "execute"}
           \/ job[v].name \in accounts' \/ job[v].session \in failed'
  PROVE  OrderInv'
<1>1. SentInv'
  BY DEF OrderInv, SentInv
<1>2. ASSUME NEW s \in Sessions, sent[s] # <<>>, sent[s][1].kind = "signup"
      PROVE  Waits(s)' \/ UnderWay(s)' \/ sent[s][1].name \in accounts' \/ s \in failed'
  <2>1. sent[s][1].session = s
    BY <1>2 DEF OrderInv, SentInv
  <2>2. Waits(s) => Waits(s)'
    BY DEF Waits
  <2>3. UnderWay(s) => UnderWay(s)' \/ sent[s][1].name \in accounts' \/ s \in failed'
    BY <1>2, <2>1 DEF UnderWay
  <2> QED
    BY <1>2, <2>2, <2>3 DEF OrderInv, SignUpInv
<1> QED
  BY <1>1, <1>2 DEF OrderInv, SignUpInv

\* A packet that is handled is queued behind what its client sent before.
LEMMA HandleOrder ==
  ASSUME IInv, OrderInv, NEW s \in Sessions, Handle(s)
  PROVE  OrderInv'
<1>1. PICK j \in Requests(s) : dbJobs' = Append(dbJobs, j) /\ sent' = [sent EXCEPT ![s] = Append(sent[s], j)]
  BY DEF Handle, PushDBJob
<1>2. j \in Job /\ j.session = s
  BY DEF Requests, Job
<1>3. UNCHANGED <<job, worker, accounts, failed>>
  BY DEF Handle
<1>4. /\ dbJobs \in Seq(Job) /\ Len(dbJobs) \in Nat
      /\ Len(dbJobs') = Len(dbJobs) + 1 /\ dbJobs'[Len(dbJobs) + 1] = j
      /\ \A i \in 1..Len(dbJobs) : dbJobs'[i] = dbJobs[i] /\ dbJobs[i].session \in Sessions
  <2>1. dbJobs \in Seq(Job)
    BY DEF IInv, TypeOK
  <2>2. \A i \in 1..Len(dbJobs) : dbJobs[i] \in Job
    BY <2>1
  <2> QED
    BY <1>1, <1>2, <2>1, <2>2 DEF Job
<1>5. /\ \A t \in Sessions : t # s => sent'[t] = sent[t]
      /\ sent'[s] # <<>>
      /\ sent[s] # <<>> => sent'[s][1] = sent[s][1]
      /\ sent[s] = <<>> => sent'[s][1] = j
  <2>1. sent \in [Sessions -> Seq(Job)] /\ sent[s] \in Seq(Job)
    BY DEF IInv, TypeOK
  <2>2. sent'[s] = Append(sent[s], j)
    BY <1>1, <2>1
  <2> QED
    BY <1>1, <1>2, <2>1, <2>2
<1>6. SentInv'
  <2>1. \A t \in Sessions : sent'[t] # <<>> => sent'[t][1].session = t
    BY <1>2, <1>5 DEF OrderInv, SentInv
  <2>2. \A t \in Sessions : sent[t] # <<>> => sent'[t] # <<>>
    BY <1>5
  <2>3. \A i \in 1..Len(dbJobs') : sent'[dbJobs'[i].session] # <<>>
    <3> SUFFICES ASSUME NEW i \in 1..Len(dbJobs') PROVE sent'[dbJobs'[i].session] # <<>>
      OBVIOUS
    <3>1. CASE i \in 1..Len(dbJobs)
      <4>1. dbJobs'[i] = dbJobs[i] /\ dbJobs[i].session \in Sessions /\ sent[dbJobs[i].session] # <<>>
        BY <1>4, <3>1 DEF OrderInv, SentInv
      <4> QED
        BY <2>2, <4>1
    <3>2. CASE i = Len(dbJobs) + 1
      BY <1>2, <1>4, <1>5, <3>2
    <3> QED
      BY <1>4, <3>1, <3>2
  <2>4. \A w \in Threads : job'[w] \in Job => sent'[job'[w].session] # <<>>
    BY <1>3, <2>2 DEF OrderInv, SentInv, Job
  <2> QED
    BY <2>1, <2>3, <2>4 DEF SentInv
<1>7. ASSUME NEW t \in Sessions, sent'[t] # <<>>, sent'[t][1].kind = "signup"
      PROVE  Waits(t)' \/ UnderWay(t)' \/ sent'[t][1].name \in accounts' \/ t \in failed'
  <2>1. CASE sent[t] # <<>>
    <3>1. sent'[t][1] = sent[t][1]
      BY <1>5, <2>1
    <3>2. Waits(t) \/ UnderWay(t) \/ sent[t][1].name \in accounts \/ t \in failed
      BY <1>7, <2>1, <3>1 DEF OrderInv, SignUpInv
    <3>3. UnderWay(t) => UnderWay(t)'
      BY <1>3, <3>1 DEF UnderWay
    <3>4. ASSUME Waits(t) PROVE Waits(t)'
      <4>1. PICK k \in 1..Len(dbJobs) :
              dbJobs[k] = sent[t][1] /\ \A i \in 1..(k - 1) : dbJobs[i].session # t
        BY <3>4 DEF Waits
      <4>2. /\ k \in 1..Len(dbJobs') /\ dbJobs'[k] = sent'[t][1]
            /\ \A i \in 1..(k - 1) : dbJobs'[i].session # t
        BY <1>4, <3>1, <4>1
      <4> QED
        BY <1>3, <3>4, <4>2 DEF Waits
    <3> QED
      BY <1>3, <3>1, <3>2, <3>3, <3>4
  <2>2. CASE sent[t] = <<>>
    <3>1. t = s /\ sent'[s][1] = j
      BY <1>5, <1>7, <2>2
    <3>2. \A i \in 1..Len(dbJobs) : dbJobs[i].session # s
      BY <2>2, <3>1 DEF OrderInv, SentInv
    <3>3. \A w \in Threads : job[w] \in Job => job[w].session # s
      BY <2>2, <3>1 DEF OrderInv, SentInv
    <3>4. \A i \in 1..((Len(dbJobs) + 1) - 1) : dbJobs'[i].session # s
      BY <1>4, <3>2
    <3>5. Len(dbJobs) + 1 \in 1..Len(dbJobs')
      BY <1>4
    <3> QED
      BY <1>3, <1>4, <3>1, <3>3, <3>4, <3>5 DEF Waits
  <2> QED
    BY <2>1, <2>2
<1> QED
  BY <1>6, <1>7 DEF OrderInv, SignUpInv

\* A thread takes the job that has waited longest.
LEMMA PopOrder ==
  ASSUME IInv, OrderInv, NEW w \in Threads, worker[w] = "awake", dbJobs # <<>>,
         dbJobs' = Tail(dbJobs), job' = [job EXCEPT ![w] = Head(dbJobs)],
         worker' = [worker EXCEPT ![w] = "pop"], UNCHANGED <<sent, accounts, failed>>
  PROVE  OrderInv'
<1>1. /\ dbJobs \in Seq(Job) /\ Head(dbJobs) = dbJobs[1] /\ 1 \in 1..Len(dbJobs)
      /\ Len(dbJobs) \in Nat /\ Len(dbJobs') = Len(dbJobs) - 1 /\ dbJobs[1] \in Job
      /\ \A i \in 1..(Len(dbJobs) - 1) : dbJobs'[i] = dbJobs[i + 1]
  BY DEF IInv, TypeOK
<1>2. /\ job'[w] = dbJobs[1] /\ worker'[w] = "pop"
      /\ \A v \in Threads : v # w => job'[v] = job[v] /\ worker'[v] = worker[v]
  BY <1>1 DEF IInv, TypeOK
<1>3. SentInv'
  <2>1. \A i \in 1..Len(dbJobs') : sent[dbJobs'[i].session] # <<>>
    <3> SUFFICES ASSUME NEW i \in 1..Len(dbJobs') PROVE sent[dbJobs'[i].session] # <<>>
      OBVIOUS
    <3>1. i + 1 \in 1..Len(dbJobs) /\ dbJobs'[i] = dbJobs[i + 1]
      BY <1>1
    <3> QED
      BY <3>1 DEF OrderInv, SentInv
  <2>2. \A v \in Threads : job'[v] \in Job => sent[job'[v].session] # <<>>
    BY <1>1, <1>2 DEF OrderInv, SentInv
  <2> QED
    BY <2>1, <2>2 DEF OrderInv, SentInv
<1>4. ASSUME NEW t \in Sessions, sent[t] # <<>>, sent[t][1].kind = "signup"
      PROVE  Waits(t)' \/ UnderWay(t)' \/ sent[t][1].name \in accounts' \/ t \in failed'
  <2>1. ASSUME UnderWay(t) PROVE UnderWay(t)'
    <3>1. PICK v \in Threads : worker[v] \in {"pop", "execute"} /\ job[v] = sent[t][1]
      BY <2>1 DEF UnderWay
    <3>2. v # w
      BY <3>1
    <3> QED
      BY <1>2, <3>1, <3>2 DEF UnderWay
  <2>2. ASSUME Waits(t) PROVE Waits(t)' \/ UnderWay(t)'
    <3>1. PICK k \in 1..Len(dbJobs) :
            dbJobs[k] = sent[t][1] /\ \A i \in 1..(k - 1) : dbJobs[i].session # t
      BY <2>2 DEF Waits
    <3>2. CASE k = 1
      BY <1>2, <3>1, <3>2 DEF UnderWay
    <3>3. CASE k # 1
      <4>1. /\ k - 1 \in 1..Len(dbJobs') /\ dbJobs'[k - 1] = sent[t][1]
            /\ \A i \in 1..((k - 1) - 1) : dbJobs'[i].session # t
        <5>1. k - 1 \in 1..(Len(dbJobs) - 1) /\ (k - 1) + 1 = k
          BY <1>1, <3>3
        <5>2. \A i \in 1..((k - 1) - 1) : i + 1 \in 1..(k - 1) /\ i \in 1..(Len(dbJobs) - 1)
          BY <1>1, <5>1
        <5> QED
          BY <1>1, <3>1, <5>1, <5>2
      <4>2. 1 \in 1..(k - 1)
        BY <1>1, <3>3
      <4>3. dbJobs[1].session # t
        BY <3>1, <4>2
      <4>4. \A v \in Threads : job'[v] \in Job => job'[v].session # t
        BY <1>2, <2>2, <4>3 DEF Waits
      <4> QED
        BY <4>1, <4>4 DEF Waits
    <3> QED
      BY <3>2, <3>3
  <2> QED
    BY <1>4, <2>1, <2>2 DEF OrderInv, SignUpInv
<1> QED
  BY <1>3, <1>4 DEF OrderInv, SignUpInv

\* A thread that is done forgets its job.
LEMMA EndOrder ==
  ASSUME IInv, OrderInv, NEW w \in Threads, worker[w] = "return",
         job' = [job EXCEPT ![w] = NoJob], worker' = [worker EXCEPT ![w] = "awake"],
         UNCHANGED <<sent, dbJobs, accounts, failed>>
  PROVE  OrderInv'
<1>1. /\ job'[w] = NoJob /\ NoJob \notin Job
      /\ \A v \in Threads : v # w => job'[v] = job[v] /\ worker'[v] = worker[v]
  BY DEF IInv, TypeOK, NoJob, Job
<1>2. SentInv'
  BY <1>1 DEF OrderInv, SentInv
<1>3. \A s \in Sessions : Waits(s) => Waits(s)'
  BY <1>1 DEF Waits
<1>4. ASSUME NEW s \in Sessions, UnderWay(s) PROVE UnderWay(s)'
  <2>1. PICK v \in Threads : worker[v] \in {"pop", "execute"} /\ job[v] = sent[s][1]
    BY <1>4 DEF UnderWay
  <2>2. v # w
    BY <2>1
  <2> QED
    BY <1>1, <2>1, <2>2 DEF UnderWay
<1> QED
  BY <1>2, <1>3, <1>4 DEF OrderInv, SignUpInv

\* A client's packets keep their order on the way to the database.
LEMMA OrderStep == IInv /\ OrderInv /\ [Next]_vars => OrderInv'
<1> SUFFICES ASSUME IInv, OrderInv, [Next]_vars PROVE OrderInv'
  OBVIOUS
<1>1. CASE UNCHANGED <<sent, dbJobs, job, worker, accounts, failed>>
  BY <1>1, OrderFrame
<1>2. ASSUME NEW s \in Sessions, Handled(s) PROVE OrderInv'
  <2>1. NotifyOne /\ UNCHANGED <<sent, dbJobs, job, accounts, failed>>
    BY <1>2 DEF Handled
  <2>2. \A v \in Threads : worker[v] \in {"pop", "execute"} => worker'[v] = worker[v]
    BY <2>1 DEF NotifyOne, Asleep, IInv, TypeOK
  <2> QED
    BY <2>1, <2>2, OrderFrame
<1>3. ASSUME NEW w \in Threads, WakeUp(w), Others PROVE OrderInv'
  <2>1. /\ worker[w] = "asleep" /\ worker' = [worker EXCEPT ![w] = "awake"]
        /\ UNCHANGED <<dbJobs, job, accounts, sent, failed>>
    BY <1>3 DEF WakeUp, WorkerAt, To, Others
  <2>2. \A v \in Threads : worker[v] \in {"pop", "execute"} => worker'[v] = worker[v]
    BY <2>1 DEF IInv, TypeOK
  <2> QED
    BY <2>1, <2>2, OrderFrame
<1>4. ASSUME NEW w \in Threads, Working(w) PROVE OrderInv'
  <2>1. Run(w) /\ sent' = sent
    BY <1>4 DEF Working
  <2>2. /\ worker[w] # "execute" => failed' = failed
        /\ failed \subseteq failed'
        /\ worker[w] = "execute" /\ outcome'[w] = "failed" => job[w].session \in failed'
    BY <1>4, Zenon DEF Working
  <2>3. CASE WaitPop(w)
    <3>1. worker[w] = "awake" /\ failed' = failed /\ accounts' = accounts
      BY <2>2, <2>3 DEF WaitPop, WorkerAt
    <3>2. CASE dbJobs = <<>>
      <4>1. worker' = [worker EXCEPT ![w] = "asleep"] /\ UNCHANGED <<dbJobs, job>>
        BY <2>3, <3>2 DEF WaitPop, To
      <4>2. \A v \in Threads : worker[v] \in {"pop", "execute"} => worker'[v] = worker[v]
        BY <3>1, <4>1 DEF IInv, TypeOK
      <4> QED
        BY <2>1, <3>1, <4>1, <4>2, OrderFrame
    <3>3. CASE dbJobs # <<>>
      BY <2>1, <2>3, <3>1, <3>3, PopOrder DEF WaitPop, To
    <3> QED
      BY <3>2, <3>3
  <2>4. CASE PopConnection(w)
    <3>1. /\ worker[w] = "pop" /\ UNCHANGED <<dbJobs, job, accounts>>
          /\ worker' = worker \/ worker' = [worker EXCEPT ![w] = "execute"]
      BY <2>4 DEF PopConnection, WorkerAt, To
    <3>2. \A v \in Threads : worker[v] \in {"pop", "execute"} => worker'[v] \in {"pop", "execute"}
      BY <3>1 DEF IInv, TypeOK
    <3> QED
      BY <2>1, <2>2, <3>1, <3>2, OrderFrame
  <2>5. CASE ExecuteLogin(w)
    <3>1. /\ job[w].kind = "login" /\ UNCHANGED <<dbJobs, job, accounts>>
          /\ worker' = [worker EXCEPT ![w] = "answer"]
      BY <2>5 DEF ExecuteLogin, To
    <3>2. \A v \in Threads : v # w => worker'[v] = worker[v]
      BY <3>1 DEF IInv, TypeOK
    <3> QED
      BY <2>1, <2>2, <3>1, <3>2, OrderFrame
  <2>6. CASE ExecuteSignUp(w)
    <3>1. /\ worker[w] = "execute" /\ UNCHANGED <<dbJobs, job>>
          /\ worker' = [worker EXCEPT ![w] = "return"]
          /\ \/ accounts' = accounts \union {job[w].name}
             \/ accounts' = accounts /\ outcome' = [outcome EXCEPT ![w] = "failed"]
      BY <2>6 DEF ExecuteSignUp, WorkerAt, To
    <3>2. \A v \in Threads : v # w => worker'[v] = worker[v]
      BY <3>1 DEF IInv, TypeOK
    <3>3. job[w].name \in accounts' \/ job[w].session \in failed'
      BY <2>2, <3>1 DEF IInv, TypeOK
    <3>4. accounts \subseteq accounts'
      BY <3>1
    <3> QED
      BY <2>1, <2>2, <3>1, <3>2, <3>3, <3>4, OrderFrame
  <2>7. CASE PushAnswer(w)
    <3>1. /\ worker[w] = "answer" /\ UNCHANGED <<dbJobs, job, accounts>>
          /\ worker' = [worker EXCEPT ![w] = "return"]
      BY <2>7 DEF PushAnswer, WorkerAt, To
    <3>2. \A v \in Threads : worker[v] \in {"pop", "execute"} => worker'[v] = worker[v]
      BY <3>1 DEF IInv, TypeOK
    <3> QED
      BY <2>1, <2>2, <3>1, <3>2, OrderFrame
  <2>8. CASE PushConnection(w)
    BY <2>1, <2>2, <2>8, EndOrder DEF PushConnection, WorkerAt, To, JobEnds
  <2> QED
    BY <2>1, <2>3, <2>4, <2>5, <2>6, <2>7, <2>8 DEF Run, Statement
<1>5. CASE \E s \in Sessions : Accepting(s) \/ Closing(s)
                                 \/ (RecvFails(s) /\ UNCHANGED dbVars /\ Others)
  BY <1>1, <1>5 DEF Accepting, Closing, Others, dbVars, queueVars
<1>6. CASE Lobby
  BY <1>1, <1>6 DEF Lobby, CheckConnected, MakePlayer, SendLoginInfo, dbVars, queueVars
<1>7. CASE UNCHANGED vars
  BY <1>1, <1>7 DEF vars, dbVars, queueVars
<1> QED
  BY <1>2, <1>3, <1>4, <1>5, <1>6, <1>7, HandleOrder DEF Next, Receiving

\* A login of a client that signed up first is refused only while the sign-up is
\* under way in another thread, or a statement of the client's, this one or an
\* earlier one, has failed when executed or fetched: with any number of threads,
\* _dbJobQueue alone never turns the two round (ConcurrentQueue.h,
\* DatabaseWorker.cpp 82-129, DBConnection.cpp 40-58).
THEOREM RefusedOnlyIfOvertakenHolds == Spec => RefusedOnlyIfOvertaken
<1>1. Init => OrderInv
  BY DEF Init, DatabaseInit, OrderInv, SentInv, SignUpInv, NoJob, Job
<1>2. ASSUME IInv, OrderInv, Next, NEW w \in Threads, outcome[w] = "none",
             outcome'[w] \in {"unknown", "unfetched"}, SignedUpBefore(job[w])
      PROVE  Overtaken(job[w]) \/ job[w].session \in failed'
  <2> DEFINE s == job[w].session
  <2>1. ExecuteLogin(w) /\ Working(w)
    <3>1. PICK v \in Threads : Working(v)
      BY <1>2 DEF Next, Accepting, Receiving, Closing, Handle, Handled, Others, Working, WakeUp, Lobby,
                  CheckConnected, MakePlayer, SendLoginInfo, dbVars
    <3>2. \/ outcome' = outcome
          \/ outcome' = [outcome EXCEPT ![v] = "none"]
          \/ ExecuteSignUp(v) /\ \E o \in {"success", "failed"} : outcome' = [outcome EXCEPT ![v] = o]
          \/ ExecuteLogin(v) /\ \E o \in LoginOutcomes(job[v]) : outcome' = [outcome EXCEPT ![v] = o]
      BY <3>1 DEF Working, Run, WaitPop, Statement, PopConnection, ExecuteLogin, ExecuteSignUp,
                  PushAnswer, PushConnection, JobEnds
    <3>3. outcome \in [Threads -> {"none", "success", "unknown", "failed", "unfetched"}]
      BY <1>2 DEF IInv, TypeOK
    <3>4. v = w /\ ExecuteLogin(v)
      BY <1>2, <3>2, <3>3
    <3> QED
      BY <3>1, <3>4
  <2>2. worker[w] = "execute" /\ job[w] \in Job
    BY <1>2, <2>1 DEF ExecuteLogin, WorkerAt, IInv, KnownInv
  <2>3. /\ failed \subseteq failed'
        /\ outcome'[w] = "unfetched" => s \in failed'
    BY <2>1, <2>2, Zenon DEF Working
  <2>4. ASSUME outcome'[w] = "unknown" PROVE Overtaken(job[w]) \/ s \in failed
    <3>1. job[w].name \notin accounts
      <4>1. PICK o \in LoginOutcomes(job[w]) : outcome' = [outcome EXCEPT ![w] = o]
        BY <2>1 DEF ExecuteLogin
      <4>2. o = "unknown"
        BY <1>2, <2>4, <4>1 DEF IInv, TypeOK
      <4> QED
        BY <4>1, <4>2 DEF LoginOutcomes
    <3>2. /\ s \in Sessions /\ sent[s] # <<>> /\ sent[s][1].session = s
          /\ sent[s][1].kind = "signup" /\ sent[s][1].name = job[w].name
      <4>1. s \in Sessions /\ sent[s] # <<>> /\ sent[s][1].session = s
        BY <1>2, <2>2 DEF OrderInv, SentInv, Job
      <4>2. sent[s] \in Seq(Job) /\ Head(sent[s]) = sent[s][1]
        BY <1>2, <4>1 DEF IInv, TypeOK
      <4> QED
        BY <1>2, <4>1, <4>2 DEF SignedUpBefore
    <3>3. ~Waits(s)
      BY <2>2 DEF Waits
    <3>4. UnderWay(s) \/ s \in failed
      BY <1>2, <3>1, <3>2, <3>3 DEF OrderInv, SignUpInv
    <3>5. UnderWay(s) => Overtaken(job[w])
      BY <3>2 DEF UnderWay, Overtaken
    <3> QED
      BY <3>4, <3>5
  <2> QED
    BY <1>2, <2>3, <2>4
<1>3. IInv /\ OrderInv /\ [Next]_vars =>
        [\A w \in Threads :
           outcome[w] = "none" /\ outcome'[w] \in {"unknown", "unfetched"}
             /\ SignedUpBefore(job[w]) =>
               Overtaken(job[w]) \/ job[w].session \in failed']_vars
  BY <1>2
<1> QED
  BY <1>1, <1>3, IInvHolds, OrderStep, PTL DEF Spec, RefusedOnlyIfOvertaken
-----------------------------------------------------------------------------
(* No wakeup is lost *)

\* The receivers that have pushed a job and not notified yet, and the threads that will
\* test the queue before they sleep.
Notifiers == {s \in Sessions : recv[s] = "next"}
Testers == {w \in Threads : worker[w] = "awake"}

\* While a thread sleeps, each job in the queue has a thread on its way to it or a
\* notification that will wake one.
NoneSleepsThroughWork ==
  Asleep # {} => Len(dbJobs) <= Cardinality(Notifiers) + Cardinality(Testers)

\* There are finitely many of either.
LEMMA WakersFinite ==
  /\ IsFiniteSet(Notifiers) /\ Cardinality(Notifiers) \in Nat
  /\ IsFiniteSet(Testers) /\ Cardinality(Testers) \in Nat
<1>1. IsFiniteSet(Sessions)
  BY MaxSessionsAssumption, FS_Interval DEF Sessions
<1>2. Notifiers \in SUBSET Sessions /\ Testers \in SUBSET Threads
  BY DEF Notifiers, Testers
<1>3. IsFiniteSet(Notifiers) /\ IsFiniteSet(Testers)
  BY <1>1, <1>2, HoldersFinite, FS_Subset
<1> QED
  BY <1>3, FS_CardinalityType

\* A step that neither adds a job nor takes a notifier or a tester away nor puts one to sleep.
LEMMA SleepFrame ==
  ASSUME TypeOK, NoneSleepsThroughWork, dbJobs' = dbJobs, Notifiers' = Notifiers,
         Testers \subseteq Testers', Asleep' \subseteq Asleep
  PROVE  NoneSleepsThroughWork'
<1>1. Cardinality(Testers) <= Cardinality(Testers')
  <2>1. IsFiniteSet(Testers')
    <3>1. Testers' \in SUBSET Threads
      BY DEF Testers
    <3> QED
      BY <3>1, HoldersFinite, FS_Subset
  <2> QED
    BY <2>1, FS_Subset
<1>2. Cardinality(Testers') \in Nat
  <2>1. Testers' \in SUBSET Threads
    BY DEF Testers
  <2> QED
    BY <2>1, HoldersFinite, FS_Subset, FS_CardinalityType
<1>3. Len(dbJobs) \in Nat
  BY DEF TypeOK
<1> QED
  BY <1>1, <1>2, <1>3, WakersFinite DEF NoneSleepsThroughWork

\* A thread moves from one line to another, and neither is the wait or its test.
LEMMA BusyMoves ==
  ASSUME TypeOK, NEW w \in Threads, NEW line, worker' = [worker EXCEPT ![w] = line],
         worker[w] \notin {"asleep", "awake"}, line # "asleep"
  PROVE  Testers \subseteq Testers' /\ Asleep' \subseteq Asleep
BY DEF TypeOK, Testers, Asleep

\* The push makes one job and one notification to come.
LEMMA HandleSleep ==
  ASSUME IInv, NoneSleepsThroughWork, NEW s \in Sessions, Handle(s)
  PROVE  NoneSleepsThroughWork'
<1>1. /\ recv[s] = "posted" /\ recv' = [recv EXCEPT ![s] = "next"] /\ worker' = worker
      /\ \E j : dbJobs' = Append(dbJobs, j)
  BY DEF Handle, PushDBJob
<1>2. s \notin Notifiers /\ Notifiers' = Notifiers \cup {s}
  BY <1>1 DEF Notifiers, IInv, TypeOK
<1>3. Cardinality(Notifiers') = Cardinality(Notifiers) + 1
  BY <1>2, WakersFinite, FS_AddElement
<1>4. Len(dbJobs') = Len(dbJobs) + 1 /\ Len(dbJobs) \in Nat
  BY <1>1 DEF IInv, TypeOK
<1>5. Testers' = Testers /\ Asleep' = Asleep
  BY <1>1 DEF Testers, Asleep
<1> QED
  BY <1>3, <1>4, <1>5, WakersFinite DEF NoneSleepsThroughWork

\* A notification that finds a thread asleep makes it a tester.
LEMMA HandledSleep ==
  ASSUME IInv, NoneSleepsThroughWork, NEW s \in Sessions, Handled(s)
  PROVE  NoneSleepsThroughWork'
<1>1. /\ recv[s] = "next" /\ NotifyOne /\ dbJobs' = dbJobs
      /\ recv' = [recv EXCEPT ![s] = "posted"] \/ recv' = [recv EXCEPT ![s] = "none"]
  BY DEF Handled, NextRecv
<1>2. CASE Asleep = {}
  <2>1. Asleep' = {}
    BY <1>1, <1>2 DEF NotifyOne, Asleep
  <2> QED
    BY <2>1 DEF NoneSleepsThroughWork
<1>3. CASE Asleep # {}
  <2>1. PICK w \in Asleep : worker' = [worker EXCEPT ![w] = "awake"]
    BY <1>1, <1>3 DEF NotifyOne
  <2>2. s \in Notifiers /\ Notifiers' = Notifiers \ {s}
    BY <1>1 DEF Notifiers, IInv, TypeOK
  <2>3. Cardinality(Notifiers') = Cardinality(Notifiers) - 1
    BY <2>2, WakersFinite, FS_RemoveElement
  <2>4. w \notin Testers /\ Testers' = Testers \cup {w}
    BY <2>1 DEF Asleep, Testers, IInv, TypeOK
  <2>5. Cardinality(Testers') = Cardinality(Testers) + 1
    BY <2>4, WakersFinite, FS_AddElement
  <2> QED
    BY <1>1, <1>3, <2>3, <2>5, WakersFinite DEF NoneSleepsThroughWork, IInv, TypeOK
<1> QED
  BY <1>2, <1>3

\* A thread takes a job, or sleeps because there is none.
LEMMA WaitPopSleep ==
  ASSUME IInv, NoneSleepsThroughWork, NEW w \in Threads, WaitPop(w)
  PROVE  NoneSleepsThroughWork'
<1>1. worker[w] = "awake" /\ recv' = recv
  BY DEF WaitPop, WorkerAt, listenerVars
<1>2. Notifiers' = Notifiers
  BY <1>1 DEF Notifiers
<1>3. CASE dbJobs = <<>>
  <2>1. Len(dbJobs') = 0
    BY <1>3 DEF WaitPop
  <2>2. Cardinality(Testers') \in Nat
    <3>1. Testers' \in SUBSET Threads
      BY DEF Testers
    <3> QED
      BY <3>1, HoldersFinite, FS_Subset, FS_CardinalityType
  <2> QED
    BY <1>2, <2>1, <2>2, WakersFinite DEF NoneSleepsThroughWork
<1>4. CASE dbJobs # <<>>
  <2>1. worker' = [worker EXCEPT ![w] = "pop"] /\ dbJobs' = Tail(dbJobs)
    BY <1>4 DEF WaitPop, To
  <2>2. Len(dbJobs') = Len(dbJobs) - 1 /\ Len(dbJobs) \in Nat
    BY <1>4, <2>1 DEF IInv, TypeOK
  <2>3. w \in Testers /\ Testers' = Testers \ {w} /\ Asleep' = Asleep
    BY <1>1, <2>1 DEF Testers, Asleep, IInv, TypeOK
  <2>4. Cardinality(Testers') = Cardinality(Testers) - 1
    BY <2>3, WakersFinite, FS_RemoveElement
  <2> QED
    BY <1>2, <2>2, <2>3, <2>4, WakersFinite DEF NoneSleepsThroughWork
<1> QED
  BY <1>3, <1>4

\* Every step keeps it.
LEMMA SleepStep == IInv /\ NoneSleepsThroughWork /\ [Next]_vars => NoneSleepsThroughWork'
<1> SUFFICES ASSUME IInv, NoneSleepsThroughWork, [Next]_vars PROVE NoneSleepsThroughWork'
  OBVIOUS
<1>0. TypeOK
  BY DEF IInv
<1>1. ASSUME UNCHANGED <<dbJobs, worker>>, Notifiers' = Notifiers PROVE NoneSleepsThroughWork'
  <2>1. Testers' = Testers /\ Asleep' = Asleep
    BY <1>1 DEF Testers, Asleep
  <2> QED
    BY <1>0, <1>1, <2>1, SleepFrame
<1>2. ASSUME NEW s \in Sessions, Accepting(s) PROVE NoneSleepsThroughWork'
  <2>1. UNCHANGED <<dbJobs, worker>>
    BY <1>2 DEF Accepting, dbVars, queueVars
  <2>2. \/ recv' = recv
        \/ accept[s] = "recv" /\ recv' = [recv EXCEPT ![s] = "posted"]
    BY <1>2 DEF Accepting, Accepted, ProcessAccept, SetConnected, AddSession, FirstRecv, RegisterAccept, At
  <2>3. accept[s] = "recv" => recv[s] = "none"
    BY DEF IInv, KnownInv, Past
  <2>4. Notifiers' = Notifiers
    BY <1>0, <2>2, <2>3 DEF Notifiers, TypeOK
  <2> QED
    BY <1>1, <2>1, <2>4
<1>3. ASSUME NEW s \in Sessions, RecvFails(s), UNCHANGED dbVars PROVE NoneSleepsThroughWork'
  <2>1. UNCHANGED <<dbJobs, worker>> /\ recv[s] = "posted" /\ recv' = [recv EXCEPT ![s] = "none"]
    BY <1>3 DEF RecvFails, dbVars, queueVars
  <2>2. Notifiers' = Notifiers
    BY <1>0, <2>1 DEF Notifiers, TypeOK
  <2> QED
    BY <1>1, <2>1, <2>2
<1>4. ASSUME NEW w \in Threads, Working(w) PROVE NoneSleepsThroughWork'
  <2>1. CASE WaitPop(w)
    BY <2>1, WaitPopSleep
  <2>2. CASE Statement(w)
    <3>1. /\ dbJobs' = dbJobs /\ recv' = recv
          /\ worker[w] \notin {"asleep", "awake"}
          /\ \/ worker' = worker
             \/ \E line : line # "asleep" /\ worker' = [worker EXCEPT ![w] = line]
      BY <2>2 DEF Statement, PopConnection, ExecuteLogin, ExecuteSignUp, PushAnswer, PushConnection,
                  JobEnds, WorkerAt, To, listenerVars
    <3>2. Testers \subseteq Testers' /\ Asleep' \subseteq Asleep
      <4>1. CASE worker' = worker
        BY <4>1 DEF Testers, Asleep
      <4>2. CASE \E line : line # "asleep" /\ worker' = [worker EXCEPT ![w] = line]
        BY <1>0, <3>1, <4>2, BusyMoves
      <4> QED
        BY <3>1, <4>1, <4>2
    <3>3. Notifiers' = Notifiers
      BY <3>1 DEF Notifiers
    <3> QED
      BY <1>0, <3>1, <3>2, <3>3, SleepFrame
  <2> QED
    BY <1>4, <2>1, <2>2 DEF Working, Run
<1>5. ASSUME NEW w \in Threads, WakeUp(w) PROVE NoneSleepsThroughWork'
  <2>1. /\ dbJobs' = dbJobs /\ recv' = recv
        /\ worker' = [worker EXCEPT ![w] = "awake"]
    BY <1>5 DEF WakeUp, To, listenerVars
  <2>2. Testers \subseteq Testers' /\ Asleep' \subseteq Asleep /\ Notifiers' = Notifiers
    BY <1>0, <2>1 DEF Testers, Asleep, Notifiers, TypeOK
  <2> QED
    BY <1>0, <2>1, <2>2, SleepFrame
<1>6. CASE (\E s \in Sessions : Closing(s)) \/ Lobby \/ UNCHANGED vars
  <2>1. UNCHANGED <<dbJobs, worker, recv>>
    BY <1>6 DEF Closing, Leave, Release, Lobby, CheckConnected, MakePlayer, SendLoginInfo, vars, dbVars,
                queueVars, listenerVars
  <2>2. Notifiers' = Notifiers
    BY <2>1 DEF Notifiers
  <2> QED
    BY <1>1, <2>1, <2>2
<1> QED
  BY <1>2, <1>3, <1>4, <1>5, <1>6, HandleSleep, HandledSleep DEF Next, Receiving

\* ConcurrentQ::Push notifies after it has released the mutex, and once per job: yet no
\* thread stays in the wait while there are more jobs than threads about to look and
\* notifications to come, so no request waits behind a slow statement of another thread
\* while a thread is free (ConcurrentQueue.h).
THEOREM NoneSleepsThroughWorkHolds == Spec => []NoneSleepsThroughWork
<1>1. Init => NoneSleepsThroughWork
  <2> SUFFICES ASSUME Init PROVE Asleep = {}
    BY DEF NoneSleepsThroughWork
  <2> QED
    BY DEF Init, DatabaseInit, Asleep
<1> QED
  BY <1>1, SleepStep, IInvHolds, PTL DEF Spec
=============================================================================
