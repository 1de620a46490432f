------------------------------ MODULE FrontDoor ------------------------------
(***************************************************************************)
(* From a connection to a player: clients connect, sign up, log in and     *)
(* leave, while accepting, receiving, the database's threads and the lobby *)
(* run side by side.  It composes Listener and DatabaseWorker with what    *)
(* PacketHandler does for CS_SIGNUP and CS_LOGIN and with AuthLobby.       *)
(***************************************************************************)
EXTENDS DatabaseWorker, FiniteSets

CONSTANT MaxPackets  \* bound: packets of all clients together

VARIABLES
  sent,      \* session -> its packets that have been received, in order
  lobbyAt,   \* "off" as long as the lobby's queue has had no job; then "idle"
             \* between two, or the line of OnLoginSuccess; "left" when it was left
             \* with a job in it
  answered,  \* session -> SC_LOGINs sent to it
  failed     \* history: sessions of which a statement, or its fetching, has failed

lobbyVars == <<lobbyAt, answered>>
vars == <<listenerVars, dbVars, sent, lobbyVars, failed>>

Answer == [session : Sessions, ok : BOOLEAN]

TypeOK ==
  /\ accept \in [Sessions -> {"unused", "pending", "connect", "add", "recv", "register", "done",
                             "dropped"}]
  /\ clientId \in Nat \ {0} /\ cid \in [Sessions -> Nat]
  /\ connected \in [Sessions -> BOOLEAN]
  /\ DOMAIN sessions \subseteq Nat /\ sessions \in [DOMAIN sessions -> Sessions]
  /\ recv \in [Sessions -> {"none", "posted", "next"}]
  /\ closing \in [Sessions -> {"no", "leave", "release", "closed"}]
  /\ closedBy \in [Sessions -> {"nobody", "receiver", "lobby"}]
  /\ player \in [Sessions -> BOOLEAN]
  /\ crashed \in {"no", "player", "session", "connection"}
  /\ dbJobs \in Seq(Job) /\ job \in [Threads -> Job \union {NoJob}]
  /\ worker \in [Threads -> {"asleep", "awake", "pop", "execute", "answer", "return"}]
  /\ conn \in [Threads -> Connections \union {0}] /\ pool \in Seq(Connections)
  /\ outcome \in [Threads -> {"none", "success", "unknown", "failed", "unfetched"}]
  /\ accounts \in SUBSET Names
  /\ sent \in [Sessions -> Seq(Job)]
  /\ lobby \in Seq(Answer) /\ lobbyAt \in {"off", "idle", "make", "send", "left"}
  /\ answered \in [Sessions -> BOOLEAN] /\ failed \in SUBSET Sessions

Init ==
  /\ ListenerInit /\ DatabaseInit
  /\ sent = [s \in Sessions |-> <<>>]
  /\ lobbyAt = "off" /\ answered = [s \in Sessions |-> FALSE] /\ failed = {}

-----------------------------------------------------------------------------
(* Handle_CS_LOGIN and Handle_CS_SIGNUP *)

Requests(s) == [kind : {"login", "signup"}, session : {s}, name : Names]
Received == {r \in Sessions \X (1..MaxPackets) : r[2] \in DOMAIN sent[r[1]]}

Handle(s) ==
  /\ crashed = "no" /\ recv[s] = "posted" /\ Cardinality(Received) < MaxPackets
  /\ \E j \in Requests(s) : PushDBJob(j) /\ sent' = [sent EXCEPT ![s] = Append(@, j)]
  /\ recv' = [recv EXCEPT ![s] = "next"]
  /\ UNCHANGED <<acceptVars, connected, closeVars, player, crashed, worker, job, connVars, outcome,
                 accounts, lobby, lobbyVars, failed>>

\* The rest of Push, and on to the next RegisterRecv.
Handled(s) ==
  /\ NextRecv(s) /\ NotifyOne
  /\ UNCHANGED <<dbJobs, job, connVars, outcome, accounts, lobby, sent, lobbyVars, failed>>

-----------------------------------------------------------------------------
(* AuthLobby *)

LobbyRuns(line) == crashed = "no" /\ lobbyAt = line /\ lobby # <<>> /\ ~Busy("lobby")

\* JobQueue::Push.  Who finds nobody on the queue has it served; but a worker that has
\* found it empty and not yet released it, however long ago it ran its last job,
\* neither runs nor announces what is pushed meanwhile (JobQueue.h:32-37).
RegisterJobs ==
  \/ lobby' = lobby /\ UNCHANGED lobbyAt
  \/ /\ lobby' # lobby
     /\ \/ lobbyAt' = IF lobbyAt \in {"off", "left"} THEN "idle" ELSE lobbyAt
        \/ /\ lobbyAt = "left" \/ (lobbyAt = "idle" /\ lobby = <<>>)
           /\ lobbyAt' = "left"

\* OnLoginFailed tells the client nothing; OnLoginSuccess looks whether it is there.
CheckConnected ==
  /\ LobbyRuns("idle")
  /\ IF Head(lobby).ok /\ connected[Head(lobby).session]
     THEN lobbyAt' = "make" /\ UNCHANGED lobby
     ELSE lobby' = Tail(lobby) /\ UNCHANGED lobbyAt
  /\ UNCHANGED <<listenerVars, queueVars, connVars, outcome, accounts, sent, answered, failed>>

MakePlayer ==
  /\ LobbyRuns("make") /\ lobbyAt' = "send"
  /\ player' = [player EXCEPT ![Head(lobby).session] = TRUE]
  /\ UNCHANGED <<acceptVars, connected, recv, closeVars, crashed, dbVars, sent, answered, failed>>

\* Session::Send: nothing is sent to a session that is not connected, and WSASend
\* may fail at once.
SendLoginInfo ==
  LET s == Head(lobby).session
  IN /\ LobbyRuns("send") /\ lobbyAt' = "idle" /\ lobby' = Tail(lobby)
     /\ \/ /\ answered' = [answered EXCEPT ![s] = @ \/ connected[s]]
           /\ UNCHANGED <<connected, closeVars>>
        \/ connected[s] /\ Disconnect(s, "lobby") /\ UNCHANGED answered
     /\ UNCHANGED <<acceptVars, recv, player, crashed, queueVars, connVars, outcome, accounts, sent,
                    failed>>

Lobby == CheckConnected \/ MakePlayer \/ SendLoginInfo

-----------------------------------------------------------------------------
Others == UNCHANGED <<sent, lobbyVars, failed>>
Receiving(s) == Handle(s) \/ Handled(s) \/ (RecvFails(s) /\ UNCHANGED dbVars /\ Others)
Accepting(s) == (Accepted(s) \/ ProcessAccept(s)) /\ UNCHANGED dbVars /\ Others
Closing(s) == (Leave(s) \/ Release(s)) /\ UNCHANGED dbVars /\ Others
Working(w) ==
  /\ Run(w) /\ RegisterJobs /\ UNCHANGED <<sent, answered>>
  /\ failed' = IF worker[w] = "execute" /\ outcome'[w] \in {"failed", "unfetched"}
                THEN failed \union {job[w].session} ELSE failed

Next ==
  \/ \E s \in Sessions : Accepting(s) \/ Receiving(s) \/ Closing(s)
  \/ \E w \in Threads : Working(w) \/ (WakeUp(w) /\ Others)
  \/ Lobby
Spec == Init /\ [][Next]_vars

\* A thread that has begun goes on, on the lobby's queue until it leaves it; nothing
\* makes a client connect, send or leave.
Fairness ==
  /\ \A s \in Sessions :
       /\ WF_vars(ProcessAccept(s) /\ UNCHANGED dbVars /\ Others)
       /\ WF_vars(Handled(s)) /\ WF_vars(Closing(s))
  /\ \A w \in Threads : WF_vars(Working(w))
  /\ WF_vars(Lobby)
FairSpec == Spec /\ Fairness

-----------------------------------------------------------------------------
(* Properties *)

InTable(s) == cid[s] \in DOMAIN sessions /\ sessions[cid[s]] = s

\* OnConnected puts a session in the service's table before it receives, and the
\* one Disconnect that passes the exchange takes it out: a session no thread is
\* accepting or closing is in the table if and only if it is connected.
TableHoldsTheConnected ==
  \A s \in Sessions :
    accept[s] = "done" /\ closing[s] \in {"no", "closed"} => (InTable(s) <=> connected[s])

\* There are as many connections as threads and every job gives back the one it
\* took: Pop never returns null, and no two threads have one connection.
ConnectionsSuffice ==
  /\ crashed # "connection"
  /\ \A v, w \in Threads : v # w /\ conn[v] # 0 => conn[v] # conn[w]
  /\ \A w \in Threads, i \in DOMAIN pool : pool[i] # conn[w]

\* Whatever becomes of the clients it accepts, the listener comes back to AcceptEx.
AcceptsGoOn ==
  []<>(\/ crashed # "no" \/ \E s \in Sessions : accept[s] = "pending"
       \/ \A s \in Sessions : accept[s] # "unused")

\* The login of s was answered while the lobby's queue was being left.
Stranded(s) ==
  lobbyAt = "left" /\ \E k \in DOMAIN lobby : lobby[k].session = s /\ lobby[k].ok

\* A login with the right password of an account that exists is answered, unless
\* the client goes or a statement of its fails; then nobody tells it.  Nor does
\* anybody when its answer stays stranded for want of a further login.
Asks(s) ==
  \E k \in DOMAIN dbJobs :
    dbJobs[k].session = s /\ dbJobs[k].kind = "login" /\ dbJobs[k].name \in accounts
LoginsAreAnswered ==
  \A s \in Sessions :
    \/ Asks(s) ~> (answered[s] \/ ~connected[s] \/ s \in failed \/ crashed # "no")
    \/ <>[]Stranded(s)

\* A client that signs up and then logs in is told the account does not exist only
\* when another thread still has its sign-up or a statement of its, the one in hand
\* included, has failed: the queue itself keeps the order.
SignedUpBefore(j) ==
  LET first == Head(sent[j.session]) IN first.kind = "signup" /\ first.name = j.name
Overtaken(j) ==
  \E v \in Threads :
    /\ worker[v] \in {"pop", "execute"} /\ job[v].kind = "signup"
    /\ job[v].session = j.session /\ job[v].name = j.name
RefusedOnlyIfOvertaken ==
  [][\A w \in Threads :
       outcome[w] = "none" /\ outcome'[w] \in {"unknown", "unfetched"}
         /\ SignedUpBefore(job[w]) =>
           Overtaken(job[w]) \/ job[w].session \in failed']_vars
=============================================================================
