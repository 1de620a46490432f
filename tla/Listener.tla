------------------------------ MODULE Listener ------------------------------
(***************************************************************************)
(* How a client gets in and out of the service: Listener accepts, one      *)
(* AcceptEx at a time, ServerService keeps the table of sessions, and      *)
(* Session::Disconnect takes one out of it.  The thread that gets the      *)
(* accept's completion runs ProcessAccept line by line; from the moment    *)
(* RegisterRecv is called other threads get the session's completions.     *)
(*                                                                         *)
(* Each session is a fresh object that is used once; they are numbered as  *)
(* they are made, and their number bounds a run.                           *)
(***************************************************************************)
EXTENDS Naturals, Sequences, Functions

CONSTANT MaxSessions  \* bound
ASSUME MaxSessionsAssumption == MaxSessions \in Nat \ {0}
Sessions == 1..MaxSessions

VARIABLES
  accept,     \* session -> "unused", "pending" in AcceptEx, the line of
              \* ProcessAccept its thread is at, "done" or "dropped"
  clientId,   \* _clientId, the next id
  cid,        \* session -> its id, 0 before it has one
  connected,  \* session -> _connected
  sessions,   \* _sessions, id -> session
  recv,       \* session -> "none", "posted", or "next" on the thread that got the
              \* completion and has handled its packet
  closing,    \* session -> the line of Disconnect after the exchange: "leave",
              \* "release", "closed"; "no" before
  closedBy,   \* session -> whose thread that is
  player,     \* session -> _currPlayer is not null
  crashed     \* what the process has died of, "no" while it lives

acceptVars == <<accept, clientId, cid>>
closeVars == <<closing, closedBy, sessions>>
listenerVars == <<acceptVars, connected, recv, closeVars, player, crashed>>

ListenerInit ==
  /\ accept = [s \in Sessions |-> IF s = 1 THEN "pending" ELSE "unused"]
  /\ clientId = 1
  /\ cid = [s \in Sessions |-> 0]
  /\ connected = [s \in Sessions |-> FALSE]
  /\ sessions = [id \in {} |-> 0]
  /\ recv = [s \in Sessions |-> "none"]
  /\ closing = [s \in Sessions |-> "no"]
  /\ closedBy = [s \in Sessions |-> "nobody"]
  /\ player = [s \in Sessions |-> FALSE]
  /\ crashed = "no"

-----------------------------------------------------------------------------
(* ProcessAccept and OnConnected *)

\* Mutant: OnConnected starts to receive before the session is in the table.
AfterLine_RecvFirst(line) == [connect |-> "recv", recv |-> "add", add |-> "register"][line]

AfterLine(line) == [connect |-> "add", add |-> "recv", recv |-> "register"][line]

At(s, line) == crashed = "no" /\ accept[s] = line
GoOn(s) == accept' = [accept EXCEPT ![s] = AfterLine(@)]

\* Mutant: without the peer's name the thread returns at once.
Accepted_NoRegister(s) ==
  /\ At(s, "pending") /\ \E line \in {"connect", "dropped"} : accept' = [accept EXCEPT ![s] = line]
  /\ UNCHANGED <<clientId, cid, connected, recv, closeVars, player, crashed>>

\* A client connects and a thread gets the completion.  getpeername fails when the
\* client has gone again: the session is given up.
Accepted(s) ==
  /\ At(s, "pending") /\ \E line \in {"connect", "register"} : accept' = [accept EXCEPT ![s] = line]
  /\ UNCHANGED <<clientId, cid, connected, recv, closeVars, player, crashed>>

\* The session gets its id, and OnConnected begins; nobody else knows it yet.
SetConnected(s) ==
  /\ At(s, "connect") /\ GoOn(s)
  /\ clientId' = clientId + 1 /\ cid' = [cid EXCEPT ![s] = clientId]
  /\ connected' = [connected EXCEPT ![s] = TRUE]
  /\ UNCHANGED <<recv, closeVars, player, crashed>>

\* emplace: nothing happens if the id is taken.
AddSession(s) ==
  /\ At(s, "add") /\ GoOn(s)
  /\ sessions' = IF cid[s] \in DOMAIN sessions THEN sessions
                 ELSE [id \in DOMAIN sessions \union {cid[s]} |->
                         IF id = cid[s] THEN s ELSE sessions[id]]
  /\ UNCHANGED <<clientId, cid, connected, recv, closing, closedBy, player, crashed>>

\* WSARecv may fail at once; then Disconnect finds no player.
FirstRecv(s) ==
  /\ At(s, "recv")
  /\ \/ /\ recv' = [recv EXCEPT ![s] = "posted"] /\ GoOn(s)
        /\ UNCHANGED <<connected, crashed>>
     \/ /\ connected' = [connected EXCEPT ![s] = FALSE] /\ crashed' = "player"
        /\ UNCHANGED <<accept, recv>>
  /\ UNCHANGED <<clientId, cid, closeVars, player>>

\* CreateSession and AcceptEx.  A session that cannot be registered is null and
\* used all the same; when AcceptEx fails the function calls itself.
CreateSession(t) == accept[t] = "unused" /\ \A u \in Sessions : accept[u] = "unused" => t <= u
RegisterAccept(s) ==
  /\ At(s, "register")
  /\ \E t \in Sessions : CreateSession(t) /\
       \/ accept' = [accept EXCEPT ![t] = "pending", ![s] = "done"] /\ UNCHANGED crashed
       \/ accept' = [accept EXCEPT ![t] = "dropped"] /\ UNCHANGED crashed
       \/ crashed' = "session" /\ UNCHANGED accept
  /\ UNCHANGED <<clientId, cid, connected, recv, closeVars, player>>

ProcessAccept(s) == SetConnected(s) \/ AddSession(s) \/ FirstRecv(s) \/ RegisterAccept(s)

-----------------------------------------------------------------------------
(* Disconnect, on the thread that has the session's completion or another *)

\* The exchange: only the first caller goes on.
Disconnect(s, by) ==
  /\ connected' = [connected EXCEPT ![s] = FALSE]
  /\ IF connected[s]
     THEN closing' = [closing EXCEPT ![s] = "leave"] /\ closedBy' = [closedBy EXCEPT ![s] = by]
     ELSE UNCHANGED <<closing, closedBy>>
  /\ UNCHANGED sessions

\* _currPlayer->GetCurrentRoom(): there is no test for null.  The room is told to
\* let the player out, which is no matter of this module.
Leave(s) ==
  /\ crashed = "no" /\ closing[s] = "leave"
  /\ IF player[s] THEN closing' = [closing EXCEPT ![s] = "release"] /\ UNCHANGED crashed
                  ELSE crashed' = "player" /\ UNCHANGED closing
  /\ UNCHANGED <<acceptVars, connected, recv, closedBy, sessions, player>>

\* ReleaseSession
Release(s) ==
  /\ crashed = "no" /\ closing[s] = "release"
  /\ closing' = [closing EXCEPT ![s] = "closed"]
  /\ sessions' = Restrict(sessions, DOMAIN sessions \ {cid[s]})
  /\ UNCHANGED <<acceptVars, connected, recv, closedBy, player, crashed>>

\* The thread that is in Disconnect does nothing else.
Busy(by) == \E s \in Sessions : closing[s] \in {"leave", "release"} /\ closedBy[s] = by

-----------------------------------------------------------------------------
(* ProcessRecv, from the completion to the next RegisterRecv *)

\* The client has closed, or the buffer is full.
RecvFails(s) ==
  /\ crashed = "no" /\ recv[s] = "posted"
  /\ recv' = [recv EXCEPT ![s] = "none"] /\ Disconnect(s, "receiver")
  /\ UNCHANGED <<acceptVars, player, crashed>>

\* After a packet: nothing more is received of a session that is not connected.
NextRecv(s) ==
  /\ crashed = "no" /\ recv[s] = "next"
  /\ \/ /\ connected[s] /\ recv' = [recv EXCEPT ![s] = "posted"]
        /\ UNCHANGED <<connected, closeVars>>
     \/ /\ recv' = [recv EXCEPT ![s] = "none"] /\ Disconnect(s, "receiver")
  /\ UNCHANGED <<acceptVars, player, crashed>>
=============================================================================
