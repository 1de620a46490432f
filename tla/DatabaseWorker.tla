--------------------------- MODULE DatabaseWorker ---------------------------
(***************************************************************************)
(* The threads that talk to the database: a queue of jobs with a condition *)
(* variable, as many threads as connections, the pool the threads take     *)
(* their connections from, and the statements of TryLogin and TrySignUP.   *)
(*                                                                         *)
(* The database itself is no part of the program: a statement may fail,    *)
(* executed or fetched, and a sign-up that does not fail makes its account *)
(* visible at one instant.  The lobby's queue is a JobQueue, of which      *)
(* JobQueue.tla shows that it runs one job at a time and in order; here it *)
(* is a sequence, and FrontDoor has the worker that serves it.             *)
(***************************************************************************)
EXTENDS Listener

CONSTANTS
  NumConnections,  \* num_connections, of threads as well
  Names            \* of accounts, each an id with its password
ASSUME NumConnectionsAssumption == NumConnections \in Nat

Threads == 1..NumConnections
Connections == 1..NumConnections

VARIABLES
  dbJobs,    \* _dbJobQueue
  worker,    \* thread -> "asleep" in the wait, "awake" before it tests the
             \* queue, or the line its job is at
  job,       \* thread -> the job it runs
  conn,      \* thread -> dbConn, 0 for none
  outcome,   \* thread -> what its statement gave
  pool,      \* _connectionQueue
  accounts,  \* the accounts in the database
  lobby      \* jobs pushed to GLobby

queueVars == <<dbJobs, worker, job>>
connVars == <<conn, pool>>
dbVars == <<queueVars, connVars, outcome, accounts, lobby>>

Job == [kind : {"login", "signup"}, session : Sessions, name : Names]

NoJob == [kind |-> "none"]
DatabaseInit ==
  /\ dbJobs = <<>> /\ lobby = <<>>
  /\ worker = [w \in Threads |-> "awake"]
  /\ job = [w \in Threads |-> NoJob]
  /\ conn = [w \in Threads |-> 0]
  /\ outcome = [w \in Threads |-> "none"]
  /\ pool = [c \in Connections |-> c]
  /\ accounts \in SUBSET Names

-----------------------------------------------------------------------------
(* ConcurrentQ.  Push holds the mutex; it notifies after it has let it go. *)

PushDBJob(j) == dbJobs' = Append(dbJobs, j)

Asleep == {w \in Threads : worker[w] = "asleep"}

\* Mutant: nobody is notified.
NotifyOne_Never == UNCHANGED worker

NotifyOne ==
  IF Asleep = {} THEN UNCHANGED worker
  ELSE \E w \in Asleep : worker' = [worker EXCEPT ![w] = "awake"]

WorkerAt(w, line) == crashed = "no" /\ worker[w] = line
To(w, line) == worker' = [worker EXCEPT ![w] = line]

\* Mutant: the last job is taken first.
WaitPop_Last(w) ==
  /\ WorkerAt(w, "awake")
  /\ IF dbJobs = <<>> THEN To(w, "asleep") /\ UNCHANGED <<dbJobs, job>>
     ELSE /\ To(w, "pop")
          /\ job' = [job EXCEPT ![w] = dbJobs[Len(dbJobs)]]
          /\ dbJobs' = SubSeq(dbJobs, 1, Len(dbJobs) - 1)
  /\ UNCHANGED <<listenerVars, connVars, outcome, accounts, lobby>>

\* The test and the wait, or the test and the pop, are one step under the mutex.
WaitPop(w) ==
  /\ WorkerAt(w, "awake")
  /\ IF dbJobs = <<>> THEN To(w, "asleep") /\ UNCHANGED <<dbJobs, job>>
     ELSE /\ To(w, "pop")
          /\ job' = [job EXCEPT ![w] = Head(dbJobs)] /\ dbJobs' = Tail(dbJobs)
  /\ UNCHANGED <<listenerVars, connVars, outcome, accounts, lobby>>

\* A wait may end for no reason; the queue is tested again.
WakeUp(w) ==
  /\ WorkerAt(w, "asleep") /\ To(w, "awake")
  /\ UNCHANGED <<listenerVars, dbJobs, job, connVars, outcome, accounts, lobby>>

-----------------------------------------------------------------------------
(* TryLogin and TrySignUP *)

\* Mutant: the front of the queue is read and not popped.
PopConnection_NoPop(w) ==
  /\ WorkerAt(w, "pop") /\ pool # <<>>
  /\ conn' = [conn EXCEPT ![w] = Head(pool)] /\ To(w, "execute")
  /\ UNCHANGED <<listenerVars, dbJobs, job, pool, outcome, accounts, lobby>>

\* DBConnectionPool::Pop; a null connection is used all the same.
PopConnection(w) ==
  /\ WorkerAt(w, "pop")
  /\ IF pool = <<>> THEN crashed' = "connection" /\ UNCHANGED <<worker, connVars>>
     ELSE /\ conn' = [conn EXCEPT ![w] = Head(pool)] /\ pool' = Tail(pool)
          /\ To(w, "execute") /\ UNCHANGED crashed
  /\ UNCHANGED <<acceptVars, connected, recv, closeVars, player, dbJobs, job, outcome, accounts, lobby>>

\* Execute, Fetch and the comparison of the passwords: a wrong password is refused
\* as an id nobody has, a name stands for both.  Execute may have failed, or only
\* the fetching of what it found.
LoginOutcomes(j) ==
  {"failed", "unfetched", IF j.name \in accounts THEN "success" ELSE "unknown"}
ExecuteLogin(w) ==
  /\ WorkerAt(w, "execute") /\ job[w].kind = "login"
  /\ \E o \in LoginOutcomes(job[w]) : outcome' = [outcome EXCEPT ![w] = o]
  /\ To(w, "answer")
  /\ UNCHANGED <<listenerVars, dbJobs, job, connVars, accounts, lobby>>

\* There is no answer to a sign-up.
ExecuteSignUp(w) ==
  /\ WorkerAt(w, "execute") /\ job[w].kind = "signup"
  /\ \/ /\ job[w].name \notin accounts /\ accounts' = accounts \union {job[w].name}
        /\ outcome' = [outcome EXCEPT ![w] = "success"]
     \/ /\ UNCHANGED accounts /\ outcome' = [outcome EXCEPT ![w] = "failed"]
  /\ To(w, "return")
  /\ UNCHANGED <<listenerVars, dbJobs, job, connVars, lobby>>

\* GLobby->PushJob; a statement that failed is not answered, and one that could not
\* be fetched is refused as an unknown id.
PushAnswer(w) ==
  /\ WorkerAt(w, "answer") /\ To(w, "return")
  /\ lobby' = IF outcome[w] = "failed" THEN lobby
              ELSE Append(lobby, [session |-> job[w].session, ok |-> outcome[w] = "success"])
  /\ outcome' = [outcome EXCEPT ![w] = "none"]
  /\ UNCHANGED <<listenerVars, dbJobs, job, connVars, accounts>>

JobEnds(w) ==
  /\ conn' = [conn EXCEPT ![w] = 0] /\ job' = [job EXCEPT ![w] = NoJob]
  /\ outcome' = [outcome EXCEPT ![w] = "none"]
  /\ UNCHANGED <<listenerVars, dbJobs, accounts, lobby>>

\* DBConnectionPool::Push, the last line of a job.
PushConnection(w) ==
  /\ WorkerAt(w, "return") /\ To(w, "awake")
  /\ pool' = Append(pool, conn[w])
  /\ JobEnds(w)

Statement(w) ==
  PopConnection(w) \/ ExecuteLogin(w) \/ ExecuteSignUp(w) \/ PushAnswer(w) \/ PushConnection(w)
Run(w) == WaitPop(w) \/ Statement(w)
=============================================================================
