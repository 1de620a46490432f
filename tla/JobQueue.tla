------------------------------ MODULE JobQueue ------------------------------
(***************************************************************************)
(* JobQueue (JobQueue.h, JobQueue.cpp) on the completion port that         *)
(* IocpCore::Dispatch serves (IocpCore.cpp).                               *)
(*                                                                         *)
(* Any thread may push a job.  The thread whose compare-and-swap turns     *)
(* _isProcessing on arms the queue's only JobEvent and posts it; the       *)
(* worker that dequeues the event drains the queue and turns the flag off. *)
(* A thread's pc says where it stands; every shared access is its own      *)
(* step.                                                                   *)
(***************************************************************************)
EXTENDS Naturals, Sequences

CONSTANTS
  Pushers,  \* threads that push from outside a job (handlers, timer, database)
  Workers,  \* threads that serve the completion port
  Jobs,     \* job objects
  NoJob

ASSUME NoJobAssumption == NoJob \notin Jobs

Threads == Pushers \cup Workers

VARIABLES
  jobQueue,      \* _jobQueue
  isProcessing,  \* _isProcessing
  ownerSet,      \* _jobEvent._owner is not null
  posted,        \* completions of _jobEvent waiting in the port
  pc,            \* thread -> the next step it takes
  job            \* thread -> the job it is executing, or NoJob

vars == <<jobQueue, isProcessing, ownerSet, posted, pc, job>>

Steps == {"idle", "register", "arm", "post", "read", "dispatch",
          "pop", "execute", "release", "crashed"}

TypeOK ==
  /\ jobQueue \in Seq(Jobs)
  /\ isProcessing \in BOOLEAN
  /\ ownerSet \in BOOLEAN
  /\ posted \in Nat
  /\ pc \in [Threads -> Steps]
  /\ job \in [Threads -> Jobs \cup {NoJob}]

Running == {job[t] : t \in Threads} \ {NoJob}

Outstanding == {jobQueue[i] : i \in 1..Len(jobQueue)} \cup Running

Goto(t, step) == pc' = [pc EXCEPT ![t] = step]

\* Where RegisterJobs returns to: a thread that pushed from inside a job
\* (Send -> Disconnect -> PushJob) goes on with that job.
Caller(t) == IF job[t] = NoJob THEN "idle" ELSE "execute"

Init ==
  /\ jobQueue = <<>>
  /\ isProcessing = FALSE
  /\ ownerSet = FALSE
  /\ posted = 0
  /\ pc = [t \in Threads |-> "idle"]
  /\ job = [t \in Threads |-> NoJob]

-----------------------------------------------------------------------------
(* Push: append the job, then RegisterJobs.                                *)

Push(t, j) ==
  /\ \/ pc[t] = "idle" /\ t \in Pushers
     \/ pc[t] = "execute"
  /\ j \notin Outstanding
  /\ jobQueue' = Append(jobQueue, j)
  /\ Goto(t, "register")
  /\ UNCHANGED <<isProcessing, ownerSet, posted, job>>

\* Mutants: the event posted without the test of the flag; the flag compared
\* with the wrong value.
RegisterJobs_NoTest(t) ==
  /\ pc[t] = "register"
  /\ Goto(t, "arm")
  /\ isProcessing' = TRUE
  /\ UNCHANGED <<jobQueue, ownerSet, posted, job>>

RegisterJobs_WrongExpected(t) ==
  /\ pc[t] = "register"
  /\ \/ ~isProcessing /\ Goto(t, Caller(t))
     \/ isProcessing /\ Goto(t, "arm")
  /\ UNCHANGED <<jobQueue, isProcessing, ownerSet, posted, job>>

RegisterJobs(t) ==
  /\ pc[t] = "register"
  /\ \/ isProcessing /\ Goto(t, Caller(t)) /\ UNCHANGED isProcessing
     \/ ~isProcessing /\ Goto(t, "arm") /\ isProcessing' = TRUE
  /\ UNCHANGED <<jobQueue, ownerSet, posted, job>>

ArmEvent(t) ==
  /\ pc[t] = "arm"
  /\ ownerSet' = TRUE
  /\ Goto(t, "post")
  /\ UNCHANGED <<jobQueue, isProcessing, posted, job>>

PostEvent(t) ==
  /\ pc[t] = "post"
  /\ posted' = posted + 1
  /\ Goto(t, Caller(t))
  /\ UNCHANGED <<jobQueue, isProcessing, ownerSet, job>>

-----------------------------------------------------------------------------
(* A worker: IocpCore::Dispatch, JobQueue::Dispatch, ExecuteJobs.          *)

GetCompletion(w) ==
  /\ w \in Workers
  /\ pc[w] = "idle"
  /\ posted > 0
  /\ posted' = posted - 1
  /\ Goto(w, "read")
  /\ UNCHANGED <<jobQueue, isProcessing, ownerSet, job>>

\* The worker copies over->_owner and calls through it: a null owner is a
\* null dereference.
ReadOwner(w) ==
  /\ pc[w] = "read"
  /\ Goto(w, IF ownerSet THEN "dispatch" ELSE "crashed")
  /\ UNCHANGED <<jobQueue, isProcessing, ownerSet, posted, job>>

Dispatch(w) ==
  /\ pc[w] = "dispatch"
  /\ ownerSet' = FALSE
  /\ Goto(w, "pop")
  /\ UNCHANGED <<jobQueue, isProcessing, posted, job>>

\* Mutant: the newest job is taken first.
TryPop_Newest(w) ==
  /\ pc[w] = "pop"
  /\ \/ /\ jobQueue # <<>>
        /\ job' = [job EXCEPT ![w] = jobQueue[Len(jobQueue)]]
        /\ jobQueue' = SubSeq(jobQueue, 1, Len(jobQueue) - 1)
        /\ Goto(w, "execute")
     \/ /\ jobQueue = <<>>
        /\ Goto(w, "release")
        /\ UNCHANGED <<job, jobQueue>>
  /\ UNCHANGED <<isProcessing, ownerSet, posted>>

TryPop(w) ==
  /\ pc[w] = "pop"
  /\ \/ /\ jobQueue # <<>>
        /\ job' = [job EXCEPT ![w] = Head(jobQueue)]
        /\ jobQueue' = Tail(jobQueue)
        /\ Goto(w, "execute")
     \/ /\ jobQueue = <<>>
        /\ Goto(w, "release")
        /\ UNCHANGED <<job, jobQueue>>
  /\ UNCHANGED <<isProcessing, ownerSet, posted>>

\* Mutant: one job per completion.
EndJob_OneJob(w) ==
  /\ pc[w] = "execute"
  /\ job' = [job EXCEPT ![w] = NoJob]
  /\ Goto(w, "release")
  /\ UNCHANGED <<jobQueue, isProcessing, ownerSet, posted>>

EndJob(w) ==
  /\ pc[w] = "execute"
  /\ job' = [job EXCEPT ![w] = NoJob]
  /\ Goto(w, "pop")
  /\ UNCHANGED <<jobQueue, isProcessing, ownerSet, posted>>

\* The compare-and-swap that ends ExecuteJobs; were it to fail, the loop
\* would pop again.
Release(w) ==
  /\ pc[w] = "release"
  /\ isProcessing' = FALSE
  /\ Goto(w, IF isProcessing THEN "idle" ELSE "pop")
  /\ UNCHANGED <<jobQueue, ownerSet, posted, job>>

-----------------------------------------------------------------------------

\* What a thread does next once it has begun something.
Continue(t) ==
  \/ RegisterJobs(t) \/ ArmEvent(t) \/ PostEvent(t)
  \/ ReadOwner(t) \/ Dispatch(t) \/ TryPop(t) \/ EndJob(t) \/ Release(t)

PushAny == \E t \in Threads, j \in Jobs : Push(t, j)

Next ==
  \/ PushAny
  \/ \E w \in Workers : GetCompletion(w)
  \/ \E t \in Threads : Continue(t)

Spec == Init /\ [][Next]_vars

(***************************************************************************)
(* The operating system runs every thread that can run, and the port hands *)
(* out its completions in FIFO order: a posted event is dequeued, however  *)
(* often the workers serve other completions first.  A job may push, but   *)
(* not for ever.  No thread is obliged to push.                            *)
(***************************************************************************)
Fairness ==
  /\ \A t \in Threads :
       /\ WF_vars(RegisterJobs(t) \/ ArmEvent(t) \/ PostEvent(t))
       /\ WF_vars(ReadOwner(t) \/ Dispatch(t) \/ TryPop(t) \/ Release(t))
       /\ SF_vars(EndJob(t))
  /\ SF_vars(\E w \in Workers : GetCompletion(w))

FairSpec == Spec /\ Fairness

-----------------------------------------------------------------------------
(* Properties *)

\* Inside(t): the thread is between the start and the end of a job.
Inside(t) == job[t] # NoJob

\* Two threads never execute jobs of one queue at the same time: what lets
\* Room and AuthLobby keep their maps without a lock.
MutualExclusion ==
  \A s, t \in Threads : Inside(s) /\ Inside(t) => s = t

\* A worker that dequeued an event whose owner had been cleared would crash.
NoNullOwner == \A t \in Threads : pc[t] # "crashed"

\* The one JobEvent is never re-initialised or posted again while it is in
\* the port or a worker still reads its owner, and has one then (RegisterJobs against
\* IocpCore::Dispatch and JobQueue::Dispatch).
EventNotReused ==
  /\ posted <= 1
  /\ \A t \in Threads :
       pc[t] \in {"arm", "post"} =>
         /\ posted = 0
         /\ \A s \in Threads \ {t} :
              pc[s] \notin {"arm", "post", "read", "dispatch"}
  /\ NoNullOwner

\* A queue that is Stranded has jobs and nobody who will come for them: the
\* flag is off and no thread is about to register.
Stranded ==
  /\ jobQueue # <<>>
  /\ ~isProcessing
  /\ \A t \in Threads : pc[t] # "register"

\* The code does strand jobs: a push between the failing try_pop and the
\* release of the flag loses its wakeup.  That window is the only one (no
\* other step strands the queue), and what is stranded is then exactly what
\* arrived in it.
StrandedOnlyByRelease ==
  [][~Stranded /\ Stranded' => \E t \in Threads : Release(t)]_vars

\* What was stranded is not lost: once a push finds the flag off, every job in
\* the queue gets to run, the stranded ones included.
NextPushRescues ==
  \A j \in Jobs :
    /\ j \in Outstanding
    /\ ~isProcessing
    /\ \E t \in Threads : pc[t] = "register"
    ~> j \notin Outstanding

\* The queue implements the serial executor.
Serial == INSTANCE SerialExecutor
            WITH pending <- jobQueue, running <- Running
ImplementsSerialExecutor == Serial!Spec
=============================================================================
