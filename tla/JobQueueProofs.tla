--------------------------- MODULE JobQueueProofs ---------------------------
(***************************************************************************)
(* Proofs about JobQueue, for every set of threads and jobs.               *)
(*                                                                         *)
(* The argument: _isProcessing is a token.  While it is on, the token is   *)
(* in one place: with the one thread that Holds it (arming or posting the  *)
(* event, or draining the queue) or in the port, as the one posted event.  *)
(* Everything else follows from that.                                      *)
(***************************************************************************)
EXTENDS JobQueue, TLAPS

\* Holds(t): the thread has the token.
Holds(t) ==
  \/ pc[t] \in {"arm", "post", "read", "dispatch", "pop", "release"}
  \/ job[t] # NoJob

\* A thread has a job exactly while it executes it or registers from inside it.
JobWhere ==
  \A t \in Threads :
    /\ pc[t] = "execute" => job[t] # NoJob
    /\ pc[t] \notin {"execute", "register"} => job[t] = NoJob

\* The token is in one place.
TokenInv ==
  /\ \A t \in Threads : Holds(t) => isProcessing /\ posted = 0
  /\ \A s, t \in Threads : Holds(s) /\ Holds(t) => s = t
  /\ posted \in {0, 1}
  /\ posted = 1 => isProcessing

\* The event has its owner from the moment it is armed until it is read.
OwnerInv ==
  /\ posted = 1 => ownerSet
  /\ \A t \in Threads : pc[t] \in {"post", "read"} => ownerSet
  /\ NoNullOwner

IInv == TypeOK /\ JobWhere /\ TokenInv /\ OwnerInv

-----------------------------------------------------------------------------

\* The initial states satisfy the invariant: nobody has the token.
LEMMA InitIInv == Init => IInv
<1> SUFFICES ASSUME Init PROVE IInv
  OBVIOUS
<1> USE DEF Init
<1>1. TypeOK
  <2>1. jobQueue \in Seq(Jobs)
    OBVIOUS
  <2>2. isProcessing \in BOOLEAN /\ ownerSet \in BOOLEAN
    BY Zenon
  <2>3. posted \in Nat /\ pc \in [Threads -> Steps]
    BY DEF Steps
  <2>4. job \in [Threads -> Jobs \cup {NoJob}]
    OBVIOUS
  <2> QED
    BY <2>1, <2>2, <2>3, <2>4 DEF TypeOK
<1>2. JobWhere
  BY DEF JobWhere
<1>3. TokenInv
  <2>1. \A t \in Threads : ~Holds(t)
    BY DEF Holds
  <2> QED
    BY <2>1 DEF TokenInv
<1>4. OwnerInv
  BY DEF OwnerInv, NoNullOwner
<1> QED
  BY <1>1, <1>2, <1>3, <1>4 DEF IInv

\* Every step keeps the types.
LEMMA TypeStep == TypeOK /\ [Next]_vars => TypeOK'
<1> SUFFICES ASSUME TypeOK, [Next]_vars PROVE TypeOK'
  OBVIOUS
<1> USE DEF TypeOK, Goto, Steps, Threads
<1>1. ASSUME NEW t \in Threads, NEW j \in Jobs, Push(t, j) PROVE TypeOK'
  BY <1>1 DEF Push
<1>2. ASSUME NEW t \in Threads, RegisterJobs(t) PROVE TypeOK'
  BY <1>2 DEF RegisterJobs, Caller
<1>3. ASSUME NEW t \in Threads, ArmEvent(t) PROVE TypeOK'
  BY <1>3 DEF ArmEvent
<1>4. ASSUME NEW t \in Threads, PostEvent(t) PROVE TypeOK'
  BY <1>4 DEF PostEvent, Caller
<1>5. ASSUME NEW w \in Workers, GetCompletion(w) PROVE TypeOK'
  BY <1>5 DEF GetCompletion
<1>6. ASSUME NEW t \in Threads, ReadOwner(t) PROVE TypeOK'
  BY <1>6 DEF ReadOwner
<1>7. ASSUME NEW t \in Threads, Dispatch(t) PROVE TypeOK'
  BY <1>7 DEF Dispatch
<1>8. ASSUME NEW t \in Threads, TryPop(t) PROVE TypeOK'
  BY <1>8 DEF TryPop
<1>9. ASSUME NEW t \in Threads, EndJob(t) PROVE TypeOK'
  BY <1>9 DEF EndJob
<1>10. ASSUME NEW t \in Threads, Release(t) PROVE TypeOK'
  BY <1>10 DEF Release
<1>11. CASE UNCHANGED vars
  BY <1>11 DEF vars
<1> QED
  BY <1>1, <1>2, <1>3, <1>4, <1>5, <1>6, <1>7, <1>8, <1>9, <1>10, <1>11
  DEF Next, PushAny, Continue

\* Every step keeps jobs where they belong.
LEMMA JobWhereStep == TypeOK /\ JobWhere /\ TokenInv /\ [Next]_vars => JobWhere'
<1> SUFFICES ASSUME TypeOK, JobWhere, TokenInv, [Next]_vars PROVE JobWhere'
  OBVIOUS
<1> USE NoJobAssumption DEF TypeOK, JobWhere, Goto, Threads
<1>1. ASSUME NEW t \in Threads, NEW j \in Jobs, Push(t, j) PROVE JobWhere'
  BY <1>1 DEF Push
<1>2. ASSUME NEW t \in Threads, RegisterJobs(t) PROVE JobWhere'
  \* A thread registering from inside a job finds the flag on.
  <2>1. job[t] # NoJob => isProcessing
    BY DEF TokenInv, Holds
  <2> QED
    BY <1>2, <2>1 DEF RegisterJobs, Caller
<1>3. ASSUME NEW t \in Threads, ArmEvent(t) PROVE JobWhere'
  BY <1>3 DEF ArmEvent
<1>4. ASSUME NEW t \in Threads, PostEvent(t) PROVE JobWhere'
  BY <1>4 DEF PostEvent, Caller
<1>5. ASSUME NEW w \in Workers, GetCompletion(w) PROVE JobWhere'
  BY <1>5 DEF GetCompletion
<1>6. ASSUME NEW t \in Threads, ReadOwner(t) PROVE JobWhere'
  BY <1>6 DEF ReadOwner
<1>7. ASSUME NEW t \in Threads, Dispatch(t) PROVE JobWhere'
  BY <1>7 DEF Dispatch
<1>8. ASSUME NEW t \in Threads, TryPop(t) PROVE JobWhere'
  BY <1>8 DEF TryPop
<1>9. ASSUME NEW t \in Threads, EndJob(t) PROVE JobWhere'
  BY <1>9 DEF EndJob
<1>10. ASSUME NEW t \in Threads, Release(t) PROVE JobWhere'
  BY <1>10 DEF Release
<1>11. CASE UNCHANGED vars
  BY <1>11 DEF vars
<1> QED
  BY <1>1, <1>2, <1>3, <1>4, <1>5, <1>6, <1>7, <1>8, <1>9, <1>10, <1>11
  DEF Next, PushAny, Continue

\* Every step moves the token from one place to another, or leaves it.
LEMMA TokenStep == TypeOK /\ JobWhere /\ TokenInv /\ [Next]_vars => TokenInv'
<1> SUFFICES ASSUME TypeOK, JobWhere, TokenInv, [Next]_vars PROVE TokenInv'
  OBVIOUS
<1> USE NoJobAssumption DEF TypeOK, JobWhere, TokenInv, Holds, Goto, Threads
<1>1. ASSUME NEW t \in Threads, NEW j \in Jobs, Push(t, j) PROVE TokenInv'
  BY <1>1 DEF Push
<1>2. ASSUME NEW t \in Threads, RegisterJobs(t) PROVE TokenInv'
  BY <1>2 DEF RegisterJobs, Caller
<1>3. ASSUME NEW t \in Threads, ArmEvent(t) PROVE TokenInv'
  BY <1>3 DEF ArmEvent
<1>4. ASSUME NEW t \in Threads, PostEvent(t) PROVE TokenInv'
  BY <1>4 DEF PostEvent, Caller
<1>5. ASSUME NEW w \in Workers, GetCompletion(w) PROVE TokenInv'
  BY <1>5 DEF GetCompletion
<1>6. ASSUME NEW t \in Threads, ReadOwner(t) PROVE TokenInv'
  BY <1>6 DEF ReadOwner
<1>7. ASSUME NEW t \in Threads, Dispatch(t) PROVE TokenInv'
  BY <1>7 DEF Dispatch
<1>8. ASSUME NEW t \in Threads, TryPop(t) PROVE TokenInv'
  BY <1>8 DEF TryPop
<1>9. ASSUME NEW t \in Threads, EndJob(t) PROVE TokenInv'
  BY <1>9 DEF EndJob
<1>10. ASSUME NEW t \in Threads, Release(t) PROVE TokenInv'
  BY <1>10 DEF Release
<1>11. CASE UNCHANGED vars
  BY <1>11 DEF vars
<1> QED
  BY <1>1, <1>2, <1>3, <1>4, <1>5, <1>6, <1>7, <1>8, <1>9, <1>10, <1>11
  DEF Next, PushAny, Continue

\* Every step keeps the owner on an event that someone will read.
LEMMA OwnerStep ==
  TypeOK /\ JobWhere /\ TokenInv /\ OwnerInv /\ [Next]_vars => OwnerInv'
<1> SUFFICES ASSUME TypeOK, JobWhere, TokenInv, OwnerInv, [Next]_vars
             PROVE OwnerInv'
  OBVIOUS
<1> USE DEF TypeOK, JobWhere, TokenInv, OwnerInv, NoNullOwner, Holds, Goto,
            Threads
<1>1. ASSUME NEW t \in Threads, NEW j \in Jobs, Push(t, j) PROVE OwnerInv'
  BY <1>1 DEF Push
<1>2. ASSUME NEW t \in Threads, RegisterJobs(t) PROVE OwnerInv'
  BY <1>2 DEF RegisterJobs, Caller
<1>3. ASSUME NEW t \in Threads, ArmEvent(t) PROVE OwnerInv'
  BY <1>3 DEF ArmEvent
<1>4. ASSUME NEW t \in Threads, PostEvent(t) PROVE OwnerInv'
  BY <1>4 DEF PostEvent, Caller
<1>5. ASSUME NEW w \in Workers, GetCompletion(w) PROVE OwnerInv'
  BY <1>5 DEF GetCompletion
<1>6. ASSUME NEW t \in Threads, ReadOwner(t) PROVE OwnerInv'
  BY <1>6 DEF ReadOwner
<1>7. ASSUME NEW t \in Threads, Dispatch(t) PROVE OwnerInv'
  BY <1>7 DEF Dispatch
<1>8. ASSUME NEW t \in Threads, TryPop(t) PROVE OwnerInv'
  BY <1>8 DEF TryPop
<1>9. ASSUME NEW t \in Threads, EndJob(t) PROVE OwnerInv'
  BY <1>9 DEF EndJob
<1>10. ASSUME NEW t \in Threads, Release(t) PROVE OwnerInv'
  BY <1>10 DEF Release
<1>11. CASE UNCHANGED vars
  BY <1>11 DEF vars
<1> QED
  BY <1>1, <1>2, <1>3, <1>4, <1>5, <1>6, <1>7, <1>8, <1>9, <1>10, <1>11
  DEF Next, PushAny, Continue

\* The inductive invariant holds in every reachable state.
THEOREM Invariance == Spec => []IInv
<1>1. IInv /\ [Next]_vars => IInv'
  BY TypeStep, JobWhereStep, TokenStep, OwnerStep DEF IInv
<1> QED
  BY InitIInv, <1>1, PTL DEF Spec

-----------------------------------------------------------------------------
(* The properties.                                                         *)

\* The variables of the queue always have the types the code gives them.
THEOREM TypeCorrectness == Spec => []TypeOK
<1>1. IInv => TypeOK
  BY DEF IInv
<1> QED
  BY Invariance, <1>1, PTL

\* However many threads push and serve the port, two of them are never inside
\* jobs of the same queue (ExecuteJobs).
THEOREM MutualExclusionHolds == Spec => []MutualExclusion
<1>1. IInv => MutualExclusion
  BY DEF IInv, TokenInv, Holds, MutualExclusion, Inside
<1> QED
  BY Invariance, <1>1, PTL

\* The queue's one JobEvent is in at most one place: it is never re-armed or
\* posted while it is in the port or being read (RegisterJobs), and no worker
\* calls through a null owner (IocpCore::Dispatch).
THEOREM EventNotReusedHolds == Spec => []EventNotReused
<1>1. IInv => EventNotReused
  BY DEF IInv, TokenInv, OwnerInv, Holds, EventNotReused
<1> QED
  BY Invariance, <1>1, PTL

\* The wakeup is lost only between the failing try_pop and the release of the
\* flag: no other step strands the queue (ExecuteJobs against Push).
THEOREM StrandedOnlyByReleaseHolds == Spec => StrandedOnlyByRelease
<1> DEFINE Ok == ~Stranded /\ Stranded' => \E t \in Threads : Release(t)
<1>1. ASSUME IInv, [Next]_vars PROVE Ok
  <2> SUFFICES ASSUME ~Stranded, Stranded' PROVE \E t \in Threads : Release(t)
    OBVIOUS
  <2> USE DEF IInv, TypeOK, Stranded, Goto, Threads
  <2>1. ASSUME NEW t \in Threads, NEW j \in Jobs, Push(t, j) PROVE FALSE
    <3>1. pc' = [pc EXCEPT ![t] = "register"]
      BY <2>1 DEF Push
    <3> QED
      BY <1>1, <3>1
  <2>2. ASSUME NEW t \in Threads, RegisterJobs(t) PROVE FALSE
    BY <2>2 DEF RegisterJobs
  <2>3. ASSUME NEW t \in Threads, ArmEvent(t) PROVE FALSE
    BY <2>3 DEF ArmEvent
  <2>4. ASSUME NEW t \in Threads, PostEvent(t) PROVE FALSE
    BY <2>4 DEF PostEvent
  <2>5. ASSUME NEW w \in Workers, GetCompletion(w) PROVE FALSE
    BY <2>5 DEF GetCompletion
  <2>6. ASSUME NEW t \in Threads, ReadOwner(t) PROVE FALSE
    BY <2>6 DEF ReadOwner
  <2>7. ASSUME NEW t \in Threads, Dispatch(t) PROVE FALSE
    BY <2>7 DEF Dispatch
  <2>8. ASSUME NEW t \in Threads, TryPop(t) PROVE FALSE
    <3>1. isProcessing /\ isProcessing' = isProcessing
      BY <1>1, <2>8 DEF TryPop, TokenInv, Holds
    <3> QED
      BY <3>1
  <2>9. ASSUME NEW t \in Threads, EndJob(t) PROVE FALSE
    BY <2>9 DEF EndJob
  <2>10. CASE UNCHANGED vars
    BY <2>10 DEF vars
  <2> QED
    BY <1>1, <2>1, <2>2, <2>3, <2>4, <2>5, <2>6, <2>7, <2>8, <2>9, <2>10
    DEF Next, PushAny, Continue
<1>2. IInv /\ [Next]_vars => [Ok]_vars
  BY <1>1
<1> QED
  BY Invariance, <1>2, PTL DEF Spec, StrandedOnlyByRelease

-----------------------------------------------------------------------------
(* Refinement.                                                             *)

\* A worker that is about to pop is the only one that could be inside a job.
LEMMA PopMeansIdle ==
  ASSUME IInv, NEW w \in Threads, pc[w] = "pop"
  PROVE  Running = {}
<1>1. \A t \in Threads : job[t] = NoJob
  BY DEF IInv, TokenInv, Holds, JobWhere
<1> QED
  BY <1>1 DEF Running

\* A job that ends was the running one.
LEMMA RunningIsOne ==
  ASSUME IInv, NEW w \in Threads, pc[w] = "execute"
  PROVE  /\ job[w] # NoJob
         /\ \A t \in Threads \ {w} : job[t] = NoJob
  BY DEF IInv, TokenInv, Holds, JobWhere

\* Each step of the queue is a step of the serial executor, or none that it
\* can tell.
LEMMA StepRefines ==
  IInv /\ [Next]_vars => [Serial!Next]_(Serial!vars)
<1> SUFFICES ASSUME IInv, [Next]_vars PROVE [Serial!Next]_(Serial!vars)
  OBVIOUS
<1> USE DEF Serial!vars
<1>1. ASSUME NEW t \in Threads, NEW j \in Jobs, Push(t, j)
      PROVE  Serial!Submit(j)
  BY <1>1 DEF Push, Serial!Submit, Serial!Outstanding, Outstanding, Running
<1>2. ASSUME UNCHANGED <<jobQueue, job>>
      PROVE  UNCHANGED Serial!vars
  BY <1>2 DEF Running
<1>3. ASSUME NEW w \in Threads, TryPop(w), jobQueue # <<>>
      PROVE  Serial!Begin
  <2>1. pc[w] = "pop" /\ Running = {}
    BY <1>3, PopMeansIdle DEF TryPop
  <2>2. /\ job' = [job EXCEPT ![w] = Head(jobQueue)]
        /\ jobQueue' = Tail(jobQueue)
    BY <1>3 DEF TryPop
  <2>3. Head(jobQueue) \in Jobs /\ Head(jobQueue) # NoJob
    BY <1>3, NoJobAssumption DEF IInv, TypeOK
  <2>4. \A t \in Threads : job[t] = NoJob
    BY <2>1 DEF Running
  <2>5. job'[w] = Head(jobQueue) /\ \A t \in Threads \ {w} : job'[t] = NoJob
    BY <2>2, <2>4 DEF IInv, TypeOK
  <2>6. Running' = {Head(jobQueue)}
    BY <2>3, <2>5 DEF Running
  <2> QED
    BY <1>3, <2>1, <2>2, <2>6 DEF Serial!Begin
<1>4. ASSUME NEW w \in Threads, EndJob(w) PROVE Serial!End
  <2>1. /\ job[w] # NoJob
        /\ \A t \in Threads \ {w} : job[t] = NoJob
    BY <1>4, RunningIsOne DEF EndJob
  <2>2. Running # {}
    BY <2>1 DEF Running
  <2>3. job' = [job EXCEPT ![w] = NoJob]
    BY <1>4 DEF EndJob
  <2>4. \A t \in Threads : job'[t] = NoJob
    BY <2>1, <2>3 DEF IInv, TypeOK
  <2>5. Running' = {}
    BY <2>4 DEF Running
  <2>6. UNCHANGED jobQueue
    BY <1>4 DEF EndJob
  <2> QED
    BY <2>2, <2>5, <2>6 DEF Serial!End
<1>5. CASE PushAny
  BY <1>1, <1>5 DEF PushAny, Serial!Next
<1>6. CASE \E w \in Workers : GetCompletion(w)
  BY <1>2, <1>6 DEF GetCompletion
<1>7. ASSUME NEW t \in Threads, Continue(t)
      PROVE  [Serial!Next]_(Serial!vars)
  <2>1. CASE RegisterJobs(t) \/ ArmEvent(t) \/ PostEvent(t)
    BY <1>2, <2>1 DEF RegisterJobs, ArmEvent, PostEvent
  <2>2. CASE ReadOwner(t) \/ Dispatch(t) \/ Release(t)
    BY <1>2, <2>2 DEF ReadOwner, Dispatch, Release
  <2>3. CASE TryPop(t)
    <3>1. CASE jobQueue = <<>>
      BY <1>2, <2>3, <3>1 DEF TryPop
    <3>2. CASE jobQueue # <<>>
      BY <1>3, <2>3, <3>2 DEF Serial!Next
    <3> QED
      BY <3>1, <3>2
  <2>4. CASE EndJob(t)
    BY <1>4, <2>4 DEF Serial!Next
  <2> QED
    BY <1>7, <2>1, <2>2, <2>3, <2>4 DEF Continue
<1>8. CASE UNCHANGED vars
  BY <1>2, <1>8 DEF vars
<1> QED
  BY <1>5, <1>6, <1>7, <1>8 DEF Next

\* A JobQueue runs the jobs pushed to it from any thread one at a time, each
\* once and in the order of the pushes.
THEOREM Refinement == Spec => ImplementsSerialExecutor
<1>1. Init => Serial!Init
  BY DEF Init, Serial!Init, Running
<1> QED
  BY <1>1, Invariance, StepRefines, PTL
  DEF Spec, ImplementsSerialExecutor, Serial!Spec
=============================================================================
