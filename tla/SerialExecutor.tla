--------------------------- MODULE SerialExecutor ---------------------------
(***************************************************************************)
(* What a JobQueue promises its users (Room, AuthLobby): the jobs pushed   *)
(* from any thread run one at a time, each exactly once, in the order in   *)
(* which they were pushed.  Room keeps its maps without a lock because of  *)
(* this promise.  There is no promise that a job ever starts: see JobQueue *)
(* for the conditional one the code does give.                             *)
(***************************************************************************)
EXTENDS Naturals, Sequences

CONSTANT Jobs

VARIABLES pending,  \* the jobs pushed and not started, oldest first
          running   \* the jobs being executed: at most one

vars == <<pending, running>>

Outstanding == {pending[i] : i \in 1..Len(pending)} \cup running

Init == pending = <<>> /\ running = {}

\* A thread pushes a new job, possibly from inside the running one.
Submit(j) ==
  /\ j \notin Outstanding
  /\ pending' = Append(pending, j)
  /\ UNCHANGED running

\* The oldest job starts, and only when no job is running.
Begin ==
  /\ running = {}
  /\ pending # <<>>
  /\ running' = {Head(pending)}
  /\ pending' = Tail(pending)

End ==
  /\ running # {}
  /\ running' = {}
  /\ UNCHANGED pending

Next == (\E j \in Jobs : Submit(j)) \/ Begin \/ End

Spec == Init /\ [][Next]_vars
=============================================================================
