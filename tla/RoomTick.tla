------------------------------ MODULE RoomTick ------------------------------
(***************************************************************************)
(* The Timer thread (Timer.cpp) and what the rooms reserve at it: the tick *)
(* by which Room::Update calls itself again, and the hits that attacks     *)
(* reserve while the objects are updated (Room::CharacterAttack).          *)
(*                                                                         *)
(* The first Update of a room is called by InitRoom on the thread that     *)
(* creates the room, the others are jobs of the room's queue; so a room    *)
(* has two threads that can be in Update.  Time is a bounded clock that    *)
(* passes between any two steps.                                           *)
(***************************************************************************)
EXTENDS Integers, Sequences, FiniteSets

CONSTANTS
  Rooms,
  Period,     \* the 100 ms between ticks
  HitDelays,  \* hitDelayMs of the skills
  IdleWait,   \* how long the timer waits on an empty queue, 1000 ms
  MaxTime     \* bound: the clock stops here

ASSUME RoomTickAssumption ==
  /\ Period \in Nat \ {0} /\ IdleWait \in Nat \ {0} /\ MaxTime \in Nat
  /\ HitDelays \subseteq Nat

Updaters == {"init", "job"}

VARIABLES
  clock,       \* steady_clock::now()
  timerQueue,  \* _timerQueue, a priority queue: a set of items
  timerAt,     \* the timer thread: "top", "wait", or "push" with the lock held
  now,         \* now of Timer::Run
  waitUntil,   \* executeTime of Timer::Run
  readyJobs,   \* readyJobs of Timer::Run
  roomJobs,    \* room -> the timer's items in its job queue
  serving,     \* room -> "on" while a worker is on its job queue, "drained"
               \* once it found it empty, "off" when _isProcessing is false
  at,          \* room -> updater -> where it is in Update
  tick,        \* room -> updater -> currentTick of Update
  since,       \* room -> updater -> elapsedTime, the argument of Update
  item,        \* room -> updater -> the item that its Reserve is to push
  simulated    \* room -> the sum of the dt its objects were updated with

vars == <<clock, timerQueue, timerAt, now, waitUntil, readyJobs, roomJobs, serving,
          at, tick, since, item, simulated>>

timerVars == <<timerAt, now, waitUntil, readyJobs>>
updateVars == <<at, tick, since, item, simulated>>

Times == 0..MaxTime
Items == [room : Rooms, job : {"tick", "hit"}, time : Nat, arg : Times]
NoItem == [room |-> "none"]
Places == {"idle", "reserve", "insert", "objects", "insertHit"}

TypeOK ==
  /\ clock \in Times
  /\ timerQueue \subseteq Items
  /\ timerAt \in {"top", "wait", "push"}
  /\ now \in Times /\ waitUntil \in Nat
  /\ readyJobs \in Seq(Items)
  /\ roomJobs \in [Rooms -> Seq(Items)]
  /\ serving \in [Rooms -> {"on", "drained", "off"}]
  /\ at \in [Rooms -> [Updaters -> Places]]
  /\ tick \in [Rooms -> [Updaters -> Times]]
  /\ since \in [Rooms -> [Updaters -> Times]]
  /\ item \in [Rooms -> [Updaters -> Items \cup {NoItem}]]
  /\ simulated \in [Rooms -> Nat]

\* CreateRoom calls InitRoom, which calls Update with the time of the call.
Init ==
  /\ clock = 0
  /\ timerQueue = {} /\ timerAt = "top" /\ now = 0 /\ waitUntil = 0
  /\ readyJobs = <<>>
  /\ roomJobs = [r \in Rooms |-> <<>>] /\ serving = [r \in Rooms |-> "off"]
  /\ at = [r \in Rooms |-> [u \in Updaters |->
             IF u = "init" THEN "reserve" ELSE "idle"]]
  /\ tick = [r \in Rooms |-> [u \in Updaters |-> 0]]
  /\ since = [r \in Rooms |-> [u \in Updaters |-> 0]]
  /\ item = [r \in Rooms |-> [u \in Updaters |-> NoItem]]
  /\ simulated = [r \in Rooms |-> 0]

Pass ==
  /\ clock < MaxTime
  /\ clock' = clock + 1
  /\ UNCHANGED <<timerQueue, timerVars, roomJobs, serving, updateVars>>

-----------------------------------------------------------------------------
(* Timer::Run.                                                             *)

\* The earliest time of a queue, or what the timer waits with an empty one.
Earliest(queue, otherwise) ==
  IF queue = {} THEN otherwise
  ELSE CHOOSE t \in {i.time : i \in queue} : \A i \in queue : t <= i.time

Peek ==
  /\ timerAt = "top"
  /\ now' = clock
  /\ waitUntil' = Earliest(timerQueue, clock + IdleWait)
  /\ timerAt' = "wait"
  /\ UNCHANGED <<clock, timerQueue, readyJobs, roomJobs, serving, updateVars>>

\* The orders in which a priority queue may give up the items of a set.
Sorted(ready) ==
  {s \in [1..Cardinality(ready) -> ready] :
     /\ \A i, j \in DOMAIN s : s[i] = s[j] => i = j
     /\ \A i, j \in DOMAIN s : i < j => s[i].time <= s[j].time}

TakeReady_DropsRest ==
  /\ timerAt = "wait"
  /\ timerQueue # {} \/ clock >= waitUntil
  /\ readyJobs' \in Sorted({i \in timerQueue : i.time <= now})
  /\ timerQueue' = {}
  /\ timerAt' = "push"
  /\ UNCHANGED <<clock, now, waitUntil, roomJobs, serving, updateVars>>

\* The wait ends when the queue is not empty or the time has come.  Under the
\* lock the thread takes all that was ready when it read the clock.
TakeReady ==
  /\ timerAt = "wait"
  /\ timerQueue # {} \/ clock >= waitUntil
  /\ LET ready == {i \in timerQueue : i.time <= now} IN
     /\ readyJobs' \in Sorted(ready)
     /\ timerQueue' = timerQueue \ ready
  /\ timerAt' = "push"
  /\ UNCHANGED <<clock, now, waitUntil, roomJobs, serving, updateVars>>

\* A push that finds _isProcessing set posts nothing (RegisterJobs).
Register(r) ==
  serving' = [serving EXCEPT ![r] = IF @ = "off" THEN "on" ELSE @]

\* Mutant: one job per turn, the others forgotten.
PushReady_First ==
  /\ timerAt = "push"
  /\ timerAt' = "top"
  /\ readyJobs' = <<>>
  /\ \/ /\ readyJobs # <<>>
        /\ roomJobs' = [roomJobs EXCEPT
             ![Head(readyJobs).room] = Append(@, Head(readyJobs))]
        /\ Register(Head(readyJobs).room)
     \/ readyJobs = <<>> /\ UNCHANGED <<roomJobs, serving>>
  /\ UNCHANGED <<clock, timerQueue, now, waitUntil, updateVars>>

\* The lock is held until the last ready job has been pushed.
PushReady ==
  /\ timerAt = "push"
  /\ \/ /\ readyJobs # <<>>
        /\ roomJobs' = [roomJobs EXCEPT
             ![Head(readyJobs).room] = Append(@, Head(readyJobs))]
        /\ Register(Head(readyJobs).room)
        /\ readyJobs' = Tail(readyJobs)
        /\ UNCHANGED timerAt
     \/ /\ readyJobs = <<>>
        /\ timerAt' = "top"
        /\ UNCHANGED <<roomJobs, serving, readyJobs>>
  /\ UNCHANGED <<clock, timerQueue, now, waitUntil, updateVars>>

-----------------------------------------------------------------------------
(* Room::Update by updater u.                                              *)

Goto(r, u, place) == at' = [at EXCEPT ![r][u] = place]

ReserveTick_AtOnce(r, u) ==
  /\ at[r][u] = "reserve"
  /\ item' = [item EXCEPT ![r][u] =
       [room |-> r, job |-> "tick", time |-> clock, arg |-> tick[r][u]]]
  /\ Goto(r, u, "insert")
  /\ UNCHANGED <<clock, timerQueue, timerVars, roomJobs, serving, tick, since,
                 simulated>>

\* ReserveJob reads the clock on its own.
ReserveTick(r, u) ==
  /\ at[r][u] = "reserve"
  /\ item' = [item EXCEPT ![r][u] =
       [room |-> r, job |-> "tick", time |-> clock + Period, arg |-> tick[r][u]]]
  /\ Goto(r, u, "insert")
  /\ UNCHANGED <<clock, timerQueue, timerVars, roomJobs, serving, tick, since,
                 simulated>>

Insert(r, u) ==
  /\ at[r][u] \in {"insert", "insertHit"} /\ timerAt # "push"
  /\ timerQueue' = timerQueue \cup {item[r][u]}
  /\ item' = [item EXCEPT ![r][u] = NoItem]
  /\ \/ at[r][u] = "insert" /\ Goto(r, u, "objects")
     \/ at[r][u] = "insertHit" /\ Goto(r, u, "idle")
  /\ UNCHANGED <<clock, timerVars, roomJobs, serving, tick, since, simulated>>

\* The objects are updated with dt, and one of them may attack.
UpdateObjects(r, u) ==
  /\ at[r][u] = "objects"
  /\ simulated' = [simulated EXCEPT ![r] = @ + (tick[r][u] - since[r][u])]
  /\ \/ Goto(r, u, "idle") /\ UNCHANGED item
     \/ \E delay \in HitDelays :
          /\ item' = [item EXCEPT ![r][u] = [room |-> r, job |-> "hit",
                        time |-> clock + delay, arg |-> tick[r][u]]]
          /\ Goto(r, u, "insertHit")
  /\ UNCHANGED <<clock, timerQueue, timerVars, roomJobs, serving, tick, since>>

\* The room's queue runs its next job: Update reads the clock first.
RunJob(r) ==
  /\ serving[r] = "on" /\ at[r]["job"] = "idle" /\ roomJobs[r] # <<>>
  /\ roomJobs' = [roomJobs EXCEPT ![r] = Tail(@)]
  /\ \/ /\ Head(roomJobs[r]).job = "tick"
        /\ tick' = [tick EXCEPT ![r]["job"] = clock]
        /\ since' = [since EXCEPT ![r]["job"] = Head(roomJobs[r]).arg]
        /\ Goto(r, "job", "reserve")
     \/ /\ Head(roomJobs[r]).job = "hit"
        /\ UNCHANGED <<at, tick, since>>
  /\ UNCHANGED <<clock, timerQueue, timerVars, serving, item, simulated>>

\* The failing try_pop, and then the release of the flag.  Neither looks again:
\* what is pushed between the two is not announced.
Leave(r) ==
  /\ \/ /\ serving[r] = "on" /\ at[r]["job"] = "idle" /\ roomJobs[r] = <<>>
        /\ serving' = [serving EXCEPT ![r] = "drained"]
     \/ /\ serving[r] = "drained"
        /\ serving' = [serving EXCEPT ![r] = "off"]
  /\ UNCHANGED <<clock, timerQueue, timerVars, roomJobs, updateVars>>

\* A client's packet pushes a job of its own, which touches nothing here; it is
\* no item of the timer, but it may find the flag off.  Clients come to a room
\* when InitRoom has returned.
PacketPushes(r) ==
  /\ at[r]["init"] = "idle" /\ serving[r] = "off" /\ Register(r)
  /\ UNCHANGED <<clock, timerQueue, timerVars, roomJobs, updateVars>>

TimerRun == Peek \/ TakeReady \/ PushReady

Update(r) ==
  \/ \E u \in Updaters : ReserveTick(r, u) \/ Insert(r, u) \/ UpdateObjects(r, u)
  \/ RunJob(r) \/ Leave(r) \/ PacketPushes(r)

Next == Pass \/ TimerRun \/ \E r \in Rooms : Update(r)

Spec == Init /\ [][Next]_vars

\* Time passes, the timer thread runs, and a worker that has been posted goes on
\* with the queue until it has released it.  No client has to send anything.
Fairness ==
  /\ WF_vars(Pass) /\ WF_vars(TimerRun)
  /\ \A r \in Rooms : WF_vars(RunJob(r) \/ Leave(r))
  /\ \A r \in Rooms, u \in Updaters :
       /\ WF_vars(ReserveTick(r, u) \/ UpdateObjects(r, u))
       /\ SF_vars(Insert(r, u))

FairSpec == Spec /\ Fairness

-----------------------------------------------------------------------------
(* Properties *)

OnTheWay(r) ==
  timerQueue \cup {readyJobs[i] : i \in 1..Len(readyJobs)}
    \cup {roomJobs[r][i] : i \in 1..Len(roomJobs[r])}
    \cup {item[r][u] : u \in Updaters}

Ticks(r) == {i \in OnTheWay(r) \ {NoItem} : i.room = r /\ i.job = "tick"}

\* A room always has exactly one next tick: one of its updaters is about to
\* reserve it or it is on the way, and never both or twice (Room.cpp:50 reserves
\* before anything else).
OneNextTick ==
  \A r \in Rooms :
    Cardinality(Ticks(r))
      + Cardinality({u \in Updaters : at[r][u] = "reserve"}) = 1

\* The Update that InitRoom calls runs outside the job queue; a tick can overlap
\* with it, but only if it takes a whole period.
OverlapOnlyIfInitIsSlow ==
  \A r \in Rooms :
    at[r]["init"] # "idle" /\ at[r]["job"] # "idle" => clock >= Period

\* What came between the failing try_pop and the release waits in the queue, and
\* no worker will come for it until somebody pushes again.
Stranded(r) == serving[r] = "off" /\ roomJobs[r] # <<>>

\* Every job whose time comes reaches its room and is run, and the room goes on
\* ticking: in the end what is on the way is due only after the clock's bound,
\* and a tick is among it.  The only thing that stops a room is that its queue
\* stays stranded: then the tick, if it is there, reserves no other
\* (Room.cpp:50), and the room stands still until a client sends something.
ReservedJobsRun ==
  \A r \in Rooms :
    \/ <>[](/\ Ticks(r) # {}
            /\ \A i \in OnTheWay(r) \ {NoItem} : i.room = r => i.time > MaxTime)
    \/ <>[]Stranded(r)
=============================================================================
