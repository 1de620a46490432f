# A verification project for the Simple-MMO server

TLA+ models of the game server under `src/Server/Server/Server/`, of the tool that
builds its navigation meshes and of the library both use, the TLC configurations
that check them on small instances, and TLAPS proofs of the results that matter
most. Unless a path says otherwise, file names are relative to that directory;
`Recast*.cpp` and `Detour*.cpp` are under `src/Server/Server/ThirdParty/`. The
repository has no tests and almost no documentation (its README is two lines), so
the code, with its comments, is the reference.

## 1. The system

A Windows server on an I/O completion port. `main` (gameserver.cpp) starts the
listener, one timer thread, six database threads, the first room, the lobby, and
one worker thread per core, each of which serves the port for ever
(`IocpCore::Dispatch`). Sessions, the listener and the job queues are
`IocpObject`s: whatever completes on the port is dispatched to the event's owner.

| Component | State it keeps | Operations | Interacts with |
|---|---|---|---|
| `JobQueue` | queue of jobs, `_isProcessing`, one reusable `JobEvent` | `Push`, `RegisterJobs`, `Dispatch`, `ExecuteJobs` | posted to the port by any thread, drained by a worker |
| `IocpCore` | the completion port | `Register`, `Dispatch` | copies the owner from the event and calls it |
| `Timer` | priority queue of (time, job queue, job) under a mutex | `Reserve`, `Run` | pushes due jobs to rooms |
| `Listener`, `ServerService` | one pending accept, session table, next id | `RegisterAccept`, `ProcessAccept`, `CreateSession`, `AddSession`, `ReleaseSession` | makes sessions |
| `Session`, sending | send queue, `_sendRegistered`, one `SendEvent` | `Send`, `RegisterSend`, `ProcessSend` | called by every thread that has something to tell; kernel completes |
| `Session`, receiving | `RecvBuffer` and its two positions, one `RecvEvent` | `RegisterRecv`, `ProcessRecv`, `ProcessData` | hands packets to `PacketHandler` |
| `Session`, life | `_connected`, `_currPlayer`, id | `OnConnected`, `Disconnect` | `ServerService`, the player's room |
| `PacketHandler` | none | one handler per packet | pushes jobs to the database, to rooms; `RoomManager` |
| `DatabaseWorker` | job queue with a condition variable, pool of connections | `Run`, `TryLogin`, `TrySignUP`, `SavePlayerData` | pushes the outcome to the lobby |
| `AuthLobby` | a job queue | `OnLoginSuccess`, `OnLoginFailed` | called back by the database threads |
| `RoomManager` | rooms, a lock | `CreateRoom`, `EnterPlayer` | pushes the entry to a room |
| `Room`, `GameMap` | objects, players, monsters, grid and index, view lists | entry, leave, movement, `UpdateView`, `Update` | all in its job queue; sends to sessions; reserves at the timer |
| `Monster`, combat | state machine, path, target, hp, reserved hits | `Update`, `OnDamaged`, `CharacterAttack`, `ExecuteSkillHit`, `ApplyDelayedDamage` | jobs and ticks of its room |
| `NavmeshManager` over Detour | the navigation mesh, the query's pool of nodes and open list | `LoadNavMesh`, `FindPath`, `RayCast`, `CanMove`, `GetRandomPosition` | called in the room's jobs |
| `NavGenerator` over Recast | height field, compact field, regions, contours, polygons | `RecastNavMesh::Build` | an offline tool; its file is what `LoadNavMesh` reads |

Besides: `STRESS`, a load generator with a window.

### What is hard about it

* *Serial execution without a lock.* Rooms and the lobby keep their maps
  unprotected and rely on `JobQueue` to run their jobs one at a time. The queue is
  lock-free around one flag and one event object that is used again and again.
* *The same pattern once more, by hand,* in the sending half of `Session`, with
  a kernel that may refuse or fail a send, and a session that is closed by
  whichever thread first notices.
* *A byte stream cut anywhere,* parsed in place in a buffer that is compacted.
* *Views kept by differences.* Who sees whom is updated on both sides at each
  entry, move and leave, with monsters put to sleep and woken on the way; nothing
  recomputes it.
* *A connection is shared before it is finished.* The accepting thread goes on with
  a session that others already receive and close; a login passes from the
  receiving thread to one of six database threads, to the lobby, to the
  handler, to the manager and to the room, while `Disconnect` may come from any
  thread at any time.
* *Time.* The tick reserves its successor, the timer compares with a time it
  read earlier, hits are reserved and land in a world that has moved on.
* *Geometry in steps that must fit.* The generator hands the ground from one
  representation to the next five times, each step local, each border treated
  from its two sides apart; the server then searches the result with a
  heap, a pool of nodes that may run out, and a tree of quantised boxes.

PROJECT.json lists each of these hazards at its line, with the properties that
guard it.

## 2. The modules

| Module | Models | Atomic step | Checked by | Proved in |
|---|---|---|---|---|
| `SerialExecutor` | what a job queue promises: FIFO, one job at a time, each once | | through `JobQueue` | |
| `JobQueue` | JobQueue.h, JobQueue.cpp, `IocpCore::Dispatch` | one shared access | `jobqueue` | `JobQueueProofs` |
| `OutputStream` | what a session's output promises: in order, each at most once, no gap while open | | through `SessionSend` | `SessionProofs` |
| `SessionSend` | Session.cpp 58-86, 173-236 and the kernel behind `WSASend` | one shared access | `send` | `SessionProofs` |
| `SessionRecv` | Session.cpp 88-171, RecvBuffer.cpp | one call of `ProcessData`'s loop | `recv`, `recv_framing` | `SessionProofs` |
| `Listener` | Listener.cpp, ServerService.cpp, `OnConnected`, `Disconnect` | one line with a shared access | `front_door` | `FrontDoorProofs` |
| `DatabaseWorker` | DatabaseWorker.cpp, DBConnectionPool.cpp, `ConcurrentQ` | one locked section or statement | `front_door` | `FrontDoorProofs` |
| `FrontDoor` | the two composed, with the handlers of CS_SIGNUP and CS_LOGIN and AuthLobby.cpp | one line with a shared access | `front_door` | `FrontDoorProofs` |
| `RoomEntry` | PacketHandler.cpp, `TryLogin`, AuthLobby.cpp, Room.cpp 423-457, `Disconnect` | one shared access | `entry` | `RoomEntryProofs` |
| `RoomView` | GameMap.cpp, Room.cpp 60-179 and 270-403, the flags of Monster.cpp | one job of the room | `room_view` | `RoomViewProofs` |
| `RoomTick` | Timer.cpp, Timer.h, Room.cpp 42-58 | one locked section or shared access | `tick` | `RoomTickProofs` |
| `MonsterAI` | Monster.cpp, Character.cpp, CombatProcessor.cpp, Room.cpp 228-293 | one job of the room | `monster`, `projectile` | `MonsterAIProofs` |
| `Loops` | loops and folds as functions, for the modules below | | | |
| `Heightfield` | RecastRasterization.cpp, RecastFilter.cpp, `rcBuildCompactHeightfield` | one triangle, one filter | `nav_generator` | `NavigationProofs` |
| `Regions` | RecastArea.cpp's erosion and RecastRegion.cpp's distance field, watershed, merging | operators | `nav_generator` | |
| `Contours` | RecastContour.cpp: walking, simplifying, holes | operators | `nav_generator` | |
| `PolyMesh` | RecastMesh.cpp: triangulation, merging, adjacency | operators | `nav_generator` | |
| `NavGenerator` | `RecastNavMesh::Build` | one call of Recast | `nav_generator` | |
| `DetourCommon` | DetourCommon.h and .cpp as far as used | operators | `navmesh` | |
| `NavMesh` | `dtCreateNavMeshData`, `addTile` and what they build | operators | `navmesh` | |
| `NavMeshQuery` | `findNearestPoly`, `findStraightPath`, `raycast`, `findRandomPoint` | operators | `navmesh` | |
| `BestFirstSearch` | what a search promises, without pool, heap and geometry | | through `PathSearch` | `NavigationProofs` |
| `PathSearch` | `dtNavMeshQuery::findPath`, `dtNodePool`, `dtNodeQueue` | one turn of the loop | `navmesh` | `NavigationProofs` |
| `NavmeshManager` | NavmeshManager.cpp and `GameMap`'s bounds | one query, one turn of the search | `navmesh` | |

Each run has a module `MC...` that makes its component ready for TLC (model values
or, for the two geometric runs, the maps). Operators named `Def_Something` with a
comment that begins with "Mutant:" are not used by the specifications: they are
`Def` with a plausible bug, and show that a property notices it.

**How they fit together.** `JobQueue` implements `SerialExecutor`
(`ImplementsSerialExecutor`, checked and proved), and this is what lets `RoomView`,
`MonsterAI`, `NavmeshManager`, and the jobs in `RoomEntry`, `FrontDoor` and `RoomTick`
take a whole job, or a lobby's queue, for what it says it is. `SessionSend` implements
`OutputStream` (`ImplementsOutputStream`, checked and proved), which is why
`RoomView` and `MonsterAI` may take what clients are told for what was sent, in order, as
long as the session is open. `RoomView` shows that
view lists are mutual and that a monster sleeps exactly when unwatched; `MonsterAI`
relies on both for its `viewers`. What a `JobQueue` does not promise is that it gets round
to a job at all: what is pushed between its failing `try_pop` and its release
(JobQueue.h:32-37) waits for the next push. `RoomTick`, `RoomEntry` and `FrontDoor`, which
have liveness properties about a queue, therefore each have this window, and their
properties except just what stays stranded in it.
`FrontDoor` EXTENDS `DatabaseWorker`, which EXTENDS `Listener`: one state,
interleaved line by line. `RoomEntry` takes the front door's outcomes and goes on to
the rooms; it has several player objects per session where `FrontDoor` has one
flag. `PathSearch` implements `BestFirstSearch` (`SearchImplementsBestFirst`, checked
and proved) and so has what is proved of it; `NavmeshManager` gives it its tile, its
geometry and its ends. The meshes of `navmesh` are three that
`nav_generator` builds, so the two halves are checked on the same ground.

### Correspondence with the code

*JobQueue.* `isProcessing` is `_isProcessing`, `ownerSet` says that
`_jobEvent._owner` is not null, `posted` counts the event's completions in the
port, `pc` and `job` are the threads' stacks. `RegisterJobs` is the
compare-and-swap, `ArmEvent` the `Init` and the owner, `PostEvent`
`PostQueuedCompletionStatus`; `GetCompletion` and `ReadOwner` are the two halves
of `IocpCore::Dispatch`, `TryPop` and `Release` the loop of `ExecuteJobs`. A job
may itself push to the queue, so a thread may register while it executes. Job
identities are used again once run, so no counter is needed.

*SessionSend.* `sendQueue`, `registered`, `sendBuffers`, `ownerSet` are the
fields; `inKernel`, `completion`, `broken` and `wire` the kernel and the peer.
`GatherOne` is one turn of the loop that moves a message from the queue into the
event. `bytes` is the `numOfBytes` the completion reported. `pushed` is a history of
the pushes. A disconnect on the receiving side (`ReceiveDisconnects`) may come at
any time. As an `OutputStream`, the session's queue is what is in the event and not yet
transmitted, followed by `sendQueue`; it is failing from the failed send to the
`Disconnect` that follows it. `pushOnly` of `Send` is never true in this program and is left
out.

*SessionRecv.* A byte is its position in the client's stream, so that "the right
byte at the right place" can be said; `readPos` and `writePos` are the buffer's
fields. What stale or foreign bytes read as when they are taken for a header is any
of `JunkSizes`. The overlapping `memcpy` of `CleanCheck` is taken to copy
correctly, as the C runtime this project is built with does.

*RoomView.* `grid` and `id2CellPos` are GameMap's two maps, `viewList[a][b]`
counts the occurrences of `b` in `a`'s `_viewList`, `shown[p][o]` what `p`'s
client has been told (additions less removals). A move picks the new cell freely; positions inside a
cell do not matter to the code modelled. There is one `Player` object per id: what
a second login does is the subject of `RoomEntry`.

*RoomEntry.* `PlayerObjects` are the objects `OnLoginSuccess` makes, numbered per
session, as a second login makes another; `ownerRoom` is `_ownerRoom`. The thread inside
`EnterPlayer`, which has the manager's lock, asks the rooms one after the other, while
players come and go in them; `full` are those it has found full, `entering` is the player
and the room it has come to. `closing` are the steps of `Disconnect`. `stranded[r]` says
that jobs came to a room's queue while it was being left, so that nobody runs them until
somebody pushes another (`PushOther`, which no fairness demands). Packets may be handled after the disconnect, as one receive can hold
several. Concurrent access to `_currPlayer` and `_ownerRoom` (plain `shared_ptr`s)
is taken to be atomic.

*RoomTick.* `timerQueue`, `now`, `readyJobs` and the timer thread's place are
`Timer::Run`; `at`, `tick` and `since` are the two possible callers of
`Room::Update` (InitRoom's thread and the job), `simulated` is the time up to
which the objects have been updated. `serving` is the room's `_isProcessing` with its
worker: "on" while it runs jobs, "drained" between the failing `try_pop` and the
release, "off" after it; a push posts a worker only when it finds "off" (`Register`).
`PacketPushes` is a client's job, which does nothing here but take the flag. The weak pointers to job queues always lock, since
no room is ever removed. The `dt` of the first `Update` is taken to be zero: the
two clock readings differ by less than a tick of the model.

*MonsterAI.* The record `monster` holds the Monster's fields; methods that only
change the monster are operators from monster to monster, so that the order of
the calls in the code can be read off their composition. What depends on distances,
paths or cooldowns is a set of outcomes (`UpdatePatrol`, `UpdateTrace`, ...).
`running` is the set of clients whose last news of the monster was that it runs.

*Listener, DatabaseWorker, FrontDoor.* A session is a fresh object that is used
once; `accept[s]` is the line of `ProcessAccept` its thread is at, `closing[s]` the
line of `Disconnect` after the exchange of `_connected`, `sessions` the service's
table. From `FirstRecv` on, other threads receive and close the session while the
accepting thread goes on to `RegisterAccept`. `worker[w]` is where a database
thread is: asleep in the condition variable's wait, about to test the queue, or at
a line of its job; the test and the wait are one step under the mutex, `NotifyOne`
is the `notify_one` after the lock is released. `pool` is `_connectionQueue` and
`conn[w]` the `dbConn` a job holds. A name stands for an id with its password. A
failing `Execute` is a free choice, and so is a `Fetch` that fails after it
(DBConnection.cpp:53-56), which `TryLogin` cannot tell from an unknown id ("unfetched"); a
sign-up makes its account visible at one instant or not at all. `failed` is a history of
the sessions of which a statement has failed, executed or fetched. `lobbyAt` is "off" until
the lobby has its first job, then the line of its worker, and "left" when an answer was pushed
while the queue was being left; the next push ends that. Dereferencing null ends the process
(`crashed`).

*Heightfield, Regions, Contours, PolyMesh, NavGenerator.* `step` is the call of
`RecastNavMesh::Build` that comes next, and each variable what that call leaves for
those after it. A column is the set of its spans, since their order is the order of
their heights; the compact field is then the arrays of the code, in their order, as
the flood and the walks depend on it. A triangle is given by what `dividePoly` makes of
it: the lowest and highest point over each cell it touches, in half cells so that
rounding matters. Squared distances in `Contours` are fractions.

*DetourCommon, NavMesh, NavMeshQuery, PathSearch, NavmeshManager.* Points are on a
lattice of 5 cm, and what the code rounds to a float (a projection, a distance, a
height) is rounded to the lattice; the parameter of a ray is an exact fraction.
The tile is `dtCreateNavMeshData`'s, with its bounding tree in quantised coordinates,
escape offsets included. In place of the detail mesh a polygon has the fan of its
first vertex. `nodes` is `m_nodePool`, `openList` the binary heap with `bubbleUp` and
`trickleDown` (written as recursive functions of a place and a heap), `lastBest` the pair `lastBestNode`, `lastBestNodeCost`; `answer` is
what `FindPath` returns. Positions of characters are the game's and go through
`UeToDetour`. A client says where it is, and the height it gives is tested nowhere
(Room.cpp:146-167; the ray of `CanMove` is two-dimensional): a move goes to any point, on a
floor there or at one of `Heights`. If `CanMove` refuses it, the player stays.

*BestFirstSearch.* `found` and `parent` are the tree of the search, `open` its open
list as a set, `rest` the estimate to the goal, `dropped` says that the pool was
full once. Which node of equal totals is taken is free, as is which improved
neighbour is remembered as the nearest of equal ones.

## 3. What the runs check

| Run | Bounds | Shows |
|---|---|---|
| `jobqueue` | 3 pushers, one of them also a worker; 2 workers; 4 jobs | the serial executor is implemented; the event is never reused in flight nor read without an owner; only the release at the end of `ExecuteJobs` loses a wakeup; what is stranded there runs after the next push |
| `send` | 3 workers, 3 messages | the send event has one owner; the sending half is one output stream, in order and without a gap while the session is open; the one window that loses the wakeup; messages outside it are sent |
| `recv` | buffer of 6, packets of 2, 3, 5 bytes, 4 packets, cut everywhere | reads stay within what was received; the whole stream gets through as long as nothing is shifted |
| `recv_framing` (violation) | as `recv` | see findings |
| `front_door` | 2 sessions, 2 database threads, 1 account, 2 packets | the table holds who is connected; a thread finds a connection and is the only one to use it; the listener comes back to `AcceptEx`; who is answered, unless the answer stays in the lobby's queue for want of a push; when a new account is unknown |
| `entry` | 2 clients, 2 rooms of one player, two logins and entries each, 5 requests together | the complete list of ways to leave a player behind; who is let in once and found by its `Disconnect` is taken out, in the end and for good, unless the room's queue stays stranded with its jobs; the server goes down only for want of a player |
| `room_view` | 2 players, 2 monsters, a strip of 4 cells | views are neighbourhoods; clients show their views; monsters are awake exactly while watched |
| `tick` | 1 room, period 2, clock to 5 | one next tick; when `InitRoom`'s update may overlap the first tick; every reserved job runs and the room goes on ticking, unless its queue stays stranded |
| `monster` | 2 players, 2 points of hp each | sleeping or dead monsters stand still; awake ones act; late hits are fair; one way to tell clients wrong; a dead or destroyed target is given up |
| `projectile` (violation) | 2 players | see findings |
| `nav_generator` | 18 maps of 21 x 11 cells from 6 pieces, rasterised in every order | the order of the triangles does not matter and the columns are their union; ground large enough gets a region, smaller ground none; regions are connected and of one floor; polygons are convex and fill their outlines; the mesh connects what the ground connects |
| `navmesh` | 3 meshes and an empty one, 17 places and 2 heights of no floor, 7 nodes, paths of 5, rays of 8 | the search implements a best-first search; the corridor leads to the goal if anything does; the straight path keeps to it and is no detour; the nearest polygon is the nearest; rays keep to the mesh; accepted moves leave a player where none is accepted only by the height it gave, and never outside the grid |

*Why the bounds are enough.* The races of `JobQueue` and `SessionSend` are between
a thread that leaves, one that pushes and one that starts again: three threads. The
buffer of six bytes can be full, hold a whole packet and a part, or a part only; the
smallest packet is a bare header. At the front door two sessions are one that is
accepted while another closes, two threads are one that overtakes another, two packets
are a sign-up and a login; the safety properties are proved for any number. In
`entry`, two rooms of one player make the manager look further and create a room, and a
second login and entry is all it takes to have two objects of one id; with five requests
one client may do everything twice while the other logs in, or both may log in and enter and
one of them do either once more. Four cells in a
row are the shortest strip with two cells whose neighbourhoods are disjoint and moves of
distance 1, 2 and 3; the neighbourhood code treats the two directions alike, and
the proofs cover every grid. Two and a half periods are enough for a tick, its
successor, and a stall that swallows one. Two players are enough for a monster to lose one
viewer and gain another. The six pieces of a map give the generator ground of one
region and of several, in contact and apart, a hole in an outline, two floors in one
column, a ramp that joins them, steps too high, ground too small for a region
and none at all. Seven nodes are too few for some searches and enough for
others, paths of five points too short for some corridors, so that each
buffer's end is reached; the meshes are joined, divided, on two floors, and empty. Of the
two heights one is near the ground and one out of the reach of every query.

*Deadlock.* All configurations but `navmesh` say `CHECK_DEADLOCK FALSE`: the
models may rightly stop, as nobody is obliged to push or to send, the clock and the
client's requests are bounded, a connection closes, a build ends, and a crashed server
does nothing. In `navmesh` a room can always do something. That nothing stops
which should go on is the subject of the liveness properties.

*Fairness.* A thread that can go on does so (weak fairness per thread): the
operating system schedules all threads, none of which blocks for ever. The
completion port hands out completions in FIFO order, hence strong fairness
of `GetCompletion`: a posted event is dequeued however busy the workers are
with others. A job comes to its end and an attack's `Insert` gets the timer's
mutex even if contended (strong fairness). In `FrontDoor` a database thread that
is awake, the lobby, an accept, a receive or a close that has begun goes on (weak);
statements and sends may fail every time. Clients are not obliged to do anything. A worker
that is on the queue of a room or of the lobby goes on until it releases it (weak fairness
of `RunRoom`, `RunJob \/ Leave` and `Lobby`). What comes while it is leaving is not served
by that, and nothing is fair to the push that would rescue it: not a client's packet, and
not the tick, which is reserved only when the tick before it runs (Room.cpp:50) and so may
be what is stranded. Hence the exception `<>[]` stranded in `ReservedJobsRun`,
`LeaverDisappears` and `LoginsAreAnswered`. `MonsterAI` assumes only
that decisions come due, every fifth tick. The two geometric runs have no fairness
and no liveness: a build and a search end by their shape.

## 4. What is proved

TLAPS checks the following for every value of the constants that the named
assumptions allow: every safety property of the runs but those of the built mesh and
the other queries on it. The type invariants are proved and not run. Also without a run of
their own: `MutualExclusion` (follows from `ImplementsSerialExecutor`),
`NothingLostWhileOpen` and `SentInOrder` (follow from `ImplementsOutputStream`),
`GarbledOnlyAfterShift`, `NothingWholeWaits`, `NoneSleepsThroughWork`, `TimeIsExact`,
`GridMatchesIndex`, `ConnectionsAreMutual` and `WalkableIsSafe`, and what is said of
`BestFirstSearch`; TLC has agreed to each of them before it was proved.

*JobQueueProofs.* `TypeCorrectness`, `MutualExclusionHolds`,
`EventNotReusedHolds`, `StrandedOnlyByReleaseHolds`,
`Refinement`. The assumption is that `NoJob` is no job. `_isProcessing` is a token:
while it is on, the token is in exactly one place, with one thread or in the port as
the posted event (`TokenInv`). That is what `MutualExclusion` lacks to be inductive.
`JobWhere` ties a thread's job to its program counter and `OwnerInv` follows the event's
owner from where it is armed to where it is read. The refinement maps the queue to
`pending` and the jobs inside `Execute` to `running`.

*SessionProofs, sending.* `TypeCorrectness`, `EventExclusiveHolds`,
`StrandedOnlyByUnregisterHolds`, `Refinement`, `SentInOrderHolds`,
`NothingLostWhileOpenHolds`, from `NoMsg` being no message. `_sendRegistered` is a
token as well, with one place more: with a worker (`Holds`), in the kernel, or in the
port (`TokenInv`). `OwnerInv` and `BuffersInv` say where the event has its owner and
its buffers. Then each step is one of `OutputStream` (`StepRefines`): a push, a delivery
when the kernel completes, a failure when a send is refused or comes back with zero
bytes, a closing, or nothing, as when a message moves from the queue to the event
(`MoveHead`). Order and completeness are proved of the abstract steps (`OutputStep`):
what is on the wire and in the queue embeds in what was pushed, and is all of it while
the state is open.

*SessionProofs, receiving.* `ParseSafeHolds`, `RecvTypeCorrectness`,
`GarbledOnlyAfterShift`, `NothingWholeWaitsHolds`, for every buffer size, every set of
packet and junk sizes and every cut. The invariant says how the positions and the rest to be parsed relate at each
place of the code. Packets may be garbled (see findings), but what is read has always been
received, and a packet is garbled only after `CleanCheck` has shifted a rest. The
latter needs that packets lie end to end in the stream: an induction over the number
of packets, done for a set by the library's well-founded order on the naturals. The same
invariant gives that no whole packet is left in the buffer when `ProcessData` ends
(`NothingWholeWaits`); a client that waits for an answer may send nothing more, and a packet
left there would wait for ever.

*FrontDoorProofs.* `TypeCorrectness`, `ConnectionsSufficeHolds`,
`TableHoldsTheConnectedHolds`, `RefusedOnlyIfOvertakenHolds`,
`NoneSleepsThroughWorkHolds`, for any number of sessions, threads and accounts. The pool (`PoolInv`): a thread has a connection just from `Pop` to `Push`, and pool and hands
add up to the number of threads, so a thread that is about to pop leaves one for
itself. The table (`IdInv`, `KnownInv`, `WayInv`): ids are given once, only a session
past `OnConnected` has packets, jobs or answers that can close it, and where a session
is on its way in or out says whether it is in the table. The order
(`SentInv`, `SignUpInv`): a sign-up that was a client's first packet waits with nothing of
the client before it, is under way with a thread, or is through, and what is through has
made its account or failed; so only a sign-up under way can be overtaken by the login.
The wakeups: `Push` unlocks before it notifies, so for a moment a job is queued and nobody
has been woken for it. While a thread sleeps, the jobs are at most as many as the receivers
still to notify and the threads still to test the queue (`NoneSleepsThroughWork`).

*RoomEntryProofs.* `TypeCorrectness`, `LeftBehindOnlyByHolds`,
`CrashOnlyWithoutPlayerHolds`, for every set of sessions and rooms. Each login is in one
place, with the database, in the lobby, or answered (`LoginInv`), so an answer is due only to
who asked, and whoever is in a room, in its queue or on the way to it has a player
(`MadeInv`, `PushInv`): null is dereferenced for nobody else. A ghost depends only on what a
room holds and on the last of the jobs that wait for it, so only the end of `Disconnect` and
the push of an entry can make one, and each of them is one of the three ways (`NewGhostExcused`).

*RoomViewProofs.* `TypeCorrectness`, `GridMatchesIndexHolds`,
`ViewIsNeighbourhoodHolds`, `ClientsShowTheirViewHolds`, `AwakeIffWatchedHolds`, for
every set of players and monsters and every grid. The five are one inductive
invariant together with the type correctness. Every operation is a change of the grid
followed by `UpdateView` with the differences; the lemma `SwapViewsKeeps` says
that if the views were the neighbourhoods before and the differences are those of
the two neighbourhoods, they are again afterwards, once for all three operations.
`NearIsMutual` is why telling both sides suffices.

*RoomTickProofs.* `TypeCorrectness`, `OneNextTickHolds`,
`OverlapOnlyIfInitIsSlowHolds`, `TimeIsExactHolds`, for every set of rooms, period, delays and clock. The
next tick of a room is a token in one of four places, with an updater, in the timer's
queue, among the ready jobs, or in the room's queue (`Token`); each action leaves it or
hands it on. `ClockInv` and `QueueInv` add that nothing leaves the timer before it is
due, so a tick's job cannot begin in the first period. A tick carries the time up to which
the objects have been updated (`TimeIsExact`): what an `Update` under way still has to give
them is counted with what they have had (`Accounted`), and only a new tick changes the sum.

*MonsterAIProofs.* `TypeCorrectness`, `StandsStillHolds`, `AwakeMonsterActsHolds`,
`DamageIsFairHolds`, `ToldWrongOnlyOnHandoverHolds`, for every set of players and all
hit points. The monster's
methods are functions on its record: those that a decision is made of keep it
`Sound`, and `FollowPath`, the last call of a tick, makes it `Settled`, as do a
hit, a wakeup and a sleep. The speed lags behind within a tick, which is why the
weaker `Sound` is needed between the calls. Between two ticks running and having speed are
the same, so the two comparisons of a tick, after the decision and after the path, see every
change, and a blow can only stop the monster (`UpdateShows`, `NPCMoveShows` and the others
follow what each job tells). The monster that is handed over from its last viewer to another
is the one exception.

*NavigationProofs, the columns.* `ColumnsAreUnionHolds`, `ConnectionsAreMutualHolds`,
`WalkableIsSafeHolds`, of `HeightfieldSpec`, for every ground, every set of
triangles in every order and all parameters of the build. (`NavGenerator`'s `Rasterise`
is a step of `HeightfieldSpec`, and its other actions leave the columns and the compact
field alone.) `rcAddSpan`'s loop over a column merges what overlaps and
inserts the rest; the lemmas say that the merged span is the hull of the new one and
those it swallows (`MergedIsHull`), so a column stays separated and the union
of what was added. The filters change areas and never extents (`SameShape`).
In the compact field a span is connected on a side to the one passable span
there (`OnePassable`: with a climb lower than the agent there are never two), and
passable is symmetric.

*NavigationProofs, the search.* `SearchInvHolds`, `SearchRefinement`,
`CorridorIsRightHolds`, `SearchEndsRight`, of `SearchSpec`, for every tile, every number
of nodes, every length of the buffer and any two polygons of the tile. They assume that
distances are natural numbers (`Distances`; in the code they are floats that are never
negative), and `SearchSpec` says what the search needs of the program around it: the tile
is loaded while no search goes on, its links lead to its own polygons, and the two ends are
on two of them. `NavmeshManager` drives the search so: TLC confirms it on the three
meshes of `navmesh` when `SearchSpec` is given to that run as a further PROPERTY. The
argument has four parts.

1. *The heap.* `bubbleUp` and `trickleDown` call themselves for a place of lower rank, so
   they have a value everywhere (`Recursion`, an induction over a set of numbers). Each
   keeps the heap in order but for one gap that moves (`UpOrders`, `DownKeeps`), with the
   nodes it had (`Rearranged`). So `push`, `modify` and `pop` keep a heap of just the
   open nodes (`HeapOf`), provided that a total never rises under `modify`
   (`ModifyMoves`), which is why `findPath` must compare totals first.
2. *The pool.* In the loop over the links of the best node, each link adds a node,
   improves one, finds nothing better or is dropped for want of nodes (`LinkIs`).
   `LoopInv` says what the nodes touched so far have become, and that the best node
   stays closed: it costs no more than whatever is found through it. With the heap this
   is `SearchInv`: one node for a polygon, and a total that is cost and estimate, also
   after a node has been opened again.
3. *The refinement.* `View` reads the variables of `BestFirstSearch` off the pool. A turn
   is `Expand` with the improved nodes, or `Arrive`; the top of the heap is a least of the
   open polygons (`ExpandedImplements`, `ArrivedImplements`).
4. *What the refinement gives.* `NoCycleHolds`, `FoundAllHolds` and `EndsNearestHolds` say
   what holds of every best-first search: the found polygons are a tree whose costs do
   not fall from parent to child (`Rooted`), so a polygon found again at a lower cost is
   never an ancestor of the one it is found through; what is closed has been expanded
   (`Explored`), so a search that gave up with no polygon dropped has seen all that can be
   reached. Without cycles the nodes have a rank (`RankExists`), so the path that
   `getPathToNode` collects is defined, and none is the first to break the rule that it
   is a walk over links without repetition (`TrailsAre`).

*Only model-checked:* all liveness properties (fairness and ENABLED are out of
the prover's reach), and what `nav_generator` says of regions, outlines and polygons and
`navmesh` of the queries other than the search. The operators of those are loops over data, written with
the recursive operators of `Loops`; a theorem about them would be an induction over an
operator, which the provers cannot instantiate (over a set they can, as in
`GarbledOnlyAfterShift` and for the loops of the heap, which are functions). That
`NavmeshManager` is a program as `SearchSpec` wants it stays with TLC for the same reason:
where a query's end lies is one of those operators. `SessionSend`'s empty send is in its model and not forbidden by
any property.

## 5. Findings

* **A shifted receive buffer is misread** (`recv_framing`). `RecvBuffer::CleanCheck`
  zeroes `_readPos` before it assigns `_writePos = DataSize()`, which is computed
  from `_readPos` (RecvBuffer.cpp:41-42). After a receive that ends in the middle of
  a packet, the stale bytes behind the rest are parsed as received.
* **A projectile outlives its shooter** (`projectile`). `Room::ApplyDelayedDamage`
  tests the target for null and not the attacker; if the attacker has left the room
  meanwhile, `Character::OnDamaged` dereferences null (Character.cpp:39).

Other behaviour that a reader should know of is part of the models, and of the
properties that hold of them:

* *Lost wakeups.* `JobQueue` and `Session` can both leave work in a queue that
  nobody is in charge of until the next push (`StrandedOnlyByRelease`,
  `StrandedOnlyByUnregister`). Nothing in the server guarantees that push. A tick that comes
  to a room while its queue is being left, as one may when a hit or a packet comes just before it,
  is not run and reserves no other: the room stands still until a client
  enters it or sends something. In the same way a leave can stay before its room, and the
  answer to a login in the lobby, which has no tick, until somebody else logs in.
  TLC shows each of the three as a counterexample to `ReservedJobsRun`, `LeaverDisappears` and
  `LoginsAreAnswered` without their exception. A `Send` whose message another gathered issues an
  empty send, whose completion closes a healthy connection.
* *A gap in the output.* When `WSASend` refuses a send, RegisterSend drops its messages and
  turns the flag off before it disconnects (Session.cpp:204-207). Another thread may send in
  between, so a peer that is still connected can get a message and not the one before it.
  `OutputStream` allows this (`Fail`, then `Deliver`); the order is kept (`SentInOrder`).
* *Null.* `Disconnect` and `EnterPlayer` dereference `_currPlayer`
  (`CrashOnlyWithoutPlayer`); a first receive that fails at once does so on the accepting
  thread, before any login can have succeeded (Session.cpp:139, 63). `RegisterAccept`
  uses the session of `CreateSession` without a test (Listener.cpp:56-61) and calls
  itself, without a bound, when `AcceptEx` fails.
* *Answers.* A login is not answered if its statement fails or its id is unknown
  (`OnLoginFailed` sends nothing), a sign-up never; an error of `SQLFetch` makes an id
  unknown that exists (DBConnection.cpp:53-56, DatabaseWorker.cpp:98-101); a login can overtake the sign-up sent
  before it (`RefusedOnlyIfOvertaken`). Nothing refuses a second login of one
  account.
* *Ghosts.* The three ways in which a disconnect leaves a player in a room
  (`LeftBehindOnlyBy`), and the monster that seems to run on the spot after a handover
  (`ToldWrongOnlyOnHandover`).
* *The generator.* Ground that is nowhere three spans wide has a distance field of
  0 and the build fails though there is ground. A narrow region by itself gets an
  outline of two points and no polygon (`Sliver`). `walkableSlopeAngle` is set and
  never used; most results of Recast's calls are not looked at; `maxRegions` is one
  too high after `rcBuildRegions`; `mergeRegionHoles` looks at `diags[i].vert`
  where `j` is meant (RecastContour.cpp:771).
* *The mesh.* `findNearestPoly` may answer with a polygon outside the search box, as
  the box is clamped to the tile and the bounding tree has an unfilled node.
  `FindPath` answers a corridor to the nearest polygon like one to the goal. `CanMove`
  accepts ends that are less than 100 cm from where a wall stopped the ray, where the comment
  at NavmeshManager.cpp:150 says 15 cm; the ray is two-dimensional, so the height of
  the end is not tested: a client that once gives a height far from all ground is
  believed, and then no further move of its is accepted (`LostOnlyByHeight`). A server that fails to load the mesh goes on with an empty
  grid (Room.cpp:17).

## 6. Not modelled

* Layout of packets and the tables of skills and characters; the ODBC calls;
  `CS_CHAT` (a broadcast without effect on the state); `SavePlayerData`, which has no
  caller; failures at start other than the mesh's; `Player::Update`, sector and line
  tests of attacks, whose outcome is a free choice in `MonsterAI`; what remains in the
  database when one of a sign-up's three inserts fails, which the server decides.
* Of Recast: the clipping of triangles to cells (given as its result), painting of
  areas, monotone and layered partitions, layers, borders (the tool passes 0, so
  `canRemoveVertex` and `removeVertex` are never reached), and the detail mesh. Heights
  above `RC_SPAN_MAX_HEIGHT` are excluded by `BoxAssumption`. Of the tool: reading the
  map file, `LoadBinFile` and `SaveToObj`.
* Of Detour, what the server never uses: several tiles, off-mesh connections, sliced
  paths, circles, wall distances. What it uses and the models leave out: the filter
  (every polygon has flag 1, which it lets through), the detail mesh, and the hash
  table and tile state of the node pool.
* The STRESS client: its order of packets (login, enter, moves) is one of the
  behaviours `RoomEntry` and `FrontDoor` allow.
* Races on plain `shared_ptr` fields are treated as atomic accesses, and
  failed allocations are left out.

## 7. Plan

Done, in order of importance: the serial executor and `JobQueue`; the two
halves of `Session`; `RoomView`; `RoomEntry`; `RoomTick`; `MonsterAI`; the front door;
the generator; the mesh and its queries; the abstract output of a session; the proofs about
the server's own state machines, the search for a path down to its heap and its corridor,
and the columns under the mesh.

Next:

1. `RoomView` with `MonsterAI` and `NavmeshManager`: the composition of the three on
   one grid, with walked positions in place of chosen cells.
2. The detail mesh, of which heights depend, and the clipping of triangles.
3. The watershed and the merging of regions as a state machine, whose steps could be
   proved about as those of the search are.
4. That `NavmeshManager` drives the search as `SearchSpec` says, proved and not only
   checked: `connectIntLinks` and `findNearestPoly` as functions, like the loops of the
   heap.
