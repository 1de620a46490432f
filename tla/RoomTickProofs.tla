--------------------------- MODULE RoomTickProofs ---------------------------
(***************************************************************************)
(* Proofs about RoomTick, for every set of rooms, every period and every   *)
(* bound of the clock.                                                     *)
(*                                                                         *)
(* The argument: the next tick of a room is a token.  It is with one of    *)
(* the room's two updaters, in the timer's queue, among the ready jobs or  *)
(* in the room's queue, once and in one of these only; each action keeps   *)
(* it where it is or hands it on.  The time the token carries is the time  *)
(* the room's objects have had, or will have at the end of the Update.     *)
(***************************************************************************)
EXTENDS RoomTick, FiniteSetTheorems, SequenceTheorems, WellFoundedInduction, TLAPS

IsTick(i, r) == i.room = r /\ i.job = "tick"

\* What each place holds of room r's ticks; the sequences by position.
QueueTicks(r) == {i \in timerQueue : IsTick(i, r)}
ReadyTicks(r) == {k \in 1..Len(readyJobs) : IsTick(readyJobs[k], r)}
JobTicks(r) == {k \in 1..Len(roomJobs[r]) : IsTick(roomJobs[r][k], r)}
Tickers(r) == {u \in Updaters : at[r][u] \in {"reserve", "insert"}}

InUpdate(r) == /\ \E u \in Updaters : Tickers(r) = {u}
               /\ QueueTicks(r) = {} /\ ReadyTicks(r) = {} /\ JobTicks(r) = {}
InQueue(r) == /\ \E i \in timerQueue : QueueTicks(r) = {i}
              /\ Tickers(r) = {} /\ ReadyTicks(r) = {} /\ JobTicks(r) = {}
InReady(r) == /\ \E k \in 1..Len(readyJobs) : ReadyTicks(r) = {k}
              /\ Tickers(r) = {} /\ QueueTicks(r) = {} /\ JobTicks(r) = {}
InJobs(r) == /\ \E k \in 1..Len(roomJobs[r]) : JobTicks(r) = {k}
             /\ Tickers(r) = {} /\ QueueTicks(r) = {} /\ ReadyTicks(r) = {}

Token(r) == InUpdate(r) \/ InQueue(r) \/ InReady(r) \/ InJobs(r)

\* No item was made with a tick of the future, and none is due in the first period.
Aged(i) == i.arg <= clock /\ (i.job = "tick" => i.time >= Period)

\* An updater has an item just while it is to insert it, and it is the one it made.
ItemInv ==
  \A r \in Rooms, u \in Updaters :
    /\ at[r][u] = "insert" =>
         item[r][u] \in Items /\ IsTick(item[r][u], r) /\ Aged(item[r][u])
    /\ at[r][u] = "insertHit" =>
         /\ item[r][u] \in Items /\ Aged(item[r][u])
         /\ item[r][u].room = r /\ item[r][u].job = "hit"
    /\ at[r][u] \notin {"insert", "insertHit"} => item[r][u] = NoItem

\* What has left the timer's queue was due.
QueueInv ==
  /\ IsFiniteSet(timerQueue)
  /\ \A i \in timerQueue : Aged(i)
  /\ \A k \in 1..Len(readyJobs) : Aged(readyJobs[k]) /\ readyJobs[k].time <= clock
  /\ \A r \in Rooms : \A k \in 1..Len(roomJobs[r]) :
       /\ roomJobs[r][k].room = r
       /\ Aged(roomJobs[r][k]) /\ roomJobs[r][k].time <= clock
  /\ timerAt # "push" => readyJobs = <<>>
  /\ now <= clock

ClockInv ==
  \A r \in Rooms :
    /\ \A u \in Updaters : since[r][u] <= tick[r][u] /\ tick[r][u] <= clock
    /\ at[r]["job"] # "idle" => clock >= Period

Basics == TypeOK /\ ItemInv /\ QueueInv /\ ClockInv

IInv == Basics /\ \A r \in Rooms : Token(r)

-----------------------------------------------------------------------------

\* A non-empty set of times has an earliest one.
LEMMA EarliestIsNat ==
  ASSUME NEW S \in SUBSET Items, NEW otherwise \in Nat
  PROVE  Earliest(S, otherwise) \in Nat
<1> DEFINE T == {i.time : i \in S}
<1>1. T \subseteq Nat
  BY DEF Items
<1>2. CASE S = {}
  BY <1>2 DEF Earliest
<1>3. CASE S # {}
  <2>1. T # {}
    BY <1>3
  <2> HIDE DEF T
  <2> DEFINE R == {ss \in Nat \X Nat : ss[1] < ss[2]}
  <2>2. IsWellFoundedOn(R, Nat)
    <3>1. OpToRel(<, Nat) = R
      BY Zenon DEF OpToRel
    <3> HIDE DEF R
    <3> QED
      BY <3>1, NatLessThanWellFounded, Zenon
  <2>3. PICK t \in T : \A y \in T : ~(<<y, t>> \in R)
    <3> HIDE DEF R
    <3> QED
      BY <1>1, <2>1, <2>2, WFMin
  <2>4. ASSUME NEW y \in T PROVE t <= y
    <3>1. y \in Nat /\ t \in Nat
      BY <1>1
    <3>2. SUFFICES ASSUME y < t PROVE <<y, t>> \in R
      BY <2>3, <3>1
    <3> QED
      BY <3>1, <3>2
  <2>5. \A i \in S : t <= i.time
    BY <2>4 DEF T
  <2>6. Earliest(S, otherwise) = CHOOSE e \in T : \A i \in S : e <= i.time
    BY <1>3 DEF Earliest, T
  <2>7. (CHOOSE e \in T : \A i \in S : e <= i.time) \in T
    BY <2>5
  <2> QED
    BY <1>1, <2>6, <2>7
<1> QED
  BY <1>2, <1>3

\* An order of the ready items has each of them once.
LEMMA SortedIsOrder ==
  ASSUME NEW ready, IsFiniteSet(ready), NEW s \in Sorted(ready)
  PROVE  /\ s \in Seq(ready)
         /\ \A i, j \in 1..Len(s) : s[i] = s[j] => i = j
         /\ \A x \in ready : \E k \in 1..Len(s) : s[k] = x
<1> DEFINE n == Cardinality(ready)
<1>1. n \in Nat
  BY FS_CardinalityType
<1>2. s \in [1..n -> ready] /\ \A i, j \in 1..n : s[i] = s[j] => i = j
  BY DEF Sorted
<1>3. s \in Seq(ready) /\ Len(s) = n
  BY <1>1, <1>2
<1>4. s \in Injection(1..n, ready)
  BY <1>2 DEF Injection, IsInjective
<1>5. Cardinality(1..n) = n
  BY <1>1, FS_Interval
<1>6. s \in Surjection(1..n, ready)
  BY <1>4, <1>5, FS_Injection
<1> QED
  BY <1>2, <1>3, <1>6 DEF Surjection

-----------------------------------------------------------------------------

\* InitRoom is about to reserve the first tick of every room.
LEMMA InitIInv == Init => IInv
<1> SUFFICES ASSUME Init PROVE IInv
  OBVIOUS
<1> USE DEF Init
<1>1. /\ clock \in Times /\ now \in Times /\ waitUntil \in Nat /\ timerQueue \subseteq Items
      /\ timerAt \in {"top", "wait", "push"}
      /\ readyJobs \in Seq(Items) /\ roomJobs \in [Rooms -> Seq(Items)]
      /\ serving \in [Rooms -> {"on", "drained", "off"}]
  BY RoomTickAssumption DEF Times
<1>2. /\ at \in [Rooms -> [Updaters -> Places]]
      /\ item \in [Rooms -> [Updaters -> Items \cup {NoItem}]]
      /\ simulated \in [Rooms -> Nat]
  BY DEF Places, Updaters
<1>3. tick \in [Rooms -> [Updaters -> Times]] /\ since \in [Rooms -> [Updaters -> Times]]
  BY RoomTickAssumption DEF Times
<1>4. ItemInv
  BY DEF ItemInv, Updaters
<1>5. QueueInv
  BY FS_EmptySet DEF QueueInv
<1>6. ClockInv
  BY DEF ClockInv, Updaters
<1>7. ASSUME NEW r \in Rooms PROVE Token(r)
  <2>1. Tickers(r) = {"init"}
    BY DEF Tickers, Updaters
  <2>2. QueueTicks(r) = {} /\ ReadyTicks(r) = {} /\ JobTicks(r) = {}
    BY DEF QueueTicks, ReadyTicks, JobTicks
  <2> QED
    BY <2>1, <2>2 DEF Token, InUpdate, Updaters
<1> QED
  BY <1>1, <1>2, <1>3, <1>4, <1>5, <1>6, <1>7 DEF IInv, Basics, TypeOK

\* The token stays when no place of it changes.
LEMMA TokenStays ==
  ASSUME UNCHANGED <<timerQueue, readyJobs, roomJobs, at>>, NEW r \in Rooms, Token(r)
  PROVE  Token(r)'
BY DEF Token, InUpdate, InQueue, InReady, InJobs, QueueTicks, ReadyTicks, JobTicks, Tickers, IsTick

\* Time passes: what was due stays due.
LEMMA PassStep == IInv /\ Pass => IInv'
<1> SUFFICES ASSUME IInv, Pass PROVE IInv'
  OBVIOUS
<1> USE DEF IInv, Basics, Pass, timerVars, updateVars
<1>1. TypeOK'
  BY RoomTickAssumption DEF TypeOK, Times
<1>2. clock \in Nat /\ clock' \in Nat /\ clock <= clock'
  BY RoomTickAssumption DEF TypeOK, Times
<1>3. ASSUME NEW i \in Items, Aged(i) PROVE Aged(i)'
  BY <1>2, <1>3, RoomTickAssumption DEF Aged, Items, Times
<1>4. ItemInv'
  BY <1>3 DEF ItemInv, IsTick
<1>5. /\ \A k \in 1..Len(readyJobs) : readyJobs[k] \in Items
      /\ \A r \in Rooms : \A k \in 1..Len(roomJobs[r]) : roomJobs[r][k] \in Items
      /\ timerQueue \subseteq Items /\ now \in Nat
  BY RoomTickAssumption DEF TypeOK, Times
<1>6. \A i \in Items : i.time <= clock => i.time <= clock'
  BY <1>2 DEF Items
<1>7. QueueInv'
  BY <1>2, <1>3, <1>5, <1>6 DEF QueueInv
<1>8. ClockInv'
  BY <1>2, RoomTickAssumption DEF ClockInv, TypeOK, Times
<1>9. \A r \in Rooms : Token(r)'
  BY TokenStays
<1> QED
  BY <1>1, <1>4, <1>7, <1>8, <1>9

\* The look at the earliest reservation moves nothing.
LEMMA PeekStep == IInv /\ Peek => IInv'
<1> SUFFICES ASSUME IInv, Peek PROVE IInv'
  OBVIOUS
<1> USE DEF IInv, Basics, Peek, updateVars
<1>1. waitUntil' \in Nat
  BY EarliestIsNat, RoomTickAssumption DEF TypeOK, Times
<1>2. TypeOK'
  BY <1>1, RoomTickAssumption DEF TypeOK, Times
<1>3. ItemInv' /\ ClockInv'
  BY DEF ItemInv, ClockInv, IsTick, Aged
<1>4. QueueInv'
  <2>1. now' <= clock' /\ readyJobs' = <<>>
    BY RoomTickAssumption DEF QueueInv, TypeOK, Times
  <2>2. UNCHANGED <<clock, timerQueue, readyJobs, roomJobs>>
    OBVIOUS
  <2> QED
    BY <2>1, <2>2 DEF QueueInv, Aged
<1>5. \A r \in Rooms : Token(r)'
  BY TokenStays
<1> QED
  BY <1>2, <1>3, <1>4, <1>5

\* The items that are due leave the queue, the tick with them or not.
LEMMA TakeReadyStep == IInv /\ TakeReady => IInv'
<1> SUFFICES ASSUME IInv, TakeReady PROVE IInv'
  OBVIOUS
<1> USE DEF IInv, Basics, updateVars
<1> DEFINE ready == {i \in timerQueue : i.time <= now}
<1>1. /\ timerAt = "wait" /\ timerAt' = "push"
      /\ readyJobs' \in Sorted(ready) /\ timerQueue' = timerQueue \ ready
      /\ UNCHANGED <<clock, now, waitUntil, roomJobs, serving, at, tick, since, item, simulated>>
  BY DEF TakeReady
<1>2. IsFiniteSet(ready) /\ ready \subseteq timerQueue /\ ready \subseteq Items
  BY FS_Subset DEF QueueInv, TypeOK
<1>3. /\ readyJobs' \in Seq(ready)
      /\ \A i, j \in 1..Len(readyJobs') : readyJobs'[i] = readyJobs'[j] => i = j
      /\ \A x \in ready : \E k \in 1..Len(readyJobs') : readyJobs'[k] = x
  <2>1. IsFiniteSet(ready) /\ readyJobs' \in Sorted(ready)
    BY <1>1, <1>2
  <2> HIDE DEF ready
  <2> QED
    BY <2>1, SortedIsOrder
<1>4. \A k \in 1..Len(readyJobs') : readyJobs'[k] \in ready
  BY <1>3
<1>5. readyJobs' \in Seq(Items)
  BY <1>2, <1>3
<1>6. readyJobs = <<>>
  BY <1>1 DEF QueueInv
<1>7. TypeOK'
  BY <1>1, <1>5 DEF TypeOK
<1>8. ItemInv' /\ ClockInv'
  BY <1>1 DEF ItemInv, ClockInv, IsTick, Aged
<1>9. \A i \in ready : Aged(i) /\ i.time <= clock
  BY <1>2, RoomTickAssumption DEF QueueInv, TypeOK, Times, Items
<1>10. QueueInv'
  <2>1. IsFiniteSet(timerQueue') /\ timerQueue' \subseteq timerQueue
    BY <1>1, FS_Subset DEF QueueInv
  <2> HIDE DEF ready
  <2> QED
    BY <1>1, <1>4, <1>9, <2>1 DEF QueueInv, Aged
<1>11. ASSUME NEW r \in Rooms PROVE Token(r)'
  <2>1. ReadyTicks(r) = {} /\ ~InReady(r)
    BY <1>6 DEF ReadyTicks, InReady
  <2>2. Tickers(r)' = Tickers(r) /\ JobTicks(r)' = JobTicks(r)
    BY <1>1 DEF Tickers, JobTicks, IsTick
  <2>3. QueueTicks(r)' = {i \in QueueTicks(r) : i \notin ready}
    BY <1>1 DEF QueueTicks, IsTick
  <2>4. ReadyTicks(r)' = {k \in 1..Len(readyJobs') : readyJobs'[k] \in QueueTicks(r)}
    BY <1>2, <1>4 DEF ReadyTicks, QueueTicks, IsTick
  <2> HIDE DEF ready
  <2>5. CASE InUpdate(r)
    <3>1. QueueTicks(r)' = {} /\ ReadyTicks(r)' = {}
      BY <2>3, <2>4, <2>5 DEF InUpdate
    <3> QED
      BY <2>2, <2>5, <3>1 DEF Token, InUpdate
  <2>6. CASE InJobs(r)
    <3>1. QueueTicks(r)' = {} /\ ReadyTicks(r)' = {}
      BY <2>3, <2>4, <2>6 DEF InJobs
    <3>2. roomJobs' = roomJobs
      BY <1>1
    <3> QED
      BY <2>2, <2>6, <3>1, <3>2 DEF Token, InJobs
  <2>7. CASE InQueue(r)
    <3>1. PICK i \in timerQueue : QueueTicks(r) = {i}
      BY <2>7 DEF InQueue
    <3>2. CASE i \in ready
      <4>1. PICK k \in 1..Len(readyJobs') : readyJobs'[k] = i
        BY <1>3, <3>2
      <4>2. ReadyTicks(r)' = {k}
        <5>1. \A l \in 1..Len(readyJobs') : readyJobs'[l] = i => l = k
          BY <1>3, <4>1
        <5>2. ReadyTicks(r)' = {l \in 1..Len(readyJobs') : readyJobs'[l] = i}
          BY <2>4, <3>1
        <5> QED
          BY <4>1, <5>1, <5>2
      <4>3. QueueTicks(r)' = {}
        BY <2>3, <3>1, <3>2
      <4> QED
        BY <2>2, <2>7, <4>2, <4>3 DEF Token, InReady, InQueue
    <3>3. CASE i \notin ready
      <4>1. ReadyTicks(r)' = {}
        BY <1>4, <2>4, <3>1, <3>3
      <4>2. QueueTicks(r)' = {i} /\ i \in timerQueue'
        BY <1>1, <2>3, <3>1, <3>3
      <4> QED
        BY <2>2, <2>7, <4>1, <4>2 DEF Token, InQueue
    <3> QED
      BY <3>2, <3>3
  <2> QED
    BY <2>1, <2>5, <2>6, <2>7 DEF Token
<1> QED
  BY <1>7, <1>8, <1>10, <1>11

\* The first of the ready items goes to its room's queue.
LEMMA PushOneStep ==
  ASSUME IInv, PushReady, readyJobs # <<>>
  PROVE  IInv'
<1> USE DEF IInv, Basics, updateVars
<1> DEFINE i == Head(readyJobs)
           q == i.room
<1>1. /\ roomJobs' = [roomJobs EXCEPT ![q] = Append(@, i)] /\ readyJobs' = Tail(readyJobs)
      /\ serving' = [serving EXCEPT ![q] = IF @ = "off" THEN "on" ELSE @]
      /\ timerAt = "push" /\ timerAt' = timerAt
      /\ UNCHANGED <<clock, timerQueue, now, waitUntil, at, tick, since, item, simulated>>
  BY DEF PushReady, Register
<1>2. /\ readyJobs \in Seq(Items) /\ roomJobs \in [Rooms -> Seq(Items)]
      /\ Len(readyJobs) \in Nat \ {0}
  BY LenProperties DEF TypeOK
<1>3. i \in Items /\ i = readyJobs[1] /\ q \in Rooms
  <2>1. i \in Items
    BY <1>2, HeadTailProperties
  <2>2. i = readyJobs[1]
    BY <1>2
  <2> QED
    BY <2>1, <2>2 DEF Items
<1>4. /\ readyJobs' \in Seq(Items) /\ Len(readyJobs') = Len(readyJobs) - 1
      /\ \A k \in 1..Len(readyJobs') : readyJobs'[k] = readyJobs[k + 1]
  BY <1>1, <1>2, HeadTailProperties
<1> HIDE DEF i, q
<1>5. /\ roomJobs'[q] \in Seq(Items) /\ Len(roomJobs'[q]) = Len(roomJobs[q]) + 1
      /\ \A k \in 1..Len(roomJobs[q]) : roomJobs'[q][k] = roomJobs[q][k]
      /\ roomJobs'[q][Len(roomJobs[q]) + 1] = i /\ Len(roomJobs[q]) \in Nat
  <2>1. roomJobs'[q] = Append(roomJobs[q], i) /\ roomJobs[q] \in Seq(Items)
    BY <1>1, <1>2, <1>3
  <2> QED
    BY <1>3, <2>1, AppendProperties, LenProperties
<1>6. \A r \in Rooms \ {q} : roomJobs'[r] = roomJobs[r]
  BY <1>1, <1>2
<1>7. /\ roomJobs' \in [Rooms -> Seq(Items)]
      /\ serving' \in [Rooms -> {"on", "drained", "off"}]
  BY <1>1, <1>2, <1>3, <1>5 DEF TypeOK
<1>8. TypeOK'
  BY <1>1, <1>4, <1>7 DEF TypeOK
<1>9. ItemInv' /\ ClockInv'
  BY <1>1 DEF ItemInv, ClockInv, IsTick, Aged
<1>10. 1 \in 1..Len(readyJobs) /\ \A k \in 1..Len(readyJobs') : k + 1 \in 1..Len(readyJobs)
  BY <1>2, <1>4
<1>11. QueueInv'
  <2>1. Aged(i) /\ i.time <= clock
    BY <1>3, <1>10 DEF QueueInv
  <2>2. \A k \in 1..Len(readyJobs') : Aged(readyJobs'[k]) /\ readyJobs'[k].time <= clock
    BY <1>4, <1>10 DEF QueueInv
  <2>3. ASSUME NEW r \in Rooms, NEW k \in 1..Len(roomJobs'[r])
        PROVE  /\ roomJobs'[r][k].room = r
               /\ Aged(roomJobs'[r][k]) /\ roomJobs'[r][k].time <= clock
    <3>1. CASE r # q
      BY <1>6, <3>1 DEF QueueInv
    <3>2. CASE r = q /\ k \in 1..Len(roomJobs[q])
      BY <1>3, <1>5, <3>2 DEF QueueInv
    <3>3. CASE r = q /\ k = Len(roomJobs[q]) + 1
      BY <1>3, <1>5, <2>1, <3>3 DEF q
    <3> QED
      BY <1>5, <3>1, <3>2, <3>3
  <2> QED
    BY <1>1, <2>2, <2>3 DEF QueueInv, Aged
<1>12. ASSUME NEW r \in Rooms PROVE Token(r)'
  <2>1. Tickers(r)' = Tickers(r) /\ QueueTicks(r)' = QueueTicks(r) /\ timerQueue' = timerQueue
    BY <1>1 DEF Tickers, QueueTicks, IsTick
  <2>2. ReadyTicks(r)' = {k \in 1..Len(readyJobs') : k + 1 \in ReadyTicks(r)}
    BY <1>4, <1>10 DEF ReadyTicks, IsTick
  <2>3. CASE IsTick(i, r)
    <3>1. r = q
      BY <2>3 DEF IsTick, q
    <3>2. 1 \in ReadyTicks(r)
      BY <1>3, <1>10, <2>3 DEF ReadyTicks
    <3>3. InReady(r) /\ ReadyTicks(r) = {1}
      BY <3>2 DEF Token, InUpdate, InQueue, InJobs, InReady
    <3>4. ReadyTicks(r)' = {}
      BY <1>10, <2>2, <3>3
    <3>5. JobTicks(r) = {}
      BY <3>3 DEF InReady
    <3> DEFINE n == Len(roomJobs[q]) + 1
    <3>6. \A k \in 1..Len(roomJobs[q]) : ~IsTick(roomJobs'[q][k], r)
      BY <1>5, <3>1, <3>5 DEF JobTicks
    <3>7. IsTick(roomJobs'[q][n], r) /\ n \in 1..Len(roomJobs'[q])
      BY <1>5, <2>3
    <3>8. JobTicks(r)' = {n}
      BY <1>5, <3>1, <3>6, <3>7 DEF JobTicks, IsTick
    <3> QED
      BY <2>1, <3>1, <3>3, <3>4, <3>7, <3>8 DEF Token, InJobs, InReady
  <2>4. CASE ~IsTick(i, r)
    <3>1. JobTicks(r)' = JobTicks(r)
      <4>1. CASE r # q
        BY <1>6, <4>1 DEF JobTicks, IsTick
      <4>2. CASE r = q
        BY <1>5, <2>4, <4>2, SMTT(60) DEF JobTicks, IsTick
      <4> QED
        BY <4>1, <4>2
    <3>2. CASE InReady(r)
      <4>1. PICK k \in 1..Len(readyJobs) : ReadyTicks(r) = {k}
        BY <3>2 DEF InReady
      <4>2. k # 1
        BY <1>3, <2>4, <4>1 DEF ReadyTicks
      <4>3. k - 1 \in 1..Len(readyJobs')
        BY <1>2, <1>4, <4>2
      <4>4. ReadyTicks(r)' = {k - 1}
        BY <2>2, <4>1, <4>3
      <4> QED
        BY <2>1, <3>1, <3>2, <4>3, <4>4 DEF Token, InReady
    <3>3. CASE ~InReady(r)
      <4>1. ReadyTicks(r)' = {}
        BY <2>2, <3>3 DEF Token, InUpdate, InQueue, InJobs
      <4>2. \A k \in JobTicks(r) : k \in 1..Len(roomJobs'[r])
        BY <3>1 DEF JobTicks
      <4> QED
        BY <2>1, <3>1, <3>3, <4>1, <4>2 DEF Token, InUpdate, InQueue, InJobs
    <3> QED
      BY <3>2, <3>3
  <2> QED
    BY <2>3, <2>4
<1> QED
  BY <1>8, <1>9, <1>11, <1>12

\* PushReady moves one item, or has none left and ends the turn.
LEMMA PushReadyStep == IInv /\ PushReady => IInv'
<1> SUFFICES ASSUME IInv, PushReady PROVE IInv'
  OBVIOUS
<1>1. CASE readyJobs # <<>>
  BY <1>1, PushOneStep
<1>2. CASE readyJobs = <<>>
  <2> USE DEF IInv, Basics, updateVars
  <2>1. /\ timerAt' = "top"
        /\ UNCHANGED <<clock, timerQueue, now, waitUntil, readyJobs, roomJobs, serving, at, tick,
                       since, item, simulated>>
    BY <1>2 DEF PushReady
  <2>2. TypeOK' /\ ItemInv' /\ ClockInv'
    BY <2>1 DEF TypeOK, ItemInv, ClockInv, IsTick, Aged
  <2>3. QueueInv'
    BY <1>2, <2>1 DEF QueueInv, Aged
  <2>4. \A r \in Rooms : Token(r)'
    BY <2>1, TokenStays
  <2> QED
    BY <2>2, <2>3, <2>4
<1> QED
  BY <1>1, <1>2

\* An updater makes the item of the next tick; the token stays with it.
LEMMA ReserveTickStep ==
  ASSUME IInv, NEW r \in Rooms, NEW u \in Updaters, ReserveTick(r, u)
  PROVE  IInv'
<1> USE DEF IInv, Basics, timerVars
<1> DEFINE i == [room |-> r, job |-> "tick", time |-> clock + Period, arg |-> tick[r][u]]
<1>1. /\ at[r][u] = "reserve" /\ item' = [item EXCEPT ![r][u] = i]
      /\ at' = [at EXCEPT ![r][u] = "insert"]
      /\ UNCHANGED <<clock, timerQueue, timerAt, now, waitUntil, readyJobs, roomJobs, serving, tick,
                     since, simulated>>
  BY DEF ReserveTick, Goto
<1>2. clock \in Nat /\ Period \in Nat /\ tick[r][u] \in Times /\ tick[r][u] <= clock
  BY RoomTickAssumption DEF TypeOK, Times, ClockInv
<1>3. i \in Items /\ IsTick(i, r) /\ Aged(i)
  BY <1>2 DEF Items, IsTick, Aged
<1> HIDE DEF i
<1>4. /\ at' \in [Rooms -> [Updaters -> Places]]
      /\ item' \in [Rooms -> [Updaters -> Items \cup {NoItem}]]
  BY <1>1, <1>3 DEF TypeOK, Places
<1>5. /\ at'[r][u] = "insert" /\ item'[r][u] = i
      /\ \A q \in Rooms, v \in Updaters :
           ~(q = r /\ v = u) => at'[q][v] = at[q][v] /\ item'[q][v] = item[q][v]
  BY <1>1 DEF TypeOK
<1>6. TypeOK'
  BY <1>1, <1>4 DEF TypeOK
<1>7. ItemInv'
  BY <1>1, <1>3, <1>5 DEF ItemInv, IsTick, Aged
<1>8. QueueInv'
  BY <1>1 DEF QueueInv, Aged
<1>9. ClockInv'
  BY <1>1, <1>5 DEF ClockInv, Updaters
<1>10. ASSUME NEW q \in Rooms PROVE Token(q)'
  <2>1. Tickers(q)' = Tickers(q)
    BY <1>1, <1>5 DEF Tickers
  <2>2. /\ QueueTicks(q)' = QueueTicks(q) /\ ReadyTicks(q)' = ReadyTicks(q)
        /\ JobTicks(q)' = JobTicks(q)
    BY <1>1 DEF QueueTicks, ReadyTicks, JobTicks, IsTick
  <2> QED
    BY <1>1, <2>1, <2>2 DEF Token, InUpdate, InQueue, InReady, InJobs
<1> QED
  BY <1>6, <1>7, <1>8, <1>9, <1>10

\* The updater pushes its item: a tick goes over to the timer's queue.
LEMMA InsertStep ==
  ASSUME IInv, NEW r \in Rooms, NEW u \in Updaters, Insert(r, u)
  PROVE  IInv'
<1> USE DEF IInv, Basics, timerVars
<1> DEFINE i == item[r][u]
<1>1. /\ timerAt # "push" /\ timerQueue' = timerQueue \cup {i}
      /\ item' = [item EXCEPT ![r][u] = NoItem]
      /\ UNCHANGED <<clock, timerAt, now, waitUntil, readyJobs, roomJobs, serving, tick, since, simulated>>
  BY DEF Insert
<1>2. \/ at[r][u] = "insert" /\ at' = [at EXCEPT ![r][u] = "objects"]
      \/ at[r][u] = "insertHit" /\ at' = [at EXCEPT ![r][u] = "idle"]
  BY DEF Insert, Goto
<1>3. i \in Items /\ Aged(i) /\ i.room = r /\ (i.job = "tick" <=> at[r][u] = "insert")
  BY <1>2 DEF ItemInv, IsTick
<1> HIDE DEF i
<1>4. at'[r][u] \in {"objects", "idle"} /\ item'[r][u] = NoItem
  BY <1>1, <1>2 DEF TypeOK
<1>5. \A q \in Rooms, v \in Updaters :
         ~(q = r /\ v = u) => at'[q][v] = at[q][v] /\ item'[q][v] = item[q][v]
  BY <1>1, <1>2 DEF TypeOK
<1>6. /\ item' \in [Rooms -> [Updaters -> Items \cup {NoItem}]]
      /\ at' \in [Rooms -> [Updaters -> Places]]
  <2>1. item' \in [Rooms -> [Updaters -> Items \cup {NoItem}]]
    BY <1>1 DEF TypeOK
  <2>2. CASE at' = [at EXCEPT ![r][u] = "objects"]
    BY <2>1, <2>2 DEF TypeOK, Places
  <2>3. CASE at' = [at EXCEPT ![r][u] = "idle"]
    BY <2>1, <2>3 DEF TypeOK, Places
  <2> QED
    BY <1>2, <2>2, <2>3
<1>7. TypeOK'
  BY <1>1, <1>3, <1>6 DEF TypeOK
<1>8. ItemInv'
  BY <1>1, <1>4, <1>5 DEF ItemInv, IsTick, Aged
<1>9. QueueInv'
  <2>1. IsFiniteSet(timerQueue')
    BY <1>1, FS_AddElement DEF QueueInv
  <2> QED
    BY <1>1, <1>3, <2>1 DEF QueueInv, Aged
<1>10. ClockInv'
  BY <1>1, <1>2, <1>4, <1>5 DEF ClockInv, Updaters
<1>11. ASSUME NEW q \in Rooms PROVE Token(q)'
  <2>1. ReadyTicks(q)' = ReadyTicks(q) /\ JobTicks(q)' = JobTicks(q)
    BY <1>1 DEF ReadyTicks, JobTicks, IsTick
  <2>2. CASE q = r /\ at[r][u] = "insert"
    <3>1. u \in Tickers(q) /\ Tickers(q)' = Tickers(q) \ {u}
      BY <1>4, <1>5, <2>2 DEF Tickers
    <3>2. InUpdate(q)
      BY <3>1 DEF Token, InQueue, InReady, InJobs
    <3>3. Tickers(q)' = {}
      BY <3>1, <3>2 DEF InUpdate
    <3>4. QueueTicks(q)' = {i}
      BY <1>1, <1>3, <2>2, <3>2 DEF QueueTicks, InUpdate, IsTick
    <3>5. i \in timerQueue'
      BY <1>1
    <3> QED
      BY <2>1, <3>2, <3>3, <3>4, <3>5 DEF Token, InUpdate, InQueue
  <2>3. CASE ~(q = r /\ at[r][u] = "insert")
    <3>1. Tickers(q)' = Tickers(q)
      BY <1>2, <1>4, <1>5, <2>3 DEF Tickers
    <3>2. ~IsTick(i, q)
      BY <1>3, <2>3 DEF IsTick
    <3>3. QueueTicks(q)' = QueueTicks(q)
      BY <1>1, <3>2 DEF QueueTicks, IsTick
    <3> QED
      BY <1>1, <2>1, <3>1, <3>3 DEF Token, InUpdate, InQueue, InReady, InJobs
  <2> QED
    BY <2>2, <2>3
<1> QED
  BY <1>7, <1>8, <1>9, <1>10, <1>11

\* The objects are updated, and one may reserve a hit: no tick is made.
LEMMA UpdateObjectsStep ==
  ASSUME IInv, NEW r \in Rooms, NEW u \in Updaters, UpdateObjects(r, u)
  PROVE  IInv'
<1> USE DEF IInv, Basics, timerVars
<1>1. /\ at[r][u] = "objects"
      /\ simulated' = [simulated EXCEPT ![r] = @ + (tick[r][u] - since[r][u])]
      /\ UNCHANGED <<clock, timerQueue, timerAt, now, waitUntil, readyJobs, roomJobs, serving, tick, since>>
  BY DEF UpdateObjects
<1>2. \/ at' = [at EXCEPT ![r][u] = "idle"] /\ UNCHANGED item
      \/ /\ at' = [at EXCEPT ![r][u] = "insertHit"]
         /\ \E delay \in HitDelays :
              item' = [item EXCEPT ![r][u] = [room |-> r, job |-> "hit",
                         time |-> clock + delay, arg |-> tick[r][u]]]
  BY DEF UpdateObjects, Goto
<1>3. clock \in Nat /\ tick[r][u] \in Times /\ tick[r][u] <= clock
      /\ tick[r][u] \in Nat /\ since[r][u] \in Nat /\ since[r][u] <= tick[r][u]
  BY RoomTickAssumption DEF TypeOK, Times, ClockInv
<1>4. simulated' \in [Rooms -> Nat]
  <2>1. simulated[r] + (tick[r][u] - since[r][u]) \in Nat
    BY <1>3 DEF TypeOK
  <2> QED
    BY <1>1, <2>1 DEF TypeOK
<1> DEFINE Moved ==
          /\ at' \in [Rooms -> [Updaters -> Places]]
          /\ item' \in [Rooms -> [Updaters -> Items \cup {NoItem}]]
          /\ at'[r][u] \in {"idle", "insertHit"}
          /\ at'[r][u] = "idle" => item'[r][u] = NoItem
          /\ at'[r][u] = "insertHit" =>
               /\ item'[r][u] \in Items /\ Aged(item'[r][u])
               /\ item'[r][u].room = r /\ item'[r][u].job = "hit"
          /\ \A q \in Rooms, v \in Updaters :
               ~(q = r /\ v = u) => at'[q][v] = at[q][v] /\ item'[q][v] = item[q][v]
<1>5. Moved
  <2>1. CASE at' = [at EXCEPT ![r][u] = "idle"] /\ UNCHANGED item
    <3>1. item[r][u] = NoItem
      BY <1>1 DEF ItemInv
    <3> QED
      BY <2>1, <3>1 DEF TypeOK, Places
  <2>2. ASSUME at' = [at EXCEPT ![r][u] = "insertHit"], NEW delay \in HitDelays,
               item' = [item EXCEPT ![r][u] = [room |-> r, job |-> "hit",
                          time |-> clock + delay, arg |-> tick[r][u]]]
        PROVE  Moved
    <3> DEFINE i == [room |-> r, job |-> "hit", time |-> clock + delay, arg |-> tick[r][u]]
    <3>1. i \in Items /\ Aged(i) /\ i.room = r /\ i.job = "hit"
      BY <1>3, RoomTickAssumption DEF Items, Aged
    <3>2. item' = [item EXCEPT ![r][u] = i]
      BY <2>2
    <3> HIDE DEF i
    <3> QED
      BY <2>2, <3>1, <3>2 DEF TypeOK, Places
  <2> QED
    BY <1>2, <2>1, <2>2
<1>6. TypeOK'
  BY <1>1, <1>4, <1>5 DEF TypeOK
<1>7. ItemInv'
  BY <1>1, <1>5 DEF ItemInv, IsTick, Aged
<1>8. QueueInv'
  BY <1>1 DEF QueueInv, Aged
<1>9. ClockInv'
  BY <1>1, <1>5 DEF ClockInv, Updaters
<1>10. ASSUME NEW q \in Rooms PROVE Token(q)'
  <2>1. Tickers(q)' = Tickers(q)
    BY <1>1, <1>5 DEF Tickers
  <2>2. /\ QueueTicks(q)' = QueueTicks(q) /\ ReadyTicks(q)' = ReadyTicks(q)
        /\ JobTicks(q)' = JobTicks(q)
    BY <1>1 DEF QueueTicks, ReadyTicks, JobTicks, IsTick
  <2> QED
    BY <1>1, <2>1, <2>2 DEF Token, InUpdate, InQueue, InReady, InJobs
<1> QED
  BY <1>6, <1>7, <1>8, <1>9, <1>10

\* The room's queue runs its first job: if it is a tick, the job's updater has the token.
LEMMA RunJobStep ==
  ASSUME IInv, NEW r \in Rooms, RunJob(r)
  PROVE  IInv'
<1> USE DEF IInv, Basics, timerVars
<1> DEFINE j == Head(roomJobs[r])
<1>1. /\ at[r]["job"] = "idle" /\ roomJobs[r] # <<>>
      /\ roomJobs' = [roomJobs EXCEPT ![r] = Tail(@)]
      /\ UNCHANGED <<clock, timerQueue, timerAt, now, waitUntil, readyJobs, serving, item, simulated>>
  BY DEF RunJob
<1>2. \/ /\ j.job = "tick" /\ tick' = [tick EXCEPT ![r]["job"] = clock]
         /\ since' = [since EXCEPT ![r]["job"] = j.arg]
         /\ at' = [at EXCEPT ![r]["job"] = "reserve"]
      \/ j.job = "hit" /\ UNCHANGED <<at, tick, since>>
  BY DEF RunJob, Goto
<1>3. roomJobs[r] \in Seq(Items) /\ "job" \in Updaters /\ clock \in Nat /\ Period \in Nat /\ clock \in Times
  BY RoomTickAssumption DEF TypeOK, Updaters, Times
<1>4. Len(roomJobs[r]) \in Nat \ {0} /\ 1 \in 1..Len(roomJobs[r])
  BY <1>1, <1>3, LenProperties
<1>5. j \in Items /\ j = roomJobs[r][1]
  BY <1>1, <1>3, HeadTailProperties
<1>6. j.room = r /\ Aged(j) /\ j.time <= clock
  BY <1>4, <1>5 DEF QueueInv
<1> HIDE DEF j
<1>7. /\ roomJobs'[r] \in Seq(Items) /\ Len(roomJobs'[r]) = Len(roomJobs[r]) - 1
      /\ \A k \in 1..Len(roomJobs'[r]) : roomJobs'[r][k] = roomJobs[r][k + 1]
  <2>1. roomJobs'[r] = Tail(roomJobs[r])
    BY <1>1 DEF TypeOK
  <2> QED
    BY <1>1, <1>3, <2>1, HeadTailProperties, ZenonT(60)
<1>8. \A q \in Rooms \ {r} : roomJobs'[q] = roomJobs[q]
  BY <1>1 DEF TypeOK
<1>9. roomJobs' \in [Rooms -> Seq(Items)]
  BY <1>1, <1>7 DEF TypeOK
<1>10. \A k \in 1..Len(roomJobs'[r]) : k + 1 \in 1..Len(roomJobs[r])
  BY <1>4, <1>7
<1>11. j.time \in Nat /\ j.arg \in Times /\ j.arg <= clock
  BY <1>5, <1>6 DEF Items, Aged
<1>12. /\ at' \in [Rooms -> [Updaters -> Places]]
       /\ tick' \in [Rooms -> [Updaters -> Times]] /\ since' \in [Rooms -> [Updaters -> Times]]
  <2>1. CASE UNCHANGED <<at, tick, since>>
    BY <2>1 DEF TypeOK
  <2>2. CASE /\ tick' = [tick EXCEPT ![r]["job"] = clock] /\ since' = [since EXCEPT ![r]["job"] = j.arg]
             /\ at' = [at EXCEPT ![r]["job"] = "reserve"]
    BY <1>3, <1>11, <2>2 DEF TypeOK, Places
  <2> QED
    BY <1>2, <2>1, <2>2
<1>13. TypeOK'
  BY <1>1, <1>9, <1>12 DEF TypeOK
<1>14. \A q \in Rooms, v \in Updaters :
         ~(q = r /\ v = "job") =>
           at'[q][v] = at[q][v] /\ tick'[q][v] = tick[q][v] /\ since'[q][v] = since[q][v]
  BY <1>2 DEF TypeOK
<1>15. at'[r]["job"] = IF j.job = "tick" THEN "reserve" ELSE "idle"
  BY <1>1, <1>2, <1>3 DEF TypeOK
<1>16. ItemInv'
  BY <1>1, <1>14, <1>15 DEF ItemInv, IsTick, Aged
<1>17. QueueInv'
  <2>1. ASSUME NEW q \in Rooms, NEW k \in 1..Len(roomJobs'[q])
        PROVE  /\ roomJobs'[q][k].room = q
               /\ Aged(roomJobs'[q][k]) /\ roomJobs'[q][k].time <= clock
    <3>1. CASE q # r
      BY <1>8, <3>1 DEF QueueInv
    <3>2. CASE q = r
      <4>1. roomJobs'[q][k] = roomJobs[r][k + 1] /\ k + 1 \in 1..Len(roomJobs[r])
        BY <1>7, <1>10, <3>2
      <4> QED
        BY <3>2, <4>1 DEF QueueInv
    <3> QED
      BY <3>1, <3>2
  <2> QED
    BY <1>1, <2>1 DEF QueueInv, Aged
<1>18. ClockInv'
  <2>1. /\ since'[r]["job"] <= tick'[r]["job"] /\ tick'[r]["job"] <= clock
        /\ at'[r]["job"] # "idle" => clock >= Period
    <3>1. CASE UNCHANGED <<at, tick, since>>
      BY <1>1, <1>3, <3>1 DEF ClockInv
    <3>2. CASE /\ j.job = "tick" /\ tick' = [tick EXCEPT ![r]["job"] = clock]
               /\ since' = [since EXCEPT ![r]["job"] = j.arg]
      <4>1. tick'[r]["job"] = clock /\ since'[r]["job"] = j.arg
        BY <1>3, <3>2 DEF TypeOK
      <4>2. clock >= Period
        BY <1>3, <1>6, <1>11, <3>2 DEF Aged
      <4> QED
        BY <1>3, <1>11, <4>1, <4>2
    <3> QED
      BY <1>2, <3>1, <3>2
  <2>2. ASSUME NEW q \in Rooms, NEW v \in Updaters
        PROVE  /\ since'[q][v] <= tick'[q][v] /\ tick'[q][v] <= clock
               /\ v = "job" /\ at'[q][v] # "idle" => clock >= Period
    <3>1. CASE q = r /\ v = "job"
      BY <2>1, <3>1
    <3>2. CASE ~(q = r /\ v = "job")
      BY <1>14, <3>2 DEF ClockInv
    <3> QED
      BY <3>1, <3>2
  <2> QED
    BY <1>1, <1>3, <2>2 DEF ClockInv
<1>19. ASSUME NEW q \in Rooms PROVE Token(q)'
  <2>1. QueueTicks(q)' = QueueTicks(q) /\ ReadyTicks(q)' = ReadyTicks(q)
    BY <1>1 DEF QueueTicks, ReadyTicks, IsTick
  <2>2. CASE q # r
    <3>1. Tickers(q)' = Tickers(q) /\ JobTicks(q)' = JobTicks(q) /\ roomJobs'[q] = roomJobs[q]
      BY <1>8, <1>14, <2>2 DEF Tickers, JobTicks, IsTick
    <3> QED
      BY <1>1, <2>1, <3>1 DEF Token, InUpdate, InQueue, InReady, InJobs
  <2>3. CASE q = r
    <3>1. JobTicks(r)' = {k \in 1..Len(roomJobs'[r]) : k + 1 \in JobTicks(r)}
      BY <1>7, <1>10 DEF JobTicks, IsTick
    <3>2. CASE j.job = "tick"
      <4>1. 1 \in JobTicks(r)
        BY <1>4, <1>5, <1>6, <3>2 DEF JobTicks, IsTick
      <4>2. InJobs(r) /\ JobTicks(r) = {1}
        BY <4>1 DEF Token, InUpdate, InQueue, InReady, InJobs
      <4>3. JobTicks(r)' = {}
        BY <1>10, <3>1, <4>2
      <4>4. Tickers(r)' = {"job"}
        BY <1>3, <1>14, <1>15, <3>2, <4>2 DEF InJobs, Tickers
      <4> QED
        BY <1>3, <2>1, <2>3, <4>2, <4>3, <4>4 DEF Token, InJobs, InUpdate
    <3>3. CASE j.job # "tick"
      <4>1. Tickers(r)' = Tickers(r)
        BY <1>2, <3>3 DEF Tickers
      <4>2. 1 \notin JobTicks(r)
        BY <1>5, <3>3 DEF JobTicks, IsTick
      <4>3. CASE InJobs(r)
        <5>1. PICK k \in 1..Len(roomJobs[r]) : JobTicks(r) = {k}
          BY <4>3 DEF InJobs
        <5>2. k - 1 \in 1..Len(roomJobs'[r])
          BY <1>4, <1>7, <4>2, <5>1
        <5>3. JobTicks(r)' = {k - 1}
          BY <3>1, <5>1, <5>2
        <5> QED
          BY <2>1, <2>3, <4>1, <4>3, <5>2, <5>3 DEF Token, InJobs
      <4>4. CASE ~InJobs(r)
        <5>1. JobTicks(r)' = {}
          BY <3>1, <4>4 DEF Token, InUpdate, InQueue, InReady
        <5> QED
          BY <1>1, <2>1, <2>3, <4>1, <4>4, <5>1 DEF Token, InUpdate, InQueue, InReady
      <4> QED
        BY <4>3, <4>4
    <3> QED
      BY <3>2, <3>3
  <2> QED
    BY <2>2, <2>3
<1> QED
  BY <1>13, <1>16, <1>17, <1>18, <1>19

\* Whether a worker is on the queue is nothing the token depends on.
LEMMA ServingStep ==
  ASSUME IInv, NEW r \in Rooms, Leave(r) \/ PacketPushes(r)
  PROVE  IInv'
<1> USE DEF IInv, Basics, timerVars, updateVars
<1>1. /\ UNCHANGED <<clock, timerQueue, timerAt, now, waitUntil, readyJobs, roomJobs, at, tick, since,
                    item, simulated>>
      /\ serving' \in [Rooms -> {"on", "drained", "off"}]
  BY DEF Leave, PacketPushes, Register, TypeOK
<1>2. TypeOK' /\ ItemInv' /\ ClockInv'
  BY <1>1 DEF TypeOK, ItemInv, ClockInv, IsTick, Aged
<1>3. QueueInv'
  BY <1>1 DEF QueueInv, Aged
<1>4. \A q \in Rooms : Token(q)'
  BY <1>1, TokenStays
<1> QED
  BY <1>2, <1>3, <1>4

\* Every step keeps the invariant.
LEMMA NextIInv == IInv /\ [Next]_vars => IInv'
<1> SUFFICES ASSUME IInv, [Next]_vars PROVE IInv'
  OBVIOUS
<1>1. CASE UNCHANGED vars
  <2> USE DEF IInv, Basics, vars
  <2>1. TypeOK' /\ ItemInv' /\ QueueInv' /\ ClockInv'
    BY <1>1 DEF TypeOK, ItemInv, QueueInv, ClockInv, IsTick, Aged
  <2>2. \A r \in Rooms : Token(r)'
    BY <1>1, TokenStays
  <2> QED
    BY <2>1, <2>2
<1>2. CASE Pass \/ TimerRun
  BY <1>2, PassStep, PeekStep, TakeReadyStep, PushReadyStep DEF TimerRun
<1>3. ASSUME NEW r \in Rooms, Update(r) PROVE IInv'
  BY <1>3, ReserveTickStep, InsertStep, UpdateObjectsStep, RunJobStep, ServingStep DEF Update
<1> QED
  BY <1>1, <1>2, <1>3 DEF Next

\* Every reachable state satisfies the invariant.
LEMMA IInvHolds == Spec => []IInv
BY InitIInv, NextIInv, PTL DEF Spec

-----------------------------------------------------------------------------

\* Every variable keeps its type; a room's simulated time never runs backwards.
THEOREM TypeCorrectness == Spec => []TypeOK
<1>1. IInv => TypeOK
  BY DEF IInv, Basics
<1> QED
  BY IInvHolds, <1>1, PTL

\* The ticks of a room that are on the way, by the place that holds them.
LEMMA TicksByPlace ==
  ASSUME IInv, NEW r \in Rooms
  PROVE  Ticks(r) = QueueTicks(r) \cup {readyJobs[k] : k \in ReadyTicks(r)}
                      \cup {roomJobs[r][k] : k \in JobTicks(r)}
                      \cup {item[r][u] : u \in {v \in Updaters : at[r][v] = "insert"}}
<1>1. \A x \in Items : x # NoItem
  BY DEF Items, NoItem
<1>2. /\ timerQueue \subseteq Items
      /\ \A k \in 1..Len(readyJobs) : readyJobs[k] \in Items
      /\ \A k \in 1..Len(roomJobs[r]) : roomJobs[r][k] \in Items
  BY DEF IInv, Basics, TypeOK
<1>3. \A u \in Updaters : item[r][u] # NoItem /\ IsTick(item[r][u], r) <=> at[r][u] = "insert"
  <2> SUFFICES ASSUME NEW u \in Updaters
               PROVE  item[r][u] # NoItem /\ IsTick(item[r][u], r) <=> at[r][u] = "insert"
    OBVIOUS
  <2>1. CASE at[r][u] = "insert"
    BY <1>1, <2>1 DEF IInv, Basics, ItemInv
  <2>2. CASE at[r][u] = "insertHit"
    BY <2>2 DEF IInv, Basics, ItemInv, IsTick
  <2>3. CASE at[r][u] \notin {"insert", "insertHit"}
    BY <2>3 DEF IInv, Basics, ItemInv
  <2> QED
    BY <2>1, <2>2, <2>3
<1> QED
  BY <1>1, <1>2, <1>3 DEF Ticks, OnTheWay, QueueTicks, ReadyTicks, JobTicks, IsTick

\* A room always has exactly one next tick: about to be reserved or on the way, in one place.
THEOREM OneNextTickHolds == Spec => []OneNextTick
<1>1. IInv => OneNextTick
  <2> SUFFICES ASSUME IInv, NEW r \in Rooms
               PROVE  Cardinality(Ticks(r))
                        + Cardinality({u \in Updaters : at[r][u] = "reserve"}) = 1
    BY DEF OneNextTick
  <2> DEFINE reserving == {u \in Updaters : at[r][u] = "reserve"}
             inserting == {u \in Updaters : at[r][u] = "insert"}
  <2>0. /\ Tickers(r) = reserving \cup inserting /\ reserving \cap inserting = {}
        /\ inserting = {v \in Updaters : at[r][v] = "insert"}
    BY DEF Tickers
  <2>a. Ticks(r) = QueueTicks(r) \cup {readyJobs[k] : k \in ReadyTicks(r)}
                     \cup {roomJobs[r][k] : k \in JobTicks(r)}
                     \cup {item[r][u] : u \in inserting}
    BY TicksByPlace
  <2>b. Token(r)
    BY DEF IInv
  <2> SUFFICES Cardinality(Ticks(r)) + Cardinality(reserving) = 1
    OBVIOUS
  <2> HIDE DEF reserving, inserting
  <2> SUFFICES \/ Ticks(r) = {} /\ \E u : reserving = {u}
               \/ (\E i : Ticks(r) = {i}) /\ reserving = {}
    <3>1. Cardinality({}) = 0 /\ \A x : Cardinality({x}) = 1
      BY FS_EmptySet, FS_Singleton
    <3>2. CASE Ticks(r) = {} /\ \E u : reserving = {u}
      <4>1. Cardinality(Ticks(r)) = 0
        BY <3>1, <3>2
      <4>2. Cardinality(reserving) = 1
        BY <3>1, <3>2
      <4> QED
        BY <4>1, <4>2
    <3>3. CASE (\E i : Ticks(r) = {i}) /\ reserving = {}
      BY <3>1, <3>3
    <3> QED
      BY <3>2, <3>3
  <2>1. CASE InUpdate(r)
    <3>1. PICK u \in Updaters : Tickers(r) = {u}
      BY <2>1 DEF InUpdate
    <3>2. QueueTicks(r) = {} /\ ReadyTicks(r) = {} /\ JobTicks(r) = {}
      BY <2>1 DEF InUpdate
    <3>3. CASE u \in reserving
      <4>1. reserving = {u} /\ inserting = {}
        BY <2>0, <3>1, <3>3
      <4>2. Ticks(r) = {}
        BY <2>a, <3>2, <4>1
      <4> QED
        BY <4>1, <4>2
    <3>4. CASE u \in inserting
      <4>1. inserting = {u} /\ reserving = {}
        BY <2>0, <3>1, <3>4
      <4>2. Ticks(r) = {item[r][u]}
        BY <2>a, <3>2, <4>1
      <4> QED
        BY <4>1, <4>2
    <3> QED
      BY <2>0, <3>1, <3>3, <3>4
  <2>2. CASE InQueue(r)
    <3>1. reserving = {} /\ inserting = {}
      BY <2>0, <2>2 DEF InQueue
    <3>2. \E i : Ticks(r) = {i}
      BY <2>a, <2>2, <3>1 DEF InQueue
    <3> QED
      BY <3>1, <3>2
  <2>3. CASE InReady(r)
    <3>1. reserving = {} /\ inserting = {}
      BY <2>0, <2>3 DEF InReady
    <3>2. PICK k : ReadyTicks(r) = {k}
      BY <2>3 DEF InReady
    <3>3. Ticks(r) = {readyJobs[k]}
      BY <2>a, <2>3, <3>1, <3>2 DEF InReady
    <3> QED
      BY <3>1, <3>3
  <2>4. CASE InJobs(r)
    <3>1. reserving = {} /\ inserting = {}
      BY <2>0, <2>4 DEF InJobs
    <3>2. PICK k : JobTicks(r) = {k}
      BY <2>4 DEF InJobs
    <3>3. Ticks(r) = {roomJobs[r][k]}
      BY <2>a, <2>4, <3>1, <3>2 DEF InJobs
    <3> QED
      BY <3>1, <3>3
  <2> QED
    BY <2>b, <2>1, <2>2, <2>3, <2>4 DEF Token
<1> QED
  BY IInvHolds, <1>1, PTL

\* The Update of InitRoom overlaps with one in the room's queue only if it takes a period.
THEOREM OverlapOnlyIfInitIsSlowHolds == Spec => []OverlapOnlyIfInitIsSlow
<1>1. IInv => OverlapOnlyIfInitIsSlow
  BY DEF IInv, Basics, ClockInv, OverlapOnlyIfInitIsSlow
<1> QED
  BY IInvHolds, <1>1, PTL

-----------------------------------------------------------------------------
(* Time is exact: a tick carries the time up to which the objects of its   *)
(* room have been updated, so each Update gives them just the time that    *)
(* has passed since the last one.                                          *)

\* The part of the tick in hand that the objects have yet to be updated with.
Pending(r) == IF at[r]["job"] \in {"reserve", "insert", "objects"}
              THEN tick[r]["job"] - since[r]["job"] ELSE 0

Accounted(r) == simulated[r] + Pending(r)

\* The tick a room is to reserve, or has on the way, starts where its objects are:
\* no time is lost between two Updates (the argument of Room.cpp:50) or given twice.
TimeIsExact ==
  \A r \in Rooms :
    /\ \A i \in Ticks(r) : i.arg = Accounted(r)
    /\ \A u \in Updaters : at[r][u] = "reserve" => tick[r][u] = Accounted(r)

\* The first Update, called with the time it reads itself, has no time to give.
FirstIsEmpty == \A r \in Rooms : tick[r]["init"] = since[r]["init"]

ExactInv == TimeIsExact /\ FirstIsEmpty

LEMMA InitExact == Init => ExactInv
<1> SUFFICES ASSUME Init PROVE ExactInv
  OBVIOUS
<1>1. ASSUME NEW r \in Rooms PROVE Ticks(r) = {}
  <2>1. \A u \in Updaters : item[r][u] = NoItem
    BY DEF Init
  <2>2. timerQueue = {} /\ Len(readyJobs) = 0 /\ Len(roomJobs[r]) = 0
    BY DEF Init
  <2> QED
    BY <2>1, <2>2 DEF Ticks, OnTheWay
<1>2. ASSUME NEW r \in Rooms
      PROVE  simulated[r] = 0 /\ \A u \in Updaters : tick[r][u] = 0 /\ since[r][u] = 0
  BY DEF Init
<1>3. ASSUME NEW r \in Rooms PROVE Accounted(r) = 0
  BY <1>2 DEF Accounted, Pending, Updaters
<1> QED
  BY <1>1, <1>2, <1>3 DEF ExactInv, TimeIsExact, FirstIsEmpty, Updaters

\* Where no tick is made, none is started and no account changes, time stays exact.
LEMMA NoNewTick ==
  ASSUME IInv, ExactInv,
         \A r \in Rooms : Ticks(r)' \subseteq Ticks(r) /\ Accounted(r)' = Accounted(r),
         UNCHANGED <<tick, since>>,
         \A r \in Rooms, u \in Updaters : at'[r][u] = "reserve" => at[r][u] = "reserve"
  PROVE  ExactInv'
BY DEF ExactInv, TimeIsExact, FirstIsEmpty

\* The timer thread takes and hands on what was there.
LEMMA TimerExact ==
  ASSUME IInv, ExactInv, Pass \/ TimerRun
  PROVE  ExactInv'
<1> USE DEF IInv, Basics, timerVars, updateVars
<1>1. UNCHANGED <<at, tick, since, item, simulated>>
  BY DEF Pass, TimerRun, Peek, TakeReady, PushReady
<1>2. \A r \in Rooms : Accounted(r)' = Accounted(r)
  BY <1>1 DEF Accounted, Pending
<1>3. ASSUME NEW r \in Rooms PROVE OnTheWay(r)' \subseteq OnTheWay(r)
  <2>1. CASE Pass \/ Peek
    BY <1>1, <2>1 DEF Pass, Peek, OnTheWay
  <2>2. CASE TakeReady
    <3> DEFINE ready == {i \in timerQueue : i.time <= now}
    <3>1. /\ readyJobs' \in Sorted(ready) /\ timerQueue' = timerQueue \ ready
          /\ UNCHANGED roomJobs
      BY <2>2 DEF TakeReady
    <3>2. IsFiniteSet(ready)
      BY FS_Subset DEF QueueInv
    <3>3. readyJobs' \in Seq(ready)
      BY <3>1, <3>2, SortedIsOrder
    <3>4. \A k \in 1..Len(readyJobs') : readyJobs'[k] \in timerQueue
      BY <3>3
    <3> QED
      BY <1>1, <3>1, <3>4 DEF OnTheWay
  <2>3. CASE PushReady
    <3>1. UNCHANGED timerQueue
      BY <2>3 DEF PushReady
    <3>2. CASE UNCHANGED <<roomJobs, readyJobs>>
      BY <1>1, <3>1, <3>2 DEF OnTheWay
    <3>3. CASE /\ readyJobs # <<>>
               /\ roomJobs' = [roomJobs EXCEPT
                    ![Head(readyJobs).room] = Append(@, Head(readyJobs))]
               /\ readyJobs' = Tail(readyJobs)
      <4>1. readyJobs \in Seq(Items) /\ roomJobs[r] \in Seq(Items)
        BY DEF TypeOK
      <4>2. Head(readyJobs) = readyJobs[1] /\ 1 \in 1..Len(readyJobs)
        BY <3>3, <4>1, HeadTailProperties, LenProperties
      <4>3. \A k \in 1..Len(readyJobs') :
              readyJobs'[k] = readyJobs[k + 1] /\ k + 1 \in 1..Len(readyJobs)
        <5>1. /\ Tail(readyJobs) \in Seq(Items) /\ Len(Tail(readyJobs)) = Len(readyJobs) - 1
              /\ \A k \in 1..Len(Tail(readyJobs)) : Tail(readyJobs)[k] = readyJobs[k + 1]
          BY <3>3, <4>1, HeadTailProperties
        <5>2. Len(readyJobs) \in Nat
          BY <4>1, LenProperties
        <5> QED
          BY <3>3, <5>1, <5>2
      <4>4. \/ roomJobs'[r] = roomJobs[r]
            \/ roomJobs'[r] = Append(roomJobs[r], readyJobs[1])
        BY <3>3, <4>2 DEF TypeOK
      <4>5. readyJobs[1] \in Items
        BY <4>1, <4>2
      <4>6. \A k \in 1..Len(roomJobs'[r]) :
              \/ k \in 1..Len(roomJobs[r]) /\ roomJobs'[r][k] = roomJobs[r][k]
              \/ roomJobs'[r][k] = readyJobs[1]
        BY <4>1, <4>4, <4>5, AppendProperties, LenProperties
      <4>7. /\ OnTheWay(r)' = timerQueue' \cup {readyJobs'[i] : i \in 1..Len(readyJobs')}
                  \cup {roomJobs'[r][i] : i \in 1..Len(roomJobs'[r])}
                  \cup {item'[r][u] : u \in Updaters}
            /\ OnTheWay(r) = timerQueue \cup {readyJobs[i] : i \in 1..Len(readyJobs)}
                  \cup {roomJobs[r][i] : i \in 1..Len(roomJobs[r])}
                  \cup {item[r][u] : u \in Updaters}
        BY DEF OnTheWay
      <4>8. \A k \in 1..Len(readyJobs') : readyJobs'[k] \in {readyJobs[i] : i \in 1..Len(readyJobs)}
        BY <4>3
      <4>9. \A k \in 1..Len(roomJobs'[r]) : roomJobs'[r][k] \in
              {roomJobs[r][i] : i \in 1..Len(roomJobs[r])}
                \cup {readyJobs[i] : i \in 1..Len(readyJobs)}
        BY <4>2, <4>6
      <4> QED
        BY <1>1, <3>1, <4>7, <4>8, <4>9
    <3> QED
      BY <2>3, <3>2, <3>3 DEF PushReady
  <2> QED
    BY <2>1, <2>2, <2>3 DEF TimerRun
<1>4. \A r \in Rooms : Ticks(r)' \subseteq Ticks(r)
  BY <1>3 DEF Ticks
<1> QED
  BY <1>1, <1>2, <1>4, NoNewTick

\* The tick that is reserved starts where the updater's own tick ended.
LEMMA ReserveExact ==
  ASSUME IInv, ExactInv, NEW r \in Rooms, NEW u \in Updaters, ReserveTick(r, u)
  PROVE  ExactInv'
<1> USE DEF timerVars
<1> DEFINE new == [room |-> r, job |-> "tick", time |-> clock + Period, arg |-> tick[r][u]]
<1>1. /\ at[r][u] = "reserve" /\ item' = [item EXCEPT ![r][u] = new]
      /\ at' = [at EXCEPT ![r][u] = "insert"]
      /\ UNCHANGED <<timerQueue, readyJobs, roomJobs, tick, since, simulated>>
  BY DEF ReserveTick, Goto
<1>2. new.arg = tick[r][u] /\ new.room = r
  OBVIOUS
<1> HIDE DEF new
<1>3. \A q \in Rooms, v \in Updaters :
        ~(q = r /\ v = u) => at'[q][v] = at[q][v] /\ item'[q][v] = item[q][v]
  BY <1>1 DEF IInv, Basics, TypeOK
<1>4. at'[r][u] = "insert" /\ item'[r][u] = new
  BY <1>1 DEF IInv, Basics, TypeOK
<1>5. ASSUME NEW q \in Rooms PROVE Accounted(q)' = Accounted(q)
  <2>1. \/ at'[q]["job"] = at[q]["job"]
        \/ at[q]["job"] = "reserve" /\ at'[q]["job"] = "insert"
    <3>1. CASE q = r /\ u = "job"
      BY <1>1, <1>4, <3>1
    <3>2. CASE ~(q = r /\ u = "job")
      BY <1>3, <3>2 DEF Updaters
    <3> QED
      BY <3>1, <3>2
  <2> QED
    BY <1>1, <2>1 DEF Accounted, Pending
<1>6. ASSUME NEW q \in Rooms, NEW x \in Ticks(q)' PROVE x \in Ticks(q) \/ (q = r /\ x = new)
  <2>1. /\ x \in timerQueue \cup {readyJobs[k] : k \in 1..Len(readyJobs)}
              \cup {roomJobs[q][k] : k \in 1..Len(roomJobs[q])} \cup {item'[q][v] : v \in Updaters}
        /\ x # NoItem /\ IsTick(x, q)
    BY <1>1 DEF Ticks, OnTheWay, IsTick
  <2>2. CASE \E v \in Updaters : x = item'[q][v]
    <3>1. PICK v \in Updaters : x = item'[q][v]
      BY <2>2
    <3>2. CASE q = r /\ v = u
      BY <1>4, <3>1, <3>2
    <3>3. CASE ~(q = r /\ v = u)
      <4>1. x = item[q][v]
        BY <1>3, <3>1, <3>3
      <4>2. x \in OnTheWay(q)
        BY <4>1 DEF OnTheWay
      <4> QED
        BY <2>1, <4>2 DEF Ticks, IsTick
    <3> QED
      BY <3>2, <3>3
  <2>3. CASE ~\E v \in Updaters : x = item'[q][v]
    <3>1. x \in OnTheWay(q)
      BY <2>1, <2>3 DEF OnTheWay
    <3> QED
      BY <2>1, <3>1 DEF Ticks, IsTick
  <2> QED
    BY <2>2, <2>3
<1>7. new.arg = Accounted(r)
  BY <1>1, <1>2 DEF ExactInv, TimeIsExact
<1> QED
  BY <1>1, <1>3, <1>4, <1>5, <1>6, <1>7 DEF ExactInv, TimeIsExact, FirstIsEmpty

\* What is inserted was on the way.
LEMMA InsertExact ==
  ASSUME IInv, ExactInv, NEW r \in Rooms, NEW u \in Updaters, Insert(r, u)
  PROVE  ExactInv'
<1> USE DEF IInv, Basics, timerVars
<1>1. /\ timerQueue' = timerQueue \cup {item[r][u]} /\ item' = [item EXCEPT ![r][u] = NoItem]
      /\ \/ at[r][u] = "insert" /\ at' = [at EXCEPT ![r][u] = "objects"]
         \/ at[r][u] = "insertHit" /\ at' = [at EXCEPT ![r][u] = "idle"]
      /\ UNCHANGED <<readyJobs, roomJobs, tick, since, simulated>>
  BY DEF Insert, Goto
<1>2. \A q \in Rooms, v \in Updaters :
        ~(q = r /\ v = u) => at'[q][v] = at[q][v] /\ item'[q][v] = item[q][v]
  BY <1>1 DEF TypeOK
<1>3. /\ item'[r][u] = NoItem
      /\ \/ at[r][u] = "insert" /\ at'[r][u] = "objects"
         \/ at[r][u] = "insertHit" /\ at'[r][u] = "idle"
  BY <1>1 DEF TypeOK
<1>4. ASSUME NEW q \in Rooms PROVE Accounted(q)' = Accounted(q)
  <2>1. \/ at'[q]["job"] = at[q]["job"]
        \/ at[q]["job"] = "insert" /\ at'[q]["job"] = "objects"
        \/ at[q]["job"] = "insertHit" /\ at'[q]["job"] = "idle"
    BY <1>2, <1>3 DEF Updaters
  <2> QED
    BY <1>1, <2>1 DEF Accounted, Pending
<1>5. item[r][u].room = r
  BY <1>1 DEF ItemInv, IsTick
<1>6. ASSUME NEW q \in Rooms PROVE Ticks(q)' \subseteq Ticks(q)
  BY <1>1, <1>2, <1>3, <1>5 DEF Ticks, OnTheWay
<1> QED
  BY <1>1, <1>2, <1>3, <1>4, <1>6, NoNewTick

\* The objects get what was pending.
LEMMA UpdateObjectsExact ==
  ASSUME IInv, ExactInv, NEW r \in Rooms, NEW u \in Updaters, UpdateObjects(r, u)
  PROVE  ExactInv'
<1> USE DEF IInv, Basics, timerVars
<1>1. /\ at[r][u] = "objects"
      /\ simulated' = [simulated EXCEPT ![r] = @ + (tick[r][u] - since[r][u])]
      /\ UNCHANGED <<timerQueue, readyJobs, roomJobs, tick, since>>
  BY DEF UpdateObjects
<1> DEFINE Moved ==
          /\ \A q \in Rooms, v \in Updaters :
               ~(q = r /\ v = u) => at'[q][v] = at[q][v] /\ item'[q][v] = item[q][v]
          /\ at'[r][u] \in {"idle", "insertHit"}
          /\ item'[r][u] = item[r][u] \/ item'[r][u].job = "hit"
<1>2. Moved
  <2>1. CASE at' = [at EXCEPT ![r][u] = "idle"] /\ UNCHANGED item
    BY <2>1 DEF TypeOK
  <2>2. ASSUME at' = [at EXCEPT ![r][u] = "insertHit"], NEW delay \in HitDelays,
               item' = [item EXCEPT ![r][u] = [room |-> r, job |-> "hit",
                          time |-> clock + delay, arg |-> tick[r][u]]]
        PROVE  Moved
    <3> DEFINE i == [room |-> r, job |-> "hit", time |-> clock + delay, arg |-> tick[r][u]]
    <3>1. i.job = "hit" /\ item' = [item EXCEPT ![r][u] = i]
      BY <2>2
    <3> HIDE DEF i
    <3> QED
      BY <2>2, <3>1 DEF TypeOK
  <2> QED
    BY <2>1, <2>2 DEF UpdateObjects, Goto
<1>3. ASSUME NEW q \in Rooms PROVE Accounted(q)' = Accounted(q)
  <2>1. /\ simulated[q] \in Nat /\ tick[q][u] \in Nat /\ since[q][u] \in Nat
        /\ q # r => simulated'[q] = simulated[q]
        /\ q = r => simulated'[q] = simulated[q] + (tick[q][u] - since[q][u])
    BY <1>1, RoomTickAssumption DEF TypeOK, Times
  <2>2. CASE q # r
    <3>1. at'[q]["job"] = at[q]["job"]
      BY <1>2, <2>2 DEF Updaters
    <3> QED
      BY <1>1, <2>1, <2>2, <3>1 DEF Accounted, Pending
  <2>3. CASE q = r /\ u = "job"
    BY <1>1, <1>2, <2>1, <2>3 DEF Accounted, Pending
  <2>4. CASE q = r /\ u = "init"
    <3>1. at'[q]["job"] = at[q]["job"]
      BY <1>2, <2>4 DEF Updaters
    <3>2. simulated'[q] = simulated[q]
      BY <2>1, <2>4 DEF ExactInv, FirstIsEmpty
    <3> QED
      BY <1>1, <3>1, <3>2 DEF Accounted, Pending
  <2> QED
    BY <2>2, <2>3, <2>4 DEF Updaters
<1>4. ASSUME NEW q \in Rooms PROVE Ticks(q)' \subseteq Ticks(q)
  BY <1>1, <1>2 DEF Ticks, OnTheWay
<1> QED
  BY <1>1, <1>2, <1>3, <1>4, NoNewTick

\* A tick that is run was the only one, so its argument is where the objects are.
LEMMA RunJobExact ==
  ASSUME IInv, ExactInv, NEW r \in Rooms, RunJob(r)
  PROVE  ExactInv'
<1> USE DEF IInv, Basics, timerVars
<1> DEFINE j == Head(roomJobs[r])
<1>1. /\ at[r]["job"] = "idle" /\ roomJobs[r] # <<>>
      /\ roomJobs' = [roomJobs EXCEPT ![r] = Tail(@)]
      /\ UNCHANGED <<timerQueue, readyJobs, item, simulated>>
  BY DEF RunJob
<1>2. roomJobs[r] \in Seq(Items) /\ Len(roomJobs[r]) \in Nat /\ 1 \in 1..Len(roomJobs[r])
  BY <1>1, LenProperties DEF TypeOK
<1>3. j = roomJobs[r][1] /\ j \in Items /\ j.room = r /\ j.arg \in Nat
  <2>1. j = roomJobs[r][1] /\ j \in Items
    BY <1>1, <1>2, HeadTailProperties
  <2> QED
    BY <1>2, <2>1, RoomTickAssumption DEF QueueInv, Items, Times
<1>4. \A k \in 1..Len(roomJobs'[r]) :
        roomJobs'[r][k] = roomJobs[r][k + 1] /\ k + 1 \in 1..Len(roomJobs[r])
  <2>1. /\ Tail(roomJobs[r]) \in Seq(Items) /\ Len(Tail(roomJobs[r])) = Len(roomJobs[r]) - 1
        /\ \A k \in 1..Len(Tail(roomJobs[r])) : Tail(roomJobs[r])[k] = roomJobs[r][k + 1]
    BY <1>1, <1>2, HeadTailProperties
  <2>2. roomJobs'[r] = Tail(roomJobs[r])
    BY <1>1 DEF TypeOK
  <2> QED
    BY <1>2, <2>1, <2>2
<1>5. \A q \in Rooms \ {r} : roomJobs'[q] = roomJobs[q]
  BY <1>1 DEF TypeOK
<1>6. ASSUME NEW q \in Rooms PROVE Ticks(q)' \subseteq Ticks(q)
  <2>1. CASE q # r
    BY <1>1, <1>5, <2>1 DEF Ticks, OnTheWay
  <2>2. CASE q = r
    <3>1. OnTheWay(r)' \subseteq OnTheWay(r)
      BY <1>1, <1>4 DEF OnTheWay
    <3> QED
      BY <2>2, <3>1 DEF Ticks
  <2> QED
    BY <2>1, <2>2
<1>7. \/ j.job = "hit" /\ UNCHANGED <<at, tick, since>>
      \/ /\ j.job = "tick" /\ tick' = [tick EXCEPT ![r]["job"] = clock]
         /\ since' = [since EXCEPT ![r]["job"] = j.arg]
         /\ at' = [at EXCEPT ![r]["job"] = "reserve"]
  BY DEF RunJob, Goto
<1> HIDE DEF j
<1>8. CASE j.job = "hit" /\ UNCHANGED <<at, tick, since>>
  <2>1. \A q \in Rooms : Accounted(q)' = Accounted(q)
    BY <1>1, <1>8 DEF Accounted, Pending
  <2> QED
    BY <1>6, <1>8, <2>1, NoNewTick
<1>9. CASE /\ j.job = "tick" /\ tick' = [tick EXCEPT ![r]["job"] = clock]
           /\ since' = [since EXCEPT ![r]["job"] = j.arg]
           /\ at' = [at EXCEPT ![r]["job"] = "reserve"]
  <2>1. 1 \in JobTicks(r)
    BY <1>2, <1>3, <1>9 DEF JobTicks, IsTick
  <2>2. InJobs(r) /\ JobTicks(r) = {1}
    BY <2>1 DEF Token, InUpdate, InQueue, InReady, InJobs
  <2>3. Ticks(r) = {j}
    <3>1. {v \in Updaters : at[r][v] = "insert"} = {}
      BY <2>2 DEF InJobs, Tickers
    <3> QED
      BY <1>3, <2>2, <3>1, TicksByPlace DEF InJobs
  <2>4. Ticks(r)' = {}
    <3> SUFFICES ASSUME NEW x \in Ticks(r)' PROVE FALSE
      OBVIOUS
    <3>1. /\ x \in timerQueue \cup {readyJobs[k] : k \in 1..Len(readyJobs)}
                 \cup {roomJobs'[r][k] : k \in 1..Len(roomJobs'[r])}
                 \cup {item[r][u] : u \in Updaters}
          /\ x # NoItem /\ IsTick(x, r)
      BY <1>1 DEF Ticks, OnTheWay, IsTick
    <3>2. x \notin timerQueue
      BY <2>2, <3>1 DEF InJobs, QueueTicks
    <3>3. x \notin {readyJobs[k] : k \in 1..Len(readyJobs)}
      BY <2>2, <3>1 DEF InJobs, ReadyTicks
    <3>4. x \notin {roomJobs'[r][k] : k \in 1..Len(roomJobs'[r])}
      <4> SUFFICES ASSUME NEW k \in 1..Len(roomJobs'[r]), x = roomJobs'[r][k] PROVE FALSE
        OBVIOUS
      <4>1. k + 1 \in JobTicks(r)
        BY <1>4, <3>1 DEF JobTicks
      <4> QED
        BY <2>2, <4>1
    <3>5. x \notin {item[r][u] : u \in Updaters}
      <4> SUFFICES ASSUME NEW u \in Updaters, x = item[r][u] PROVE FALSE
        OBVIOUS
      <4>1. at[r][u] = "insertHit"
        BY <2>2, <3>1 DEF ItemInv, InJobs, Tickers
      <4> QED
        BY <3>1, <4>1 DEF ItemInv, IsTick
    <3> QED
      BY <3>1, <3>2, <3>3, <3>4, <3>5
  <2>5. at[r]["init"] # "reserve" /\ "job" \in Updaters /\ "init" \in Updaters
    BY <2>2 DEF InJobs, Tickers, Updaters
  <2>6. /\ at'[r]["job"] = "reserve" /\ tick'[r]["job"] = clock /\ since'[r]["job"] = j.arg
        /\ at'[r]["init"] = at[r]["init"]
        /\ \A q \in Rooms : /\ tick'[q]["init"] = tick[q]["init"]
                            /\ since'[q]["init"] = since[q]["init"]
        /\ \A q \in Rooms \ {r} : at'[q] = at[q] /\ tick'[q] = tick[q] /\ since'[q] = since[q]
    BY <1>9, <2>5 DEF TypeOK
  <2>7. Accounted(r)' = tick'[r]["job"]
    <3>1. simulated[r] \in Nat /\ clock \in Nat
      BY RoomTickAssumption DEF TypeOK, Times
    <3>2. Accounted(r) = simulated[r]
      BY <1>1, <3>1 DEF Accounted, Pending
    <3>3. j.arg = simulated[r]
      BY <2>3, <3>2 DEF ExactInv, TimeIsExact
    <3>4. Accounted(r)' = simulated[r] + (clock - j.arg)
      BY <1>1, <2>6 DEF Accounted, Pending
    <3> QED
      BY <1>3, <2>6, <3>1, <3>3, <3>4
  <2>8. \A q \in Rooms \ {r} : Accounted(q)' = Accounted(q)
    BY <1>1, <2>6 DEF Accounted, Pending
  <2>9. FirstIsEmpty'
    BY <2>6 DEF ExactInv, FirstIsEmpty
  <2>10. ASSUME NEW q \in Rooms
         PROVE  /\ \A i \in Ticks(q)' : i.arg = Accounted(q)'
                /\ \A u \in Updaters : at'[q][u] = "reserve" => tick'[q][u] = Accounted(q)'
    <3>1. CASE q = r
      BY <2>4, <2>5, <2>6, <2>7, <3>1 DEF Updaters
    <3>2. CASE q # r
      BY <1>6, <2>6, <2>8, <3>2 DEF ExactInv, TimeIsExact
    <3> QED
      BY <3>1, <3>2
  <2> QED
    BY <2>9, <2>10 DEF ExactInv, TimeIsExact
<1> QED
  BY <1>7, <1>8, <1>9

\* Nor does any time pass by it.
LEMMA ServingExact ==
  ASSUME IInv, ExactInv, NEW r \in Rooms, Leave(r) \/ PacketPushes(r)
  PROVE  ExactInv'
<1>1. UNCHANGED <<timerQueue, readyJobs, roomJobs, at, tick, since, item, simulated>>
  BY DEF Leave, PacketPushes, timerVars, updateVars
<1>2. \A q \in Rooms : Ticks(q)' = Ticks(q) /\ Accounted(q)' = Accounted(q)
  BY <1>1 DEF Ticks, OnTheWay, Accounted, Pending
<1> QED
  BY <1>1, <1>2, NoNewTick

\* A room's objects are updated with all the time that passes between its ticks, once.
THEOREM TimeIsExactHolds == Spec => []TimeIsExact
<1>1. IInv /\ ExactInv /\ [Next]_vars => ExactInv'
  <2> SUFFICES ASSUME IInv, ExactInv, [Next]_vars PROVE ExactInv'
    OBVIOUS
  <2>1. CASE UNCHANGED vars
    <3>1. /\ \A r \in Rooms : Ticks(r)' = Ticks(r) /\ Accounted(r)' = Accounted(r)
          /\ UNCHANGED <<at, tick, since>>
      BY <2>1 DEF vars, Ticks, OnTheWay, Accounted, Pending
    <3> QED
      BY <3>1, NoNewTick
  <2>2. CASE Pass \/ TimerRun
    BY <2>2, TimerExact
  <2>3. ASSUME NEW r \in Rooms, Update(r) PROVE ExactInv'
    BY <2>3, ReserveExact, InsertExact, UpdateObjectsExact, RunJobExact, ServingExact DEF Update
  <2> QED
    BY <2>1, <2>2, <2>3 DEF Next
<1>2. ExactInv => TimeIsExact
  BY DEF ExactInv
<1> QED
  BY IInvHolds, InitExact, <1>1, <1>2, PTL DEF Spec
=============================================================================
