--------------------------- MODULE MonsterAIProofs ---------------------------
(***************************************************************************)
(* Proofs about MonsterAI, for every set of players and all hit points.    *)
(*                                                                         *)
(* The argument: each method of the monster is a function on its record.   *)
(* Those that a decision is made of keep the record Sound; FollowPath, the *)
(* end of every tick, makes it Settled, and what the players do keeps it   *)
(* so.  StandsStill and AwakeMonsterActs are parts of Settled.             *)
(*                                                                         *)
(* What the clients are told follows the monster because it is settled     *)
(* between two ticks: running and having speed are then the same, so the   *)
(* two comparisons of a tick, after the decision and after the path, see   *)
(* every change; a blow can only stop it.  The monster that is handed over *)
(* from its last viewer to another is the one exception, and NPCMoveShows  *)
(* finds it.                                                               *)
(***************************************************************************)
EXTENDS MonsterAI, TLAPS

\* One has a path just while it runs; the speed follows with the next tick.
Coherent(m) == /\ m \in Monsters
               /\ m.hasPath <=> m.run
               /\ m.speed => m.run

Acts(m) == ~IsDead(m) /\ m.wakeUp =>
             /\ m.state \in {"PATROL", "TRACE", "ATTACK"}
             /\ m.state # "PATROL" => m.target # None

Still(m) == IsDead(m) \/ ~m.wakeUp => ~m.run

Sound(m) == Coherent(m) /\ Still(m) /\ Acts(m)
Settled(m) == Sound(m) /\ (m.run => m.speed)

\* n is m but for what a state or a path changes.
Same(m, n) == n.hp = m.hp /\ n.wakeUp = m.wakeUp /\ n.target = m.target

-----------------------------------------------------------------------------
(* The monster's methods.                                                  *)

\* What StopMove leaves stands; nothing else of the monster changes.
LEMMA StopMoveStops ==
  ASSUME NEW m, Coherent(m)
  PROVE  /\ Coherent(StopMove(m)) /\ ~StopMove(m).run /\ ~StopMove(m).speed
         /\ Same(m, StopMove(m)) /\ StopMove(m).state = m.state
<1>1. CASE m.run
  <2>1. StopMove(m) = [m EXCEPT !.run = FALSE, !.hasPath = FALSE, !.speed = FALSE]
    BY <1>1 DEF StopMove
  <2> QED
    BY <2>1 DEF Coherent, Same, Monsters
<1>2. CASE ~m.run
  <2>1. StopMove(m) = m
    BY <1>2 DEF StopMove
  <2> QED
    BY <1>2, <2>1 DEF Coherent, Same
<1> QED
  BY <1>1, <1>2

\* ChangeState ends in the state it is asked for, and never sets the monster going.
LEMMA ChangeStateChanges ==
  ASSUME NEW m, Coherent(m), NEW state \in MonsterState
  PROVE  LET n == ChangeState(m, state) IN
         /\ Coherent(n) /\ Same(m, n) /\ n.state = state
         /\ n.run => m.run
         /\ n.run /\ m.speed => n.speed
         /\ m.state # state => ~n.run
<1> DEFINE s == StopMove(m)
           n == [s EXCEPT !.state = state]
<1>1. CASE m.state = state
  <2>1. ChangeState(m, state) = m
    BY <1>1 DEF ChangeState
  <2> QED
    BY <1>1, <2>1 DEF Same
<1>2. CASE m.state # state
  <2>1. ChangeState(m, state) = n
    BY <1>2 DEF ChangeState
  <2>2. Coherent(s) /\ ~s.run /\ ~s.speed /\ Same(m, s)
    BY StopMoveStops
  <2> HIDE DEF s
  <2>3. Coherent(n) /\ Same(m, n) /\ n.state = state /\ ~n.run
    BY <2>2 DEF Coherent, Same, Monsters
  <2> QED
    BY <2>1, <2>3
<1> QED
  BY <1>1, <1>2

\* A target is only a target.
LEMMA SetTargetSets ==
  ASSUME NEW m, Coherent(m), NEW p \in Players \cup {None}
  PROVE  LET n == SetTarget(m, p) IN
         /\ Coherent(n) /\ n.target = p /\ n.hp = m.hp /\ n.wakeUp = m.wakeUp
         /\ n.state = m.state /\ n.run = m.run /\ n.speed = m.speed
BY DEF Coherent, SetTarget, Monsters

\* A player that comes near finds or makes the monster awake, on patrol.
LEMMA WakeUpSettles ==
  ASSUME NEW m, Settled(m)
  PROVE  Settled(WakeUpByPlayer(m))
<1>1. CASE IsDead(m) \/ m.wakeUp
  <2>1. WakeUpByPlayer(m) = m
    BY <1>1 DEF WakeUpByPlayer
  <2> QED
    BY <2>1
<1>2. CASE ~(IsDead(m) \/ m.wakeUp)
  <2> DEFINE k == [m EXCEPT !.wakeUp = TRUE]
             n == ChangeState(k, "PATROL")
  <2>1. WakeUpByPlayer(m) = n
    BY <1>2 DEF WakeUpByPlayer
  <2>2. Coherent(k) /\ k.wakeUp /\ ~k.run /\ k.hp = m.hp
    BY <1>2 DEF Settled, Sound, Still, Coherent, Monsters
  <2> HIDE DEF k
  <2>3. Coherent(n) /\ Same(k, n) /\ n.state = "PATROL" /\ ~n.run
    BY <2>2, ChangeStateChanges DEF MonsterState
  <2>4. Settled(n)
    BY <1>2, <2>2, <2>3 DEF Settled, Sound, Still, Acts, Same, IsDead
  <2> QED
    BY <2>1, <2>4
<1> QED
  BY <1>1, <1>2

\* The last player that goes puts it to sleep, and it stops: an awake monster is not in NONE,
\* so ChangeState does not return early on one that runs.
LEMMA SleepSettles ==
  ASSUME NEW m, Settled(m), NEW viewList
  PROVE  Settled(SleepIfNoPlayer(m, viewList))
<1>1. CASE IsDead(m) \/ viewList # {}
  <2>1. SleepIfNoPlayer(m, viewList) = m
    BY <1>1 DEF SleepIfNoPlayer
  <2> QED
    BY <2>1
<1>2. CASE ~(IsDead(m) \/ viewList # {})
  <2> DEFINE k == [m EXCEPT !.wakeUp = FALSE]
             n == ChangeState(k, "NONE")
  <2>1. SleepIfNoPlayer(m, viewList) = n
    BY <1>2 DEF SleepIfNoPlayer
  <2>2. Coherent(k) /\ ~k.wakeUp /\ k.run = m.run /\ k.state = m.state
    BY DEF Settled, Sound, Coherent, Monsters
  <2>3. m.state = "NONE" => ~m.run
    BY <1>2 DEF Settled, Sound, Still, Acts
  <2> HIDE DEF k
  <2>4. Coherent(n) /\ Same(k, n) /\ ~n.run
    BY <2>2, <2>3, ChangeStateChanges DEF MonsterState
  <2>5. Settled(n)
    BY <2>2, <2>4 DEF Settled, Sound, Still, Acts, Same
  <2> QED
    BY <2>1, <2>5
<1> QED
  BY <1>1, <1>2

\* A blow takes one point, and the last one stops the monster.
LEMMA HurtHurts ==
  ASSUME NEW m, Coherent(m), ~IsDead(m)
  PROVE  LET n == Hurt(m) IN
         /\ Coherent(n) /\ n.wakeUp = m.wakeUp
         /\ n.run => m.run
         /\ n.run /\ m.speed => n.speed
         /\ IsDead(n) => ~n.run
<1> DEFINE k == [m EXCEPT !.hp = @ - 1]
<1>1. m.hp - 1 \in 0..MonsterHp
  BY MonsterAssumption DEF IsDead, Coherent, Monsters
<1>2. Coherent(k) /\ k.wakeUp = m.wakeUp /\ k.run = m.run /\ k.speed = m.speed
  BY <1>1 DEF Coherent, Monsters
<1> HIDE DEF k
<1>3. CASE IsDead(k)
  <2> DEFINE s == StopMove(k)
  <2>1. Coherent(s) /\ ~s.run /\ Same(k, s)
    BY <1>2, StopMoveStops
  <2> HIDE DEF s
  <2>2. Coherent(ChangeState(s, "NONE")) /\ Same(s, ChangeState(s, "NONE"))
        /\ ~ChangeState(s, "NONE").run
    BY <2>1, ChangeStateChanges DEF MonsterState
  <2>3. Hurt(m) = ChangeState(s, "NONE")
    BY <1>3 DEF Hurt, k, s
  <2> QED
    BY <1>2, <2>1, <2>2, <2>3 DEF Same
<1>4. CASE ~IsDead(k)
  <2>1. Hurt(m) = k
    BY <1>4 DEF Hurt, k
  <2> QED
    BY <1>2, <1>4, <2>1
<1> QED
  BY <1>3, <1>4

\* OnDamaged goes on changing the state of a monster that has just died; still it stands.
LEMMA OnDamagedSettles ==
  ASSUME NEW m, Settled(m), ~IsDead(m), NEW p \in Players
  PROVE  Settled(OnDamaged(m, p))
<1> DEFINE a == Hurt(m)
           b == ChangeState(a, "HIT")
           c == SetTarget(b, p)
           d == ChangeState(c, "TRACE")
<1>1. OnDamaged(m, p) = d
  BY DEF OnDamaged
<1>2. Coherent(m)
  BY DEF Settled, Sound
<1>3. /\ Coherent(a) /\ a.wakeUp = m.wakeUp /\ (a.run => m.run) /\ (a.run /\ m.speed => a.speed)
      /\ IsDead(a) => ~a.run
  BY <1>2, HurtHurts
<1> HIDE DEF a
<1>4. /\ Coherent(b) /\ Same(a, b) /\ (b.run => a.run) /\ (b.run /\ a.speed => b.speed)
  BY <1>3, ChangeStateChanges DEF MonsterState
<1> HIDE DEF b
<1>5. /\ Coherent(c) /\ c.target = p /\ c.hp = b.hp /\ c.wakeUp = b.wakeUp /\ c.run = b.run
      /\ c.speed = b.speed
  BY <1>4, SetTargetSets
<1> HIDE DEF c
<1>6. /\ Coherent(d) /\ Same(c, d) /\ d.state = "TRACE" /\ (d.run => c.run) /\ (d.run /\ c.speed => d.speed)
  BY <1>5, ChangeStateChanges DEF MonsterState
<1> HIDE DEF d
<1>7. /\ d.run => a.run /\ m.run
      /\ IsDead(d) => IsDead(a)
      /\ d.wakeUp = m.wakeUp /\ d.target = p
      /\ m.run => m.speed
  BY <1>3, <1>4, <1>5, <1>6 DEF Same, IsDead, Settled
<1>8. Still(d)
  BY <1>3, <1>7 DEF Still, Settled, Sound
<1>9. Acts(d)
  BY <1>6, <1>7, MonsterAssumption DEF Acts
<1>10. d.run => d.speed
  BY <1>3, <1>4, <1>5, <1>6, <1>7
<1> QED
  BY <1>1, <1>6, <1>8, <1>9, <1>10 DEF Settled, Sound

-----------------------------------------------------------------------------
(* A decision and the step that ends every tick.                           *)

Live(m) == ~IsDead(m) /\ m.wakeUp

\* A path found or not, the record stays sound.
LEMMA SetPathSound ==
  ASSUME NEW m, Sound(m), Live(m), NEW n \in SetPath(m)
  PROVE  Sound(n) /\ Live(n)
<1>1. CASE n = [m EXCEPT !.hasPath = TRUE, !.run = TRUE]
  BY <1>1 DEF Sound, Live, Coherent, Still, Acts, IsDead, Monsters
<1>2. CASE n = StopMove(m)
  <2>1. Coherent(n) /\ ~n.run /\ Same(m, n) /\ n.state = m.state
    BY <1>2, StopMoveStops DEF Sound
  <2> QED
    BY <2>1 DEF Sound, Live, Still, Acts, IsDead, Same
<1> QED
  BY <1>1, <1>2 DEF SetPath

\* From a live monster ChangeState and SetTarget together keep the record sound when they leave
\* it on patrol or with a target.
LEMMA ChangeSound ==
  ASSUME NEW m, Coherent(m), Live(m), NEW state \in {"PATROL", "TRACE", "ATTACK"},
         state = "PATROL" \/ m.target # None
  PROVE  Sound(ChangeState(m, state)) /\ Live(ChangeState(m, state))
<1> DEFINE n == ChangeState(m, state)
<1>1. Coherent(n) /\ Same(m, n) /\ n.state = state
  BY ChangeStateChanges DEF MonsterState
<1> HIDE DEF n
<1> QED
  BY <1>1 DEF Sound, Live, Still, Acts, IsDead, Same, n

\* Whatever a live monster decides, the record stays sound.
LEMMA UpdateAISound ==
  ASSUME NEW m, Sound(m), Live(m), viewers \subseteq Players, NEW n \in UpdateAI(m)
  PROVE  Sound(n) /\ Live(n)
<1>0. Coherent(m)
  BY DEF Sound
<1>1. CASE m.state = "PATROL"
  <2>1. n \in UpdatePatrol(m)
    BY <1>1 DEF UpdateAI
  <2>2. CASE \E p \in viewers : n = ChangeState(SetTarget(m, p), "TRACE")
    <3>1. PICK p \in Players : n = ChangeState(SetTarget(m, p), "TRACE")
      BY <2>2
    <3> DEFINE k == SetTarget(m, p)
    <3>2. Coherent(k) /\ k.target = p /\ Live(k)
      BY <1>0, SetTargetSets DEF Live, IsDead
    <3> HIDE DEF k
    <3>3. k.target # None
      BY <3>2, MonsterAssumption
    <3> QED
      BY <3>1, <3>2, <3>3, ChangeSound DEF k
  <2>3. CASE n = m \/ n \in SetPath(m)
    BY <2>3, SetPathSound
  <2> QED
    BY <2>1, <2>2, <2>3 DEF UpdatePatrol
<1>2. CASE m.state = "TRACE"
  <2> DEFINE k == SetTarget(m, None)
             dropped == ChangeState(k, "PATROL")
  <2>1. Sound(dropped) /\ Live(dropped)
    <3>1. Coherent(k) /\ Live(k)
      BY <1>0, SetTargetSets DEF Live, IsDead
    <3> HIDE DEF k
    <3> QED
      BY <3>1, ChangeSound
  <2>2. n = dropped \/ n = ChangeState(m, "ATTACK") \/ n = m \/ n \in SetPath(m)
    BY <1>2 DEF UpdateAI, UpdateTrace
  <2>3. m.target # None
    BY <1>2 DEF Sound, Acts, Live
  <2>4. Sound(ChangeState(m, "ATTACK")) /\ Live(ChangeState(m, "ATTACK"))
    BY <1>0, <2>3, ChangeSound
  <2> HIDE DEF dropped
  <2> QED
    BY <2>1, <2>2, <2>4, SetPathSound
<1>3. CASE m.state = "ATTACK"
  <2>1. n = ChangeState(m, "PATROL") \/ n = ChangeState(m, "TRACE") \/ n = m
    BY <1>3 DEF UpdateAI, UpdateAttack
  <2>2. m.target # None
    BY <1>3 DEF Sound, Acts, Live
  <2>3. Sound(ChangeState(m, "PATROL")) /\ Live(ChangeState(m, "PATROL"))
    BY <1>0, ChangeSound
  <2>4. Sound(ChangeState(m, "TRACE")) /\ Live(ChangeState(m, "TRACE"))
    BY <1>0, <2>2, ChangeSound
  <2> QED
    BY <2>1, <2>3, <2>4
<1> QED
  BY <1>1, <1>2, <1>3 DEF Sound, Acts, Live

\* FollowPath brings the speed after the path.
LEMMA FollowPathSettles ==
  ASSUME NEW m, Sound(m), Live(m), NEW n \in FollowPath(m)
  PROVE  Settled(n)
<1>1. CASE m.hasPath /\ n = [m EXCEPT !.speed = TRUE, !.run = TRUE]
  BY <1>1 DEF Settled, Sound, Live, Coherent, Still, Acts, IsDead, Monsters
<1>2. CASE m.hasPath /\ n = StopMove(m)
  <2>1. Coherent(n) /\ ~n.run /\ Same(m, n) /\ n.state = m.state
    BY <1>2, StopMoveStops DEF Sound
  <2> QED
    BY <2>1 DEF Settled, Sound, Live, Still, Acts, IsDead, Same
<1>3. CASE ~m.hasPath /\ n = m
  BY <1>3 DEF Settled, Sound, Coherent
<1> QED
  BY <1>1, <1>2, <1>3 DEF FollowPath

-----------------------------------------------------------------------------
(* The steps.                                                              *)

IInv == TypeOK /\ Settled(monster)

\* The monster sleeps among players that are nobody's viewers.
LEMMA InitIInv == Init => IInv
<1> SUFFICES ASSUME Init PROVE IInv
  OBVIOUS
<1>1. monster \in Monsters
  BY MonsterAssumption DEF Init, Monsters, MonsterState
<1>2. Settled(monster)
  BY <1>1, MonsterAssumption DEF Init, Settled, Sound, Coherent, Still, Acts
<1>3. PlayerHp \in 0..PlayerHp
  BY MonsterAssumption
<1>4. /\ place \in [Players -> {"outside", "room", "left", "destroyed"}]
      /\ hp \in [Players -> 0..PlayerHp] /\ hits \subseteq Hits
      /\ viewers \subseteq {p \in Players : place[p] = "room"} /\ running \subseteq viewers
  BY <1>3 DEF Init
<1>5. crashed \in BOOLEAN
  BY DEF Init
<1> QED
  BY <1>1, <1>2, <1>4, <1>5 DEF IInv, TypeOK

\* What is broadcast goes to the viewers.
LEMMA BroadcastToViewers ==
  ASSUME NEW m, NEW n, NEW shown, shown \subseteq viewers
  PROVE  Broadcast(m, n, shown) \subseteq viewers
BY DEF Broadcast

\* UpdateView keeps the monster settled and shows it to nobody but its viewers.
LEMMA NPCMoveSettles ==
  ASSUME NEW m, Settled(m), NEW shown, shown \subseteq viewers, NEW L, NEW E, NPCMove(m, shown, L, E)
  PROVE  Settled(monster') /\ running' \subseteq viewers' /\ viewers' = (viewers \ L) \cup E
<1> DEFINE slept == IF L = {} THEN m ELSE SleepIfNoPlayer(m, viewers \ L)
<1>1. Settled(slept)
  BY SleepSettles
<1>2. monster' = IF E = {} THEN slept ELSE WakeUpByPlayer(slept)
  BY DEF NPCMove
<1> HIDE DEF slept
<1>3. Settled(monster')
  BY <1>1, <1>2, WakeUpSettles
<1> QED
  BY <1>3 DEF NPCMove

\* A player comes into view, or goes out of it.
LEMMA EnterViewSettles ==
  ASSUME IInv, NEW p \in Players, EnterView(p)
  PROVE  Settled(monster') /\ viewers' = viewers \cup {p} /\ running' \subseteq viewers'
<1>1. Settled(WakeUpByPlayer(monster))
  BY WakeUpSettles DEF IInv
<1> QED
  BY <1>1 DEF EnterView, IInv, TypeOK

\* A player that leaves the view puts it to sleep or leaves it as it was.
LEMMA LeaveViewSettles ==
  ASSUME IInv, NEW p \in Players, LeaveView(p)
  PROVE  Settled(monster') /\ viewers' = viewers \ {p} /\ running' \subseteq viewers'
<1>1. Settled(SleepIfNoPlayer(monster, viewers \ {p}))
  BY SleepSettles DEF IInv
<1> QED
  BY <1>1 DEF LeaveView, IInv, TypeOK

\* A tick of a live monster.
LEMMA UpdateStep ==
  ASSUME IInv, NEW ready \in BOOLEAN, Update(ready)
  PROVE  IInv'
<1>1. Settled(monster) /\ Sound(monster) /\ Live(monster) /\ viewers \subseteq Players
  BY DEF IInv, Settled, Update, Live, TypeOK
<1>2. PICK m \in (IF ready THEN UpdateAI(monster) ELSE {monster}),
          attack \in (IF ready THEN BOOLEAN ELSE {FALSE}) :
        /\ Attacks(attack, m)
        /\ \E n \in FollowPath(m) :
             LET shown == Broadcast(m, n, Broadcast(monster, m, running)) IN
             \/ monster' = n /\ running' = shown /\ UNCHANGED viewers
             \/ /\ n.run
                /\ \E L \in SUBSET viewers,
                      E \in SUBSET {p \in Players \ viewers : place[p] = "room"} :
                     NPCMove(n, shown, L, E)
  BY DEF Update
<1>3. Sound(m) /\ Live(m)
  BY <1>1, <1>2, UpdateAISound
<1>4. PICK n \in FollowPath(m) :
        LET shown == Broadcast(m, n, Broadcast(monster, m, running)) IN
        \/ monster' = n /\ running' = shown /\ UNCHANGED viewers
        \/ /\ n.run
           /\ \E L \in SUBSET viewers,
                 E \in SUBSET {p \in Players \ viewers : place[p] = "room"} :
                NPCMove(n, shown, L, E)
  BY <1>2
<1>5. Settled(n)
  BY <1>3, FollowPathSettles
<1> DEFINE shown == Broadcast(m, n, Broadcast(monster, m, running))
<1>6. shown \subseteq viewers
  BY BroadcastToViewers DEF IInv, TypeOK
<1>7. hits' \subseteq Hits
  BY <1>2 DEF Attacks, IInv, TypeOK, Hits
<1>8. UNCHANGED <<place, hp, crashed>>
  BY DEF Update
<1>9. /\ Settled(monster') /\ running' \subseteq viewers'
      /\ viewers' \subseteq {p \in Players : place'[p] = "room"}
  <2>1. CASE monster' = n /\ running' = shown /\ UNCHANGED viewers
    BY <1>5, <1>6, <1>8, <2>1 DEF IInv, TypeOK
  <2>2. ASSUME NEW L \in SUBSET viewers,
               NEW E \in SUBSET {p \in Players \ viewers : place[p] = "room"},
               NPCMove(n, shown, L, E)
        PROVE  /\ Settled(monster') /\ running' \subseteq viewers'
               /\ viewers' \subseteq {p \in Players : place'[p] = "room"}
    <3> HIDE DEF shown
    <3>1. Settled(monster') /\ running' \subseteq viewers' /\ viewers' = (viewers \ L) \cup E
      BY <1>5, <1>6, <2>2, NPCMoveSettles
    <3> QED
      BY <1>8, <3>1 DEF IInv, TypeOK
  <2> QED
    BY <1>4, <2>1, <2>2
<1>10. monster' \in Monsters
  BY <1>9 DEF Settled, Sound, Coherent
<1> QED
  BY <1>7, <1>8, <1>9, <1>10 DEF IInv, TypeOK

\* A blow that meets the monster.
LEMMA DamagedSettles ==
  ASSUME IInv, NEW p \in Players, ~IsDead(monster), OnMonsterDamaged(p)
  PROVE  Settled(monster') /\ running' \subseteq viewers
<1>1. Settled(monster')
  BY OnDamagedSettles DEF IInv, OnMonsterDamaged
<1>2. running' \subseteq viewers
  BY BroadcastToViewers DEF OnMonsterDamaged, IInv, TypeOK
<1> QED
  BY <1>1, <1>2

\* Hits come and go, the monster stays settled, and only its own hit hurts players.
LEMMA PlayersStep ==
  ASSUME IInv, NEW p \in Players,
         \/ PlayerEnterRoom(p) \/ PlayerMove(p) \/ PlayerLeaveRoom(p) \/ Destroy(p)
         \/ CharacterAttack(p) \/ ExecuteSkillHit(p) \/ ApplyDelayedDamage(p)
  PROVE  IInv' /\ UNCHANGED hp
<1> SUFFICES /\ Settled(monster') /\ running' \subseteq viewers'
             /\ viewers' \subseteq {q \in Players : place'[q] = "room"}
             /\ place' \in [Players -> {"outside", "room", "left", "destroyed"}]
             /\ UNCHANGED hp /\ hits' \subseteq Hits /\ crashed' \in BOOLEAN
  BY DEF IInv, TypeOK, Settled, Sound, Coherent
<1> USE DEF IInv, TypeOK
<1>0. [job |-> "execute", attacker |-> p] \in Hits /\ [job |-> "apply", attacker |-> p] \in Hits
  BY DEF Hits
<1>1. CASE PlayerEnterRoom(p)
  <2>1. CASE EnterView(p)
    BY <1>1, <2>1, EnterViewSettles DEF PlayerEnterRoom
  <2>2. CASE UNCHANGED <<monster, viewers, running>>
    BY <1>1, <2>2 DEF PlayerEnterRoom
  <2> QED
    BY <1>1, <2>1, <2>2 DEF PlayerEnterRoom
<1>2. CASE PlayerMove(p)
  <2>1. CASE EnterView(p)
    BY <1>2, <2>1, EnterViewSettles DEF PlayerMove
  <2>2. CASE LeaveView(p)
    BY <1>2, <2>2, LeaveViewSettles DEF PlayerMove
  <2> QED
    BY <1>2, <2>1, <2>2 DEF PlayerMove
<1>3. CASE PlayerLeaveRoom(p)
  <2>1. CASE LeaveView(p)
    BY <1>3, <2>1, LeaveViewSettles DEF PlayerLeaveRoom
  <2>2. CASE p \notin viewers /\ UNCHANGED <<monster, viewers, running>>
    BY <1>3, <2>2 DEF PlayerLeaveRoom
  <2> QED
    BY <1>3, <2>1, <2>2 DEF PlayerLeaveRoom
<1>4. CASE Destroy(p)
  BY <1>4 DEF Destroy
<1>5. CASE CharacterAttack(p)
  BY <1>0, <1>5 DEF CharacterAttack
<1>6. CASE ExecuteSkillHit(p)
  <2>1. hits' \subseteq Hits /\ UNCHANGED <<viewers, place, hp, crashed>>
    BY <1>0, <1>6 DEF ExecuteSkillHit, Without
  <2>2. CASE UNCHANGED <<monster, running>>
    BY <2>1, <2>2
  <2>3. CASE ~IsDead(monster) /\ OnMonsterDamaged(p)
    BY <2>1, <2>3, DamagedSettles
  <2> QED
    BY <1>6, <2>2, <2>3 DEF ExecuteSkillHit
<1>7. CASE ApplyDelayedDamage(p)
  <2>1. hits' \subseteq Hits /\ UNCHANGED <<viewers, place, hp>> /\ crashed' \in BOOLEAN
    BY <1>7 DEF ApplyDelayedDamage, Without
  <2>2. CASE UNCHANGED <<monster, running>>
    BY <2>1, <2>2
  <2>3. CASE ~IsDead(monster) /\ OnMonsterDamaged(p)
    BY <2>1, <2>3, DamagedSettles
  <2> QED
    BY <1>7, <2>2, <2>3 DEF ApplyDelayedDamage
<1> QED
  BY <1>1, <1>2, <1>3, <1>4, <1>5, <1>6, <1>7

\* The monster's hit takes a point from live players in its view, if it lives itself.
LEMMA MonsterHitStep ==
  ASSUME IInv, ExecuteMonsterHit
  PROVE  IInv' /\ \A p \in Players : hp'[p] < hp[p] =>
                     place[p] = "room" /\ p \in viewers /\ hp[p] > 0 /\ ~IsDead(monster)
<1>1. hits' \subseteq Hits /\ UNCHANGED <<monster, viewers, place, running, crashed>>
  BY DEF ExecuteMonsterHit, Without, IInv, TypeOK
<1>2. CASE IsDead(monster) /\ UNCHANGED hp
  BY <1>1, <1>2 DEF IInv, TypeOK
<1>3. CASE ~IsDead(monster) /\ \E met \in SUBSET {p \in viewers : hp[p] > 0} :
             hp' = [p \in Players |-> IF p \in met THEN hp[p] - 1 ELSE hp[p]]
  <2>1. PICK met \in SUBSET {p \in viewers : hp[p] > 0} :
               hp' = [p \in Players |-> IF p \in met THEN hp[p] - 1 ELSE hp[p]]
    BY <1>3
  <2>2. \A p \in Players : hp[p] \in 0..PlayerHp /\ (p \in met => hp[p] > 0)
    BY <2>1 DEF IInv, TypeOK
  <2>3. hp' \in [Players -> 0..PlayerHp]
    BY <2>1, <2>2, MonsterAssumption
  <2>4. \A p \in Players : hp'[p] < hp[p] => p \in met
    BY <2>1, <2>2, MonsterAssumption
  <2>5. \A p \in met : place[p] = "room" /\ p \in viewers /\ hp[p] > 0
    BY DEF IInv, TypeOK
  <2>6. IInv'
    BY <1>1, <2>3 DEF IInv, TypeOK
  <2> QED
    BY <1>3, <2>4, <2>5, <2>6
<1> QED
  BY <1>2, <1>3 DEF ExecuteMonsterHit

\* Every step keeps the invariant.
LEMMA NextIInv == IInv /\ [Next]_vars => IInv'
<1> SUFFICES ASSUME IInv, [Next]_vars PROVE IInv'
  OBVIOUS
<1>1. CASE UNCHANGED vars
  BY <1>1 DEF vars, IInv, TypeOK
<1> QED
  BY <1>1, UpdateStep, PlayersStep, MonsterHitStep DEF Next

\* Every reachable state satisfies the invariant.
LEMMA IInvHolds == Spec => []IInv
BY InitIInv, NextIInv, PTL DEF Spec

-----------------------------------------------------------------------------
(* What the clients are told.                                              *)

\* The viewers that are shown a running monster are all of them or none.
Shows(shown, run) == \A p \in viewers : p \in shown <=> run

\* Two broadcasts, after the decision and after the path, bring the viewers up to date: the
\* second one makes up for a decision that sets the monster going without speed.
LEMMA BroadcastsShow ==
  ASSUME NEW m, NEW n, Settled(monster), Sound(m), Settled(n), ToldRight
  PROVE  Shows(Broadcast(m, n, Broadcast(monster, m, running)), n.run)
<1>1. /\ monster.run <=> monster.speed
      /\ m.speed => m.run
      /\ n.run <=> n.speed
  BY DEF Settled, Sound, Coherent
<1>2. \A p \in viewers : p \in running <=> monster.run
  BY DEF ToldRight
<1> DEFINE shown == Broadcast(monster, m, running)
<1>3. Shows(shown, m.run) \/ (Shows(shown, FALSE) /\ ~m.speed)
  <2>1. CASE monster.run /\ m.run
    BY <1>1, <1>2, <2>1 DEF Shows, Broadcast
  <2>2. CASE monster.run /\ ~m.run
    BY <2>2 DEF Shows, Broadcast
  <2>3. CASE ~monster.run /\ m.speed
    BY <1>1, <2>3 DEF Shows, Broadcast
  <2>4. CASE ~monster.run /\ ~m.speed
    BY <1>1, <1>2, <2>4 DEF Shows, Broadcast
  <2> QED
    BY <2>1, <2>2, <2>3, <2>4
<1> HIDE DEF shown
<1>4. Shows(Broadcast(m, n, shown), n.run)
  BY <1>1, <1>3 DEF Shows, Broadcast
<1> QED
  BY <1>4 DEF shown

\* Nobody wakes a monster that is awake or dead, and one that is woken stands, on patrol.
LEMMA WakeUpShows ==
  ASSUME NEW m, Settled(m)
  PROVE  LET n == WakeUpByPlayer(m) IN
         /\ n.run <=> m.run
         /\ IsDead(m) \/ m.wakeUp => n = m
         /\ ~IsDead(m) /\ ~m.wakeUp => n.state = "PATROL"
<1>1. CASE IsDead(m) \/ m.wakeUp
  BY <1>1 DEF WakeUpByPlayer
<1>2. CASE ~(IsDead(m) \/ m.wakeUp)
  <2> DEFINE k == [m EXCEPT !.wakeUp = TRUE]
             n == ChangeState(k, "PATROL")
  <2>1. WakeUpByPlayer(m) = n
    BY <1>2 DEF WakeUpByPlayer
  <2>2. Coherent(k) /\ ~k.run /\ ~m.run
    BY <1>2 DEF Settled, Sound, Still, Coherent, Monsters
  <2> HIDE DEF k
  <2>3. n.state = "PATROL" /\ ~n.run
    BY <2>2, ChangeStateChanges DEF MonsterState
  <2> QED
    BY <1>2, <2>1, <2>2, <2>3
<1> QED
  BY <1>1, <1>2

\* Only an empty view list puts the monster to sleep.
LEMMA SleepShows ==
  ASSUME NEW m, Settled(m), NEW viewList
  PROVE  LET n == SleepIfNoPlayer(m, viewList) IN
         /\ viewList # {} => n = m
         /\ n.hp = m.hp
         /\ viewList = {} /\ ~IsDead(m) => ~n.wakeUp
<1>1. CASE IsDead(m) \/ viewList # {}
  BY <1>1 DEF SleepIfNoPlayer
<1>2. CASE ~(IsDead(m) \/ viewList # {})
  <2> DEFINE k == [m EXCEPT !.wakeUp = FALSE]
             n == ChangeState(k, "NONE")
  <2>1. SleepIfNoPlayer(m, viewList) = n
    BY <1>2 DEF SleepIfNoPlayer
  <2>2. Coherent(k) /\ ~k.wakeUp /\ k.hp = m.hp
    BY DEF Settled, Sound, Coherent, Monsters
  <2> HIDE DEF k
  <2>3. Same(k, n)
    BY <2>2, ChangeStateChanges DEF MonsterState
  <2> QED
    BY <1>2, <2>1, <2>2, <2>3 DEF Same
<1> QED
  BY <1>1, <1>2

\* The one step that tells wrong.
Handover == /\ viewers # {} /\ viewers' # {} /\ viewers \cap viewers' = {}
            /\ running' = viewers' /\ monster'.state = "PATROL"

\* A running monster that goes into another cell: whoever keeps it in view, or comes to see it,
\* was sent what it is, unless all left and others came.
LEMMA NPCMoveShows ==
  ASSUME NEW m, Settled(m), m.run, NEW shown, shown \subseteq viewers, Shows(shown, m.run),
         NEW L \in SUBSET viewers, NEW E, E \cap viewers = {}, NPCMove(m, shown, L, E)
  PROVE  ToldRight' \/ Handover
<1> DEFINE slept == IF L = {} THEN m ELSE SleepIfNoPlayer(m, viewers \ L)
<1>0. m.wakeUp /\ ~IsDead(m)
  BY DEF Settled, Sound, Still
<1>1. Settled(slept)
  BY SleepSettles
<1>2. /\ monster' = IF E = {} THEN slept ELSE WakeUpByPlayer(slept)
      /\ viewers' = (viewers \ L) \cup E /\ running' = (shown \ L) \cup E
  BY DEF NPCMove
<1>3. CASE L = {} \/ viewers \ L # {}
  <2>1. slept = m
    BY <1>3, SleepShows
  <2> HIDE DEF slept
  <2>2. monster' = m
    BY <1>0, <1>1, <1>2, <2>1, WakeUpShows
  <2>3. ToldRight'
    BY <1>2, <2>2 DEF ToldRight, Shows
  <2> QED
    BY <2>3
<1>4. CASE L # {} /\ viewers \ L = {}
  <2>1. ~slept.wakeUp /\ ~IsDead(slept)
    BY <1>0, <1>4, SleepShows DEF IsDead
  <2> HIDE DEF slept
  <2>2. CASE E = {}
    BY <1>2, <1>4, <2>2 DEF ToldRight
  <2>3. CASE E # {}
    <3>1. monster'.state = "PATROL"
      BY <1>1, <1>2, <2>1, <2>3, WakeUpShows
    <3>2. viewers' = E /\ running' = E
      BY <1>2, <1>4
    <3> QED
      BY <1>4, <2>3, <3>1, <3>2 DEF Handover
  <2> QED
    BY <2>2, <2>3
<1> QED
  BY <1>3, <1>4

\* A tick tells the viewers what it has made of the monster, or hands it over.
LEMMA UpdateShows ==
  ASSUME IInv, ToldRight, NEW ready \in BOOLEAN, Update(ready)
  PROVE  ToldRight' \/ Handover
<1>1. Settled(monster) /\ Sound(monster) /\ Live(monster) /\ viewers \subseteq Players
  BY DEF IInv, Settled, Update, Live, TypeOK
<1> DEFINE Ends(m, n) ==
  LET shown == Broadcast(m, n, Broadcast(monster, m, running)) IN
  \/ monster' = n /\ running' = shown /\ UNCHANGED viewers
  \/ /\ n.run
     /\ \E L \in SUBSET viewers,
           E \in SUBSET {p \in Players \ viewers : place[p] = "room"} :
          NPCMove(n, shown, L, E)
<1>2. PICK m \in (IF ready THEN UpdateAI(monster) ELSE {monster}) :
         \E n \in FollowPath(m) : Ends(m, n)
  BY DEF Update
<1>10. PICK n \in FollowPath(m) : Ends(m, n)
  BY <1>2
<1>3. Sound(m) /\ Live(m)
  BY <1>1, <1>2, UpdateAISound
<1>4. Settled(n)
  BY <1>10, <1>3, FollowPathSettles
<1> DEFINE shown == Broadcast(m, n, Broadcast(monster, m, running))
<1>5. shown \subseteq viewers
  BY BroadcastToViewers DEF IInv, TypeOK
<1>6. Shows(shown, n.run)
  BY <1>1, <1>3, <1>4, BroadcastsShow
<1>7. \/ monster' = n /\ running' = shown /\ UNCHANGED viewers
      \/ /\ n.run
         /\ \E L \in SUBSET viewers,
               E \in SUBSET {p \in Players \ viewers : place[p] = "room"} :
              NPCMove(n, shown, L, E)
  BY <1>10
<1> HIDE DEF shown, Ends
<1>8. CASE monster' = n /\ running' = shown /\ UNCHANGED viewers
  BY <1>6, <1>8 DEF ToldRight, Shows
<1>9. ASSUME n.run, NEW L \in SUBSET viewers,
             NEW E \in SUBSET {p \in Players \ viewers : place[p] = "room"},
             NPCMove(n, shown, L, E)
      PROVE  ToldRight' \/ Handover
  <2>1. E \cap viewers = {}
    OBVIOUS
  <2> QED
    BY <1>4, <1>5, <1>6, <1>9, <2>1, NPCMoveShows
<1> QED
  BY <1>7, <1>8, <1>9

\* Who comes to see the monster is sent what it is, and waking it does not set it going.
LEMMA EnterViewShows ==
  ASSUME IInv, ToldRight, NEW p \in Players, EnterView(p)
  PROVE  ToldRight'
<1>1. monster'.run <=> monster.run
  BY WakeUpShows DEF EnterView, IInv
<1> QED
  BY <1>1 DEF EnterView, ToldRight, IInv, TypeOK

\* Nobody is left to be told of a monster that falls asleep.
LEMMA LeaveViewShows ==
  ASSUME IInv, ToldRight, NEW p \in Players, LeaveView(p)
  PROVE  ToldRight'
<1>1. viewers \ {p} # {} => monster' = monster
  BY SleepShows DEF LeaveView, IInv
<1> QED
  BY <1>1 DEF LeaveView, ToldRight

\* A blow can stop the monster, which is broadcast, and never sets it going.
LEMMA DamagedShows ==
  ASSUME IInv, ToldRight, NEW p \in Players, ~IsDead(monster), OnMonsterDamaged(p),
         UNCHANGED viewers
  PROVE  ToldRight'
<1>1. monster'.run => monster.run
  <2> DEFINE a == Hurt(monster)
             b == ChangeState(a, "HIT")
             c == SetTarget(b, p)
             d == ChangeState(c, "TRACE")
  <2>1. monster' = d
    BY DEF OnMonsterDamaged, OnDamaged
  <2>2. Coherent(monster)
    BY DEF IInv, Settled, Sound
  <2>3. Coherent(a) /\ (a.run => monster.run)
    BY <2>2, HurtHurts
  <2> HIDE DEF a
  <2>4. Coherent(b) /\ (b.run => a.run)
    BY <2>3, ChangeStateChanges DEF MonsterState
  <2> HIDE DEF b
  <2>5. Coherent(c) /\ c.run = b.run
    BY <2>4, SetTargetSets
  <2> HIDE DEF c
  <2>6. d.run => c.run
    BY <2>5, ChangeStateChanges DEF MonsterState
  <2> HIDE DEF d
  <2> QED
    BY <2>1, <2>3, <2>4, <2>5, <2>6
<1>2. Settled(monster) /\ Settled(monster')
  BY OnDamagedSettles DEF IInv, OnMonsterDamaged
<1>3. (monster.run <=> monster.speed) /\ (monster'.run <=> monster'.speed)
  BY <1>2 DEF Settled, Sound, Coherent
<1>4. running' = Broadcast(monster, monster', running)
  BY DEF OnMonsterDamaged
<1> QED
  BY <1>1, <1>3, <1>4 DEF ToldRight, Broadcast

-----------------------------------------------------------------------------

\* Every variable keeps its type: the clients told of a running monster are among its viewers,
\* and those are in the room.
THEOREM TypeCorrectness == Spec => []TypeOK
<1>1. IInv => TypeOK
  BY DEF IInv
<1> QED
  BY IInvHolds, <1>1, PTL

\* A monster that sleeps or is dead stands, and path, speed and run go together, whatever the
\* order of blows, decisions, paths and players that come and go.
THEOREM StandsStillHolds == Spec => []StandsStill
<1>1. IInv => StandsStill
  <2> SUFFICES ASSUME IInv PROVE StandsStill
    OBVIOUS
  <2>1. monster.hasPath \in BOOLEAN /\ monster.run \in BOOLEAN /\ monster.speed \in BOOLEAN
    BY DEF IInv, TypeOK, Monsters
  <2>2. /\ monster.hasPath <=> monster.run
        /\ monster.speed <=> monster.run
        /\ IsDead(monster) \/ ~monster.wakeUp => ~monster.run
    BY DEF IInv, Settled, Sound, Coherent, Still
  <2> QED
    BY <2>1, <2>2, Zenon DEF StandsStill
<1> QED
  BY IInvHolds, <1>1, PTL

\* A live monster that is awake can act, and has a target while it traces or attacks.
THEOREM AwakeMonsterActsHolds == Spec => []AwakeMonsterActs
<1>1. IInv => AwakeMonsterActs
  BY DEF IInv, Settled, Sound, Acts, AwakeMonsterActs
<1> QED
  BY IInvHolds, <1>1, PTL

\* No hit reserved earlier harms a player that is not there, is out of view or dead, nor comes
\* from a dead monster.
THEOREM DamageIsFairHolds == Spec => DamageIsFair
<1>1. IInv /\ [Next]_vars =>
        [\A p \in Players : hp'[p] < hp[p] =>
           /\ place[p] = "room" /\ p \in viewers /\ hp[p] > 0
           /\ ~IsDead(monster)]_vars
  <2> SUFFICES ASSUME IInv, Next, NEW p \in Players, hp'[p] < hp[p]
               PROVE  place[p] = "room" /\ p \in viewers /\ hp[p] > 0 /\ ~IsDead(monster)
    OBVIOUS
  <2>1. CASE ExecuteMonsterHit
    BY <2>1, MonsterHitStep
  <2>2. CASE UNCHANGED hp
    <3>1. hp[p] \in Nat
      BY MonsterAssumption DEF IInv, TypeOK
    <3> QED
      BY <2>2, <3>1
  <2> QED
    BY <2>1, <2>2, PlayersStep DEF Next, Update
<1> QED
  BY IInvHolds, <1>1, PTL DEF Spec, DamageIsFair

\* Whenever the viewers were told right and a step leaves one of them told wrong, that step has
\* taken the monster from all its viewers to others: UpdateView serialises it before it loses the
\* last viewer and stops.
THEOREM ToldWrongOnlyOnHandoverHolds == Spec => ToldWrongOnlyOnHandover
<1>1. IInv /\ [Next]_vars =>
        [ToldRight /\ ~ToldRight' =>
           /\ viewers # {} /\ viewers' # {} /\ viewers \cap viewers' = {}
           /\ running' = viewers' /\ monster'.state = "PATROL"]_vars
  <2> SUFFICES ASSUME IInv, Next, ToldRight PROVE ToldRight' \/ Handover
    BY DEF Handover
  <2>1. ASSUME NEW ready \in BOOLEAN, Update(ready) PROVE ToldRight' \/ Handover
    BY <2>1, UpdateShows
  <2>2. CASE UNCHANGED <<monster, viewers, running>>
    BY <2>2 DEF ToldRight
  <2>3. ASSUME NEW p \in Players, EnterView(p) \/ LeaveView(p) PROVE ToldRight'
    BY <2>3, EnterViewShows, LeaveViewShows
  <2>4. ASSUME NEW p \in Players, ~IsDead(monster), OnMonsterDamaged(p), UNCHANGED viewers
        PROVE  ToldRight'
    BY <2>4, DamagedShows
  <2>5. ASSUME NEW p \in Players, PlayerEnterRoom(p) \/ PlayerMove(p) \/ PlayerLeaveRoom(p)
        PROVE  ToldRight'
    BY <2>2, <2>3, <2>5 DEF PlayerEnterRoom, PlayerMove, PlayerLeaveRoom, ToldRight
  <2>6. ASSUME NEW p \in Players, ExecuteSkillHit(p) \/ ApplyDelayedDamage(p)
        PROVE  ToldRight'
    <3>1. CASE ExecuteSkillHit(p)
      BY <2>4, <3>1 DEF ExecuteSkillHit, ToldRight
    <3>2. CASE ApplyDelayedDamage(p)
      BY <2>4, <3>2 DEF ApplyDelayedDamage, ToldRight
    <3> QED
      BY <2>6, <3>1, <3>2
  <2> QED
    BY <2>1, <2>2, <2>5, <2>6 DEF Next, ExecuteMonsterHit, Destroy, CharacterAttack
<1> QED
  BY IInvHolds, <1>1, PTL DEF Spec, ToldWrongOnlyOnHandover
=============================================================================
