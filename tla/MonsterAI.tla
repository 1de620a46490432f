------------------------------ MODULE MonsterAI ------------------------------
(***************************************************************************)
(* One monster of a room and the players around it: its state machine      *)
(* (Monster.cpp), attacks in both directions with the hits they reserve at *)
(* the timer (Room.cpp, CombatProcessor.cpp, Character.cpp), and what the  *)
(* clients are told of its movement.                                       *)
(*                                                                         *)
(* Each action is one job of the room.  Distances, cooldowns and whether a *)
(* blow meets its target are chosen freely; a hit takes one point.         *)
(***************************************************************************)
EXTENDS Naturals, FiniteSets

CONSTANTS
  Players,
  None,        \* no target
  TheMonster,  \* the monster as an attacker
  MonsterHp, PlayerHp

ASSUME MonsterAssumption ==
  /\ None \notin Players /\ TheMonster \notin Players
  /\ MonsterHp \in Nat \ {0} /\ PlayerHp \in Nat \ {0}

VARIABLES
  monster,  \* the fields of the Monster object
  viewers,  \* its _viewList
  place,    \* player -> where its Player object is
  hp,       \* player -> hp
  hits,     \* reserved jobs: ExecuteSkillHit and ApplyDelayedDamage
  running,  \* clients whose last news of the monster was Move_State::RUN
  crashed   \* a null attacker was dereferenced

vars == <<monster, viewers, place, hp, hits, running, crashed>>

MonsterState == {"NONE", "PATROL", "TRACE", "ATTACK", "HIT"}

\* run is Move_State::RUN, speed is _currentSpeed > 0.
Monsters == [state : MonsterState, wakeUp : BOOLEAN, hp : 0..MonsterHp,
             target : Players \cup {None}, hasPath : BOOLEAN, run : BOOLEAN,
             speed : BOOLEAN]

Hits == [job : {"execute", "apply"}, attacker : Players \cup {TheMonster}]

TypeOK ==
  /\ monster \in Monsters
  /\ viewers \subseteq {p \in Players : place[p] = "room"}
  /\ place \in [Players -> {"outside", "room", "left", "destroyed"}]
  /\ hp \in [Players -> 0..PlayerHp]
  /\ hits \subseteq Hits
  /\ running \subseteq viewers
  /\ crashed \in BOOLEAN

Init ==
  /\ monster = [state |-> "NONE", wakeUp |-> FALSE, hp |-> MonsterHp,
                target |-> None, hasPath |-> FALSE, run |-> FALSE,
                speed |-> FALSE]
  /\ viewers = {}
  /\ place = [p \in Players |-> "outside"]
  /\ hp = [p \in Players |-> PlayerHp]
  /\ hits = {}
  /\ running = {}
  /\ crashed = FALSE

-----------------------------------------------------------------------------
(* The monster's methods, as what they make of it.                         *)

IsDead(m) == m.hp = 0

StopMove(m) ==
  IF m.run THEN [m EXCEPT !.run = FALSE, !.hasPath = FALSE, !.speed = FALSE]
  ELSE m

ChangeState(m, state) ==
  IF m.state = state THEN m ELSE [StopMove(m) EXCEPT !.state = state]

SetTarget(m, p) == [m EXCEPT !.target = p]

\* Mutant: awake, but in the state it slept in.
WakeUpByPlayer_OnlyFlag(m) == IF IsDead(m) THEN m ELSE [m EXCEPT !.wakeUp = TRUE]

WakeUpByPlayer(m) ==
  IF IsDead(m) \/ m.wakeUp THEN m
  ELSE ChangeState([m EXCEPT !.wakeUp = TRUE], "PATROL")

\* Mutant: the state is left as it is.
SleepIfNoPlayer_OnlyFlag(m, viewList) ==
  IF IsDead(m) \/ viewList # {} THEN m ELSE [m EXCEPT !.wakeUp = FALSE]

SleepIfNoPlayer(m, viewList) ==
  IF IsDead(m) \/ viewList # {} THEN m
  ELSE ChangeState([m EXCEPT !.wakeUp = FALSE], "NONE")

\* Character::OnDamaged and, at no hp, Monster::OnDead.
Hurt(m) ==
  LET hurt == [m EXCEPT !.hp = @ - 1] IN
  IF IsDead(hurt) THEN ChangeState(StopMove(hurt), "NONE") ELSE hurt

\* Every attacker of a monster is a player, so HIT gives way to TRACE at once
\* and UpdateHit is never called.
OnDamaged(m, p) == ChangeState(SetTarget(ChangeState(Hurt(m), "HIT"), p), "TRACE")

\* An empty path stops it.
SetPath(m) == {[m EXCEPT !.hasPath = TRUE, !.run = TRUE], StopMove(m)}

Lost(p) == place[p] = "destroyed" \/ hp[p] = 0

\* What UpdateAI can make of the monster, depending on distances and paths.
UpdatePatrol(m) ==
  {ChangeState(SetTarget(m, p), "TRACE") : p \in {q \in viewers : hp[q] > 0}}
    \cup {m} \cup (IF m.hasPath THEN {} ELSE SetPath(m))

\* Mutant: only the pointer is tested, not whether the target lives.
UpdateTrace_DeadToo(m) ==
  LET dropped == ChangeState(SetTarget(m, None), "PATROL") IN
  IF m.target = None \/ place[m.target] = "destroyed" THEN {dropped}
  ELSE {ChangeState(m, "ATTACK"), m} \cup SetPath(m)

UpdateTrace(m) ==
  LET dropped == ChangeState(SetTarget(m, None), "PATROL") IN
  IF m.target = None THEN {dropped}
  ELSE IF Lost(m.target) THEN {dropped}
  ELSE {dropped, ChangeState(m, "ATTACK"), m} \cup SetPath(m)

UpdateAttack(m) ==
  IF m.target = None THEN {ChangeState(m, "PATROL")}
  ELSE IF Lost(m.target) THEN {ChangeState(m, "PATROL")}
  ELSE {ChangeState(m, "TRACE"), m}

UpdateAI(m) ==
  CASE m.state = "PATROL" -> UpdatePatrol(m)
    [] m.state = "TRACE"  -> UpdateTrace(m)
    [] m.state = "ATTACK" -> UpdateAttack(m)
    [] OTHER              -> {m}

\* A path is followed or has come to its end.
FollowPath(m) ==
  IF m.hasPath THEN {[m EXCEPT !.speed = TRUE, !.run = TRUE], StopMove(m)}
  ELSE {m}

\* Clients whose picture is old: what the viewers see after the monster was m
\* and has become n.  It is broadcast when the monster stops, and when it sets
\* out, as Move then finds that the direction has changed.
Broadcast(m, n, shown) ==
  IF m.run /\ ~n.run THEN shown \ viewers
  ELSE IF ~m.speed /\ n.speed THEN shown \cup viewers
  ELSE shown

-----------------------------------------------------------------------------
(* The tick.                                                               *)

\* UpdateView, with the monster as its subject, when it has gone into another
\* cell.  What the entering players are sent was serialised before it lost the
\* leaving ones.
NPCMove(m, shown, L, E) ==
  LET slept == IF L = {} THEN m ELSE SleepIfNoPlayer(m, viewers \ L)
      woken == IF E = {} THEN slept ELSE WakeUpByPlayer(slept)
  IN
  /\ monster' = woken
  /\ viewers' = (viewers \ L) \cup E
  /\ running' = (shown \ L) \cup E

\* CharacterAttack by the monster, at the end of an UpdateAttack.
Attacks(attack, m) ==
  IF attack
  THEN /\ monster.state = "ATTACK" /\ m.state = "ATTACK"
       /\ hits' = hits \cup {[job |-> "execute", attacker |-> TheMonster]}
  ELSE UNCHANGED hits

\* ready: the half second between decisions is over.
Update(ready) ==
  /\ ~IsDead(monster) /\ monster.wakeUp
  /\ \E m \in (IF ready THEN UpdateAI(monster) ELSE {monster}),
        attack \in (IF ready THEN BOOLEAN ELSE {FALSE}) :
       /\ Attacks(attack, m)
       /\ \E n \in FollowPath(m) :
            LET shown == Broadcast(m, n, Broadcast(monster, m, running)) IN
            \/ monster' = n /\ running' = shown /\ UNCHANGED viewers
            \/ /\ n.run
               /\ \E L \in SUBSET viewers,
                     E \in SUBSET {p \in Players \ viewers : place[p] = "room"} :
                    NPCMove(n, shown, L, E)
  /\ UNCHANGED <<place, hp, crashed>>

-----------------------------------------------------------------------------
(* Players come and go.                                                    *)

\* Mutant: the newcomer is sent a monster that stands.
EnterView_Standing(p) ==
  /\ viewers' = viewers \cup {p}
  /\ UNCHANGED running
  /\ monster' = WakeUpByPlayer(monster)

EnterView(p) ==
  /\ viewers' = viewers \cup {p}
  /\ running' = IF monster.run THEN running \cup {p} ELSE running
  /\ monster' = WakeUpByPlayer(monster)

LeaveView(p) ==
  /\ viewers' = viewers \ {p}
  /\ running' = running \ {p}
  /\ monster' = SleepIfNoPlayer(monster, viewers \ {p})

PlayerEnterRoom(p) ==
  /\ place[p] = "outside"
  /\ place' = [place EXCEPT ![p] = "room"]
  /\ EnterView(p) \/ UNCHANGED <<monster, viewers, running>>
  /\ UNCHANGED <<hp, hits, crashed>>

PlayerMove(p) ==
  /\ place[p] = "room"
  /\ \/ p \notin viewers /\ EnterView(p)
     \/ p \in viewers /\ LeaveView(p)
  /\ UNCHANGED <<place, hp, hits, crashed>>

PlayerLeaveRoom(p) ==
  /\ place[p] = "room"
  /\ place' = [place EXCEPT ![p] = "left"]
  /\ \/ p \in viewers /\ LeaveView(p)
     \/ p \notin viewers /\ UNCHANGED <<monster, viewers, running>>
  /\ UNCHANGED <<hp, hits, crashed>>

\* With the last reference to the session goes its Player; _targetPlayer is a
\* weak_ptr.
Destroy(p) ==
  /\ place[p] = "left"
  /\ place' = [place EXCEPT ![p] = "destroyed"]
  /\ UNCHANGED <<monster, viewers, hp, hits, running, crashed>>

-----------------------------------------------------------------------------
(* Attacks and hits.                                                       *)

\* Equal hits count as one: when one is over, another may be on its way.
Without(hit) == {hits, hits \ {hit}}

\* CharacterAttack by a player: it may no longer be in the room.  It has been in it,
\* as the job that lets it in was pushed before its client's next packet was read.
CharacterAttack(p) ==
  /\ place[p] \in {"room", "left"} /\ hp[p] > 0
  /\ hits' = hits \cup {[job |-> "execute", attacker |-> p]}
  /\ UNCHANGED <<monster, viewers, place, hp, running, crashed>>

OnMonsterDamaged(p) ==
  /\ monster' = OnDamaged(monster, p)
  /\ running' = Broadcast(monster, monster', running)

\* ExecuteSkillHit of a player: nothing, a blow, or a projectile on its way.
ExecuteSkillHit(p) ==
  LET hit == [job |-> "execute", attacker |-> p] IN
  /\ hit \in hits
  /\ \/ hits' \in Without(hit) /\ UNCHANGED <<monster, running>>
     \/ /\ p \in viewers /\ hp[p] > 0 /\ ~IsDead(monster)
        /\ \/ hits' \in Without(hit) /\ OnMonsterDamaged(p)
           \/ /\ \E rest \in Without(hit) :
                   hits' = rest \cup {[job |-> "apply", attacker |-> p]}
              /\ UNCHANGED <<monster, running>>
  /\ UNCHANGED <<viewers, place, hp, crashed>>

\* Mutant: the blow lands whatever has become of the monster.
ExecuteMonsterHit_Dead ==
  LET hit == [job |-> "execute", attacker |-> TheMonster] IN
  /\ hit \in hits
  /\ hits' \in Without(hit)
  /\ \E met \in SUBSET {p \in viewers : hp[p] > 0} :
       hp' = [p \in Players |-> IF p \in met THEN hp[p] - 1 ELSE hp[p]]
  /\ UNCHANGED <<monster, viewers, place, running, crashed>>

\* ExecuteSkillHit of the monster: a sector that meets some of the live players
\* in its view.
ExecuteMonsterHit ==
  LET hit == [job |-> "execute", attacker |-> TheMonster] IN
  /\ hit \in hits
  /\ hits' \in Without(hit)
  /\ IF IsDead(monster) THEN UNCHANGED hp
     ELSE \E met \in SUBSET {p \in viewers : hp[p] > 0} :
            hp' = [p \in Players |-> IF p \in met THEN hp[p] - 1 ELSE hp[p]]
  /\ UNCHANGED <<monster, viewers, place, running, crashed>>

\* The target is tested for null, the attacker is not: Character::OnDamaged
\* asks for the attacker's id, and the process ends.
ApplyDelayedDamage(p) ==
  LET hit == [job |-> "apply", attacker |-> p] IN
  /\ hit \in hits
  /\ hits' \in Without(hit)
  /\ \/ IsDead(monster) /\ UNCHANGED <<monster, running, crashed>>
     \/ /\ ~IsDead(monster) /\ place[p] = "room"
        /\ OnMonsterDamaged(p) /\ UNCHANGED crashed
     \/ /\ ~IsDead(monster) /\ place[p] # "room"
        /\ crashed' = TRUE
        /\ UNCHANGED <<monster, running>>
  /\ UNCHANGED <<viewers, place, hp>>

-----------------------------------------------------------------------------

Next ==
  /\ ~crashed
  /\ \/ \E ready \in BOOLEAN : Update(ready)
     \/ ExecuteMonsterHit
     \/ \E p \in Players :
          \/ PlayerEnterRoom(p) \/ PlayerMove(p) \/ PlayerLeaveRoom(p)
          \/ Destroy(p)
          \/ CharacterAttack(p) \/ ExecuteSkillHit(p) \/ ApplyDelayedDamage(p)

Spec == Init /\ [][Next]_vars

\* The room's tick comes every 100 ms, and every fifth finds a decision due.
FairSpec == Spec /\ WF_vars(~crashed /\ Update(TRUE))

-----------------------------------------------------------------------------
(* Properties *)

\* ChangeState returns early in the state it is in, and StopMove when the
\* monster is IDLE; still, a monster that sleeps or is dead stands still, without
\* speed or path, and one has a path just while it runs.
StandsStill ==
  /\ monster.hasPath = monster.run /\ monster.speed = monster.run
  /\ IsDead(monster) \/ ~monster.wakeUp => ~monster.run

\* A live monster that is awake is never stuck in NONE or HIT, out of which no
\* decision leads, and has a target while it traces or attacks.
AwakeMonsterActs ==
  ~IsDead(monster) /\ monster.wakeUp =>
    /\ monster.state \in {"PATROL", "TRACE", "ATTACK"}
    /\ monster.state # "PATROL" => monster.target # None

\* A hit is reserved long before it lands; still, none harms a player that has
\* left, is out of view or is dead, nor comes from a monster that died meanwhile.
DamageIsFair ==
  [][\A p \in Players : hp'[p] < hp[p] =>
       /\ place[p] = "room" /\ p \in viewers /\ hp[p] > 0
       /\ ~IsDead(monster)]_vars

\* The clients that see the monster were told whether it runs.
ToldRight == \A p \in viewers : p \in running <=> monster.run

\* ... and there is one step that tells them wrong: the monster walks away from
\* its last viewer and, in the same step, into the view of another, which is
\* sent the running monster although losing the last viewer has stopped it
\* (Room.cpp:315 serialises it before Room.cpp:332 puts it to sleep).
ToldWrongOnlyOnHandover ==
  [][ToldRight /\ ~ToldRight' =>
       /\ viewers # {} /\ viewers' # {} /\ viewers \cap viewers' = {}
       /\ running' = viewers' /\ monster'.state = "PATROL"]_vars

\* The flight of a projectile only delays its hit (ServerData.h:33): the server
\* does not stumble over it.
ReservedDamageLands == ~crashed

\* A monster does not go after the dead or destroyed forever.
LostTargetIsDropped ==
  \A p \in Players :
    monster.target = p /\ Lost(p) /\ monster.state \in {"TRACE", "ATTACK"} ~>
      \/ crashed \/ IsDead(monster) \/ ~monster.wakeUp
      \/ monster.target # p \/ monster.state = "PATROL"
=============================================================================
