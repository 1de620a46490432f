SPECIFICATION FairSpec
CONSTANTS
  p1 = p1
  p2 = p2
  p3 = p3
  None = None
  TheMonster = TheMonster
  Players = {p1, p2}
  MonsterHp = 2
  PlayerHp = 2
INVARIANTS StandsStill AwakeMonsterActs
PROPERTIES DamageIsFair ToldWrongOnlyOnHandover LostTargetIsDropped
CHECK_DEADLOCK FALSE
