SPECIFICATION Spec
CONSTANTS
  p1 = p1
  p2 = p2
  p3 = p3
  None = None
  TheMonster = TheMonster
  Players = {p1, p2}
  MonsterHp = 2
  PlayerHp = 1
INVARIANT ReservedDamageLands
CHECK_DEADLOCK FALSE
