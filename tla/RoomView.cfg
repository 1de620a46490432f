SPECIFICATION Spec
CONSTANTS
  p1 = p1
  p2 = p2
  p3 = p3
  m1 = m1
  m2 = m2
  NoCell = NoCell
  Players = {p1, p2}
  Monsters = {m1, m2}
  Width = 4
  Height = 1
SYMMETRY Symmetry
INVARIANTS ViewIsNeighbourhood ClientsShowTheirView AwakeIffWatched
CHECK_DEADLOCK FALSE
