SPECIFICATION FairSpec
CONSTANTS
  s1 = s1
  s2 = s2
  r1 = r1
  r2 = r2
  NoRoom = NoRoom
  Sessions = {s1, s2}
  Rooms = {r1, r2}
  FirstRoom = r1
  Capacity = 1
  MaxLogins = 2
  MaxEnters = 2
  MaxRequests = 5
INVARIANT CrashOnlyWithoutPlayer
PROPERTIES LeaverDisappears LeftBehindOnlyBy
CHECK_DEADLOCK FALSE
