SPECIFICATION FairSpec
CONSTANTS
  r1 = r1
  r2 = r2
  Rooms = {r1}
  Period = 2
  HitDelays = {0, 1}
  IdleWait = 3
  MaxTime = 5
INVARIANTS OneNextTick OverlapOnlyIfInitIsSlow
CHECK_DEADLOCK FALSE
PROPERTY ReservedJobsRun
