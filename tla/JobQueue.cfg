SPECIFICATION FairSpec
CONSTANTS
  w1 = w1
  w2 = w2
  p1 = p1
  p2 = p2
  j1 = j1
  j2 = j2
  j3 = j3
  j4 = j4
  NoJob = NoJob
  Pushers = {p1, p2, w1}
  Workers = {w1, w2}
  Jobs = {j1, j2, j3, j4}
INVARIANT EventNotReused
PROPERTIES StrandedOnlyByRelease ImplementsSerialExecutor NextPushRescues
CHECK_DEADLOCK FALSE
