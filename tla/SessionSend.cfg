SPECIFICATION FairSpec
CONSTANTS
  w1 = w1
  w2 = w2
  w3 = w3
  m1 = m1
  m2 = m2
  m3 = m3
  NoMsg = NoMsg
  Workers = {w1, w2, w3}
  Msgs = {m1, m2, m3}
CHECK_DEADLOCK FALSE

INVARIANTS EventExclusive
PROPERTIES ImplementsOutputStream StrandedOnlyByUnregister CaughtMessagesAreSent
