\* Two connections, two threads of the database, one name of an account.
SPECIFICATION FairSpec
CONSTANTS
  MaxSessions = 2
  NumConnections = 2
  Names = {n1}
  MaxPackets = 2
INVARIANTS TableHoldsTheConnected ConnectionsSuffice
PROPERTIES AcceptsGoOn LoginsAreAnswered RefusedOnlyIfOvertaken
CHECK_DEADLOCK FALSE
