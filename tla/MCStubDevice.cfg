CONSTANTS
  MaxCmd = 2
  MaxConn = 2
  SockfdRaces = FALSE
SPECIFICATION FairSpec
INVARIANTS
  ReplyAtMostOnce
  NoReplyLost
  AvailableIsClean
PROPERTY
  TeardownEnds
CHECK_DEADLOCK FALSE
