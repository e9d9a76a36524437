CONSTANTS
  c1 = c1
  c2 = c2
  Clients = {c1, c2}
  MonitorNum = 1
  Asked <- MCAsked
  MaxPid = 2
  MaxLevel = 2
  MaxHangUps = 1
SPECIFICATION MCSpec
INVARIANTS
  ViewerOwned
  
  ExitEndsViewers
PROPERTIES
  RequestAnswered
CHECK_DEADLOCK FALSE
