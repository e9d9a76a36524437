CONSTANTS
  Addresses = {"a", "b"}
  Address = "a"
  Asked = {"start", "end"}
  Said <- MCSaid
  PoolSize = 10
  MaxEvents = 2
  MaxSessions = 1
  MaxTold = 1
  MaxPid = 2
  EarlyClient = FALSE
SPECIFICATION Spec
INVARIANTS
  NoCrash
  
PROPERTIES
  LinkRecovers
CHECK_DEADLOCK FALSE
