CONSTANTS
  u1 = u1
  u2 = u2
  Urbs = {u1}
  NoUrb = NoUrb
  MaxSeqnum = 1
  Disturbances = {"detach", "down"}
SPECIFICATION FairSpec
PROPERTY
  BothLetGo
CHECK_DEADLOCK FALSE
