CONSTANTS
  u1 = u1
  Urbs = {u1}
  NoUrb = NoUrb
  MaxSeqnum = 2
  MaxAttach = 2
  AttachRaces = FALSE
SPECIFICATION FairSpec
INVARIANTS
  GivebackOnce
  FreePortIsQuiet
  UnloadShutsDown
  Inv
PROPERTIES
  KeepsCustody
  TeardownEnds
CHECK_DEADLOCK FALSE
