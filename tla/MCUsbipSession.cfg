CONSTANTS
  u1 = u1
  u2 = u2
  Urbs = {u1, u2}
  NoUrb = NoUrb
  MaxSeqnum = 2
  Disturbances = {"cut"}
SPECIFICATION Spec
SYMMETRY Symmetry
INVARIANTS
  RequestOnItsWay
  RepliesMatch
  LinkInv
CHECK_DEADLOCK FALSE
