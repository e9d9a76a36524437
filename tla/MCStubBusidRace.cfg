CONSTANTS
  d1 = d1
  d2 = d2
  d3 = d3
  i1 = i1
  i2 = i2
  Devices = {d1, d2, d3}
  Ifaces = {i1, i2}
  MaxBusid = 2
  MaxSdev = 3
  DelRaces = TRUE
SPECIFICATION Spec
INVARIANT BoundIsFound
CHECK_DEADLOCK FALSE
