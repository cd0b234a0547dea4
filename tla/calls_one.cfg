SPECIFICATION FairSpec
CONSTANTS
  a = a
  b = b
  c1 = c1
  c2 = c2
  Users = {a, b}
  Calls = {c1}
  Dials <- OneCall
  MaxDrops = 1
  MaxFails = 1
  MaxEnds = 1
  MaxBusy = 0
INVARIANTS TypeOK NoLeakedCall
PROPERTIES RingingStops
CHECK_DEADLOCK FALSE
