SPECIFICATION Spec
CONSTANTS
  a = a
  b = b
  c1 = c1
  c2 = c2
  Users = {a, b}
  Calls = {c1, c2}
  Dials <- Either
  MaxDrops = 0
  MaxFails = 1
  MaxEnds = 0
  MaxBusy = 1
INVARIANTS NoGhostRing
PROPERTIES LiveSessionIsKept
CONSTRAINT FailsAstray
CHECK_DEADLOCK FALSE
