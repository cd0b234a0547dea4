SPECIFICATION Spec
CONSTANTS
  a = a
  b = b
  m1 = m1
  m2 = m2
  Users = {a, b}
  Msgs = {m1, m2}
  From <- EachOther
  Texts = {m1}
  Production = TRUE
  MaxPairs = 2
  MaxConvs = 3
  MaxDeletes = 0
  MaxMishaps = 0
INVARIANTS UploadIsAccepted
CHECK_DEADLOCK FALSE
