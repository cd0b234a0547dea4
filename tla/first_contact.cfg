SPECIFICATION Spec
CONSTANTS
  a = a
  b = b
  m1 = m1
  m2 = m2
  Users = {a, b}
  Msgs = {m1, m2}
  From <- EachOther
  Texts = {m1}
  Production = FALSE
  MaxPairs = 2
  MaxConvs = 3
  MaxDeletes = 1
  MaxMishaps = 1
INVARIANTS SignedIsIdentitys LockedHasCause OneConversation StoredIsReachable
CONSTRAINT Apart
CHECK_DEADLOCK FALSE
