SPECIFICATION Spec
CONSTANTS
  m1 = m1
  m2 = m2
  k1 = k1
  k2 = k2
  Msgs = {m1}
  Socks = {k1}
  MaxTries = 2
  MaxOwn = 0
  MaxOpens = 1
  MaxFaults = 1
  AllowDrop = TRUE
  AllowBlock = FALSE
  AllowLeave = FALSE
  AllowExpiry = FALSE
  AllowBlind = FALSE
  AllowCrash = FALSE
  GapTake = 1
INVARIANTS AckIsDurable WipeHasEvidence ReadReceiptsAreMutual TickIsBacked ActiveIsTracked
PROPERTIES DeliveryIsNotRevoked
CHECK_DEADLOCK FALSE
