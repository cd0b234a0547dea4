SPECIFICATION FairSpec
CONSTANTS
  m1 = m1
  m2 = m2
  k1 = k1
  k2 = k2
  Msgs = {m1, m2}
  Socks = {k1}
  MaxTries = 1
  MaxOwn = 1
  MaxOpens = 0
  MaxFaults = 0
  AllowDrop = FALSE
  AllowBlock = FALSE
  AllowLeave = FALSE
  AllowExpiry = FALSE
  AllowBlind = TRUE
  AllowCrash = FALSE
  GapTake = 1
PROPERTIES StoredIsDelivered
CHECK_DEADLOCK FALSE
