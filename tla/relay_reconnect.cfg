SPECIFICATION Spec
CONSTANTS
  m1 = m1
  m2 = m2
  k1 = k1
  k2 = k2
  Msgs = {m1}
  Socks = {k1, k2}
  MaxTries = 1
  MaxOwn = 0
  MaxOpens = 0
  MaxFaults = 1
  AllowDrop = TRUE
  AllowBlock = TRUE
  AllowLeave = TRUE
  AllowExpiry = TRUE
  AllowBlind = TRUE
  AllowCrash = TRUE
  GapTake = 1
SYMMETRY SockSymmetry
INVARIANTS NoEmptyDelivery
PROPERTIES ImplementsMailbox
CHECK_DEADLOCK FALSE
