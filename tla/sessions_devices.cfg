SPECIFICATION Spec
CONSTANTS
  p = p
  q = q
  j1 = j1
  j2 = j2
  Phones = {p, q}
  Nums = {1}
  Slot <- AllSendOne
  Jobs = {j1, j2}
  MaxDevices = 5
  MaxSeconds = 2
  MaxSaves = 4
  MaxRows = 2
  MaxFaults = 1
  MaxUser = 1
INVARIANTS NoOrphanTokens HeldIsStored
PROPERTIES RotatedAtMostOnce RevokedIsRefused
SYMMETRY Symmetry
CHECK_DEADLOCK FALSE
