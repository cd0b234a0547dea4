SPECIFICATION MediaSpec
CONSTANTS
  MaxCandidates = 1
  MaxToggles = 2
  MaxDrops = 1
  MaxFails = 1
  MaxEnds = 1
INVARIANTS LockIsHeldForAReason CallerReleasesMicrophone
PROPERTIES AcceptedIsNegotiated QueueIsFlushed
CHECK_DEADLOCK FALSE
