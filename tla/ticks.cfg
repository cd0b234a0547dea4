SPECIFICATION TickSpec
CONSTANTS
  m1 = m1
  k1 = k1
  k2 = k2
  Msgs = {m1}
  Conns = {k1, k2}
  Answers = {"READ"}
  MaxResends = 1
  MaxFaults = 1
  MaxRestarts = 1
INVARIANTS PendingKeepsItsClientId TickIsEarned
PROPERTIES ConfirmedIsFinal PersistedIsSent
CHECK_DEADLOCK FALSE
