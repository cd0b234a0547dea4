SPECIFICATION Spec
CONSTANTS
  a = a
  b = b
  c = c
  r1 = r1
  r2 = r2
  Users = {a, b, c}
  Orders <- SplitOrders
  Requests = {r1, r2}
  Cron = Cron
  MaxExpenses = 2
  Amounts = {38}
  MaxSettlements = 1
  TakeLimit = 2
  MaxCrashes = 1
INVARIANTS SettledIsPaid DeletedGroupIsSettled ClearedWithinAmount
INVARIANTS SettlementIsNoticed GroupIsNotForgotten SharesAddUp BalancesAgree
CHECK_DEADLOCK FALSE
SYMMETRY Symmetry
