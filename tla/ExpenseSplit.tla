---------------------------- MODULE ExpenseSplit ----------------------------
(***************************************************************************)
(* Shared expenses: ExpenseService and ExpenseCleanupService.              *)
(*                                                                         *)
(* Every database statement of a request is a step of its own, so that     *)
(* requests interleave between their statements; each request decides by   *)
(* the rows it read at its start.  Amounts are whole cents.  A direct chat *)
(* always exists (ConversationService finds or creates it); a split of     *)
(* three or more people has a group conversation of its own, which a job   *)
(* deletes some time after the split is settled.  System messages and      *)
(* socket broadcasts are left out.                                         *)
(***************************************************************************)
EXTENDS Integers, Sequences, FiniteSets, FiniteSetsExt, Functions

CONSTANTS
  Users,
  Orders,          \* the splits that users ask for (CreateExpenseSplitDto)
  Requests,        \* bound: HTTP requests the server works on at a time
  Cron,            \* the job that runs every minute
  MaxExpenses,     \* bound: splits ever created
  Amounts,         \* amounts of direct settlements, in cents
  MaxSettlements,  \* bound: direct settlements
  TakeLimit,       \* settlements that getNetBalances reads
  MaxCrashes       \* bound: restarts of the server

Expenses == 1..MaxExpenses
Workers == Requests \cup {Cron}
Types == {"EQUAL", "PERCENT", "SHARES", "EXACT"}
Forms == [creator : Users, others : SUBSET Users, payer : Users, type : Types, total : Nat,
          weight : [Users -> Nat], slip : {0, 1}, ongoing : BOOLEAN]

ASSUME ExpenseAssumption ==
  /\ IsFiniteSet(Users)
  /\ Orders \subseteq Forms
  /\ \A o \in Orders : o.total >= 100 /\ o.others # {} /\ o.creator \notin o.others
  /\ Cron \notin Requests
  /\ Amounts \subseteq Nat \ {0}
  /\ {MaxExpenses, MaxSettlements, TakeLimit, MaxCrashes} \subseteq Nat

VARIABLES
  expense,      \* ExpenseSplit rows with their participants, in the order of createdAt
  groups,       \* split-group conversations
  opened,       \* groups opened so far
  settlements,  \* ExpenseSettlement rows
  work,         \* what each request, and the job, is doing
  disturbed,    \* history: splits with overlapping payments, or one cut off by a crash
  orphans,      \* history: groups whose deletion a crash has cut off
  crashes

rows == <<expense, groups, opened, settlements>>
history == <<disturbed, orphans, crashes>>
vars == <<rows, work, history>>

-----------------------------------------------------------------------------
(* The division of a total.                                                *)

\* Everyone with a share; the payer has one even when nobody listed him.
Members(o) == {o.creator, o.payer} \cup o.others

\* Math.round of a fraction.
Rounded(a, b) == (2 * a + b) \div (2 * b)

SumOver(f, S) == MapThenSumSet(LAMBDA u : f[u], S)
Abs(n) == IF n < 0 THEN -n ELSE n

\* Floored to cents; the division in floating point may lose one more cent when it is exact.
\* The payer takes the remainder.
EqualShare(o, u) ==
  LET n == Cardinality(Members(o))
      slip == IF o.total % n = 0 THEN o.slip ELSE 0
      share == o.total \div n - slip
  IN IF u = o.payer THEN share + (o.total - share * n) ELSE share

\* A share that is not given counts once.
Parts(o, u) == IF o.weight[u] = 0 THEN 1 ELSE o.weight[u]

\* Weights are tenths of a percent, shares, or cents.
Share(o, u) ==
  CASE o.type = "EQUAL" -> EqualShare(o, u)
    [] o.type = "PERCENT" -> Rounded(o.total * o.weight[u], 1000)
    [] o.type = "SHARES" ->
         Rounded(o.total * Parts(o, u), SumOver([v \in Users |-> Parts(o, v)], Members(o)))
    [] o.type = "EXACT" -> o.weight[u]

ASSUME SharesAssumption == \A o \in Orders : \A u \in Users : Share(o, u) \in Nat

\* Mutant of Accepted: amounts of any sum are taken.
AcceptedAll(o) == o.total > 0

\* The requests that are not answered with 400.
Accepted(o) ==
  CASE o.type = "PERCENT" -> Abs(SumOver(o.weight, Members(o)) - 1000) <= 5
    [] o.type = "EXACT" -> Abs(SumOver(o.weight, Members(o)) - o.total) <= 5
    [] OTHER -> TRUE

-----------------------------------------------------------------------------
(* Rows and requests.                                                      *)

NoExpense == [born |-> FALSE]
NoOrder == [total |-> 0]
Nobody == "nobody"
Idle == [pc |-> "idle", op |-> "none", order |-> NoOrder, group |-> 0, e |-> 0, who |-> Nobody,
         todo |-> {}, linked |-> {}, seen |-> [e \in Expenses |-> {}], row |-> 0, left |-> 0]

ExpenseRows ==
  [born : {TRUE}, order : Orders, status : {"ACTIVE", "SETTLED"}, paid : SUBSET Users,
   group : 0..MaxExpenses, home : 0..MaxExpenses, deleteAt : {"none", "grace", "due"}]
SettlementRows == [from : Users, to : Users, amount : Nat, cleared : Nat]
Tasks ==
  [pc : {"idle", "insert", "pay", "close", "debts", "clear",
         "unlink", "delete"},
   op : {"none", "create", "pay", "settle", "clean"},
   order : Orders \cup {NoOrder}, group : 0..MaxExpenses, e : 0..MaxExpenses,
   who : Users \cup {Nobody}, todo : SUBSET Expenses, linked : SUBSET Expenses,
   seen : [Expenses -> SUBSET Users], row : Nat, left : Int]

Born == {e \in Expenses : expense[e].born}
Participants(e) == Members(expense[e].order)
Payer(e) == expense[e].order.payer
Owed(e, u) == Share(expense[e].order, u)
Unpaid(e) == Participants(e) \ expense[e].paid

TypeOK ==
  /\ expense \in [Expenses -> ExpenseRows \cup {NoExpense}]
  /\ \A e \in Born : expense[e].paid \subseteq Participants(e)
  /\ groups \subseteq 1..opened /\ opened \in 0..MaxExpenses
  /\ settlements \in Seq(SettlementRows)
  /\ work \in [Workers -> Tasks]
  /\ disturbed \subseteq Expenses /\ orphans \subseteq 0..MaxExpenses /\ crashes \in Nat

Init ==
  /\ expense = [e \in Expenses |-> NoExpense]
  /\ groups = {} /\ opened = 0
  /\ settlements = <<>>
  /\ work = [w \in Workers |-> Idle]
  /\ disturbed = {} /\ orphans = {} /\ crashes = 0

\* Mutants of OthersUnpaid: the creator is not waited for; the participant itself is.
OthersButCreator(w, e) ==
  Participants(e) \ (work[w].seen[e] \cup {work[w].who, expense[e].order.creator})
AllUnpaid(w, e) == Participants(e) \ work[w].seen[e]

\* The participants that a request takes to be unpaid besides the one it marks.
OthersUnpaid(w, e) == Participants(e) \ (work[w].seen[e] \cup {work[w].who})

At(w, pc) == work[w].pc = pc
Goto(w, pc) == work' = [work EXCEPT ![w].pc = pc]
Done(w) == work' = [work EXCEPT ![w] = Idle]
Begin(w, task) == At(w, "idle") /\ w \in Requests /\ work' = [work EXCEPT ![w] = task]

-----------------------------------------------------------------------------
(* createExpenseSplit.                                                     *)

Reserved == Cardinality({w \in Workers : work[w].op = "create"})

\* The shares are computed, and a group conversation is opened for three or more.
StartCreate(w, o) ==
  /\ Accepted(o)
  /\ Cardinality(Born) + Reserved < MaxExpenses /\ opened < MaxExpenses
  /\ LET grouped == Cardinality(o.others) > 1
         g == IF grouped THEN opened + 1 ELSE 0
     IN /\ Begin(w, [Idle EXCEPT !.op = "create", !.pc = "insert", !.order = o, !.group = g])
        /\ opened' = IF grouped THEN g ELSE opened
        /\ groups' = IF grouped THEN groups \cup {g} ELSE groups
  /\ UNCHANGED <<expense, settlements, history>>

\* Splits are numbered in the order of their rows.
InsertExpense(w, e) ==
  /\ At(w, "insert")
  /\ e \notin Born /\ \A d \in Expenses : d < e => d \in Born
  /\ expense' = [expense EXCEPT ![e] =
       [born |-> TRUE, order |-> work[w].order, status |-> "ACTIVE",
        paid |-> {work[w].order.payer}, group |-> work[w].group, home |-> work[w].group,
        deleteAt |-> "none"]]
  /\ Done(w)
  /\ UNCHANGED <<groups, opened, settlements, history>>

-----------------------------------------------------------------------------
(* markParticipantPaid.                                                    *)

\* What a request reads of the splits in a set.
Snapshot(S) == [e \in Expenses |-> IF e \in S THEN expense[e].paid ELSE {}]
Linked(S) == {e \in S : expense[e].group # 0}

\* The participant or the creator marks an unpaid share.
StartPay(w, caller, e, u) ==
  /\ e \in Born /\ u \in Unpaid(e) /\ caller \in {u, expense[e].order.creator}
  /\ Begin(w, [Idle EXCEPT !.op = "pay", !.pc = "pay", !.e = e, !.who = u,
                           !.seen = Snapshot({e}), !.linked = Linked({e})])
  /\ UNCHANGED <<rows, history>>

\* The share is marked; a request that read other shares than there are now is noted.
MarkShare(w, e) ==
  /\ expense' = [expense EXCEPT ![e].paid = @ \cup {work[w].who}]
  /\ disturbed' = IF work[w].seen[e] = expense[e].paid THEN disturbed ELSE disturbed \cup {e}

MarkPaid(w) ==
  /\ At(w, "pay")
  /\ MarkShare(w, work[w].e)
  /\ IF OthersUnpaid(w, work[w].e) = {} THEN Goto(w, "close") ELSE Done(w)
  /\ UNCHANGED <<groups, opened, settlements, orphans, crashes>>

\* Mutant of CloseSplit: ongoing groups get a date too.
CloseAnySplit(w) ==
  LET e == work[w].e
      temporary == e \in work[w].linked
  IN /\ At(w, "close")
     /\ expense' = [expense EXCEPT ![e].status = "SETTLED",
                                   ![e].deleteAt = IF temporary THEN "grace" ELSE "none"]
     /\ IF work[w].op = "pay" THEN Done(w) ELSE Goto(w, "clear")
     /\ UNCHANGED <<groups, opened, settlements, history>>

\* Mutant of CloseSplit: settling up sets no date.
CloseUndated(w) ==
  LET e == work[w].e
      temporary == e \in work[w].linked /\ ~expense[e].order.ongoing /\ work[w].op = "pay"
  IN /\ At(w, "close")
     /\ expense' = [expense EXCEPT ![e].status = "SETTLED",
                                   ![e].deleteAt = IF temporary THEN "grace" ELSE "none"]
     /\ IF work[w].op = "pay" THEN Done(w) ELSE Goto(w, "clear")
     /\ UNCHANGED <<groups, opened, settlements, history>>

\* The split is settled, and a group that is not ongoing gets the date of its deletion.
CloseSplit(w) ==
  LET e == work[w].e
      temporary == e \in work[w].linked /\ ~expense[e].order.ongoing
  IN /\ At(w, "close")
     /\ expense' = [expense EXCEPT ![e].status = "SETTLED",
                                   ![e].deleteAt = IF temporary THEN "grace" ELSE "none"]
     /\ IF work[w].op = "pay" THEN Done(w) ELSE Goto(w, "clear")
     /\ UNCHANGED <<groups, opened, settlements, history>>

-----------------------------------------------------------------------------
(* settleUpDirect.                                                         *)

StartSettle(w, u, v, amount) ==
  /\ u # v /\ Len(settlements) < MaxSettlements
  /\ settlements' = Append(settlements, [from |-> u, to |-> v, amount |-> amount, cleared |-> 0])
  /\ Begin(w, [Idle EXCEPT !.op = "settle", !.pc = "debts", !.who = u,
                           !.row = Len(settlements) + 1, !.left = amount])
  /\ UNCHANGED <<expense, groups, opened, history>>

\* The active splits that the receiver paid and the caller has not paid back.
ReadDebts(w) ==
  LET debts == {e \in Born : /\ expense[e].status = "ACTIVE"
                             /\ Payer(e) = settlements[work[w].row].to
                             /\ work[w].who \in Unpaid(e)}
  IN /\ At(w, "debts")
     /\ work' = [work EXCEPT ![w].pc = "clear", ![w].todo = debts,
                             ![w].seen = Snapshot(debts), ![w].linked = Linked(debts)]
     /\ UNCHANGED <<rows, history>>

\* Mutant of Enough: each debt is compared with the whole settlement.
EnoughInAll(w, e) == settlements[work[w].row].amount >= Owed(e, work[w].who) - 5

Enough(w, e) == work[w].left >= Owed(e, work[w].who) - 5

\* The oldest debt is cleared if the money left covers it, but for five cents.
ClearDebt(w, e) ==
  /\ At(w, "clear") /\ e \in work[w].todo /\ \A d \in work[w].todo : e <= d
  /\ work[w].left > 0 /\ Enough(w, e)
  /\ MarkShare(w, e)
  /\ settlements' = [settlements EXCEPT ![work[w].row].cleared = @ + Owed(e, work[w].who)]
  /\ work' = [work EXCEPT ![w].e = e, ![w].todo = @ \ {e},
                          ![w].left = @ - Owed(e, work[w].who),
                          ![w].pc = IF OthersUnpaid(w, e) = {} THEN "close" ELSE "clear"]
  /\ UNCHANGED <<groups, opened, orphans, crashes>>

SkipDebt(w, e) ==
  /\ At(w, "clear") /\ e \in work[w].todo /\ \A d \in work[w].todo : e <= d
  /\ work[w].left > 0 /\ ~Enough(w, e)
  /\ work' = [work EXCEPT ![w].todo = @ \ {e}]
  /\ UNCHANGED <<rows, history>>

EndSettle(w) ==
  /\ At(w, "clear") /\ (work[w].todo = {} \/ work[w].left <= 0)
  /\ Done(w)
  /\ UNCHANGED <<rows, history>>

-----------------------------------------------------------------------------
(* handleSettledSplitGroupCleanup and executeAutoDelete.                   *)

\* The grace period of a settled group is over.
GraceElapses(e) ==
  /\ e \in Born /\ expense[e].deleteAt = "grace"
  /\ expense' = [expense EXCEPT ![e].deleteAt = "due"]
  /\ UNCHANGED <<groups, opened, settlements, work, history>>

Clean(S) == [Idle EXCEPT !.op = "clean", !.pc = "unlink", !.todo = S]

Expired ==
  {e \in Born : expense[e].status = "SETTLED" /\ expense[e].group # 0 /\ expense[e].deleteAt = "due"}

StartSweep ==
  /\ At(Cron, "idle") /\ Expired # {}
  /\ work' = [work EXCEPT ![Cron] = Clean(Expired)]
  /\ UNCHANGED <<rows, history>>

UnlinkGroup(w, e) ==
  /\ At(w, "unlink") /\ e \in work[w].todo
  /\ expense' = [expense EXCEPT ![e].group = 0]
  /\ work' = [work EXCEPT ![w].pc = "delete", ![w].todo = @ \ {e}, ![w].group = expense[e].group]
  /\ UNCHANGED <<groups, opened, settlements, history>>

\* Members and messages go with the group.
DeleteGroup(w) ==
  LET g == work[w].group IN
  /\ At(w, "delete")
  /\ groups' = groups \ {g}
  /\ work' = [work EXCEPT ![w].pc = "unlink", ![w].group = 0]
  /\ UNCHANGED <<expense, opened, settlements, history>>

EndClean(w) ==
  /\ At(w, "unlink") /\ work[w].todo = {}
  /\ Done(w)
  /\ UNCHANGED <<rows, history>>

\* A crash cuts every request off.
Crash ==
  /\ crashes < MaxCrashes /\ \E w \in Workers : ~At(w, "idle")
  /\ crashes' = crashes + 1
  /\ work' = [w \in Workers |-> Idle]
  /\ disturbed' = disturbed \cup {work[w].e : w \in {x \in Workers : At(x, "close")}}
  /\ orphans' = orphans \cup {work[w].group : w \in {x \in Workers : At(x, "delete")}}
  /\ UNCHANGED rows

-----------------------------------------------------------------------------
Step(w) ==
  \/ MarkPaid(w) \/ CloseSplit(w)
  \/ ReadDebts(w) \/ EndSettle(w)
  \/ \E e \in Expenses : InsertExpense(w, e) \/ ClearDebt(w, e) \/ SkipDebt(w, e) \/ UnlinkGroup(w, e)
  \/ DeleteGroup(w) \/ EndClean(w)

Next ==
  \/ \E w \in Requests :
       \/ \E o \in Orders : StartCreate(w, o)
       \/ \E e \in Expenses, u \in Users, v \in Users : StartPay(w, v, e, u)
       \/ \E u \in Users, v \in Users, a \in Amounts : StartSettle(w, u, v, a)
  \/ \E w \in Workers : Step(w)
  \/ \E e \in Expenses : GraceElapses(e)
  \/ StartSweep \/ Crash

Spec == Init /\ [][Next]_vars

-----------------------------------------------------------------------------
(* What getNetBalances shows.                                              *)

\* What v owes u for the splits in S.
OwedFor(S, u, v) == {e \in S : u # v /\ Payer(e) = u /\ v \in Unpaid(e)}
Debt(S, u, v) == SumOver([e \in Born |-> Owed(e, v)], OwedFor(S, u, v))
ActiveSplits == {e \in Born : expense[e].status = "ACTIVE"}

SettlementsOf(u) == {i \in DOMAIN settlements : u \in {settlements[i].from, settlements[i].to}}
Recent(u) == {i \in SettlementsOf(u) :
                Cardinality({j \in SettlementsOf(u) : j > i}) < TakeLimit}
Given(I, u, v) ==
  SumOver([i \in DOMAIN settlements |-> settlements[i].amount],
          {i \in I : settlements[i].from = u /\ settlements[i].to = v})

\* Mutant of Net: what the other has given is not counted.
NetOneSided(u, v) ==
  IF OwedFor(ActiveSplits, u, v) \cup OwedFor(ActiveSplits, v, u) = {} THEN 0
  ELSE Debt(ActiveSplits, u, v) - Debt(ActiveSplits, v, u) + Given(Recent(u), u, v)

\* What v owes u in the view of u: nothing without an open debt between them.
Net(u, v) ==
  IF OwedFor(ActiveSplits, u, v) \cup OwedFor(ActiveSplits, v, u) = {} THEN 0
  ELSE Debt(ActiveSplits, u, v) - Debt(ActiveSplits, v, u)
       + Given(Recent(u), u, v) - Given(Recent(u), v, u)

-----------------------------------------------------------------------------
(* Properties.                                                             *)

\* A split is settled only when every share is paid, whatever
\* payments of it overlap: each request judges by what it read before it wrote.
SettledIsPaid ==
  \A e \in Born : expense[e].status = "SETTLED" => Unpaid(e) = {}

\* The group conversation of a split is deleted only after the split is settled and every share
\* is paid, and never while the group is an ongoing one.
DeletedGroupIsSettled ==
  \A e \in Born :
    expense[e].home # 0 /\ expense[e].home \notin groups
    => expense[e].status = "SETTLED" /\ Unpaid(e) = {} /\ ~expense[e].order.ongoing

\* A direct settlement clears debts up to its amount and five cents: the tolerance is granted once
\* and does not add up over the debts.
ClearedWithinAmount ==
  \A i \in DOMAIN settlements : settlements[i].cleared <= settlements[i].amount + 5

\* When the last share is paid the split is settled, unless two payments of it overlapped or the
\* server stopped within one: no later request looks at it again.
SettlementIsNoticed ==
  \A e \in Born :
    /\ Unpaid(e) = {} /\ e \notin disturbed
    /\ \A w \in Workers : work[w].pc = "close" => work[w].e # e
    => expense[e].status = "SETTLED"

\* The shares of a split make up its total: exactly in an equal split, whose payer takes the
\* remainder of the division, and within rounding and the accepted tolerance in the others.
SharesAddUp ==
  \A e \in Born :
    LET o == expense[e].order
        n == Cardinality(Members(o))
        gap == Abs(SumOver([u \in Users |-> Share(o, u)], Members(o)) - o.total)
    IN CASE o.type = "EQUAL" -> gap = 0
         [] o.type = "EXACT" -> gap <= 5
         [] o.type = "SHARES" -> 2 * gap <= n
         [] o.type = "PERCENT" -> 2000 * gap <= 1000 * n + 10 * o.total

\* Two users see the same debt between them, from either side, as long as neither has more
\* settlements than getNetBalances reads.
BalancesAgree ==
  \A u, v \in Users :
    /\ Cardinality(SettlementsOf(u)) <= TakeLimit
    /\ Cardinality(SettlementsOf(v)) <= TakeLimit
    => Net(u, v) = -Net(v, u)

\* The group of a settled split that is not ongoing stays in the reach of the job: it is linked and
\* has a date, or the job is deleting it, unless a crash cut the deletion off in the middle, after
\* which no sweep finds it.
GroupIsNotForgotten ==
  \A e \in Born :
    /\ expense[e].status = "SETTLED" /\ ~expense[e].order.ongoing
    /\ expense[e].home \in groups \ orphans
    => \/ expense[e].group = expense[e].home /\ expense[e].deleteAt # "none"
       \/ At(Cron, "delete") /\ work[Cron].group = expense[e].home

=============================================================================
