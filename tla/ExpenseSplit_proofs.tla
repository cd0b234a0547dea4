------------------------- MODULE ExpenseSplit_proofs -------------------------
(***************************************************************************)
(* Proofs about ExpenseSplit, for any users, splits, requests and bounds:  *)
(* what settled means however requests overlap, that a settlement clears   *)
(* no more than its tolerance, and what becomes of the groups.             *)
(***************************************************************************)
EXTENDS ExpenseSplit, FiniteSetTheorems, WellFoundedInduction, TLAPS

-----------------------------------------------------------------------------
(* The inductive invariant.                                                *)

Settling(w) == \/ work[w].pc \in {"debts", "clear"}
               \/ work[w].pc = "close" /\ work[w].op = "settle"

\* What a request knew of a split when it started is true for ever.
Knows(w, e) == e \in Born /\ (e \notin work[w].linked => expense[e].group = 0)

\* What a worker holds in its local variables between two statements.
Holds(w) ==
  /\ \A e \in Expenses : work[w].seen[e] # {}
                           => e \in Born /\ work[w].seen[e] \subseteq expense[e].paid
  /\ At(w, "insert") => work[w].order \in Orders
  /\ work[w].pc \in {"pay", "close"} => Knows(w, work[w].e)
  /\ At(w, "pay") => work[w].op = "pay" /\ work[w].who \in Participants(work[w].e)
  /\ At(w, "close") => work[w].op \in {"pay", "settle"} /\ Unpaid(work[w].e) = {}
  /\ Settling(w) => /\ work[w].op = "settle"
                    /\ work[w].who \in Users
                    /\ work[w].row \in DOMAIN settlements
                    /\ \A e \in work[w].todo : /\ Knows(w, e)
                                               /\ work[w].who \in Participants(e)
  /\ work[w].pc \in {"unlink", "delete"} => work[w].todo \subseteq Born

Held == \A w \in Workers : Holds(w)

\* A settlement in progress knows what is left of it, and works alone on its row.
Money ==
  /\ ClearedWithinAmount
  /\ \A w \in Workers : Settling(w) =>
       work[w].left = settlements[work[w].row].amount - settlements[work[w].row].cleared
  /\ \A w, x \in Workers : Settling(w) /\ Settling(x) /\ w # x => work[w].row # work[x].row

\* Who pays last closes the split.
Noticed ==
  \A e \in Born \ disturbed :
    Unpaid(e) = {} => \/ expense[e].status = "SETTLED"
                      \/ \E w \in Workers : At(w, "close") /\ work[w].e = e

-----------------------------------------------------------------------------
(* Typing.                                                                 *)

\* Everyone who takes part in a split is a user, and every share is a number of cents.
LEMMA OrderType ==
  ASSUME NEW o \in Orders
  PROVE  /\ o \in Forms /\ Members(o) \subseteq Users /\ o.payer \in Members(o)
         /\ Members(o) # {o.payer}
         /\ \A u \in Users : Share(o, u) \in Nat
<1>1. o \in Forms /\ o.others # {} /\ o.creator \notin o.others
  BY ExpenseAssumption
<1>2. o.creator \in Users /\ o.payer \in Users /\ o.others \subseteq Users
  BY <1>1 DEF Forms
<1>3. Members(o) # {o.payer}
  BY <1>1 DEF Members
<1> QED
  BY <1>1, <1>2, <1>3, SharesAssumption DEF Members

\* The row of a split.
LEMMA BornRow ==
  ASSUME TypeOK, NEW e \in Born
  PROVE  /\ e \in Expenses /\ expense[e] \in ExpenseRows /\ expense[e].order \in Orders
         /\ Participants(e) \subseteq Users /\ expense[e].paid \subseteq Participants(e)
<1>1. e \in Expenses /\ expense[e].born
  BY DEF Born
<1>2. expense[e] \in ExpenseRows \cup {NoExpense}
  BY <1>1 DEF TypeOK
<1>3. expense[e] # NoExpense
  BY <1>1 DEF NoExpense
<1>4. expense[e] \in ExpenseRows
  BY <1>2, <1>3
<1>5. expense[e].order \in Orders
  BY <1>4 DEF ExpenseRows
<1> QED
  BY <1>1, <1>4, <1>5, OrderType DEF Participants, TypeOK

\* What no statement of any request takes back: a split, its order, a payment, its home, that it
\* is settled and that it has been unlinked.
Grows ==
  /\ Born \subseteq Born'
  /\ \A e \in Born :
       LET r == expense[e]
           s == expense'[e]
       IN /\ s.order = r.order /\ s.home = r.home /\ r.paid \subseteq s.paid
          /\ r.status = "SETTLED" => s.status = "SETTLED"
          /\ r.group = 0 => s.group = 0

\* A row is rewritten.
LEMMA RowChange ==
  ASSUME TypeOK, NEW e \in Born, NEW r \in ExpenseRows,
         expense' = [expense EXCEPT ![e] = r],
         r.order = expense[e].order, r.home = expense[e].home,
         expense[e].paid \subseteq r.paid, r.paid \subseteq Participants(e),
         expense[e].status = "SETTLED" => r.status = "SETTLED",
         expense[e].group = 0 => r.group = 0
  PROVE  /\ Grows /\ Born' = Born
         /\ expense' \in [Expenses -> ExpenseRows \cup {NoExpense}]
         /\ \A d \in Born' : (expense'[d]).paid \subseteq Participants(d)'
         /\ expense'[e] = r /\ \A d \in Expenses \ {e} : expense'[d] = expense[d]
<1>1. e \in Expenses /\ expense[e] \in ExpenseRows
  BY BornRow
<1>2. expense'[e] = r /\ \A d \in Expenses \ {e} : expense'[d] = expense[d]
  BY <1>1 DEF TypeOK
<1>3. expense' \in [Expenses -> ExpenseRows \cup {NoExpense}]
  BY <1>1 DEF TypeOK
<1>4. r.born /\ expense[e].born
  BY <1>1 DEF ExpenseRows
<1>5. Born' = Born
  BY <1>1, <1>2, <1>4 DEF Born
<1>6. \A d \in Born : Participants(d)' = Participants(d)
  BY <1>2, <1>1 DEF Participants, Born
<1>7. \A d \in Born' : (expense'[d]).paid \subseteq Participants(d)'
  BY <1>2, <1>5, <1>6, BornRow
<1>8. Grows
  BY <1>2, <1>5, BornRow DEF Grows
<1> QED
  BY <1>2, <1>3, <1>5, <1>7, <1>8

\* Rows that nobody touches grow trivially.
LEMMA SameRows ==
  ASSUME expense' = expense PROVE Grows /\ Born' = Born
  BY DEF Grows, Born

-----------------------------------------------------------------------------
(* What a worker holds stays true while others work.                       *)

LEMMA KnowsStable ==
  ASSUME Grows, NEW w \in Workers, work'[w] = work[w], NEW e, Knows(w, e)
  PROVE  Knows(w, e)'
  BY DEF Knows, Grows

LEMMA UnpaidStable ==
  ASSUME Grows, NEW e \in Born
  PROVE  Participants(e)' = Participants(e) /\ Unpaid(e)' \subseteq Unpaid(e)
  BY DEF Grows, Participants, Unpaid

LEMMA HoldsStable ==
  ASSUME TypeOK, Grows, DOMAIN settlements \subseteq DOMAIN settlements',
         NEW w \in Workers, Holds(w), work'[w] = work[w]
  PROVE  Holds(w)'
<1>1. \A e \in Expenses : (work'[w]).seen[e] # {}
        => e \in Born' /\ (work'[w]).seen[e] \subseteq (expense'[e]).paid
  BY DEF Holds, Grows
<1>2. At(w, "insert")' => (work'[w]).order \in Orders
  BY DEF Holds, At
<1>3. (work'[w]).pc \in {"pay", "close"} => Knows(w, work[w].e)'
  BY KnowsStable DEF Holds
<1>4. At(w, "pay")' => (work'[w]).op = "pay" /\ (work'[w]).who \in Participants(work[w].e)'
  BY UnpaidStable DEF Holds, At, Knows
<1>5. At(w, "close")' => (work'[w]).op \in {"pay", "settle"} /\ Unpaid(work[w].e)' = {}
  BY UnpaidStable DEF Holds, At, Knows
<1>6. Settling(w)' <=> Settling(w)
  BY DEF Settling
<1>7. Settling(w) => \A e \in work[w].todo : Knows(w, e)' /\ work[w].who \in Participants(e)'
  BY KnowsStable, UnpaidStable DEF Holds, Knows
<1>8. (work'[w]).pc \in {"unlink", "delete"} => (work'[w]).todo \subseteq Born'
  BY DEF Holds, At, Grows
<1> QED
  BY <1>1, <1>2, <1>3, <1>4, <1>5, <1>6, <1>7, <1>8 DEF Holds

\* An idle worker holds nothing.
LEMMA IdleHolds ==
  ASSUME NEW w \in Workers
  PROVE  /\ work[w] = Idle => Holds(w) /\ ~Settling(w)
         /\ work'[w] = Idle => Holds(w)' /\ ~Settling(w)'
  BY DEF Holds, Idle, At, Settling

LEMMA IdleType == Idle \in Tasks
  BY ExpenseAssumption DEF Idle, Tasks, Expenses

-----------------------------------------------------------------------------
(* Types, what is held, and that a settled split is paid.                  *)

Core == TypeOK /\ Held /\ SettledIsPaid

\* One worker moves.
LEMMA Moves ==
  ASSUME Core, NEW w \in Workers, NEW t \in Tasks, work' = [work EXCEPT ![w] = t],
         Grows, DOMAIN settlements \subseteq DOMAIN settlements',
         Holds(w)'
  PROVE  Held' /\ work' \in [Workers -> Tasks]
<1>1. work' \in [Workers -> Tasks] /\ \A x \in Workers \ {w} : work'[x] = work[x]
  BY DEF Core, TypeOK
<1>2. \A x \in Workers \ {w} : Holds(x)'
  BY <1>1, HoldsStable DEF Core, Held
<1> QED
  BY <1>1, <1>2 DEF Held

\* One worker is done.
LEMMA Rests ==
  ASSUME Core, NEW w \in Workers, Done(w), Grows, DOMAIN settlements \subseteq DOMAIN settlements'
  PROVE  Held' /\ work' \in [Workers -> Tasks] /\ work'[w] = Idle
<1>1. work' = [work EXCEPT ![w] = Idle] /\ work'[w] = Idle
  BY DEF Done, Core, TypeOK
<1>2. Holds(w)'
  BY <1>1, IdleHolds
<1> QED
  BY <1>1, <1>2, IdleType, Moves

\* A split that nobody touches stays paid.
LEMMA PaidStable ==
  ASSUME Core, Grows, Born' = Born,
         \A e \in Born : (expense'[e]).status = "SETTLED"
                           => expense[e].status = "SETTLED" \/ Unpaid(e) = {}
  PROVE  SettledIsPaid'
  BY UnpaidStable DEF Core, SettledIsPaid

LEMMA CreateCore ==
  ASSUME Core, NEW w \in Requests, NEW o \in Orders, StartCreate(w, o)
  PROVE  Core' /\ Grows
<1> DEFINE g == IF Cardinality(o.others) > 1 THEN opened + 1 ELSE 0
           t == [Idle EXCEPT !.op = "create", !.pc = "insert", !.order = o, !.group = g]
<1>1. /\ work' = [work EXCEPT ![w] = t] /\ w \in Workers
      /\ opened' \in {opened, g} /\ opened' \in Nat /\ opened <= opened'
      /\ groups' \subseteq groups \cup {g} /\ opened < MaxExpenses
      /\ (g = 0 /\ opened' = opened /\ groups' = groups) \/ (opened' = g /\ g = opened + 1)
      /\ UNCHANGED <<expense, settlements, history>>
  BY DEF StartCreate, Begin, Core, TypeOK, Workers
<1>2. Grows /\ Born' = Born
  BY <1>1, SameRows
<1>3. g \in 0..MaxExpenses /\ opened' \in 0..MaxExpenses /\ groups' \subseteq 1..opened'
  BY <1>1, ExpenseAssumption DEF Core, TypeOK
<1>4. t \in Tasks
  <2> HIDE DEF g
  <2> QED
    BY <1>3, IdleType DEF Tasks
<1>5. work'[w] = t
  BY <1>1 DEF Core, TypeOK
<1>6. Holds(w)'
  BY <1>5 DEF Holds, At, Settling, Idle
<1> HIDE DEF t, g
<1>7. Held' /\ work' \in [Workers -> Tasks]
  BY <1>1, <1>2, <1>4, <1>6, Moves
<1>8. SettledIsPaid'
  BY <1>1, <1>2, PaidStable
<1>9. \A e \in Born' : (expense'[e]).paid \subseteq Participants(e)'
  BY <1>1, <1>2, UnpaidStable, BornRow DEF Core
<1> QED
  BY <1>1, <1>2, <1>3, <1>7, <1>8, <1>9 DEF Core, TypeOK, history

LEMMA InsertCore ==
  ASSUME Core, NEW w \in Workers, NEW e \in Expenses, InsertExpense(w, e)
  PROVE  Core' /\ Grows
<1> DEFINE o == work[w].order
           r == [born |-> TRUE, order |-> o, status |-> "ACTIVE", paid |-> {o.payer},
                 group |-> work[w].group, home |-> work[w].group, deleteAt |-> "none"]
<1>1. /\ e \notin Born /\ expense' = [expense EXCEPT ![e] = r] /\ Done(w)
      /\ UNCHANGED <<groups, opened, settlements, history>>
  BY DEF InsertExpense
<1>2. o \in Orders
  BY DEF InsertExpense, Core, Held, Holds
<1>3. r \in ExpenseRows
  BY <1>2, OrderType DEF ExpenseRows, Core, TypeOK, Tasks
<1>4. expense'[e] = r /\ \A d \in Expenses \ {e} : expense'[d] = expense[d]
  BY <1>1 DEF Core, TypeOK
<1>5. Born' = Born \cup {e}
  BY <1>4 DEF Born
<1>6. Grows
  BY <1>1, <1>4, <1>5 DEF Grows, Born
<1>7. expense' \in [Expenses -> ExpenseRows \cup {NoExpense}]
  BY <1>1, <1>3 DEF Core, TypeOK
<1>8. Participants(e)' = Members(o)
  BY <1>4 DEF Participants
<1>9. (expense'[e]).paid \subseteq Participants(e)' /\ (expense'[e]).status = "ACTIVE"
  BY <1>4, <1>8, <1>2, OrderType
<1> HIDE DEF r, o
<1>10. \A d \in Born' : (expense'[d]).paid \subseteq Participants(d)'
  BY <1>1, <1>4, <1>5, <1>9, UnpaidStable, <1>6, BornRow DEF Core, Born
<1>11. Held' /\ work' \in [Workers -> Tasks]
  BY <1>1, <1>6, Rests
<1>12. SettledIsPaid'
  <2>1. SUFFICES ASSUME NEW d \in Born', (expense'[d]).status = "SETTLED" PROVE Unpaid(d)' = {}
    BY DEF SettledIsPaid
  <2>2. d # e /\ d \in Born
    BY <2>1, <1>5, <1>9
  <2>3. expense[d].status = "SETTLED"
    BY <2>1, <2>2, <1>4 DEF Born
  <2> QED
    BY <2>2, <2>3, <1>6, UnpaidStable DEF Core, SettledIsPaid
<1> QED
  BY <1>1, <1>6, <1>7, <1>10, <1>11, <1>12 DEF Core, TypeOK, history

\* What a request reads of a set of splits.
LEMMA SnapshotHolds ==
  ASSUME Core, NEW S \in SUBSET Born
  PROVE  /\ Snapshot(S) \in [Expenses -> SUBSET Users]
         /\ \A e \in Expenses : Snapshot(S)[e] # {} => e \in Born /\ Snapshot(S)[e] = expense[e].paid
         /\ Linked(S) \in SUBSET Expenses
         /\ \A e \in S : e \in Expenses /\ (e \notin Linked(S) => expense[e].group = 0)
<1>1. \A e \in S : expense[e].paid \in SUBSET Users
  BY BornRow DEF Core
<1> QED
  BY <1>1 DEF Snapshot, Linked, Born

LEMMA PayCore ==
  ASSUME Core, NEW w \in Requests, NEW e \in Expenses, NEW u \in Users, NEW v \in Users,
         StartPay(w, v, e, u)
  PROVE  Core' /\ Grows
<1> DEFINE t == [Idle EXCEPT !.op = "pay", !.pc = "pay", !.e = e, !.who = u,
                             !.seen = Snapshot({e}), !.linked = Linked({e})]
<1>1. /\ work' = [work EXCEPT ![w] = t] /\ w \in Workers /\ e \in Born /\ u \in Participants(e)
      /\ UNCHANGED <<rows, history>>
  BY DEF StartPay, Begin, Workers, Unpaid
<1>2. Grows /\ Born' = Born
  BY <1>1, SameRows DEF rows
<1>3. /\ Snapshot({e}) \in [Expenses -> SUBSET Users] /\ Linked({e}) \in SUBSET Expenses
      /\ \A d \in Expenses : Snapshot({e})[d] # {} => d \in Born /\ Snapshot({e})[d] = expense[d].paid
      /\ e \notin Linked({e}) => expense[e].group = 0
  BY <1>1, SnapshotHolds
<1>4. t \in Tasks
  <2>1. e \in 0..MaxExpenses
    BY ExpenseAssumption DEF Expenses
  <2> QED
    BY <2>1, <1>3, IdleType DEF Tasks
<1>5. work'[w] = t
  BY <1>1 DEF Core, TypeOK
<1>6. Participants(e)' = Participants(e) /\ expense' = expense
  BY <1>1, <1>2, UnpaidStable DEF rows
<1>7. /\ t.seen = Snapshot({e}) /\ t.pc = "pay" /\ t.op = "pay" /\ t.e = e /\ t.who = u
      /\ t.linked = Linked({e})
  BY DEF Idle
<1> HIDE DEF t
<1>8. Knows(w, e)'
  BY <1>1, <1>2, <1>3, <1>5, <1>6, <1>7 DEF Knows
<1>9. Holds(w)'
  BY <1>1, <1>2, <1>3, <1>5, <1>6, <1>7, <1>8 DEF Holds, At, Settling
<1>10. Held' /\ work' \in [Workers -> Tasks]
  BY <1>1, <1>2, <1>4, <1>9, Moves DEF rows
<1>11. SettledIsPaid'
  BY <1>1, <1>2, <1>6, PaidStable
<1> QED
  BY <1>1, <1>2, <1>10, <1>11, UnpaidStable DEF Core, TypeOK, rows, history

\* A share is marked on the row of a split.
LEMMA MarkRow ==
  ASSUME Core, NEW w \in Workers, NEW e \in Born, work[w].who \in Participants(e), MarkShare(w, e)
  PROVE  /\ Grows /\ Born' = Born
         /\ expense' \in [Expenses -> ExpenseRows \cup {NoExpense}]
         /\ \A d \in Born' : (expense'[d]).paid \subseteq Participants(d)'
         /\ expense'[e] = [expense[e] EXCEPT !.paid = @ \cup {work[w].who}]
         /\ \A d \in Expenses \ {e} : expense'[d] = expense[d]
         /\ disturbed' \subseteq Expenses
         /\ Unpaid(e)' = Unpaid(e) \ {work[w].who}
         /\ SettledIsPaid'
<1> DEFINE r == [expense[e] EXCEPT !.paid = @ \cup {work[w].who}]
<1>1. /\ expense[e] \in ExpenseRows /\ e \in Expenses /\ Participants(e) \subseteq Users
      /\ expense[e].paid \subseteq Participants(e)
  BY BornRow DEF Core
<1>2. r \in ExpenseRows
  BY <1>1 DEF ExpenseRows
<1>3. expense' = [expense EXCEPT ![e] = r]
  BY DEF MarkShare
<1>4. /\ r.order = expense[e].order /\ r.home = expense[e].home /\ r.group = expense[e].group
      /\ r.status = expense[e].status /\ r.paid = expense[e].paid \cup {work[w].who}
  BY <1>1 DEF ExpenseRows
<1> HIDE DEF r
<1>5. /\ Grows /\ Born' = Born
      /\ expense' \in [Expenses -> ExpenseRows \cup {NoExpense}]
      /\ \A d \in Born' : (expense'[d]).paid \subseteq Participants(d)'
      /\ expense'[e] = r /\ \A d \in Expenses \ {e} : expense'[d] = expense[d]
  BY <1>1, <1>2, <1>3, <1>4, RowChange DEF Core
<1>6. Unpaid(e)' = Unpaid(e) \ {work[w].who}
  BY <1>4, <1>5, UnpaidStable DEF Unpaid
<1>7. SettledIsPaid'
  BY <1>1, <1>4, <1>5, PaidStable DEF Born
<1>8. disturbed' \subseteq Expenses
  BY <1>1 DEF MarkShare, Core, TypeOK
<1> QED
  BY <1>5, <1>6, <1>7, <1>8 DEF r

\* Who has read all others as paid finds the split paid once its own share is marked.
LEMMA LastShare ==
  ASSUME Core, NEW w \in Workers, NEW e \in Born, OthersUnpaid(w, e) = {},
         Unpaid(e)' = Unpaid(e) \ {work[w].who}
  PROVE  Unpaid(e)' = {}
<1>1. e \in Expenses /\ (work[w].seen[e] # {} => work[w].seen[e] \subseteq expense[e].paid)
  BY BornRow DEF Core, Held, Holds
<1> QED
  BY <1>1 DEF OthersUnpaid, Unpaid

LEMMA MarkPaidCore ==
  ASSUME Core, NEW w \in Workers, MarkPaid(w)
  PROVE  Core' /\ Grows
<1> DEFINE t == [work[w] EXCEPT !.pc = "close"]
<1>1. /\ At(w, "pay") /\ MarkShare(w, work[w].e)
      /\ UNCHANGED <<groups, opened, settlements, orphans, crashes>>
      /\ \/ OthersUnpaid(w, work[w].e) = {} /\ work' = [work EXCEPT ![w] = t]
         \/ Done(w)
  BY DEF MarkPaid, Goto
<1>2. /\ Knows(w, work[w].e) /\ work[w].op = "pay"
      /\ work[w].who \in Participants(work[w].e)
  BY <1>1 DEF Core, Held, Holds, At
<1>3. PICK e \in Born : e = work[w].e
  BY <1>2 DEF Knows
<1>4. /\ Grows /\ Born' = Born
      /\ expense' \in [Expenses -> ExpenseRows \cup {NoExpense}]
      /\ \A d \in Born' : (expense'[d]).paid \subseteq Participants(d)'
      /\ disturbed' \subseteq Expenses /\ SettledIsPaid'
      /\ Unpaid(e)' = Unpaid(e) \ {work[w].who}
  BY <1>1, <1>2, <1>3, MarkRow
<1>5. Held' /\ work' \in [Workers -> Tasks]
  <2>1. CASE Done(w)
    BY <2>1, <1>1, <1>4, Rests
  <2>2. CASE OthersUnpaid(w, work[w].e) = {} /\ work' = [work EXCEPT ![w] = t]
    <3>1. t \in Tasks /\ work[w] \in Tasks /\ work'[w] = t
      BY <2>2 DEF Core, TypeOK, Tasks
    <3>2. /\ t.pc = "close" /\ t.op = "pay" /\ t.e = e /\ t.seen = work[w].seen
          /\ t.linked = work[w].linked
      BY <3>1, <1>2, <1>3 DEF Tasks
    <3> HIDE DEF t
    <3>3. Unpaid(e)' = {}
      BY <2>2, <1>3, <1>4, LastShare
    <3>4. Knows(w, e)'
      BY <3>1, <3>2, <1>2, <1>3, <1>4 DEF Knows, Grows
    <3>5. \A d \in Expenses : work[w].seen[d] # {}
            => d \in Born' /\ work[w].seen[d] \subseteq (expense'[d]).paid
      BY <1>4 DEF Core, Held, Holds, Grows
    <3>6. Holds(w)'
      BY <3>1, <3>2, <3>3, <3>4, <3>5 DEF Holds, At, Settling
    <3> QED
      BY <2>2, <3>1, <3>6, <1>1, <1>4, Moves
  <2> QED
    BY <1>1, <2>1, <2>2
<1> QED
  BY <1>1, <1>4, <1>5 DEF Core, TypeOK

\* The row of a split that is closed, and what the worker does next.
LEMMA CloseRow ==
  ASSUME Core, NEW w \in Workers, CloseSplit(w)
  PROVE  \E e \in Born :
           /\ e = work[w].e /\ Knows(w, e) /\ Unpaid(e) = {} /\ At(w, "close")
           /\ Grows /\ Born' = Born
           /\ expense' \in [Expenses -> ExpenseRows \cup {NoExpense}]
           /\ \A d \in Born' : (expense'[d]).paid \subseteq Participants(d)'
           /\ expense'[e] = [expense[e] EXCEPT
                !.status = "SETTLED",
                !.deleteAt = IF e \in work[w].linked /\ ~expense[e].order.ongoing
                               THEN "grace" ELSE "none"]
           /\ \A d \in Expenses \ {e} : expense'[d] = expense[d]
<1>1. /\ At(w, "close") /\ Knows(w, work[w].e) /\ Unpaid(work[w].e) = {}
  BY DEF CloseSplit, Core, Held, Holds, At
<1>2. PICK e \in Born : e = work[w].e
  BY <1>1 DEF Knows
<1> DEFINE date == IF e \in work[w].linked /\ ~expense[e].order.ongoing THEN "grace" ELSE "none"
           r == [expense[e] EXCEPT !.status = "SETTLED", !.deleteAt = date]
<1>3. /\ expense[e] \in ExpenseRows /\ e \in Expenses /\ expense[e].paid \subseteq Participants(e)
  BY BornRow DEF Core
<1>4. date \in {"none", "grace"}
  OBVIOUS
<1>5. expense' = [expense EXCEPT ![e].status = "SETTLED", ![e].deleteAt = date]
  BY <1>2 DEF CloseSplit
<1> HIDE DEF date
<1>6. r \in ExpenseRows
  BY <1>3, <1>4 DEF ExpenseRows
<1>7. expense' = [expense EXCEPT ![e] = r]
  BY <1>3, <1>5 DEF Core, TypeOK
<1>8. /\ r.order = expense[e].order /\ r.home = expense[e].home /\ r.group = expense[e].group
      /\ r.status = "SETTLED" /\ r.paid = expense[e].paid
  BY <1>3 DEF ExpenseRows
<1> HIDE DEF r
<1>9. /\ Grows /\ Born' = Born
      /\ expense' \in [Expenses -> ExpenseRows \cup {NoExpense}]
      /\ \A d \in Born' : (expense'[d]).paid \subseteq Participants(d)'
      /\ expense'[e] = r /\ \A d \in Expenses \ {e} : expense'[d] = expense[d]
  BY <1>3, <1>6, <1>7, <1>8, RowChange DEF Core
<1> QED
  BY <1>1, <1>2, <1>9 DEF r, date

LEMMA CloseCore ==
  ASSUME Core, NEW w \in Workers, CloseSplit(w)
  PROVE  Core' /\ Grows
<1> DEFINE t == [work[w] EXCEPT !.pc = "clear"]
<1>1. /\ \/ work[w].op # "pay" /\ work' = [work EXCEPT ![w] = t]
         \/ Done(w)
      /\ UNCHANGED <<groups, opened, settlements, history>>
  BY DEF CloseSplit, Goto
<1>2. PICK e \in Born :
           /\ e = work[w].e /\ Knows(w, e) /\ Unpaid(e) = {} /\ At(w, "close")
           /\ Grows /\ Born' = Born
           /\ expense' \in [Expenses -> ExpenseRows \cup {NoExpense}]
           /\ \A d \in Born' : (expense'[d]).paid \subseteq Participants(d)'
           /\ \A d \in Expenses \ {e} : expense'[d] = expense[d]
  BY CloseRow
<1>3. SettledIsPaid'
  BY <1>2, PaidStable DEF Born
<1>4. Held' /\ work' \in [Workers -> Tasks]
  <2>1. CASE Done(w)
    BY <2>1, <1>1, <1>2, Rests
  <2>2. CASE work[w].op # "pay" /\ work' = [work EXCEPT ![w] = t]
    <3>1. t \in Tasks /\ work[w] \in Tasks /\ work'[w] = t
      BY <2>2 DEF Core, TypeOK, Tasks
    <3>2. /\ t.pc = "clear" /\ t.op = work[w].op /\ t.who = work[w].who /\ t.row = work[w].row
          /\ t.seen = work[w].seen /\ t.todo = work[w].todo /\ t.linked = work[w].linked
      BY <3>1 DEF Tasks
    <3>3. Holds(w) /\ work[w].pc = "close"
      BY <1>2 DEF Core, Held, At
    <3>4. Settling(w) /\ work[w].op = "settle"
      BY <2>2, <3>3 DEF Settling, Holds, At
    <3>5. \A d \in work[w].todo : Knows(w, d) /\ work[w].who \in Participants(d)
      BY <3>3, <3>4 DEF Holds
    <3> HIDE DEF t
    <3>6. \A d \in work[w].todo : Knows(w, d)' /\ work[w].who \in Participants(d)'
      BY <3>1, <3>2, <3>5, <1>2, UnpaidStable DEF Knows, Grows
    <3>7. \A d \in Expenses : work[w].seen[d] # {}
            => d \in Born' /\ work[w].seen[d] \subseteq (expense'[d]).paid
      BY <3>3, <1>2 DEF Holds, Grows
    <3>8. work[w].who \in Users /\ work[w].row \in DOMAIN settlements'
      BY <3>3, <3>4, <1>1 DEF Holds
    <3>9. Holds(w)'
      BY <3>1, <3>2, <3>4, <3>6, <3>7, <3>8 DEF Holds, At, Settling
    <3> QED
      BY <2>2, <3>1, <3>9, <1>1, <1>2, Moves
  <2> QED
    BY <1>1, <2>1, <2>2
<1> QED
  BY <1>1, <1>2, <1>3, <1>4 DEF Core, TypeOK, history

LEMMA LeftType ==
  ASSUME NEW x \in Tasks, NEW n \in Int PROVE [x EXCEPT !.left = n] \in Tasks
  BY DEF Tasks

LEMMA SettleCore ==
  ASSUME Core, NEW w \in Requests, NEW u \in Users, NEW v \in Users, NEW a \in Amounts,
         StartSettle(w, u, v, a)
  PROVE  Core' /\ Grows
<1> DEFINE r == [from |-> u, to |-> v, amount |-> a, cleared |-> 0]
           t == [Idle EXCEPT !.op = "settle", !.pc = "debts", !.who = u,
                             !.row = Len(settlements) + 1, !.left = a]
<1>1. /\ work' = [work EXCEPT ![w] = t] /\ w \in Workers
      /\ settlements' = Append(settlements, r)
      /\ UNCHANGED <<expense, groups, opened, history>>
  BY DEF StartSettle, Begin, Workers
<1>2. Grows /\ Born' = Born
  BY <1>1, SameRows
<1>3. a \in Nat /\ r \in SettlementRows
  BY ExpenseAssumption DEF SettlementRows
<1> HIDE DEF r
<1>4. /\ settlements' \in Seq(SettlementRows) /\ Len(settlements) + 1 \in DOMAIN settlements'
      /\ DOMAIN settlements \subseteq DOMAIN settlements' /\ Len(settlements) + 1 \in Nat
  BY <1>1, <1>3 DEF Core, TypeOK
<1>5. t \in Tasks
  <2> DEFINE n == Len(settlements) + 1
             x == [Idle EXCEPT !.op = "settle", !.pc = "debts", !.who = u, !.row = n]
  <2>1. n \in Nat /\ a \in Int
    BY <1>3, <1>4
  <2> HIDE DEF n
  <2>2. x \in Tasks
    BY <2>1, IdleType DEF Tasks
  <2>3. t = [x EXCEPT !.left = a]
    BY IdleType DEF Tasks, n
  <2> QED
    BY <2>1, <2>2, <2>3, LeftType
<1>6. work'[w] = t
  BY <1>1 DEF Core, TypeOK
<1>7. /\ t.op = "settle" /\ t.pc = "debts" /\ t.who = u /\ t.row = Len(settlements) + 1
      /\ t.todo = {} /\ \A e \in Expenses : t.seen[e] = {}
  BY DEF Idle
<1> HIDE DEF t
<1>8. Holds(w)'
  BY <1>4, <1>6, <1>7 DEF Holds, At, Settling
<1>9. Held' /\ work' \in [Workers -> Tasks]
  BY <1>1, <1>2, <1>4, <1>5, <1>8, Moves
<1>10. SettledIsPaid'
  BY <1>1, <1>2, PaidStable
<1> QED
  BY <1>1, <1>2, <1>4, <1>9, <1>10, UnpaidStable DEF Core, TypeOK, history

LEMMA ReadCore ==
  ASSUME Core, NEW w \in Workers, ReadDebts(w)
  PROVE  Core' /\ Grows
<1> DEFINE debts == {e \in Born : /\ expense[e].status = "ACTIVE"
                                  /\ Payer(e) = settlements[work[w].row].to
                                  /\ work[w].who \in Unpaid(e)}
           t == [work[w] EXCEPT !.pc = "clear", !.todo = debts,
                                !.seen = Snapshot(debts), !.linked = Linked(debts)]
<1>1. /\ At(w, "debts") /\ work' = [work EXCEPT ![w] = t] /\ UNCHANGED <<rows, history>>
  BY DEF ReadDebts
<1>2. Grows /\ Born' = Born
  BY <1>1, SameRows DEF rows
<1>3. debts \in SUBSET Born /\ \A e \in debts : work[w].who \in Participants(e)
  BY DEF Unpaid
<1> HIDE DEF debts
<1>4. /\ Snapshot(debts) \in [Expenses -> SUBSET Users] /\ Linked(debts) \in SUBSET Expenses
      /\ \A e \in Expenses : Snapshot(debts)[e] # {}
                               => e \in Born /\ Snapshot(debts)[e] = expense[e].paid
      /\ \A e \in debts : e \in Expenses /\ (e \notin Linked(debts) => expense[e].group = 0)
  BY <1>3, SnapshotHolds
<1>5. work[w] \in Tasks /\ debts \in SUBSET Expenses
  BY <1>4 DEF Core, TypeOK
<1>6. t \in Tasks /\ work'[w] = t
  BY <1>1, <1>4, <1>5 DEF Core, TypeOK, Tasks
<1>7. /\ t.pc = "clear" /\ t.op = work[w].op /\ t.who = work[w].who /\ t.row = work[w].row
      /\ t.seen = Snapshot(debts) /\ t.todo = debts /\ t.linked = Linked(debts)
  BY <1>5 DEF Tasks
<1>8. /\ work[w].op = "settle" /\ work[w].who \in Users /\ work[w].row \in DOMAIN settlements
  BY <1>1 DEF Core, Held, Holds, Settling, At
<1> HIDE DEF t
<1>9. \A e \in debts : Knows(w, e)' /\ work[w].who \in Participants(e)'
  BY <1>1, <1>2, <1>3, <1>4, <1>6, <1>7, UnpaidStable DEF Knows, rows
<1>10. Holds(w)'
  BY <1>1, <1>2, <1>4, <1>6, <1>7, <1>8, <1>9 DEF Holds, At, Settling, rows
<1>11. Held' /\ work' \in [Workers -> Tasks]
  BY <1>1, <1>2, <1>6, <1>10, Moves DEF rows
<1>12. SettledIsPaid'
  BY <1>1, <1>2, PaidStable DEF rows
<1> QED
  BY <1>1, <1>2, <1>11, <1>12, UnpaidStable DEF Core, TypeOK, rows, history

\* A worker that clears debts knows its row and the debts.
LEMMA Clearing ==
  ASSUME Core, NEW w \in Workers, At(w, "clear")
  PROVE  /\ Holds(w) /\ work[w] \in Tasks /\ work[w].op = "settle"
         /\ work[w].who \in Users /\ work[w].row \in DOMAIN settlements
         /\ settlements[work[w].row] \in SettlementRows
         /\ \A e \in work[w].todo : /\ Knows(w, e) /\ work[w].who \in Participants(e)
                                    /\ Owed(e, work[w].who) \in Nat
<1>1. /\ Holds(w) /\ work[w] \in Tasks /\ work[w].op = "settle"
      /\ work[w].who \in Users /\ work[w].row \in DOMAIN settlements
      /\ \A e \in work[w].todo : Knows(w, e) /\ work[w].who \in Participants(e)
  BY DEF Core, Held, Holds, Settling, At, TypeOK
<1>2. settlements[work[w].row] \in SettlementRows
  BY <1>1 DEF Core, TypeOK
<1>3. \A e \in work[w].todo : Owed(e, work[w].who) \in Nat
  BY <1>1, BornRow, OrderType DEF Owed, Knows, Core
<1> QED
  BY <1>1, <1>2, <1>3

LEMMA ClearCore ==
  ASSUME Core, NEW w \in Workers, NEW e \in Expenses, ClearDebt(w, e)
  PROVE  Core' /\ Grows
<1> DEFINE owed == Owed(e, work[w].who)
           pc == IF OthersUnpaid(w, e) = {} THEN "close" ELSE "clear"
           t == [work[w] EXCEPT !.e = e, !.todo = @ \ {e}, !.left = @ - owed, !.pc = pc]
           i == work[w].row
<1>1. /\ At(w, "clear") /\ e \in work[w].todo /\ MarkShare(w, e)
      /\ settlements' = [settlements EXCEPT ![i].cleared = @ + owed]
      /\ work' = [work EXCEPT ![w] = t]
      /\ UNCHANGED <<groups, opened, orphans, crashes>>
  BY DEF ClearDebt
<1>2. /\ Holds(w) /\ work[w] \in Tasks /\ work[w].op = "settle"
      /\ work[w].who \in Users /\ i \in DOMAIN settlements
      /\ settlements[i] \in SettlementRows
      /\ \A d \in work[w].todo : Knows(w, d) /\ work[w].who \in Participants(d)
      /\ owed \in Nat
  BY <1>1, Clearing
<1>3. e \in Born /\ work[w].who \in Participants(e)
  BY <1>1, <1>2 DEF Knows
<1>4. /\ Grows /\ Born' = Born
      /\ expense' \in [Expenses -> ExpenseRows \cup {NoExpense}]
      /\ \A d \in Born' : (expense'[d]).paid \subseteq Participants(d)'
      /\ disturbed' \subseteq Expenses /\ SettledIsPaid'
      /\ Unpaid(e)' = Unpaid(e) \ {work[w].who}
  BY <1>1, <1>3, MarkRow
<1>5. settlements' \in Seq(SettlementRows) /\ DOMAIN settlements' = DOMAIN settlements
  <2>1. [settlements[i] EXCEPT !.cleared = @ + owed] \in SettlementRows
    BY <1>2 DEF SettlementRows
  <2>2. settlements' = [settlements EXCEPT ![i] = [settlements[i] EXCEPT !.cleared = @ + owed]]
    BY <1>1
  <2> HIDE DEF i, owed
  <2> QED
    BY <2>1, <2>2, <1>2 DEF Core, TypeOK
<1>6. pc \in {"close", "clear"} /\ (pc = "close" => OthersUnpaid(w, e) = {})
  OBVIOUS
<1> HIDE DEF pc, owed, i
<1>7. e \in 0..MaxExpenses
  BY ExpenseAssumption DEF Expenses
<1>8. t \in Tasks /\ work'[w] = t
  <2> DEFINE n == work[w].left - owed
             x == [work[w] EXCEPT !.e = e, !.todo = @ \ {e}, !.pc = pc]
  <2>1. n \in Int
    BY <1>2 DEF Tasks
  <2>2. t = [x EXCEPT !.left = n]
    BY <1>2 DEF Tasks
  <2>3. x \in Tasks
    BY <1>2, <1>6, <1>7 DEF Tasks
  <2>4. t \in Tasks
    BY <2>1, <2>2, <2>3, LeftType
  <2> QED
    BY <2>4, <1>1 DEF Core, TypeOK
<1>9. /\ t.pc = pc /\ t.op = "settle" /\ t.who = work[w].who /\ t.row = i /\ t.e = e
      /\ t.seen = work[w].seen /\ t.todo \subseteq work[w].todo /\ t.linked = work[w].linked
  BY <1>2 DEF Tasks, i
<1> HIDE DEF t
<1>10. \A d \in work[w].todo : Knows(w, d)' /\ work[w].who \in Participants(d)'
  BY <1>2, <1>4, <1>8, <1>9, UnpaidStable DEF Knows, Grows
<1>11. pc = "close" => Unpaid(e)' = {}
  BY <1>3, <1>4, <1>6, LastShare
<1>12. \A d \in Expenses : work[w].seen[d] # {}
            => d \in Born' /\ work[w].seen[d] \subseteq (expense'[d]).paid
  BY <1>2, <1>4 DEF Holds, Grows
<1>13. Holds(w)'
  BY <1>1, <1>2, <1>5, <1>6, <1>8, <1>9, <1>10, <1>11, <1>12 DEF Holds, At, Settling
<1>14. Held' /\ work' \in [Workers -> Tasks]
  BY <1>1, <1>4, <1>5, <1>8, <1>13, Moves
<1> QED
  BY <1>1, <1>4, <1>5, <1>14 DEF Core, TypeOK

LEMMA SkipCore ==
  ASSUME Core, NEW w \in Workers, NEW e \in Expenses, SkipDebt(w, e)
  PROVE  Core' /\ Grows
<1> DEFINE t == [work[w] EXCEPT !.todo = @ \ {e}]
<1>1. At(w, "clear") /\ work' = [work EXCEPT ![w] = t] /\ UNCHANGED <<rows, history>>
  BY DEF SkipDebt
<1>2. Grows /\ Born' = Born
  BY <1>1, SameRows DEF rows
<1>3. /\ Holds(w) /\ work[w] \in Tasks /\ work[w].op = "settle" /\ work[w].pc = "clear"
      /\ work[w].who \in Users /\ work[w].row \in DOMAIN settlements
      /\ \A d \in work[w].todo : Knows(w, d) /\ work[w].who \in Participants(d)
  BY <1>1, Clearing DEF At
<1>4. t \in Tasks /\ work'[w] = t
  BY <1>1, <1>3 DEF Core, TypeOK, Tasks
<1>5. /\ t.pc = "clear" /\ t.op = "settle" /\ t.who = work[w].who /\ t.row = work[w].row
      /\ t.seen = work[w].seen /\ t.todo \subseteq work[w].todo /\ t.linked = work[w].linked
  BY <1>3 DEF Tasks
<1> HIDE DEF t
<1>6. \A d \in t.todo : Knows(w, d)' /\ work[w].who \in Participants(d)'
  BY <1>1, <1>2, <1>3, <1>4, <1>5, UnpaidStable DEF Knows, rows
<1>7. \A d \in Expenses : t.seen[d] # {} => d \in Born' /\ t.seen[d] \subseteq (expense'[d]).paid
  BY <1>1, <1>2, <1>3, <1>5 DEF Holds, rows
<1>8. Holds(w)'
  BY <1>1, <1>3, <1>4, <1>5, <1>6, <1>7 DEF Holds, At, Settling, rows
<1>9. Held' /\ work' \in [Workers -> Tasks]
  BY <1>1, <1>2, <1>4, <1>8, Moves DEF rows
<1>10. SettledIsPaid'
  BY <1>1, <1>2, PaidStable DEF rows
<1> QED
  BY <1>1, <1>2, <1>9, <1>10, UnpaidStable DEF Core, TypeOK, rows, history

LEMMA EndCore ==
  ASSUME Core, NEW w \in Workers, EndSettle(w) \/ EndClean(w)
  PROVE  Core' /\ Grows
<1>1. Done(w) /\ UNCHANGED <<rows, history>>
  BY DEF EndSettle, EndClean
<1>2. Grows /\ Born' = Born
  BY <1>1, SameRows DEF rows
<1>3. Held' /\ work' \in [Workers -> Tasks]
  BY <1>1, <1>2, Rests DEF rows
<1>4. SettledIsPaid'
  BY <1>1, <1>2, PaidStable DEF rows
<1> QED
  BY <1>1, <1>2, <1>3, <1>4, UnpaidStable DEF Core, TypeOK, rows, history

\* A date or a link is changed on the row of a split.
LEMMA DateRow ==
  ASSUME Core, NEW e \in Born, NEW r \in ExpenseRows, expense' = [expense EXCEPT ![e] = r],
         r.order = expense[e].order, r.home = expense[e].home, r.paid = expense[e].paid,
         r.status = expense[e].status, expense[e].group = 0 => r.group = 0
  PROVE  /\ Grows /\ Born' = Born
         /\ expense' \in [Expenses -> ExpenseRows \cup {NoExpense}]
         /\ \A d \in Born' : (expense'[d]).paid \subseteq Participants(d)'
         /\ expense'[e] = r /\ \A d \in Expenses \ {e} : expense'[d] = expense[d]
         /\ SettledIsPaid'
<1>1. expense[e].paid \subseteq Participants(e)
  BY BornRow DEF Core
<1>2. /\ Grows /\ Born' = Born
      /\ expense' \in [Expenses -> ExpenseRows \cup {NoExpense}]
      /\ \A d \in Born' : (expense'[d]).paid \subseteq Participants(d)'
      /\ expense'[e] = r /\ \A d \in Expenses \ {e} : expense'[d] = expense[d]
  BY <1>1, RowChange DEF Core
<1>3. SettledIsPaid'
  BY <1>2, PaidStable DEF Born
<1> QED
  BY <1>2, <1>3

LEMMA GraceCore ==
  ASSUME Core, NEW e \in Expenses, GraceElapses(e)
  PROVE  Core' /\ Grows
<1> DEFINE r == [expense[e] EXCEPT !.deleteAt = "due"]
<1>1. /\ e \in Born /\ expense' = [expense EXCEPT ![e] = r]
      /\ UNCHANGED <<groups, opened, settlements, work, history>>
  BY DEF GraceElapses
<1>2. expense[e] \in ExpenseRows
  BY <1>1, BornRow DEF Core
<1>3. /\ r \in ExpenseRows /\ r.order = expense[e].order /\ r.home = expense[e].home
      /\ r.paid = expense[e].paid /\ r.status = expense[e].status /\ r.group = expense[e].group
  BY <1>2 DEF ExpenseRows
<1> HIDE DEF r
<1>4. /\ Grows /\ Born' = Born /\ SettledIsPaid'
      /\ expense' \in [Expenses -> ExpenseRows \cup {NoExpense}]
      /\ \A d \in Born' : (expense'[d]).paid \subseteq Participants(d)'
  BY <1>1, <1>3, DateRow
<1>5. Held'
  BY <1>1, <1>4, HoldsStable DEF Core, Held
<1> QED
  BY <1>1, <1>4, <1>5 DEF Core, TypeOK, history

LEMMA SweepCore ==
  ASSUME Core, StartSweep
  PROVE  Core' /\ Grows
<1> DEFINE t == Clean(Expired)
<1>1. work' = [work EXCEPT ![Cron] = t] /\ UNCHANGED <<rows, history>> /\ Cron \in Workers
  BY DEF StartSweep, Workers
<1>2. Grows /\ Born' = Born
  BY <1>1, SameRows DEF rows
<1>3. Expired \subseteq Born /\ Expired \in SUBSET Expenses
  BY DEF Expired, Born
<1>4. t \in Tasks
  BY <1>3, IdleType DEF Tasks, Clean
<1>5. /\ t.pc = "unlink" /\ t.todo = Expired /\ t.seen = Idle.seen /\ work'[Cron] = t
  BY <1>1 DEF Clean, Idle, Core, TypeOK
<1> HIDE DEF t
<1>6. Holds(Cron)'
  BY <1>2, <1>3, <1>5 DEF Holds, At, Settling, Idle
<1>7. Held' /\ work' \in [Workers -> Tasks]
  BY <1>1, <1>2, <1>4, <1>6, Moves DEF rows
<1>8. SettledIsPaid'
  BY <1>1, <1>2, PaidStable DEF rows
<1> QED
  BY <1>1, <1>2, <1>7, <1>8, UnpaidStable DEF Core, TypeOK, rows, history

LEMMA UnlinkCore ==
  ASSUME Core, NEW w \in Workers, NEW e \in Expenses, UnlinkGroup(w, e)
  PROVE  Core' /\ Grows
<1> DEFINE r == [expense[e] EXCEPT !.group = 0]
           t == [work[w] EXCEPT !.pc = "delete", !.todo = @ \ {e}, !.group = expense[e].group]
<1>1. /\ At(w, "unlink") /\ e \in work[w].todo /\ expense' = [expense EXCEPT ![e] = r]
      /\ work' = [work EXCEPT ![w] = t] /\ UNCHANGED <<groups, opened, settlements, history>>
  BY DEF UnlinkGroup
<1>2. e \in Born /\ Holds(w) /\ work[w] \in Tasks
  <2>1. Holds(w) /\ work[w] \in Tasks
    BY DEF Core, Held, TypeOK
  <2> QED
    BY <1>1, <2>1 DEF Holds, At
<1>3. expense[e] \in ExpenseRows
  BY <1>2, BornRow DEF Core
<1>0. 0 \in 0..MaxExpenses
  BY ExpenseAssumption
<1>4. /\ r \in ExpenseRows /\ r.order = expense[e].order /\ r.home = expense[e].home
      /\ r.paid = expense[e].paid /\ r.status = expense[e].status /\ r.group = 0
  BY <1>3, <1>0 DEF ExpenseRows
<1>5. t \in Tasks /\ work'[w] = t
  BY <1>1, <1>2, <1>3 DEF Tasks, ExpenseRows, Core, TypeOK
<1>6. t.pc = "delete" /\ t.seen = work[w].seen /\ t.todo \subseteq work[w].todo
  BY <1>2 DEF Tasks
<1> HIDE DEF r, t
<1>7. /\ Grows /\ Born' = Born /\ SettledIsPaid'
      /\ expense' \in [Expenses -> ExpenseRows \cup {NoExpense}]
      /\ \A d \in Born' : (expense'[d]).paid \subseteq Participants(d)'
  BY <1>1, <1>2, <1>4, DateRow
<1>8. Holds(w)'
  <2>1. work[w].todo \subseteq Born
    BY <1>1, <1>2 DEF Holds, At
  <2> QED
    BY <1>2, <1>5, <1>6, <1>7, <2>1 DEF Holds, At, Settling, Grows
<1>9. Held' /\ work' \in [Workers -> Tasks]
  BY <1>1, <1>5, <1>7, <1>8, Moves
<1> QED
  BY <1>1, <1>7, <1>9 DEF Core, TypeOK, history

LEMMA DeleteCore ==
  ASSUME Core, NEW w \in Workers, DeleteGroup(w)
  PROVE  Core' /\ Grows
<1> DEFINE t == [work[w] EXCEPT !.pc = "unlink", !.group = 0]
<1>1. /\ At(w, "delete") /\ groups' = groups \ {work[w].group}
      /\ work' = [work EXCEPT ![w] = t]
      /\ UNCHANGED <<expense, opened, settlements, history>>
  BY DEF DeleteGroup
<1>2. Grows /\ Born' = Born
  BY <1>1, SameRows
<1>3. work[w] \in Tasks /\ Holds(w)
  BY DEF Core, TypeOK, Held
<1>0. 0 \in 0..MaxExpenses
  BY ExpenseAssumption
<1>4. t \in Tasks /\ work'[w] = t
  BY <1>1, <1>3, <1>0 DEF Tasks, Core, TypeOK
<1>5. t.pc = "unlink" /\ t.seen = work[w].seen /\ t.todo = work[w].todo
  BY <1>3 DEF Tasks
<1> HIDE DEF t
<1>6. Holds(w)'
  BY <1>1, <1>2, <1>3, <1>4, <1>5 DEF Holds, At, Settling
<1>7. Held' /\ work' \in [Workers -> Tasks]
  BY <1>1, <1>2, <1>4, <1>6, Moves
<1>8. SettledIsPaid'
  BY <1>1, <1>2, PaidStable
<1> QED
  BY <1>1, <1>2, <1>7, <1>8, UnpaidStable DEF Core, TypeOK, history

LEMMA CrashCore ==
  ASSUME Core, Crash
  PROVE  Core' /\ Grows
<1>1. work' = [w \in Workers |-> Idle] /\ UNCHANGED rows
  BY DEF Crash
<1>2. Grows /\ Born' = Born
  BY <1>1, SameRows DEF rows
<1>3. work' \in [Workers -> Tasks] /\ \A w \in Workers : Holds(w)'
  BY <1>1, IdleType, IdleHolds
<1>4. SettledIsPaid'
  BY <1>1, <1>2, PaidStable DEF rows
<1>5. disturbed' \subseteq Expenses /\ orphans' \subseteq 0..MaxExpenses /\ crashes' \in Nat
  <2>2. \A w \in Workers : work[w].group \in 0..MaxExpenses
    BY DEF Core, TypeOK, Tasks
  <2>1. \A w \in Workers : At(w, "close") => work[w].e \in Expenses
    BY DEF Core, Held, Holds, Knows, At, Born
  <2>3. disturbed' \subseteq Expenses
    BY <2>1 DEF Crash, Core, TypeOK
  <2>4. orphans' \subseteq 0..MaxExpenses
    BY <2>2 DEF Crash, Core, TypeOK
  <2>5. crashes' \in Nat
    BY DEF Crash, Core, TypeOK
  <2> QED
    BY <2>3, <2>4, <2>5
<1> QED
  BY <1>1, <1>2, <1>3, <1>4, <1>5, UnpaidStable DEF Core, TypeOK, rows, Held

LEMMA CoreStep ==
  ASSUME Core, [Next]_vars
  PROVE  Core' /\ Grows
<1>1. CASE UNCHANGED vars
  <2>1. Grows /\ Born' = Born
    BY <1>1, SameRows DEF vars, rows
  <2>2. \A w \in Workers : Holds(w)'
    BY <1>1, <2>1, HoldsStable DEF Core, Held, vars, rows
  <2>3. SettledIsPaid'
    BY <1>1, <2>1, PaidStable DEF vars, rows
  <2>4. TypeOK'
    BY <1>1, <2>1, UnpaidStable DEF Core, TypeOK, vars, rows, history
  <2> QED
    BY <2>1, <2>2, <2>3, <2>4 DEF Core, Held
<1>2. CASE Next
  <2>1. ASSUME NEW w \in Requests, NEW o \in Orders, StartCreate(w, o) PROVE Core' /\ Grows
    BY <2>1, CreateCore
  <2>2. ASSUME NEW w \in Requests, NEW e \in Expenses, NEW u \in Users, NEW v \in Users,
               StartPay(w, v, e, u)
        PROVE  Core' /\ Grows
    BY <2>2, PayCore
  <2>3. ASSUME NEW w \in Requests, NEW u \in Users, NEW v \in Users, NEW a \in Amounts,
               StartSettle(w, u, v, a)
        PROVE  Core' /\ Grows
    BY <2>3, SettleCore
  <2>4. ASSUME NEW w \in Workers, Step(w) PROVE Core' /\ Grows
    BY <2>4, MarkPaidCore, CloseCore, ReadCore, EndCore, InsertCore, ClearCore, SkipCore,
       UnlinkCore, DeleteCore DEF Step
  <2>5. ASSUME NEW e \in Expenses, GraceElapses(e) PROVE Core' /\ Grows
    BY <2>5, GraceCore
  <2>6. CASE StartSweep \/ Crash
    BY <2>6, SweepCore, CrashCore
  <2> QED
    BY <1>2, <2>1, <2>2, <2>3, <2>4, <2>5, <2>6 DEF Next
<1> QED
  BY <1>1, <1>2

LEMMA CoreInit == Init => Core
<1> SUFFICES ASSUME Init PROVE Core
  OBVIOUS
<1>1. Born = {}
  BY DEF Init, Born, NoExpense
<1>2. 0 \in 0..MaxExpenses
  BY ExpenseAssumption
<1>3. TypeOK
  BY <1>1, <1>2, IdleType DEF Init, TypeOK
<1>4. Held
  BY IdleHolds DEF Held, Init
<1> QED
  BY <1>1, <1>3, <1>4 DEF Core, SettledIsPaid

LEMMA CoreInvariant == Spec => []Core
<1>1. Core /\ [Next]_vars => Core'
  BY CoreStep
<1> QED
  BY <1>1, CoreInit, PTL DEF Spec

\* The rows of every table and the local variables of every request stay well formed.
THEOREM TypeCorrect == Spec => []TypeOK
<1>1. Core => TypeOK
  BY DEF Core
<1> QED
  BY <1>1, CoreInvariant, PTL

\* A split becomes settled only when everyone has paid, however many payments and settlements of it
\* run at the same time and wherever the server stops.
THEOREM SettledOnlyWhenPaid == Spec => []SettledIsPaid
<1>1. Core => SettledIsPaid
  BY DEF Core
<1> QED
  BY <1>1, CoreInvariant, PTL

-----------------------------------------------------------------------------
(* The money of a settlement.                                              *)

\* A settlement that goes on, or ends, without clearing anything.
LEMMA MoneyKept ==
  ASSUME Money, settlements' = settlements,
         \A w \in Workers : Settling(w)' => /\ Settling(w)
                                            /\ (work'[w]).row = work[w].row
                                            /\ (work'[w]).left = work[w].left
  PROVE  Money'
<1>1. ClearedWithinAmount'
  BY DEF Money, ClearedWithinAmount
<1>2. \A w \in Workers : Settling(w)' =>
        (work'[w]).left = settlements'[(work'[w]).row].amount - settlements'[(work'[w]).row].cleared
  BY DEF Money
<1>3. \A w, x \in Workers : Settling(w)' /\ Settling(x)' /\ w # x => (work'[w]).row # (work'[x]).row
  BY DEF Money
<1> QED
  BY <1>1, <1>2, <1>3 DEF Money

\* Only one worker moves.
Alone(w) == \A x \in Workers \ {w} : work'[x] = work[x]

LEMMA OneMoves ==
  ASSUME Money, NEW w \in Workers, settlements' = settlements, Alone(w),
         Settling(w)' => /\ Settling(w)
                         /\ (work'[w]).row = work[w].row
                         /\ (work'[w]).left = work[w].left
  PROVE  Money'
<1>1. \A x \in Workers \ {w} : Settling(x)' => Settling(x)
  BY DEF Settling, Alone
<1> QED
  BY <1>1, MoneyKept DEF Alone

LEMMA RestMoney ==
  ASSUME TypeOK, Money, NEW w \in Workers, Done(w), settlements' = settlements
  PROVE  Money'
<1>1. work'[w] = Idle /\ Alone(w)
  BY DEF Done, TypeOK, Alone
<1> QED
  BY <1>1, OneMoves, IdleHolds

LEMMA SettleMoney ==
  ASSUME Core, Money, NEW w \in Requests, NEW u \in Users, NEW v \in Users, NEW a \in Amounts,
         StartSettle(w, u, v, a)
  PROVE  Money'
<1> DEFINE s == [from |-> u, to |-> v, amount |-> a, cleared |-> 0]
           t == [Idle EXCEPT !.op = "settle", !.pc = "debts", !.who = u,
                             !.row = Len(settlements) + 1, !.left = a]
<1>1. settlements' = Append(settlements, s) /\ work' = [work EXCEPT ![w] = t] /\ w \in Workers
  BY DEF StartSettle, Begin, Workers
<1>2. a \in Nat /\ settlements \in Seq(SettlementRows)
  BY ExpenseAssumption DEF Core, TypeOK
<1>3. s.amount = a /\ s.cleared = 0 /\ t.left = a /\ t.row = Len(settlements) + 1
  BY DEF Idle
<1>4. s \in SettlementRows
  BY <1>2 DEF SettlementRows
<1> HIDE DEF s, t
<1>5. /\ DOMAIN settlements' = DOMAIN settlements \cup {Len(settlements) + 1}
      /\ settlements'[Len(settlements) + 1] = s
      /\ \A i \in DOMAIN settlements : settlements'[i] = settlements[i] /\ i # Len(settlements) + 1
  BY <1>1, <1>2, <1>4
<1>6. ClearedWithinAmount'
  BY <1>2, <1>3, <1>5 DEF Money, ClearedWithinAmount
<1>7. work'[w] = t /\ \A x \in Workers \ {w} : work'[x] = work[x]
  BY <1>1 DEF Core, TypeOK
<1>8. \A x \in Workers \ {w} : /\ Settling(x)' <=> Settling(x)
                               /\ Settling(x) => work[x].row \in DOMAIN settlements
  BY <1>7 DEF Settling, Core, Held, Holds
<1>9. \A x \in Workers : Settling(x)' =>
        (work'[x]).left = settlements'[(work'[x]).row].amount - settlements'[(work'[x]).row].cleared
  <2> TAKE x \in Workers
  <2>1. CASE x = w
    BY <2>1, <1>2, <1>3, <1>5, <1>7
  <2>2. CASE x # w
    BY <2>2, <1>5, <1>7, <1>8 DEF Money
  <2> QED
    BY <2>1, <2>2
<1>10. \A x, y \in Workers : Settling(x)' /\ Settling(y)' /\ x # y => (work'[x]).row # (work'[y]).row
  BY <1>3, <1>5, <1>7, <1>8 DEF Money
<1> QED
  BY <1>6, <1>9, <1>10 DEF Money

\* What is left is compared with the share before the share is cleared.
LEMMA ClearMoney ==
  ASSUME Core, Money, NEW w \in Workers, NEW e \in Expenses, ClearDebt(w, e)
  PROVE  Money'
<1>1. PICK i : i = work[w].row
  OBVIOUS
<1>2. PICK n : n = Owed(e, work[w].who)
  OBVIOUS
<1>3. /\ i \in DOMAIN settlements /\ settlements[i] \in SettlementRows /\ n \in Nat
      /\ Settling(w) /\ work[w] \in Tasks
  BY <1>1, <1>2, Clearing DEF ClearDebt, Settling, At
<1>4. work[w].left = settlements[i].amount - settlements[i].cleared /\ work[w].left >= n - 5
  BY <1>1, <1>2, <1>3 DEF Money, ClearDebt, Enough
<1>5. settlements[i].amount \in Nat /\ settlements[i].cleared \in Nat /\ work[w].left \in Int
  BY <1>3 DEF SettlementRows, Tasks
<1>6. /\ settlements' = [settlements EXCEPT ![i].cleared = @ + n]
      /\ work' = [work EXCEPT ![w].e = e, ![w].todo = @ \ {e}, ![w].left = @ - n,
                              ![w].pc = IF OthersUnpaid(w, e) = {} THEN "close" ELSE "clear"]
  BY <1>1, <1>2 DEF ClearDebt
<1>7. /\ DOMAIN settlements' = DOMAIN settlements
      /\ settlements'[i].amount = settlements[i].amount
      /\ settlements'[i].cleared = settlements[i].cleared + n
      /\ \A j \in DOMAIN settlements \ {i} : settlements'[j] = settlements[j]
  BY <1>3, <1>6 DEF Core, TypeOK, SettlementRows
<1>8. /\ (work'[w]).left = work[w].left - n /\ (work'[w]).row = i
      /\ \A x \in Workers \ {w} : work'[x] = work[x]
  BY <1>1, <1>3, <1>6 DEF Core, TypeOK, Tasks
<1>9. ClearedWithinAmount'
  BY <1>3, <1>4, <1>5, <1>7 DEF Money, ClearedWithinAmount
<1>10. \A x \in Workers \ {w} : /\ Settling(x)' <=> Settling(x)
                                /\ Settling(x) => /\ work[x].row \in DOMAIN settlements
                                                  /\ work[x].row # i
  BY <1>1, <1>3, <1>8 DEF Settling, Core, Held, Holds, Money
<1>11. \A x \in Workers : Settling(x)' =>
         (work'[x]).left = settlements'[(work'[x]).row].amount - settlements'[(work'[x]).row].cleared
  <2> TAKE x \in Workers
  <2>1. CASE x = w
    BY <2>1, <1>4, <1>5, <1>7, <1>8, <1>3
  <2>2. CASE x # w
    BY <2>2, <1>7, <1>8, <1>10 DEF Money
  <2> QED
    BY <2>1, <2>2
<1>12. \A x, y \in Workers : Settling(x)' /\ Settling(y)' /\ x # y => (work'[x]).row # (work'[y]).row
  BY <1>8, <1>10 DEF Money
<1> QED
  BY <1>9, <1>11, <1>12 DEF Money

LEMMA MoneyStep ==
  ASSUME Core, Money, [Next]_vars
  PROVE  Money'
<1> USE DEF Core
<1>1. CASE UNCHANGED vars
  BY <1>1, MoneyKept DEF vars, rows, Settling
<1>2. ASSUME NEW w \in Requests, NEW o \in Orders, StartCreate(w, o) PROVE Money'
  <2>1. w \in Workers /\ (work'[w]).pc = "insert" /\ Alone(w)
    BY <1>2 DEF StartCreate, Begin, Idle, Workers, TypeOK, Alone
  <2> QED
    BY <1>2, <2>1, OneMoves DEF StartCreate, Settling
<1>3. ASSUME NEW w \in Requests, NEW e \in Expenses, NEW u \in Users, NEW v \in Users,
             StartPay(w, v, e, u)
      PROVE  Money'
  <2>1. w \in Workers /\ (work'[w]).pc = "pay" /\ Alone(w)
    BY <1>3 DEF StartPay, Begin, Idle, Workers, TypeOK, Alone
  <2> QED
    BY <1>3, <2>1, OneMoves DEF StartPay, rows, Settling
<1>4. ASSUME NEW w \in Requests, NEW u \in Users, NEW v \in Users, NEW a \in Amounts,
             StartSettle(w, u, v, a)
      PROVE  Money'
  BY <1>4, SettleMoney
<1>5. ASSUME NEW w \in Workers, MarkPaid(w) PROVE Money'
  <2>1. CASE Done(w)
    BY <1>5, <2>1, RestMoney DEF MarkPaid
  <2>2. CASE Goto(w, "close")
    <3>1. work[w].op = "pay" /\ work[w] \in Tasks
      BY <1>5 DEF MarkPaid, Held, Holds, TypeOK
    <3>2. (work'[w]).pc = "close" /\ (work'[w]).op = "pay" /\ Alone(w)
      BY <2>2, <3>1 DEF Goto, Tasks, TypeOK, Alone
    <3> QED
      BY <1>5, <3>2, OneMoves DEF MarkPaid, Settling
  <2> QED
    BY <1>5, <2>1, <2>2 DEF MarkPaid
<1>6. ASSUME NEW w \in Workers, CloseSplit(w) PROVE Money'
  <2>1. settlements' = settlements
    BY <1>6 DEF CloseSplit
  <2>2. CASE Done(w)
    BY <2>1, <2>2, RestMoney
  <2>3. CASE work[w].op # "pay" /\ Goto(w, "clear")
    <3>1. At(w, "close") /\ work[w].op = "settle" /\ work[w] \in Tasks
      BY <1>6, <2>3 DEF CloseSplit, Held, Holds, TypeOK
    <3>2. (work'[w]).row = work[w].row /\ (work'[w]).left = work[w].left /\ Alone(w)
      BY <2>3, <3>1 DEF Goto, Tasks, TypeOK, Alone
    <3> QED
      BY <2>1, <3>1, <3>2, OneMoves DEF Settling, At
  <2> QED
    BY <1>6, <2>2, <2>3 DEF CloseSplit
<1>7. ASSUME NEW w \in Workers, ReadDebts(w) PROVE Money'
  <2>1. At(w, "debts") /\ work[w] \in Tasks
    BY <1>7 DEF ReadDebts, TypeOK
  <2>2. (work'[w]).row = work[w].row /\ (work'[w]).left = work[w].left /\ Alone(w)
    BY <1>7, <2>1 DEF ReadDebts, Tasks, TypeOK, Alone
  <2> QED
    BY <1>7, <2>1, <2>2, OneMoves DEF ReadDebts, Settling, At, rows
<1>8. ASSUME NEW w \in Workers, EndSettle(w) \/ EndClean(w) PROVE Money'
  BY <1>8, RestMoney DEF EndSettle, EndClean, rows
<1>9. ASSUME NEW w \in Workers, NEW e \in Expenses, InsertExpense(w, e) PROVE Money'
  BY <1>9, RestMoney DEF InsertExpense
<1>10. ASSUME NEW w \in Workers, NEW e \in Expenses, ClearDebt(w, e) PROVE Money'
  BY <1>10, ClearMoney
<1>11. ASSUME NEW w \in Workers, NEW e \in Expenses, SkipDebt(w, e) PROVE Money'
  <2>1. At(w, "clear") /\ work[w] \in Tasks
    BY <1>11 DEF SkipDebt, TypeOK
  <2>2. (work'[w]).row = work[w].row /\ (work'[w]).left = work[w].left /\ Alone(w)
    BY <1>11, <2>1 DEF SkipDebt, Tasks, TypeOK, Alone
  <2> QED
    BY <1>11, <2>1, <2>2, OneMoves DEF SkipDebt, Settling, At, rows
<1>12. ASSUME NEW w \in Workers, NEW e \in Expenses, UnlinkGroup(w, e) PROVE Money'
  <2>1. work[w] \in Tasks
    BY DEF TypeOK
  <2>2. (work'[w]).pc = "delete" /\ Alone(w)
    BY <1>12, <2>1 DEF UnlinkGroup, Tasks, TypeOK, Alone
  <2> QED
    BY <1>12, <2>2, OneMoves DEF UnlinkGroup, Settling
<1>13. ASSUME NEW w \in Workers, DeleteGroup(w) PROVE Money'
  <2>1. work[w] \in Tasks
    BY DEF TypeOK
  <2>2. (work'[w]).pc = "unlink" /\ Alone(w)
    BY <1>13, <2>1 DEF DeleteGroup, Tasks, TypeOK, Alone
  <2> QED
    BY <1>13, <2>2, OneMoves DEF DeleteGroup, Settling
<1>14. ASSUME NEW e \in Expenses, GraceElapses(e) PROVE Money'
  BY <1>14, MoneyKept DEF GraceElapses, Settling
<1>15. CASE StartSweep
  <2>1. Cron \in Workers /\ (work'[Cron]).pc = "unlink" /\ Alone(Cron)
    BY <1>15 DEF StartSweep, Clean, Idle, Workers, TypeOK, Alone
  <2> QED
    BY <1>15, <2>1, OneMoves DEF StartSweep, rows, Settling
<1>16. CASE Crash
  BY <1>16, MoneyKept, IdleHolds DEF Crash, rows
<1>17. ASSUME NEW w \in Workers, Step(w) PROVE Money'
  BY <1>17, <1>5, <1>6, <1>7, <1>8, <1>9, <1>10, <1>11, <1>12, <1>13 DEF Step
<1> QED
  BY <1>1, <1>2, <1>3, <1>4, <1>14, <1>15, <1>16, <1>17 DEF Next

\* However many debts a settlement clears, one after the other, its tolerance is granted once.
THEOREM ToleranceIsGrantedOnce == Spec => []ClearedWithinAmount
<1>1. Init => Money
  BY IdleHolds DEF Init, Money, ClearedWithinAmount
<1>2. Core /\ Money /\ [Next]_vars => Money'
  BY MoneyStep
<1>3. Money => ClearedWithinAmount
  BY DEF Money
<1> QED
  BY <1>1, <1>2, <1>3, CoreInvariant, PTL DEF Spec

-----------------------------------------------------------------------------
(* Who notices that everyone has paid.                                     *)

Closes(w, e) == At(w, "close") /\ work[w].e = e

\* A step after which nobody owes a share less, and whose worker was not about to close a split.
LEMMA NoticedKept ==
  ASSUME Core, Noticed, Grows, Born' = Born, disturbed' = disturbed, NEW w \in Workers,
         ~At(w, "close"), Alone(w), \A e \in Born : (expense'[e]).paid = expense[e].paid
  PROVE  Noticed'
<1>1. \A e \in Born : Unpaid(e)' = Unpaid(e)
  BY DEF Grows, Unpaid, Participants
<1>2. \A e \in Born, x \in Workers : Closes(x, e) => Closes(x, e)'
  BY DEF Alone, Closes, At
<1>3. \A e \in Born \ disturbed :
        Unpaid(e) = {} => expense[e].status = "SETTLED" \/ \E x \in Workers : Closes(x, e)
  BY DEF Noticed, Closes
<1>4. \A e \in Born : expense[e].status = "SETTLED" => (expense'[e]).status = "SETTLED"
  BY DEF Grows
<1>5. \A e \in (Born \ disturbed)' : Unpaid(e)' = {} =>
        (expense'[e]).status = "SETTLED" \/ \E x \in Workers : Closes(x, e)'
  BY <1>1, <1>2, <1>3, <1>4
<1> QED
  BY <1>5 DEF Noticed, Closes

\* A share is marked; who has seen all the other payments knows whether it was the last.
LEMMA MarkNoticed ==
  ASSUME Core, Noticed, NEW w \in Workers, NEW e \in Born, MarkShare(w, e),
         work[w].who \in Participants(e), ~At(w, "close"), Alone(w),
         OthersUnpaid(w, e) = {} => Closes(w, e)'
  PROVE  Noticed'
<1>1. /\ Grows /\ Born' = Born /\ Unpaid(e)' = Unpaid(e) \ {work[w].who}
      /\ \A d \in Expenses \ {e} : expense'[d] = expense[d]
  BY MarkRow
<1>2. disturbed' = IF work[w].seen[e] = expense[e].paid THEN disturbed ELSE disturbed \cup {e}
  BY DEF MarkShare
<1>3. \A d \in Born, x \in Workers : Closes(x, d) => Closes(x, d)'
  BY DEF Alone, Closes, At
<1>4. \A d \in Born \ disturbed :
        Unpaid(d) = {} => expense[d].status = "SETTLED" \/ \E x \in Workers : Closes(x, d)
  BY DEF Noticed, Closes
<1>5. \A d \in Born : expense[d].status = "SETTLED" => (expense'[d]).status = "SETTLED"
  BY <1>1 DEF Grows
<1>6. ASSUME NEW d \in (Born \ disturbed)', Unpaid(d)' = {}
      PROVE  (expense'[d]).status = "SETTLED" \/ \E x \in Workers : Closes(x, d)'
  <2>1. d \in Born /\ d \notin disturbed
    BY <1>1, <1>2, <1>6
  <2>2. CASE d = e
    <3>1. work[w].seen[e] = expense[e].paid
      BY <1>2, <1>6, <2>2
    <3>2. OthersUnpaid(w, e) = Unpaid(e) \ {work[w].who}
      BY <3>1 DEF OthersUnpaid, Unpaid
    <3> QED
      BY <1>1, <1>6, <2>2, <3>2
  <2>3. CASE d # e
    <3>1. d \in Expenses
      BY <2>1 DEF Born
    <3>2. Unpaid(d)' = Unpaid(d)
      BY <1>1, <2>3, <3>1 DEF Unpaid, Participants
    <3> QED
      BY <1>3, <1>4, <1>5, <1>6, <2>1, <3>2
  <2> QED
    BY <2>2, <2>3
<1>7. \A d \in (Born \ disturbed)' : Unpaid(d)' = {} =>
        (expense'[d]).status = "SETTLED" \/ \E x \in Workers : Closes(x, d)'
  BY <1>6
<1> QED
  BY <1>7 DEF Noticed, Closes

\* A split that has just been created is not paid: someone besides the payer has a share.
LEMMA InsertNoticed ==
  ASSUME Core, Noticed, NEW w \in Workers, NEW e \in Expenses, InsertExpense(w, e)
  PROVE  Noticed'
<1>1. /\ At(w, "insert") /\ e \notin Born /\ work[w].order \in Orders
      /\ work' = [work EXCEPT ![w] = Idle] /\ disturbed' = disturbed
  BY DEF InsertExpense, Done, history, Core, Held, Holds
<1>2. PICK o : o = work[w].order
  OBVIOUS
<1>3. /\ (expense'[e]).born /\ (expense'[e]).order = o /\ (expense'[e]).paid = {o.payer}
      /\ \A d \in Expenses \ {e} : expense'[d] = expense[d]
  BY <1>2 DEF InsertExpense, Core, TypeOK
<1>4. Born' = Born \cup {e}
  BY <1>1, <1>3 DEF Born
<1>5. Unpaid(e)' # {}
  <2>1. Members(o) # {o.payer} /\ o.payer \in Members(o)
    BY <1>1, <1>2, OrderType
  <2> QED
    BY <1>3, <2>1 DEF Unpaid, Participants
<1>6. \A d \in Born : d # e /\ Unpaid(d)' = Unpaid(d) /\ expense'[d] = expense[d]
  BY <1>1, <1>3 DEF Born, Unpaid, Participants
<1>7. \A d \in Born, x \in Workers : Closes(x, d) => Closes(x, d)'
  BY <1>1 DEF Closes, At, Core, TypeOK
<1>8. \A d \in Born \ disturbed :
        Unpaid(d) = {} => expense[d].status = "SETTLED" \/ \E x \in Workers : Closes(x, d)
  BY DEF Noticed, Closes
<1>9. \A d \in (Born \ disturbed)' : Unpaid(d)' = {} =>
        (expense'[d]).status = "SETTLED" \/ \E x \in Workers : Closes(x, d)'
  BY <1>1, <1>4, <1>5, <1>6, <1>7, <1>8
<1> QED
  BY <1>9 DEF Noticed, Closes

LEMMA CloseNoticed ==
  ASSUME Core, Noticed, NEW w \in Workers, CloseSplit(w)
  PROVE  Noticed'
<1>1. PICK e \in Born :
        /\ e = work[w].e /\ At(w, "close") /\ Grows /\ Born' = Born
        /\ expense'[e] = [expense[e] EXCEPT
             !.status = "SETTLED",
             !.deleteAt = IF e \in work[w].linked /\ ~expense[e].order.ongoing
                            THEN "grace" ELSE "none"]
        /\ \A d \in Expenses \ {e} : expense'[d] = expense[d]
  BY CloseRow
<1>2. (expense'[e]).status = "SETTLED"
  BY <1>1, BornRow DEF Core, ExpenseRows
<1>3. Alone(w) /\ disturbed' = disturbed
  BY DEF CloseSplit, Done, Goto, Alone, history, Core, TypeOK
<1>4. \A d \in Born \ {e}, x \in Workers : Closes(x, d) => Closes(x, d)'
  BY <1>1, <1>3 DEF Alone, Closes, At
<1>5. \A d \in Born \ {e} : Unpaid(d)' = Unpaid(d) /\ expense'[d] = expense[d]
  BY <1>1 DEF Born, Unpaid, Participants
<1>6. \A d \in Born \ disturbed :
        Unpaid(d) = {} => expense[d].status = "SETTLED" \/ \E x \in Workers : Closes(x, d)
  BY DEF Noticed, Closes
<1>7. \A d \in (Born \ disturbed)' : Unpaid(d)' = {} =>
        (expense'[d]).status = "SETTLED" \/ \E x \in Workers : Closes(x, d)'
  BY <1>1, <1>2, <1>3, <1>4, <1>5, <1>6
<1> QED
  BY <1>7 DEF Noticed, Closes

LEMMA CrashNoticed ==
  ASSUME Core, Noticed, Crash
  PROVE  Noticed'
<1>1. /\ expense' = expense /\ Born' = Born
      /\ disturbed' = disturbed \cup {work[w].e : w \in {x \in Workers : At(x, "close")}}
  BY DEF Crash, rows, Born
<1>2. \A e \in (Born \ disturbed)' :
        e \in Born \ disturbed /\ (\A w \in Workers : ~Closes(w, e)) /\ Unpaid(e)' = Unpaid(e)
  BY <1>1 DEF Closes, Unpaid, Participants
<1> QED
  BY <1>1, <1>2 DEF Noticed, Closes

LEMMA NoticedStep ==
  ASSUME Core, Noticed, [Next]_vars
  PROVE  Noticed'
<1>0. Grows /\ work \in [Workers -> Tasks]
  BY CoreStep DEF Core, TypeOK
<1>1. CASE UNCHANGED vars
  BY <1>1 DEF vars, rows, history, Noticed, Born, Unpaid, Participants, At
<1>2. ASSUME NEW w \in Requests, At(w, "idle"), Alone(w), expense' = expense, disturbed' = disturbed
      PROVE  Noticed'
  BY <1>0, <1>2, NoticedKept, SameRows DEF At, Workers
<1>3. ASSUME NEW w \in Requests, NEW o \in Orders, StartCreate(w, o) PROVE Noticed'
  BY <1>0, <1>2, <1>3 DEF StartCreate, Begin, Workers, Alone, history
<1>4. ASSUME NEW w \in Requests, NEW e \in Expenses, NEW u \in Users, NEW v \in Users,
             StartPay(w, v, e, u)
      PROVE  Noticed'
  BY <1>0, <1>2, <1>4 DEF StartPay, Begin, Workers, Alone, rows, history
<1>5. ASSUME NEW w \in Requests, NEW u \in Users, NEW v \in Users, NEW a \in Amounts,
             StartSettle(w, u, v, a)
      PROVE  Noticed'
  BY <1>0, <1>2, <1>5 DEF StartSettle, Begin, Workers, Alone, history
<1>6. ASSUME NEW w \in Workers, MarkPaid(w) PROVE Noticed'
  <2>1. PICK e : e = work[w].e
    OBVIOUS
  <2>2. e \in Born /\ work[w].who \in Participants(e) /\ At(w, "pay") /\ MarkShare(w, e)
    BY <1>6, <2>1 DEF MarkPaid, Core, Held, Holds, At, Knows
  <2>3. ~At(w, "close") /\ Alone(w)
    BY <1>0, <1>6 DEF MarkPaid, Done, Goto, At, Alone
  <2>4. OthersUnpaid(w, e) = {} => Closes(w, e)'
    BY <1>0, <1>6, <2>1 DEF MarkPaid, Goto, Closes, At, Tasks
  <2> QED
    BY <2>2, <2>3, <2>4, MarkNoticed
<1>7. ASSUME NEW w \in Workers, NEW e \in Expenses, ClearDebt(w, e) PROVE Noticed'
  <2>1. e \in Born /\ work[w].who \in Participants(e) /\ MarkShare(w, e)
    BY <1>7, Clearing DEF ClearDebt, Knows
  <2>2. ~At(w, "close") /\ Alone(w)
    BY <1>0, <1>7 DEF ClearDebt, At, Alone
  <2>3. OthersUnpaid(w, e) = {} => Closes(w, e)'
    BY <1>0, <1>7 DEF ClearDebt, Closes, At, Tasks
  <2> QED
    BY <2>1, <2>2, <2>3, MarkNoticed
<1>8. ASSUME NEW w \in Workers, ~At(w, "close"), Alone(w), expense' = expense, disturbed' = disturbed
      PROVE  Noticed'
  BY <1>0, <1>8, NoticedKept, SameRows
<1>9. ASSUME NEW w \in Workers, ReadDebts(w) \/ EndSettle(w) \/ EndClean(w) \/ DeleteGroup(w)
      PROVE  Noticed'
  <2>1. ~At(w, "close") /\ Alone(w)
    BY <1>0, <1>9 DEF ReadDebts, EndSettle, EndClean, DeleteGroup, Done, At, Alone
  <2> QED
    BY <1>8, <1>9, <2>1 DEF ReadDebts, EndSettle, EndClean, DeleteGroup, rows, history
<1>10. ASSUME NEW w \in Workers, NEW e \in Expenses, SkipDebt(w, e) PROVE Noticed'
  <2>1. ~At(w, "close") /\ Alone(w)
    BY <1>0, <1>10 DEF SkipDebt, At, Alone
  <2> QED
    BY <1>8, <1>10, <2>1 DEF SkipDebt, rows, history
<1>11. ASSUME NEW w \in Workers, NEW e \in Expenses, UnlinkGroup(w, e) PROVE Noticed'
  <2>1. ~At(w, "close") /\ Alone(w) /\ disturbed' = disturbed
    BY <1>0, <1>11 DEF UnlinkGroup, At, Alone, history
  <2>2. Born' = Born /\ \A d \in Born : (expense'[d]).paid = expense[d].paid
    BY <1>11, BornRow DEF UnlinkGroup, Core, TypeOK, Born, ExpenseRows
  <2> QED
    BY <1>0, <2>1, <2>2, NoticedKept
<1>12. ASSUME NEW e \in Expenses, GraceElapses(e) PROVE Noticed'
  <2>1. Cron \in Workers /\ disturbed' = disturbed /\ work' = work
    BY <1>12 DEF GraceElapses, Workers, history
  <2>2. Born' = Born /\ \A d \in Born : /\ (expense'[d]).paid = expense[d].paid
                                        /\ (expense'[d]).order = expense[d].order
                                        /\ (expense'[d]).status = expense[d].status
    BY <1>12, BornRow DEF GraceElapses, Core, TypeOK, Born, ExpenseRows
  <2>3. \A d \in Born : Unpaid(d)' = Unpaid(d)
    BY <2>2 DEF Unpaid, Participants
  <2> QED
    BY <2>1, <2>2, <2>3 DEF Noticed, At
<1>13. CASE StartSweep
  <2>1. Cron \in Workers /\ ~At(Cron, "close") /\ Alone(Cron)
    BY <1>0, <1>13 DEF StartSweep, Workers, At, Alone
  <2> QED
    BY <1>8, <1>13, <2>1 DEF StartSweep, rows, history
<1>14. ASSUME NEW w \in Workers, Step(w) PROVE Noticed'
  BY <1>6, <1>7, <1>9, <1>10, <1>11, <1>14, CloseNoticed, InsertNoticed DEF Step
<1> QED
  BY <1>1, <1>3, <1>4, <1>5, <1>12, <1>13, <1>14, CrashNoticed DEF Next

\* When the last share is paid some request closes the split, unless two payments overlapped or the
\* server stopped in between.
THEOREM LastPaymentIsNoticed == Spec => []SettlementIsNoticed
<1>1. Init => Noticed
  BY DEF Init, Noticed, Born, NoExpense
<1>2. Core /\ Noticed /\ [Next]_vars => Noticed'
  BY NoticedStep
<1>3. Noticed => SettlementIsNoticed
  BY DEF Noticed, SettlementIsNoticed, At
<1> QED
  BY <1>1, <1>2, <1>3, CoreInvariant, PTL DEF Spec

-----------------------------------------------------------------------------
(* The groups of splits.                                                   *)

\* The group of such a split may be deleted.
Over(e) == expense[e].status = "SETTLED" /\ ~expense[e].order.ongoing

\* The job will delete the group of the split, or is doing so.
Tracked(e) == \/ expense[e].group = expense[e].home /\ expense[e].deleteAt # "none"
              \/ At(Cron, "delete") /\ work[Cron].group = expense[e].home

Sound(e) ==
  /\ expense[e].home \in 0..opened /\ expense[e].group \in {0, expense[e].home}
  /\ expense[e].status = "ACTIVE" => expense[e].group = expense[e].home
  /\ expense[e].deleteAt # "none" => Over(e)
  /\ expense[e].home \notin groups => expense[e].home = 0 \/ Over(e)
  /\ Over(e) /\ expense[e].home \in groups \ orphans => Tracked(e)

\* Only the job sweeps, and only over groups that may be deleted.
Sweeps(w) ==
  /\ At(w, "insert") => work[w].group \in groups \cup {0}
  /\ work[w].pc \in {"unlink", "delete"} =>
       /\ w = Cron
       /\ \A e \in work[w].todo :
            Over(e) /\ expense[e].group = expense[e].home /\ expense[e].home # 0
  /\ At(w, "delete") =>
       \E e \in Born : /\ Over(e) /\ expense[e].group = 0
                       /\ expense[e].home = work[w].group /\ expense[e].home # 0

\* No group belongs to two splits.
Distinct ==
  /\ \A d, e \in Born : expense[d].home = expense[e].home => d = e \/ expense[e].home = 0
  /\ \A w \in Workers, e \in Born :
       At(w, "insert") /\ work[w].group = expense[e].home => expense[e].home = 0
  /\ \A w, x \in Workers :
       At(w, "insert") /\ At(x, "insert") /\ work[w].group = work[x].group
       => w = x \/ work[w].group = 0

Grouped == (\A e \in Born : Sound(e)) /\ (\A w \in Workers : Sweeps(w)) /\ Distinct

\* The columns of a row that tell of its group stay.
SameGroup(e) == /\ (expense'[e]).home = expense[e].home /\ (expense'[e]).group = expense[e].group
                /\ (expense'[e]).status = expense[e].status
                /\ (expense'[e]).order = expense[e].order
                /\ (expense'[e]).deleteAt = expense[e].deleteAt

\* A step that has nothing to do with groups.
LEMMA GroupedKept ==
  ASSUME Core, Grouped, Born' = Born, \A e \in Born : SameGroup(e),
         groups' = groups, opened' = opened, orphans' = orphans,
         NEW w \in Workers, Alone(w), ~At(w, "delete"),
         (work'[w]).pc \notin {"insert", "unlink", "delete"}
  PROVE  Grouped'
<1>1. \A e \in Born : Over(e)' <=> Over(e)
  BY DEF Over, SameGroup
<1>2. ASSUME At(Cron, "delete") PROVE At(Cron, "delete")' /\ (work'[Cron]).group = work[Cron].group
  BY <1>2 DEF At, Alone, Workers
<1>3. \A e \in Born : Tracked(e) => Tracked(e)'
  BY <1>2 DEF Tracked, SameGroup
<1>4. \A e \in Born' : Sound(e)'
  <2> SUFFICES ASSUME NEW e \in Born PROVE Sound(e)'
    OBVIOUS
  <2>1. Sound(e) /\ SameGroup(e) /\ (Over(e)' <=> Over(e)) /\ (Tracked(e) => Tracked(e)')
    BY <1>1, <1>3 DEF Grouped
  <2> QED
    BY <2>1 DEF Sound, SameGroup
<1>5. \A x \in Workers : Sweeps(x)'
  <2> SUFFICES ASSUME NEW x \in Workers PROVE Sweeps(x)'
    OBVIOUS
  <2>1. CASE x = w
    BY <2>1 DEF Sweeps, At
  <2>2. CASE x # w
    <3>1. work'[x] = work[x] /\ Sweeps(x)
      BY <2>2 DEF Alone, Grouped
    <3>2. work[x].pc \in {"unlink", "delete"} => work[x].todo \subseteq Born
      BY DEF Core, Held, Holds
    <3>3. At(x, "insert")' => (work'[x]).group \in groups' \cup {0}
      BY <3>1 DEF Sweeps, At
    <3>4. (work'[x]).pc \in {"unlink", "delete"} =>
            /\ x = Cron
            /\ \A e \in (work'[x]).todo : /\ Over(e)' /\ (expense'[e]).group = (expense'[e]).home
                                          /\ (expense'[e]).home # 0
      BY <1>1, <3>1, <3>2 DEF Sweeps, SameGroup
    <3>5. At(x, "delete")' =>
            \E e \in Born' : /\ Over(e)' /\ (expense'[e]).group = 0
                             /\ (expense'[e]).home = (work'[x]).group /\ (expense'[e]).home # 0
      BY <1>1, <3>1 DEF Sweeps, SameGroup, At
    <3> QED
      BY <3>3, <3>4, <3>5 DEF Sweeps
  <2> QED
    BY <2>1, <2>2
<1>6. \A x \in Workers : At(x, "insert")' => x # w /\ At(x, "insert") /\ work'[x] = work[x]
  BY DEF At, Alone
<1>7. Distinct'
  BY <1>6 DEF Distinct, Grouped, SameGroup
<1> QED
  BY <1>4, <1>5, <1>7 DEF Grouped

LEMMA SameRowsGroup ==
  ASSUME expense' = expense PROVE Born' = Born /\ \A e \in Born : SameGroup(e)
  BY DEF Born, SameGroup

\* A split of three or more gets a group with a new number.
LEMMA CreateGrouped ==
  ASSUME Core, Grouped, NEW w \in Requests, NEW o \in Orders, StartCreate(w, o)
  PROVE  Grouped'
<1>1. PICK g : g = IF Cardinality(o.others) > 1 THEN opened + 1 ELSE 0
  OBVIOUS
<1>2. /\ At(w, "idle") /\ w \in Workers /\ Alone(w)
      /\ (work'[w]).pc = "insert" /\ (work'[w]).group = g
      /\ expense' = expense /\ orphans' = orphans
      /\ opened' = IF g = 0 THEN opened ELSE opened + 1
      /\ groups' = IF g = 0 THEN groups ELSE groups \cup {g}
  <2>1. opened \in Nat
    BY ExpenseAssumption DEF Core, TypeOK
  <2>2. /\ At(w, "idle") /\ w \in Workers
        /\ work' = [work EXCEPT ![w] =
             [Idle EXCEPT !.op = "create", !.pc = "insert", !.order = o, !.group = g]]
    BY <1>1 DEF StartCreate, Begin, Workers
  <2>3. (work'[w]).pc = "insert" /\ (work'[w]).group = g /\ Alone(w)
    BY <2>2 DEF Idle, Alone, Core, TypeOK
  <2>4. /\ opened' = IF g = 0 THEN opened ELSE opened + 1
        /\ groups' = IF g = 0 THEN groups ELSE groups \cup {g}
    <3>1. CASE Cardinality(o.others) > 1
      <4>1. g = opened + 1 /\ g # 0
        BY <1>1, <2>1, <3>1
      <4>2. opened' = g /\ groups' = groups \cup {g}
        BY <3>1, <4>1 DEF StartCreate
      <4> QED
        BY <4>1, <4>2
    <3>2. CASE ~(Cardinality(o.others) > 1)
      <4>1. opened' = opened /\ groups' = groups
        BY <3>2 DEF StartCreate
      <4> QED
        BY <1>1, <3>2, <4>1
    <3> QED
      BY <3>1, <3>2
  <2>5. expense' = expense /\ orphans' = orphans
    BY DEF StartCreate, history
  <2> QED
    BY <2>2, <2>3, <2>4, <2>5
<1>3. opened \in Nat /\ groups \subseteq 1..opened /\ (g = 0 \/ g = opened + 1)
  BY <1>1, ExpenseAssumption DEF Core, TypeOK
<1>4. Born' = Born /\ \A e \in Born : SameGroup(e)
  BY <1>2, SameRowsGroup
<1>5. \A e \in Born : (Over(e)' <=> Over(e)) /\ expense[e].home \in 0..opened
  BY <1>2 DEF Over, Grouped, Sound
<1>6. \A x \in Workers : At(x, "insert") => work[x].group \in 0..opened
  <2>1. 0 \in 0..opened /\ 1..opened \subseteq 0..opened
    BY <1>3
  <2> QED
    BY <1>3, <2>1 DEF Grouped, Sweeps
<1>7. \A e \in Born : Tracked(e) => Tracked(e)'
  BY <1>2 DEF Tracked, At, Alone, Workers
<1>8. \A e \in Born' : Sound(e)'
  <2> SUFFICES ASSUME NEW e \in Born PROVE Sound(e)'
    BY <1>4
  <2>1. Sound(e) /\ (Over(e)' <=> Over(e)) /\ (Tracked(e) => Tracked(e)') /\ expense'[e] = expense[e]
    BY <1>2, <1>5, <1>7 DEF Grouped
  <2>2. expense[e].home \in 0..opened' /\ expense[e].home # opened + 1
    BY <1>2, <1>3, <1>5
  <2>3. expense[e].home \in groups' <=> expense[e].home \in groups
    BY <1>2, <1>3, <2>2
  <2> QED
    BY <1>2, <2>1, <2>2, <2>3 DEF Sound
<1>9. \A x \in Workers : Sweeps(x)'
  <2> SUFFICES ASSUME NEW x \in Workers PROVE Sweeps(x)'
    OBVIOUS
  <2>1. CASE x = w
    BY <1>2, <1>3, <2>1 DEF Sweeps, At
  <2>2. CASE x # w
    <3>1. work'[x] = work[x] /\ Sweeps(x)
      BY <1>2, <2>2 DEF Alone, Grouped
    <3>2. work[x].pc \in {"unlink", "delete"} => work[x].todo \subseteq Born
      BY DEF Core, Held, Holds
    <3> QED
      BY <1>2, <1>4, <1>5, <3>1, <3>2 DEF Sweeps, At
  <2> QED
    BY <2>1, <2>2
<1>10. \A x \in Workers \ {w} : (At(x, "insert")' <=> At(x, "insert")) /\ work'[x] = work[x]
  BY <1>2 DEF At, Alone
<1>11. Distinct'
  <2>1. \A e \in Born : g = expense[e].home => g = 0
    BY <1>3, <1>5
  <2>2. \A x \in Workers : At(x, "insert") /\ work[x].group = g => g = 0
    BY <1>3, <1>6
  <2>3. \A d, e \in Born' : (expense'[d]).home = (expense'[e]).home => d = e \/ (expense'[e]).home = 0
    BY <1>2, <1>4 DEF Grouped, Distinct
  <2>4. \A x \in Workers, e \in Born' :
          At(x, "insert")' /\ (work'[x]).group = (expense'[e]).home => (expense'[e]).home = 0
    BY <1>2, <1>4, <1>10, <2>1 DEF Grouped, Distinct
  <2>5. \A x, y \in Workers :
          At(x, "insert")' /\ At(y, "insert")' /\ (work'[x]).group = (work'[y]).group
          => x = y \/ (work'[x]).group = 0
    BY <1>2, <1>10, <2>2 DEF Grouped, Distinct
  <2> QED
    BY <2>3, <2>4, <2>5 DEF Distinct
<1> QED
  BY <1>8, <1>9, <1>11 DEF Grouped

\* The new row takes over the group that the request has opened.
LEMMA InsertGrouped ==
  ASSUME Core, Grouped, NEW w \in Workers, NEW e \in Expenses, InsertExpense(w, e)
  PROVE  Grouped'
<1>1. PICK g : g = work[w].group
  OBVIOUS
<1>2. PICK o : o = work[w].order
  OBVIOUS
<1>3. /\ At(w, "insert") /\ e \notin Born /\ Alone(w) /\ (work'[w]).pc = "idle"
      /\ groups' = groups /\ opened' = opened /\ orphans' = orphans
  BY DEF InsertExpense, Done, Idle, Alone, Core, TypeOK, history
<1>4. expense' = [expense EXCEPT ![e] =
        [born |-> TRUE, order |-> o, status |-> "ACTIVE", paid |-> {o.payer},
         group |-> g, home |-> g, deleteAt |-> "none"]]
  BY <1>1, <1>2 DEF InsertExpense
<1>5. /\ (expense'[e]).born /\ (expense'[e]).status = "ACTIVE" /\ (expense'[e]).home = g
      /\ (expense'[e]).group = g /\ (expense'[e]).deleteAt = "none"
      /\ \A d \in Expenses \ {e} : expense'[d] = expense[d]
  BY <1>4 DEF Core, TypeOK
<1>6. Born' = Born \cup {e} /\ \A d \in Born : d # e /\ expense'[d] = expense[d]
  BY <1>3, <1>5 DEF Born
<1>7. g \in groups \cup {0} /\ g \in 0..opened
  <2>1. g \in groups \cup {0}
    BY <1>1, <1>3 DEF Grouped, Sweeps
  <2>2. opened \in Nat /\ groups \subseteq 1..opened
    BY ExpenseAssumption DEF Core, TypeOK
  <2> QED
    BY <2>1, <2>2
<1>8. \A d \in Born : (Over(d)' <=> Over(d)) /\ (Tracked(d) => Tracked(d)')
  BY <1>3, <1>6 DEF Over, Tracked, At, Alone, Workers
<1>9. \A d \in Born' : Sound(d)'
  <2> SUFFICES ASSUME NEW d \in Born' PROVE Sound(d)'
    OBVIOUS
  <2>1. CASE d = e
    BY <1>3, <1>5, <1>7, <2>1 DEF Sound, Over
  <2>2. CASE d # e
    <3>1. d \in Born /\ Sound(d) /\ expense'[d] = expense[d]
      BY <1>6, <2>2 DEF Grouped
    <3> QED
      BY <1>3, <1>8, <3>1 DEF Sound
  <2> QED
    BY <2>1, <2>2
<1>10. \A x \in Workers : Sweeps(x)'
  <2> SUFFICES ASSUME NEW x \in Workers PROVE Sweeps(x)'
    OBVIOUS
  <2>1. CASE x = w
    BY <1>3, <2>1 DEF Sweeps, At
  <2>2. CASE x # w
    <3>1. work'[x] = work[x] /\ Sweeps(x)
      BY <1>3, <2>2 DEF Alone, Grouped
    <3>2. work[x].pc \in {"unlink", "delete"} => work[x].todo \subseteq Born
      BY DEF Core, Held, Holds
    <3> QED
      BY <1>3, <1>6, <1>8, <3>1, <3>2 DEF Sweeps, At
  <2> QED
    BY <2>1, <2>2
<1>11. \A x \in Workers : At(x, "insert")' => x # w /\ At(x, "insert") /\ work'[x] = work[x]
  BY <1>3 DEF At, Alone
<1>12. Distinct'
  <2>1. \A d \in Born : g = expense[d].home => g = 0
    BY <1>1, <1>3 DEF Grouped, Distinct
  <2>2. \A x \in Workers \ {w} : At(x, "insert") /\ work[x].group = g => g = 0
    BY <1>1, <1>3 DEF Grouped, Distinct
  <2>3. \A c, d \in Born' : (expense'[c]).home = (expense'[d]).home => c = d \/ (expense'[d]).home = 0
    BY <1>5, <1>6, <2>1 DEF Grouped, Distinct
  <2>4. \A x \in Workers, d \in Born' :
          At(x, "insert")' /\ (work'[x]).group = (expense'[d]).home => (expense'[d]).home = 0
    BY <1>5, <1>6, <1>11, <2>2 DEF Grouped, Distinct
  <2>5. \A x, y \in Workers :
          At(x, "insert")' /\ At(y, "insert")' /\ (work'[x]).group = (work'[y]).group
          => x = y \/ (work'[x]).group = 0
    BY <1>11 DEF Grouped, Distinct
  <2> QED
    BY <2>3, <2>4, <2>5 DEF Distinct
<1> QED
  BY <1>9, <1>10, <1>12 DEF Grouped

\* A request that does not know of the group has read the row after the group was unlinked.
LEMMA CloseGrouped ==
  ASSUME Core, Grouped, NEW w \in Workers, CloseSplit(w)
  PROVE  Grouped'
<1>1. PICK e \in Born :
        /\ e = work[w].e /\ Knows(w, e) /\ At(w, "close") /\ Born' = Born
        /\ expense'[e] = [expense[e] EXCEPT
             !.status = "SETTLED",
             !.deleteAt = IF e \in work[w].linked /\ ~expense[e].order.ongoing
                            THEN "grace" ELSE "none"]
        /\ \A d \in Expenses \ {e} : expense'[d] = expense[d]
  BY CloseRow
<1>2. expense[e] \in ExpenseRows
  BY BornRow DEF Core
<1>3. /\ (expense'[e]).status = "SETTLED" /\ (expense'[e]).home = expense[e].home
      /\ (expense'[e]).group = expense[e].group /\ (expense'[e]).order = expense[e].order
      /\ (expense'[e]).deleteAt = IF e \in work[w].linked /\ ~expense[e].order.ongoing
                                    THEN "grace" ELSE "none"
      /\ expense[e].status \in {"ACTIVE", "SETTLED"}
  BY <1>1, <1>2 DEF ExpenseRows
<1>4. Alone(w) /\ groups' = groups /\ opened' = opened /\ orphans' = orphans
  BY DEF CloseSplit, Done, Goto, Alone, history, Core, TypeOK
<1>5. (work'[w]).pc \in {"idle", "clear"}
  BY DEF CloseSplit, Done, Goto, Idle, Core, TypeOK, Tasks
<1>6. \A d \in Born \ {e} : expense'[d] = expense[d]
  BY <1>1 DEF Born
<1>7. At(Cron, "delete") => At(Cron, "delete")' /\ work'[Cron] = work[Cron]
  BY <1>1, <1>4 DEF At, Alone, Workers
<1>8. \A d \in Born : Over(d) => Over(d)'
  BY <1>3, <1>6 DEF Over
<1>9. 0 \notin groups
  BY ExpenseAssumption DEF Core, TypeOK
<1>10. \A d \in Born' : Sound(d)'
  <2> SUFFICES ASSUME NEW d \in Born PROVE Sound(d)'
    BY <1>1
  <2>1. CASE d # e
    <3>1. Sound(d) /\ expense'[d] = expense[d]
      BY <1>6, <2>1 DEF Grouped
    <3>2. (Over(d)' <=> Over(d)) /\ (Tracked(d) => Tracked(d)')
      BY <1>7, <3>1 DEF Over, Tracked
    <3> QED
      BY <1>4, <3>1, <3>2 DEF Sound
  <2>2. CASE d = e
    <3>1. Sound(e)
      BY DEF Grouped
    <3>2. ASSUME Over(e)', expense[e].home \in groups \ orphans PROVE Tracked(e)'
      <4>1. ~expense[e].order.ongoing /\ expense[e].home # 0
        BY <1>3, <1>9, <3>2 DEF Over
      <4>2. CASE e \notin work[w].linked
        <5>1. expense[e].group = 0
          BY <1>1, <4>2 DEF Knows
        <5>2. expense[e].status = "SETTLED" /\ Over(e)
          BY <1>3, <3>1, <4>1, <5>1 DEF Sound, Over
        <5>3. At(Cron, "delete") /\ work[Cron].group = expense[e].home
          BY <3>1, <3>2, <4>1, <5>1, <5>2 DEF Sound, Tracked
        <5> QED
          BY <1>3, <1>7, <5>3 DEF Tracked
      <4>3. CASE e \in work[w].linked
        <5>1. (expense'[e]).deleteAt = "grace"
          BY <1>3, <4>1, <4>3
        <5>2. expense[e].group = expense[e].home \/ Tracked(e)
          BY <1>3, <3>1, <3>2, <4>1 DEF Sound, Over
        <5> QED
          BY <1>3, <1>7, <5>1, <5>2 DEF Tracked
      <4> QED
        BY <4>2, <4>3
    <3>3. (expense'[e]).deleteAt # "none" => Over(e)'
      BY <1>3 DEF Over
    <3>4. expense[e].home \notin groups => expense[e].home = 0 \/ Over(e)'
      BY <1>8, <3>1 DEF Sound
    <3>5. Over(e)' /\ (expense'[e]).home \in groups' \ orphans' => Tracked(e)'
      BY <1>3, <1>4, <3>2
    <3> QED
      BY <1>3, <1>4, <2>2, <3>1, <3>3, <3>4, <3>5 DEF Sound
  <2> QED
    BY <2>1, <2>2
<1>11. \A d \in Born : /\ (expense'[d]).group = expense[d].group
                       /\ (expense'[d]).home = expense[d].home
  BY <1>3, <1>6
<1>12. \A x \in Workers : Sweeps(x)'
  <2> SUFFICES ASSUME NEW x \in Workers PROVE Sweeps(x)'
    OBVIOUS
  <2>1. CASE x = w
    BY <1>5, <2>1 DEF Sweeps, At
  <2>2. CASE x # w
    <3>1. work'[x] = work[x] /\ Sweeps(x)
      BY <1>4, <2>2 DEF Alone, Grouped
    <3>2. work[x].pc \in {"unlink", "delete"} => work[x].todo \subseteq Born
      BY DEF Core, Held, Holds
    <3>3. (work'[x]).pc \in {"unlink", "delete"} =>
            /\ x = Cron
            /\ \A d \in (work'[x]).todo : /\ Over(d)' /\ (expense'[d]).group = (expense'[d]).home
                                          /\ (expense'[d]).home # 0
      BY <1>8, <1>11, <3>1, <3>2 DEF Sweeps
    <3>4. At(x, "delete")' =>
            \E d \in Born' : /\ Over(d)' /\ (expense'[d]).group = 0
                             /\ (expense'[d]).home = (work'[x]).group /\ (expense'[d]).home # 0
      BY <1>1, <1>8, <1>11, <3>1 DEF Sweeps, At
    <3> QED
      BY <1>4, <3>1, <3>3, <3>4 DEF Sweeps, At
  <2> QED
    BY <2>1, <2>2
<1>13. \A x \in Workers : At(x, "insert")' => At(x, "insert") /\ work'[x] = work[x]
  BY <1>4, <1>5 DEF At, Alone
<1>14. Distinct'
  BY <1>1, <1>11, <1>13 DEF Grouped, Distinct
<1> QED
  BY <1>10, <1>12, <1>14 DEF Grouped

LEMMA GraceGrouped ==
  ASSUME Core, Grouped, NEW e \in Expenses, GraceElapses(e)
  PROVE  Grouped'
<1>1. /\ e \in Born /\ expense[e].deleteAt = "grace" /\ work' = work
      /\ groups' = groups /\ opened' = opened /\ orphans' = orphans
  BY DEF GraceElapses, history
<1>2. expense' = [expense EXCEPT ![e].deleteAt = "due"] /\ expense[e] \in ExpenseRows
  BY <1>1, BornRow DEF GraceElapses, Core
<1>3. /\ Born' = Born
      /\ \A d \in Born : /\ (expense'[d]).home = expense[d].home
                         /\ (expense'[d]).group = expense[d].group
                         /\ (expense'[d]).status = expense[d].status
                         /\ (expense'[d]).order = expense[d].order
                         /\ (expense'[d]).deleteAt # "none" <=> expense[d].deleteAt # "none"
  BY <1>1, <1>2 DEF Core, TypeOK, Born, ExpenseRows
<1>4. \A d \in Born : (Over(d)' <=> Over(d)) /\ (Tracked(d)' <=> Tracked(d))
  BY <1>1, <1>3 DEF Over, Tracked, At
<1>5. \A d \in Born' : Sound(d)'
  <2> SUFFICES ASSUME NEW d \in Born PROVE Sound(d)'
    BY <1>3
  <2>1. Sound(d) /\ (Over(d)' <=> Over(d)) /\ (Tracked(d)' <=> Tracked(d))
    BY <1>4 DEF Grouped
  <2> QED
    BY <1>1, <1>3, <2>1 DEF Sound
<1>6. \A x \in Workers : Sweeps(x)'
  <2> SUFFICES ASSUME NEW x \in Workers PROVE Sweeps(x)'
    OBVIOUS
  <2>1. work[x].pc \in {"unlink", "delete"} => work[x].todo \subseteq Born
    BY DEF Core, Held, Holds
  <2>2. Sweeps(x)
    BY DEF Grouped
  <2> QED
    BY <1>1, <1>3, <1>4, <2>1, <2>2 DEF Sweeps, At
<1>7. Distinct'
  BY <1>1, <1>3 DEF Grouped, Distinct, At
<1> QED
  BY <1>5, <1>6, <1>7 DEF Grouped

LEMMA SweepGrouped ==
  ASSUME Core, Grouped, StartSweep
  PROVE  Grouped'
<1>1. /\ At(Cron, "idle") /\ Cron \in Workers /\ Alone(Cron)
      /\ (work'[Cron]).pc = "unlink" /\ (work'[Cron]).todo = Expired
      /\ groups' = groups /\ opened' = opened /\ orphans' = orphans /\ expense' = expense
  BY DEF StartSweep, Clean, Idle, Workers, Alone, Core, TypeOK, rows, history
<1>2. Born' = Born /\ \A e \in Born : Over(e)' <=> Over(e)
  BY <1>1 DEF Born, Over
<1>3. \A e \in Born : Tracked(e) => Tracked(e)'
  BY <1>1 DEF Tracked, At
<1>4. \A e \in Expired :
        Over(e) /\ expense[e].group = expense[e].home /\ expense[e].home # 0
  BY DEF Expired, Grouped, Sound
<1>5. \A e \in Born' : Sound(e)'
  <2> SUFFICES ASSUME NEW e \in Born PROVE Sound(e)'
    BY <1>2
  <2>1. Sound(e) /\ (Over(e)' <=> Over(e)) /\ (Tracked(e) => Tracked(e)')
    BY <1>2, <1>3 DEF Grouped
  <2> QED
    BY <1>1, <2>1 DEF Sound
<1>6. \A x \in Workers : Sweeps(x)'
  <2> SUFFICES ASSUME NEW x \in Workers PROVE Sweeps(x)'
    OBVIOUS
  <2>1. CASE x = Cron
    BY <1>1, <1>2, <1>4, <2>1 DEF Sweeps, At, Expired
  <2>2. CASE x # Cron
    <3>1. work'[x] = work[x] /\ Sweeps(x)
      BY <1>1, <2>2 DEF Alone, Grouped
    <3> QED
      BY <1>1, <2>2, <3>1 DEF Sweeps, At
  <2> QED
    BY <2>1, <2>2
<1>7. \A x \in Workers : At(x, "insert")' => At(x, "insert") /\ work'[x] = work[x]
  BY <1>1 DEF At, Alone
<1>8. Distinct'
  BY <1>1, <1>2, <1>7 DEF Grouped, Distinct
<1> QED
  BY <1>5, <1>6, <1>8 DEF Grouped

\* The row lets the group go; the job still knows it.
LEMMA UnlinkGrouped ==
  ASSUME Core, Grouped, NEW w \in Workers, NEW e \in Expenses, UnlinkGroup(w, e)
  PROVE  Grouped'
<1>1. /\ At(w, "unlink") /\ e \in work[w].todo /\ work[w] \in Tasks
      /\ groups' = groups /\ opened' = opened /\ orphans' = orphans
  BY DEF UnlinkGroup, history, Core, TypeOK
<1>2. /\ e \in Born /\ w = Cron /\ Over(e)
      /\ expense[e].group = expense[e].home /\ expense[e].home # 0
  <2>1. Holds(w) /\ Sweeps(w)
    BY DEF Core, Held, Grouped
  <2> QED
    BY <1>1, <2>1 DEF Holds, Sweeps, At
<1>3. expense[e] \in ExpenseRows
  BY <1>2, BornRow DEF Core
<1>4. /\ (expense'[e]).group = 0 /\ (expense'[e]).home = expense[e].home
      /\ (expense'[e]).status = expense[e].status /\ (expense'[e]).order = expense[e].order
      /\ (expense'[e]).deleteAt = expense[e].deleteAt /\ (expense'[e]).born
      /\ \A d \in Expenses \ {e} : expense'[d] = expense[d]
  BY <1>3 DEF UnlinkGroup, ExpenseRows, Core, TypeOK
<1>5. /\ (work'[w]).pc = "delete" /\ (work'[w]).todo = work[w].todo \ {e}
      /\ (work'[w]).group = expense[e].home /\ Alone(w)
  BY <1>1, <1>2 DEF UnlinkGroup, Tasks, Core, TypeOK, Alone
<1>6. Born' = Born /\ \A d \in Born \ {e} : expense'[d] = expense[d]
  BY <1>2, <1>4 DEF Born
<1>7. \A d \in Born : Over(d)' <=> Over(d)
  BY <1>4, <1>6 DEF Over
<1>8. \A d \in Born' : Sound(d)'
  <2> SUFFICES ASSUME NEW d \in Born PROVE Sound(d)'
    BY <1>6
  <2>1. Sound(d) /\ (Over(d)' <=> Over(d))
    BY <1>7 DEF Grouped
  <2>2. CASE d = e
    <3>1. Tracked(e)'
      BY <1>2, <1>4, <1>5 DEF Tracked, At
    <3> QED
      BY <1>1, <1>2, <1>4, <2>1, <2>2, <3>1 DEF Sound, Over
  <2>3. CASE d # e
    <3>1. expense'[d] = expense[d]
      BY <1>6, <2>3
    <3>2. Tracked(d) => Tracked(d)'
      BY <1>1, <1>2, <3>1 DEF Tracked, At
    <3> QED
      BY <1>1, <2>1, <3>1, <3>2 DEF Sound
  <2> QED
    BY <2>2, <2>3
<1>9. \A x \in Workers : Sweeps(x)'
  <2> SUFFICES ASSUME NEW x \in Workers PROVE Sweeps(x)'
    OBVIOUS
  <2>0. work[w].todo \subseteq Born /\ Sweeps(w)
    BY <1>1 DEF Core, Held, Holds, Grouped, At
  <2>1. CASE x = w
    <3>1. \A d \in (work'[w]).todo : /\ Over(d)' /\ (expense'[d]).group = (expense'[d]).home
                                     /\ (expense'[d]).home # 0
      BY <1>1, <1>5, <1>6, <1>7, <2>0 DEF Sweeps, At
    <3>2. \E d \in Born' : /\ Over(d)' /\ (expense'[d]).group = 0
                           /\ (expense'[d]).home = (work'[w]).group /\ (expense'[d]).home # 0
      BY <1>2, <1>4, <1>5, <1>6, <1>7, <2>1
    <3> QED
      BY <1>2, <1>5, <2>1, <3>1, <3>2 DEF Sweeps, At
  <2>2. CASE x # w
    <3>1. work'[x] = work[x] /\ Sweeps(x)
      BY <1>5, <2>2 DEF Alone, Grouped
    <3>2. work[x].pc \notin {"unlink", "delete"}
      BY <1>2, <2>2, <3>1 DEF Sweeps
    <3> QED
      BY <1>1, <3>1, <3>2 DEF Sweeps, At
  <2> QED
    BY <2>1, <2>2
<1>10. \A x \in Workers : At(x, "insert")' => At(x, "insert") /\ work'[x] = work[x]
  BY <1>5 DEF At, Alone
<1>11. Distinct'
  <2>1. \A d \in Born : (expense'[d]).home = expense[d].home
    BY <1>4, <1>6
  <2> QED
    BY <1>6, <1>10, <2>1 DEF Grouped, Distinct
<1> QED
  BY <1>8, <1>9, <1>11 DEF Grouped

\* The group belongs to one split, which is settled.
LEMMA DeleteGrouped ==
  ASSUME Core, Grouped, NEW w \in Workers, DeleteGroup(w)
  PROVE  Grouped'
<1>1. PICK g : g = work[w].group
  OBVIOUS
<1>2. /\ At(w, "delete") /\ work[w] \in Tasks /\ expense' = expense
      /\ groups' = groups \ {g} /\ opened' = opened /\ orphans' = orphans
  BY <1>1 DEF DeleteGroup, history, Core, TypeOK
<1>3. /\ (work'[w]).pc = "unlink" /\ (work'[w]).todo = work[w].todo /\ Alone(w)
  BY <1>2 DEF DeleteGroup, Tasks, Core, TypeOK, Alone
<1>4. w = Cron
  BY <1>2 DEF Grouped, Sweeps, At
<1>5. PICK e \in Born : Over(e) /\ expense[e].group = 0 /\ expense[e].home = g /\ g # 0
  BY <1>1, <1>2 DEF Grouped, Sweeps
<1>6. \A d \in Born : expense[d].home = g => d = e
  BY <1>5 DEF Grouped, Distinct
<1>7. Born' = Born /\ \A d \in Born : Over(d)' <=> Over(d)
  BY <1>2 DEF Born, Over
<1>8. \A d \in Born' : Sound(d)'
  <2> SUFFICES ASSUME NEW d \in Born PROVE Sound(d)'
    BY <1>7
  <2>1. Sound(d) /\ (Over(d)' <=> Over(d))
    BY <1>7 DEF Grouped
  <2>2. expense[d].home \notin groups' => expense[d].home = 0 \/ Over(d)
    BY <1>2, <1>5, <1>6, <2>1 DEF Sound
  <2>3. expense[d].home \in groups' \ orphans /\ Tracked(d) => Tracked(d)'
    BY <1>1, <1>2, <1>4 DEF Tracked
  <2>4. expense[d].home \in groups' \ orphans /\ Over(d) => Tracked(d)'
    BY <1>2, <2>1, <2>3 DEF Sound
  <2> QED
    BY <1>2, <2>1, <2>2, <2>4 DEF Sound
<1>9. \A x \in Workers : Sweeps(x)'
  <2> SUFFICES ASSUME NEW x \in Workers PROVE Sweeps(x)'
    OBVIOUS
  <2>1. CASE x = w
    <3>1. work[w].todo \subseteq Born /\ Sweeps(w)
      BY <1>2 DEF Core, Held, Holds, Grouped, At
    <3> QED
      BY <1>2, <1>3, <1>4, <1>7, <2>1, <3>1 DEF Sweeps, At
  <2>2. CASE x # w
    <3>1. work'[x] = work[x] /\ Sweeps(x)
      BY <1>3, <2>2 DEF Alone, Grouped
    <3>2. work[x].pc \notin {"unlink", "delete"}
      BY <1>4, <2>2, <3>1 DEF Sweeps
    <3>3. At(x, "insert") => work[x].group # g
      BY <1>5 DEF Grouped, Distinct
    <3> QED
      BY <1>2, <3>1, <3>2, <3>3 DEF Sweeps, At
  <2> QED
    BY <2>1, <2>2
<1>10. \A x \in Workers : At(x, "insert")' => At(x, "insert") /\ work'[x] = work[x]
  BY <1>3 DEF At, Alone
<1>11. Distinct'
  BY <1>2, <1>7, <1>10 DEF Grouped, Distinct
<1> QED
  BY <1>8, <1>9, <1>11 DEF Grouped

LEMMA CrashGrouped ==
  ASSUME Core, Grouped, Crash
  PROVE  Grouped'
<1>1. /\ expense' = expense /\ groups' = groups /\ opened' = opened
      /\ \A w \in Workers : ~At(w, "insert")' /\ (work'[w]).pc = "idle"
      /\ orphans' = orphans \cup {work[w].group : w \in {x \in Workers : At(x, "delete")}}
  BY DEF Crash, rows, At, Idle
<1>2. Born' = Born /\ \A e \in Born : Over(e)' <=> Over(e)
  BY <1>1 DEF Born, Over
<1>3. \A e \in Born : expense[e].home \notin orphans' /\ Tracked(e) => Tracked(e)'
  BY <1>1 DEF Tracked, Workers
<1>4. \A e \in Born' : Sound(e)'
  <2> SUFFICES ASSUME NEW e \in Born PROVE Sound(e)'
    BY <1>2
  <2>1. Sound(e) /\ (Over(e)' <=> Over(e))
    BY <1>2 DEF Grouped
  <2> QED
    BY <1>1, <1>3, <2>1 DEF Sound
<1>5. \A w \in Workers : Sweeps(w)'
  BY <1>1 DEF Sweeps, At
<1>6. Distinct'
  BY <1>1, <1>2 DEF Grouped, Distinct
<1> QED
  BY <1>4, <1>5, <1>6 DEF Grouped

LEMMA GroupedStep ==
  ASSUME Core, Grouped, [Next]_vars
  PROVE  Grouped'
<1>0. work \in [Workers -> Tasks]
  BY DEF Core, TypeOK
<1>1. CASE UNCHANGED vars
  BY <1>1 DEF vars, rows, history, Grouped, Sound, Over, Tracked, Sweeps, Distinct, Born, At
<1>2. ASSUME NEW w \in Workers, ~At(w, "delete"), Alone(w), expense' = expense,
             groups' = groups, opened' = opened, orphans' = orphans,
             (work'[w]).pc \notin {"insert", "unlink", "delete"}
      PROVE  Grouped'
  BY <1>2, GroupedKept, SameRowsGroup
<1>3. ASSUME NEW w \in Requests, NEW o \in Orders, StartCreate(w, o) PROVE Grouped'
  BY <1>3, CreateGrouped
<1>4. ASSUME NEW w \in Requests, NEW e \in Expenses, NEW u \in Users, NEW v \in Users,
             StartPay(w, v, e, u)
      PROVE  Grouped'
  <2>1. w \in Workers /\ ~At(w, "delete") /\ Alone(w) /\ (work'[w]).pc = "pay"
    BY <1>0, <1>4 DEF StartPay, Begin, Workers, At, Alone, Idle
  <2> QED
    BY <1>2, <1>4, <2>1 DEF StartPay, rows, history
<1>5. ASSUME NEW w \in Requests, NEW u \in Users, NEW v \in Users, NEW a \in Amounts,
             StartSettle(w, u, v, a)
      PROVE  Grouped'
  <2>1. w \in Workers /\ ~At(w, "delete") /\ Alone(w) /\ (work'[w]).pc = "debts"
    BY <1>0, <1>5 DEF StartSettle, Begin, Workers, At, Alone, Idle
  <2> QED
    BY <1>2, <1>5, <2>1 DEF StartSettle, history
<1>6. ASSUME NEW w \in Workers, NEW e \in Born, MarkShare(w, e),
             ~At(w, "delete"), Alone(w), (work'[w]).pc \in {"idle", "close", "clear"},
             groups' = groups, opened' = opened, orphans' = orphans
      PROVE  Grouped'
  <2>1. Born' = Born /\ \A d \in Born : SameGroup(d)
    BY <1>6, BornRow DEF MarkShare, SameGroup, Core, TypeOK, Born, ExpenseRows
  <2> QED
    BY <1>6, <2>1, GroupedKept
<1>7. ASSUME NEW w \in Workers, MarkPaid(w) PROVE Grouped'
  <2>1. PICK e : e = work[w].e
    OBVIOUS
  <2>2. e \in Born /\ MarkShare(w, e)
    BY <1>7, <2>1 DEF MarkPaid, Core, Held, Holds, At, Knows
  <2>3. ~At(w, "delete") /\ Alone(w) /\ (work'[w]).pc \in {"idle", "close", "clear"}
    BY <1>0, <1>7 DEF MarkPaid, Done, Goto, At, Alone, Idle, Tasks
  <2> QED
    BY <1>6, <1>7, <2>2, <2>3 DEF MarkPaid
<1>8. ASSUME NEW w \in Workers, NEW e \in Expenses, ClearDebt(w, e) PROVE Grouped'
  <2>1. e \in Born /\ MarkShare(w, e)
    BY <1>8, Clearing DEF ClearDebt, Knows
  <2>2. ~At(w, "delete") /\ Alone(w) /\ (work'[w]).pc \in {"idle", "close", "clear"}
    BY <1>0, <1>8 DEF ClearDebt, At, Alone, Tasks
  <2> QED
    BY <1>6, <1>8, <2>1, <2>2 DEF ClearDebt
<1>9. ASSUME NEW w \in Workers, ReadDebts(w) \/ EndSettle(w) \/ EndClean(w) PROVE Grouped'
  <2>1. ~At(w, "delete") /\ Alone(w) /\ (work'[w]).pc \in {"idle", "clear"}
    <3>1. CASE ReadDebts(w)
      BY <1>0, <3>1 DEF ReadDebts, At, Alone, Tasks
    <3>2. CASE EndSettle(w) \/ EndClean(w)
      BY <1>0, <3>2 DEF EndSettle, EndClean, Done, At, Alone, Idle
    <3> QED
      BY <1>9, <3>1, <3>2
  <2> QED
    BY <1>2, <1>9, <2>1 DEF ReadDebts, EndSettle, EndClean, rows, history
<1>10. ASSUME NEW w \in Workers, NEW e \in Expenses, SkipDebt(w, e) PROVE Grouped'
  <2>1. ~At(w, "delete") /\ Alone(w) /\ (work'[w]).pc = "clear"
    BY <1>0, <1>10 DEF SkipDebt, At, Alone, Tasks
  <2> QED
    BY <1>2, <1>10, <2>1 DEF SkipDebt, rows, history
<1>11. ASSUME NEW w \in Workers, Step(w) PROVE Grouped'
  BY <1>7, <1>8, <1>9, <1>10, <1>11, CloseGrouped, InsertGrouped, UnlinkGrouped, DeleteGrouped
  DEF Step
<1> QED
  BY <1>1, <1>3, <1>4, <1>5, <1>11, GraceGrouped, SweepGrouped, CrashGrouped DEF Next

LEMMA GroupedInvariant == Spec => []Grouped
<1>1. Init => Grouped
  BY DEF Init, Grouped, Sweeps, Distinct, Born, NoExpense, Idle, At
<1>2. Core /\ Grouped /\ [Next]_vars => Grouped'
  BY GroupedStep
<1> QED
  BY <1>1, <1>2, CoreInvariant, PTL DEF Spec

\* No group goes before its split is settled and paid, and an ongoing one never goes.
THEOREM GroupsGoAfterSettlement == Spec => []DeletedGroupIsSettled
<1>1. Core /\ Grouped => DeletedGroupIsSettled
  BY DEF Core, Grouped, Sound, Over, SettledIsPaid, DeletedGroupIsSettled
<1> QED
  BY <1>1, CoreInvariant, GroupedInvariant, PTL

\* The job reaches the group of every settled split that is not ongoing, unless a crash has cut it
\* off between the two statements of the deletion.
THEOREM GroupsAreReached == Spec => []GroupIsNotForgotten
<1>1. Grouped => GroupIsNotForgotten
  BY DEF Grouped, Sound, Over, Tracked, GroupIsNotForgotten
<1> QED
  BY <1>1, GroupedInvariant, PTL

-----------------------------------------------------------------------------
(* Sums over a finite set.                                                 *)

\* Induction over the subsets of a finite set: the good ones are a set, not an operator.
LEMMA FiniteInduction ==
  ASSUME NEW S, IsFiniteSet(S), NEW Good,
         \A s \in SUBSET S : (\A x \in s : s \ {x} \in Good) => s \in Good
  PROVE  S \in Good
<1> DEFINE Bad == {s \in SUBSET S : s \notin Good}
<1> SUFFICES ASSUME Bad # {} PROVE FALSE
  OBVIOUS
<1>1. Bad \subseteq FiniteSubsetsOf(S)
  BY FS_Subset DEF FiniteSubsetsOf
<1> HIDE DEF Bad
<1>2. PICK s \in Bad : \A r \in Bad : <<r, s>> \notin StrictSubsetOrdering(S)
  BY <1>1, FS_StrictSubsetOrderingWellFounded, WFMin
<1>3. s \in SUBSET S /\ s \notin Good
  BY <1>2 DEF Bad
<1>4. ASSUME NEW x \in s PROVE s \ {x} \in Good
  <2>1. s \ {x} \in SUBSET S /\ s \ {x} \subseteq s /\ s \ {x} # s
    BY <1>3, <1>4
  <2>2. <<s \ {x}, s>> \in StrictSubsetOrdering(S)
    BY <1>3, <2>1 DEF StrictSubsetOrdering
  <2>3. s \ {x} \notin Bad
    BY <1>2, <2>2
  <2> QED
    BY <2>1, <2>3 DEF Bad
<1> QED
  BY <1>3, <1>4

\* The element that a sum adds first.
First(S) == CHOOSE x \in S : TRUE

LEMMA FirstIsIn ==
  ASSUME NEW S, S # {} PROVE First(S) \in S
  BY DEF First

\* The partial sums of f over a collection of sets.
PartialSums(f, C, g) == g = [s \in C |-> IF s = {} THEN 0 ELSE f[First(s)] + g[s \ {First(s)}]]

LEMMA SumIsPartialSum ==
  ASSUME NEW f, NEW S
  PROVE  SumOver(f, S) = (CHOOSE g : PartialSums(f, SUBSET S, g))[S]
  BY DEF SumOver, MapThenSumSet, MapThenFoldSet, PartialSums, First

\* Partial sums exist: those of the sets of n + 1 elements follow from those of n.
LEMMA PartialSumsExist ==
  ASSUME NEW f, NEW S, IsFiniteSet(S)
  PROVE  \E g : PartialSums(f, SUBSET S, g)
<1> DEFINE Small(n) == {s \in SUBSET S : Cardinality(s) <= n}
           Bad == {n \in Nat : ~ \E g : PartialSums(f, Small(n), g)}
<1>1. \A s \in SUBSET S : IsFiniteSet(s) /\ Cardinality(s) \in Nat
  BY FS_Subset, FS_CardinalityType
<1>2. \A s \in SUBSET S : s # {} =>
        s \ {First(s)} \in SUBSET S /\ Cardinality(s \ {First(s)}) = Cardinality(s) - 1
  BY <1>1, FirstIsIn, FS_RemoveElement
<1>3. 0 \notin Bad
  <2>1. \A s \in Small(0) : s = {}
    BY <1>1, FS_EmptySet
  <2> DEFINE g == [s \in Small(0) |-> 0]
  <2>2. PartialSums(f, Small(0), g)
    BY <2>1 DEF PartialSums
  <2> QED
    BY <2>2
<1>4. ASSUME NEW n \in Nat, n \notin Bad PROVE n + 1 \notin Bad
  <2>1. PICK g : PartialSums(f, Small(n), g)
    BY <1>4
  <2> DEFINE h == [s \in Small(n + 1) |-> IF s = {} THEN 0 ELSE f[First(s)] + g[s \ {First(s)}]]
  <2>2. \A s \in Small(n) : s \in Small(n + 1) /\ h[s] = g[s]
    <3> SUFFICES ASSUME NEW s \in Small(n) PROVE s \in Small(n + 1) /\ h[s] = g[s]
      OBVIOUS
    <3>1. s \in Small(n + 1)
      BY <1>1
    <3>2. g[s] = IF s = {} THEN 0 ELSE f[First(s)] + g[s \ {First(s)}]
      <4> HIDE DEF Small
      <4> QED
        BY <2>1 DEF PartialSums
    <3> QED
      BY <3>1, <3>2
  <2>3. \A s \in Small(n + 1) : s # {} => s \ {First(s)} \in Small(n)
    BY <1>1, <1>2
  <2>4. \A s \in Small(n + 1) : s # {} => h[s \ {First(s)}] = g[s \ {First(s)}]
    BY <2>2, <2>3
  <2>5. PartialSums(f, Small(n + 1), h)
    BY <2>4 DEF PartialSums
  <2> QED
    BY <2>5
<1>5. Bad = {}
  <2> SUFFICES ASSUME Bad # {} PROVE FALSE
    OBVIOUS
  <2>0. Bad \subseteq Nat
    OBVIOUS
  <2> HIDE DEF Bad
  <2>1. PICK m \in Bad : \A n \in Bad : ~(n < m)
    <3>1. \E m \in Bad : \A n \in Bad : <<n, m>> \notin OpToRel(<, Nat)
      BY <2>0, NatLessThanWellFounded, WFMin
    <3> QED
      BY <2>0, <3>1 DEF OpToRel
  <2>2. m # 0 /\ m - 1 \in Nat /\ m - 1 + 1 = m
    BY <1>3, <2>0, <2>1
  <2>3. m - 1 \notin Bad
    BY <2>0, <2>1, <2>2
  <2> QED
    BY <1>4, <2>1, <2>2, <2>3
<1>6. Cardinality(S) \in Nat
  BY FS_CardinalityType
<1>7. Small(Cardinality(S)) = SUBSET S
  BY FS_Subset
<1> QED
  BY <1>5, <1>6, <1>7

\* A sum adds its first element to the sum of the others.
LEMMA SumUnfolds ==
  ASSUME NEW f, NEW S, IsFiniteSet(S)
  PROVE  SumOver(f, S) = IF S = {} THEN 0 ELSE f[First(S)] + SumOver(f, S \ {First(S)})
<1> DEFINE T == S \ {First(S)}
<1>1. PICK g : g = CHOOSE h : PartialSums(f, SUBSET S, h)
  OBVIOUS
<1>2. PICK h : h = CHOOSE k : PartialSums(f, SUBSET T, k)
  OBVIOUS
<1>3. IsFiniteSet(T) /\ T \in SUBSET S
  BY FS_Subset
<1> HIDE DEF T
<1>4. PartialSums(f, SUBSET S, g) /\ PartialSums(f, SUBSET T, h)
  BY <1>1, <1>2, <1>3, PartialSumsExist
<1>5. \A s \in SUBSET S : g[s] = IF s = {} THEN 0 ELSE f[First(s)] + g[s \ {First(s)}]
  BY <1>4 DEF PartialSums
<1>6. \A s \in SUBSET T : h[s] = IF s = {} THEN 0 ELSE f[First(s)] + h[s \ {First(s)}]
  BY <1>4 DEF PartialSums
<1>7. g[T] = h[T]
  <2> DEFINE Good == {s \in SUBSET T : g[s] = h[s]}
  <2>1. ASSUME NEW s \in SUBSET T, \A x \in s : s \ {x} \in Good PROVE s \in Good
    <3>1. s # {} => g[s \ {First(s)}] = h[s \ {First(s)}]
      BY <2>1, FirstIsIn
    <3> QED
      BY <1>3, <1>5, <1>6, <3>1
  <2> HIDE DEF Good
  <2>2. T \in Good
    BY <1>3, <2>1, FiniteInduction
  <2> QED
    BY <2>2 DEF Good
<1>8. SumOver(f, S) = g[S] /\ SumOver(f, T) = h[T]
  BY <1>1, <1>2, SumIsPartialSum
<1>9. S \in SUBSET S
  OBVIOUS
<1> QED
  BY <1>5, <1>7, <1>8, <1>9 DEF T

\* The sum of integers is an integer.
LEMMA SumType ==
  ASSUME NEW S, IsFiniteSet(S), NEW f, \A x \in S : f[x] \in Int
  PROVE  SumOver(f, S) \in Int
<1> DEFINE Good == {s \in SUBSET S : SumOver(f, s) \in Int}
<1>1. ASSUME NEW s \in SUBSET S, \A x \in s : s \ {x} \in Good PROVE s \in Good
  <2>1. SumOver(f, s) = IF s = {} THEN 0 ELSE f[First(s)] + SumOver(f, s \ {First(s)})
    BY FS_Subset, SumUnfolds
  <2>2. s # {} => f[First(s)] \in Int /\ SumOver(f, s \ {First(s)}) \in Int
    BY <1>1, FirstIsIn
  <2> QED
    BY <2>1, <2>2
<1> HIDE DEF Good
<1>2. S \in Good
  BY <1>1, FiniteInduction
<1> QED
  BY <1>2 DEF Good

\* A sum depends on the values of its elements only.
LEMMA SumCongruence ==
  ASSUME NEW S, IsFiniteSet(S), NEW f, NEW g, \A x \in S : f[x] = g[x]
  PROVE  SumOver(f, S) = SumOver(g, S)
<1> DEFINE Good == {s \in SUBSET S : SumOver(f, s) = SumOver(g, s)}
<1>1. ASSUME NEW s \in SUBSET S, \A x \in s : s \ {x} \in Good PROVE s \in Good
  <2>1. /\ SumOver(f, s) = IF s = {} THEN 0 ELSE f[First(s)] + SumOver(f, s \ {First(s)})
        /\ SumOver(g, s) = IF s = {} THEN 0 ELSE g[First(s)] + SumOver(g, s \ {First(s)})
    BY FS_Subset, SumUnfolds
  <2>2. s # {} => /\ f[First(s)] = g[First(s)]
                  /\ SumOver(f, s \ {First(s)}) = SumOver(g, s \ {First(s)})
    BY <1>1, FirstIsIn
  <2> QED
    BY <2>1, <2>2
<1> HIDE DEF Good
<1>2. S \in Good
  BY <1>1, FiniteInduction
<1> QED
  BY <1>2 DEF Good

\* Each gets k, and p gets r more.
LEMMA SumOfEqualParts ==
  ASSUME NEW S, IsFiniteSet(S), NEW k \in Int, NEW r \in Int, NEW p, NEW f,
         \A x \in S : f[x] = IF x = p THEN k + r ELSE k
  PROVE  SumOver(f, S) = k * Cardinality(S) + IF p \in S THEN r ELSE 0
<1> DEFINE Total(s) == k * Cardinality(s) + IF p \in s THEN r ELSE 0
           Good == {s \in SUBSET S : SumOver(f, s) = Total(s)}
<1>1. ASSUME NEW s \in SUBSET S, \A x \in s : s \ {x} \in Good PROVE s \in Good
  <2>1. SumOver(f, s) = IF s = {} THEN 0 ELSE f[First(s)] + SumOver(f, s \ {First(s)})
    BY FS_Subset, SumUnfolds
  <2>2. CASE s = {}
    BY <2>1, <2>2, FS_EmptySet
  <2>3. CASE s # {}
    <3>1. PICK y \in s : y = First(s)
      BY <2>3, FirstIsIn
    <3>2. /\ Cardinality(s) \in Nat /\ Cardinality(s \ {y}) = Cardinality(s) - 1
      BY <3>1, FS_Subset, FS_RemoveElement, FS_CardinalityType
    <3>3. k * (Cardinality(s) - 1) = k * Cardinality(s) - k
      BY <3>2
    <3>4. SumOver(f, s) = f[y] + Total(s \ {y})
      BY <1>1, <2>1, <2>3, <3>1
    <3>5. f[y] = (IF y = p THEN k + r ELSE k)
      BY <3>1
    <3>6. p \in s \ {y} <=> p \in s /\ y # p
      OBVIOUS
    <3>7. k * Cardinality(s) \in Int
      BY <3>2
    <3>8. CASE y = p
      BY <3>1, <3>2, <3>3, <3>4, <3>5, <3>7, <3>8
    <3>9. CASE y # p
      BY <3>1, <3>2, <3>3, <3>4, <3>5, <3>6, <3>7, <3>9
    <3> QED
      BY <3>8, <3>9
  <2> QED
    BY <2>2, <2>3
<1> HIDE DEF Good
<1>2. S \in Good
  BY <1>1, FiniteInduction
<1> QED
  BY <1>2 DEF Good

LEMMA Distributes == \A i, j, k \in Int : i * (j + k) = i * j + i * k
  OBVIOUS

LEMMA Cancels == \A p, i, j \in Int : p > 0 /\ p * i <= p * j => i <= j
  OBVIOUS

LEMMA Scales == \A p, i, j \in Int : p >= 0 /\ i <= j => p * i <= p * j
  OBVIOUS

\* A linear bound on every element is one on the sums.
LEMMA SumBound ==
  ASSUME NEW S, IsFiniteSet(S), NEW a \in Int, NEW b \in Int, NEW c \in Int, NEW f, NEW g,
         \A x \in S : f[x] \in Int /\ g[x] \in Int /\ a * f[x] <= b * g[x] + c
  PROVE  a * SumOver(f, S) <= b * SumOver(g, S) + c * Cardinality(S)
<1> DEFINE Near(s) == a * SumOver(f, s) <= b * SumOver(g, s) + c * Cardinality(s)
           Good == {s \in SUBSET S : Near(s)}
<1>1. ASSUME NEW s \in SUBSET S, \A x \in s : s \ {x} \in Good PROVE s \in Good
  <2>1. /\ SumOver(f, s) = IF s = {} THEN 0 ELSE f[First(s)] + SumOver(f, s \ {First(s)})
        /\ SumOver(g, s) = IF s = {} THEN 0 ELSE g[First(s)] + SumOver(g, s \ {First(s)})
    BY FS_Subset, SumUnfolds
  <2>2. CASE s = {}
    BY <2>1, <2>2, FS_EmptySet
  <2>3. CASE s # {}
    <3>1. PICK y \in s : y = First(s)
      BY <2>3, FirstIsIn
    <3>2. PICK t : t = s \ {y}
      OBVIOUS
    <3>3. /\ IsFiniteSet(t) /\ Cardinality(s) \in Nat /\ Cardinality(t) \in Nat
          /\ Cardinality(s) = Cardinality(t) + 1
      <4>1. IsFiniteSet(s) /\ y \in s
        BY <3>1, FS_Subset
      <4>2. IsFiniteSet(t) /\ Cardinality(t) = Cardinality(s) - 1
        BY <3>2, <4>1, FS_RemoveElement
      <4> QED
        BY <4>1, <4>2, FS_CardinalityType
    <3>4. SumOver(f, t) \in Int /\ SumOver(g, t) \in Int
      BY <3>2, <3>3, SumType
    <3>5. f[y] \in Int /\ g[y] \in Int
      BY <3>1
    <3>6. /\ a * (f[y] + SumOver(f, t)) = a * f[y] + a * SumOver(f, t)
          /\ b * (g[y] + SumOver(g, t)) = b * g[y] + b * SumOver(g, t)
          /\ c * (Cardinality(t) + 1) = c * Cardinality(t) + c
      <4>1. c * (Cardinality(t) + 1) = c * Cardinality(t) + c * 1 /\ c * 1 = c
        BY <3>3, Distributes
      <4> QED
        BY <3>4, <3>5, <4>1, Distributes
    <3>7. SumOver(f, s) = f[y] + SumOver(f, t) /\ SumOver(g, s) = g[y] + SumOver(g, t)
      BY <2>1, <2>3, <3>1, <3>2
    <3>8. Near(t)
      BY <1>1, <3>1, <3>2
    <3>9. a * f[y] <= b * g[y] + c
      BY <3>1
    <3> QED
      BY <3>3, <3>4, <3>5, <3>6, <3>7, <3>8, <3>9
  <2> QED
    BY <2>2, <2>3
<1> HIDE DEF Good
<1>2. S \in Good
  BY <1>1, FiniteInduction
<1> QED
  BY <1>2 DEF Good

-----------------------------------------------------------------------------
(* The shares of a split make up its total.                                *)

LEMMA MembersType ==
  ASSUME NEW o \in Orders
  PROVE  /\ IsFiniteSet(Members(o)) /\ Cardinality(Members(o)) \in Nat \ {0}
         /\ o.total \in Nat /\ o.type \in Types /\ o.slip \in {0, 1}
         /\ \A u \in Members(o) : u \in Users /\ Share(o, u) \in Nat /\ o.weight[u] \in Nat
<1>1. o \in Forms /\ Members(o) \subseteq Users /\ o.payer \in Members(o)
      /\ \A u \in Users : Share(o, u) \in Nat
  BY OrderType
<1>2. IsFiniteSet(Members(o))
  BY <1>1, ExpenseAssumption, FS_Subset
<1>3. Cardinality(Members(o)) \in Nat /\ Cardinality(Members(o)) # 0
  BY <1>1, <1>2, FS_CardinalityType, FS_EmptySet
<1>4. o.total \in Nat /\ o.type \in Types /\ o.slip \in {0, 1} /\ o.weight \in [Users -> Nat]
  BY <1>1 DEF Forms
<1> QED
  BY <1>1, <1>2, <1>3, <1>4

\* Rounding moves a fraction by a half at most.
LEMMA RoundedIsNear ==
  ASSUME NEW a \in Nat, NEW b \in Nat \ {0}
  PROVE  /\ Rounded(a, b) \in Nat
         /\ (2 * b) * Rounded(a, b) <= 2 * a + b /\ 2 * a <= (2 * b) * Rounded(a, b) + b
<1>1. PICK d, n \in Nat : d = 2 * b /\ n = 2 * a + b
  OBVIOUS
<1>2. n \div d \in Nat /\ d * (n \div d) <= n /\ n < d * (n \div d) + d
  BY <1>1
<1>3. Rounded(a, b) = n \div d
  BY <1>1 DEF Rounded
<1>4. PICK m \in Int : m = d * (n \div d)
  BY <1>1, <1>2
<1>5. m <= 2 * a + b /\ 2 * a <= m + b
  BY <1>1, <1>2, <1>4
<1> QED
  BY <1>1, <1>2, <1>3, <1>4, <1>5

\* What SharesAddUp says of one order.
Shared(o) == SumOver([u \in Users |-> Share(o, u)], Members(o))

AddsUp(o) ==
  LET n == Cardinality(Members(o))
      gap == Abs(Shared(o) - o.total)
  IN CASE o.type = "EQUAL" -> gap = 0
       [] o.type = "EXACT" -> gap <= 5
       [] o.type = "SHARES" -> 2 * gap <= n
       [] o.type = "PERCENT" -> 2000 * gap <= 1000 * n + 10 * o.total

LEMMA SharedType ==
  ASSUME NEW o \in Orders PROVE Shared(o) \in Int
<1>1. \A u \in Members(o) : [v \in Users |-> Share(o, v)][u] \in Int
  BY MembersType
<1> QED
  BY <1>1, MembersType, SumType DEF Shared

LEMMA EqualAddsUp ==
  ASSUME NEW o \in Orders, o.type = "EQUAL"
  PROVE  Shared(o) = o.total
<1> DEFINE n == Cardinality(Members(o))
           slip == IF o.total % n = 0 THEN o.slip ELSE 0
<1>1. n \in Nat \ {0} /\ o.total \in Nat /\ slip \in Int /\ o.payer \in Members(o)
  BY MembersType, OrderType
<1>2. PICK share \in Int : share = o.total \div n - slip
  BY <1>1
<1>3. PICK rest \in Int : rest = o.total - share * n
  BY <1>1, <1>2
<1>4. \A u \in Users : Share(o, u) = IF u = o.payer THEN share + rest ELSE share
  BY <1>2, <1>3 DEF Share, EqualShare
<1>5. \A u \in Members(o) :
        [v \in Users |-> Share(o, v)][u] = IF u = o.payer THEN share + rest ELSE share
  BY <1>4, MembersType
<1>6. Shared(o) = share * n + rest
  <2> DEFINE f == [v \in Users |-> Share(o, v)]
             S == Members(o)
             p == o.payer
  <2>1. IsFiniteSet(S) /\ p \in S /\ \A u \in S : f[u] = IF u = p THEN share + rest ELSE share
    BY <1>1, <1>5, MembersType
  <2> HIDE DEF f, S, p, n
  <2>2. SumOver(f, S) = share * Cardinality(S) + IF p \in S THEN rest ELSE 0
    BY <2>1, SumOfEqualParts
  <2>3. SumOver(f, S) = share * Cardinality(S) + rest
    BY <2>1, <2>2
  <2> QED
    BY <2>3 DEF Shared, f, S, n
<1>7. share * n \in Int
  BY <1>1
<1> QED
  BY <1>1, <1>3, <1>6, <1>7

LEMMA ExactAddsUp ==
  ASSUME NEW o \in Orders, o.type = "EXACT", Accepted(o)
  PROVE  Abs(Shared(o) - o.total) <= 5
<1>1. \A u \in Members(o) : [v \in Users |-> Share(o, v)][u] = o.weight[u]
  BY MembersType DEF Share
<1>2. Shared(o) = SumOver(o.weight, Members(o))
  BY <1>1, MembersType, SumCongruence DEF Shared
<1> QED
  BY <1>2 DEF Accepted

\* The shares of a split whose members have parts of the total, each one rounded.
LEMMA RoundedPartsAddUp ==
  ASSUME NEW o \in Orders, NEW g, NEW b \in Nat \ {0},
         \A u \in Members(o) : /\ g[u] \in Nat
                               /\ Share(o, u) = Rounded(o.total * g[u], b)
  PROVE  LET scaled == (2 * b) * Shared(o)
             parts == (2 * o.total) * SumOver(g, Members(o))
             n == Cardinality(Members(o))
         IN scaled <= parts + b * n /\ parts <= scaled + b * n
<1> DEFINE f == [u \in Users |-> Share(o, u)]
           S == Members(o)
<1>1. PICK t \in Nat : t = o.total
  BY MembersType
<1>2. \A u \in S : /\ f[u] \in Int /\ g[u] \in Int
                   /\ (2 * b) * f[u] <= (2 * t) * g[u] + b
                   /\ (2 * t) * g[u] <= (2 * b) * f[u] + b
  <2> SUFFICES ASSUME NEW u \in S
               PROVE  /\ f[u] \in Int /\ g[u] \in Int
                      /\ (2 * b) * f[u] <= (2 * t) * g[u] + b
                      /\ (2 * t) * g[u] <= (2 * b) * f[u] + b
    OBVIOUS
  <2>1. f[u] = Share(o, u) /\ g[u] \in Nat
    BY MembersType
  <2>2. PICK a \in Nat : a = t * g[u]
    BY <2>1
  <2>3. f[u] = Rounded(a, b)
    BY <1>1, <2>1, <2>2
  <2>4. (2 * t) * g[u] = 2 * a
    BY <2>1, <2>2
  <2>5. /\ Rounded(a, b) \in Nat
        /\ (2 * b) * Rounded(a, b) <= 2 * a + b /\ 2 * a <= (2 * b) * Rounded(a, b) + b
    BY RoundedIsNear
  <2> HIDE DEF f, S
  <2> QED
    BY <2>1, <2>3, <2>4, <2>5
<1>3. IsFiniteSet(S) /\ 2 * b \in Int /\ 2 * t \in Int /\ b \in Int
  BY MembersType
<1>4. Shared(o) = SumOver(f, S)
  BY DEF Shared
<1> HIDE DEF f, S
<1>5. (2 * b) * SumOver(f, S) <= (2 * t) * SumOver(g, S) + b * Cardinality(S)
  BY <1>2, <1>3, SumBound
<1>6. (2 * t) * SumOver(g, S) <= (2 * b) * SumOver(f, S) + b * Cardinality(S)
  BY <1>2, <1>3, SumBound
<1> QED
  BY <1>1, <1>4, <1>5, <1>6 DEF S

LEMMA SharesAddUpInShares ==
  ASSUME NEW o \in Orders, o.type = "SHARES"
  PROVE  2 * Abs(Shared(o) - o.total) <= Cardinality(Members(o))
<1> DEFINE g == [u \in Users |-> Parts(o, u)]
           S == Members(o)
<1>1. PICK n \in Nat : n = Cardinality(S) /\ n # 0
  BY MembersType
<1>2. IsFiniteSet(S) /\ \A u \in S : g[u] \in Nat \ {0} /\ g[u] = Parts(o, u)
  BY MembersType DEF Parts
<1>3. PICK p \in Int : p = SumOver(g, S)
  BY <1>2, SumType
<1>4. p >= n
  <2>1. PICK m, z \in Int : m = -1 /\ z = 0
    OBVIOUS
  <2>2. \A u \in S : g[u] \in Int /\ m * g[u] <= z * g[u] + m
    BY <1>2, <2>1
  <2> HIDE DEF g, S
  <2>3. m * SumOver(g, S) <= z * SumOver(g, S) + m * Cardinality(S)
    BY <1>2, <2>2, SumBound
  <2> QED
    BY <1>1, <1>3, <2>1, <2>3
<1>5. p \in Nat \ {0}
  BY <1>1, <1>4
<1>6. \A u \in S : Share(o, u) = Rounded(o.total * g[u], p)
  BY <1>2, <1>3 DEF Share
<1>7. PICK t, s \in Int : t = o.total /\ s = Shared(o)
  BY MembersType, SharedType
<1>8. (2 * p) * s <= (2 * t) * p + p * n /\ (2 * t) * p <= (2 * p) * s + p * n
  <2> HIDE DEF g
  <2> QED
    BY <1>1, <1>2, <1>3, <1>5, <1>6, <1>7, RoundedPartsAddUp
<1>9. p * (2 * s) <= p * (2 * t + n) /\ p * (2 * t) <= p * (2 * s + n)
  BY <1>1, <1>7, <1>8
<1>10. 2 * s <= 2 * t + n /\ 2 * t <= 2 * s + n
  BY <1>1, <1>5, <1>7, <1>9, Cancels
<1> QED
  BY <1>1, <1>7, <1>10 DEF Abs

LEMMA PercentAddsUp ==
  ASSUME NEW o \in Orders, o.type = "PERCENT", Accepted(o)
  PROVE  2000 * Abs(Shared(o) - o.total) <= 1000 * Cardinality(Members(o)) + 10 * o.total
<1> DEFINE S == Members(o)
<1>1. PICK n \in Nat : n = Cardinality(S)
  BY MembersType
<1>2. IsFiniteSet(S) /\ \A u \in S : o.weight[u] \in Nat /\ o.weight[u] \in Int
  BY MembersType
<1>3. PICK w \in Int : w = SumOver(o.weight, S)
  BY <1>2, SumType
<1>4. w <= 1005 /\ 995 <= w
  BY <1>3 DEF Accepted, Abs
<1>5. \A u \in S : Share(o, u) = Rounded(o.total * o.weight[u], 1000)
  BY DEF Share
<1>6. PICK t, s \in Int : t = o.total /\ s = Shared(o) /\ t >= 0
  BY MembersType, SharedType
<1>7. /\ (2 * 1000) * s <= (2 * t) * w + 1000 * n
      /\ (2 * t) * w <= (2 * 1000) * s + 1000 * n
  <2>1. PICK b \in Nat \ {0} : b = 1000
    OBVIOUS
  <2>2. \A u \in S : o.weight[u] \in Nat /\ Share(o, u) = Rounded(o.total * o.weight[u], b)
    BY <1>2, <1>5, <2>1
  <2>3. (2 * b) * s <= (2 * t) * w + b * n /\ (2 * t) * w <= (2 * b) * s + b * n
    BY <1>1, <1>3, <1>6, <2>2, RoundedPartsAddUp
  <2> QED
    BY <2>1, <2>3
<1>8. t * w <= t * 1005 /\ t * 995 <= t * w
  BY <1>4, <1>6, Scales
<1>9. (2 * t) * w = 2 * (t * w)
  OBVIOUS
<1>10. PICK m \in Int : m = t * w
  OBVIOUS
<1>11. 2000 * s <= 2010 * t + 1000 * n /\ 1990 * t <= 2000 * s + 1000 * n
  BY <1>7, <1>8, <1>9, <1>10
<1> QED
  BY <1>1, <1>6, <1>11 DEF Abs

LEMMA AcceptedAddsUp ==
  ASSUME NEW o \in Orders, Accepted(o)
  PROVE  AddsUp(o)
<1>1. o.type \in Types /\ Shared(o) \in Int /\ o.total \in Nat
  BY MembersType, SharedType
<1>2. CASE o.type = "EQUAL"
  BY <1>1, <1>2, EqualAddsUp DEF AddsUp, Abs
<1>3. CASE o.type = "EXACT"
  BY <1>3, ExactAddsUp DEF AddsUp
<1>4. CASE o.type = "SHARES"
  BY <1>4, SharesAddUpInShares DEF AddsUp
<1>5. CASE o.type = "PERCENT"
  BY <1>5, PercentAddsUp DEF AddsUp
<1> QED
  BY <1>1, <1>2, <1>3, <1>4, <1>5 DEF Types

-----------------------------------------------------------------------------
(* Every split was accepted.                                               *)

\* The split that a request inserts passed the checks in the statement before.
Agreed ==
  /\ \A e \in Born : Accepted(expense[e].order)
  /\ \A w \in Workers : At(w, "insert") => Accepted(work[w].order)

\* A step that neither starts nor ends the creation of a split.
LEMMA AgreedKept ==
  ASSUME Agreed, Grows, Born' = Born, NEW w \in Workers, Alone(w), ~At(w, "insert")'
  PROVE  Agreed'
<1>1. \A e \in Born' : Accepted((expense'[e]).order)
  BY DEF Agreed, Grows
<1>2. \A x \in Workers : At(x, "insert")' => Accepted((work'[x]).order)
  BY DEF Agreed, Alone, At
<1> QED
  BY <1>1, <1>2 DEF Agreed

LEMMA CreateAgreed ==
  ASSUME Core, Agreed, NEW w \in Requests, NEW o \in Orders, StartCreate(w, o)
  PROVE  Agreed'
<1>1. /\ w \in Workers /\ Accepted(o) /\ expense' = expense /\ Alone(w)
      /\ (work'[w]).order = o
  BY DEF StartCreate, Begin, Alone, Workers, Core, TypeOK, Idle
<1>2. Born' = Born
  BY <1>1, SameRows
<1>3. \A x \in Workers : At(x, "insert")' => Accepted((work'[x]).order)
  BY <1>1 DEF Agreed, Alone, At
<1> QED
  BY <1>1, <1>2, <1>3 DEF Agreed

LEMMA InsertAgreed ==
  ASSUME Core, Agreed, NEW w \in Workers, NEW e \in Expenses, InsertExpense(w, e)
  PROVE  Agreed'
<1>1. /\ Accepted(work[w].order) /\ (expense'[e]).order = work[w].order
      /\ \A d \in Expenses \ {e} : expense'[d] = expense[d]
  BY DEF InsertExpense, Agreed, Core, TypeOK
<1>2. Alone(w) /\ ~At(w, "insert")'
  BY DEF InsertExpense, Done, Alone, At, Idle, Core, TypeOK
<1>3. \A d \in Born' : Accepted((expense'[d]).order)
  BY <1>1 DEF Agreed, Born
<1>4. \A x \in Workers : At(x, "insert")' => Accepted((work'[x]).order)
  BY <1>2 DEF Agreed, Alone, At
<1> QED
  BY <1>3, <1>4 DEF Agreed

LEMMA AgreedStep ==
  ASSUME Core, Agreed, [Next]_vars
  PROVE  Agreed'
<1>0. Grows /\ work \in [Workers -> Tasks] /\ (expense' = expense => Born' = Born)
  BY CoreStep, SameRows DEF Core, TypeOK
<1>1. CASE UNCHANGED vars
  BY <1>1 DEF vars, rows, Agreed, Born, At
<1>2. ASSUME NEW w \in Requests, NEW e \in Expenses, NEW u \in Users, NEW v \in Users,
             StartPay(w, v, e, u)
      PROVE  Agreed'
  <2>1. w \in Workers /\ Alone(w) /\ ~At(w, "insert")' /\ expense' = expense
    BY <1>0, <1>2 DEF StartPay, Begin, Workers, At, Alone, Idle, rows
  <2> QED
    BY <1>0, <2>1, AgreedKept
<1>3. ASSUME NEW w \in Requests, NEW u \in Users, NEW v \in Users, NEW a \in Amounts,
             StartSettle(w, u, v, a)
      PROVE  Agreed'
  <2>1. w \in Workers /\ Alone(w) /\ ~At(w, "insert")' /\ expense' = expense
    BY <1>0, <1>3 DEF StartSettle, Begin, Workers, At, Alone, Idle
  <2> QED
    BY <1>0, <2>1, AgreedKept
<1>4. ASSUME NEW e \in Born, NEW w \in Workers, MarkShare(w, e) PROVE Born' = Born
  BY <1>4, BornRow DEF MarkShare, Core, TypeOK, Born, ExpenseRows
<1>5. ASSUME NEW w \in Workers, MarkPaid(w) PROVE Agreed'
  <2>1. work[w].e \in Born /\ MarkShare(w, work[w].e)
    BY <1>5 DEF MarkPaid, Core, Held, Holds, At, Knows
  <2>2. Alone(w) /\ ~At(w, "insert")'
    BY <1>0, <1>5 DEF MarkPaid, Done, Goto, At, Alone, Idle, Tasks
  <2> QED
    BY <1>0, <1>4, <2>1, <2>2, AgreedKept
<1>6. ASSUME NEW w \in Workers, NEW e \in Expenses, ClearDebt(w, e) PROVE Agreed'
  <2>1. e \in Born /\ MarkShare(w, e)
    BY <1>6, Clearing DEF ClearDebt, Knows
  <2>2. Alone(w) /\ ~At(w, "insert")'
    BY <1>0, <1>6 DEF ClearDebt, At, Alone, Tasks
  <2> QED
    BY <1>0, <1>4, <2>1, <2>2, AgreedKept
<1>7. ASSUME NEW w \in Workers, CloseSplit(w) PROVE Agreed'
  <2>1. Born' = Born
    BY <1>7, CloseRow
  <2>2. Alone(w) /\ ~At(w, "insert")'
    BY <1>0, <1>7 DEF CloseSplit, Done, Goto, At, Alone, Idle, Tasks
  <2> QED
    BY <1>0, <2>1, <2>2, AgreedKept
<1>8. ASSUME NEW w \in Workers,
             ReadDebts(w) \/ EndSettle(w) \/ EndClean(w) \/ DeleteGroup(w)
               \/ \E e \in Expenses : SkipDebt(w, e)
      PROVE  Agreed'
  <2>1. expense' = expense
    BY <1>8 DEF ReadDebts, EndSettle, EndClean, DeleteGroup, SkipDebt, rows
  <2>2. Alone(w) /\ ~At(w, "insert")'
    <3>1. CASE ReadDebts(w)
      BY <1>0, <3>1 DEF ReadDebts, At, Alone, Tasks
    <3>2. CASE EndSettle(w) \/ EndClean(w)
      BY <1>0, <3>2 DEF EndSettle, EndClean, Done, At, Alone, Idle
    <3>3. ASSUME NEW e \in Expenses, SkipDebt(w, e) PROVE Alone(w) /\ ~At(w, "insert")'
      BY <1>0, <3>3 DEF SkipDebt, At, Alone, Tasks
    <3>4. CASE DeleteGroup(w)
      BY <1>0, <3>4 DEF DeleteGroup, At, Alone, Tasks
    <3> QED
      BY <1>8, <3>1, <3>2, <3>3, <3>4
  <2> QED
    BY <1>0, <2>1, <2>2, AgreedKept
<1>9. ASSUME NEW w \in Workers, NEW e \in Expenses, UnlinkGroup(w, e) PROVE Agreed'
  <2>1. Alone(w) /\ ~At(w, "insert")'
    BY <1>0, <1>9 DEF UnlinkGroup, At, Alone, Tasks
  <2>2. Born' = Born
    BY <1>9, BornRow DEF UnlinkGroup, Core, TypeOK, Born, ExpenseRows
  <2> QED
    BY <1>0, <2>1, <2>2, AgreedKept
<1>10. ASSUME NEW e \in Expenses, GraceElapses(e) PROVE Agreed'
  <2>1. work' = work /\ Born' = Born /\ \A d \in Born : (expense'[d]).order = expense[d].order
    BY <1>0, <1>10, BornRow DEF GraceElapses, Core, TypeOK, Born, ExpenseRows, Grows
  <2> QED
    BY <2>1 DEF Agreed, At
<1>11. CASE StartSweep
  <2>1. Cron \in Workers /\ Alone(Cron) /\ ~At(Cron, "insert")' /\ expense' = expense
    BY <1>0, <1>11 DEF StartSweep, Workers, At, Alone, Clean, Idle, rows
  <2> QED
    BY <1>0, <2>1, AgreedKept
<1>12. CASE Crash
  <2>1. expense' = expense /\ \A w \in Workers : ~At(w, "insert")'
    BY <1>12 DEF Crash, rows, At, Idle
  <2> QED
    BY <1>0, <2>1 DEF Agreed
<1>13. ASSUME NEW w \in Workers, Step(w) PROVE Agreed'
  BY <1>5, <1>6, <1>7, <1>8, <1>9, <1>13, InsertAgreed DEF Step
<1> QED
  BY <1>1, <1>2, <1>3, <1>10, <1>11, <1>12, <1>13, CreateAgreed DEF Next

\* The shares of every split make up its total: exactly when it is divided equally, whatever the
\* division in floating point loses, and within rounding and the tolerance of the checks otherwise.
THEOREM SharesMakeUpTheTotal == Spec => []SharesAddUp
<1>1. Init => Agreed
  BY DEF Init, Agreed, Born, NoExpense, At, Idle
<1>2. Core /\ Agreed /\ [Next]_vars => Agreed'
  BY AgreedStep
<1>3. Core /\ Agreed => SharesAddUp
  <2> SUFFICES ASSUME Core, Agreed, NEW e \in Born PROVE AddsUp(expense[e].order)
    BY DEF SharesAddUp, AddsUp, Shared
  <2>1. expense[e].order \in Orders /\ Accepted(expense[e].order)
    BY BornRow DEF Core, Agreed
  <2> QED
    BY <2>1, AcceptedAddsUp
<1> QED
  BY <1>1, <1>2, <1>3, CoreInvariant, PTL DEF Spec

-----------------------------------------------------------------------------
(* Both sides see the same balance.                                        *)

LEMMA DebtType ==
  ASSUME TypeOK, NEW u \in Users, NEW v \in Users
  PROVE  Debt(ActiveSplits, u, v) \in Int
<1> DEFINE S == OwedFor(ActiveSplits, u, v)
           f == [e \in Born |-> Owed(e, v)]
<1>1. S \subseteq Born /\ S \in SUBSET Expenses /\ IsFiniteSet(Expenses)
  <2>1. MaxExpenses \in Int /\ 1 \in Int
    BY ExpenseAssumption
  <2>2. IsFiniteSet(Expenses)
    BY <2>1, FS_Interval DEF Expenses
  <2> QED
    BY <2>2 DEF OwedFor, ActiveSplits, Born
<1>2. \A e \in S : f[e] \in Int
  BY <1>1, BornRow, SharesAssumption DEF Owed
<1>3. IsFiniteSet(S)
  BY <1>1, FS_Subset
<1> HIDE DEF S, f
<1>4. SumOver(f, S) \in Int
  BY <1>2, <1>3, SumType
<1> QED
  BY <1>4 DEF Debt, S, f

LEMMA SettlementsType ==
  ASSUME TypeOK
  PROVE  /\ IsFiniteSet(DOMAIN settlements) /\ DOMAIN settlements \subseteq Int
         /\ \A i \in DOMAIN settlements : settlements[i] \in SettlementRows
<1>1. settlements \in Seq(SettlementRows)
  BY DEF TypeOK
<1>2. DOMAIN settlements = 1..Len(settlements) /\ Len(settlements) \in Nat
  BY <1>1
<1> QED
  BY <1>1, <1>2, FS_Interval

\* Whoever has no more settlements than are read sees all of them.
LEMMA RecentIsAll ==
  ASSUME TypeOK, NEW u \in Users, Cardinality(SettlementsOf(u)) <= TakeLimit
  PROVE  Recent(u) = SettlementsOf(u)
<1>1. SettlementsOf(u) \in SUBSET DOMAIN settlements
  BY DEF SettlementsOf
<1>2. IsFiniteSet(SettlementsOf(u)) /\ SettlementsOf(u) \subseteq Int
  BY <1>1, SettlementsType, FS_Subset
<1>3. ASSUME NEW i \in SettlementsOf(u)
      PROVE  Cardinality({j \in SettlementsOf(u) : j > i}) < TakeLimit
  <2> DEFINE later == {j \in SettlementsOf(u) : j > i}
  <2>1. later \in SUBSET SettlementsOf(u) /\ later # SettlementsOf(u)
    BY <1>2, <1>3
  <2> HIDE DEF later
  <2>2. /\ Cardinality(later) <= Cardinality(SettlementsOf(u))
        /\ Cardinality(SettlementsOf(u)) # Cardinality(later)
    BY <1>2, <2>1, FS_Subset
  <2>3. IsFiniteSet(later)
    BY <1>2, <2>1, FS_Subset
  <2>4. Cardinality(later) \in Nat /\ Cardinality(SettlementsOf(u)) \in Nat
    BY <1>2, <2>3, FS_CardinalityType
  <2>5. TakeLimit \in Nat
    BY ExpenseAssumption
  <2> QED
    BY <2>2, <2>4, <2>5 DEF later
<1> QED
  BY <1>3 DEF Recent

LEMMA GivenType ==
  ASSUME TypeOK, NEW I \in SUBSET DOMAIN settlements, NEW u \in Users, NEW v \in Users
  PROVE  Given(I, u, v) \in Int
<1> DEFINE S == {i \in I : settlements[i].from = u /\ settlements[i].to = v}
           f == [i \in DOMAIN settlements |-> settlements[i].amount]
<1>1. S \in SUBSET DOMAIN settlements /\ \A i \in S : f[i] \in Int
  BY SettlementsType DEF SettlementRows
<1>2. IsFiniteSet(S)
  BY <1>1, SettlementsType, FS_Subset
<1> HIDE DEF S, f
<1>3. SumOver(f, S) \in Int
  BY <1>1, <1>2, SumType
<1> QED
  BY <1>3 DEF Given, S, f

\* What one has given the other is among the settlements of both.
LEMMA GivenIsShared ==
  ASSUME NEW u \in Users, NEW v \in Users
  PROVE  /\ Given(SettlementsOf(u), u, v) = Given(SettlementsOf(v), u, v)
         /\ Given(SettlementsOf(u), v, u) = Given(SettlementsOf(v), v, u)
<1>1. {i \in SettlementsOf(u) : settlements[i].from = u /\ settlements[i].to = v}
        = {i \in SettlementsOf(v) : settlements[i].from = u /\ settlements[i].to = v}
  BY DEF SettlementsOf
<1>2. {i \in SettlementsOf(u) : settlements[i].from = v /\ settlements[i].to = u}
        = {i \in SettlementsOf(v) : settlements[i].from = v /\ settlements[i].to = u}
  BY DEF SettlementsOf
<1> QED
  BY <1>1, <1>2 DEF Given

\* Two users whose settlements are all read see opposite balances between them.
THEOREM BalancesMirror == Spec => []BalancesAgree
<1>1. TypeOK => BalancesAgree
  <2> SUFFICES ASSUME TypeOK, NEW u \in Users, NEW v \in Users,
                      Cardinality(SettlementsOf(u)) <= TakeLimit,
                      Cardinality(SettlementsOf(v)) <= TakeLimit
               PROVE  Net(u, v) = -Net(v, u)
    BY DEF BalancesAgree
  <2>1. Recent(u) = SettlementsOf(u) /\ Recent(v) = SettlementsOf(v)
    BY RecentIsAll
  <2>2. SettlementsOf(u) \in SUBSET DOMAIN settlements
    BY DEF SettlementsOf
  <2>3. PICK a, b, c, d \in Int :
          /\ a = Debt(ActiveSplits, u, v) /\ b = Debt(ActiveSplits, v, u)
          /\ c = Given(SettlementsOf(u), u, v) /\ d = Given(SettlementsOf(u), v, u)
    BY <2>2, DebtType, GivenType
  <2>4. c = Given(SettlementsOf(v), u, v) /\ d = Given(SettlementsOf(v), v, u)
    BY <2>3, GivenIsShared
  <2>5. CASE OwedFor(ActiveSplits, u, v) \cup OwedFor(ActiveSplits, v, u) = {}
    <3>1. OwedFor(ActiveSplits, v, u) \cup OwedFor(ActiveSplits, u, v) = {}
      BY <2>5
    <3>2. PICK x, y \in Int : Net(u, v) = x /\ Net(v, u) = y /\ x + y = 0
      BY <2>5, <3>1 DEF Net
    <3>3. x = -y
      BY <3>2
    <3> QED
      BY <3>2, <3>3
  <2>6. CASE OwedFor(ActiveSplits, u, v) \cup OwedFor(ActiveSplits, v, u) # {}
    <3>1. OwedFor(ActiveSplits, v, u) \cup OwedFor(ActiveSplits, u, v) # {}
      BY <2>6
    <3>2. Net(u, v) = a - b + c - d /\ Net(v, u) = b - a + d - c
      BY <2>1, <2>3, <2>4, <2>6, <3>1 DEF Net
    <3> QED
      BY <3>2
  <2> QED
    BY <2>5, <2>6
<1> QED
  BY <1>1, TypeCorrect, PTL

=============================================================================
