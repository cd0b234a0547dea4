--------------------------- MODULE MCExpenseSplit ---------------------------
(***************************************************************************)
(* Instances of ExpenseSplit for TLC: the splits that users ask for.       *)
(***************************************************************************)
EXTENDS ExpenseSplit, TLC

CONSTANTS a, b, c, r1, r2

Form(type, others, payer, total, weight) ==
  [creator |-> a, others |-> others, payer |-> payer, type |-> type, total |-> total,
   weight |-> weight, slip |-> 0, ongoing |-> FALSE]
NoWeight == [u \in {a, b, c} |-> 0]

\* An equal split of three whose division is inexact (1.14 / 3 is a little less than 0.38 in
\* floating point), one of two in percent whose sum is short, an ongoing one in
\* shares, and an exact one that is refused.
SplitOrders ==
  {[Form("EQUAL", {b, c}, a, 114, NoWeight) EXCEPT !.slip = 1],
   Form("PERCENT", {b}, a, 121, a :> 500 @@ b :> 496 @@ c :> 0),
   [Form("SHARES", {b, c}, b, 110, a :> 1 @@ b :> 2 @@ c :> 0) EXCEPT !.ongoing = TRUE],
   Form("EXACT", {b}, a, 140, NoWeight)}

Symmetry == Permutations({r1, r2})

=============================================================================
