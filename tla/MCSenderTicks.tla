----------------------------- MODULE MCSenderTicks -----------------------------
(***************************************************************************)
(* Instance of SenderTicks for TLC: one message, and one trouble per       *)
(* behaviour: a fault, a retry of the user, a receipt, or a saved copy and *)
(* the restart that reads it; a retry or a receipt, or the second          *)
(* connection.  When the phone knows the conversation by a local name, the *)
(* second connection comes after a restart or alone.                       *)
(***************************************************************************)
EXTENDS SenderTicks

CONSTANTS m1, k1, k2

Saved == IF saved = [m \in Msgs |-> {}] /\ restarts = 0 THEN 0 ELSE 1
Second == IF conn[k2] = "idle" THEN 0 ELSE 1
Upsets == faults + resends + Cardinality(answered)

OneTrouble ==
  /\ Upsets + Saved <= 1
  /\ resends + Cardinality(answered) + Second <= 1
  /\ room[m1] # "server" => Upsets + Second <= 1 /\ (Saved + Second = 2 => restarts = 1)

TickSpec == Init /\ [][Next /\ OneTrouble']_vars /\ Fairness

=============================================================================
