------------------------------- MODULE Mailbox -------------------------------
(***************************************************************************)
(* What the relay promises about a message, without sockets, handlers or   *)
(* retries: it is stored before anyone is told of it, and its content is   *)
(* given up only on evidence of delivery, or because nobody is left to     *)
(* deliver it to, or by the 30-day expiry.  MessageRelay implements it.    *)
(***************************************************************************)
CONSTANT Msgs

VARIABLES
  stored,     \* messages with a row
  notified,   \* messages the sender was sent an ack or a tick for
  confirmed,  \* messages with evidence of delivery
  wiped,      \* messages whose content was wiped after delivery
  expired     \* messages whose content was given up without a delivery

vars == <<stored, notified, confirmed, wiped, expired>>

Init == /\ stored = {} /\ notified = {} /\ confirmed = {}
        /\ wiped = {} /\ expired = {}

Store(m) ==
  /\ m \notin stored
  /\ stored' = stored \cup {m}
  /\ UNCHANGED <<notified, confirmed, wiped, expired>>

\* Evidence of delivery is recorded.
Confirm(m) ==
  /\ m \in stored
  /\ confirmed' = confirmed \cup {m}
  /\ UNCHANGED <<stored, notified, wiped, expired>>

\* The sender is told; the same step may record the evidence.
Notify(m) ==
  /\ m \in stored
  /\ notified' = notified \cup {m}
  /\ confirmed' \in {confirmed, confirmed \cup {m}}
  /\ UNCHANGED <<stored, wiped, expired>>

Wipe(m) ==
  /\ m \in confirmed \ expired
  /\ wiped' = wiped \cup {m}
  /\ UNCHANGED <<stored, notified, confirmed, expired>>

Expire(m) ==
  /\ m \in stored \ wiped
  /\ expired' = expired \cup {m}
  /\ UNCHANGED <<stored, notified, confirmed, wiped>>

Next == \E m \in Msgs : Store(m) \/ Confirm(m) \/ Notify(m) \/ Wipe(m) \/ Expire(m)

Spec == Init /\ [][Next]_vars
=============================================================================
