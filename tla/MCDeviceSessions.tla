-------------------------- MODULE MCDeviceSessions --------------------------
(***************************************************************************)
(* Instance of DeviceSessions for TLC: every phone sends the number 1, as  *)
(* apiService does.                                                        *)
(***************************************************************************)
EXTENDS DeviceSessions, TLC

CONSTANTS p, q, j1, j2

AllSendOne == [x \in Phones |-> 1]
Symmetry == Permutations({j1, j2}) \cup Permutations({p, q})

=============================================================================
