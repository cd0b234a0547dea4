--------------------------- MODULE MCMessageRelay ---------------------------
(* TLC instances of MessageRelay.                                          *)
EXTENDS MessageRelay, TLC

CONSTANTS m1, m2, k1, k2

\* Connections are used in no particular order and never compared.
SockSymmetry == Permutations(Socks)
=============================================================================
