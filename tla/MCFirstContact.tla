--------------------------- MODULE MCFirstContact ---------------------------
(***************************************************************************)
(* Instances of FirstContact for TLC: who writes, and which behaviours are *)
(* followed.                                                               *)
(***************************************************************************)
EXTENDS FirstContact, TLC

CONSTANTS a, b, m1, m2

EachOther == m1 :> a @@ m2 :> b

\* Deleting a chat touches no key: it is followed without mishaps and once the phones have
\* registered.  Mishaps touch no conversation: they are followed in one that nobody raced for.
Apart == /\ deletes > 0 => mishaps = 0 /\ \A u \in Users : At(Register(u), "done")
         /\ mishaps > 0 => ~raced

=============================================================================
