-------------------------- MODULE MCCallSignalling --------------------------
(***************************************************************************)
(* Instances of CallSignalling for TLC: who places which call.             *)
(***************************************************************************)
EXTENDS CallSignalling

CONSTANTS a, b, c1, c2

OneCall == {<<a, c1>>}
Either == {<<a, c1>>, <<a, c2>>, <<b, c2>>}

\* Of the failures, those are followed that reject another call.
FailsAstray == fails > 0 => strays # {}

=============================================================================
