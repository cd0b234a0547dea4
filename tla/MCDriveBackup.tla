---------------------------- MODULE MCDriveBackup ----------------------------
(***************************************************************************)
(* Instances of DriveBackup for TLC.                                       *)
(***************************************************************************)
EXTENDS DriveBackup, TLC

CONSTANTS m1, m2, c1, c2, user

\* Messages in conversations of their own.
TwoChats == m1 :> c1 @@ m2 :> c2

\* One contact has two conversations: the second is the server's.
OneTwin == {<<c1, c2>>}
Ages == m1 :> 2 @@ m2 :> 1

\* What the user, the server and the network do, mishaps, and messages moved: two of them, or one
\* when three backups are started.
Troubles ==
  acts + faults + Cardinality(mishaps) + Cardinality(closing)
    + Cardinality({m \in Msgs : place[m] # ChatOf[m]})
FewTroubles == Troubles <= 2 /\ Troubles + begun <= 4

=============================================================================
