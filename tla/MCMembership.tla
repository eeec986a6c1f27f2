---------------------------- MODULE MCMembership ----------------------------
(* Constants for the model checking runs of Membership.                     *)
EXTENDS Membership, TLC

CONSTANTS r1, r2, u1, u2, n1, n2, s1, s2

\* Two users, a socket each.
OneSocketEach == s1 :> u1 @@ s2 :> u2

\* Every socket is a tab of one user.
OneUser == [s \in Socket |-> u1]

\* Every socket is served by n1; or by n2, which may crash while n1 sweeps.
OneNode == [s \in Socket |-> n1]
OnN2 == [s \in Socket |-> n2]
=============================================================================
