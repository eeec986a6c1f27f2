---------------------------- MODULE MCBroadcast ----------------------------
(* Constants for the model checking run of Broadcast.                       *)
EXTENDS Broadcast, TLC

CONSTANTS n1, n2, c1, c2

MCHome == c1 :> n1 @@ c2 :> n2
=============================================================================
