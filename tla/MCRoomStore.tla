---------------------------- MODULE MCRoomStore -----------------------------
(* Constants for the model checking runs of RoomStore.                      *)
EXTENDS RoomStore, TLC

CONSTANTS c1, c2, c3, r1, p1, p2, p3, p4

\* Three calls on one room from three processes; a fourth process refreshes
\* and destroys the room meanwhile.
AllOnOneRoom == [c \in Call |-> r1]
OneCallEach == c1 :> p1 @@ c2 :> p2 @@ c3 :> p3

\* Two of the calls share the process p1 and with it the connection.
TwoShareP1 == c1 :> p1 @@ c2 :> p1 @@ c3 :> p2
=============================================================================
