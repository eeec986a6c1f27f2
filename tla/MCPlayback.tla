----------------------------- MODULE MCPlayback -----------------------------
(* Constants for the model checking runs of Playback.                       *)
EXTENDS Playback

CONSTANTS i1, i2, i3, u1

OneSharer == [i \in LocalItem |-> u1]
=============================================================================
