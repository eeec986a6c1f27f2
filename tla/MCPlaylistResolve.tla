------------------------- MODULE MCPlaylistResolve -------------------------
(* Constants for the model checking run of PlaylistResolve.                 *)
EXTENDS PlaylistResolve

CONSTANTS p1, p2, i1
=============================================================================
