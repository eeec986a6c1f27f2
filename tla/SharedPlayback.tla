--------------------------- MODULE SharedPlayback ---------------------------
(***************************************************************************)
(* What the broadcast of a room promises its viewers: each write leaves    *)
(* the room with a playback, and each viewer shows what one of the writes  *)
(* so far has left, never what an earlier one had than the viewer has      *)
(* shown.  A viewer may skip writes and may lag behind.                    *)
(***************************************************************************)
EXTENDS Naturals, Sequences

CONSTANT Viewer

VARIABLES history,  \* history[g]: the write that set the playback g left
          shows     \* shows[v]: the write whose playback v shows; 0: none yet

svars == <<history, shows>>

SInit ==
    /\ history = <<1>>
    /\ shows \in [Viewer -> {0, 1}]

\* A write sets a playback of its own or leaves the one there is.
Write ==
    /\ \E by \in {Len(history) + 1, history[Len(history)]} :
          history' = Append(history, by)
    /\ UNCHANGED shows

\* News reaches some viewers: no news from writes that have not happened.
Show ==
    /\ shows' \in [Viewer -> 0 .. Len(history)]
    /\ \A v \in Viewer : shows'[v] >= shows[v]
    /\ UNCHANGED history

SNext == Write \/ Show

SSpec == SInit /\ [][SNext]_svars
=============================================================================
