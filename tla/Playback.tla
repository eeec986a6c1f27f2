------------------------------ MODULE Playback ------------------------------
(***************************************************************************)
(* The playlist and the playback timeline of one room document             *)
(* (server/realtime/services/timeline.ts, playlist-ops.ts,                 *)
(* playlist-resolve.ts, handlers/playback.ts, playlist.ts, and the part of *)
(* services/disconnect.ts that pauses a room whose file went away).        *)
(*                                                                         *)
(* One step is one committed room mutation, made by any process: each      *)
(* reads its own clock, so two mutations at the same moment may be stamped *)
(* differently by up to Skew.  The playhead is never stored: who knows     *)
(* anchor, rate and stamp computes it from the time.                       *)
(* Indexes count from zero, as in the code.                                *)
(***************************************************************************)
EXTENDS Integers, Sequences, SequencesExt

CONSTANTS Item,          \* playlist item ids, used once each
          LocalItem,     \* the items that are files shared by a participant
          User, Sharer,  \* Sharer[i] is the participant who shares file i
          NoItem,        \* no item is current
          Rate,          \* playback rates a client sends
          Position,      \* seek targets a client sends
          PlaylistLimit, \* ROOM_PLAYLIST_LIMIT
          Skew,          \* bound: how far process clocks may be apart
          MaxNow,        \* bound: the time at which the behaviour ends
          MaxClock       \* bound: the greatest stamp

ASSUME PlaybackAssumption ==
    /\ LocalItem \subseteq Item
    /\ Sharer \in [LocalItem -> User]
    /\ NoItem \notin Item
    /\ Rate \subseteq Nat \ {0} /\ 1 \in Rate
    /\ Position \subseteq Nat
    /\ PlaylistLimit \in Nat \ {0}
    /\ Skew \in Nat /\ MaxNow \in Nat /\ MaxClock \in Nat

VARIABLES
    list,    \* state.playlist, item ids
    index,   \* state.currentIndex
    status,  \* ingestStatus of the items in the list
    blocked, \* items with blockedReason local_owner_offline
    used,    \* item ids given out so far
    pb,      \* state.playback; mediaId is NoItem when undefined
    now      \* time: a process reads anything in now .. now + Skew

items == <<list, index, status, blocked, used>>
vars == <<items, pb, now>>

Status == {"none", "resolving", "ready", "error"}
PlaybackState == [paused : BOOLEAN, rate : Rate, anchor : Nat, clock : Nat,
                  media : Item \cup {NoItem}]

Reading == now..(now + Skew)

TypeOK ==
    /\ list \in Seq(Item)
    /\ index \in Nat
    /\ status \in [Item -> Status]
    /\ blocked \subseteq LocalItem
    /\ used \subseteq Item
    /\ pb \in PlaybackState
    /\ now \in Nat

\* state.playlist[state.currentIndex]?.id
MediaAt(l, k) == IF k < Len(l) THEN l[k + 1] ELSE NoItem
Current == MediaAt(list, index)

-----------------------------------------------------------------------------
(* timeline.ts                                                             *)

\* Mutant: a stamp may repeat.
nextMonotonicMsOrEqual(previous, next) ==
    IF previous > next THEN previous ELSE next

nextMonotonicMs(previous, next) ==
    IF previous + 1 > next THEN previous + 1 ELSE next

\* Mutant: a clock behind the stamp counts back.
resolveCurrentTimelineMsUnclamped(p, t) ==
    IF p.paused THEN p.anchor ELSE p.anchor + (t - p.clock) * p.rate

\* The playhead of p for somebody whose clock shows t.
resolveCurrentTimelineMs(p, t) ==
    IF p.paused \/ t <= p.clock THEN p.anchor
    ELSE p.anchor + (t - p.clock) * p.rate

Stamped(p, t) == [p EXCEPT !.clock = nextMonotonicMs(@, t)]
reanchorPlaybackAtNow(p, t) ==
    [Stamped(p, t) EXCEPT !.anchor = resolveCurrentTimelineMs(p, t)]
resetPlaybackTimeline(p, t) == [Stamped(p, t) EXCEPT !.anchor = 0]

\* Mutant: the document keeps the media id it had.
CommitUnmarked(l, k, p) ==
    /\ p.clock <= MaxClock
    /\ list' = l
    /\ index' = IF k < Len(l) THEN k ELSE IF l = <<>> THEN 0 ELSE Len(l) - 1
    /\ pb' = p
    /\ UNCHANGED now

\* What mutateRoomMessage does after the body: the index is clamped and the
\* current media id marked.
Commit(l, k, p) ==
    /\ p.clock <= MaxClock
    /\ list' = l
    /\ index' = IF k < Len(l) THEN k ELSE IF l = <<>> THEN 0 ELSE Len(l) - 1
    /\ pb' = [p EXCEPT !.media = MediaAt(l, index')]
    /\ UNCHANGED now

-----------------------------------------------------------------------------
(* A room as the first join leaves it: default, seeded or no media.        *)

Init ==
    /\ list \in {<<>>} \cup {<<i>> : i \in Item \ LocalItem}
                \cup {<<i, j>> : i \in Item \ LocalItem, j \in Item \ LocalItem}
    /\ Len(list) <= PlaylistLimit
    /\ IsInjective(list)
    /\ index = 0
    /\ used = ToSet(list)
    /\ status = [i \in Item |-> IF i \in used THEN "resolving" ELSE "none"]
    /\ blocked = {}
    /\ now = 0
    /\ \E t \in Reading :
         pb = [paused |-> list = <<>>, rate |-> 1, anchor |-> 0, clock |-> t,
               media |-> Current]

-----------------------------------------------------------------------------
(* playback:* messages.                                                    *)

Seek(p, t) ==
    /\ Commit(list, index, [Stamped(pb, t) EXCEPT !.anchor = p])
    /\ UNCHANGED <<status, blocked, used>>

\* Mutant: a pause or play keeps the old anchor.
SetPausedOnly(b, t) ==
    /\ Commit(list, index, [Stamped(pb, t) EXCEPT !.paused = b])
    /\ UNCHANGED <<status, blocked, used>>

SetPaused(b, t) ==
    /\ Commit(list, index, [reanchorPlaybackAtNow(pb, t) EXCEPT !.paused = b])
    /\ UNCHANGED <<status, blocked, used>>

SetRate(r, t) ==
    /\ Commit(list, index, [reanchorPlaybackAtNow(pb, t) EXCEPT !.rate = r])
    /\ UNCHANGED <<status, blocked, used>>

-----------------------------------------------------------------------------
(* playlist:* messages.                                                    *)

\* Mutant: selecting an item pauses the room.
SelectPauses(k, t) ==
    /\ k < Len(list)
    /\ Commit(list, k, [resetPlaybackTimeline(pb, t) EXCEPT !.paused = TRUE])
    /\ UNCHANGED <<status, blocked, used>>

Select(k, t) ==
    /\ k < Len(list)
    /\ Commit(list, k, resetPlaybackTimeline(pb, t))
    /\ UNCHANGED <<status, blocked, used>>

Added(i, st) ==
    /\ i \notin used /\ Len(list) < PlaylistLimit
    /\ status' = [status EXCEPT ![i] = st]
    /\ used' = used \cup {i}
    /\ UNCHANGED blocked

AddUrl(i) ==
    /\ i \notin LocalItem
    /\ Added(i, "resolving")
    /\ Commit(Append(list, i), index, pb)

\* The first file of an empty room starts to play.
AddLocal(i) ==
    /\ i \in LocalItem
    /\ Added(i, "ready")
    /\ IF list = <<>> THEN Commit(<<i>>, 0, [pb EXCEPT !.paused = FALSE])
       ELSE Commit(Append(list, i), index, pb)

Moved(from, to) == InsertAt(RemoveAt(list, from + 1), to + 1, list[from + 1])

\* Mutant: the index stays where it was.
ReorderKeepsIndex(from, to) ==
    /\ from < Len(list) /\ to < Len(list)
    /\ Commit(Moved(from, to), index, pb)
    /\ UNCHANGED <<status, blocked, used>>

Reorder(from, to) ==
    /\ from < Len(list) /\ to < Len(list)
    /\ \E k \in 0..(Len(list) - 1) :
         /\ Moved(from, to)[k + 1] = Current
         /\ Commit(Moved(from, to), k, pb)
    /\ UNCHANGED <<status, blocked, used>>

Forgotten(i) ==
    /\ status' = [status EXCEPT ![i] = "none"]
    /\ blocked' = blocked \ {i}
    /\ UNCHANGED used

\* Items before the current one move it down; removing the current one makes
\* its successor current, from the start; an emptied room is paused.
RemoveItem(k, t) ==
    LET l == RemoveAt(list, k + 1) IN
    /\ k < Len(list)
    /\ IF l = <<>>
       THEN Commit(l, 0, [resetPlaybackTimeline(pb, t) EXCEPT !.paused = TRUE])
       ELSE IF k < index THEN Commit(l, index - 1, pb)
       ELSE IF k = index
       THEN Commit(l, IF k < Len(l) THEN k ELSE Len(l) - 1,
                   resetPlaybackTimeline(pb, t))
       ELSE Commit(l, index, pb)
    /\ Forgotten(list[k + 1])

\* A player reports that the item at k does not play; a report of an error
\* that is known changes nothing.  If it is current, the next one is.
ItemError(k, t) ==
    /\ k < Len(list) /\ status[list[k + 1]] # "error"
    /\ status' = [status EXCEPT ![list[k + 1]] = "error"]
    /\ IF k = index /\ k + 1 < Len(list)
       THEN Commit(list, k + 1, resetPlaybackTimeline(pb, t))
       ELSE Commit(list, index, pb)
    /\ UNCHANGED <<blocked, used>>

\* A player takes its report back.  Of what is modelled here, the publication
\* of the packaged variants of a local file (local-media:abr:publish) does the
\* same to an item in error, and nothing to another one.
ItemErrorCleared(i) ==
    /\ status[i] = "error"
    /\ status' = [status EXCEPT ![i] = "ready"]
    /\ Commit(list, index, pb)
    /\ UNCHANGED <<blocked, used>>

\* The sharer holds the file again.
LocalMediaReady(i) ==
    /\ i \in LocalItem /\ (i \in blocked \/ status[i] = "error")
    /\ status' = [status EXCEPT ![i] = "ready"]
    /\ blocked' = blocked \ {i}
    /\ Commit(list, index, pb)
    /\ UNCHANGED used

-----------------------------------------------------------------------------
(* Mutations that do not come from a message.                              *)

\* commitResolvingItem: only an item that still waits is settled.
Resolved(i, outcome) ==
    /\ status[i] = "resolving"
    /\ status' = [status EXCEPT ![i] = outcome]
    /\ UNCHANGED <<list, index, blocked, used, pb, now>>

Reresolve(i) ==
    /\ i \notin LocalItem /\ status[i] \in {"ready", "error"}
    /\ status' = [status EXCEPT ![i] = "resolving"]
    /\ UNCHANGED <<list, index, blocked, used, pb, now>>

\* invalidateLocalMediaForOwner: u went offline and with it the files of u.
OwnerOffline(u, t) ==
    LET lost == {i \in (ToSet(list) \cap LocalItem) \ blocked : Sharer[i] = u} IN
    /\ lost # {}
    /\ status' = [i \in Item |-> IF i \in lost THEN "error" ELSE status[i]]
    /\ blocked' = blocked \cup lost
    /\ pb' = IF Current \in lost /\ ~pb.paused
             THEN [Stamped(pb, t) EXCEPT !.paused = TRUE] ELSE pb
    /\ pb'.clock <= MaxClock
    /\ UNCHANGED <<list, index, used, now>>

Tick ==
    /\ now < MaxNow
    /\ now' = now + 1
    /\ UNCHANGED <<items, pb>>

Places == 0..(Len(list) - 1)

Next ==
    \/ \E t \in Reading :
         \/ \E p \in Position : Seek(p, t)
         \/ \E b \in BOOLEAN : SetPaused(b, t)
         \/ \E r \in Rate : SetRate(r, t)
         \/ \E k \in Places : Select(k, t) \/ RemoveItem(k, t) \/ ItemError(k, t)
         \/ \E u \in User : OwnerOffline(u, t)
    \/ \E i \in Item :
         \/ AddUrl(i) \/ AddLocal(i) \/ ItemErrorCleared(i)
         \/ LocalMediaReady(i) \/ Reresolve(i)
         \/ \E outcome \in {"ready", "error"} : Resolved(i, outcome)
    \/ \E from \in Places, to \in Places : Reorder(from, to)
    \/ Tick

Spec == Init /\ [][Next]_vars

-----------------------------------------------------------------------------
(* Correctness.                                                            *)

\* The index stays inside the list, the list names an item once, and the
\* media id clients load is the item at the index, after every mutation and
\* not only those that mark it (timeline.ts:75, repair.ts:195-202).
MediaIsCurrent ==
    /\ IsInjective(list)
    /\ IF list = <<>> THEN index = 0 ELSE index < Len(list)
    /\ pb.media = Current

Playing == pb.media # NoItem
Moving == pb'.media # pb.media

\* One item replaced by another starts at zero, stamped later, and the room
\* goes on playing or stays paused (playlist-ops.ts:15, 111; playlist.ts:70).
SwitchRestarts ==
    [][Playing /\ Moving /\ pb'.media # NoItem =>
          /\ pb'.anchor = 0
          /\ pb'.clock > pb.clock
          /\ pb'.paused = pb.paused]_vars

\* What plays changes only because it was removed, because somebody selected
\* another item, or because it has just failed, once for each failure: never
\* because other items were added, removed, moved, resolved or failed
\* (playlist-ops.ts:25, 98, 133).
OnlyItsOwnFateSwitches ==
    [][Playing /\ Moving =>
          \/ pb.media \notin ToSet(list')
          \/ \E k \in Places, t \in Reading : Select(k, t)
          \/ status[pb.media] # "error" /\ status'[pb.media] = "error"]_vars

\* Whatever moves the playhead for anybody, or toggles pause, is stamped later
\* than what it replaces, although processes read different clocks: two
\* states of the timeline are never confused (timeline.ts:3-6).
MovesAreStamped ==
    [][Playing
       /\ (pb'.paused # pb.paused \/ Moving
           \/ \E m \in Reading : resolveCurrentTimelineMs(pb', m)
                                   # resolveCurrentTimelineMs(pb, m))
       => pb'.clock > pb.clock]_vars

Distance(a, b) == IF a > b THEN a - b ELSE b - a

\* No pause, play or rate change moves anybody's playhead by more than what the
\* clocks are apart, at the rate before or after, and not at all when they agree;
\* nothing else but a seek, a selection or an owner who leaves moves it
\* (playback.ts:55-58).
SmallJumps ==
    [][Playing /\ ~Moving
       /\ ~(\E t \in Reading :
              \/ \E p \in Position : Seek(p, t)
              \/ \E k \in Places : Select(k, t)
              \/ \E u \in User : OwnerOffline(u, t))
       => \A m \in Reading : \E r \in {pb.rate, pb'.rate} :
            Distance(resolveCurrentTimelineMs(pb', m),
                     resolveCurrentTimelineMs(pb, m))
               <= r * Skew]_vars

\* A pause freezes the playhead where it is, for whoever makes it
\* (timeline.ts:40-43: transport toggles keep continuous time).
PauseKeepsPlayhead ==
    [][Playing /\ ~Moving /\ ~pb.paused /\ pb'.paused =>
          \E t \in Reading :
             resolveCurrentTimelineMs(pb', t) = resolveCurrentTimelineMs(pb, t)]_vars
=============================================================================
