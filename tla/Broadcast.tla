----------------------------- MODULE Broadcast -----------------------------
(***************************************************************************)
(* How a write to the room document reaches the screens (server/realtime/  *)
(* broadcast/, redis/pubsub*.ts, handlers/mutate-room.ts and               *)
(* seek-preview.ts, join/post-commit.ts; client/realtime/room-state-       *)
(* merge.ts and room-socket/).  A process sends to its own sockets first,  *)
(* then through Redis to the other processes.  Playback goes out at once,  *)
(* the structure (playlist, participants, action log) in a snapshot that   *)
(* the process builds later from the document.                            *)
(*                                                                         *)
(* The document is its generation, which every write that matters raises.  *)
(* What a socket has in flight when it closes is lost, as if it had closed *)
(* before: a message is taken by the client in the step that sends it.     *)
(* Commands of a process and their replies are in order, so its snapshots  *)
(* leave it in the order in which it read the document for them.           *)
(***************************************************************************)
EXTENDS Integers, Sequences

CONSTANTS Node, Client,
          NoNode,      \* the client has no socket
          Room,        \* the addressee of a snapshot for every socket
          Nobody,      \* the addressee when its socket has closed
          Home,        \* Home[c]: where c is at the start, NoNode if it is not
          MayCrash,    \* the processes that may crash
          MaxEvents    \* bound: writes other than a join, seek previews, sockets
                       \* that close by themselves, and crashes

ASSUME BroadcastAssumption ==
    /\ NoNode \notin Node
    /\ Room \notin Client /\ Nobody \notin Client \cup {Room}
    /\ Home \in [Client -> Node \cup {NoNode}]
    /\ MayCrash \subseteq Node
    /\ MaxEvents \in Nat

VARIABLES
    alive,   \* the processes that have not crashed
    log,     \* log[g]: the generation that set the playback of generation g;
             \* the last one is the document's
    act,     \* act[c]: the control message of c that is being handled
    dirty,   \* dirty[n]: a snapshot timer of n runs
    hash,    \* hash[n]: whose structure n has published last; 0: none
    builds,  \* builds[n]: the snapshots n has read the document for
    inbox,   \* inbox[n]: what Redis has for the subscriber of n
    cached,  \* cached[n]: the generation of n's controlProjection; 0: none
    conn,    \* conn[c]: the process that has the socket of c
    got,     \* the clients with a state since they connected
    view,    \* view[c]: what c shows
    lost,    \* a process died with all it had to publish and no client
    events   \* bounded events so far

nodeVars == <<dirty, hash, builds, inbox, cached>>
clientVars == <<conn, got, view>>
vars == <<alive, log, act, nodeVars, clientVars, lost, events>>

Message == [type : {"control", "snapshot"}, gen : Nat, from : Node]
Build == [to : Client \cup {Room, Nobody}, gen : Nat, hash : Nat]
\* The process that is to publish the control of a committed generation.
Action == [node : Node \cup {NoNode}, gen : Nat]
Idle == [node |-> NoNode, gen |-> 0]

\* gen 0 is roomState = null.
View == [gen : Nat, play : Nat, struct : Nat]
ViewOf(g) == [gen |-> g, play |-> g, struct |-> g]
NoView == ViewOf(0)

TypeOK ==
    /\ alive \subseteq Node
    /\ log \in Seq(Nat)
    /\ act \in [Client -> Action]
    /\ dirty \in [Node -> BOOLEAN]
    /\ hash \in [Node -> Nat]
    /\ builds \in [Node -> Seq(Build)]
    /\ inbox \in [Node -> Seq(Message)]
    /\ cached \in [Node -> Nat]
    /\ conn \in [Client -> Node \cup {NoNode}]
    /\ got \subseteq Client
    /\ view \in [Client -> View]
    /\ lost \in BOOLEAN
    /\ events \in Nat

\* A room at rest: who is in it shows the document, which every process has
\* published after a write of its own.
Init ==
    /\ alive = Node
    /\ log = <<1>>
    /\ act = [c \in Client |-> Idle]
    /\ dirty = [n \in Node |-> FALSE]
    /\ hash = [n \in Node |-> 1]
    /\ builds = [n \in Node |-> <<>>]
    /\ inbox = [n \in Node |-> <<>>]
    /\ cached = [n \in Node |-> 0]
    /\ conn = Home
    /\ got = {c \in Client : Home[c] # NoNode}
    /\ view = [c \in Client |-> IF c \in got THEN ViewOf(1) ELSE NoView]
    /\ lost = FALSE
    /\ events = 0

Gen == Len(log)

-----------------------------------------------------------------------------
(* The client: room-state-merge.ts.                                        *)

\* Mutant: the last control to arrive wins.
ApplyAnyControl(v, g) == [v EXCEPT !.gen = g, !.play = g]

\* A control of an older generation is dropped.
applyRoomControl(v, g) ==
    IF g < v.gen THEN v ELSE [v EXCEPT !.gen = g, !.play = g]

\* Mutant: the generation is the newest, the playback the latest to arrive.
ApplyWholeSnapshot(v, g) ==
    [gen |-> IF g > v.gen THEN g ELSE v.gen, play |-> g, struct |-> g]

\* The structure is always the snapshot's, the playback only if it is not of
\* an older generation.
applyRoomSnapshot(v, g) ==
    IF g >= v.gen THEN ViewOf(g)
    ELSE [v EXCEPT !.struct = g]

\* A socket admits its client with the first snapshot; controls before it are
\* ignored.
Receive(C, type, g) ==
    LET takes == IF type = "snapshot" THEN C ELSE C \cap got
        merge(v) == IF type = "snapshot" THEN applyRoomSnapshot(v, g)
                    ELSE applyRoomControl(v, g)
    IN /\ view' = [c \in Client |-> IF c \in takes THEN merge(view[c]) ELSE view[c]]
       /\ got' = got \cup takes

-----------------------------------------------------------------------------
(* The bus of a process.                                                   *)

SocketsOf(n) == {c \in Client : conn[c] = n}

\* publishTyped: the sockets of n, then PUBLISH.  The subscriber of n skips
\* what n sent.
Publish(n, type, g) ==
    /\ Receive(SocketsOf(n), type, g)
    /\ inbox' = [m \in Node |->
            IF m \in alive \ {n}
            THEN Append(inbox[m], [type |-> type, gen |-> g, from |-> n])
            ELSE inbox[m]]

\* fanOutFromPubSub.
Deliver(n) ==
    /\ n \in alive
    /\ inbox[n] # <<>>
    /\ inbox' = [inbox EXCEPT ![n] = Tail(@)]
    /\ Receive(SocketsOf(n), Head(inbox[n]).type, Head(inbox[n]).gen)
    /\ UNCHANGED <<alive, log, act, dirty, hash, builds, cached, conn,
                   lost, events>>

\* markSnapshotDirty and markActionLogDirty differ in their delay.
MarkDirty(n) == dirty' = [dirty EXCEPT ![n] = TRUE]

\* flushSnapshot up to its read of the document.  What is marked from now on
\* starts a timer of its own, so that flushes overlap; each compares with the
\* hash that it found when it started.
FlushSnapshot(n) ==
    /\ n \in alive
    /\ dirty[n]
    /\ dirty' = [dirty EXCEPT ![n] = FALSE]
    /\ builds' = [builds EXCEPT ![n] = Append(@,
            [to |-> Room, gen |-> Gen, hash |-> hash[n]])]
    /\ UNCHANGED <<alive, log, act, hash, inbox, cached, clientVars, lost, events>>

NextBuild(n) == Head(builds[n])
Built(n) == n \in alive /\ builds[n] # <<>> /\ builds' = [builds EXCEPT ![n] = Tail(@)]

\* Unless the structure is what n had published last.
PublishNew(n, b) ==
    /\ IF b.gen = b.hash THEN UNCHANGED <<inbox, view, got>>
       ELSE Publish(n, "snapshot", b.gen)
    /\ hash' = [hash EXCEPT ![n] = b.gen]

\* Mutant: the dirty flag is cleared when the snapshot is out.
PublishAndClear(n) ==
    /\ Built(n)
    /\ NextBuild(n).to = Room
    /\ PublishNew(n, NextBuild(n))
    /\ dirty' = [dirty EXCEPT ![n] = FALSE]
    /\ UNCHANGED <<alive, log, act, cached, conn, lost, events>>

\* The rest of flushSnapshot.
PublishSnapshot(n) ==
    /\ Built(n)
    /\ NextBuild(n).to = Room
    /\ PublishNew(n, NextBuild(n))
    /\ UNCHANGED <<alive, log, act, dirty, cached, conn, lost, events>>

\* Mutant: the joiner's snapshot is deduplicated like those of the room.
SendUnlessPublished(n) ==
    /\ Built(n)
    /\ NextBuild(n).to # Room
    /\ IF NextBuild(n).to = Nobody \/ NextBuild(n).gen = hash[n]
       THEN UNCHANGED <<view, got>>
       ELSE Receive({NextBuild(n).to}, "snapshot", NextBuild(n).gen)
    /\ UNCHANGED <<alive, log, act, dirty, hash, inbox, cached, conn,
                   lost, events>>

\* sendToSocket with the joiner's snapshot.
SendToJoiner(n) ==
    /\ Built(n)
    /\ NextBuild(n).to # Room
    /\ IF NextBuild(n).to = Nobody THEN UNCHANGED <<view, got>>
       ELSE Receive({NextBuild(n).to}, "snapshot", NextBuild(n).gen)
    /\ UNCHANGED <<alive, log, act, dirty, hash, inbox, cached, conn,
                   lost, events>>

-----------------------------------------------------------------------------
(* Writes to the document.                                                 *)

\* Every write raises the generation and changes the structure, that of a
\* control by its entry in the action log.
Written(play) == log' = Append(log, IF play THEN Gen + 1 ELSE log[Gen])

Counted == events < MaxEvents /\ events' = events + 1

\* Mutant: a control goes out although the update of the document failed.
PublishUncommitted(c) ==
    /\ conn[c] # NoNode
    /\ act[c] = Idle
    /\ Counted
    /\ Written(TRUE) \/ UNCHANGED log
    /\ act' = [act EXCEPT ![c] = [node |-> conn[c], gen |-> Gen + 1]]
    /\ UNCHANGED <<alive, nodeVars, clientVars, lost>>

\* mutateRoomMessage commits a control.
mutateRoomMessage(c) ==
    /\ conn[c] # NoNode
    /\ act[c] = Idle
    /\ Counted
    /\ Written(TRUE)
    /\ act' = [act EXCEPT ![c] = [node |-> conn[c], gen |-> Gen + 1]]
    /\ UNCHANGED <<alive, nodeVars, clientVars, lost>>

\* publishAfterMutation of a control.  publishControl remembers what it
\* publishes, also when another has published a newer generation in between.
publishControl(c) ==
    /\ act[c] # Idle
    /\ LET n == act[c].node
       IN /\ cached' = [cached EXCEPT ![n] = act[c].gen]
          /\ Publish(n, "control", act[c].gen)
          /\ MarkDirty(n)
    /\ act' = [act EXCEPT ![c] = Idle]
    /\ UNCHANGED <<alive, log, hash, builds, conn, lost, events>>

\* A write that only marks the snapshot, which may set the current media: the
\* other messages, the sweep, the prune, a resolve, the disconnect handler.
WriteSnapshot(n) ==
    /\ n \in alive
    /\ Counted
    /\ \E play \in BOOLEAN : Written(play)
    /\ MarkDirty(n)
    /\ UNCHANGED <<alive, act, hash, builds, inbox, cached, clientVars, lost>>

\* A seek preview of a controller goes out on the projection of its process,
\* or on the document if there is none.
SeekPreview(c) ==
    /\ conn[c] # NoNode
    /\ Counted
    /\ LET n == conn[c]
           g == IF cached[n] # 0 THEN cached[n] ELSE Gen
       IN /\ cached' = [cached EXCEPT ![n] = g]
          /\ Publish(n, "control", g)
    /\ UNCHANGED <<alive, log, act, dirty, hash, builds, conn, lost>>

-----------------------------------------------------------------------------
(* Sockets.                                                                *)

\* connect, the commit of the join and runJoinPostCommit: the socket is
\* registered, the snapshot marked, and the document read for the joiner.  The
\* commit of a user who was there already keeps the generation; what it writes
\* under it (repair, roles, who else is connected) is left out.
Connect(c, n) ==
    /\ conn[c] = NoNode
    /\ n \in alive
    /\ conn' = [conn EXCEPT ![c] = n]
    /\ \/ Written(FALSE)
       \/ view[c].gen # 0 /\ UNCHANGED log
    /\ MarkDirty(n)
    /\ builds' = [builds EXCEPT ![n] = Append(@,
            [to |-> c, gen |-> Len(log'), hash |-> 0])]
    /\ UNCHANGED <<alive, act, hash, inbox, cached, got, view, lost, events>>

\* The sockets of the clients in C close.  They keep what they show.
Closed(C) ==
    /\ conn' = [c \in Client |-> IF c \in C THEN NoNode ELSE conn[c]]
    /\ got' = got \ C

Disconnect(c) ==
    /\ conn[c] # NoNode
    /\ Counted
    /\ Closed({c})
    /\ builds' = [n \in Node |-> [i \in DOMAIN builds[n] |->
            [builds[n][i] EXCEPT !.to = IF @ = c THEN Nobody ELSE @]]]
    /\ UNCHANGED <<alive, log, act, dirty, hash, inbox, cached, view, lost>>

Unpublished(n) ==
    dirty[n] \/ builds[n] # <<>> \/ \E c \in Client : act[c].node = n

\* What n still had to publish goes with it.  Its clients come back elsewhere
\* and bring on a snapshot by their joins; if it has none, nobody does.
Crash(n) ==
    /\ n \in MayCrash \cap alive
    /\ Counted
    /\ alive' = alive \ {n}
    /\ lost' = (lost \/ (SocketsOf(n) = {} /\ Unpublished(n)))
    /\ Closed(SocketsOf(n))
    /\ act' = [c \in Client |-> IF act[c].node = n THEN Idle ELSE act[c]]
    /\ dirty' = [dirty EXCEPT ![n] = FALSE]
    /\ hash' = [hash EXCEPT ![n] = 0]
    /\ builds' = [builds EXCEPT ![n] = <<>>]
    /\ inbox' = [inbox EXCEPT ![n] = <<>>]
    /\ cached' = [cached EXCEPT ![n] = 0]
    /\ UNCHANGED <<log, view>>

NodeStep(n) == Deliver(n) \/ FlushSnapshot(n) \/ PublishSnapshot(n) \/ SendToJoiner(n)
Reconnect(c) == \E n \in Node : Connect(c, n)

Next ==
    \/ \E n \in Node : NodeStep(n) \/ WriteSnapshot(n) \/ Crash(n)
    \/ \E c \in Client :
        \/ publishControl(c) \/ Reconnect(c)
        \/ mutateRoomMessage(c) \/ SeekPreview(c) \/ Disconnect(c)

Spec == Init /\ [][Next]_vars

\* A living process runs its timers, its subscriber and the messages it has
\* taken, and a client that lost its socket connects again.
FairSpec ==
    /\ Spec
    /\ \A n \in Node :
        /\ WF_vars(Deliver(n)) /\ WF_vars(FlushSnapshot(n))
        /\ WF_vars(PublishSnapshot(n) \/ SendToJoiner(n))
    /\ \A c \in Client : WF_vars(publishControl(c)) /\ WF_vars(Reconnect(c))

-----------------------------------------------------------------------------
(* Properties                                                              *)

\* What a client shows is the playback of the generation it says it has: its
\* gates, and the seek previews of its process, go by that number.
PlaybackOfGeneration == \A c \in Client : view[c].play = view[c].gen

\* A client never goes back to an older playback, by whatever way and however
\* late a control or a snapshot of it arrives.
PlaybackNeverGoesBack ==
    [][\A c \in Client : view'[c].play >= view[c].play]_vars

\* All that messages, snapshots, caches and previews do to the playback of the
\* clients is to bring them, each in its own time, forward to what a committed
\* write has left: SharedPlayback (room-state-merge.ts:65, 194).  In particular
\* no client shows the playback of a generation that nobody has committed.
SP == INSTANCE SharedPlayback WITH
        Viewer <- Client,
        history <- log,
        shows <- [c \in Client |-> view[c].play]
ImplementsSharedPlayback == SP!SSpec

\* Once nobody writes any more every client shows the playback of the document,
\* across processes, reconnects and the death of the process that wrote.
PlaybackConverges ==
    [](~lost) => <>[](\A c \in Client :
        view[c].gen # 0 /\ log[view[c].play] = log[Gen])

\* Of which generations n has snapshots for the room under way: read, or sent
\* and not delivered.
UnderWay(n) ==
    {g \in 1..Gen :
        \/ \E i \in DOMAIN builds[n] : builds[n][i].to = Room /\ builds[n][i].gen = g
        \/ \E m \in Node : \E i \in DOMAIN inbox[m] :
              inbox[m][i] = [type |-> "snapshot", gen |-> g, from |-> n]}

\* Two processes have snapshots of different generations under way.
SnapshotsCross ==
    \E m, n \in Node : m # n /\ \E g \in UnderWay(m), h \in UnderWay(n) : g # h

\* Once nobody writes any more every client shows the structure of the
\* document, provided that no snapshots of different generations cross: a client
\* takes the structure of the later arrival.  Two processes that publish the
\* same generation at the same time do no harm.
StructureConverges ==
    []~(lost \/ SnapshotsCross) => <>[](\A c \in Client :
        view[c].gen # 0 /\ view[c].struct = Gen)
=============================================================================
