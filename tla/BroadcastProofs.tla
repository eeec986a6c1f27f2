-------------------------- MODULE BroadcastProofs --------------------------
(***************************************************************************)
(* Proofs about Broadcast: types, the playback a generation stands for,    *)
(* that no client goes back to an older playback, and that the clients see *)
(* one shared history of playbacks (SharedPlayback).                       *)
(***************************************************************************)
EXTENDS Broadcast, SequenceTheorems, TLAPS

IInv == TypeOK /\ log # <<>> /\ PlaybackOfGeneration

\* No client goes back in this step.
Forward == \A c \in Client : view'[c].play >= view[c].play

-----------------------------------------------------------------------------
(* What a client makes of a message.                                       *)

\* The merges keep playback and generation together and lose no generation.
LEMMA MergesForward ==
    ASSUME NEW v \in View, v.play = v.gen, NEW g \in Nat
    PROVE  /\ applyRoomControl(v, g) \in View
           /\ applyRoomControl(v, g).play = applyRoomControl(v, g).gen
           /\ applyRoomControl(v, g).play >= v.play
           /\ applyRoomSnapshot(v, g) \in View
           /\ applyRoomSnapshot(v, g).play = applyRoomSnapshot(v, g).gen
           /\ applyRoomSnapshot(v, g).play >= v.play
<1>1. v.gen \in Nat /\ v.play \in Nat /\ v.struct \in Nat  BY DEF View
<1>2. /\ [v EXCEPT !.struct = g] \in View
      /\ [v EXCEPT !.struct = g].play = v.play
      /\ [v EXCEPT !.struct = g].gen = v.gen
  BY DEF View
<1>3. /\ [v EXCEPT !.gen = g, !.play = g] \in View
      /\ [v EXCEPT !.gen = g, !.play = g].play = g
      /\ [v EXCEPT !.gen = g, !.play = g].gen = g
  BY DEF View
<1>4. ViewOf(g) \in View /\ ViewOf(g).play = g /\ ViewOf(g).gen = g
  BY DEF View, ViewOf
<1>5. CASE g < v.gen
  <2>1. applyRoomControl(v, g) = v  BY <1>5 DEF applyRoomControl
  <2>2. applyRoomSnapshot(v, g) = [v EXCEPT !.struct = g]
    BY <1>1, <1>5 DEF applyRoomSnapshot
  <2> QED  BY <1>1, <1>2, <2>1, <2>2
<1>6. CASE g >= v.gen
  <2>1. applyRoomControl(v, g) = [v EXCEPT !.gen = g, !.play = g]
    BY <1>1, <1>6 DEF applyRoomControl
  <2>2. applyRoomSnapshot(v, g) = ViewOf(g)
    BY <1>6 DEF applyRoomSnapshot
  <2> QED  BY <1>1, <1>3, <1>4, <1>6, <2>1, <2>2
<1> QED  BY <1>1, <1>5, <1>6

\* Whichever clients a message reaches, in whatever order messages come.
LEMMA ReceiveForward ==
    ASSUME IInv, NEW C \in SUBSET Client, NEW type, NEW g \in Nat,
           Receive(C, type, g)
    PROVE  /\ view' \in [Client -> View]
           /\ got' \subseteq Client
           /\ PlaybackOfGeneration'
           /\ Forward
<1> DEFINE takes == IF type = "snapshot" THEN C ELSE C \cap got
           merge(v) == IF type = "snapshot" THEN applyRoomSnapshot(v, g)
                       ELSE applyRoomControl(v, g)
<1>1. /\ view' = [c \in Client |-> IF c \in takes THEN merge(view[c]) ELSE view[c]]
      /\ got' = got \cup takes
  BY DEF Receive
<1>2. ASSUME NEW c \in Client
      PROVE  /\ merge(view[c]) \in View
             /\ merge(view[c]).play = merge(view[c]).gen
             /\ merge(view[c]).play >= view[c].play
             /\ view[c] \in View
             /\ view[c].play = view[c].gen
             /\ view[c].play >= view[c].play
  <2>1. view[c] \in View /\ view[c].play = view[c].gen
    BY DEF IInv, TypeOK, PlaybackOfGeneration
  <2>2. view[c].play >= view[c].play  BY <2>1 DEF View
  <2> QED  BY <2>1, <2>2, MergesForward
<1>3. takes \subseteq Client  OBVIOUS
<1>4. got' \subseteq Client  BY <1>1, <1>3 DEF IInv, TypeOK
<1> HIDE DEF takes, merge
<1>5. view' \in [Client -> View]  BY <1>1, <1>2
<1>6. PlaybackOfGeneration'  BY <1>1, <1>2 DEF PlaybackOfGeneration
<1>7. Forward  BY <1>1, <1>2 DEF Forward
<1> QED  BY <1>4, <1>5, <1>6, <1>7

\* A step that touches no view.
LEMMA ViewsStay ==
    ASSUME IInv, UNCHANGED view
    PROVE  PlaybackOfGeneration' /\ Forward
<1>1. \A c \in Client : view[c].play \in Nat  BY DEF IInv, TypeOK, View
<1> QED  BY <1>1 DEF IInv, PlaybackOfGeneration, Forward

-----------------------------------------------------------------------------
(* The sequences.                                                          *)

LEMMA PublishTyped ==
    ASSUME IInv, NEW n \in Node, NEW type \in {"control", "snapshot"},
           NEW g \in Nat, Publish(n, type, g)
    PROVE  /\ view' \in [Client -> View]
           /\ got' \subseteq Client
           /\ inbox' \in [Node -> Seq(Message)]
           /\ PlaybackOfGeneration'
           /\ Forward
<1>1. SocketsOf(n) \in SUBSET Client  BY DEF SocketsOf
<1>2. [type |-> type, gen |-> g, from |-> n] \in Message  BY DEF Message
<1>3. ASSUME NEW m \in Node
      PROVE  /\ inbox[m] \in Seq(Message)
             /\ Append(inbox[m], [type |-> type, gen |-> g, from |-> n]) \in Seq(Message)
  <2>1. inbox[m] \in Seq(Message)  BY DEF IInv, TypeOK
  <2> QED  BY <1>2, <2>1, AppendProperties
<1>4. inbox' \in [Node -> Seq(Message)]  BY <1>3 DEF Publish
<1> QED  BY <1>1, <1>4, ReceiveForward DEF Publish

LEMMA DocTyped ==
    ASSUME IInv
    PROVE  Gen \in Nat /\ Gen >= 1 /\ log[Gen] \in Nat
<1>1. log \in Seq(Nat) /\ log # <<>>  BY DEF IInv, TypeOK
<1>2. Len(log) \in Nat /\ Len(log) >= 1  BY <1>1, EmptySeq, LenProperties
<1>3. log[Len(log)] \in Nat  BY <1>1, <1>2, ElementOfSeq
<1> QED  BY <1>2, <1>3 DEF Gen

LEMMA WrittenTyped ==
    ASSUME IInv, NEW play \in BOOLEAN, Written(play)
    PROVE  log' \in Seq(Nat) /\ log' # <<>>
<1>1. (IF play THEN Gen + 1 ELSE log[Gen]) \in Nat  BY DocTyped
<1>2. log \in Seq(Nat)  BY DEF IInv, TypeOK
<1> QED  BY <1>1, <1>2, AppendProperties DEF Written

LEMMA BuildsTyped ==
    ASSUME IInv, NEW n \in Node, NEW r \in Client \cup {Room}, NEW g \in Nat,
           NEW h \in Nat,
           builds' = [builds EXCEPT ![n] =
                         Append(@, [to |-> r, gen |-> g, hash |-> h])]
    PROVE  builds' \in [Node -> Seq(Build)]
<1>1. [to |-> r, gen |-> g, hash |-> h] \in Build  BY DEF Build
<1>2. builds[n] \in Seq(Build)  BY DEF IInv, TypeOK
<1>3. Append(builds[n], [to |-> r, gen |-> g, hash |-> h]) \in Seq(Build)
  BY <1>1, <1>2, AppendProperties
<1> QED  BY <1>3 DEF IInv, TypeOK

LEMMA BuiltTyped ==
    ASSUME IInv, NEW n \in Node, Built(n)
    PROVE  builds' \in [Node -> Seq(Build)] /\ NextBuild(n) \in Build
<1>1. builds[n] \in Seq(Build) /\ builds[n] # <<>>  BY DEF IInv, TypeOK, Built
<1>2. Tail(builds[n]) \in Seq(Build) /\ Head(builds[n]) \in Build
  BY <1>1, HeadTailProperties
<1> QED  BY <1>2 DEF IInv, TypeOK, Built, NextBuild

-----------------------------------------------------------------------------
(* One lemma per action: the invariant, and no client goes back.           *)

LEMMA InitIInv == Init => IInv
<1> SUFFICES ASSUME Init PROVE IInv  OBVIOUS
<1> USE BroadcastAssumption DEF Init
<1>1. log \in Seq(Nat) /\ log # <<>>  OBVIOUS
<1>2. builds \in [Node -> Seq(Build)] /\ inbox \in [Node -> Seq(Message)]
  BY EmptySeq
<1>3. act \in [Client -> Action]  BY DEF Action, Idle
<1>4. view \in [Client -> View]  BY DEF View, ViewOf, NoView
<1>5. TypeOK  BY <1>1, <1>2, <1>3, <1>4 DEF TypeOK
<1>6. PlaybackOfGeneration  BY DEF PlaybackOfGeneration, ViewOf, NoView
<1> QED  BY <1>1, <1>5, <1>6 DEF IInv

LEMMA DeliverForward ==
    ASSUME IInv, NEW n \in Node, Deliver(n) PROVE IInv' /\ Forward
<1> USE DEF Deliver
<1>1. inbox[n] \in Seq(Message) /\ inbox[n] # <<>>  BY DEF IInv, TypeOK
<1>2. Head(inbox[n]) \in Message /\ Tail(inbox[n]) \in Seq(Message)
  BY <1>1, HeadTailProperties
<1>3. inbox' \in [Node -> Seq(Message)]  BY <1>2 DEF IInv, TypeOK
<1>4. SocketsOf(n) \in SUBSET Client /\ Head(inbox[n]).gen \in Nat
  BY <1>2 DEF SocketsOf, Message
<1>5. /\ view' \in [Client -> View] /\ got' \subseteq Client
      /\ PlaybackOfGeneration' /\ Forward
  BY <1>4, ReceiveForward
<1>6. TypeOK'  BY <1>3, <1>5 DEF IInv, TypeOK
<1> QED  BY <1>5, <1>6 DEF IInv

LEMMA FlushForward ==
    ASSUME IInv, NEW n \in Node, FlushSnapshot(n) PROVE IInv' /\ Forward
<1> USE DEF FlushSnapshot, clientVars
<1>1. hash[n] \in Nat  BY DEF IInv, TypeOK
<1>2. builds' \in [Node -> Seq(Build)]  BY <1>1, DocTyped, BuildsTyped
<1>3. TypeOK'  BY <1>2 DEF IInv, TypeOK
<1> QED  BY <1>3, ViewsStay DEF IInv

LEMMA PublishSnapshotForward ==
    ASSUME IInv, NEW n \in Node, PublishSnapshot(n) PROVE IInv' /\ Forward
<1> USE DEF PublishSnapshot
<1> DEFINE b == NextBuild(n)
<1>1. builds' \in [Node -> Seq(Build)] /\ b \in Build  BY BuiltTyped
<1>2. b.gen \in Nat  BY <1>1 DEF Build
<1>3. PublishNew(n, b)  OBVIOUS
<1> HIDE DEF b
<1>4. hash' \in [Node -> Nat]  BY <1>2, <1>3 DEF PublishNew, IInv, TypeOK
<1>5. CASE b.gen = b.hash
  <2>1. UNCHANGED <<inbox, view, got>>  BY <1>3, <1>5 DEF PublishNew
  <2>2. TypeOK'  BY <1>1, <1>4, <2>1 DEF IInv, TypeOK
  <2> QED  BY <2>1, <2>2, ViewsStay DEF IInv
<1>6. CASE b.gen # b.hash
  <2>1. Publish(n, "snapshot", b.gen)  BY <1>3, <1>6 DEF PublishNew
  <2>2. /\ view' \in [Client -> View] /\ got' \subseteq Client
        /\ inbox' \in [Node -> Seq(Message)]
        /\ PlaybackOfGeneration' /\ Forward
    BY <1>2, <2>1, PublishTyped
  <2>3. TypeOK'  BY <1>1, <1>4, <2>2 DEF IInv, TypeOK
  <2> QED  BY <2>2, <2>3 DEF IInv
<1> QED  BY <1>5, <1>6

LEMMA SendToJoinerForward ==
    ASSUME IInv, NEW n \in Node, SendToJoiner(n) PROVE IInv' /\ Forward
<1> USE DEF SendToJoiner
<1>1. builds' \in [Node -> Seq(Build)] /\ NextBuild(n) \in Build  BY BuiltTyped
<1>2. CASE NextBuild(n).to = Nobody
  <2>1. TypeOK'  BY <1>1, <1>2 DEF IInv, TypeOK
  <2> QED  BY <1>2, <2>1, ViewsStay DEF IInv
<1>3. CASE NextBuild(n).to # Nobody
  <2>1. NextBuild(n).to \in Client /\ NextBuild(n).gen \in Nat
    BY <1>1, <1>3 DEF Build
  <2>2. Receive({NextBuild(n).to}, "snapshot", NextBuild(n).gen)  BY <1>3
  <2>3. /\ view' \in [Client -> View] /\ got' \subseteq Client
        /\ PlaybackOfGeneration' /\ Forward
    BY <2>1, <2>2, ReceiveForward
  <2>4. TypeOK'  BY <1>1, <2>3 DEF IInv, TypeOK
  <2> QED  BY <2>3, <2>4 DEF IInv
<1> QED  BY <1>2, <1>3

LEMMA MutateForward ==
    ASSUME IInv, NEW c \in Client, mutateRoomMessage(c) PROVE IInv' /\ Forward
<1> USE DEF mutateRoomMessage, nodeVars, clientVars, Counted
<1>1. log' \in Seq(Nat) /\ log' # <<>>  BY WrittenTyped
<1>2. [node |-> conn[c], gen |-> Gen + 1] \in Action
  <2>1. Gen + 1 \in Nat  BY DocTyped
  <2> QED  BY <2>1 DEF IInv, TypeOK, Action
<1>3. events' \in Nat  BY DEF IInv, TypeOK
<1>4. TypeOK'  BY <1>1, <1>2, <1>3 DEF IInv, TypeOK
<1> QED  BY <1>1, <1>4, ViewsStay DEF IInv

LEMMA PublishControlForward ==
    ASSUME IInv, NEW c \in Client, publishControl(c), act[c].node \in Node
    PROVE  IInv' /\ Forward
<1> USE DEF publishControl, MarkDirty
<1>1. act[c].gen \in Nat  BY DEF IInv, TypeOK, Action
<1>2. /\ view' \in [Client -> View] /\ got' \subseteq Client
      /\ inbox' \in [Node -> Seq(Message)]
      /\ PlaybackOfGeneration' /\ Forward
  BY <1>1, PublishTyped
<1>3. Idle \in Action  BY DEF Idle, Action
<1>4. TypeOK'  BY <1>1, <1>2, <1>3 DEF IInv, TypeOK
<1> QED  BY <1>2, <1>4 DEF IInv

LEMMA WriteSnapshotForward ==
    ASSUME IInv, NEW n \in Node, WriteSnapshot(n) PROVE IInv' /\ Forward
<1> USE DEF WriteSnapshot, MarkDirty, clientVars, Counted
<1>1. log' \in Seq(Nat) /\ log' # <<>>  BY WrittenTyped
<1>2. events' \in Nat  BY DEF IInv, TypeOK
<1>3. TypeOK'  BY <1>1, <1>2 DEF IInv, TypeOK
<1> QED  BY <1>1, <1>3, ViewsStay DEF IInv

LEMMA SeekPreviewForward ==
    ASSUME IInv, NEW c \in Client, SeekPreview(c) PROVE IInv' /\ Forward
<1> USE DEF SeekPreview, Counted
<1> DEFINE n == conn[c]
           g == IF cached[n] # 0 THEN cached[n] ELSE Gen
<1>1. n \in Node  BY DEF IInv, TypeOK
<1>2. g \in Nat  BY <1>1, DocTyped DEF IInv, TypeOK
<1>3. cached' = [cached EXCEPT ![n] = g] /\ Publish(n, "control", g)  OBVIOUS
<1> HIDE DEF n, g
<1>4. /\ view' \in [Client -> View] /\ got' \subseteq Client
      /\ inbox' \in [Node -> Seq(Message)]
      /\ PlaybackOfGeneration' /\ Forward
  BY <1>1, <1>2, <1>3, PublishTyped
<1>5. events' \in Nat  BY DEF IInv, TypeOK
<1>6. cached' \in [Node -> Nat]  BY <1>2, <1>3 DEF IInv, TypeOK
<1>7. UNCHANGED <<alive, log, act, dirty, hash, builds, conn, lost>>  OBVIOUS
<1> HIDE DEF SeekPreview, Counted
<1>8. TypeOK'  BY <1>4, <1>5, <1>6, <1>7 DEF IInv, TypeOK
<1> QED  BY <1>4, <1>7, <1>8 DEF IInv

LEMMA ConnectForward ==
    ASSUME IInv, NEW c \in Client, NEW n \in Node, Connect(c, n)
    PROVE  IInv' /\ Forward
<1> USE DEF Connect, MarkDirty
<1>1. log' \in Seq(Nat) /\ log' # <<>>
  <2>1. CASE Written(FALSE)  BY <2>1, WrittenTyped
  <2>2. CASE UNCHANGED log  BY <2>2 DEF IInv, TypeOK
  <2> QED  BY <2>1, <2>2
<1>2. Len(log') \in Nat  BY <1>1, LenProperties
<1>3. builds' \in [Node -> Seq(Build)]  BY <1>2, BuildsTyped
<1>4. TypeOK'  BY <1>1, <1>3 DEF IInv, TypeOK
<1> QED  BY <1>1, <1>4, ViewsStay DEF IInv

LEMMA DisconnectForward ==
    ASSUME IInv, NEW c \in Client, Disconnect(c) PROVE IInv' /\ Forward
<1> USE DEF Disconnect, Closed, Counted
<1>1. ASSUME NEW n \in Node
      PROVE  [i \in DOMAIN builds[n] |->
                [builds[n][i] EXCEPT !.to = IF @ = c THEN Nobody ELSE @]]
               \in Seq(Build)
  <2>1. builds[n] \in Seq(Build)  BY DEF IInv, TypeOK
  <2>2. /\ Len(builds[n]) \in Nat
        /\ DOMAIN builds[n] = 1..Len(builds[n])
        /\ \A i \in 1..Len(builds[n]) : builds[n][i] \in Build
    BY <2>1, LenProperties, ElementOfSeq
  <2>3. \A i \in 1..Len(builds[n]) :
          [builds[n][i] EXCEPT !.to = IF @ = c THEN Nobody ELSE @] \in Build
    BY <2>2 DEF Build
  <2> QED  BY <2>2, <2>3, SeqDef
<1>2. builds' \in [Node -> Seq(Build)]  BY <1>1
<1>3. /\ conn' \in [Client -> Node \cup {NoNode}]
      /\ got' \subseteq Client /\ events' \in Nat
  BY DEF IInv, TypeOK
<1>4. TypeOK'  BY <1>2, <1>3 DEF IInv, TypeOK
<1> QED  BY <1>4, ViewsStay DEF IInv

LEMMA CrashForward ==
    ASSUME IInv, NEW n \in Node, Crash(n) PROVE IInv' /\ Forward
<1> USE DEF Crash, Closed, Counted
<1>1. <<>> \in Seq(Build) /\ <<>> \in Seq(Message)  BY EmptySeq
<1>2. /\ builds' \in [Node -> Seq(Build)]
      /\ inbox' \in [Node -> Seq(Message)]
  BY <1>1 DEF IInv, TypeOK
<1>3. act' \in [Client -> Action]  BY DEF IInv, TypeOK, Idle, Action
<1>4. /\ conn' \in [Client -> Node \cup {NoNode}]
      /\ got' \subseteq Client /\ events' \in Nat /\ lost' \in BOOLEAN
  BY DEF IInv, TypeOK
<1>5. TypeOK'  BY <1>2, <1>3, <1>4 DEF IInv, TypeOK
<1> QED  BY <1>5, ViewsStay DEF IInv

-----------------------------------------------------------------------------
(* Who handles a control is a process.                                     *)

ActsSomewhere == \A c \in Client : act[c] # Idle => act[c].node \in Node

LEMMA ActsNext ==
    ASSUME IInv, ActsSomewhere, [Next]_vars PROVE ActsSomewhere'
<1>1. CASE UNCHANGED act  BY <1>1 DEF ActsSomewhere
<1>2. ASSUME NEW c \in Client, mutateRoomMessage(c) PROVE ActsSomewhere'
  <2>1. act' = [act EXCEPT ![c] = [node |-> conn[c], gen |-> Gen + 1]]
    BY <1>2 DEF mutateRoomMessage
  <2>2. conn[c] \in Node  BY <1>2 DEF mutateRoomMessage, IInv, TypeOK
  <2>3. act \in [Client -> Action]  BY DEF IInv, TypeOK
  <2> QED  BY <2>1, <2>2, <2>3 DEF ActsSomewhere
<1>3. ASSUME NEW c \in Client, publishControl(c) PROVE ActsSomewhere'
  <2>1. act' = [act EXCEPT ![c] = Idle]  BY <1>3 DEF publishControl
  <2>2. act \in [Client -> Action]  BY DEF IInv, TypeOK
  <2> QED  BY <2>1, <2>2 DEF ActsSomewhere
<1>4. ASSUME NEW n \in Node, Crash(n) PROVE ActsSomewhere'
  BY <1>4 DEF Crash, ActsSomewhere
<1>5. CASE Next
  BY <1>1, <1>2, <1>3, <1>4, <1>5
     DEF Next, NodeStep, Deliver, FlushSnapshot, PublishSnapshot, SendToJoiner,
         WriteSnapshot, Reconnect, Connect, SeekPreview, Disconnect
<1>6. CASE UNCHANGED vars  BY <1>1, <1>6 DEF vars
<1> QED  BY <1>5, <1>6

\* A step of the system.
LEMMA NextForward ==
    ASSUME IInv, ActsSomewhere, [Next]_vars PROVE IInv' /\ Forward
<1>1. ASSUME NEW n \in Node, NodeStep(n) \/ WriteSnapshot(n) \/ Crash(n)
      PROVE  IInv' /\ Forward
  BY <1>1, DeliverForward, FlushForward, PublishSnapshotForward,
     SendToJoinerForward, WriteSnapshotForward, CrashForward DEF NodeStep
<1>2. ASSUME NEW c \in Client,
             \/ publishControl(c) \/ Reconnect(c)
             \/ mutateRoomMessage(c) \/ SeekPreview(c) \/ Disconnect(c)
      PROVE  IInv' /\ Forward
  <2>1. CASE publishControl(c)
    <3>1. act[c].node \in Node  BY <2>1 DEF publishControl, ActsSomewhere
    <3> QED  BY <2>1, <3>1, PublishControlForward
  <2>2. CASE Reconnect(c)  BY <2>2, ConnectForward DEF Reconnect
  <2> QED  BY <1>2, <2>1, <2>2, MutateForward, SeekPreviewForward,
              DisconnectForward
<1>3. CASE UNCHANGED vars
  <2>1. UNCHANGED view  BY <1>3 DEF vars, clientVars
  <2>2. TypeOK' /\ (log # <<>>)'
    BY <1>3 DEF vars, nodeVars, clientVars, IInv, TypeOK
  <2> QED  BY <2>1, <2>2, ViewsStay DEF IInv
<1> QED  BY <1>1, <1>2, <1>3 DEF Next

-----------------------------------------------------------------------------
(* The theorems.                                                           *)

\* The inductive invariant: the types, and that the playback and the generation
\* of a client go together whatever reaches it in whatever order.
THEOREM InvariantHolds == Spec => [](IInv /\ ActsSomewhere)
<1>1. Init => IInv /\ ActsSomewhere
  BY InitIInv DEF Init, ActsSomewhere
<1>2. IInv /\ ActsSomewhere /\ [Next]_vars => (IInv /\ ActsSomewhere)'
  BY NextForward, ActsNext
<1> QED  BY <1>1, <1>2, PTL DEF Spec

\* Every document, message and view has the shape the code gives it.
THEOREM TypesHold == Spec => []TypeOK
<1>1. IInv => TypeOK  BY DEF IInv
<1> QED  BY <1>1, InvariantHolds, PTL

\* What a client shows is the playback of the generation its gates compare
\* (applyRoomControl and applyRoomSnapshot in room-state-merge.ts).
THEOREM PlaybackMatchesGeneration == Spec => []PlaybackOfGeneration
<1>1. IInv => PlaybackOfGeneration  BY DEF IInv
<1> QED  BY <1>1, InvariantHolds, PTL

\* No client goes back to an older playback, for any number of processes and
\* clients and however messages and snapshots overtake each other.
THEOREM NoClientGoesBack == Spec => PlaybackNeverGoesBack
<1>1. (IInv /\ ActsSomewhere) /\ [Next]_vars
        => [\A c \in Client : view'[c].play >= view[c].play]_vars
  BY NextForward DEF Forward
<1> QED  BY <1>1, InvariantHolds, PTL DEF Spec, PlaybackNeverGoesBack

-----------------------------------------------------------------------------
(* Broadcast implements SharedPlayback.  That nobody shows what no write has *)
(* left needs an invariant of its own: every generation in a control, a       *)
(* snapshot, a cache or a view has been committed.                            *)

Committed(s, g) == \A i \in DOMAIN s : s[i].gen <= g
GensCommitted ==
    /\ \A c \in Client : act[c].gen <= Gen /\ view[c].gen <= Gen
    /\ \A n \in Node : /\ cached[n] <= Gen
                       /\ Committed(builds[n], Gen) /\ Committed(inbox[n], Gen)

\* A queue of committed generations that loses its head or gets another one.
LEMMA QueueCommitted ==
    ASSUME NEW S, NEW s \in Seq(S), NEW g \in Nat, Committed(s, g),
           \A e \in S : e.gen \in Nat
    PROVE  /\ \A h \in Nat : g <= h => Committed(s, h)
           /\ s # <<>> => Head(s).gen <= g /\ Committed(Tail(s), g)
           /\ \A e \in S : e.gen <= g => Committed(Append(s, e), g)
<1> USE DEF Committed
<1>1. \A i \in 1 .. Len(s) : s[i] \in S /\ s[i].gen \in Nat /\ s[i].gen <= g
  BY ElementOfSeq, LenProperties
<1>2. DOMAIN s = 1 .. Len(s) /\ Len(s) \in Nat  BY LenProperties
<1>3. \A h \in Nat : g <= h => Committed(s, h)  BY <1>1, <1>2
<1>4. ASSUME s # <<>> PROVE Head(s).gen <= g /\ Committed(Tail(s), g)
  <2>1. /\ Len(s) > 0 /\ Head(s) = s[1]
        /\ Tail(s) \in Seq(S) /\ Len(Tail(s)) = Len(s) - 1
        /\ \A i \in 1 .. Len(Tail(s)) : Tail(s)[i] = s[i + 1]
    BY <1>4, <1>2, HeadTailProperties, EmptySeq
  <2>2. DOMAIN Tail(s) = 1 .. Len(s) - 1  BY <2>1, LenProperties
  <2> QED  BY <1>1, <1>2, <2>1, <2>2
<1>5. ASSUME NEW e \in S, e.gen <= g PROVE Committed(Append(s, e), g)
  <2>1. /\ Append(s, e) \in Seq(S) /\ Len(Append(s, e)) = Len(s) + 1
        /\ \A i \in 1 .. Len(s) : Append(s, e)[i] = s[i]
        /\ Append(s, e)[Len(s) + 1] = e
    BY AppendProperties
  <2>2. DOMAIN Append(s, e) = 1 .. Len(s) + 1  BY <2>1, LenProperties
  <2> QED  BY <1>1, <1>2, <1>5, <2>1, <2>2
<1> QED  BY <1>3, <1>4, <1>5

\* What the merges make of a committed message is committed.
LEMMA ReceiveCommitted ==
    ASSUME IInv, GensCommitted, NEW C \in SUBSET Client, NEW type,
           NEW g \in Nat, g <= Gen, Receive(C, type, g)
    PROVE  \A c \in Client : view'[c].gen <= Gen
<1> SUFFICES ASSUME NEW c \in Client PROVE view'[c].gen <= Gen  OBVIOUS
<1>1. /\ view[c] \in View /\ view[c].gen \in Nat /\ view[c].gen <= Gen
  BY DEF IInv, TypeOK, View, GensCommitted
<1>2. \/ view'[c] = view[c]
      \/ view'[c] = applyRoomControl(view[c], g)
      \/ view'[c] = applyRoomSnapshot(view[c], g)
  BY DEF Receive
<1>3. \A v \in View :
        /\ [v EXCEPT !.gen = g, !.play = g].gen = g
        /\ [v EXCEPT !.struct = g].gen = v.gen
        /\ ViewOf(g).gen = g
  BY DEF View, ViewOf
<1> QED  BY <1>1, <1>2, <1>3 DEF applyRoomControl, applyRoomSnapshot

\* A process publishes a committed generation.
LEMMA PublishCommitted ==
    ASSUME IInv, GensCommitted, NEW n \in Node,
           NEW type \in {"control", "snapshot"}, NEW g \in Nat, g <= Gen,
           Publish(n, type, g)
    PROVE  /\ \A c \in Client : view'[c].gen <= Gen
           /\ \A m \in Node : Committed(inbox'[m], Gen)
<1>1. \A c \in Client : view'[c].gen <= Gen
  <2>1. SocketsOf(n) \in SUBSET Client  BY DEF SocketsOf
  <2> QED  BY <2>1, ReceiveCommitted DEF Publish
<1>2. ASSUME NEW m \in Node PROVE Committed(inbox'[m], Gen)
  <2> DEFINE e == [type |-> type, gen |-> g, from |-> n]
  <2>1. e \in Message /\ e.gen <= Gen  BY DEF Message
  <2>2. inbox[m] \in Seq(Message) /\ Committed(inbox[m], Gen)
    BY DEF IInv, TypeOK, GensCommitted
  <2>3. inbox'[m] = inbox[m] \/ inbox'[m] = Append(inbox[m], e)
    BY DEF Publish
  <2>4. \A b \in Message : b.gen \in Nat  BY DEF Message
  <2> HIDE DEF e
  <2>5. Committed(Append(inbox[m], e), Gen)
    BY <2>1, <2>2, <2>4, DocTyped, QueueCommitted
  <2> QED  BY <2>2, <2>3, <2>5
<1> QED  BY <1>1, <1>2

\* A write appends one generation.
LEMMA WrittenGrows ==
    ASSUME IInv, NEW play \in BOOLEAN, Written(play)
    PROVE  /\ Gen' = Gen + 1 /\ Gen \in Nat
           /\ \E by \in {Gen + 1, log[Gen]} : log' = Append(log, by)
<1>1. log \in Seq(Nat)  BY DEF IInv, TypeOK
<1>2. (IF play THEN Gen + 1 ELSE log[Gen]) \in Nat  BY DocTyped
<1>3. log' = Append(log, IF play THEN Gen + 1 ELSE log[Gen])  BY DEF Written
<1>4. Gen' = Gen + 1
  BY <1>1, <1>2, <1>3, AppendProperties DEF Gen
<1> QED  BY <1>3, <1>4, DocTyped

\* What was committed stays committed when the document is written.
LEMMA CommittedGrows ==
    ASSUME IInv, GensCommitted, NEW g \in Nat, Gen <= g
    PROVE  /\ \A c \in Client : act[c].gen <= g /\ view[c].gen <= g
           /\ \A n \in Node : /\ cached[n] <= g
                              /\ Committed(builds[n], g) /\ Committed(inbox[n], g)
<1>1. Gen \in Nat  BY DocTyped
<1>2. ASSUME NEW c \in Client PROVE act[c].gen <= g /\ view[c].gen <= g
  <2>1. act[c].gen \in Nat /\ view[c].gen \in Nat
    BY DEF IInv, TypeOK, Action, View
  <2> QED  BY <1>1, <2>1 DEF GensCommitted
<1>3. ASSUME NEW n \in Node
      PROVE  cached[n] <= g /\ Committed(builds[n], g) /\ Committed(inbox[n], g)
  <2>1. cached[n] \in Nat /\ builds[n] \in Seq(Build) /\ inbox[n] \in Seq(Message)
    BY DEF IInv, TypeOK
  <2>2. /\ \A b \in Build : b.gen \in Nat
        /\ \A b \in Message : b.gen \in Nat
    BY DEF Build, Message
  <2>3. cached[n] <= Gen /\ Committed(builds[n], Gen) /\ Committed(inbox[n], Gen)
    BY DEF GensCommitted
  <2>4. cached[n] <= g  BY <1>1, <2>1, <2>3
  <2>5. Committed(builds[n], g)  BY <1>1, <2>1, <2>2, <2>3, QueueCommitted
  <2>6. Committed(inbox[n], g)  BY <1>1, <2>1, <2>2, <2>3, QueueCommitted
  <2> QED  BY <2>4, <2>5, <2>6
<1> QED  BY <1>2, <1>3

\* A queue of this state has typed and committed entries.
LEMMA QueuesTyped ==
    ASSUME IInv, GensCommitted, NEW n \in Node
    PROVE  /\ builds[n] \in Seq(Build) /\ Committed(builds[n], Gen)
           /\ inbox[n] \in Seq(Message) /\ Committed(inbox[n], Gen)
           /\ \A b \in Build : b.gen \in Nat
           /\ \A b \in Message : b.gen \in Nat
BY DEF IInv, TypeOK, GensCommitted, Build, Message

\* A snapshot of the document as it is after the step is read for r.
LEMMA BuildCommitted ==
    ASSUME IInv, GensCommitted, NEW n \in Node, NEW r \in Client \cup {Room},
           NEW h \in Nat, NEW g \in Nat, Gen <= g,
           builds' = [builds EXCEPT ![n] =
                         Append(@, [to |-> r, gen |-> g, hash |-> h])]
    PROVE  \A m \in Node : Committed(builds'[m], g)
<1> SUFFICES ASSUME NEW m \in Node PROVE Committed(builds'[m], g)  OBVIOUS
<1> DEFINE e == [to |-> r, gen |-> g, hash |-> h]
<1>1. e \in Build /\ e.gen <= g  BY DEF Build
<1>2. builds[m] \in Seq(Build) /\ Committed(builds[m], g)
  BY QueuesTyped, CommittedGrows
<1>3. builds'[m] = builds[m] \/ builds'[m] = Append(builds[m], e)
  BY DEF IInv, TypeOK
<1> HIDE DEF e
<1> QED  BY <1>1, <1>2, <1>3, QueuesTyped, QueueCommitted

\* A snapshot leaves its process, which had read a committed generation for it.
LEMMA BuiltCommitted ==
    ASSUME IInv, GensCommitted, NEW n \in Node, Built(n)
    PROVE  /\ NextBuild(n) \in Build /\ NextBuild(n).gen \in Nat
           /\ NextBuild(n).gen <= Gen
           /\ \A m \in Node : Committed(builds'[m], Gen)
<1>1. builds[n] # <<>> /\ builds' = [builds EXCEPT ![n] = Tail(@)]
  BY DEF Built
<1>2. NextBuild(n) \in Build  BY BuiltTyped
<1>3. NextBuild(n).gen <= Gen /\ Committed(Tail(builds[n]), Gen)
  BY <1>1, QueuesTyped, DocTyped, QueueCommitted DEF NextBuild
<1>4. ASSUME NEW m \in Node PROVE Committed(builds'[m], Gen)
  <2>1. builds'[m] = IF m = n THEN Tail(builds[n]) ELSE builds[m]
    BY <1>1 DEF IInv, TypeOK
  <2> QED  BY <1>3, <2>1, QueuesTyped
<1> QED  BY <1>2, <1>3, <1>4 DEF Build

\* A step of a process.
LEMMA NodeCommitted ==
    ASSUME IInv, GensCommitted, NEW n \in Node, NodeStep(n)
    PROVE  GensCommitted' /\ UNCHANGED log
<1>1. Gen \in Nat  BY DocTyped
<1>2. CASE Deliver(n)
  <2> DEFINE e == Head(inbox[n])
  <2>1. /\ inbox[n] # <<>> /\ inbox' = [inbox EXCEPT ![n] = Tail(@)]
        /\ Receive(SocketsOf(n), e.type, e.gen)
        /\ UNCHANGED <<log, act, builds, cached>>
    BY <1>2 DEF Deliver
  <2>2. e \in Message /\ e.gen <= Gen /\ Committed(Tail(inbox[n]), Gen)
    <3>1. inbox[n] \in Seq(Message) /\ Committed(inbox[n], Gen)  BY QueuesTyped
    <3>2. e \in Message  BY <2>1, <3>1, HeadTailProperties
    <3> QED  BY <1>1, <2>1, <3>1, <3>2, QueuesTyped, QueueCommitted
  <2>3. SocketsOf(n) \in SUBSET Client /\ e.gen \in Nat
    BY <2>2, QueuesTyped DEF SocketsOf
  <2>4. \A c \in Client : view'[c].gen <= Gen
    BY <2>1, <2>2, <2>3, ReceiveCommitted
  <2>5. ASSUME NEW m \in Node PROVE Committed(inbox'[m], Gen)
    <3>1. inbox'[m] = IF m = n THEN Tail(inbox[n]) ELSE inbox[m]
      BY <2>1 DEF IInv, TypeOK
    <3> QED  BY <2>2, <3>1, QueuesTyped
  <2> QED  BY <2>1, <2>4, <2>5 DEF GensCommitted, Gen, Committed
<1>3. CASE FlushSnapshot(n)
  <2>1. /\ builds' = [builds EXCEPT ![n] = Append(@,
                         [to |-> Room, gen |-> Gen, hash |-> hash[n]])]
        /\ UNCHANGED <<log, act, inbox, cached, view>>
    BY <1>3 DEF FlushSnapshot, clientVars
  <2>2. hash[n] \in Nat /\ Gen <= Gen /\ Room \in Client \cup {Room}
    BY <1>1 DEF IInv, TypeOK
  <2>3. \A m \in Node : Committed(builds'[m], Gen)
    BY <1>1, <2>1, <2>2, BuildCommitted
  <2> QED  BY <2>1, <2>3 DEF GensCommitted, Gen, Committed
<1>4. CASE PublishSnapshot(n)
  <2>1. Built(n) /\ PublishNew(n, NextBuild(n)) /\ UNCHANGED <<log, act, cached>>
    BY <1>4 DEF PublishSnapshot
  <2>2. /\ \A c \in Client : view'[c].gen <= Gen
        /\ \A m \in Node : Committed(inbox'[m], Gen)
    <3>1. CASE UNCHANGED <<inbox, view, got>>  BY <3>1 DEF GensCommitted
    <3>2. CASE Publish(n, "snapshot", NextBuild(n).gen)
      BY <2>1, <3>2, BuiltCommitted, PublishCommitted
    <3> QED  BY <2>1, <3>1, <3>2 DEF PublishNew
  <2>3. \A m \in Node : Committed(builds'[m], Gen)  BY <2>1, BuiltCommitted
  <2> QED  BY <2>1, <2>2, <2>3 DEF GensCommitted, Gen, Committed
<1>5. CASE SendToJoiner(n)
  <2> DEFINE b == NextBuild(n)
  <2>1. /\ Built(n) /\ b.to # Room /\ UNCHANGED <<log, act, inbox, cached>>
        /\ IF b.to = Nobody THEN UNCHANGED <<view, got>>
           ELSE Receive({b.to}, "snapshot", b.gen)
    BY <1>5 DEF SendToJoiner
  <2>2. \A c \in Client : view'[c].gen <= Gen
    <3>1. CASE UNCHANGED view  BY <3>1 DEF GensCommitted
    <3>2. CASE b.to # Nobody
      <4>1. b \in Build /\ b.gen \in Nat /\ b.gen <= Gen  BY <2>1, BuiltCommitted
      <4>2. {b.to} \in SUBSET Client  BY <2>1, <3>2, <4>1 DEF Build
      <4>3. Receive({b.to}, "snapshot", b.gen)  BY <2>1, <3>2
      <4> QED  BY <4>1, <4>2, <4>3, ReceiveCommitted
    <3> QED  BY <2>1, <3>1, <3>2
  <2>3. \A m \in Node : Committed(builds'[m], Gen)  BY <2>1, BuiltCommitted
  <2> QED  BY <2>1, <2>2, <2>3 DEF GensCommitted, Gen, Committed
<1> QED  BY <1>2, <1>3, <1>4, <1>5
         DEF NodeStep, Deliver, FlushSnapshot, PublishSnapshot, SendToJoiner

\* A write, and a message from a client.
LEMMA WriteCommitted ==
    ASSUME IInv, GensCommitted, NEW play \in BOOLEAN, Written(play),
           UNCHANGED <<inbox, cached, view>>,
           \/ UNCHANGED <<act, builds>>
           \/ /\ UNCHANGED builds
              /\ \E c \in Client, n \in Node :
                    act' = [act EXCEPT ![c] = [node |-> n, gen |-> Gen + 1]]
           \/ /\ UNCHANGED act
              /\ \E c \in Client, n \in Node :
                    builds' = [builds EXCEPT ![n] = Append(@,
                                 [to |-> c, gen |-> Gen + 1, hash |-> 0])]
    PROVE  GensCommitted'
<1>1. Gen' = Gen + 1 /\ Gen \in Nat  BY WrittenGrows
<1> DEFINE g == Gen + 1
<1>2. g \in Nat /\ Gen <= g  BY <1>1
<1>3. /\ \A c \in Client : act[c].gen <= g /\ view[c].gen <= g
      /\ \A n \in Node : /\ cached[n] <= g
                         /\ Committed(builds[n], g) /\ Committed(inbox[n], g)
  BY <1>2, CommittedGrows
<1>4. \A n \in Node : Committed(builds'[n], g)
  BY <1>2, <1>3, BuildCommitted
<1>5. \A c \in Client : act'[c].gen <= g
  <2>1. act \in [Client -> Action]  BY DEF IInv, TypeOK
  <2> QED  BY <1>2, <1>3, <2>1
<1>6. /\ \A c \in Client : view'[c].gen <= g
      /\ \A n \in Node : cached'[n] <= g /\ Committed(inbox'[n], g)
  BY <1>3
<1> QED  BY <1>1, <1>4, <1>5, <1>6 DEF GensCommitted, Committed

\* What a step of the system does to the document and to what is shown.
StepKind ==
    \/ UNCHANGED log
    \/ UNCHANGED view /\ \E play \in BOOLEAN : Written(play)

LEMMA ClientCommitted ==
    ASSUME IInv, GensCommitted, ActsSomewhere, NEW c \in Client,
           \/ publishControl(c) \/ Reconnect(c)
           \/ mutateRoomMessage(c) \/ SeekPreview(c) \/ Disconnect(c)
    PROVE  GensCommitted' /\ StepKind
<1>1. Gen \in Nat /\ Gen <= Gen  BY DocTyped
<1>2. CASE publishControl(c)
  <2> DEFINE n == act[c].node
             g == act[c].gen
  <2>1. /\ cached' = [cached EXCEPT ![n] = g] /\ Publish(n, "control", g)
        /\ act' = [act EXCEPT ![c] = Idle] /\ UNCHANGED <<log, builds>>
    BY <1>2 DEF publishControl
  <2>2. n \in Node /\ g \in Nat /\ g <= Gen
    BY <1>2 DEF publishControl, ActsSomewhere, IInv, TypeOK, Action, GensCommitted
  <2>3. /\ \A d \in Client : view'[d].gen <= Gen
        /\ \A m \in Node : Committed(inbox'[m], Gen)
    BY <2>1, <2>2, PublishCommitted
  <2>4. \A m \in Node : cached'[m] <= Gen
    BY <2>1, <2>2 DEF IInv, TypeOK, GensCommitted
  <2>5. \A d \in Client : act'[d].gen <= Gen
    <3>1. act \in [Client -> Action] /\ Idle.gen <= Gen
      BY <1>1 DEF IInv, TypeOK, Idle
    <3> QED  BY <2>1, <3>1 DEF GensCommitted
  <2> QED  BY <2>1, <2>3, <2>4, <2>5 DEF GensCommitted, StepKind, Gen, Committed
<1>3. CASE Reconnect(c)
  <2>1. PICK n \in Node : Connect(c, n)  BY <1>3 DEF Reconnect
  <2>2. /\ UNCHANGED <<act, inbox, cached, view>>
        /\ builds' = [builds EXCEPT ![n] = Append(@,
                         [to |-> c, gen |-> Gen', hash |-> 0])]
        /\ Written(FALSE) \/ UNCHANGED log
    BY <2>1 DEF Connect, Gen
  <2>3. CASE Written(FALSE)
    <3>1. Gen' = Gen + 1  BY <2>3, WrittenGrows
    <3> QED  BY <2>2, <2>3, <3>1, WriteCommitted DEF StepKind
  <2>4. CASE UNCHANGED log
    <3>1. Gen' = Gen  BY <2>4 DEF Gen
    <3>2. \A m \in Node : Committed(builds'[m], Gen)
      BY <1>1, <2>2, <3>1, BuildCommitted
    <3> QED  BY <2>2, <2>4, <3>1, <3>2 DEF GensCommitted, StepKind, Committed
  <2> QED  BY <2>2, <2>3, <2>4
<1>4. CASE mutateRoomMessage(c)
  <2>1. /\ Written(TRUE) /\ conn[c] # NoNode
        /\ act' = [act EXCEPT ![c] = [node |-> conn[c], gen |-> Gen + 1]]
        /\ UNCHANGED <<inbox, cached, view, builds>>
    BY <1>4 DEF mutateRoomMessage, nodeVars, clientVars
  <2>2. conn[c] \in Node  BY <2>1 DEF IInv, TypeOK
  <2> QED  BY <2>1, <2>2, WriteCommitted DEF StepKind
<1>5. CASE SeekPreview(c)
  <2> DEFINE n == conn[c]
             g == IF cached[n] # 0 THEN cached[n] ELSE Gen
  <2>1. /\ n # NoNode /\ cached' = [cached EXCEPT ![n] = g]
        /\ Publish(n, "control", g) /\ UNCHANGED <<log, act, builds>>
    BY <1>5 DEF SeekPreview
  <2>2. n \in Node  BY <2>1 DEF IInv, TypeOK
  <2>3. g \in Nat /\ g <= Gen
    BY <1>1, <2>2 DEF IInv, TypeOK, GensCommitted
  <2> HIDE DEF g
  <2>4. /\ \A d \in Client : view'[d].gen <= Gen
        /\ \A m \in Node : Committed(inbox'[m], Gen)
    BY <2>1, <2>2, <2>3, PublishCommitted
  <2>5. \A m \in Node : cached'[m] <= Gen
    BY <2>1, <2>2, <2>3 DEF IInv, TypeOK, GensCommitted
  <2> QED  BY <2>1, <2>4, <2>5 DEF GensCommitted, StepKind, Gen, Committed
<1>6. CASE Disconnect(c)
  <2>1. /\ builds' = [n \in Node |-> [i \in DOMAIN builds[n] |->
                 [builds[n][i] EXCEPT !.to = IF @ = c THEN Nobody ELSE @]]]
        /\ UNCHANGED <<log, act, inbox, cached, view>>
    BY <1>6 DEF Disconnect
  <2>2. ASSUME NEW n \in Node PROVE Committed(builds'[n], Gen)
    <3> SUFFICES ASSUME NEW i \in DOMAIN builds[n]
                 PROVE  builds'[n][i].gen <= Gen
      BY <2>1 DEF Committed
    <3>1. builds[n] \in Seq(Build) /\ builds[n][i].gen <= Gen
      BY QueuesTyped DEF Committed
    <3>2. builds[n][i] \in Build  BY <3>1, ElementOfSeq, LenProperties
    <3>3. builds'[n][i].gen = builds[n][i].gen  BY <2>1, <3>2 DEF Build
    <3> QED  BY <3>1, <3>3
  <2> QED  BY <2>1, <2>2 DEF GensCommitted, StepKind, Gen, Committed
<1> QED  BY <1>2, <1>3, <1>4, <1>5, <1>6

\* Nothing in the cluster stands for a generation that nobody has committed.
LEMMA NextCommitted ==
    ASSUME IInv, GensCommitted, ActsSomewhere, [Next]_vars
    PROVE  GensCommitted' /\ StepKind
<1>1. ASSUME NEW n \in Node, NodeStep(n) PROVE GensCommitted' /\ StepKind
  BY <1>1, NodeCommitted DEF StepKind
<1>2. ASSUME NEW n \in Node, WriteSnapshot(n) PROVE GensCommitted' /\ StepKind
  BY <1>2, WriteCommitted DEF StepKind, WriteSnapshot, clientVars
<1>3. ASSUME NEW n \in Node, Crash(n) PROVE GensCommitted' /\ StepKind
  <2>1. /\ act' = [c \in Client |-> IF act[c].node = n THEN Idle ELSE act[c]]
        /\ builds' = [builds EXCEPT ![n] = <<>>]
        /\ inbox' = [inbox EXCEPT ![n] = <<>>]
        /\ cached' = [cached EXCEPT ![n] = 0]
        /\ UNCHANGED <<log, view>>
    BY <1>3 DEF Crash
  <2>2. Gen \in Nat /\ Gen >= 0 /\ Idle.gen = 0  BY DocTyped DEF Idle
  <2>3. Committed(<<>>, Gen)  BY DEF Committed
  <2>4. \A m \in Node : /\ builds'[m] \in {builds[m], <<>>}
                        /\ inbox'[m] \in {inbox[m], <<>>}
                        /\ cached'[m] \in {cached[m], 0}
    BY <2>1 DEF IInv, TypeOK
  <2> QED  BY <2>1, <2>2, <2>3, <2>4 DEF GensCommitted, StepKind, Gen, Committed
<1>4. CASE UNCHANGED vars
  BY <1>4 DEF vars, nodeVars, clientVars, GensCommitted, StepKind, Gen, Committed
<1> QED  BY <1>1, <1>2, <1>3, <1>4, ClientCommitted DEF Next

\* A step of the system is one of SharedPlayback or leaves it as it is.
LEMMA StepShared ==
    ASSUME IInv, ActsSomewhere, GensCommitted, [Next]_vars
    PROVE  [SP!SNext]_(SP!svars)
<1> DEFINE sh == [c \in Client |-> view[c].play]
<1>1. CASE UNCHANGED log
  <2>1. /\ \A c \in Client : view'[c] \in View /\ view'[c].play = view'[c].gen
        /\ \A c \in Client : view'[c].gen <= Gen' /\ view'[c].play >= view[c].play
    BY NextForward, NextCommitted
       DEF IInv, TypeOK, PlaybackOfGeneration, GensCommitted, Forward
  <2>2. Gen' = Gen /\ Gen \in Nat  BY <1>1, DocTyped DEF Gen
  <2>3. \A c \in Client : view'[c].play \in 0 .. Len(log)
    BY <2>1, <2>2 DEF View, Gen
  <2>4. sh' \in [Client -> 0 .. Len(log)]  BY <2>3
  <2>5. \A c \in Client : sh'[c] >= sh[c]  BY <2>1
  <2>6. SP!Show  BY <1>1, <2>4, <2>5 DEF SP!Show
  <2> QED  BY <2>6 DEF SP!SNext
<1>2. CASE UNCHANGED view /\ \E play \in BOOLEAN : Written(play)
  <2>1. \E by \in {Len(log) + 1, log[Len(log)]} : log' = Append(log, by)
    BY <1>2, WrittenGrows DEF Gen
  <2>2. sh' = sh  BY <1>2
  <2>3. SP!Write  BY <2>1, <2>2 DEF SP!Write
  <2> QED  BY <2>3 DEF SP!SNext
<1> QED  BY <1>1, <1>2, NextCommitted DEF StepKind

\* Whatever controls, snapshots, previews, caches, reconnects and crashes do,
\* the clients see the room's playback as viewers of one shared history: each
\* shows what a committed write has left and moves only forward
\* (room-state-merge.ts:65 and 194, mutate-room.ts:108).
THEOREM PlaybackIsShared == Spec => ImplementsSharedPlayback
<1>1. Init => GensCommitted /\ SP!SInit
  <2> SUFFICES ASSUME Init PROVE GensCommitted /\ SP!SInit  OBVIOUS
  <2>1. Gen = 1 /\ log = <<1>>  BY DEF Init, Gen
  <2>2. \A c \in Client : /\ view[c] = ViewOf(1) \/ view[c] = ViewOf(0)
                         /\ act[c] = Idle
    BY DEF Init, NoView
  <2>3. GensCommitted
    BY <2>1, <2>2 DEF Init, GensCommitted, Committed, ViewOf, Idle
  <2>4. \A c \in Client : view[c].play \in {0, 1}  BY <2>2 DEF ViewOf
  <2>5. SP!SInit  BY <2>1, <2>4 DEF SP!SInit
  <2> QED  BY <2>3, <2>5
<1>2. IInv /\ ActsSomewhere /\ GensCommitted /\ [Next]_vars => GensCommitted'
  BY NextCommitted
<1>3. IInv /\ ActsSomewhere /\ GensCommitted /\ [Next]_vars
        => [SP!SNext]_(SP!svars)
  BY StepShared
<1> QED  BY <1>1, <1>2, <1>3, InvariantHolds, PTL
         DEF Spec, ImplementsSharedPlayback, SP!SSpec
=============================================================================
