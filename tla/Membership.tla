----------------------------- MODULE Membership -----------------------------
(***************************************************************************)
(* Who is in a room: join, disconnect, join rollback, presence reference   *)
(* counts, the prune index, ownership, the maintenance sweep and the       *)
(* destruction of empty rooms (server/realtime/handlers/join*,             *)
(* services/disconnect.ts, participants.ts, ownership.ts, cleanup.ts,      *)
(* empty-room.ts, server/ws/registry.ts).                                  *)
(*                                                                         *)
(* Every operation is a sequence of Redis commands with an await between   *)
(* them; one step of the model is one command with the synchronous code    *)
(* that runs on its reply.  updateRoom is one atomic step: RoomStore shows *)
(* when it is.  A socket lives once; a user who comes back opens another.  *)
(* Writes to the prune index and the empty-room marker that follow each    *)
(* other with no decision in between are one step.                         *)
(***************************************************************************)
EXTENDS Naturals, FiniteSets, FiniteSetsExt

CONSTANTS Room, User, Node, Socket,
          UserOf,          \* UserOf[s] is the user that opens socket s
          NodeOf,          \* NodeOf[s] is the process that serves socket s
          DefaultJoinRole, \* roomSecurity.defaultJoinRole
          Mutators,        \* bound: sockets that send room messages after the join
          Leavers,         \* bound: sockets that may close
          MaxJoins,        \* bound: room:join messages one socket sends
          MayCrash,        \* bound: the processes that may crash
          Sweepers,        \* bound: the processes whose maintenance tick runs
          DyingRooms,      \* bound: rooms whose 15 s empty-room grace elapses; in
                           \* another somebody not modelled may always return
          NoUser

ASSUME MembershipAssumption ==
    /\ Room # {} /\ User # {}
    /\ UserOf \in [Socket -> User]
    /\ NodeOf \in [Socket -> Node]
    /\ Socket \cap Node = {}
    /\ DefaultJoinRole \in {"moderator", "guest"}
    /\ Mutators \subseteq Socket
    /\ Leavers \subseteq Socket
    /\ MaxJoins \in Nat
    /\ MayCrash \subseteq Node
    /\ Sweepers \subseteq Node
    /\ DyingRooms \subseteq Room
    /\ NoUser \notin User

\* Only finitely many sockets have been opened and rooms named at any time.
ASSUME FinitelyMany == IsFiniteSet(Room) /\ IsFiniteSet(Socket)

VARIABLES
    doc,     \* doc[r]: the room document in Redis
    ref,     \* ref[r][u][n]: presence references process n holds for user u
    grace,   \* grace[r]: users whose prune grace key exists
    pending, \* pending[r]: users in the pending-prunes index
    emptyAt, \* emptyAt[r]: the empty-room marker: none, fresh, elapsed
    up,      \* processes that run
    alive,   \* processes whose heartbeat key is (still) listed
    sock,    \* sock[s]: the socket and its registry entry
    msg,     \* msg[s]: the message handler running on the socket's queue
    close,   \* close[s]: the handler of the socket's close event
    sweep,   \* sweep[n]: the maintenance tick of process n
    gate     \* gate[t]: the empty-room check a close handler or sweep waits for

store == <<doc, ref, grace, pending, emptyAt>>
nodes == <<up, alive>>
vars == <<store, nodes, sock, msg, close, sweep, gate>>

-----------------------------------------------------------------------------
(* Types.                                                                  *)

Role == {"owner", "moderator", "guest"}

\* "on", "off": connected or not; "past": off for PARTICIPANT_PRUNE_MS.
Standing == {"none", "on", "off", "past"}

NoDoc == [exists |-> FALSE, owner |-> NoUser,
          part |-> [u \in User |-> "none"], role |-> [u \in User |-> "guest"]]

\* The role of a user who is no participant is kept as "guest".
Doc == [exists : BOOLEAN, owner : User \cup {NoUser},
        part : [User -> Standing], role : [User -> Role]]

\* readyState, and the registry entry: reg while it exists, tracked goes with
\* it, room and committed stay as they last were.  The program keeps no orphan:
\* it records that the entry was removed while its reference was kept, and no
\* action looks at it.
Sock == [state : {"open", "closing", "closed"}, reg : BOOLEAN,
         room : Room, tracked : BOOLEAN, committed : BOOLEAN,
         joins : 0..MaxJoins, orphan : BOOLEAN]

MsgPc == {"idle", "untrack", "read", "commit", "post", "bump", "joined",
          "lists", "undo", "undoRead", "undoCommit", "undoPrune",
          "mutRead", "mutCommit"}
Msg == [pc : MsgPc, room : Room, already : BOOLEAN, act : SUBSET User,
        rec : SUBSET User, dis : SUBSET User]

ClosePc == {"idle", "dec", "read", "commit", "gate", "prune", "done"}
Close == [pc : ClosePc, room : Room, act : SUBSET User]

SweepPc == {"idle", "rooms", "commit", "lists", "gate", "due", "remove",
            "unindex"}
Sweep == [pc : SweepPc, room : Room, rooms : SUBSET Room, act : SUBSET User,
          rec : SUBSET User, dis : SUBSET User, past : SUBSET User,
          todo : SUBSET (Room \X User), who : User]

\* A socket's close handler and a process's sweep run the empty-room check.
Task == Socket \cup Node
GatePc == {"idle", "note", "presence", "confirm", "delete", "kept",
           "destroyed"}
Gate == [pc : GatePc, room : Room]

TypeOK ==
    /\ doc \in [Room -> Doc]
    /\ ref \in [Room -> [User -> [Node -> Nat]]]
    /\ grace \in [Room -> SUBSET User]
    /\ pending \in [Room -> SUBSET User]
    /\ emptyAt \in [Room -> {"none", "fresh", "elapsed"}]
    /\ up \in SUBSET Node
    /\ alive \in SUBSET Node
    /\ sock \in [Socket -> Sock]
    /\ msg \in [Socket -> Msg]
    /\ close \in [Socket -> Close]
    /\ sweep \in [Node -> Sweep]
    /\ gate \in [Task -> Gate]

SomeRoom == CHOOSE r \in Room : TRUE
SomeUser == CHOOSE u \in User : TRUE
IdleMsg == [pc |-> "idle", room |-> SomeRoom, already |-> FALSE,
            act |-> {}, rec |-> {}, dis |-> {}]
IdleClose == [pc |-> "idle", room |-> SomeRoom, act |-> {}]
IdleSweep == [pc |-> "idle", room |-> SomeRoom, rooms |-> {}, act |-> {},
              rec |-> {}, dis |-> {}, past |-> {}, todo |-> {}, who |-> SomeUser]
IdleGate == [pc |-> "idle", room |-> SomeRoom]

Init ==
    /\ doc = [r \in Room |-> NoDoc]
    /\ ref = [r \in Room |-> [u \in User |-> [n \in Node |-> 0]]]
    /\ grace = [r \in Room |-> {}]
    /\ pending = [r \in Room |-> {}]
    /\ emptyAt = [r \in Room |-> "none"]
    /\ up = Node
    /\ alive = Node
    /\ sock = [s \in Socket |->
                 [state |-> "open", reg |-> FALSE, room |-> SomeRoom,
                  tracked |-> FALSE, committed |-> FALSE, joins |-> 0,
                  orphan |-> FALSE]]
    /\ msg = [s \in Socket |-> IdleMsg]
    /\ close = [s \in Socket |-> IdleClose]
    /\ sweep = [n \in Node |-> IdleSweep]
    /\ gate = [t \in Task |-> IdleGate]

-----------------------------------------------------------------------------
(* The room document.                                                      *)

Present(d) == {u \in User : d.part[u] # "none"}
Connected(d) == {u \in User : d.part[u] = "on"}

\* reconcileParticipantsConnectivity against a presence read.
Disconnecting(d, act) == Connected(d) \ act
Reconnecting(d, act) == (Present(d) \ Connected(d)) \cap act
Reconciled(d, act) ==
    [d EXCEPT !.part = [u \in User |->
        IF u \in Disconnecting(d, act) THEN "off"
        ELSE IF u \in Reconnecting(d, act) THEN "on" ELSE @[u]]]

\* transferOwnershipIfNeeded: when a transfer is due, and to whom.  Which of
\* several equally ranked participants joined first is left open.
NeedsOwner(d, reason) ==
    IF reason = "join" THEN d.part[d.owner] = "none" ELSE d.part[d.owner] # "on"
Candidates(d, reason) ==
    IF Connected(d) = {} /\ reason = "prune" THEN Present(d) ELSE Connected(d)
Heirs(d, reason) ==
    LET Ranked(role) == {u \in Candidates(d, reason) : d.role[u] = role} IN
    IF Ranked("moderator") # {} THEN Ranked("moderator")
    ELSE IF Ranked("guest") # {} THEN Ranked("guest")
    ELSE IF reason = "prune" THEN Ranked("owner") ELSE {}

\* Mutant: the previous owner keeps the role.
PromoteOnly(d, u) == [d EXCEPT !.owner = u, !.role[u] = "owner"]

Promote(d, u) ==
    [d EXCEPT !.owner = u,
              !.role = [v \in User |-> IF v = u THEN "owner"
                                       ELSE IF v = d.owner THEN "guest" ELSE @[v]]]
Transferred(d, reason) ==
    IF NeedsOwner(d, reason) /\ Heirs(d, reason) # {}
    THEN {Promote(d, u) : u \in Heirs(d, reason)} ELSE {d}

\* applyUserWentOffline: also a participant who is already off starts anew.
Offline(d, u) == [d EXCEPT !.part[u] = IF @ = "none" THEN "none" ELSE "off"]

\* The participant upsert of commitJoinMembership into document d.
WithJoiner(d, u) ==
    [d EXCEPT !.part[u] = "on",
              !.role[u] = IF d.part[u] # "none" THEN @
                          ELSE IF d.owner = u THEN "owner" ELSE DefaultJoinRole]

-----------------------------------------------------------------------------
(* Presence and prune keys.                                                *)

\* readWsPresenceUserIds on process n: references of processes listed as
\* alive, n itself always counted.
Online(r, n) == {u \in User : \E m \in alive \cup {n} : ref[r][u][m] > 0}

Acquire(r, u, n) == ref' = [ref EXCEPT ![r][u][n] = @ + 1]

\* Mutant: the presence script does not stop at zero.
ReleaseBelowZero(r, u, n) == ref' = [ref EXCEPT ![r][u][n] = @ - 1]

Release(r, u, n) ==
    ref' = [ref EXCEPT ![r][u][n] = IF @ > 0 THEN @ - 1 ELSE 0]

\* schedulePrune for dis, after clearPrune for rec.
Index(r, rec, dis) ==
    /\ grace' = [grace EXCEPT ![r] = (@ \ rec) \cup dis]
    /\ pending' = [pending EXCEPT ![r] = (@ \ rec) \cup dis]

-----------------------------------------------------------------------------
(* The socket.                                                             *)

\* The peer's close frame, a ping timeout or the server's own close().
SocketClosing(s) ==
    /\ s \in Leavers /\ sock[s].state = "open"
    /\ sock' = [sock EXCEPT ![s].state = "closing"]
    /\ UNCHANGED <<store, nodes, msg, close, sweep, gate>>

-----------------------------------------------------------------------------
(* room:join.  Messages of a socket are handled one after another; one that *)
(* is still queued when the socket closes is left out, it does what a first *)
(* join does whose socket closes right after it starts.                     *)

MsgTo(s, pc) == msg' = [msg EXCEPT ![s].pc = pc]
MsgDone(s) == msg' = [msg EXCEPT ![s] = IdleMsg]

\* previousMeta is read here, once; "already" keeps its presenceTracked even
\* when the reference it stands for is dropped because the room changes.
JoinStart(s, r) ==
    LET already == sock[s].reg /\ sock[s].tracked IN
    /\ sock[s].state = "open" /\ msg[s].pc = "idle" /\ sock[s].joins < MaxJoins
    /\ sock' = [sock EXCEPT ![s].joins = @ + 1]
    /\ msg' = [msg EXCEPT ![s] = [IdleMsg EXCEPT
                 !.pc = IF already /\ sock[s].room # r THEN "untrack" ELSE "read",
                 !.room = r, !.already = already]]
    /\ UNCHANGED <<store, nodes, close, sweep, gate>>

\* The socket leaves its previous room: reference dropped, then the flag.
Untrack(s) ==
    /\ msg[s].pc = "untrack"
    /\ Release(sock[s].room, UserOf[s], NodeOf[s])
    /\ sock' = [sock EXCEPT ![s].tracked = FALSE]
    /\ MsgTo(s, "read")
    /\ UNCHANGED <<doc, grace, pending, emptyAt, nodes, close, sweep, gate>>

\* Identity claim refused, or the password changed before the commit.
JoinRefused(s) ==
    /\ msg[s].pc \in {"read", "commit"}
    /\ MsgDone(s)
    /\ UNCHANGED <<store, nodes, sock, close, sweep, gate>>

\* The presence read outside WATCH, of a join and of a room message.
ReadPresence(s) ==
    LET m == msg[s] IN
    /\ m.pc \in {"read", "mutRead"}
    /\ msg' = [msg EXCEPT ![s].pc = IF m.pc = "read" THEN "commit" ELSE "mutCommit",
                          ![s].act = Online(m.room, NodeOf[s])]
    /\ UNCHANGED <<store, nodes, sock, close, sweep, gate>>

\* Create the room if it is absent, reconcile, upsert, heal a missing owner.
JoinCommit(s) ==
    LET m == msg[s]  u == UserOf[s]  d == doc[m.room]
        base == IF d.exists THEN d ELSE [NoDoc EXCEPT !.exists = TRUE, !.owner = u]
    IN
    /\ m.pc = "commit"
    /\ \E new \in Transferred(WithJoiner(Reconciled(base, m.act), u), "join") :
         doc' = [doc EXCEPT ![m.room] = new]
    /\ msg' = [msg EXCEPT ![s].pc = "post", ![s].act = {},
                          ![s].rec = Reconnecting(base, m.act),
                          ![s].dis = Disconnecting(base, m.act)]
    /\ UNCHANGED <<ref, grace, pending, emptyAt, nodes, sock, close, sweep, gate>>

\* R1: the socket died during the commit; nothing of this join to release.  The
\* reference of an earlier join is not dropped either: without the entry its
\* close event finds nothing to drop.
PostDead(s) ==
    /\ msg[s].pc = "post" /\ sock[s].state # "open"
    /\ sock' = [sock EXCEPT ![s].reg = FALSE, ![s].tracked = FALSE,
                            ![s].orphan = sock[s].reg /\ sock[s].tracked]
    /\ MsgTo(s, "undoRead")
    /\ UNCHANGED <<store, nodes, close, sweep, gate>>

\* Mutant: every join adds a reference.
PostAliveAlwaysAdds(s) ==
    LET m == msg[s] IN
    /\ m.pc = "post" /\ sock[s].state = "open"
    /\ sock' = [sock EXCEPT ![s].reg = TRUE, ![s].room = m.room,
                            ![s].tracked = sock[s].reg /\ @,
                            ![s].committed = FALSE]
    /\ MsgTo(s, "bump")
    /\ UNCHANGED <<store, nodes, close, sweep, gate>>

\* Mutant: addSocket does not keep presenceTracked of the entry it replaces.
PostAliveForgets(s) ==
    LET m == msg[s] IN
    /\ m.pc = "post" /\ sock[s].state = "open"
    /\ sock' = [sock EXCEPT ![s].reg = TRUE, ![s].room = m.room,
                            ![s].tracked = FALSE,
                            ![s].committed = m.already]
    /\ MsgTo(s, IF m.already THEN "joined" ELSE "bump")
    /\ UNCHANGED <<store, nodes, close, sweep, gate>>

\* addSocket keeps presenceTracked of an entry that is still registered; a
\* socket that had a reference before gets no other one and is joined.
PostAlive(s) ==
    LET m == msg[s] IN
    /\ m.pc = "post" /\ sock[s].state = "open"
    /\ sock' = [sock EXCEPT ![s].reg = TRUE, ![s].room = m.room,
                            ![s].tracked = sock[s].reg /\ @,
                            ![s].committed = m.already]
    /\ MsgTo(s, IF m.already THEN "joined" ELSE "bump")
    /\ UNCHANGED <<store, nodes, close, sweep, gate>>

\* addWsConnectionRef, and R1 again on its reply: joined, or rolled back.
Bump(s) ==
    LET ok == sock[s].state = "open" /\ sock[s].reg IN
    /\ msg[s].pc = "bump"
    /\ Acquire(msg[s].room, UserOf[s], NodeOf[s])
    /\ sock' = [sock EXCEPT ![s].tracked = sock[s].reg, ![s].committed = ok]
    /\ MsgTo(s, IF ok THEN "joined" ELSE "undo")
    /\ UNCHANGED <<doc, grace, pending, emptyAt, nodes, close, sweep, gate>>

\* clearPrune of the joiner and of the others the commit found back, schedule
\* those it found gone; the empty-room marker is deleted.
Settle(s) ==
    LET r == msg[s].room IN
    /\ msg[s].pc = "joined"
    /\ Index(r, {UserOf[s]} \cup msg[s].rec, msg[s].dis)
    /\ emptyAt' = [emptyAt EXCEPT ![r] = "none"]
    /\ MsgDone(s)
    /\ UNCHANGED <<doc, ref, nodes, sock, close, sweep, gate>>

-----------------------------------------------------------------------------
(* abortJoinAfterCommit.                                                   *)

\* removeWsConnectionRef, and removeSocket on its reply: until then the close
\* event still finds the entry.
Undo(s) ==
    /\ msg[s].pc = "undo"
    /\ Release(msg[s].room, UserOf[s], NodeOf[s])
    /\ sock' = [sock EXCEPT ![s].reg = FALSE, ![s].tracked = FALSE]
    /\ MsgTo(s, "undoRead")
    /\ UNCHANGED <<doc, grace, pending, emptyAt, nodes, close, sweep, gate>>

\* Nothing to undo if another connection of the user is found.  The code reads
\* twice in a row; the first read can only end it earlier.
UndoRead(s) ==
    /\ msg[s].pc = "undoRead"
    /\ IF UserOf[s] \in Online(msg[s].room, NodeOf[s]) THEN MsgDone(s)
       ELSE MsgTo(s, "undoCommit")
    /\ UNCHANGED <<store, nodes, sock, close, sweep, gate>>

UndoCommit(s) ==
    LET r == msg[s].room  u == UserOf[s] IN
    /\ msg[s].pc = "undoCommit"
    /\ doc' = [doc EXCEPT ![r] = Offline(@, u)]
    /\ IF doc[r].part[u] = "none" THEN MsgDone(s) ELSE MsgTo(s, "undoPrune")
    /\ UNCHANGED <<ref, grace, pending, emptyAt, nodes, sock, close, sweep, gate>>

UndoPrune(s) ==
    /\ msg[s].pc = "undoPrune"
    /\ Index(msg[s].room, {}, {UserOf[s]})
    /\ MsgDone(s)
    /\ UNCHANGED <<doc, ref, emptyAt, nodes, sock, close, sweep, gate>>

-----------------------------------------------------------------------------
(* mutateRoomMessage, the path of every other room message.                *)

\* dispatch admits it only on a joined socket (R3).
MutStart(s) ==
    /\ s \in Mutators
    /\ sock[s].state = "open" /\ sock[s].reg /\ sock[s].committed
    /\ msg[s].pc = "idle"
    /\ msg' = [msg EXCEPT ![s].pc = "mutRead", ![s].room = sock[s].room]
    /\ UNCHANGED <<store, nodes, sock, close, sweep, gate>>

\* The room or the participant is gone, or the body declines: no write, and
\* the prune lists of the reconciliation are dropped with it.
MutNull(s) ==
    /\ msg[s].pc = "mutCommit"
    /\ MsgDone(s)
    /\ UNCHANGED <<store, nodes, sock, close, sweep, gate>>

\* What a message may change of the membership: an owner assigns a role.
Bodies(d, u) ==
    {d} \cup {[d EXCEPT !.role[v] = role] :
                v \in {w \in Present(d) : d.role[u] = "owner" /\ w # d.owner},
                role \in {"moderator", "guest"}}

MutCommit(s) ==
    LET m == msg[s]  u == UserOf[s]  d == doc[m.room] IN
    /\ m.pc = "mutCommit" /\ d.part[u] # "none"
    /\ \E new \in Bodies(Reconciled(d, m.act), u) :
         doc' = [doc EXCEPT ![m.room] = [new EXCEPT !.part[u] = "on"]]
    /\ msg' = [msg EXCEPT ![s].pc = "lists", ![s].act = {},
                          ![s].rec = Reconnecting(d, m.act),
                          ![s].dis = Disconnecting(d, m.act)]
    /\ UNCHANGED <<ref, grace, pending, emptyAt, nodes, sock, close, sweep, gate>>

\* clearPrune and schedulePrune for the users the commit found changed.
Lists(s) ==
    /\ msg[s].pc = "lists"
    /\ Index(msg[s].room, msg[s].rec, msg[s].dis)
    /\ MsgDone(s)
    /\ UNCHANGED <<doc, ref, emptyAt, nodes, sock, close, sweep, gate>>

MsgStep(s) ==
    \/ Untrack(s) \/ JoinRefused(s) \/ ReadPresence(s) \/ JoinCommit(s)
    \/ PostDead(s) \/ PostAlive(s) \/ Bump(s) \/ Settle(s)
    \/ Lists(s) \/ Undo(s) \/ UndoRead(s) \/ UndoCommit(s) \/ UndoPrune(s)
    \/ MutNull(s) \/ MutCommit(s)

-----------------------------------------------------------------------------
(* The close event and handleSocketDisconnect.                             *)

CloseTo(s, pc) == close' = [close EXCEPT ![s].pc = pc, ![s].act = {}]

\* Mutant: the reference is left to the next reconciliation.
SocketClosedKeepsRef(s) ==
    /\ sock[s].state = "closing"
    /\ sock' = [sock EXCEPT ![s].state = "closed", ![s].reg = FALSE,
                            ![s].tracked = FALSE]
    /\ close' = [close EXCEPT ![s].pc = IF sock[s].reg THEN "read" ELSE "done",
                              ![s].room = sock[s].room]
    /\ UNCHANGED <<store, nodes, msg, sweep, gate>>

\* removeSocket; without an entry there is nothing to do.
SocketClosed(s) ==
    /\ sock[s].state = "closing"
    /\ sock' = [sock EXCEPT ![s].state = "closed", ![s].reg = FALSE,
                            ![s].tracked = FALSE]
    /\ close' = [close EXCEPT
         ![s].pc = IF ~sock[s].reg THEN "done"
                   ELSE IF sock[s].tracked THEN "dec" ELSE "read",
         ![s].room = sock[s].room]
    /\ UNCHANGED <<store, nodes, msg, sweep, gate>>

CloseDec(s) ==
    /\ close[s].pc = "dec"
    /\ Release(close[s].room, UserOf[s], NodeOf[s])
    /\ CloseTo(s, "read")
    /\ UNCHANGED <<doc, grace, pending, emptyAt, nodes, sock, msg, sweep, gate>>

CloseRead(s) ==
    /\ close[s].pc = "read"
    /\ close' = [close EXCEPT ![s].pc = "commit",
                              ![s].act = Online(close[s].room, NodeOf[s])]
    /\ UNCHANGED <<store, nodes, sock, msg, sweep, gate>>

\* Another connection of the user remains, or the room is gone.
CloseKeep(s) ==
    LET c == close[s] IN
    /\ c.pc = "commit"
    /\ UserOf[s] \in c.act \/ ~doc[c.room].exists
    /\ CloseTo(s, "done")
    /\ UNCHANGED <<store, nodes, sock, msg, sweep, gate>>

\* The user goes offline; with nobody left the room is marked and checked.
CloseOffline(s) ==
    LET c == close[s] IN
    /\ c.pc = "commit"
    /\ UserOf[s] \notin c.act /\ doc[c.room].exists
    /\ doc' = [doc EXCEPT ![c.room] = Offline(@, UserOf[s])]
    /\ CloseTo(s, IF c.act = {} THEN "gate" ELSE "prune")
    /\ gate' = IF c.act = {}
               THEN [gate EXCEPT ![s] = [pc |-> "note", room |-> c.room]] ELSE gate
    /\ UNCHANGED <<ref, grace, pending, emptyAt, nodes, sock, msg, sweep>>

CloseGated(s) ==
    /\ close[s].pc = "gate" /\ gate[s].pc \in {"kept", "destroyed"}
    /\ CloseTo(s, IF gate[s].pc = "kept" THEN "prune" ELSE "done")
    /\ gate' = [gate EXCEPT ![s] = IdleGate]
    /\ UNCHANGED <<store, nodes, sock, msg, sweep>>

ClosePrune(s) ==
    /\ close[s].pc = "prune"
    /\ Index(close[s].room, {}, {UserOf[s]})
    /\ CloseTo(s, "done")
    /\ UNCHANGED <<doc, ref, emptyAt, nodes, sock, msg, sweep, gate>>

CloseStep(s) ==
    \/ CloseDec(s) \/ CloseRead(s) \/ CloseKeep(s) \/ CloseOffline(s)
    \/ CloseGated(s) \/ ClosePrune(s)

-----------------------------------------------------------------------------
(* noteEmptyPresenceAndShouldDestroy, confirmEmptyRoomDestroyAllowed and    *)
(* destroyRoom, run by a close handler or a sweep, the task t.             *)

NodeOfTask(t) == IF t \in Socket THEN NodeOf[t] ELSE t
GateTo(t, pc) == gate' = [gate EXCEPT ![t].pc = pc]

\* Mutant: SET without NX, every observation starts the grace anew.
GateNoteAnew(t) ==
    /\ gate[t].pc = "note"
    /\ emptyAt' = [emptyAt EXCEPT ![gate[t].room] = "fresh"]
    /\ GateTo(t, "kept")
    /\ UNCHANGED <<doc, ref, grace, pending, nodes, sock, msg, close, sweep>>

\* SET NX of the marker, and a first look at it.
GateNote(t) ==
    LET r == gate[t].room IN
    /\ gate[t].pc = "note"
    /\ emptyAt' = [emptyAt EXCEPT ![r] = IF @ = "none" THEN "fresh" ELSE @]
    /\ GateTo(t, IF emptyAt[r] = "elapsed" THEN "presence" ELSE "kept")
    /\ UNCHANGED <<doc, ref, grace, pending, nodes, sock, msg, close, sweep>>

\* Somebody is back: the marker goes and the room stays.
GatePresence(t) ==
    LET r == gate[t].room  empty == Online(r, NodeOfTask(t)) = {} IN
    /\ gate[t].pc = "presence"
    /\ emptyAt' = IF empty THEN emptyAt ELSE [emptyAt EXCEPT ![r] = "none"]
    /\ GateTo(t, IF empty THEN "confirm" ELSE "kept")
    /\ UNCHANGED <<doc, ref, grace, pending, nodes, sock, msg, close, sweep>>

\* A join deletes the marker: without it the room stays.
GateConfirm(t) ==
    /\ gate[t].pc = "confirm"
    /\ GateTo(t, IF emptyAt[gate[t].room] = "elapsed" THEN "delete" ELSE "kept")
    /\ UNCHANGED <<store, nodes, sock, msg, close, sweep>>

\* destroyRoom: the indexed prunes of the room, then one DEL of the document,
\* the presence and the marker.  Nothing is looked at again.
GateDelete(t) ==
    LET r == gate[t].room IN
    /\ gate[t].pc = "delete"
    /\ grace' = [grace EXCEPT ![r] = @ \ pending[r]]
    /\ pending' = [pending EXCEPT ![r] = {}]
    /\ doc' = [doc EXCEPT ![r] = NoDoc]
    /\ ref' = [ref EXCEPT ![r] = [u \in User |-> [n \in Node |-> 0]]]
    /\ emptyAt' = [emptyAt EXCEPT ![r] = "none"]
    /\ GateTo(t, "destroyed")
    /\ UNCHANGED <<nodes, sock, msg, close, sweep>>

GateStep(t) == GateNote(t) \/ GatePresence(t) \/ GateConfirm(t) \/ GateDelete(t)

-----------------------------------------------------------------------------
(* The maintenance tick: cleanupInactiveRooms, then processDuePrunes.      *)

SweepTo(n, pc) == sweep' = [sweep EXCEPT ![n].pc = pc]

\* listRoomIds.
SweepStart(n) ==
    /\ n \in Sweepers \cap up /\ sweep[n].pc = "idle"
    /\ sweep' = [sweep EXCEPT ![n].pc = "rooms",
                              ![n].rooms = {r \in Room : doc[r].exists}]
    /\ UNCHANGED <<store, nodes, sock, msg, close, gate>>

SweepRead(n) ==
    /\ sweep[n].pc = "rooms"
    /\ \E r \in sweep[n].rooms :
         sweep' = [sweep EXCEPT ![n].pc = "commit", ![n].room = r,
                                ![n].rooms = @ \ {r}, ![n].act = Online(r, n)]
    /\ UNCHANGED <<store, nodes, sock, msg, close, gate>>

SweepCommit(n) ==
    LET w == sweep[n]  d == doc[w.room]  recon == Reconciled(d, w.act) IN
    /\ w.pc = "commit"
    /\ \E new \in IF d.exists THEN Transferred(recon, "cleanup") ELSE {d} :
         doc' = [doc EXCEPT ![w.room] = new]
    /\ sweep' = [sweep EXCEPT
         ![n].pc = "lists",
         ![n].rec = Reconnecting(d, w.act), ![n].dis = Disconnecting(d, w.act),
         ![n].past = {u \in User : recon.part[u] = "past"}]
    /\ UNCHANGED <<ref, grace, pending, emptyAt, nodes, sock, msg, close, gate>>

\* Mutant: participants past their grace are not put back on the index.
SweepListsNoDue(n) ==
    LET w == sweep[n] IN
    /\ w.pc = "lists"
    /\ Index(w.room, w.rec, w.dis)
    /\ sweep' = [sweep EXCEPT ![n] = [IdleSweep EXCEPT
                   !.pc = IF w.act = {} THEN "gate" ELSE "rooms", !.rooms = w.rooms]]
    /\ emptyAt' = IF w.act = {} THEN emptyAt ELSE [emptyAt EXCEPT ![w.room] = "none"]
    /\ gate' = IF w.act = {}
               THEN [gate EXCEPT ![n] = [pc |-> "note", room |-> w.room]] ELSE gate
    /\ UNCHANGED <<doc, ref, nodes, sock, msg, close>>

\* clearPrune, schedulePrune, and schedulePruneDue for those past their grace;
\* then the marker goes if the read found anyone, or the room is checked.
SweepLists(n) ==
    LET w == sweep[n] IN
    /\ w.pc = "lists"
    /\ grace' = [grace EXCEPT ![w.room] = ((@ \ w.rec) \cup w.dis) \ w.past]
    /\ pending' = [pending EXCEPT ![w.room] = (@ \ w.rec) \cup w.dis \cup w.past]
    /\ sweep' = [sweep EXCEPT ![n] = [IdleSweep EXCEPT
                   !.pc = IF w.act = {} THEN "gate" ELSE "rooms", !.rooms = w.rooms]]
    /\ emptyAt' = IF w.act = {} THEN emptyAt ELSE [emptyAt EXCEPT ![w.room] = "none"]
    /\ gate' = IF w.act = {}
               THEN [gate EXCEPT ![n] = [pc |-> "note", room |-> w.room]] ELSE gate
    /\ UNCHANGED <<doc, ref, nodes, sock, msg, close>>

SweepGated(n) ==
    /\ sweep[n].pc = "gate" /\ gate[n].pc \in {"kept", "destroyed"}
    /\ SweepTo(n, "rooms")
    /\ gate' = [gate EXCEPT ![n] = IdleGate]
    /\ UNCHANGED <<store, nodes, sock, msg, close>>

\* All rooms swept: the members of the prune index, read once.
SweepIndex(n) ==
    /\ sweep[n].pc = "rooms" /\ sweep[n].rooms = {}
    /\ sweep' = [sweep EXCEPT ![n].pc = "due",
                   ![n].todo = {ru \in Room \X User : ru[2] \in pending[ru[1]]}]
    /\ UNCHANGED <<store, nodes, sock, msg, close, gate>>

\* The next member: its grace key is read, and while it lives it is skipped.
SweepDue(n) ==
    /\ sweep[n].pc = "due"
    /\ \E ru \in sweep[n].todo :
         sweep' = [sweep EXCEPT ![n].todo = @ \ {ru},
           ![n].pc = IF ru[2] \in grace[ru[1]] THEN "due" ELSE "remove",
           ![n].room = ru[1], ![n].who = ru[2]]
    /\ UNCHANGED <<store, nodes, sock, msg, close, gate>>

\* Mutant: the pruned owner's room keeps its ownerId.
SweepRemoveNoTransfer(n) ==
    LET r == sweep[n].room  u == sweep[n].who  d == doc[r] IN
    /\ sweep[n].pc = "remove"
    /\ doc' = IF d.part[u] \in {"off", "past"}
              THEN [doc EXCEPT ![r].part[u] = "none", ![r].role[u] = "guest"] ELSE doc
    /\ SweepTo(n, "unindex")
    /\ UNCHANGED <<ref, grace, pending, emptyAt, nodes, sock, msg, close, gate>>

\* removeDisconnectedParticipant: nothing for one who is connected or gone.
SweepRemove(n) ==
    LET r == sweep[n].room  u == sweep[n].who  d == doc[r] IN
    /\ sweep[n].pc = "remove"
    /\ \E new \in IF d.part[u] \in {"off", "past"}
                  THEN Transferred([d EXCEPT !.part[u] = "none",
                                             !.role[u] = "guest"], "prune")
                  ELSE {d} :
         doc' = [doc EXCEPT ![r] = new]
    /\ SweepTo(n, "unindex")
    /\ UNCHANGED <<ref, grace, pending, emptyAt, nodes, sock, msg, close, gate>>

\* The member leaves the index whether or not it was removed from the room.
SweepUnindex(n) ==
    /\ sweep[n].pc = "unindex"
    /\ pending' = [pending EXCEPT ![sweep[n].room] = @ \ {sweep[n].who}]
    /\ SweepTo(n, "due")
    /\ UNCHANGED <<doc, ref, grace, emptyAt, nodes, sock, msg, close, gate>>

SweepEnd(n) ==
    /\ sweep[n].pc = "due" /\ sweep[n].todo = {}
    /\ sweep' = [sweep EXCEPT ![n] = IdleSweep]
    /\ UNCHANGED <<store, nodes, sock, msg, close, gate>>

SweepStep(n) ==
    \/ SweepStart(n) \/ SweepRead(n) \/ SweepCommit(n) \/ SweepLists(n)
    \/ SweepGated(n) \/ SweepIndex(n)
    \/ SweepDue(n) \/ SweepRemove(n) \/ SweepUnindex(n) \/ SweepEnd(n)

-----------------------------------------------------------------------------
(* Time, and processes that die.  disconnectedAt and the prune grace key   *)
(* are set together and last equally long: they run out together.          *)

PruneGraceOver(r, u) ==
    /\ u \in grace[r] \/ doc[r].part[u] = "off"
    /\ grace' = [grace EXCEPT ![r] = @ \ {u}]
    /\ doc' = [doc EXCEPT ![r].part[u] = IF @ = "off" THEN "past" ELSE @]
    /\ UNCHANGED <<ref, pending, emptyAt, nodes, sock, msg, close, sweep, gate>>

EmptyElapse(r) ==
    /\ r \in DyingRooms /\ emptyAt[r] = "fresh"
    /\ emptyAt' = [emptyAt EXCEPT ![r] = "elapsed"]
    /\ UNCHANGED <<doc, ref, grace, pending, nodes, sock, msg, close, sweep, gate>>

\* Process ids are fresh at every start, so a dead one never comes back.
Crash(n) ==
    /\ n \in MayCrash \cap up
    /\ up' = up \ {n}
    /\ sock' = [s \in Socket |-> IF NodeOf[s] = n
                  THEN [sock[s] EXCEPT !.state = "closed", !.reg = FALSE,
                                       !.tracked = FALSE]
                  ELSE sock[s]]
    /\ msg' = [s \in Socket |-> IF NodeOf[s] = n THEN IdleMsg ELSE msg[s]]
    /\ close' = [s \in Socket |-> IF NodeOf[s] = n
                  THEN [IdleClose EXCEPT !.pc = "done"] ELSE close[s]]
    /\ sweep' = [sweep EXCEPT ![n] = IdleSweep]
    /\ gate' = [t \in Task |-> IF NodeOfTask(t) = n THEN IdleGate ELSE gate[t]]
    /\ UNCHANGED <<store, alive>>

\* The heartbeat key of a dead process expires (TTL 45 s).
HeartbeatExpire(n) ==
    /\ n \in alive \ up
    /\ alive' = alive \ {n}
    /\ UNCHANGED <<store, up, sock, msg, close, sweep, gate>>

SocketStep(s) ==
    \/ SocketClosing(s) \/ SocketClosed(s)
    \/ \E r \in Room : JoinStart(s, r)
    \/ MutStart(s) \/ MsgStep(s) \/ CloseStep(s)

Next ==
    \/ \E s \in Socket : SocketStep(s)
    \/ \E t \in Task : GateStep(t)
    \/ \E n \in Node : SweepStep(n) \/ Crash(n) \/ HeartbeatExpire(n)
    \/ \E r \in Room, u \in User : PruneGraceOver(r, u)
    \/ \E r \in Room : EmptyElapse(r)

Spec == Init /\ [][Next]_vars

\* Replies come, a closing socket closes, timers fire and every process that
\* runs ticks again.  Nobody has to open, close or use a socket, or to crash.
Fairness ==
    /\ \A s \in Socket : WF_vars(SocketClosed(s)) /\ WF_vars(MsgStep(s))
                         /\ WF_vars(CloseStep(s))
    /\ \A t \in Task : WF_vars(GateStep(t))
    /\ \A n \in Node : WF_vars(SweepStep(n)) /\ WF_vars(HeartbeatExpire(n))
    /\ \A r \in Room, u \in User : WF_vars(PruneGraceOver(r, u))
    /\ \A r \in Room : WF_vars(EmptyElapse(r))
FairSpec == Spec /\ Fairness

-----------------------------------------------------------------------------
(* Correctness.                                                            *)

\* Among the participants exactly the one ownerId names has the owner role,
\* whoever joins, is pruned, reconciled or given a role (ownership.ts:74-82,
\* commit-membership.ts:115-117, participants.ts:163-165).
OneOwner ==
    \A r \in Room, u \in User :
        doc[r].exists /\ doc[r].part[u] # "none"
            => (doc[r].role[u] = "owner" <=> doc[r].owner = u)

\* A room that has participants has its owner among them: pruning the owner
\* hands the room on (R4, participants.ts:164).
OwnerIsParticipant ==
    \A r \in Room : doc[r].exists /\ Present(doc[r]) # {}
                        => doc[r].owner \in Present(doc[r])

\* The strengthening that is inductive: besides, an absent document has no
\* participant left and a stored one names a user.
OwnedDoc(d) ==
    IF d.exists
    THEN /\ d.owner \in User
         /\ \A u \in Present(d) : d.role[u] = "owner" <=> d.owner = u
         /\ Present(d) # {} => d.owner \in Present(d)
    ELSE Present(d) = {}
Ownership == \A r \in Room : OwnedDoc(doc[r])

\* The socket holds a reference in room r, or its release is on its way.
Holds(s, r) ==
    \/ sock[s].reg /\ sock[s].tracked /\ sock[s].room = r
    \/ msg[s].pc = "undo" /\ msg[s].room = r
    \/ close[s].pc = "dec" /\ close[s].room = r

\* A socket that joined again, was found dead after that join's commit and was
\* taken off the registry by the rollback, which drops no reference of an
\* earlier join: the close event finds no entry and drops none either.  A
\* socket that closes in order is never left behind, however often it joined.
LeftBehind(s, r) ==
    sock[s].orphan /\ sock[s].joins > 1 /\ sock[s].room = r

\* No process keeps a presence reference that no socket of it stands for or is
\* about to drop, but for one left behind per socket that died in a second
\* join: nobody stays online without a connection in any other way, however
\* join, rollback and close interleave (abort.ts:23-26, disconnect.ts:165-167).
NoGhostPresence ==
    \A r \in Room, u \in User, n \in up :
        ref[r][u][n] <=
            Cardinality({s \in Socket : /\ UserOf[s] = u /\ NodeOf[s] = n
                                       /\ (Holds(s, r) \/ LeftBehind(s, r))})

\* A socket contributes at most one reference to all rooms together, however
\* often and into whichever rooms it joins: the reference is added once per
\* socket (R2, membership-timing.ts:10) and the old room's is dropped first.
RefsInAllRooms(u, n) ==
    MapThenSumSet(LAMBDA r : ref[r][u][n], Room)
OneRefPerSocket ==
    \A u \in User, n \in Node :
        RefsInAllRooms(u, n) <=
            Cardinality({s \in Socket : UserOf[s] = u /\ NodeOf[s] = n})

\* A joined socket is open, registered and past joinCommitted.
Joined(s, r) ==
    sock[s].state = "open" /\ sock[s].reg /\ sock[s].committed /\ sock[s].room = r

\* A joined user counts as present (post-commit.ts:88-91, abort.ts:20).
JoinedIsPresent ==
    \A s \in Socket, r \in Room :
        Joined(s, r) => ref[r][UserOf[s]][NodeOf[s]] > 0

\* A room is not destroyed under a joined socket (cleanup.ts:108).
NoJoinedRoomDestroyed ==
    [][\A r \in Room : doc[r].exists /\ ~doc'[r].exists
          => \A s \in Socket : ~Joined(s, r)]_vars

Gone(u) == \A s \in Socket : UserOf[s] = u => sock[s].state = "closed"

\* A user all of whose sockets are closed, in order or with their process,
\* leaves the room in the end, also where the room itself lives on.
GoneIsPruned ==
    \A r \in Room, u \in User : Gone(u) ~> doc[r].part[u] = "none"

\* A room everybody has left is destroyed in the end.
EmptyRoomDies ==
    \A r \in DyingRooms :
        (\A u \in User : Gone(u)) ~> ~doc[r].exists
=============================================================================
