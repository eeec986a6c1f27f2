----------------------------- MODULE RoomStore ------------------------------
(***************************************************************************)
(* RoomStateStore.updateRoom (server/redis/state-store.ts): the optimistic *)
(* read-modify-write of a room document, WATCH / GET / mutate / MULTI SET  *)
(* EXEC, with bounded retries.  Every process sends its commands over ONE  *)
(* shared connection (server/redis/client.ts, slot.command), and WATCH,    *)
(* EXEC and UNWATCH act on the connection, not on the call that sent them. *)
(* One step is one command the server executes, with the synchronous code  *)
(* that follows its reply; other calls run between any two of them.        *)
(*                                                                         *)
(* The document is abstracted to the set of calls whose mutation it holds, *)
(* the call that created it included; NoRoom is the absent key.            *)
(***************************************************************************)
EXTENDS Naturals, FiniteSets

CONSTANTS Call,        \* the updateRoom calls of a behaviour
          Room,        \* room ids
          Proc,        \* server processes, one Redis connection each
          RoomOf,      \* RoomOf[c] is the room call c updates
          ProcOf,      \* ProcOf[c] is the process that makes call c
          Creators,    \* the calls whose mutate accepts an absent room (joins)
          Touchers,    \* processes that refresh the TTL of a room's keys
          Deleters,    \* processes that destroy a room
          MaxAttempts  \* UPDATE_ROOM_MAX_ATTEMPTS (12 in the code)

ASSUME StoreAssumption ==
    /\ RoomOf \in [Call -> Room]
    /\ ProcOf \in [Call -> Proc]
    /\ Creators \subseteq Call
    /\ Touchers \subseteq Proc
    /\ Deleters \subseteq Proc
    /\ MaxAttempts \in Nat \ {0}

VARIABLES
    room,    \* room[r]: the document under the key of room r
    watch,   \* watch[p]: the room keys the connection of p watches
    dirty,   \* dirty[p]: a watched key changed, so the next EXEC returns null
    pc,      \* where each call is
    cur,     \* cur[c]: the document call c last read
    attempt  \* attempt[c]: attempts that ended in a conflict

vars == <<room, watch, dirty, pc, cur, attempt>>

NoRoom == {}
Doc == SUBSET Call
Finished == {"committed", "aborted", "threw", "crashed"}
InLoop == {"start", "watched", "read", "conflict"}

TypeOK ==
    /\ room \in [Room -> Doc]
    /\ watch \in [Proc -> SUBSET Room]
    /\ dirty \in [Proc -> BOOLEAN]
    /\ pc \in [Call -> InLoop \cup Finished]
    /\ cur \in [Call -> Doc]
    /\ attempt \in [Call -> 0..MaxAttempts]
    /\ \A c \in Call : pc[c] \in InLoop => attempt[c] < MaxAttempts

Init ==
    /\ room = [r \in Room |-> NoRoom]
    /\ watch = [p \in Proc |-> {}]
    /\ dirty = [p \in Proc |-> FALSE]
    /\ pc = [c \in Call |-> "start"]
    /\ cur = [c \in Call |-> NoRoom]
    /\ attempt = [c \in Call |-> 0]

-----------------------------------------------------------------------------
(* The server's side of WATCH.                                             *)

\* The connection of p forgets its watched keys: UNWATCH, EXEC, disconnect.
Forget(p) ==
    /\ watch' = [watch EXCEPT ![p] = {}]
    /\ dirty' = [dirty EXCEPT ![p] = FALSE]

\* A write to the key of r flags every connection that watches it; the writing
\* connection p has dropped its own watches (EXEC does so before it runs).
WriteOver(p, r) ==
    /\ watch' = [watch EXCEPT ![p] = {}]
    /\ dirty' = [q \in Proc |-> q # p /\ (dirty[q] \/ r \in watch[q])]

\* A plain command that changes the key of r flags every watching connection,
\* its own included.
Signal(r) ==
    /\ dirty' = [q \in Proc |-> dirty[q] \/ r \in watch[q]]
    /\ UNCHANGED watch

-----------------------------------------------------------------------------
(* One updateRoom call.                                                    *)

Watch(c) ==
    /\ pc[c] = "start"
    /\ watch' = [watch EXCEPT ![ProcOf[c]] = @ \cup {RoomOf[c]}]
    /\ pc' = [pc EXCEPT ![c] = "watched"]
    /\ UNCHANGED <<room, dirty, cur, attempt>>

Get(c) ==
    /\ pc[c] = "watched"
    /\ cur' = [cur EXCEPT ![c] = room[RoomOf[c]]]
    /\ pc' = [pc EXCEPT ![c] = "read"]
    /\ UNCHANGED <<room, watch, dirty, attempt>>

\* mutate(current) returned null: UNWATCH, no write, updateRoom returns null.
MutateNull(c) ==
    /\ pc[c] = "read"
    /\ Forget(ProcOf[c])
    /\ pc' = [pc EXCEPT ![c] = "aborted"]
    /\ UNCHANGED <<room, cur, attempt>>

\* mutate(current) returned a document.
Mutable(c) == cur[c] = NoRoom => c \in Creators

\* Mutant: the EXEC reply is not looked at and the SET is sent without a WATCH.
ExecBlind(c) ==
    /\ pc[c] = "read"
    /\ Mutable(c)
    /\ room' = [room EXCEPT ![RoomOf[c]] = cur[c] \cup {c}]
    /\ WriteOver(ProcOf[c], RoomOf[c])
    /\ pc' = [pc EXCEPT ![c] = "committed"]
    /\ UNCHANGED <<cur, attempt>>

ExecCommit(c) ==
    /\ pc[c] = "read"
    /\ Mutable(c)
    /\ ~dirty[ProcOf[c]]
    /\ room' = [room EXCEPT ![RoomOf[c]] = cur[c] \cup {c}]
    /\ WriteOver(ProcOf[c], RoomOf[c])
    /\ pc' = [pc EXCEPT ![c] = "committed"]
    /\ UNCHANGED <<cur, attempt>>

\* EXEC returned null.
ExecConflict(c) ==
    /\ pc[c] = "read"
    /\ Mutable(c)
    /\ dirty[ProcOf[c]]
    /\ Forget(ProcOf[c])
    /\ pc' = [pc EXCEPT ![c] = "conflict"]
    /\ UNCHANGED <<room, cur, attempt>>

\* The same, by a client that reports the null reply as a rejected promise:
\* nothing catches it, and the caller sees the error at the first conflict.
ExecRejected(c) ==
    /\ pc[c] = "read"
    /\ Mutable(c)
    /\ dirty[ProcOf[c]]
    /\ Forget(ProcOf[c])
    /\ pc' = [pc EXCEPT ![c] = "threw"]
    /\ UNCHANGED <<room, cur, attempt>>

\* mutate(current) threw: no write and no UNWATCH, the connection goes on
\* watching the key.
MutateThrows(c) ==
    /\ pc[c] = "read"
    /\ pc' = [pc EXCEPT ![c] = "threw"]
    /\ UNCHANGED <<room, watch, dirty, cur, attempt>>

\* Mutant: the attempt is not counted, so a call may retry for ever.
RetryForever(c) ==
    /\ pc[c] = "conflict"
    /\ Forget(ProcOf[c])
    /\ pc' = [pc EXCEPT ![c] = "start"]
    /\ UNCHANGED <<room, cur, attempt>>

\* Mutant: one attempt too many.
RetryOneMore(c) ==
    /\ pc[c] = "conflict"
    /\ Forget(ProcOf[c])
    /\ attempt' = [attempt EXCEPT ![c] = @ + 1]
    /\ pc' = [pc EXCEPT ![c] = IF attempt[c] < MaxAttempts THEN "start" ELSE "threw"]
    /\ UNCHANGED <<room, cur>>

\* After a conflict: UNWATCH, then sleep and go round again, or throw.
Retry(c) ==
    /\ pc[c] = "conflict"
    /\ Forget(ProcOf[c])
    /\ attempt' = [attempt EXCEPT ![c] = @ + 1]
    /\ pc' = [pc EXCEPT ![c] =
                IF attempt[c] + 1 < MaxAttempts THEN "start" ELSE "threw"]
    /\ UNCHANGED <<room, cur>>

Step(c) ==
    \/ Watch(c) \/ Get(c) \/ MutateNull(c) \/ MutateThrows(c)
    \/ ExecCommit(c) \/ ExecConflict(c) \/ ExecRejected(c) \/ Retry(c)

-----------------------------------------------------------------------------
(* Other commands of the same connections.                                 *)

\* touchWsPresence: MULTI EXPIRE... EXEC.  EXPIRE of an existing key counts as
\* a change to those who watch it; when the connection is dirty the EXEC does
\* nothing.  Either way the connection loses its watches.
Touch(p, r) ==
    /\ IF room[r] # NoRoom /\ ~dirty[p] THEN WriteOver(p, r) ELSE Forget(p)
    /\ UNCHANGED <<room, pc, cur, attempt>>

\* store.delete: DEL of the room's keys.
Delete(p, r) ==
    /\ room[r] # NoRoom
    /\ room' = [room EXCEPT ![r] = NoRoom]
    /\ Signal(r)
    /\ UNCHANGED <<pc, cur, attempt>>

\* The process dies: its connection closes, its calls are never answered.
Crash(p) ==
    LET lost == {c \in Call : ProcOf[c] = p /\ pc[c] \in InLoop} IN
    /\ lost # {}
    /\ Forget(p)
    /\ pc' = [c \in Call |-> IF c \in lost THEN "crashed" ELSE pc[c]]
    /\ UNCHANGED <<room, cur, attempt>>

Next ==
    \/ \E c \in Call : Step(c)
    \/ \E p \in Touchers, r \in Room : Touch(p, r)
    \/ \E p \in Deleters, r \in Room : Delete(p, r)
    \/ \E p \in Proc : Crash(p)

Spec == Init /\ [][Next]_vars

\* The event loop eventually runs the continuation of every command's reply.
Fairness == \A c \in Call : WF_vars(Step(c))
FairSpec == Spec /\ Fairness

-----------------------------------------------------------------------------
(* Correctness.                                                            *)

\* No two updateRoom calls of one process overlap and no TTL refresh of the
\* process runs during one.  Nothing in the code ensures this: the runs that
\* need it say so in their constants, the theorems in their hypotheses.
PrivateConnections ==
    /\ \A c, d \in Call : ProcOf[c] = ProcOf[d] => c = d
    /\ \A c \in Call : ProcOf[c] \notin Touchers

\* A call whose connection is not flagged still watches its key, and what it
\* read is what is stored: the strengthening behind the two properties below.
ReadIsFresh ==
    \A c \in Call : pc[c] \in {"watched", "read"} =>
        \/ dirty[ProcOf[c]]
        \/ /\ RoomOf[c] \in watch[ProcOf[c]]
           /\ pc[c] = "read" => cur[c] = room[RoomOf[c]]

Pending(c) == pc[c] \in InLoop

\* Every committed call replaced exactly the document it had read: a change
\* made by anyone between the GET and the SET makes EXEC fail, and the call is
\* retried rather than written over it (state-store.ts:87-89).
OverwritesOnlyWhatItRead ==
    [][\A c \in Call : pc[c] # "committed" /\ pc'[c] = "committed"
          => cur[c] = room[RoomOf[c]]]_vars

\* While the calls of a process do not overlap, updateRoom is an indivisible
\* read-modify-write, an aborted or failed call writes nothing, and a process
\* that dies in the middle leaves no partial effect.
A == INSTANCE AtomicRoom WITH
        outcome <- [c \in Call |-> IF Pending(c) THEN "pending" ELSE pc[c]]
ImplementsAtomicRoom == A!ASpec

\* Every call ends, however often others write or refresh its room: the loop
\* is bounded and nothing holds a lock (state-store.ts:100,128).
EveryCallEnds == \A c \in Call : <>(~Pending(c))

=============================================================================
