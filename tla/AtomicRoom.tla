----------------------------- MODULE AtomicRoom -----------------------------
(***************************************************************************)
(* What RoomStateStore.updateRoom promises: each call takes effect on the  *)
(* room document in one indivisible read-modify-write, or not at all.      *)
(* The document is abstracted to the set of calls whose mutation it        *)
(* contains, the one that created it included: NoRoom is the absent key.   *)
(***************************************************************************)
EXTENDS FiniteSets

CONSTANTS Call,     \* the updateRoom calls of a behaviour
          Room,     \* room ids
          RoomOf,   \* RoomOf[c] is the room call c updates
          Creators  \* the calls whose mutate accepts an absent room (joins)

VARIABLES room,     \* room[r] is the stored document
          outcome   \* what the caller of each call has observed

avars == <<room, outcome>>

Outcome == {"pending", "committed", "aborted", "threw", "crashed"}

NoRoom == {}

AInit ==
    /\ room = [r \in Room |-> NoRoom]
    /\ outcome = [c \in Call |-> "pending"]

\* The mutation is applied to the document as it is now.
Update(c) ==
    /\ outcome[c] = "pending"
    /\ room[RoomOf[c]] = NoRoom => c \in Creators
    /\ room' = [room EXCEPT ![RoomOf[c]] = @ \cup {c}]
    /\ outcome' = [outcome EXCEPT ![c] = "committed"]

\* mutate returned null, the retries ran out or the process died: no write.
GiveUp(c, how) ==
    /\ outcome[c] = "pending"
    /\ outcome' = [outcome EXCEPT ![c] = how]
    /\ UNCHANGED room

\* The calls of a process that dies together give up together.
Die(C) ==
    /\ C # {}
    /\ \A c \in C : outcome[c] = "pending"
    /\ outcome' = [c \in Call |-> IF c \in C THEN "crashed" ELSE outcome[c]]
    /\ UNCHANGED room

Delete(r) ==
    /\ room' = [room EXCEPT ![r] = NoRoom]
    /\ UNCHANGED outcome

ANext ==
    \/ \E c \in Call : Update(c) \/ GiveUp(c, "aborted") \/ GiveUp(c, "threw")
    \/ \E C \in SUBSET Call : Die(C)
    \/ \E r \in Room : Delete(r)

ASpec == AInit /\ [][ANext]_avars
=============================================================================
