-------------------------- MODULE RoomStoreProofs ---------------------------
(***************************************************************************)
(* Proofs about RoomStore, for every set of calls, rooms and processes.    *)
(***************************************************************************)
EXTENDS RoomStore, TLAPS

\* Type correctness, with the bound on attempts that updateRoom's loop keeps
\* (state-store.ts:100): a call still in its loop has an attempt left.
THEOREM TypeCorrect == Spec => []TypeOK
<1> USE StoreAssumption DEF TypeOK, Doc, NoRoom, InLoop, Finished
<1>1. Init => TypeOK
  BY DEF Init
<1>2. TypeOK /\ [Next]_vars => TypeOK'
  <2> SUFFICES ASSUME TypeOK, [Next]_vars PROVE TypeOK'
    OBVIOUS
  <2>1. ASSUME NEW c \in Call, Watch(c) PROVE TypeOK'
    BY <2>1 DEF Watch
  <2>2. ASSUME NEW c \in Call, Get(c) PROVE TypeOK'
    BY <2>2 DEF Get
  <2>3. ASSUME NEW c \in Call, MutateNull(c) PROVE TypeOK'
    BY <2>3 DEF MutateNull, Forget
  <2>4. ASSUME NEW c \in Call, ExecCommit(c) PROVE TypeOK'
    BY <2>4 DEF ExecCommit, WriteOver
  <2>5. ASSUME NEW c \in Call, ExecConflict(c) PROVE TypeOK'
    BY <2>5 DEF ExecConflict, Forget
  <2>6. ASSUME NEW c \in Call, Retry(c) PROVE TypeOK'
    BY <2>6 DEF Retry, Forget
  <2>11. ASSUME NEW c \in Call, ExecRejected(c) PROVE TypeOK'
    BY <2>11 DEF ExecRejected, Forget
  <2>12. ASSUME NEW c \in Call, MutateThrows(c) PROVE TypeOK'
    BY <2>12 DEF MutateThrows
  <2>7. ASSUME NEW p \in Touchers, NEW r \in Room, Touch(p, r) PROVE TypeOK'
    BY <2>7 DEF Touch, Forget, WriteOver
  <2>8. ASSUME NEW p \in Deleters, NEW r \in Room, Delete(p, r) PROVE TypeOK'
    BY <2>8 DEF Delete, Signal
  <2>9. ASSUME NEW p \in Proc, Crash(p) PROVE TypeOK'
    BY <2>9 DEF Crash, Forget
  <2>10. CASE UNCHANGED vars
    BY <2>10 DEF vars
  <2> QED
    BY <2>1, <2>2, <2>3, <2>4, <2>5, <2>6, <2>7, <2>8, <2>9, <2>10, <2>11, <2>12
       DEF Next, Step
<1> QED
  BY <1>1, <1>2, PTL DEF Spec

-----------------------------------------------------------------------------
\* The server marks a watcher before a change can be missed: as long as the
\* calls of a process do not overlap, an unflagged call has read what is stored.
LEMMA ReadStaysFresh ==
  ASSUME PrivateConnections
  PROVE  Spec => []ReadIsFresh
<1> USE StoreAssumption DEF ReadIsFresh
<1>1. Init => ReadIsFresh
  BY DEF Init
<1>2. TypeOK /\ ReadIsFresh /\ [Next]_vars => ReadIsFresh'
  <2> SUFFICES ASSUME TypeOK, ReadIsFresh, [Next]_vars PROVE ReadIsFresh'
    OBVIOUS
  <2> USE DEF TypeOK, PrivateConnections
  <2>1. ASSUME NEW c \in Call, Watch(c) PROVE ReadIsFresh'
    BY <2>1 DEF Watch
  <2>2. ASSUME NEW c \in Call, Get(c) PROVE ReadIsFresh'
    BY <2>2 DEF Get
  <2>3. ASSUME NEW c \in Call, MutateNull(c) PROVE ReadIsFresh'
    BY <2>3 DEF MutateNull, Forget
  <2>4. ASSUME NEW c \in Call, ExecCommit(c) PROVE ReadIsFresh'
    BY <2>4 DEF ExecCommit, WriteOver
  <2>5. ASSUME NEW c \in Call, ExecConflict(c) PROVE ReadIsFresh'
    BY <2>5 DEF ExecConflict, Forget
  <2>6. ASSUME NEW c \in Call, Retry(c) PROVE ReadIsFresh'
    BY <2>6 DEF Retry, Forget
  <2>11. ASSUME NEW c \in Call, ExecRejected(c) PROVE ReadIsFresh'
    BY <2>11 DEF ExecRejected, Forget
  <2>12. ASSUME NEW c \in Call, MutateThrows(c) PROVE ReadIsFresh'
    BY <2>12 DEF MutateThrows
  <2>7. ASSUME NEW p \in Touchers, NEW r \in Room, Touch(p, r)
        PROVE ReadIsFresh'
    BY <2>7 DEF Touch, Forget, WriteOver
  <2>8. ASSUME NEW p \in Deleters, NEW r \in Room, Delete(p, r)
        PROVE ReadIsFresh'
    BY <2>8 DEF Delete, Signal
  <2>9. ASSUME NEW p \in Proc, Crash(p) PROVE ReadIsFresh'
    BY <2>9 DEF Crash, Forget, InLoop
  <2>10. CASE UNCHANGED vars
    BY <2>10 DEF vars
  <2> QED
    BY <2>1, <2>2, <2>3, <2>4, <2>5, <2>6, <2>7, <2>8, <2>9, <2>10, <2>11, <2>12
       DEF Next, Step
<1> QED
  BY <1>1, <1>2, TypeCorrect, PTL DEF Spec

\* A committed SET replaces exactly the document its call read: no concurrent
\* update of another process is written over (state-store.ts:87-89).
THEOREM NoOverwrite ==
  ASSUME PrivateConnections
  PROVE  Spec => OverwritesOnlyWhatItRead
<1> USE StoreAssumption
<1>1. TypeOK /\ ReadIsFresh /\ [Next]_vars
        => [\A c \in Call : pc[c] # "committed" /\ pc'[c] = "committed"
                => cur[c] = room[RoomOf[c]]]_vars
  <2> SUFFICES ASSUME TypeOK, ReadIsFresh, Next, NEW c \in Call,
                      pc[c] # "committed", pc'[c] = "committed"
               PROVE  cur[c] = room[RoomOf[c]]
    OBVIOUS
  <2>1. ExecCommit(c)
    BY DEF Next, Step, Watch, Get, MutateNull, ExecCommit, ExecConflict, Retry,
           ExecRejected, MutateThrows, Touch, Delete, Crash, TypeOK
  <2> QED
    BY <2>1 DEF ExecCommit, ReadIsFresh
<1> QED
  BY <1>1, TypeCorrect, ReadStaysFresh, PTL DEF Spec, OverwritesOnlyWhatItRead

-----------------------------------------------------------------------------
\* updateRoom is an indivisible read-modify-write: each of its commands is a
\* step of AtomicRoom or leaves room and outcomes as they are.
THEOREM Atomicity ==
  ASSUME PrivateConnections
  PROVE  Spec => ImplementsAtomicRoom
<1> USE StoreAssumption
<1> DEFINE out == [c \in Call |-> IF Pending(c) THEN "pending" ELSE pc[c]]
<1>1. Init => A!AInit
  BY DEF Init, A!AInit, Pending, InLoop, NoRoom, A!NoRoom
<1>2. TypeOK /\ ReadIsFresh /\ [Next]_vars => [A!ANext]_(A!avars)
  <2> SUFFICES ASSUME TypeOK, ReadIsFresh, [Next]_vars
               PROVE  [A!ANext]_(A!avars)
    OBVIOUS
  <2> USE DEF Pending, InLoop, A!avars
  <2>1. ASSUME NEW c \in Call, Watch(c) PROVE UNCHANGED A!avars
    BY <2>1 DEF Watch, TypeOK
  <2>2. ASSUME NEW c \in Call, Get(c) PROVE UNCHANGED A!avars
    BY <2>2 DEF Get, TypeOK
  <2>3. ASSUME NEW c \in Call, MutateNull(c) PROVE A!GiveUp(c, "aborted")
    BY <2>3 DEF MutateNull, TypeOK, A!GiveUp
  <2>4. ASSUME NEW c \in Call, ExecCommit(c) PROVE A!Update(c)
    BY <2>4 DEF ExecCommit, Mutable, TypeOK, ReadIsFresh, NoRoom, A!NoRoom,
                A!Update
  <2>5. ASSUME NEW c \in Call, ExecConflict(c) PROVE UNCHANGED A!avars
    BY <2>5 DEF ExecConflict, TypeOK
  <2>6. ASSUME NEW c \in Call, Retry(c)
        PROVE A!GiveUp(c, "threw") \/ UNCHANGED A!avars
    BY <2>6 DEF Retry, TypeOK, A!GiveUp
  <2>11. ASSUME NEW c \in Call, ExecRejected(c) PROVE A!GiveUp(c, "threw")
    BY <2>11 DEF ExecRejected, TypeOK, A!GiveUp
  <2>12. ASSUME NEW c \in Call, MutateThrows(c) PROVE A!GiveUp(c, "threw")
    BY <2>12 DEF MutateThrows, TypeOK, A!GiveUp
  <2>7. ASSUME NEW p \in Touchers, NEW r \in Room, Touch(p, r)
        PROVE UNCHANGED A!avars
    BY <2>7 DEF Touch
  <2>8. ASSUME NEW p \in Deleters, NEW r \in Room, Delete(p, r)
        PROVE A!Delete(r)
    BY <2>8 DEF Delete, A!Delete, NoRoom, A!NoRoom
  <2>9. ASSUME NEW p \in Proc, Crash(p) PROVE \E C \in SUBSET Call : A!Die(C)
    <3> DEFINE lost == {c \in Call : ProcOf[c] = p /\ pc[c] \in InLoop}
    <3>1. /\ lost # {}
          /\ \A c \in lost : Pending(c)
          /\ out' = [c \in Call |-> IF c \in lost THEN "crashed" ELSE out[c]]
          /\ UNCHANGED room
      BY <2>9 DEF Crash, TypeOK
    <3>2. lost \in SUBSET Call
      OBVIOUS
    <3> HIDE DEF lost
    <3> QED
      BY <3>1, <3>2 DEF A!Die
  <2>10. CASE UNCHANGED vars
    BY <2>10 DEF vars
  <2> QED
    BY <2>1, <2>2, <2>3, <2>4, <2>5, <2>6, <2>7, <2>8, <2>9, <2>10, <2>11, <2>12
       DEF Next, Step, A!ANext
<1> QED
  BY <1>1, <1>2, TypeCorrect, ReadStaysFresh, PTL
     DEF Spec, ImplementsAtomicRoom, A!ASpec
=============================================================================
