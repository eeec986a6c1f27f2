-------------------------- MODULE MembershipProofs --------------------------
(***************************************************************************)
(* Proofs about Membership, for every set of rooms, users, processes and   *)
(* sockets: type correctness, then ownership.                              *)
(***************************************************************************)
EXTENDS Membership, TLAPS

-----------------------------------------------------------------------------
(* Types of the operators.                                                 *)

\* The resting state of every handler is well formed.
LEMMA IdleTypes ==
    /\ SomeRoom \in Room /\ SomeUser \in User
    /\ IdleMsg \in Msg /\ IdleClose \in Close /\ IdleSweep \in Sweep
    /\ IdleGate \in Gate /\ NoDoc \in Doc
<1>1. SomeRoom \in Room /\ SomeUser \in User
  BY MembershipAssumption DEF SomeRoom, SomeUser
<1>2. IdleMsg \in Msg
  BY <1>1 DEF IdleMsg, Msg, MsgPc
<1>3. IdleClose \in Close
  BY <1>1 DEF IdleClose, Close, ClosePc
<1>4. IdleSweep \in Sweep
  BY <1>1 DEF IdleSweep, Sweep, SweepPc
<1>5. IdleGate \in Gate
  BY <1>1 DEF IdleGate, Gate, GatePc
<1>6. NoDoc \in Doc
  BY DEF NoDoc, Doc, Standing, Role
<1> QED
  BY <1>1, <1>2, <1>3, <1>4, <1>5, <1>6

\* A presence read names users.
LEMMA OnlineType ==
  ASSUME NEW r, NEW n
  PROVE  Online(r, n) \in SUBSET User
BY DEF Online

\* Reconciling moves participants between connected and not, nothing else.
LEMMA ReconciledType ==
  ASSUME NEW d \in Doc, NEW act
  PROVE  /\ Reconciled(d, act) \in Doc
         /\ Reconciled(d, act).exists = d.exists
         /\ Reconciled(d, act).owner = d.owner
         /\ Reconciled(d, act).role = d.role
         /\ \A u \in User : Reconciled(d, act).part[u] = "none" <=> d.part[u] = "none"
BY DEF Reconciled, Disconnecting, Reconnecting, Present, Connected, Doc, Standing

\* A transfer changes who is owner and two roles, and only names a participant.
LEMMA TransferredType ==
  ASSUME NEW d \in Doc, NEW reason, NEW new \in Transferred(d, reason)
  PROVE  /\ new \in Doc
         /\ new.exists = d.exists
         /\ new.part = d.part
<1>1. CASE new = d
  BY <1>1
<1>2. CASE new # d
  <2>1. PICK u \in Heirs(d, reason) : new = Promote(d, u)
    BY <1>2 DEF Transferred
  <2>2. u \in User
    BY <2>1 DEF Heirs, Candidates, Present, Connected
  <2> QED
    BY <2>1, <2>2 DEF Promote, Doc, Role
<1> QED
  BY <1>1, <1>2

\* The participant upsert of a join keeps the document well formed
\* (commit-membership.ts:113-154).
LEMMA JoinerType ==
  ASSUME NEW d \in Doc, NEW u \in User
  PROVE  WithJoiner(d, u) \in Doc
BY MembershipAssumption DEF WithJoiner, Doc, Standing, Role

\* Marking a user offline keeps the document well formed.
LEMMA OfflineType ==
  ASSUME NEW d \in Doc, NEW u \in User
  PROVE  Offline(d, u) \in Doc
BY DEF Offline, Doc, Standing

\* So does the role assignment of a room message.
LEMMA BodiesType ==
  ASSUME NEW d \in Doc, NEW u \in User, NEW new \in Bodies(d, u)
  PROVE  new \in Doc /\ new.part = d.part /\ new.exists = d.exists /\ new.owner = d.owner
BY DEF Bodies, Doc, Role, Present

-----------------------------------------------------------------------------
(* Type correctness.                                                       *)

\* An action that replaces one document by a well-formed one keeps all of them
\* well formed.
LEMMA RoomTypes ==
  ASSUME TypeOK
  PROVE  /\ \A s \in Socket : msg[s].room \in Room /\ close[s].room \in Room
                              /\ sock[s].room \in Room
         /\ \A n \in Node : sweep[n].room \in Room /\ sweep[n].who \in User
         /\ \A t \in Task : gate[t].room \in Room
         /\ \A s \in Socket : UserOf[s] \in User /\ NodeOf[s] \in Node /\ s \in Task
         /\ \A n \in Node : n \in Task
BY MembershipAssumption DEF TypeOK, Msg, Close, Sock, Sweep, Gate, Task

\* The helpers that move one handler on keep its variable well typed.
LEMMA MsgToType ==
  ASSUME TypeOK, NEW s \in Socket, NEW pc \in MsgPc, MsgTo(s, pc)
  PROVE  msg' \in [Socket -> Msg]
<1>1. msg \in [Socket -> Msg] /\ msg[s] \in Msg
  BY DEF TypeOK
<1>2. [msg[s] EXCEPT !.pc = pc] \in Msg
  BY <1>1 DEF Msg
<1> QED
  BY <1>1, <1>2 DEF MsgTo

\* The message handler that ends is idle again.
LEMMA MsgDoneType ==
  ASSUME TypeOK, NEW s \in Socket, MsgDone(s)
  PROVE  msg' \in [Socket -> Msg]
BY IdleTypes DEF TypeOK, MsgDone

\* The same for the handler of the close event.
LEMMA CloseToType ==
  ASSUME TypeOK, NEW s \in Socket, NEW pc \in ClosePc, CloseTo(s, pc)
  PROVE  close' \in [Socket -> Close]
BY DEF TypeOK, CloseTo, Close

\* The same for the empty-room check.
LEMMA GateToType ==
  ASSUME TypeOK, NEW t \in Task, NEW pc \in GatePc, GateTo(t, pc)
  PROVE  gate' \in [Task -> Gate]
BY DEF TypeOK, GateTo, Gate

\* The same for the maintenance tick.
LEMMA SweepToType ==
  ASSUME TypeOK, NEW n \in Node, NEW pc \in SweepPc, SweepTo(n, pc)
  PROVE  sweep' \in [Node -> Sweep]
<1>1. sweep[n] \in Sweep
  BY DEF TypeOK
<1>2. [sweep[n] EXCEPT !.pc = pc] \in Sweep
  BY <1>1 DEF Sweep
<1> QED
  BY <1>2 DEF TypeOK, SweepTo

\* The prune index and the presence counts keep their types.
LEMMA IndexType ==
  ASSUME TypeOK, NEW r \in Room, NEW rec, NEW dis \in SUBSET User, Index(r, rec, dis)
  PROVE  grace' \in [Room -> SUBSET User] /\ pending' \in [Room -> SUBSET User]
BY DEF TypeOK, Index

\* A presence reference added leaves natural numbers.
LEMMA AcquireType ==
  ASSUME TypeOK, NEW r \in Room, NEW u \in User, NEW n \in Node, Acquire(r, u, n)
  PROVE  ref' \in [Room -> [User -> [Node -> Nat]]]
BY DEF TypeOK, Acquire

\* A presence reference dropped never goes below zero (presence-lua.ts:28-33).
LEMMA ReleaseType ==
  ASSUME TypeOK, NEW r \in Room, NEW u \in User, NEW n \in Node, Release(r, u, n)
  PROVE  ref' \in [Room -> [User -> [Node -> Nat]]]
BY DEF TypeOK, Release

\* The initial state is well typed.
LEMMA InitTypes == Init => TypeOK
<1> SUFFICES ASSUME Init PROVE TypeOK
  OBVIOUS
<1>1. sock \in [Socket -> Sock]
  BY IdleTypes, MembershipAssumption DEF Init, Sock
<1> QED
  BY <1>1, IdleTypes DEF Init, TypeOK

\* Every action preserves the type invariant: one step per action.
LEMMA NextTypes == TypeOK /\ [Next]_vars => TypeOK'
<1> SUFFICES ASSUME TypeOK, [Next]_vars PROVE TypeOK'
  OBVIOUS
<1> USE MembershipAssumption DEF store, nodes
<1>1. ASSUME NEW s \in Socket, SocketClosing(s) PROVE TypeOK'
  <2>1. sock' \in [Socket -> Sock]
    <3>1. [sock[s] EXCEPT !.state = "closing"] \in Sock
      <4>1. sock[s] \in Sock
        BY RoomTypes DEF TypeOK
      <4> QED
        BY <4>1 DEF Sock
    <3> QED
      BY <1>1, <3>1 DEF SocketClosing, TypeOK
  <2> QED
    BY <1>1, <2>1 DEF SocketClosing, TypeOK
<1>2. ASSUME NEW s \in Socket, NEW r \in Room, JoinStart(s, r) PROVE TypeOK'
  <2>1. sock' \in [Socket -> Sock]
    <3>1. [sock[s] EXCEPT !.joins = @ + 1] \in Sock
      <4>1. sock[s] \in Sock /\ sock[s].joins < MaxJoins
        BY <1>2, RoomTypes DEF TypeOK, JoinStart
      <4> QED
        BY <4>1 DEF Sock
    <3> QED
      BY <1>2, <3>1 DEF JoinStart, TypeOK
  <2>2. msg' \in [Socket -> Msg]
    <3>1. [IdleMsg EXCEPT
              !.pc = IF (sock[s].reg /\ sock[s].tracked) /\ sock[s].room # r
                     THEN "untrack" ELSE "read",
              !.room = r, !.already = sock[s].reg /\ sock[s].tracked] \in Msg
      <4>1. msg[s] \in Msg /\ sock[s] \in Sock /\ r \in Room
        BY RoomTypes, IdleTypes DEF TypeOK
      <4> QED
        BY <4>1, IdleTypes DEF Msg, MsgPc, Sock
    <3> QED
      BY <1>2, <3>1 DEF JoinStart, TypeOK
  <2> QED
    BY <1>2, <2>1, <2>2 DEF JoinStart, TypeOK
<1>3. ASSUME NEW s \in Socket, Untrack(s) PROVE TypeOK'
  <2>1. ref' \in [Room -> [User -> [Node -> Nat]]]
    BY <1>3, RoomTypes, ReleaseType DEF Untrack
  <2>2. sock' \in [Socket -> Sock]
    <3>1. [sock[s] EXCEPT !.tracked = FALSE] \in Sock
      <4>1. sock[s] \in Sock
        BY RoomTypes DEF TypeOK
      <4> QED
        BY <4>1 DEF Sock
    <3> QED
      BY <1>3, <3>1 DEF Untrack, TypeOK
  <2>3. msg' \in [Socket -> Msg]
    BY <1>3, RoomTypes, MsgToType DEF Untrack, MsgPc
  <2> QED
    BY <1>3, <2>1, <2>2, <2>3 DEF Untrack, TypeOK
<1>4. ASSUME NEW s \in Socket, JoinRefused(s) PROVE TypeOK'
  BY <1>4, MsgDoneType DEF JoinRefused, TypeOK
<1>5. ASSUME NEW s \in Socket, ReadPresence(s) PROVE TypeOK'
  <2>1. msg' \in [Socket -> Msg]
    <3>1. [msg[s] EXCEPT !.pc = IF @ = "read" THEN "commit" ELSE "mutCommit",
                        !.act = Online(msg[s].room, NodeOf[s])] \in Msg
      <4>1. msg[s] \in Msg
        BY RoomTypes, OnlineType DEF TypeOK
      <4> QED
        BY <4>1, OnlineType DEF Msg, MsgPc
    <3> QED
      BY <1>5, <3>1 DEF ReadPresence, TypeOK
  <2> QED
    BY <1>5, <2>1 DEF ReadPresence, TypeOK
<1>6. ASSUME NEW s \in Socket, JoinCommit(s) PROVE TypeOK'
  <2> DEFINE d == doc[msg[s].room]
             base == IF d.exists THEN d
                     ELSE [NoDoc EXCEPT !.exists = TRUE, !.owner = UserOf[s]]
             joined == WithJoiner(Reconciled(base, msg[s].act), UserOf[s])
  <2>1. doc' \in [Room -> Doc]
    <3>1. base \in Doc
      BY IdleTypes, RoomTypes DEF TypeOK, Doc
    <3>2. joined \in Doc
      BY <3>1, RoomTypes, ReconciledType, JoinerType
    <3>3. PICK new \in Transferred(joined, "join") : doc' = [doc EXCEPT ![msg[s].room] = new]
      BY <1>6 DEF JoinCommit
    <3> QED
      BY <3>2, <3>3, RoomTypes, TransferredType DEF TypeOK
  <2>2. msg' \in [Socket -> Msg]
    <3>1. [msg[s] EXCEPT !.pc = "post", !.act = {},
                        !.rec = Reconnecting(base, msg[s].act),
                        !.dis = Disconnecting(base, msg[s].act)] \in Msg
      <4>1. msg[s] \in Msg
        BY RoomTypes DEF TypeOK
      <4> QED
        BY <4>1 DEF Msg, MsgPc, Reconnecting, Disconnecting, Present, Connected
    <3> QED
      BY <1>6, <3>1 DEF JoinCommit, TypeOK
  <2> QED
    BY <1>6, <2>1, <2>2 DEF JoinCommit, TypeOK
<1>7. ASSUME NEW s \in Socket, PostDead(s) PROVE TypeOK'
  <2>1. sock' \in [Socket -> Sock]
    <3>1. [sock[s] EXCEPT !.reg = FALSE, !.tracked = FALSE,
                        !.orphan = sock[s].reg /\ sock[s].tracked] \in Sock
      <4>1. sock[s] \in Sock
        BY RoomTypes DEF TypeOK
      <4> QED
        BY <4>1 DEF Sock
    <3> QED
      BY <1>7, <3>1 DEF PostDead, TypeOK
  <2>2. msg' \in [Socket -> Msg]
    BY <1>7, RoomTypes, MsgToType DEF PostDead, MsgPc
  <2> QED
    BY <1>7, <2>1, <2>2 DEF PostDead, TypeOK
<1>8. ASSUME NEW s \in Socket, PostAlive(s) PROVE TypeOK'
  <2>1. sock' \in [Socket -> Sock]
    <3>1. [sock[s] EXCEPT
              !.reg = TRUE, !.room = msg[s].room, !.tracked = sock[s].reg /\ @,
              !.committed = msg[s].already] \in Sock
      <4>1. msg[s] \in Msg /\ sock[s] \in Sock
        BY RoomTypes DEF TypeOK
      <4> QED
        BY <4>1 DEF Sock, Msg
    <3> QED
      BY <1>8, <3>1 DEF PostAlive, TypeOK
  <2>2. msg' \in [Socket -> Msg]
    BY <1>8, RoomTypes, MsgToType DEF PostAlive, MsgPc
  <2> QED
    BY <1>8, <2>1, <2>2 DEF PostAlive, TypeOK
<1>9. ASSUME NEW s \in Socket, Bump(s) PROVE TypeOK'
  <2>1. ref' \in [Room -> [User -> [Node -> Nat]]]
    BY <1>9, RoomTypes, AcquireType DEF Bump
  <2>2. sock' \in [Socket -> Sock]
    <3>1. [sock[s] EXCEPT !.tracked = sock[s].reg,
                        !.committed = sock[s].state = "open" /\ sock[s].reg] \in Sock
      <4>1. sock[s] \in Sock
        BY RoomTypes DEF TypeOK
      <4> QED
        BY <4>1 DEF Sock
    <3> QED
      BY <1>9, <3>1 DEF Bump, TypeOK
  <2>3. msg' \in [Socket -> Msg]
    BY <1>9, RoomTypes, MsgToType DEF Bump, MsgPc
  <2> QED
    BY <1>9, <2>1, <2>2, <2>3 DEF Bump, TypeOK
<1>10. ASSUME NEW s \in Socket, Settle(s) PROVE TypeOK'
  <2>1. grace' \in [Room -> SUBSET User]
    BY <1>10, RoomTypes, IndexType DEF Settle, TypeOK, Msg
  <2>2. pending' \in [Room -> SUBSET User]
    BY <1>10, RoomTypes, IndexType DEF Settle, TypeOK, Msg
  <2>3. emptyAt' \in [Room -> {"none", "fresh", "elapsed"}]
    BY <1>10, RoomTypes DEF Settle, TypeOK
  <2>4. msg' \in [Socket -> Msg]
    BY <1>10, RoomTypes, MsgDoneType DEF Settle
  <2> QED
    BY <1>10, <2>1, <2>2, <2>3, <2>4 DEF Settle, TypeOK
<1>11. ASSUME NEW s \in Socket, Lists(s) PROVE TypeOK'
  <2>1. grace' \in [Room -> SUBSET User]
    BY <1>11, RoomTypes, IndexType DEF Lists, TypeOK, Msg
  <2>2. pending' \in [Room -> SUBSET User]
    BY <1>11, RoomTypes, IndexType DEF Lists, TypeOK, Msg
  <2>3. msg' \in [Socket -> Msg]
    BY <1>11, RoomTypes, MsgDoneType DEF Lists
  <2> QED
    BY <1>11, <2>1, <2>2, <2>3 DEF Lists, TypeOK
<1>12. ASSUME NEW s \in Socket, Undo(s) PROVE TypeOK'
  <2>1. ref' \in [Room -> [User -> [Node -> Nat]]]
    BY <1>12, RoomTypes, ReleaseType DEF Undo
  <2>2. sock' \in [Socket -> Sock]
    <3>1. [sock[s] EXCEPT !.reg = FALSE, !.tracked = FALSE] \in Sock
      <4>1. sock[s] \in Sock
        BY RoomTypes DEF TypeOK
      <4> QED
        BY <4>1 DEF Sock
    <3> QED
      BY <1>12, <3>1 DEF Undo, TypeOK
  <2>3. msg' \in [Socket -> Msg]
    BY <1>12, RoomTypes, MsgToType DEF Undo, MsgPc
  <2> QED
    BY <1>12, <2>1, <2>2, <2>3 DEF Undo, TypeOK
<1>13. ASSUME NEW s \in Socket, UndoRead(s) PROVE TypeOK'
  BY <1>13, MsgToType, MsgDoneType DEF UndoRead, TypeOK, MsgPc
<1>14. ASSUME NEW s \in Socket, UndoCommit(s) PROVE TypeOK'
  <2>1. doc' \in [Room -> Doc]
    BY <1>14, RoomTypes, OfflineType DEF UndoCommit, TypeOK
  <2>2. msg' \in [Socket -> Msg]
    BY <1>14, RoomTypes, MsgToType, MsgDoneType DEF UndoCommit, MsgPc
  <2> QED
    BY <1>14, <2>1, <2>2 DEF UndoCommit, TypeOK
<1>15. ASSUME NEW s \in Socket, UndoPrune(s) PROVE TypeOK'
  <2>1. grace' \in [Room -> SUBSET User]
    BY <1>15, RoomTypes, IndexType DEF UndoPrune
  <2>2. pending' \in [Room -> SUBSET User]
    BY <1>15, RoomTypes, IndexType DEF UndoPrune
  <2>3. msg' \in [Socket -> Msg]
    BY <1>15, RoomTypes, MsgDoneType DEF UndoPrune
  <2> QED
    BY <1>15, <2>1, <2>2, <2>3 DEF UndoPrune, TypeOK
<1>16. ASSUME NEW s \in Socket, MutStart(s) PROVE TypeOK'
  <2>1. msg' \in [Socket -> Msg]
    <3>1. [msg[s] EXCEPT !.pc = "mutRead", !.room = sock[s].room] \in Msg
      <4>1. msg[s] \in Msg /\ sock[s] \in Sock
        BY RoomTypes DEF TypeOK
      <4> QED
        BY <4>1 DEF Msg, MsgPc, Sock
    <3> QED
      BY <1>16, <3>1 DEF MutStart, TypeOK
  <2> QED
    BY <1>16, <2>1 DEF MutStart, TypeOK
<1>17. ASSUME NEW s \in Socket, MutNull(s) PROVE TypeOK'
  BY <1>17, MsgDoneType DEF MutNull, TypeOK
<1>18. ASSUME NEW s \in Socket, MutCommit(s) PROVE TypeOK'
  <2>1. doc' \in [Room -> Doc]
    <3> DEFINE m == msg[s]
    <3>1. PICK new \in Bodies(Reconciled(doc[m.room], m.act), UserOf[s]) :
             doc' = [doc EXCEPT ![m.room] = [new EXCEPT !.part[UserOf[s]] = "on"]]
      BY <1>18 DEF MutCommit
    <3>2. new \in Doc
      BY <3>1, RoomTypes, ReconciledType, BodiesType DEF TypeOK
    <3> QED
      BY <3>1, <3>2, RoomTypes DEF TypeOK, Doc, Standing
  <2>2. msg' \in [Socket -> Msg]
    <3>1. [msg[s] EXCEPT !.pc = "lists", !.act = {},
                        !.rec = Reconnecting(doc[msg[s].room], msg[s].act),
                        !.dis = Disconnecting(doc[msg[s].room], msg[s].act)] \in Msg
      <4>1. msg[s] \in Msg
        BY RoomTypes DEF TypeOK
      <4> QED
        BY <4>1 DEF Msg, MsgPc, Reconnecting, Disconnecting, Present, Connected
    <3> QED
      BY <1>18, <3>1 DEF MutCommit, TypeOK
  <2> QED
    BY <1>18, <2>1, <2>2 DEF MutCommit, TypeOK
<1>19. ASSUME NEW s \in Socket, SocketClosed(s) PROVE TypeOK'
  <2>1. sock' \in [Socket -> Sock]
    <3>1. [sock[s] EXCEPT !.state = "closed", !.reg = FALSE, !.tracked = FALSE] \in Sock
      <4>1. sock[s] \in Sock
        BY RoomTypes DEF TypeOK
      <4> QED
        BY <4>1 DEF Sock
    <3> QED
      BY <1>19, <3>1 DEF SocketClosed, TypeOK
  <2>2. close' \in [Socket -> Close]
    <3>1. [close[s] EXCEPT
              !.pc = IF ~sock[s].reg THEN "done"
                     ELSE IF sock[s].tracked THEN "dec" ELSE "read",
              !.room = sock[s].room] \in Close
      <4>1. sock[s] \in Sock /\ close[s] \in Close
        BY RoomTypes DEF TypeOK
      <4> QED
        BY <4>1 DEF Close, ClosePc, Sock
    <3> QED
      BY <1>19, <3>1 DEF SocketClosed, TypeOK
  <2> QED
    BY <1>19, <2>1, <2>2 DEF SocketClosed, TypeOK
<1>20. ASSUME NEW s \in Socket, CloseDec(s) PROVE TypeOK'
  <2>1. ref' \in [Room -> [User -> [Node -> Nat]]]
    BY <1>20, RoomTypes, ReleaseType DEF CloseDec
  <2>2. close' \in [Socket -> Close]
    BY <1>20, RoomTypes, CloseToType DEF CloseDec, ClosePc
  <2> QED
    BY <1>20, <2>1, <2>2 DEF CloseDec, TypeOK
<1>21. ASSUME NEW s \in Socket, CloseRead(s) PROVE TypeOK'
  <2>1. close' \in [Socket -> Close]
    <3>1. [close[s] EXCEPT !.pc = "commit",
                          !.act = Online(close[s].room, NodeOf[s])] \in Close
      <4>1. close[s] \in Close
        BY RoomTypes, OnlineType DEF TypeOK
      <4> QED
        BY <4>1, OnlineType DEF Close, ClosePc
    <3> QED
      BY <1>21, <3>1 DEF CloseRead, TypeOK
  <2> QED
    BY <1>21, <2>1 DEF CloseRead, TypeOK
<1>22. ASSUME NEW s \in Socket, CloseKeep(s) PROVE TypeOK'
  BY <1>22, CloseToType DEF CloseKeep, TypeOK, ClosePc
<1>23. ASSUME NEW s \in Socket, CloseOffline(s) PROVE TypeOK'
  <2>1. doc' \in [Room -> Doc]
    BY <1>23, RoomTypes, OfflineType DEF CloseOffline, TypeOK
  <2>2. close' \in [Socket -> Close]
    BY <1>23, RoomTypes, CloseToType DEF CloseOffline, ClosePc
  <2>3. gate' \in [Task -> Gate]
    BY <1>23, RoomTypes DEF CloseOffline, TypeOK, Gate, GatePc
  <2> QED
    BY <1>23, <2>1, <2>2, <2>3 DEF CloseOffline, TypeOK
<1>24. ASSUME NEW s \in Socket, CloseGated(s) PROVE TypeOK'
  <2>1. close' \in [Socket -> Close]
    BY <1>24, RoomTypes, CloseToType DEF CloseGated, ClosePc
  <2>2. gate' \in [Task -> Gate]
    BY <1>24, RoomTypes, IdleTypes DEF CloseGated, TypeOK
  <2> QED
    BY <1>24, <2>1, <2>2 DEF CloseGated, TypeOK
<1>25. ASSUME NEW s \in Socket, ClosePrune(s) PROVE TypeOK'
  <2>1. grace' \in [Room -> SUBSET User]
    BY <1>25, RoomTypes, IndexType DEF ClosePrune
  <2>2. pending' \in [Room -> SUBSET User]
    BY <1>25, RoomTypes, IndexType DEF ClosePrune
  <2>3. close' \in [Socket -> Close]
    BY <1>25, RoomTypes, CloseToType DEF ClosePrune, ClosePc
  <2> QED
    BY <1>25, <2>1, <2>2, <2>3 DEF ClosePrune, TypeOK
<1>26. ASSUME NEW t \in Task, GateNote(t) PROVE TypeOK'
  <2>1. emptyAt' \in [Room -> {"none", "fresh", "elapsed"}]
    BY <1>26, RoomTypes DEF GateNote, TypeOK
  <2>2. gate' \in [Task -> Gate]
    BY <1>26, RoomTypes, GateToType DEF GateNote, GatePc
  <2> QED
    BY <1>26, <2>1, <2>2 DEF GateNote, TypeOK
<1>27. ASSUME NEW t \in Task, GatePresence(t) PROVE TypeOK'
  <2>1. emptyAt' \in [Room -> {"none", "fresh", "elapsed"}]
    BY <1>27, RoomTypes DEF GatePresence, TypeOK
  <2>2. gate' \in [Task -> Gate]
    BY <1>27, RoomTypes, GateToType DEF GatePresence, GatePc
  <2> QED
    BY <1>27, <2>1, <2>2 DEF GatePresence, TypeOK
<1>28. ASSUME NEW t \in Task, GateConfirm(t) PROVE TypeOK'
  BY <1>28, GateToType DEF GateConfirm, TypeOK, GatePc
<1>29. ASSUME NEW t \in Task, GateDelete(t) PROVE TypeOK'
  <2>1. doc' \in [Room -> Doc]
    BY <1>29, RoomTypes, IdleTypes DEF GateDelete, TypeOK
  <2>2. ref' \in [Room -> [User -> [Node -> Nat]]]
    BY <1>29, RoomTypes DEF GateDelete, TypeOK
  <2>3. grace' \in [Room -> SUBSET User]
    BY <1>29, RoomTypes DEF GateDelete, TypeOK
  <2>4. pending' \in [Room -> SUBSET User]
    BY <1>29, RoomTypes DEF GateDelete, TypeOK
  <2>5. emptyAt' \in [Room -> {"none", "fresh", "elapsed"}]
    BY <1>29, RoomTypes DEF GateDelete, TypeOK
  <2>6. gate' \in [Task -> Gate]
    BY <1>29, RoomTypes, GateToType DEF GateDelete, GatePc
  <2> QED
    BY <1>29, <2>1, <2>2, <2>3, <2>4, <2>5, <2>6 DEF GateDelete, TypeOK
<1>30. ASSUME NEW n \in Node, SweepStart(n) PROVE TypeOK'
  <2>1. sweep' \in [Node -> Sweep]
    <3>1. [sweep[n] EXCEPT !.pc = "rooms",
                          !.rooms = {r \in Room : doc[r].exists}] \in Sweep
      <4>1. sweep[n] \in Sweep
        BY RoomTypes DEF TypeOK
      <4> QED
        BY <4>1 DEF Sweep, SweepPc
    <3> QED
      BY <1>30, <3>1 DEF SweepStart, TypeOK
  <2> QED
    BY <1>30, <2>1 DEF SweepStart, TypeOK
<1>31. ASSUME NEW n \in Node, SweepRead(n) PROVE TypeOK'
  <2>1. sweep' \in [Node -> Sweep]
    <3>1. PICK r \in sweep[n].rooms :
             sweep' = [sweep EXCEPT ![n].pc = "commit", ![n].room = r,
                                    ![n].rooms = @ \ {r}, ![n].act = Online(r, n)]
      BY <1>31 DEF SweepRead
    <3>2. [sweep[n] EXCEPT !.pc = "commit", !.room = r, !.rooms = @ \ {r},
                           !.act = Online(r, n)] \in Sweep
      <4>1. sweep[n] \in Sweep /\ r \in Room /\ Online(r, n) \in SUBSET User
        BY <3>1, OnlineType DEF TypeOK, Sweep
      <4> QED
        BY <4>1 DEF Sweep, SweepPc
    <3> QED
      BY <3>1, <3>2 DEF TypeOK
  <2> QED
    BY <1>31, <2>1 DEF SweepRead, TypeOK
<1>32. ASSUME NEW n \in Node, SweepCommit(n) PROVE TypeOK'
  <2>1. doc' \in [Room -> Doc]
    <3> DEFINE w == sweep[n]
    <3>1. PICK new \in IF doc[w.room].exists
                       THEN Transferred(Reconciled(doc[w.room], w.act), "cleanup")
                       ELSE {doc[w.room]} :
             doc' = [doc EXCEPT ![w.room] = new]
      BY <1>32 DEF SweepCommit
    <3> QED
      BY <3>1, RoomTypes, ReconciledType, TransferredType DEF TypeOK
  <2>2. sweep' \in [Node -> Sweep]
    <3>1. [sweep[n] EXCEPT !.pc = "lists",
              !.rec = Reconnecting(doc[sweep[n].room], sweep[n].act),
              !.dis = Disconnecting(doc[sweep[n].room], sweep[n].act),
              !.past = {u \in User :
                 Reconciled(doc[sweep[n].room], sweep[n].act).part[u] = "past"}] \in Sweep
      <4>1. sweep[n] \in Sweep
        BY RoomTypes DEF TypeOK
      <4> QED
        BY <4>1 DEF Sweep, SweepPc, Reconnecting, Disconnecting, Present, Connected
    <3> QED
      BY <1>32, <3>1 DEF SweepCommit, TypeOK
  <2> QED
    BY <1>32, <2>1, <2>2 DEF SweepCommit, TypeOK
<1>33. ASSUME NEW n \in Node, SweepLists(n) PROVE TypeOK'
  <2>1. grace' \in [Room -> SUBSET User]
    BY <1>33, RoomTypes DEF SweepLists, TypeOK, Sweep
  <2>2. pending' \in [Room -> SUBSET User]
    BY <1>33, RoomTypes DEF SweepLists, TypeOK, Sweep
  <2>3. sweep' \in [Node -> Sweep]
    <3> DEFINE next == [IdleSweep EXCEPT !.pc = IF sweep[n].act = {} THEN "gate" ELSE "rooms",
                                         !.rooms = sweep[n].rooms]
    <3>1. next \in Sweep
      BY IdleTypes DEF TypeOK, Sweep, SweepPc
    <3> QED
      BY <1>33, <3>1 DEF TypeOK, SweepLists
  <2>4. emptyAt' \in [Room -> {"none", "fresh", "elapsed"}]
    BY <1>33, RoomTypes DEF SweepLists, TypeOK
  <2>5. gate' \in [Task -> Gate]
    BY <1>33, RoomTypes DEF SweepLists, TypeOK, Gate, GatePc
  <2> QED
    BY <1>33, <2>1, <2>2, <2>3, <2>4, <2>5 DEF SweepLists, TypeOK
<1>34. ASSUME NEW n \in Node, SweepGated(n) PROVE TypeOK'
  <2>1. sweep' \in [Node -> Sweep]
    BY <1>34, RoomTypes, SweepToType DEF SweepGated, SweepPc
  <2>2. gate' \in [Task -> Gate]
    BY <1>34, RoomTypes, IdleTypes DEF SweepGated, TypeOK
  <2> QED
    BY <1>34, <2>1, <2>2 DEF SweepGated, TypeOK
<1>35. ASSUME NEW n \in Node, SweepIndex(n) PROVE TypeOK'
  <2>1. sweep' \in [Node -> Sweep]
    <3>1. [sweep[n] EXCEPT !.pc = "due",
              !.todo = {ru \in Room \X User : ru[2] \in pending[ru[1]]}] \in Sweep
      <4>1. sweep[n] \in Sweep
        BY RoomTypes DEF TypeOK
      <4> QED
        BY <4>1 DEF Sweep, SweepPc
    <3> QED
      BY <1>35, <3>1 DEF SweepIndex, TypeOK
  <2> QED
    BY <1>35, <2>1 DEF SweepIndex, TypeOK
<1>36. ASSUME NEW n \in Node, SweepDue(n) PROVE TypeOK'
  <2>1. sweep' \in [Node -> Sweep]
    <3>1. PICK ru \in sweep[n].todo :
             sweep' = [sweep EXCEPT ![n].todo = @ \ {ru},
               ![n].pc = IF ru[2] \in grace[ru[1]] THEN "due" ELSE "remove",
               ![n].room = ru[1], ![n].who = ru[2]]
      BY <1>36 DEF SweepDue
    <3>2. sweep[n] \in Sweep /\ ru \in Room \X User
      BY DEF TypeOK, Sweep
    <3>3. [sweep[n] EXCEPT !.todo = @ \ {ru},
             !.pc = IF ru[2] \in grace[ru[1]] THEN "due" ELSE "remove",
             !.room = ru[1], !.who = ru[2]] \in Sweep
      BY <3>2 DEF Sweep, SweepPc
    <3> QED
      BY <3>1, <3>3 DEF TypeOK
  <2> QED
    BY <1>36, <2>1 DEF SweepDue, TypeOK
<1>37. ASSUME NEW n \in Node, SweepRemove(n) PROVE TypeOK'
  <2>1. doc' \in [Room -> Doc]
    <3> DEFINE r == sweep[n].room
               u == sweep[n].who
               left == [doc[r] EXCEPT !.part[u] = "none", !.role[u] = "guest"]
    <3>1. left \in Doc
      <4>1. doc[r] \in Doc /\ u \in User
        BY RoomTypes DEF TypeOK
      <4> QED
        BY <4>1 DEF Doc, Standing, Role
    <3>2. PICK new \in IF doc[r].part[u] \in {"off", "past"}
                       THEN Transferred(left, "prune") ELSE {doc[r]} :
             doc' = [doc EXCEPT ![r] = new]
      BY <1>37 DEF SweepRemove
    <3> QED
      BY <3>1, <3>2, RoomTypes, TransferredType DEF TypeOK
  <2>2. sweep' \in [Node -> Sweep]
    BY <1>37, RoomTypes, SweepToType DEF SweepRemove, SweepPc
  <2> QED
    BY <1>37, <2>1, <2>2 DEF SweepRemove, TypeOK
<1>38. ASSUME NEW n \in Node, SweepUnindex(n) PROVE TypeOK'
  <2>1. pending' \in [Room -> SUBSET User]
    BY <1>38, RoomTypes DEF SweepUnindex, TypeOK
  <2>2. sweep' \in [Node -> Sweep]
    BY <1>38, RoomTypes, SweepToType DEF SweepUnindex, SweepPc
  <2> QED
    BY <1>38, <2>1, <2>2 DEF SweepUnindex, TypeOK
<1>39. ASSUME NEW n \in Node, SweepEnd(n) PROVE TypeOK'
  BY <1>39, RoomTypes, IdleTypes DEF SweepEnd, TypeOK
<1>40. ASSUME NEW r \in Room, NEW u \in User, PruneGraceOver(r, u) PROVE TypeOK'
  <2>1. grace' \in [Room -> SUBSET User]
    BY <1>40, RoomTypes DEF PruneGraceOver, TypeOK
  <2>2. doc' \in [Room -> Doc]
    <3>1. [doc[r] EXCEPT !.part[u] = IF @ = "off" THEN "past" ELSE @] \in Doc
      <4>1. doc[r] \in Doc
        BY DEF TypeOK
      <4> QED
        BY <4>1 DEF Doc, Standing
    <3> QED
      BY <1>40, <3>1 DEF PruneGraceOver, TypeOK
  <2> QED
    BY <1>40, <2>1, <2>2 DEF PruneGraceOver, TypeOK
<1>41. ASSUME NEW r \in Room, EmptyElapse(r) PROVE TypeOK'
  BY <1>41, RoomTypes DEF EmptyElapse, TypeOK
<1>42. ASSUME NEW n \in Node, Crash(n) PROVE TypeOK'
  <2>1. up' \in SUBSET Node
    BY <1>42, RoomTypes DEF Crash, TypeOK
  <2>2. sock' \in [Socket -> Sock]
    <3>1. \A s \in Socket : [sock[s] EXCEPT !.state = "closed", !.reg = FALSE,
                                          !.tracked = FALSE] \in Sock
      <4>1. SUFFICES ASSUME NEW s \in Socket
                     PROVE  [sock[s] EXCEPT !.state = "closed", !.reg = FALSE,
                                            !.tracked = FALSE] \in Sock
        OBVIOUS
      <4>2. sock[s] \in Sock
        BY DEF TypeOK
      <4> QED
        BY <4>2 DEF Sock
    <3> QED
      BY <1>42, <3>1 DEF Crash, TypeOK
  <2>3. msg' \in [Socket -> Msg]
    BY <1>42, RoomTypes, IdleTypes DEF Crash, TypeOK
  <2>4. close' \in [Socket -> Close]
    BY <1>42, RoomTypes, IdleTypes DEF Crash, TypeOK, Close, ClosePc
  <2>5. sweep' \in [Node -> Sweep]
    BY <1>42, RoomTypes, IdleTypes DEF Crash, TypeOK
  <2>6. gate' \in [Task -> Gate]
    BY <1>42, RoomTypes, IdleTypes DEF Crash, TypeOK
  <2> QED
    BY <1>42, <2>1, <2>2, <2>3, <2>4, <2>5, <2>6 DEF Crash, TypeOK
<1>43. ASSUME NEW n \in Node, HeartbeatExpire(n) PROVE TypeOK'
  BY <1>43, RoomTypes DEF HeartbeatExpire, TypeOK
<1>44. CASE UNCHANGED vars
  BY <1>44 DEF vars, TypeOK
<1> QED
  BY <1>1, <1>2, <1>3, <1>4, <1>5, <1>6, <1>7, <1>8, <1>9, <1>10, <1>11,
     <1>12, <1>13, <1>14, <1>15, <1>16, <1>17, <1>18, <1>19, <1>20, <1>21,
     <1>22, <1>23, <1>24, <1>25, <1>26, <1>27, <1>28, <1>29, <1>30, <1>31,
     <1>32, <1>33, <1>34, <1>35, <1>36, <1>37, <1>38, <1>39, <1>40, <1>41,
     <1>42, <1>43, <1>44
  DEF Next, SocketStep, MsgStep, CloseStep, GateStep, SweepStep

\* Every state the membership handlers, the sweep, the timers and crashes lead
\* to is well formed; presence counts stay natural numbers although a
\* reference may be released twice (presence-lua.ts:28-33).
THEOREM MembershipTypes == Spec => []TypeOK
<1>1. Init => TypeOK
  BY InitTypes
<1>2. TypeOK /\ [Next]_vars => TypeOK'
  BY NextTypes
<1> QED
  BY <1>1, <1>2, PTL DEF Spec

-----------------------------------------------------------------------------
(* Ownership.                                                              *)

\* Exactly the user ownerId names has the owner role.
RolesAgree(d) ==
    /\ d.exists /\ d.owner \in User
    /\ \A u \in Present(d) : d.role[u] = "owner" <=> d.owner = u

\* A reconciliation moves nobody in or out and assigns no role.
LEMMA ReconciledOwned ==
  ASSUME NEW d \in Doc, OwnedDoc(d), NEW act
  PROVE  OwnedDoc(Reconciled(d, act))
<1>1. Present(Reconciled(d, act)) = Present(d)
  BY ReconciledType DEF Present
<1> QED
  BY <1>1, ReconciledType DEF OwnedDoc

\* A transfer names a participant and moves the role along with ownerId.
LEMMA TransferredRoles ==
  ASSUME NEW d \in Doc, RolesAgree(d), NEW reason, NEW new \in Transferred(d, reason)
  PROVE  /\ RolesAgree(new) /\ Present(new) = Present(d)
         /\ new = d \/ new.owner \in Present(new)
<1>1. Present(new) = Present(d)
  BY TransferredType DEF Present
<1>2. CASE new = d
  BY <1>2
<1>3. CASE new # d
  <2>1. PICK u \in Heirs(d, reason) : new = Promote(d, u)
    BY <1>3 DEF Transferred
  <2>2. u \in Present(d) /\ u \in User
    BY <2>1 DEF Heirs, Candidates, Present, Connected
  <2>3. new.owner = u /\ new.exists = d.exists
    BY <2>1 DEF Promote, Doc
  <2>4. \A v \in User : new.role[v] = IF v = u THEN "owner"
                                      ELSE IF v = d.owner THEN "guest" ELSE d.role[v]
    BY <2>1 DEF Promote, Doc
  <2>5. \A v \in Present(new) : new.role[v] = "owner" <=> new.owner = v
    BY <1>1, <2>2, <2>3, <2>4 DEF RolesAgree, Present
  <2> QED
    BY <1>1, <2>2, <2>3, <2>5 DEF RolesAgree
<1> QED
  BY <1>2, <1>3

\* A transfer keeps an owned document owned, whatever its reason.
LEMMA TransferredOwned ==
  ASSUME NEW d \in Doc, d.exists, OwnedDoc(d), NEW reason, NEW new \in Transferred(d, reason)
  PROVE  OwnedDoc(new)
<1>1. RolesAgree(d)
  BY DEF OwnedDoc, RolesAgree
<1>2. RolesAgree(new) /\ Present(new) = Present(d) /\ (new = d \/ new.owner \in Present(new))
  BY <1>1, TransferredRoles
<1> QED
  BY <1>2 DEF OwnedDoc, RolesAgree

\* A join leaves the room with an owner: the joiner is a candidate who does
\* not have the owner role, so a missing owner is always replaced.
LEMMA JoinerOwned ==
  ASSUME NEW d \in Doc, d.exists, OwnedDoc(d), NEW u \in User,
         NEW new \in Transferred(WithJoiner(d, u), "join")
  PROVE  OwnedDoc(new)
<1> DEFINE j == WithJoiner(d, u)
<1>1. j \in Doc
  BY JoinerType
<1>2. /\ j.exists /\ j.owner = d.owner /\ j.part[u] = "on"
      /\ \A v \in User : v # u => j.part[v] = d.part[v] /\ j.role[v] = d.role[v]
      /\ j.role[u] = IF d.part[u] # "none" THEN d.role[u]
                     ELSE IF d.owner = u THEN "owner" ELSE DefaultJoinRole
  BY DEF WithJoiner, Doc
<1>3. RolesAgree(j)
  <2>1. \A v \in Present(j) : j.role[v] = "owner" <=> j.owner = v
    BY <1>2, MembershipAssumption DEF OwnedDoc, Present
  <2> QED
    BY <1>2, <2>1 DEF RolesAgree, OwnedDoc
<1>4. RolesAgree(new) /\ Present(new) = Present(j) /\ (new = j \/ new.owner \in Present(new))
  BY <1>1, <1>3, TransferredRoles
<1>5. CASE new = j /\ j.owner \notin Present(j)
  <2>1. NeedsOwner(j, "join")
    BY <1>3, <1>5 DEF NeedsOwner, Present, RolesAgree
  <2>2. u \in Candidates(j, "join") /\ j.role[u] \in {"moderator", "guest"}
    <3>1. u \in Present(j) /\ u # j.owner
      BY <1>2, <1>5 DEF Present
    <3>2. j.role[u] \in Role
      BY <1>1 DEF Doc
    <3> QED
      BY <1>2, <1>3, <3>1, <3>2 DEF Candidates, Connected, RolesAgree, Role
  <2>3. Heirs(j, "join") # {}
    BY <2>2 DEF Heirs
  <2>4. PICK h \in Heirs(j, "join") : new = Promote(j, h)
    BY <2>1, <2>3 DEF Transferred
  <2>5. new.owner = h /\ h \in Present(j)
    BY <1>1, <2>4 DEF Promote, Doc, Heirs, Candidates, Present, Connected
  <2> QED
    BY <1>5, <2>5
<1> QED
  BY <1>4, <1>5 DEF OwnedDoc, RolesAgree

\* Pruning anybody, the owner too, leaves the room with an owner among the
\* participants that remain.
LEMMA PrunedOwned ==
  ASSUME NEW d \in Doc, d.exists, OwnedDoc(d), NEW u \in User,
         NEW new \in Transferred([d EXCEPT !.part[u] = "none", !.role[u] = "guest"], "prune")
  PROVE  OwnedDoc(new)
<1> DEFINE left == [d EXCEPT !.part[u] = "none", !.role[u] = "guest"]
<1>1. left \in Doc
  BY DEF Doc, Standing, Role
<1>2. /\ left.exists /\ left.owner = d.owner /\ left.part[u] = "none"
      /\ \A v \in User : v # u => left.part[v] = d.part[v] /\ left.role[v] = d.role[v]
  BY DEF Doc
<1>3. RolesAgree(left)
  <2>1. \A v \in Present(left) : left.role[v] = "owner" <=> left.owner = v
    BY <1>2 DEF OwnedDoc, Present
  <2> QED
    BY <1>2, <2>1 DEF RolesAgree, OwnedDoc
<1>4. RolesAgree(new) /\ Present(new) = Present(left)
      /\ (new = left \/ new.owner \in Present(new))
  BY <1>1, <1>3, TransferredRoles
<1>5. CASE new = left /\ left.owner \notin Present(left) /\ Present(left) # {}
  <2>1. NeedsOwner(left, "prune")
    BY <1>3, <1>5 DEF NeedsOwner, Present, RolesAgree
  <2>2. PICK v \in Candidates(left, "prune") : v \in Present(left)
    BY <1>5 DEF Candidates, Connected, Present
  <2>3. left.role[v] \in {"moderator", "guest", "owner"}
    BY <1>1, <2>2 DEF Doc, Role, Present
  <2>4. Heirs(left, "prune") # {}
    BY <2>2, <2>3 DEF Heirs, Present
  <2>5. PICK h \in Heirs(left, "prune") : new = Promote(left, h)
    BY <2>1, <2>4 DEF Transferred
  <2>6. new.owner = h /\ h \in Present(left)
    BY <1>1, <2>5 DEF Promote, Doc, Heirs, Candidates, Present, Connected
  <2> QED
    BY <1>5, <2>6
<1> QED
  BY <1>4, <1>5 DEF OwnedDoc, RolesAgree

\* What only moves a participant between connected and not, or assigns a role
\* to one who is not the owner, keeps a document owned.
LEMMA SameMembersOwned ==
  ASSUME NEW d \in Doc, NEW e \in Doc, OwnedDoc(d), Present(e) = Present(d),
         e.exists = d.exists, e.owner = d.owner,
         \A u \in Present(d) : e.role[u] = "owner" <=> d.role[u] = "owner"
  PROVE  OwnedDoc(e)
BY DEF OwnedDoc

\* Going offline removes nobody, so the owner stays a participant.
LEMMA OfflineOwned ==
  ASSUME NEW d \in Doc, OwnedDoc(d), NEW u \in User
  PROVE  OwnedDoc(Offline(d, u))
<1>1. /\ Offline(d, u).exists = d.exists /\ Offline(d, u).owner = d.owner
      /\ Offline(d, u).role = d.role
      /\ \A v \in User : Offline(d, u).part[v] = "none" <=> d.part[v] = "none"
  BY DEF Offline, Doc
<1>2. Present(Offline(d, u)) = Present(d)
  BY <1>1 DEF Present
<1> QED
  BY <1>1, <1>2, OfflineType, SameMembersOwned

\* The owner cannot demote itself: a role update never names the owner
\* (participant.ts:238-292).
LEMMA BodiesOwned ==
  ASSUME NEW d \in Doc, OwnedDoc(d), NEW u \in Present(d), NEW body \in Bodies(d, u)
  PROVE  OwnedDoc([body EXCEPT !.part[u] = "on"])
<1> DEFINE e == [body EXCEPT !.part[u] = "on"]
<1>1. body \in Doc /\ body.part = d.part /\ body.exists = d.exists
      /\ body.owner = d.owner /\ u \in User
  BY BodiesType DEF Present
<1>2. e \in Doc
  BY <1>1 DEF Doc, Standing
<1>3. e.exists = d.exists /\ e.owner = d.owner /\ e.role = body.role
  BY <1>1 DEF Doc
<1>4. \A v \in User : e.part[v] = IF v = u THEN "on" ELSE d.part[v]
  BY <1>1 DEF Doc
<1>5. Present(e) = Present(d)
  BY <1>4 DEF Present
<1>6. \A v \in Present(d) : body.role[v] = "owner" <=> d.role[v] = "owner"
  <2>1. CASE body = d
    BY <2>1
  <2>2. CASE body # d
    <3>1. PICK w \in {x \in Present(d) : d.role[u] = "owner" /\ x # d.owner},
               role \in {"moderator", "guest"} : body = [d EXCEPT !.role[w] = role]
      BY <2>2 DEF Bodies
    <3>2. \A v \in User : body.role[v] = IF v = w THEN role ELSE d.role[v]
      BY <3>1 DEF Doc, Present
    <3>3. d.role[w] # "owner" /\ role # "owner"
      BY <3>1, <1>1 DEF OwnedDoc, Present
    <3> QED
      BY <3>2, <3>3 DEF Present
  <2> QED
    BY <2>1, <2>2
<1> HIDE DEF e
<1>7. OwnedDoc(e)
  BY <1>2, <1>3, <1>5, <1>6, SameMembersOwned
<1> QED
  BY <1>7 DEF e

\* A step that writes one owned document keeps all of them owned.
LEMMA DocStep ==
  ASSUME TypeOK, Ownership, NEW r \in Room, NEW new,
         doc' = [doc EXCEPT ![r] = new], OwnedDoc(new)
  PROVE  Ownership'
BY DEF Ownership, TypeOK, OwnedDoc, Present

\* The strengthened invariant is inductive relative to the types: one step per
\* action that writes a document.
LEMMA NextOwnership == TypeOK /\ Ownership /\ [Next]_vars => Ownership'
<1> SUFFICES ASSUME TypeOK, Ownership, [Next]_vars PROVE Ownership'
  OBVIOUS
<1> USE RoomTypes
<1>docs. \A r \in Room : doc[r] \in Doc /\ OwnedDoc(doc[r])
  BY DEF TypeOK, Ownership
<1>same. ASSUME UNCHANGED doc PROVE Ownership'
  BY <1>same DEF Ownership, OwnedDoc, Present
<1>1. ASSUME NEW s \in Socket, JoinCommit(s) PROVE Ownership'
  <2> DEFINE d == doc[msg[s].room]
             base == IF d.exists THEN d
                     ELSE [NoDoc EXCEPT !.exists = TRUE, !.owner = UserOf[s]]
             recon == Reconciled(base, msg[s].act)
  <2>1. base \in Doc /\ base.exists
    BY <1>docs, IdleTypes DEF Doc, NoDoc
  <2>2. OwnedDoc(base)
    BY <1>docs DEF OwnedDoc, NoDoc, Present
  <2>3. recon \in Doc /\ recon.exists /\ OwnedDoc(recon)
    BY <2>1, <2>2, ReconciledType, ReconciledOwned
  <2>4. PICK new \in Transferred(WithJoiner(recon, UserOf[s]), "join") :
           doc' = [doc EXCEPT ![msg[s].room] = new]
    BY <1>1 DEF JoinCommit
  <2> QED
    BY <2>3, <2>4, JoinerOwned, DocStep
<1>2. ASSUME NEW s \in Socket, MutCommit(s) PROVE Ownership'
  <2> DEFINE d == doc[msg[s].room]
             recon == Reconciled(d, msg[s].act)
  <2>1. recon \in Doc /\ OwnedDoc(recon) /\ UserOf[s] \in Present(recon)
    BY <1>2, <1>docs, ReconciledType, ReconciledOwned DEF MutCommit, Present
  <2>2. PICK body \in Bodies(recon, UserOf[s]) :
           doc' = [doc EXCEPT ![msg[s].room] = [body EXCEPT !.part[UserOf[s]] = "on"]]
    BY <1>2 DEF MutCommit
  <2> QED
    BY <2>1, <2>2, BodiesOwned, DocStep
<1>3. ASSUME NEW s \in Socket, UndoCommit(s) PROVE Ownership'
  BY <1>3, <1>docs, OfflineOwned, DocStep DEF UndoCommit
<1>4. ASSUME NEW s \in Socket, CloseOffline(s) PROVE Ownership'
  BY <1>4, <1>docs, OfflineOwned, DocStep DEF CloseOffline
<1>5. ASSUME NEW t \in Task, GateDelete(t) PROVE Ownership'
  <2>1. OwnedDoc(NoDoc)
    BY DEF OwnedDoc, NoDoc, Present
  <2> QED
    BY <1>5, <2>1, DocStep DEF GateDelete
<1>6. ASSUME NEW n \in Node, SweepCommit(n) PROVE Ownership'
  <2> DEFINE w == sweep[n]
             d == doc[w.room]
  <2>1. PICK new \in IF d.exists THEN Transferred(Reconciled(d, w.act), "cleanup") ELSE {d} :
           doc' = [doc EXCEPT ![w.room] = new]
    BY <1>6 DEF SweepCommit
  <2>2. OwnedDoc(new)
    BY <1>docs, <2>1, ReconciledType, ReconciledOwned, TransferredOwned
  <2> QED
    BY <2>1, <2>2, DocStep
<1>7. ASSUME NEW n \in Node, SweepRemove(n) PROVE Ownership'
  <2> DEFINE r == sweep[n].room
             u == sweep[n].who
             left == [doc[r] EXCEPT !.part[u] = "none", !.role[u] = "guest"]
  <2>1. PICK new \in IF doc[r].part[u] \in {"off", "past"}
                     THEN Transferred(left, "prune") ELSE {doc[r]} :
           doc' = [doc EXCEPT ![r] = new]
    BY <1>7 DEF SweepRemove
  <2>2. doc[r].part[u] \in {"off", "past"} => doc[r].exists
    BY <1>docs DEF OwnedDoc, Present
  <2>3. OwnedDoc(new)
    BY <1>docs, <2>1, <2>2, PrunedOwned
  <2> QED
    BY <2>1, <2>3, DocStep
<1>8. ASSUME NEW r \in Room, NEW u \in User, PruneGraceOver(r, u) PROVE Ownership'
  <2> DEFINE e == [doc[r] EXCEPT !.part[u] = IF @ = "off" THEN "past" ELSE @]
  <2>1. e \in Doc /\ e.exists = doc[r].exists /\ e.owner = doc[r].owner /\ e.role = doc[r].role
    BY <1>docs DEF Doc, Standing
  <2>2. \A v \in User : e.part[v] = "none" <=> doc[r].part[v] = "none"
    BY <1>docs DEF Doc
  <2>3. Present(e) = Present(doc[r])
    BY <2>2 DEF Present
  <2>4. doc' = [doc EXCEPT ![r] = e]
    BY <1>8 DEF PruneGraceOver, TypeOK
  <2> HIDE DEF e
  <2>5. OwnedDoc(e)
    BY <1>docs, <2>1, <2>3, SameMembersOwned
  <2> QED
    BY <2>4, <2>5, DocStep
<1>9. ASSUME NEW s \in Socket, MsgStep(s) PROVE Ownership'
  <2>1. CASE JoinCommit(s) \/ MutCommit(s) \/ UndoCommit(s)
    BY <2>1, <1>1, <1>2, <1>3
  <2>2. CASE UNCHANGED doc
    BY <2>2, <1>same
  <2> QED
    BY <1>9, <2>1, <2>2
    DEF MsgStep, store, Untrack, JoinRefused, ReadPresence, PostDead, PostAlive, Bump,
        Settle, Lists, Undo, UndoRead, UndoPrune, MutNull
<1>10. ASSUME NEW s \in Socket, SocketStep(s) PROVE Ownership'
  <2>1. CASE MsgStep(s) \/ CloseOffline(s)
    BY <2>1, <1>4, <1>9
  <2>2. CASE UNCHANGED doc
    BY <2>2, <1>same
  <2> QED
    BY <1>10, <2>1, <2>2
    DEF SocketStep, CloseStep, store, SocketClosing, SocketClosed, JoinStart, MutStart,
        CloseDec, CloseRead, CloseKeep, CloseGated, ClosePrune
<1>11. ASSUME NEW n \in Node, SweepStep(n) PROVE Ownership'
  <2>1. CASE UNCHANGED doc
    BY <2>1, <1>same
  <2> QED
    BY <1>11, <1>6, <1>7, <2>1
    DEF SweepStep, store, SweepStart, SweepRead, SweepLists, SweepGated, SweepIndex,
        SweepDue, SweepUnindex, SweepEnd
<1> QED
  <2>1. CASE UNCHANGED doc
    BY <2>1, <1>same
  <2> QED
    BY <1>5, <1>8, <1>10, <1>11, <2>1
    DEF Next, GateStep, vars, store, GateNote, GatePresence, GateConfirm, EmptyElapse,
        Crash, HeartbeatExpire

\* The inductive invariant behind the two theorems below.
LEMMA OwnershipHolds == Spec => []Ownership
<1>1. Init => Ownership
  BY DEF Init, Ownership, OwnedDoc, NoDoc, Present
<1>2. TypeOK /\ Ownership /\ [Next]_vars => Ownership'
  BY NextOwnership
<1> QED
  BY <1>1, <1>2, MembershipTypes, PTL DEF Spec

\* Whoever joins, leaves, is pruned, reconciled or given a role, the one
\* participant with the owner role is the one ownerId names (ownership.ts:74-82).
THEOREM OneOwnerAlways == Spec => []OneOwner
<1>1. Ownership => OneOwner
  BY DEF Ownership, OwnedDoc, OneOwner, Present
<1> QED
  BY <1>1, OwnershipHolds, PTL

\* A room with participants never belongs to somebody who was pruned (R4,
\* participants.ts:164).
THEOREM OwnerStaysParticipant == Spec => []OwnerIsParticipant
<1>1. Ownership => OwnerIsParticipant
  BY DEF Ownership, OwnedDoc, OwnerIsParticipant
<1> QED
  BY <1>1, OwnershipHolds, PTL

=============================================================================
