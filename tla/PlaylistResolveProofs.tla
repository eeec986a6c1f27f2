----------------------- MODULE PlaylistResolveProofs -----------------------
(***************************************************************************)
(* Proofs about PlaylistResolve: types, and that an item which resolves is *)
(* in somebody's hands while no process crashes.                           *)
(***************************************************************************)
EXTENDS PlaylistResolve, TLAPS

CallPc == {"none", "invalidate", "start"}
EndPc == {"none", "del", "srem"}

IInv == TypeOK /\ SomebodyResolves

-----------------------------------------------------------------------------
(* What one process does about one item leaves the others alone.           *)

\* Function g is f with another value at p and i.
Moved(f, g, p, i, x) ==
    /\ g[p][i] = x
    /\ \A q \in Proc, j \in Item : <<q, j>> # <<p, i>> => g[q][j] = f[q][j]

\* Replacing the value at p and i keeps the type and all other values.
LEMMA EntryMoved ==
    ASSUME NEW S, NEW f \in [Proc -> [Item -> S]], NEW p \in Proc,
           NEW i \in Item, NEW x \in S
    PROVE  LET g == [f EXCEPT ![p] = [f[p] EXCEPT ![i] = x]]
           IN g \in [Proc -> [Item -> S]] /\ Moved(f, g, p, i, x)
BY DEF Moved

LEMMA CallsMoves ==
    ASSUME TypeOK, NEW p \in Proc, NEW i \in Item, NEW x \in CallPc, Calls(p, i, x)
    PROVE  /\ call' \in [Proc -> [Item -> CallPc]]
           /\ Moved(call, call', p, i, x)
<1>1. call \in [Proc -> [Item -> CallPc]]  BY DEF TypeOK, CallPc
<1>2. call' = [call EXCEPT ![p] = [call[p] EXCEPT ![i] = x]]  BY DEF Calls
<1> QED  BY <1>1, <1>2, EntryMoved

LEMMA TaskMoves ==
    ASSUME TypeOK, NEW p \in Proc, NEW i \in Item, NEW pc \in TaskPc, TaskTo(p, i, pc)
    PROVE  /\ task' \in [Proc -> [Item -> TaskPc]]
           /\ Moved(task, task', p, i, pc)
<1>1. task \in [Proc -> [Item -> TaskPc]]  BY DEF TypeOK
<1>2. task' = [task EXCEPT ![p] = [task[p] EXCEPT ![i] = pc]]  BY DEF TaskTo
<1> QED  BY <1>1, <1>2, EntryMoved

LEMMA EndingMoves ==
    ASSUME TypeOK, NEW p \in Proc, NEW i \in Item, NEW x \in EndPc,
           ending' = [ending EXCEPT ![p][i] = x]
    PROVE  ending' \in [Proc -> [Item -> EndPc]]
<1>1. ending \in [Proc -> [Item -> EndPc]]  BY DEF TypeOK, EndPc
<1>2. ending' = [ending EXCEPT ![p] = [ending[p] EXCEPT ![i] = x]]  OBVIOUS
<1> QED  BY <1>1, <1>2, EntryMoved

\* The tick stops waiting for a job that is done.
LEMMA TickTyped ==
    ASSUME TypeOK, NEW p \in Proc, NEW i \in Item,
           tick' = [tick EXCEPT ![p].job = IF @ = i THEN NoItem ELSE @]
    PROVE  tick' \in [Proc -> Tick]
<1>1. tick[p] \in Tick  BY DEF TypeOK
<1>2. [tick[p] EXCEPT !.job = IF @ = i THEN NoItem ELSE @] \in Tick
  BY <1>1 DEF Tick
<1>3. tick' = [tick EXCEPT ![p] =
                 [tick[p] EXCEPT !.job = IF @ = i THEN NoItem ELSE @]]
  OBVIOUS
<1> QED  BY <1>2, <1>3 DEF TypeOK

-----------------------------------------------------------------------------
(* The users and the callers.                                              *)

\* The item is in the hands of a process.
InHand(i) == \E p \in Proc : call[p][i] # "none" \/ task[p][i] # "idle"

\* A step that starts to resolve an item only by calling, and lets no call or
\* task go, keeps every item in hand.
LEMMA CallingKeeps ==
    ASSUME IInv, NEW p \in Proc, NEW i \in Item, NEW x \in CallPc \ {"none"},
           Moved(call, call', p, i, x),
           alive' = alive, task' = task,
           \A j \in Item \ {i} : status'[j] = status[j]
    PROVE  SomebodyResolves'
<1> SUFFICES ASSUME NEW j \in Item, (alive = Proc)', (~Settled(j))'
             PROVE  InHand(j)'
  BY DEF SomebodyResolves, InHand
<1>1. CASE j = i  BY <1>1 DEF InHand, Moved
<1>2. CASE j # i
  <2>1. InHand(j)  BY <1>2 DEF IInv, SomebodyResolves, InHand, Settled
  <2> QED  BY <1>2, <2>1 DEF InHand, Moved
<1> QED  BY <1>1, <1>2

LEMMA AddUrlKeeps ==
    ASSUME IInv, NEW p \in Proc, NEW i \in Item, AddUrl(p, i) PROVE IInv'
<1> USE DEF AddUrl, leaseVars
<1>1. /\ call' \in [Proc -> [Item -> CallPc]]
      /\ Moved(call, call', p, i, "start")
  BY CallsMoves DEF IInv, CallPc
<1>2. status' \in [Item -> Status]  BY DEF IInv, TypeOK, Status
<1>3. TypeOK'  BY <1>1, <1>2 DEF IInv, TypeOK, CallPc
<1>4. \A j \in Item \ {i} : status'[j] = status[j]  BY DEF IInv, TypeOK
<1> QED  BY <1>1, <1>3, <1>4, CallingKeeps DEF IInv, CallPc

\* The room update of a re-resolve, by a user or by the tick.
LEMMA ReresolveMoves ==
    ASSUME IInv, NEW p \in Proc, NEW i \in Item, Reresolve(p, i),
           alive' = alive, task' = task
    PROVE  /\ status' \in [Item -> Status]
           /\ call' \in [Proc -> [Item -> CallPc]]
           /\ SomebodyResolves'
<1> USE DEF Reresolve
<1>1. /\ call' \in [Proc -> [Item -> CallPc]]
      /\ Moved(call, call', p, i, "invalidate")
  BY CallsMoves DEF IInv, CallPc
<1>2. status' \in [Item -> Status]  BY DEF IInv, TypeOK, Status
<1>3. \A j \in Item \ {i} : status'[j] = status[j]  BY DEF IInv, TypeOK
<1> QED  BY <1>1, <1>2, <1>3, CallingKeeps DEF CallPc

LEMMA RetryKeeps ==
    ASSUME IInv, NEW p \in Proc, NEW i \in Item, Retry(p, i) PROVE IInv'
<1> USE DEF Retry, leaseVars, Counted
<1>1. count' \in Nat  BY DEF IInv, TypeOK
<1>2. /\ status' \in [Item -> Status]
      /\ call' \in [Proc -> [Item -> CallPc]]
      /\ SomebodyResolves'
  BY ReresolveMoves
<1>3. TypeOK'  BY <1>1, <1>2 DEF IInv, TypeOK, CallPc
<1> QED  BY <1>2, <1>3 DEF IInv

LEMMA ScheduleKeeps ==
    ASSUME IInv, NEW p \in Proc, NEW i \in Item,
           scheduleResolvingPlaylistItems(p, i)
    PROVE  IInv'
<1> USE DEF scheduleResolvingPlaylistItems, leaseVars, Counted
<1>1. /\ call' \in [Proc -> [Item -> CallPc]]
      /\ Moved(call, call', p, i, "start")
  BY CallsMoves DEF IInv, CallPc
<1>2. count' \in Nat  BY DEF IInv, TypeOK
<1>3. TypeOK'  BY <1>1, <1>2 DEF IInv, TypeOK, CallPc
<1> QED  BY <1>1, <1>3, CallingKeeps DEF IInv, CallPc

LEMMA InvalidateKeeps ==
    ASSUME IInv, NEW p \in Proc, NEW i \in Item, Invalidate(p, i) PROVE IInv'
<1> USE DEF Invalidate, leaseVars
<1>1. /\ call' \in [Proc -> [Item -> CallPc]]
      /\ Moved(call, call', p, i, "start")
  BY CallsMoves DEF IInv, CallPc
<1>2. TypeOK'  BY <1>1 DEF IInv, TypeOK, CallPc
<1> QED  BY <1>1, <1>2, CallingKeeps DEF IInv, CallPc

LEMMA RemoveKeeps ==
    ASSUME IInv, NEW i \in Item, RemoveItem(i) PROVE IInv'
<1> USE DEF RemoveItem, leaseVars, workVars, IInv
<1>1. status' \in [Item -> Status] /\ \A j \in Item \ {i} : status'[j] = status[j]
  BY DEF TypeOK, Status
<1>2. status'[i] = "gone"  BY DEF TypeOK
<1>3. TypeOK'  BY <1>1 DEF TypeOK
<1>4. SomebodyResolves'  BY <1>1, <1>2 DEF SomebodyResolves, Settled
<1> QED  BY <1>3, <1>4

-----------------------------------------------------------------------------
(* The resolver.                                                           *)

\* A step that moves a task on, or lets the call of an item with a task go,
\* keeps every item in hand.
LEMMA WorkingKeeps ==
    ASSUME IInv, NEW p \in Proc, NEW i \in Item,
           \/ \E pc \in TaskPc \ {"idle"} : Moved(task, task', p, i, pc)
           \/ task' = task /\ task[p][i] # "idle",
           \/ call' = call
           \/ \E x \in CallPc : Moved(call, call', p, i, x),
           alive' = alive, status' = status
    PROVE  SomebodyResolves'
<1> SUFFICES ASSUME NEW j \in Item, (alive = Proc)', (~Settled(j))'
             PROVE  InHand(j)'
  BY DEF SomebodyResolves, InHand
<1>1. CASE j = i  BY <1>1 DEF InHand, Moved
<1>2. CASE j # i
  <2>1. InHand(j)  BY DEF IInv, SomebodyResolves, InHand, Settled
  <2>2. \A q \in Proc : call'[q][j] = call[q][j]  BY <1>2 DEF Moved
  <2>3. \A q \in Proc : task'[q][j] = task[q][j]  BY <1>2 DEF Moved
  <2> QED  BY <2>1, <2>2, <2>3 DEF InHand
<1> QED  BY <1>1, <1>2

LEMMA ResolveKeeps ==
    ASSUME IInv, NEW p \in Proc, NEW i \in Item, resolvePlaylistItem(p, i)
    PROVE  IInv'
<1> USE DEF resolvePlaylistItem, leaseVars
<1>1. /\ call' \in [Proc -> [Item -> CallPc]]
      /\ Moved(call, call', p, i, "none")
  BY CallsMoves DEF IInv, CallPc
<1>2. CASE task[p][i] = "idle" /\ TaskTo(p, i, "add") /\ UNCHANGED tick
  <2>1. task' \in [Proc -> [Item -> TaskPc]] /\ Moved(task, task', p, i, "add")
    BY <1>2, TaskMoves DEF IInv, TaskPc
  <2>2. TypeOK'  BY <1>1, <1>2, <2>1 DEF IInv, TypeOK, CallPc
  <2>3. SomebodyResolves'  BY <1>1, <2>1, WorkingKeeps DEF TaskPc, CallPc
  <2> QED  BY <2>2, <2>3 DEF IInv
<1>3. CASE /\ task[p][i] # "idle"
           /\ tick' = [tick EXCEPT ![p].job = IF @ = i THEN NoItem ELSE @]
           /\ UNCHANGED task
  <2>1. tick' \in [Proc -> Tick]  BY <1>3, TickTyped DEF IInv
  <2>2. TypeOK'  BY <1>1, <1>3, <2>1 DEF IInv, TypeOK, CallPc
  <2>3. SomebodyResolves'  BY <1>1, <1>3, WorkingKeeps DEF CallPc
  <2> QED  BY <2>2, <2>3 DEF IInv
<1> QED  BY <1>2, <1>3

\* The steps of a resolve up to its commit.
LEMMA RegisterKeeps ==
    ASSUME IInv, NEW p \in Proc, NEW i \in Item,
           \/ RegisterPending(p, i) \/ RegisterLease(p, i)
           \/ resolveMediaSource(p, i)
    PROVE  IInv'
<1> USE DEF RegisterPending, RegisterLease, resolveMediaSource, TaskAt, leaseVars
<1>1. PICK pc \in TaskPc \ {"idle"} : TaskTo(p, i, pc)  BY DEF TaskPc
<1>2. task' \in [Proc -> [Item -> TaskPc]] /\ Moved(task, task', p, i, pc)
  BY <1>1, TaskMoves DEF IInv
<1>3. lease' \in [Item -> Proc \cup {NoProc}] /\ pending' \subseteq Item
  BY DEF IInv, TypeOK
<1>4. TypeOK'  BY <1>2, <1>3 DEF IInv, TypeOK
<1>5. SomebodyResolves'  BY <1>2, WorkingKeeps
<1> QED  BY <1>4, <1>5 DEF IInv

LEMMA CommitKeeps ==
    ASSUME IInv, NEW p \in Proc, NEW i \in Item, commitResolvingItem(p, i)
    PROVE  IInv'
<1> USE DEF commitResolvingItem, leaseVars
<1>1. task' \in [Proc -> [Item -> TaskPc]] /\ Moved(task, task', p, i, "idle")
  BY TaskMoves DEF IInv, TaskPc
<1>2. ending' \in [Proc -> [Item -> EndPc]]  BY EndingMoves DEF IInv, EndPc
<1>3. tick' \in [Proc -> Tick]  BY TickTyped DEF IInv
<1>4. /\ status' \in [Item -> Status]
      /\ status'[i] # "resolving"
      /\ \A j \in Item \ {i} : status'[j] = status[j]
  BY DEF IInv, TypeOK, Status
<1>5. TypeOK'  BY <1>1, <1>2, <1>3, <1>4 DEF IInv, TypeOK, EndPc
<1>6. SomebodyResolves'
  <2> SUFFICES ASSUME NEW j \in Item \ {i}, (alive = Proc)', (~Settled(j))'
               PROVE  InHand(j)'
    BY <1>4 DEF SomebodyResolves, InHand, Settled
  <2>1. InHand(j)  BY <1>4 DEF IInv, SomebodyResolves, InHand, Settled
  <2> QED  BY <1>1, <2>1 DEF InHand, Moved
<1> QED  BY <1>5, <1>6 DEF IInv

\* A step that changes no hands and no status.
LEMMA HandsStay ==
    ASSUME IInv, UNCHANGED <<status, call, task>>,
           alive' = Proc => alive = Proc
    PROVE  SomebodyResolves'
BY DEF IInv, SomebodyResolves, Settled

LEMMA EndKeeps ==
    ASSUME IInv, NEW p \in Proc, NEW i \in Item,
           EndDeletesLease(p, i) \/ EndRemovesPending(p, i)
    PROVE  IInv'
<1> USE DEF EndDeletesLease, EndRemovesPending, leaseVars
<1>1. ending' \in [Proc -> [Item -> EndPc]]  BY EndingMoves DEF IInv, EndPc
<1>2. lease' \in [Item -> Proc \cup {NoProc}] /\ pending' \subseteq Item
  BY DEF IInv, TypeOK
<1>3. TypeOK'  BY <1>1, <1>2 DEF IInv, TypeOK, EndPc
<1>4. SomebodyResolves'  BY HandsStay
<1> QED  BY <1>3, <1>4 DEF IInv

-----------------------------------------------------------------------------
(* The tick, time and crashes.                                             *)

LEMMA ListKeeps ==
    ASSUME IInv, NEW p \in Proc, listAbandonedResolves(p) PROVE IInv'
<1> USE DEF listAbandonedResolves, leaseVars
<1>1. Abandoned \subseteq Item  BY DEF Abandoned, IInv, TypeOK
<1>2. tick' \in [Proc -> Tick]
  <2>1. [tick[p] EXCEPT !.jobs = Abandoned] \in Tick
    <3>1. tick[p] \in Tick  BY DEF IInv, TypeOK
    <3> QED  BY <1>1, <3>1 DEF Tick
  <2>2. tick' = [tick EXCEPT ![p] = [tick[p] EXCEPT !.jobs = Abandoned]]  OBVIOUS
  <2> QED  BY <2>1, <2>2 DEF IInv, TypeOK
<1>3. claim' \subseteq Item  BY <1>1 DEF IInv, TypeOK
<1>4. TypeOK'  BY <1>2, <1>3 DEF IInv, TypeOK
<1>5. SomebodyResolves'  BY HandsStay
<1> QED  BY <1>4, <1>5 DEF IInv

LEMMA ReclaimKeeps ==
    ASSUME IInv, NEW p \in Proc, reclaimAbandonedResolves(p) PROVE IInv'
<1> USE DEF reclaimAbandonedResolves, leaseVars
<1>1. PICK i \in tick[p].jobs :
        /\ tick' = [tick EXCEPT ![p] = [jobs |-> tick[p].jobs \ {i},
                                        job |-> IF Exists(i) THEN i ELSE NoItem]]
        /\ \/ Reresolve(p, i) /\ UNCHANGED ending
           \/ /\ ending' = [ending EXCEPT ![p][i] = "del"]
              /\ UNCHANGED <<status, call>>
  OBVIOUS
<1>2. tick[p].jobs \subseteq Item  BY DEF IInv, TypeOK, Tick
<1>3. i \in Item  BY <1>2
<1>4. tick' \in [Proc -> Tick]
  <2>1. [jobs |-> tick[p].jobs \ {i}, job |-> IF Exists(i) THEN i ELSE NoItem]
          \in Tick
    BY <1>2, <1>3 DEF Tick
  <2> QED  BY <1>1, <2>1 DEF IInv, TypeOK
<1>5. CASE Reresolve(p, i) /\ UNCHANGED ending
  <2>1. /\ status' \in [Item -> Status]
        /\ call' \in [Proc -> [Item -> CallPc]]
        /\ SomebodyResolves'
    BY <1>3, <1>5, ReresolveMoves
  <2>2. TypeOK'  BY <1>4, <1>5, <2>1 DEF IInv, TypeOK, CallPc
  <2> QED  BY <2>1, <2>2 DEF IInv
<1>6. CASE /\ ending' = [ending EXCEPT ![p][i] = "del"]
           /\ UNCHANGED <<status, call>>
  <2>1. ending' \in [Proc -> [Item -> EndPc]]
    BY <1>3, <1>6, EndingMoves DEF IInv, EndPc
  <2>2. TypeOK'  BY <1>4, <1>6, <2>1 DEF IInv, TypeOK, EndPc
  <2>3. SomebodyResolves'  BY <1>6, HandsStay
  <2> QED  BY <2>2, <2>3 DEF IInv
<1> QED  BY <1>1, <1>5, <1>6

LEMMA LapseKeeps ==
    ASSUME IInv, NEW i \in Item,
           DeadLeaseLapses(i) \/ LiveLeaseLapses(i) \/ ClaimLapses(i)
    PROVE  IInv'
<1> USE DEF DeadLeaseLapses, LiveLeaseLapses, ClaimLapses, workVars, Counted
<1>1. lease' \in [Item -> Proc \cup {NoProc}] /\ claim' \subseteq Item
  BY DEF IInv, TypeOK
<1>2. count' \in Nat  BY DEF IInv, TypeOK
<1>3. TypeOK'  BY <1>1, <1>2 DEF IInv, TypeOK
<1>4. SomebodyResolves'  BY HandsStay
<1> QED  BY <1>3, <1>4 DEF IInv

\* After a crash not everybody is alive, and nobody comes back.
LEMMA CrashKeeps ==
    ASSUME IInv, NEW p \in Proc, Crash(p) PROVE IInv'
<1> USE DEF Crash, leaseVars, IInv
<1>1. /\ call' \in [Proc -> [Item -> CallPc]]
      /\ task' \in [Proc -> [Item -> TaskPc]]
      /\ ending' \in [Proc -> [Item -> EndPc]]
      /\ tick' \in [Proc -> Tick]
  BY DEF TypeOK, ForItems, CallPc, TaskPc, EndPc, NoTick, Tick
<1>2. TypeOK'  BY <1>1 DEF TypeOK, CallPc, EndPc
<1>3. SomebodyResolves'  BY DEF SomebodyResolves
<1> QED  BY <1>2, <1>3

-----------------------------------------------------------------------------
(* Theorems.                                                               *)

LEMMA InitIInv == Init => IInv
<1> SUFFICES ASSUME Init PROVE IInv  OBVIOUS
<1>1. NoTick \in Tick  BY DEF NoTick, Tick
<1>2. TypeOK  BY <1>1, ResolveAssumption DEF Init, TypeOK, ForItems, Status, TaskPc
<1>3. SomebodyResolves  BY DEF Init, SomebodyResolves, Settled, ForItems
<1> QED  BY <1>2, <1>3 DEF IInv

LEMMA NextIInv == IInv /\ [Next]_vars => IInv'
<1> SUFFICES ASSUME IInv, [Next]_vars PROVE IInv'  OBVIOUS
<1>1. CASE UNCHANGED vars
  <2>1. TypeOK'  BY <1>1 DEF vars, leaseVars, workVars, IInv, TypeOK
  <2>2. SomebodyResolves'  BY <1>1, HandsStay DEF vars, workVars
  <2> QED  BY <2>1, <2>2 DEF IInv
<1>2. CASE Ask
  BY <1>2, AddUrlKeeps, RetryKeeps, ScheduleKeeps, RemoveKeeps DEF Ask
<1>3. CASE \E p \in Proc, i \in Item :
             Caller(p, i) \/ Resolver(p, i) \/ Ender(p, i)
  BY <1>3, InvalidateKeeps, ResolveKeeps, RegisterKeeps, CommitKeeps, EndKeeps
     DEF Caller, Resolver, Ender
<1>4. CASE \E p \in Proc : TickStep(p)
  BY <1>4, ListKeeps, ReclaimKeeps DEF TickStep
<1>5. CASE Fault
  BY <1>5, LapseKeeps, CrashKeeps DEF Fault
<1> QED  BY <1>1, <1>2, <1>3, <1>4, <1>5 DEF Next

\* The types and the hands together are inductive.
THEOREM InvariantHolds == Spec => []IInv
<1> QED  BY InitIInv, NextIInv, PTL DEF Spec

\* The resolves keep their types.
THEOREM TypesHold == Spec => []TypeOK
<1>1. IInv => TypeOK  BY DEF IInv
<1> QED  BY <1>1, InvariantHolds, PTL

\* In a cluster of any size no join, retry, lapse or reclaim leaves an item
\* resolving with nobody to resolve it, while no process crashes.
THEOREM NobodyTurnsAway == Spec => []SomebodyResolves
<1>1. IInv => SomebodyResolves  BY DEF IInv
<1> QED  BY <1>1, InvariantHolds, PTL
=============================================================================
