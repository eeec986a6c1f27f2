------------------------- MODULE ExtractLockProofs -------------------------
(***************************************************************************)
(* Proofs about ExtractLock: types, one extractor at a time, and one spawn *)
(* of yt-dlp per cached result.                                            *)
(***************************************************************************)
EXTENDS ExtractLock, TLAPS

\* Whoever extracts has the lock, unless it is known to have none.
LockHeld ==
    \A p \in Proc, u \in Url :
        Extracts(p, u) /\ <<p, u>> \notin unlocked => lock[u] = p

\* A process extracts without the lock only after a fault.
UnlockedFaulted == \A p \in Proc, u \in Url : <<p, u>> \in unlocked => u \in faulted

\* What is about to be written is a result.
WritesResult ==
    \A p \in Proc, u \in Url : ext[p][u].pc = "write" => ext[p][u].res \in Result

\* The one spawn has put its result into the cache, or will as the holder of
\* the lock, or died with it.
Accounted(u) ==
    \/ cache[u] # NoResult
    \/ lock[u] \in alive /\ ext[lock[u]][u].pc \in Working
    \/ lock[u] \in Proc \ alive

SpawnsAccounted ==
    \A u \in Url : u \in faulted \/ spawns[u] = 0 \/ (spawns[u] = 1 /\ Accounted(u))

IInv == TypeOK /\ LockHeld /\ UnlockedFaulted /\ WritesResult /\ SpawnsAccounted

-----------------------------------------------------------------------------
(* A step of one extraction leaves the others as they are.                 *)

\* The extraction of a process changes, all others stay.
Moves(p, u, e) ==
    /\ ext' \in [Proc -> [Url -> Extraction]]
    /\ ext'[p][u] = e
    /\ \A q \in Proc, v \in Url : <<q, v>> # <<p, u>> => ext'[q][v] = ext[q][v]

\* Replacing the entry of <<p, u>> moves that extraction and no other.
LEMMA EntryMoves ==
    ASSUME TypeOK, NEW p \in Proc, NEW u \in Url, NEW e \in Extraction,
           ext' = [ext EXCEPT ![p] = [ext[p] EXCEPT ![u] = e]]
    PROVE  Moves(p, u, e)
BY DEF TypeOK, Moves

\* GoTo changes the place and keeps the result.
LEMMA GoToMoves ==
    ASSUME TypeOK, NEW p \in Proc, NEW u \in Url, NEW pc \in ExtPc, GoTo(p, u, pc)
    PROVE  Moves(p, u, [pc |-> pc, res |-> ext[p][u].res])
<1> DEFINE e == [ext[p][u] EXCEPT !.pc = pc]
<1>1. ext[p][u] \in Extraction  BY DEF TypeOK
<1>2. e \in Extraction /\ e = [pc |-> pc, res |-> ext[p][u].res]
  BY <1>1 DEF Extraction
<1>3. ext' = [ext EXCEPT ![p] = [ext[p] EXCEPT ![u] = e]]  BY DEF GoTo
<1> HIDE DEF e
<1> QED  BY <1>2, <1>3, EntryMoves

\* Return changes the place and the result.
LEMMA ReturnMoves ==
    ASSUME TypeOK, NEW p \in Proc, NEW u \in Url, NEW pc \in ExtPc,
           NEW r \in Result \cup {NoResult}, Return(p, u, pc, r)
    PROVE  Moves(p, u, [pc |-> pc, res |-> r])
<1> DEFINE e == [pc |-> pc, res |-> r]
<1>1. e \in Extraction  BY DEF Extraction
<1>2. ext' = [ext EXCEPT ![p] = [ext[p] EXCEPT ![u] = e]]  BY DEF Return
<1> HIDE DEF e
<1>3. Moves(p, u, e)  BY <1>1, <1>2, EntryMoves
<1> QED  BY <1>3 DEF e

-----------------------------------------------------------------------------
(* The invariant.                                                          *)

LEMMA InitIInv == Init => IInv
<1> SUFFICES ASSUME Init PROVE IInv  OBVIOUS
<1> USE DEF Init
<1>1. NotExtracting \in Extraction
  BY DEF NotExtracting, Extraction, ExtPc, Result, NoResult
<1>2. TypeOK  BY <1>1 DEF TypeOK
<1>3. LockHeld  BY DEF LockHeld, Extracts, Holding, NotExtracting
<1>4. UnlockedFaulted  BY DEF UnlockedFaulted
<1>5. WritesResult  BY DEF WritesResult, NotExtracting
<1>6. SpawnsAccounted  BY DEF SpawnsAccounted
<1> QED  BY <1>2, <1>3, <1>4, <1>5, <1>6 DEF IInv

\* A step of p that keeps lock, unlocked and spawns and does not begin to hold.
LEMMA QuietMove ==
    ASSUME IInv, NEW p \in Proc, NEW u \in Url, NEW e \in Extraction,
           Moves(p, u, e),
           p \in alive, UNCHANGED <<alive, lock, unlocked, history, faults>>,
           e.pc \in Holding => ext[p][u].pc \in Holding,
           e.pc = "write" => e.res \in Result,
           \/ UNCHANGED cache /\ (ext[p][u].pc \in Working => e.pc \in Working)
           \/ \E r \in Result : cache' = [cache EXCEPT ![u] = r]
    PROVE  IInv'
<1> USE DEF IInv, Moves
<1>1. cache' \in [Url -> Result \cup {NoResult}]  BY DEF TypeOK
<1>2. TypeOK'  BY <1>1 DEF TypeOK, history
<1>3. LockHeld'  BY DEF LockHeld, Extracts
<1>4. UnlockedFaulted'  BY DEF UnlockedFaulted, history
<1>5. WritesResult'  BY DEF WritesResult
<1>6. ASSUME NEW v \in Url, Accounted(v) PROVE Accounted(v)'
  <2>1. CASE v = u /\ UNCHANGED cache
    <3>1. ext[p][u].pc \in Working => e.pc \in Working \/ cache'[u] # NoResult
      BY <2>1 DEF TypeOK, Result, NoResult
    <3> QED  BY <1>6, <2>1, <3>1 DEF Accounted, TypeOK
  <2>2. CASE v = u /\ \E r \in Result : cache' = [cache EXCEPT ![u] = r]
    <3>1. cache'[u] # NoResult  BY <2>2 DEF TypeOK, Result, NoResult
    <3> QED  BY <2>2, <3>1 DEF Accounted
  <2>3. CASE v # u
    <3>1. cache'[v] = cache[v]  BY <2>3 DEF TypeOK
    <3>2. \A q \in Proc : ext'[q][v] = ext[q][v]  BY <2>3
    <3>3. alive \subseteq Proc  BY DEF TypeOK
    <3> QED  BY <1>6, <3>1, <3>2, <3>3 DEF Accounted
  <2> QED  BY <2>1, <2>2, <2>3
<1>7. SpawnsAccounted'  BY <1>6 DEF SpawnsAccounted, history
<1> QED  BY <1>2, <1>3, <1>4, <1>5, <1>7

LEMMA StartKeeps ==
    ASSUME IInv, NEW p \in Proc, NEW u \in Url, StartExtraction(p, u) PROVE IInv'
<1> DEFINE e == [pc |-> "read", res |-> ext[p][u].res]
<1> USE DEF StartExtraction, At, redis, history
<1>1. Moves(p, u, e)  BY GoToMoves DEF IInv, ExtPc
<1>2. e \in Extraction  BY DEF IInv, TypeOK, Extraction, ExtPc
<1>3. e.pc \notin Holding /\ e.pc # "write" /\ ext[p][u].pc \notin Working
  BY DEF Holding, Working
<1> HIDE DEF e
<1> QED  BY <1>1, <1>2, <1>3, QuietMove

LEMMA ReadKeeps ==
    ASSUME IInv, NEW p \in Proc, NEW u \in Url, ReadCache(p, u) PROVE IInv'
<1> USE DEF ReadCache, At, redis, history
<1>1. PICK e \in Extraction :
        Moves(p, u, e) /\ e.pc \in {"done", "acquire"}
  <2>1. CASE cache[u] # NoResult
    <3>1. cache[u] \in Result \cup {NoResult}  BY DEF IInv, TypeOK
    <3>2. Moves(p, u, [pc |-> "done", res |-> cache[u]])
      BY <2>1, <3>1, ReturnMoves DEF IInv, ExtPc
    <3> QED  BY <3>1, <3>2 DEF Extraction, ExtPc
  <2>2. CASE cache[u] = NoResult
    <3>1. Moves(p, u, [pc |-> "acquire", res |-> ext[p][u].res])
      BY <2>2, GoToMoves DEF IInv, ExtPc
    <3>2. ext[p][u].res \in Result \cup {NoResult}
      BY DEF IInv, TypeOK, Extraction
    <3> QED  BY <3>1, <3>2 DEF Extraction, ExtPc
  <2> QED  BY <2>1, <2>2
<1>2. e.pc \notin Holding /\ e.pc # "write" /\ ext[p][u].pc \notin Working
  BY <1>1 DEF Holding, Working
<1> QED  BY <1>1, <1>2, QuietMove

LEMMA WaitTimeoutKeeps ==
    ASSUME IInv, NEW p \in Proc, NEW u \in Url, WaitTimeout(p, u) PROVE IInv'
<1> DEFINE e == [pc |-> "done", res |-> "fail"]
<1> USE DEF WaitTimeout, At, redis, history
<1>1. Moves(p, u, e)  BY ReturnMoves DEF IInv, ExtPc, Result
<1>2. e \in Extraction  BY DEF Extraction, ExtPc, Result
<1>3. e.pc \notin Holding /\ e.pc # "write" /\ ext[p][u].pc \notin Working
  BY DEF Holding, Working
<1> HIDE DEF e
<1> QED  BY <1>1, <1>2, <1>3, QuietMove

LEMMA UncachedKeeps ==
    ASSUME IInv, NEW p \in Proc, NEW u \in Url, ExtractInfoUncached(p, u) PROVE IInv'
<1> USE DEF ExtractInfoUncached, At, redis, history
<1>1. PICK r \in Result : Return(p, u, "write", r)  OBVIOUS
<1> DEFINE e == [pc |-> "write", res |-> r]
<1>2. Moves(p, u, e)  BY <1>1, ReturnMoves DEF IInv, ExtPc
<1>3. e \in Extraction /\ e.res \in Result /\ e.pc \in Working
  BY DEF Extraction, ExtPc, Working
<1>4. ext[p][u].pc \in Holding  BY DEF Holding
<1> HIDE DEF e
<1> QED  BY <1>2, <1>3, <1>4, QuietMove

LEMMA WriteKeeps ==
    ASSUME IInv, NEW p \in Proc, NEW u \in Url, WriteExtractCache(p, u) PROVE IInv'
<1> DEFINE e == [pc |-> "release", res |-> ext[p][u].res]
<1> USE DEF WriteExtractCache, At, redis, history
<1>1. Moves(p, u, e)  BY GoToMoves DEF IInv, ExtPc
<1>2. e \in Extraction  BY DEF IInv, TypeOK, Extraction, ExtPc
<1>3. ext[p][u].pc \in Holding /\ e.pc # "write"  BY DEF Holding
<1>4. ext[p][u].res \in Result  BY DEF IInv, WritesResult
<1> HIDE DEF e
<1> QED  BY <1>1, <1>2, <1>3, <1>4, QuietMove

LEMMA FinishKeeps ==
    ASSUME IInv, NEW p \in Proc, NEW u \in Url, FinishExtraction(p, u) PROVE IInv'
<1> USE DEF FinishExtraction, At, redis, history
<1>1. NotExtracting \in Extraction
  BY DEF NotExtracting, Extraction, ExtPc, Result, NoResult
<1>2. ext' = [ext EXCEPT ![p] = [ext[p] EXCEPT ![u] = NotExtracting]]  OBVIOUS
<1>3. Moves(p, u, NotExtracting)  BY <1>1, <1>2, EntryMoves DEF IInv
<1>4. /\ NotExtracting.pc \notin Holding /\ NotExtracting.pc # "write"
      /\ ext[p][u].pc \notin Working
  BY DEF NotExtracting, Holding, Working
<1> QED  BY <1>1, <1>3, <1>4, QuietMove

-----------------------------------------------------------------------------
(* The steps that change the lock, the faults or the spawns.               *)

LEMMA AcquireKeeps ==
    ASSUME IInv, NEW p \in Proc, NEW u \in Url, Acquire(p, u) PROVE IInv'
<1> USE DEF Acquire, At, history
<1>1. CASE lock[u] # NoProc
  <2> DEFINE e == [pc |-> "read", res |-> ext[p][u].res]
  <2>1. Moves(p, u, e)  BY <1>1, GoToMoves DEF IInv, ExtPc
  <2>2. e \in Extraction  BY DEF IInv, TypeOK, Extraction, ExtPc
  <2>3. e.pc \notin Holding /\ e.pc # "write" /\ ext[p][u].pc \notin Working
    BY DEF Holding, Working
  <2> HIDE DEF e
  <2>4. UNCHANGED lock  BY <1>1
  <2> QED  BY <2>1, <2>2, <2>3, <2>4, QuietMove
<1>2. CASE lock[u] = NoProc
  <2>1. lock' = [lock EXCEPT ![u] = p] /\ GoTo(p, u, "check")  BY <1>2
  <2>2. Moves(p, u, [pc |-> "check", res |-> ext[p][u].res])
    BY <2>1, GoToMoves DEF IInv, ExtPc
  <2> USE DEF IInv, Moves
  <2>3. TypeOK'  BY <2>1, <2>2 DEF TypeOK
  <2>4. LockHeld'
    \* Nobody else holds it: its lock would be set.
    BY <1>2, <2>1, <2>2, ExtractAssumption DEF LockHeld, Extracts, TypeOK
  <2>5. UnlockedFaulted'  BY DEF UnlockedFaulted
  <2>6. WritesResult'  BY <2>2 DEF WritesResult
  <2>7. ASSUME NEW v \in Url, Accounted(v) PROVE Accounted(v)'
    <3>1. CASE v = u
      <4>1. cache[u] # NoResult
        BY <1>2, <2>7, <3>1, ExtractAssumption DEF Accounted, TypeOK
      <4> QED  BY <3>1, <4>1 DEF Accounted
    <3>2. CASE v # u
      <4>1. lock'[v] = lock[v] /\ \A q \in Proc : ext'[q][v] = ext[q][v]
        BY <2>1, <2>2, <3>2 DEF TypeOK
      <4> QED  BY <2>7, <4>1 DEF Accounted, TypeOK
    <3> QED  BY <3>1, <3>2
  <2>8. SpawnsAccounted'  BY <2>7 DEF SpawnsAccounted
  <2> QED  BY <2>3, <2>4, <2>5, <2>6, <2>8
<1> QED  BY <1>1, <1>2

LEMMA AcquireFailsKeeps ==
    ASSUME IInv, NEW p \in Proc, NEW u \in Url, AcquireFails(p, u) PROVE IInv'
<1> USE DEF AcquireFails, At, redis
<1>1. Moves(p, u, [pc |-> "check", res |-> ext[p][u].res])
  BY GoToMoves DEF IInv, ExtPc
<1> USE DEF IInv, Moves
<1>2. faults' \in Nat  BY DEF TypeOK
<1>3. TypeOK'  BY <1>1, <1>2 DEF TypeOK
<1>4. LockHeld'  BY <1>1 DEF LockHeld, Extracts
<1>5. UnlockedFaulted'  BY DEF UnlockedFaulted
<1>6. WritesResult'  BY <1>1 DEF WritesResult
<1>7. ASSUME NEW v \in Url, v # u, Accounted(v) PROVE Accounted(v)'
  <2>1. \A q \in Proc : ext'[q][v] = ext[q][v]  BY <1>1, <1>7
  <2> QED  BY <1>7, <2>1 DEF Accounted, TypeOK
<1>8. SpawnsAccounted'  BY <1>7 DEF SpawnsAccounted
<1> QED  BY <1>3, <1>4, <1>5, <1>6, <1>8

LEMMA CheckKeeps ==
    ASSUME IInv, NEW p \in Proc, NEW u \in Url, CheckAgain(p, u) PROVE IInv'
<1> USE DEF CheckAgain, At, redis
<1>1. CASE cache[u] # NoResult
  <2> DEFINE e == [pc |-> "release", res |-> cache[u]]
  <2>1. cache[u] \in Result \cup {NoResult}  BY DEF IInv, TypeOK
  <2>2. Return(p, u, "release", cache[u]) /\ UNCHANGED history
    BY <1>1 DEF history
  <2>3. Moves(p, u, e)  BY <2>1, <2>2, ReturnMoves DEF IInv, ExtPc
  <2>4. e \in Extraction  BY <2>1 DEF Extraction, ExtPc
  <2>5. /\ ext[p][u].pc \in Holding /\ ext[p][u].pc \notin Working
        /\ e.pc # "write"
    BY DEF Holding, Working
  <2> HIDE DEF e
  <2> QED  BY <2>2, <2>3, <2>4, <2>5, QuietMove
<1>2. CASE cache[u] = NoResult
  <2>1. /\ GoTo(p, u, "work")
        /\ spawns' = [spawns EXCEPT ![u] = spawns[u] + 1]
    BY <1>2
  <2>2. Moves(p, u, [pc |-> "work", res |-> ext[p][u].res])
    BY <2>1, GoToMoves DEF IInv, ExtPc
  <2> USE DEF IInv, Moves
  <2>3. spawns[u] \in Nat  BY DEF TypeOK
  <2>4. TypeOK'  BY <2>1, <2>2, <2>3 DEF TypeOK
  <2>5. LockHeld'  BY <2>2 DEF LockHeld, Extracts, Holding
  <2>6. UnlockedFaulted'  BY DEF UnlockedFaulted
  <2>7. WritesResult'  BY <2>2 DEF WritesResult
  <2>8. ASSUME NEW v \in Url, v # u, Accounted(v) PROVE Accounted(v)'
    <3>1. \A q \in Proc : ext'[q][v] = ext[q][v]  BY <2>2, <2>8
    <3> QED  BY <2>8, <3>1 DEF Accounted, TypeOK
  \* Who checks has the lock and no result: nobody has spawned before.
  <2>9. u \notin faulted => lock[u] = p
    BY DEF LockHeld, UnlockedFaulted, Extracts, Holding
  <2>10. u \notin faulted => ~Accounted(u)
    BY <1>2, <2>9 DEF Accounted, Working
  <2>11. u \notin faulted => spawns'[u] = 1 /\ Accounted(u)'
    <3> SUFFICES ASSUME u \notin faulted PROVE spawns'[u] = 1 /\ Accounted(u)'
      OBVIOUS
    <3>1. spawns[u] = 0  BY <2>10 DEF SpawnsAccounted
    <3>2. spawns'[u] = 1  BY <2>1, <3>1 DEF TypeOK
    <3>3. Accounted(u)'  BY <2>2, <2>9 DEF Accounted, Working
    <3> QED  BY <3>2, <3>3
  <2>12. \A v \in Url \ {u} : spawns'[v] = spawns[v]  BY <2>1 DEF TypeOK
  <2>13. SpawnsAccounted'  BY <2>8, <2>11, <2>12 DEF SpawnsAccounted
  <2> QED  BY <2>4, <2>5, <2>6, <2>7, <2>13
<1> QED  BY <1>1, <1>2

LEMMA ReleaseKeeps ==
    ASSUME IInv, NEW p \in Proc, NEW u \in Url, ReleaseLock(p, u) PROVE IInv'
<1> USE DEF ReleaseLock, At, history
<1>1. Moves(p, u, [pc |-> "done", res |-> ext[p][u].res])
  BY GoToMoves DEF IInv, ExtPc
<1>2. /\ lock[u] = p => lock'[u] = NoProc
      /\ lock[u] # p => lock'[u] = lock[u]
      /\ \A v \in Url \ {u} : lock'[v] = lock[v]
  BY DEF IInv, TypeOK
<1> USE DEF IInv, Moves
<1>3. lock' \in [Url -> Proc \cup {NoProc}]  BY DEF TypeOK
<1>4. TypeOK'  BY <1>1, <1>3 DEF TypeOK
<1>5. LockHeld'  BY <1>1, <1>2 DEF LockHeld, Extracts, Holding
<1>6. UnlockedFaulted'  BY DEF UnlockedFaulted
<1>7. WritesResult'  BY <1>1 DEF WritesResult
<1>8. ASSUME NEW v \in Url, Accounted(v) PROVE Accounted(v)'
  <2>1. CASE v = u /\ lock[u] = p
    <3>1. cache[u] # NoResult  BY <1>8, <2>1 DEF Accounted, Working
    <3> QED  BY <2>1, <3>1 DEF Accounted
  <2>2. CASE v = u /\ lock[u] # p
    <3>1. lock[u] \in Proc => ext'[lock[u]][u] = ext[lock[u]][u]
      BY <1>1, <2>2
    <3> QED  BY <1>2, <1>8, <2>2, <3>1 DEF Accounted, TypeOK
  <2>3. CASE v # u
    <3>1. lock'[v] = lock[v] /\ \A q \in Proc : ext'[q][v] = ext[q][v]
      BY <1>1, <1>2, <2>3
    <3> QED  BY <1>8, <3>1 DEF Accounted, TypeOK
  <2> QED  BY <2>1, <2>2, <2>3
<1>9. SpawnsAccounted'  BY <1>8 DEF SpawnsAccounted
<1> QED  BY <1>4, <1>5, <1>6, <1>7, <1>9

-----------------------------------------------------------------------------
(* The cache, the leases and the crashes.                                  *)

LEMMA InvalidateKeeps ==
    ASSUME IInv, NEW u \in Url, InvalidateCache(u) PROVE IInv'
<1> USE DEF InvalidateCache, IInv
<1>1. /\ cache' \in [Url -> Result \cup {NoResult}]
      /\ spawns' \in [Url -> Nat]
      /\ spawns'[u] = 0
      /\ \A v \in Url \ {u} : cache'[v] = cache[v] /\ spawns'[v] = spawns[v]
  BY DEF TypeOK
<1>2. TypeOK'  BY <1>1 DEF TypeOK
<1>3. LockHeld'  BY DEF LockHeld, Extracts
<1>4. UnlockedFaulted'  BY DEF UnlockedFaulted
<1>5. WritesResult'  BY DEF WritesResult
<1>6. SpawnsAccounted'  BY <1>1 DEF SpawnsAccounted, Accounted
<1> QED  BY <1>2, <1>3, <1>4, <1>5, <1>6

\* A lock that lapses, with the fault noted, and whoever loses it.
LEMMA LapseKeeps ==
    ASSUME IInv, NEW u \in Url,
           lock' = [lock EXCEPT ![u] = NoProc],
           faulted' = faulted \cup {u},
           UNCHANGED <<alive, cache, ext, spawns>>,
           faults' \in Nat,
           \/ lock[u] \notin alive /\ UNCHANGED unlocked
           \/ lock[u] \in alive /\ unlocked' = unlocked \cup {<<lock[u], u>>}
    PROVE  IInv'
<1> USE DEF IInv
<1>1. /\ lock' \in [Url -> Proc \cup {NoProc}]
      /\ \A v \in Url \ {u} : lock'[v] = lock[v]
  BY DEF TypeOK
<1>2. unlocked' \subseteq Proc \X Url  BY DEF TypeOK
<1>3. TypeOK'  BY <1>1, <1>2 DEF TypeOK
<1>4. LockHeld'  BY <1>1 DEF LockHeld, Extracts
<1>5. UnlockedFaulted'  BY DEF UnlockedFaulted
<1>6. WritesResult'  BY DEF WritesResult
<1>7. SpawnsAccounted'  BY <1>1 DEF SpawnsAccounted, Accounted
<1> QED  BY <1>3, <1>4, <1>5, <1>6, <1>7

LEMMA CrashKeeps ==
    ASSUME IInv, NEW p \in Proc, Crash(p) PROVE IInv'
<1> USE DEF Crash, IInv, redis, history
<1>1. NotExtracting \in Extraction
  BY DEF NotExtracting, Extraction, ExtPc, Result, NoResult
<1>2. /\ ext' \in [Proc -> [Url -> Extraction]]
      /\ \A q \in Proc \ {p} : ext'[q] = ext[q]
      /\ \A u \in Url : ext'[p][u] = NotExtracting
  BY <1>1 DEF TypeOK
<1>3. TypeOK'  BY <1>2 DEF TypeOK
<1>4. LockHeld'
  BY <1>2 DEF LockHeld, Extracts, TypeOK
<1>5. UnlockedFaulted'  BY DEF UnlockedFaulted
<1>6. WritesResult'  BY <1>2 DEF WritesResult, NotExtracting
<1>7. ASSUME NEW u \in Url, Accounted(u) PROVE Accounted(u)'
  <2>1. CASE lock[u] = p  BY <2>1 DEF Accounted, TypeOK
  <2>2. CASE lock[u] # p  BY <1>2, <1>7, <2>2 DEF Accounted, TypeOK
  <2> QED  BY <2>1, <2>2
<1>8. SpawnsAccounted'  BY <1>7 DEF SpawnsAccounted
<1> QED  BY <1>3, <1>4, <1>5, <1>6, <1>8

-----------------------------------------------------------------------------
(* Theorems.                                                               *)

LEMMA NextIInv == IInv /\ [Next]_vars => IInv'
<1> SUFFICES ASSUME IInv, [Next]_vars PROVE IInv'  OBVIOUS
<1>1. CASE UNCHANGED vars
  BY <1>1 DEF vars, redis, history, IInv, TypeOK, LockHeld, Extracts,
     UnlockedFaulted, WritesResult, SpawnsAccounted, Accounted
<1>2. ASSUME NEW p \in Proc, NEW u \in Url,
             \/ StartExtraction(p, u) \/ Step(p, u)
             \/ WaitTimeout(p, u) \/ AcquireFails(p, u)
      PROVE  IInv'
  BY <1>2, StartKeeps, ReadKeeps, AcquireKeeps, CheckKeeps, UncachedKeeps,
     WriteKeeps, ReleaseKeeps, FinishKeeps, WaitTimeoutKeeps, AcquireFailsKeeps
     DEF Step
<1>3. ASSUME NEW u \in Url, InvalidateCache(u) \/ CacheExpires(u) PROVE IInv'
  BY <1>3, InvalidateKeeps DEF CacheExpires
<1>4. ASSUME NEW u \in Url, DeadLockLapses(u) PROVE IInv'
  <2>1. faults' \in Nat  BY <1>4 DEF DeadLockLapses, IInv, TypeOK
  <2> QED  BY <1>4, <2>1, LapseKeeps DEF DeadLockLapses
<1>5. ASSUME NEW u \in Url, LiveLockLapses(u) PROVE IInv'
  <2>1. faults' \in Nat  BY <1>5 DEF LiveLockLapses, IInv, TypeOK
  <2> QED  BY <1>5, <2>1, LapseKeeps DEF LiveLockLapses
<1>6. ASSUME NEW p \in Proc, Crash(p) PROVE IInv'
  BY <1>6, CrashKeeps
<1> QED  BY <1>1, <1>2, <1>3, <1>4, <1>5, <1>6 DEF Next

\* The inductive invariant holds in every state of every cluster.
THEOREM InvariantHolds == Spec => []IInv
<1> QED  BY InitIInv, NextIInv, PTL DEF Spec

\* The extraction protocol keeps its types.
THEOREM TypesHold == Spec => []TypeOK
<1>1. IInv => TypeOK  BY DEF IInv
<1> QED  BY <1>1, InvariantHolds, PTL

\* Two processes of any cluster extract one URL at the same time only if one of
\* them has lost its lease or could not reach Redis.
THEOREM LockExcludes == Spec => []OneExtractor
<1>1. IInv => OneExtractor  BY DEF IInv, LockHeld, OneExtractor
<1> QED  BY <1>1, InvariantHolds, PTL

\* However many processes queue for a URL, yt-dlp runs once per cached result
\* as long as no lock lapses.
THEOREM ResultIsShared == Spec => []OneSpawnPerResult
<1>1. IInv => OneSpawnPerResult
  BY DEF IInv, TypeOK, SpawnsAccounted, OneSpawnPerResult
<1> QED  BY <1>1, InvariantHolds, PTL
=============================================================================
