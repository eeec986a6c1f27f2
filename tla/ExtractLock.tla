---------------------------- MODULE ExtractLock ----------------------------
(***************************************************************************)
(* One yt-dlp extraction per URL in the cluster (server/media/yt-dlp/      *)
(* extract.ts, extract-lock.ts, lease-lua.ts, cache.ts): a cache in Redis, *)
(* a lock with a lease that its holder renews, and in each process one     *)
(* extraction per URL, which later callers of the process share.           *)
(*                                                                         *)
(* A step is one Redis command and the code that runs on its reply.  The   *)
(* random token in the lock is the process: a process runs one extraction  *)
(* of a URL at a time, and never starts again after a crash.  Time is not  *)
(* modelled: a lease may run out whenever it is not renewed.               *)
(***************************************************************************)
EXTENDS Integers

CONSTANTS Proc, Url,
          NoProc,    \* nobody holds the lock
          MayCrash,  \* the processes that may crash
          MaxFaults  \* bound: leases that lapse under a living process, and
                     \* commands that Redis does not answer

ASSUME ExtractAssumption ==
    /\ NoProc \notin Proc
    /\ MayCrash \subseteq Proc
    /\ MaxFaults \in Nat

VARIABLES
    alive,    \* the processes that have not crashed
    cache,    \* cache[u]: the cached result, or "none"
    lock,     \* lock[u]: the process whose token is under the lock key
    ext,      \* ext[p][u]: the extraction in inflightByUrl of process p
    unlocked, \* <<p, u>>: p extracts u although it has no lock
    spawns,   \* spawns[u]: yt-dlp runs since the cache last lost its entry
    faulted,  \* the URLs whose lock lapsed, or could not be asked for
    faults    \* faults so far

redis == <<cache, lock>>
history == <<spawns, faulted>>
vars == <<alive, redis, ext, unlocked, history, faults>>

Result == {"ok", "fail"}
NoResult == "none"
ExtPc == {"idle", "read", "acquire", "check", "work", "write", "release", "done"}
Extraction == [pc : ExtPc, res : Result \cup {NoResult}]
NotExtracting == [pc |-> "idle", res |-> NoResult]

\* Inside the try block that ends in the release.
Holding == {"check", "work", "write", "release"}
Working == {"work", "write"}

TypeOK ==
    /\ alive \subseteq Proc
    /\ cache \in [Url -> Result \cup {NoResult}]
    /\ lock \in [Url -> Proc \cup {NoProc}]
    /\ ext \in [Proc -> [Url -> Extraction]]
    /\ unlocked \subseteq Proc \X Url
    /\ spawns \in [Url -> Nat]
    /\ faulted \subseteq Url
    /\ faults \in Nat

Init ==
    /\ alive = Proc
    /\ cache = [u \in Url |-> NoResult]
    /\ lock = [u \in Url |-> NoProc]
    /\ ext = [p \in Proc |-> [u \in Url |-> NotExtracting]]
    /\ unlocked = {}
    /\ spawns = [u \in Url |-> 0]
    /\ faulted = {}
    /\ faults = 0

At(p, u, pc) == p \in alive /\ ext[p][u].pc = pc
GoTo(p, u, pc) == ext' = [ext EXCEPT ![p][u].pc = pc]
Return(p, u, pc, r) == ext' = [ext EXCEPT ![p][u] = [pc |-> pc, res |-> r]]

-----------------------------------------------------------------------------
(* The loop of withYtDlpExtractLock.                                       *)

\* extractInfo with nothing in flight for the URL in this process.
StartExtraction(p, u) ==
    /\ At(p, u, "idle")
    /\ GoTo(p, u, "read")
    /\ UNCHANGED <<alive, redis, unlocked, history, faults>>

\* readReady of the loop, and the read before it.
ReadCache(p, u) ==
    /\ At(p, u, "read")
    /\ IF cache[u] # NoResult THEN Return(p, u, "done", cache[u])
       ELSE GoTo(p, u, "acquire")
    /\ UNCHANGED <<alive, redis, unlocked, history, faults>>

\* tryAcquire.  A waiter sleeps and polls again.
Acquire(p, u) ==
    /\ At(p, u, "acquire")
    /\ \/ /\ lock[u] = NoProc
          /\ lock' = [lock EXCEPT ![u] = p]
          /\ GoTo(p, u, "check")
       \/ /\ lock[u] # NoProc
          /\ UNCHANGED lock
          /\ GoTo(p, u, "read")
    /\ UNCHANGED <<alive, cache, unlocked, history, faults>>

\* Mutant: every poll sets the deadline anew.
WaitAgain(p, u) ==
    /\ At(p, u, "read")
    /\ cache[u] = NoResult
    /\ GoTo(p, u, "acquire")
    /\ UNCHANGED <<alive, redis, unlocked, history, faults>>

\* The deadline has passed, and the last read misses.
WaitTimeout(p, u) ==
    /\ At(p, u, "read")
    /\ cache[u] = NoResult
    /\ Return(p, u, "done", "fail")
    /\ UNCHANGED <<alive, redis, unlocked, history, faults>>

\* tryAcquire throws: the process extracts on its own.
AcquireFails(p, u) ==
    /\ At(p, u, "acquire")
    /\ faults < MaxFaults
    /\ faults' = faults + 1
    /\ unlocked' = unlocked \cup {<<p, u>>}
    /\ faulted' = faulted \cup {u}
    /\ GoTo(p, u, "check")
    /\ UNCHANGED <<alive, redis, spawns>>

\* Mutant: yt-dlp is spawned on the miss that was read before the lock.
CheckNothing(p, u) ==
    /\ At(p, u, "check")
    /\ GoTo(p, u, "work")
    /\ spawns' = [spawns EXCEPT ![u] = @ + 1]
    /\ UNCHANGED <<alive, redis, unlocked, faulted, faults>>

\* The reads under the lock, and the spawn if they miss.
CheckAgain(p, u) ==
    /\ At(p, u, "check")
    /\ \/ /\ cache[u] # NoResult
          /\ Return(p, u, "release", cache[u])
          /\ UNCHANGED spawns
       \/ /\ cache[u] = NoResult
          /\ GoTo(p, u, "work")
          /\ spawns' = [spawns EXCEPT ![u] = @ + 1]
    /\ UNCHANGED <<alive, redis, unlocked, faulted, faults>>

\* yt-dlp ends, or is killed at its own time limit.
ExtractInfoUncached(p, u) ==
    /\ At(p, u, "work")
    /\ \E r \in Result : Return(p, u, "write", r)
    /\ UNCHANGED <<alive, redis, unlocked, history, faults>>

WriteExtractCache(p, u) ==
    /\ At(p, u, "write")
    /\ cache' = [cache EXCEPT ![u] = ext[p][u].res]
    /\ GoTo(p, u, "release")
    /\ UNCHANGED <<alive, lock, unlocked, history, faults>>

\* Mutant: the lock is deleted whoever holds it.
ReleaseAnyLock(p, u) ==
    /\ At(p, u, "release")
    /\ lock' = [lock EXCEPT ![u] = NoProc]
    /\ unlocked' = unlocked \ {<<p, u>>}
    /\ GoTo(p, u, "done")
    /\ UNCHANGED <<alive, cache, history, faults>>

\* The heartbeat stops and RELEASE_SCRIPT runs.
ReleaseLock(p, u) ==
    /\ At(p, u, "release")
    /\ lock' = [lock EXCEPT ![u] = IF @ = p THEN NoProc ELSE @]
    /\ unlocked' = unlocked \ {<<p, u>>}
    /\ GoTo(p, u, "done")
    /\ UNCHANGED <<alive, cache, history, faults>>

\* The promise settles for every caller and leaves inflightByUrl.
FinishExtraction(p, u) ==
    /\ At(p, u, "done")
    /\ ext' = [ext EXCEPT ![p][u] = NotExtracting]
    /\ UNCHANGED <<alive, redis, unlocked, history, faults>>

-----------------------------------------------------------------------------
(* What happens to the cache and the lock from outside.                    *)

InvalidateCache(u) ==
    /\ cache' = [cache EXCEPT ![u] = NoResult]
    /\ spawns' = [spawns EXCEPT ![u] = 0]
    /\ UNCHANGED <<alive, lock, ext, unlocked, faulted, faults>>

\* The TTL of the entry, or the age limit of freshnessFilter.
CacheExpires(u) ==
    /\ cache[u] # NoResult
    /\ InvalidateCache(u)

\* The lease of a crashed holder runs out.
DeadLockLapses(u) ==
    /\ lock[u] \in Proc \ alive
    /\ lock' = [lock EXCEPT ![u] = NoProc]
    /\ faulted' = faulted \cup {u}
    /\ UNCHANGED <<alive, cache, ext, unlocked, spawns, faults>>

\* The lease of a living holder runs out: it is stalled, or its renewals do
\* not reach Redis.  It only warns, and works on.
LiveLockLapses(u) ==
    /\ faults < MaxFaults
    /\ faults' = faults + 1
    /\ lock[u] \in alive
    /\ lock' = [lock EXCEPT ![u] = NoProc]
    /\ unlocked' = unlocked \cup {<<lock[u], u>>}
    /\ faulted' = faulted \cup {u}
    /\ UNCHANGED <<alive, cache, ext, spawns>>

\* A process is gone, with its heartbeats.  What it wrote to Redis stays.
Crash(p) ==
    /\ p \in MayCrash \cap alive
    /\ alive' = alive \ {p}
    /\ ext' = [ext EXCEPT ![p] = [u \in Url |-> NotExtracting]]
    /\ unlocked' = unlocked \ ({p} \X Url)
    /\ UNCHANGED <<redis, history, faults>>

Step(p, u) ==
    \/ ReadCache(p, u) \/ Acquire(p, u)
    \/ CheckAgain(p, u) \/ ExtractInfoUncached(p, u)
    \/ WriteExtractCache(p, u) \/ ReleaseLock(p, u) \/ FinishExtraction(p, u)

Next ==
    \/ \E p \in Proc, u \in Url :
        \/ StartExtraction(p, u) \/ Step(p, u)
        \/ WaitTimeout(p, u) \/ AcquireFails(p, u)
    \/ \E u \in Url :
        \/ InvalidateCache(u) \/ CacheExpires(u)
        \/ DeadLockLapses(u) \/ LiveLockLapses(u)
    \/ \E p \in Proc : Crash(p)

Spec == Init /\ [][Next]_vars

\* A living process goes on with what it has begun, a waiter's deadline is a
\* timer of its own, and Redis drops a lock that nobody renews.
FairSpec ==
    /\ Spec
    /\ \A p \in Proc, u \in Url : WF_vars(Step(p, u)) /\ SF_vars(WaitTimeout(p, u))
    /\ \A u \in Url : WF_vars(DeadLockLapses(u))

-----------------------------------------------------------------------------
(* Properties                                                              *)

Extracts(p, u) == p \in alive /\ ext[p][u].pc \in Holding

\* Only the lock holder runs yt-dlp ("Waiters never spawn without holding the
\* lock"): of two processes that extract a URL at the same time, one has lost
\* its lease or could not reach Redis.  A holder that lost its lease finishes
\* late, when the lock may be another's.
OneExtractor ==
    \A u \in Url : \A p, q \in Proc :
        Extracts(p, u) /\ Extracts(q, u) /\ p # q
            => <<p, u>> \in unlocked \/ <<q, u>> \in unlocked

\* Waiters that queue behind an extraction take its result: while the cache
\* keeps its entry and no lock lapses, the cluster spawns yt-dlp once.  The
\* miss a waiter read before it got the lock is out of date by then.
OneSpawnPerResult == \A u \in Url : u \in faulted \/ spawns[u] <= 1

\* Everybody who asks for an extraction gets an answer, also when the holder
\* of the lock dies or loses it: nobody polls for ever.
ExtractionEnds ==
    \A p \in Proc, u \in Url : ext[p][u].pc = "read" ~> ext[p][u].pc = "idle"
=============================================================================
