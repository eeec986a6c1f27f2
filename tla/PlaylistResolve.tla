-------------------------- MODULE PlaylistResolve --------------------------
(***************************************************************************)
(* Resolving remote playlist items (server/realtime/services/              *)
(* playlist-resolve.ts, media/yt-dlp/resolve-lease.ts, resolve-reclaim.ts, *)
(* media/stale-upstream-refresh.ts, handlers/playlist.ts).  An item is     *)
(* "resolving" in the room document until some process commits a result.   *)
(* A process registers its work under a lease, and the tick of every       *)
(* process takes up work whose lease is gone.                              *)
(*                                                                         *)
(* updateRoom is one step.  One Redis connection serves a process, so what *)
(* runs on the reply to a commit comes before any later command of it.     *)
(* The extraction is one step: ExtractLock shows that it ends.             *)
(***************************************************************************)
EXTENDS Integers

CONSTANTS Proc,
          Item,       \* remote playlist items, ids used once
          NoProc,     \* nobody has the lease
          NoItem,
          MayCrash,   \* the processes that may crash
          MaxEvents   \* bound: retries, joins that find an item resolving,
                     \* and leases that lapse under a living process

ASSUME ResolveAssumption ==
    /\ NoProc \notin Proc /\ NoItem \notin Item
    /\ MayCrash \subseteq Proc
    /\ MaxEvents \in Nat

VARIABLES
    alive,   \* the processes that have not crashed
    status,  \* ingestStatus in the document; "new" before, "gone" after
    pending, \* the set of registered resolves
    lease,   \* lease[i]: the process whose owner id is under the lease key
    claim,   \* items with a reclaim claim
    call,    \* call[p][i]: a caller on its way to resolvePlaylistItem
    task,    \* task[p][i]: where resolvePlaylistItem is; "idle": not in flight
    ending,  \* ending[p][i]: the endResolveLease that nobody awaits
    tick,    \* tick[p]: what the reclaim loop has left, and what it awaits
    count    \* bounded events so far

leaseVars == <<pending, lease, claim>>
workVars == <<call, task, ending, tick>>
vars == <<alive, status, leaseVars, workVars, count>>

Status == {"new", "resolving", "ready", "error", "gone"}
TaskPc == {"idle", "add", "lease", "extract", "ok", "fail"}
Tick == [jobs : SUBSET Item, job : Item \cup {NoItem}]
NoTick == [jobs |-> {}, job |-> NoItem]

TypeOK ==
    /\ alive \subseteq Proc
    /\ status \in [Item -> Status]
    /\ pending \subseteq Item
    /\ lease \in [Item -> Proc \cup {NoProc}]
    /\ claim \subseteq Item
    /\ call \in [Proc -> [Item -> {"none", "invalidate", "start"}]]
    /\ task \in [Proc -> [Item -> TaskPc]]
    /\ ending \in [Proc -> [Item -> {"none", "del", "srem"}]]
    /\ tick \in [Proc -> Tick]
    /\ count \in Nat

ForItems(x) == [i \in Item |-> x]

Init ==
    /\ alive = Proc
    /\ status = ForItems("new")
    /\ pending = {} /\ lease = ForItems(NoProc) /\ claim = {}
    /\ call = [p \in Proc |-> ForItems("none")]
    /\ task = [p \in Proc |-> ForItems("idle")]
    /\ ending = [p \in Proc |-> ForItems("none")]
    /\ tick = [p \in Proc |-> NoTick]
    /\ count = 0

Exists(i) == status[i] \notin {"new", "gone"}
Calls(p, i, x) == call' = [call EXCEPT ![p][i] = x]
Counted == count < MaxEvents /\ count' = count + 1
TaskAt(p, i, pc) == p \in alive /\ task[p][i] = pc
TaskTo(p, i, pc) == task' = [task EXCEPT ![p][i] = pc]

-----------------------------------------------------------------------------
(* Who asks for a resolve.                                                 *)

\* playlist:addUrl.  The process may die before it calls the resolver.
AddUrl(p, i) ==
    /\ p \in alive
    /\ status[i] = "new"
    /\ status' = [status EXCEPT ![i] = "resolving"]
    /\ Calls(p, i, "start")
    /\ UNCHANGED <<alive, leaseVars, task, ending, tick, count>>

RemoveItem(i) ==
    /\ Exists(i)
    /\ status' = [status EXCEPT ![i] = "gone"]
    /\ UNCHANGED <<alive, leaseVars, workVars, count>>

\* A join schedules the items that its commit found resolving.
scheduleResolvingPlaylistItems(p, i) ==
    /\ p \in alive
    /\ Counted
    /\ status[i] = "resolving"
    /\ call[p][i] = "none"
    /\ Calls(p, i, "start")
    /\ UNCHANGED <<alive, status, leaseVars, task, ending, tick>>

\* Mutant: an item that resolves already is left to the resolver it has.
ReresolveSettledOnly(p, i) ==
    /\ Exists(i)
    /\ call[p][i] = "none"
    /\ status' = [status EXCEPT ![i] = "resolving"]
    /\ Calls(p, i, IF status[i] = "resolving" THEN "none" ELSE "invalidate")

\* The room update of reresolveRemotePlaylistItem.  An item that already
\* resolves is not written, but the rest of the function runs.
Reresolve(p, i) ==
    /\ Exists(i)
    /\ call[p][i] = "none"
    /\ status' = [status EXCEPT ![i] = "resolving"]
    /\ Calls(p, i, "invalidate")

\* playlist:retry, and a media proxy whose upstream answers 401 or 403.
Retry(p, i) ==
    /\ p \in alive
    /\ Counted
    /\ Reresolve(p, i)
    /\ UNCHANGED <<alive, leaseVars, task, ending, tick>>

\* The DEL of the cached result has been answered.  An older endResolveLease of
\* this process may still be going on; in which order its commands and those of
\* the new resolve come to Redis is left open.
Invalidate(p, i) ==
    /\ p \in alive
    /\ call[p][i] = "invalidate"
    /\ Calls(p, i, "start")
    /\ UNCHANGED <<alive, status, leaseVars, task, ending, tick, count>>

-----------------------------------------------------------------------------
(* resolvePlaylistItem with beginResolveLease and endResolveLease.         *)

\* Mutant: whoever finds a lease leaves the item to its holder.
ResolveUnlessLeased(p, i) ==
    /\ p \in alive
    /\ call[p][i] = "start"
    /\ Calls(p, i, "none")
    /\ IF task[p][i] = "idle" /\ lease[i] = NoProc
       THEN TaskTo(p, i, "add") /\ UNCHANGED tick
       ELSE /\ tick' = [tick EXCEPT ![p].job = IF @ = i THEN NoItem ELSE @]
            /\ UNCHANGED task
    /\ UNCHANGED <<alive, status, leaseVars, ending, count>>

\* A resolve of the item in flight in this process stands for this one, and
\* the caller returns.
resolvePlaylistItem(p, i) ==
    /\ p \in alive
    /\ call[p][i] = "start"
    /\ Calls(p, i, "none")
    /\ \/ /\ task[p][i] = "idle"
          /\ TaskTo(p, i, "add")
          /\ UNCHANGED tick
       \/ /\ task[p][i] # "idle"
          /\ tick' = [tick EXCEPT ![p].job = IF @ = i THEN NoItem ELSE @]
          /\ UNCHANGED task
    /\ UNCHANGED <<alive, status, leaseVars, ending, count>>

RegisterPending(p, i) ==
    /\ TaskAt(p, i, "add")
    /\ pending' = pending \cup {i}
    /\ TaskTo(p, i, "lease")
    /\ UNCHANGED <<alive, status, lease, claim, call, ending, tick,
                   count>>

\* SET of the lease key, whoever holds it.
RegisterLease(p, i) ==
    /\ TaskAt(p, i, "lease")
    /\ lease' = [lease EXCEPT ![i] = p]
    /\ TaskTo(p, i, "extract")
    /\ UNCHANGED <<alive, status, pending, claim, call, ending, tick, count>>

\* resolveMediaSource returns, reports a failure or throws.
resolveMediaSource(p, i) ==
    /\ TaskAt(p, i, "extract")
    /\ \E r \in {"ok", "fail"} : TaskTo(p, i, r)
    /\ UNCHANGED <<alive, status, leaseVars, call, ending, tick, count>>

\* Mutant: a failed extraction ends without a commit.
CommitSuccessOnly(p, i) ==
    /\ TaskAt(p, i, "ok") \/ TaskAt(p, i, "fail")
    /\ ending[p][i] = "none"
    /\ status' = [status EXCEPT ![i] =
            IF @ = "resolving" /\ task[p][i] = "ok" THEN "ready" ELSE @]
    /\ TaskTo(p, i, "idle")
    /\ ending' = [ending EXCEPT ![p][i] = "del"]
    /\ tick' = [tick EXCEPT ![p].job = IF @ = i THEN NoItem ELSE @]
    /\ UNCHANGED <<alive, leaseVars, call, count>>

\* commitResolvingItem settles an item that still resolves; then the renewal
\* stops, endResolveLease is sent off and the in-flight mark goes.
commitResolvingItem(p, i) ==
    /\ TaskAt(p, i, "ok") \/ TaskAt(p, i, "fail")
    /\ ending[p][i] = "none"
    /\ status' = [status EXCEPT ![i] =
            IF @ # "resolving" THEN @
            ELSE IF task[p][i] = "ok" THEN "ready" ELSE "error"]
    /\ TaskTo(p, i, "idle")
    /\ ending' = [ending EXCEPT ![p][i] = "del"]
    /\ tick' = [tick EXCEPT ![p].job = IF @ = i THEN NoItem ELSE @]
    /\ UNCHANGED <<alive, leaseVars, call, count>>

\* DEL of the lease key, without a look at its owner.
EndDeletesLease(p, i) ==
    /\ p \in alive
    /\ ending[p][i] = "del"
    /\ lease' = [lease EXCEPT ![i] = NoProc]
    /\ ending' = [ending EXCEPT ![p][i] = "srem"]
    /\ UNCHANGED <<alive, status, pending, claim, call, task, tick,
                   count>>

\* Mutant: the lease is deleted and the registration kept.
EndKeepsPending(p, i) ==
    /\ p \in alive
    /\ ending[p][i] = "srem"
    /\ ending' = [ending EXCEPT ![p][i] = "none"]
    /\ UNCHANGED <<alive, status, leaseVars, call, task, tick, count>>

EndRemovesPending(p, i) ==
    /\ p \in alive
    /\ ending[p][i] = "srem"
    /\ pending' = pending \ {i}
    /\ ending' = [ending EXCEPT ![p][i] = "none"]
    /\ UNCHANGED <<alive, status, lease, claim, call, task, tick, count>>

-----------------------------------------------------------------------------
(* The tick of a process.                                                  *)

\* Registered, no lease, and nobody's claim.
Abandoned == {i \in pending : lease[i] = NoProc /\ i \notin claim}

\* tickInFlight keeps the next tick out until this one is through.
listAbandonedResolves(p) ==
    /\ p \in alive
    /\ tick[p] = NoTick
    /\ Abandoned # {}
    /\ claim' = claim \cup Abandoned
    /\ tick' = [tick EXCEPT ![p].jobs = Abandoned]
    /\ UNCHANGED <<alive, status, pending, lease, call, task, ending,
                   count>>

\* The next job of the list.  An item that has been removed is unregistered.
reclaimAbandonedResolves(p) ==
    /\ p \in alive
    /\ tick[p].job = NoItem
    /\ \E i \in tick[p].jobs :
        /\ tick' = [tick EXCEPT ![p] = [jobs |-> @.jobs \ {i},
                                        job |-> IF Exists(i) THEN i ELSE NoItem]]
        /\ \/ /\ Reresolve(p, i)
              /\ UNCHANGED ending
           \/ /\ ~Exists(i)
              /\ ending[p][i] = "none"
              /\ ending' = [ending EXCEPT ![p][i] = "del"]
              /\ UNCHANGED <<status, call>>
    /\ UNCHANGED <<alive, leaseVars, task, count>>

-----------------------------------------------------------------------------
(* Time and failure.                                                       *)

\* Nobody renews the lease of a process that crashed.
DeadLeaseLapses(i) ==
    /\ lease[i] \in Proc \ alive
    /\ lease' = [lease EXCEPT ![i] = NoProc]
    /\ UNCHANGED <<alive, status, pending, claim, workVars, count>>

LiveLeaseLapses(i) ==
    /\ Counted
    /\ lease[i] \in alive
    /\ lease' = [lease EXCEPT ![i] = NoProc]
    /\ UNCHANGED <<alive, status, pending, claim, workVars>>

ClaimLapses(i) ==
    /\ i \in claim
    /\ claim' = claim \ {i}
    /\ UNCHANGED <<alive, status, pending, lease, workVars, count>>

Crash(p) ==
    /\ p \in MayCrash \cap alive
    /\ alive' = alive \ {p}
    /\ call' = [call EXCEPT ![p] = ForItems("none")]
    /\ task' = [task EXCEPT ![p] = ForItems("idle")]
    /\ ending' = [ending EXCEPT ![p] = ForItems("none")]
    /\ tick' = [tick EXCEPT ![p] = NoTick]
    /\ UNCHANGED <<status, leaseVars, count>>

Ask ==
    \/ \E p \in Proc, i \in Item :
        AddUrl(p, i) \/ Retry(p, i) \/ scheduleResolvingPlaylistItems(p, i)
    \/ \E i \in Item : RemoveItem(i)

\* The flows of a process for an item, each of them one step after the other.
Caller(p, i) == Invalidate(p, i) \/ resolvePlaylistItem(p, i)
Resolver(p, i) ==
    \/ RegisterPending(p, i) \/ RegisterLease(p, i) \/ resolveMediaSource(p, i)
    \/ commitResolvingItem(p, i)
Ender(p, i) == EndDeletesLease(p, i) \/ EndRemovesPending(p, i)

TickStep(p) == listAbandonedResolves(p) \/ reclaimAbandonedResolves(p)

Fault ==
    \/ \E i \in Item : DeadLeaseLapses(i) \/ LiveLeaseLapses(i) \/ ClaimLapses(i)
    \/ \E p \in Proc : Crash(p)

Next ==
    \/ Ask
    \/ \E p \in Proc, i \in Item : Caller(p, i) \/ Resolver(p, i) \/ Ender(p, i)
    \/ \E p \in Proc : TickStep(p)
    \/ Fault

Spec == Init /\ [][Next]_vars

\* A living process runs what it has begun and its tick, and Redis drops the
\* keys whose time is up.  Nothing makes a user act or a process crash.
FairSpec ==
    /\ Spec
    /\ \A p \in Proc, i \in Item :
        WF_vars(Caller(p, i)) /\ WF_vars(Resolver(p, i)) /\ WF_vars(Ender(p, i))
    /\ \A p \in Proc : WF_vars(TickStep(p))
    /\ \A i \in Item : WF_vars(DeadLeaseLapses(i)) /\ WF_vars(ClaimLapses(i))

-----------------------------------------------------------------------------
(* Properties                                                              *)

Settled(i) == status[i] # "resolving"

\* A resolve that has registered itself and not ended.
Registered(p, i) == task[p][i] \in {"lease", "extract", "ok", "fail"}

\* An end of one resolve is on its way while another has begun.
EndRaces(i) ==
    /\ \E p \in Proc : ending[p][i] # "none"
    /\ \E p \in Proc : task[p][i] # "idle"

\* While no process crashes, an item that resolves is in somebody's hands.  An
\* in-flight mark or a lease never makes the last one who could resolve it
\* turn away, and the end of an older resolve settles what it leaves behind.
SomebodyResolves ==
    \A i \in Item : alive = Proc /\ ~Settled(i) =>
        \E p \in Proc : call[p][i] # "none" \/ task[p][i] # "idle"

\* While no process crashes, an item that resolves is settled or removed,
\* whatever joins, retries, lapses and reclaims run into each other: an
\* in-flight mark or a lost lease never leaves it to nobody.
ResolvingSettles ==
    [](alive = Proc) => \A i \in Item : ~Settled(i) ~> Settled(i)

\* A registered resolve survives its process ("so another instance can reclaim
\* it if this process dies"), as long as no end of another resolve of the item
\* runs into it.
CrashedIsReclaimed ==
    \A i \in Item : [](~EndRaces(i)) =>
        ((\E p \in Proc : Registered(p, i)) /\ ~Settled(i) ~> Settled(i))

\* A registration does not outlive the work: it is removed by the process
\* that made it, or by the tick that reclaims it, also for a removed item.
NoPendingLeak == \A i \in Item : i \in pending ~> i \notin pending
=============================================================================
