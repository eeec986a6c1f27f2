# TLA+ for Web-SyncPlay

Web-SyncPlay keeps people who watch the same video in step. A room is one JSON
document in Redis (Valkey). Any number of server processes serve WebSockets,
change that document and tell each other about it over Redis. This directory
models the parts where processes, sockets and timers meet: the update of a room
document, who is in a room, what the room plays, how a playlist item is
resolved and extracted by one process of many, and how a change reaches the
screens of all clients.

Paths below are relative to `src/src/server/` unless they start with `src/`.

## Inventory

| Part | State | Operations | Hard because | Correct when | Model |
|---|---|---|---|---|---|
| Room store, `redis/state-store.ts`, `client.ts` | room document, WATCHes of a connection | `updateRoom`, `delete`, `touchWsPresence` | optimistic lock, one connection for all calls of a process, bounded retries | a commit replaces only what it read; every call ends | `RoomStore`, `AtomicRoom` |
| Join, `realtime/handlers/join*` | socket meta, participants, presence counts | `room:join`, rejoin, room switch, rollback | the socket may die at every await | a reference exactly while a socket stands for it | `Membership` |
| Disconnect, `services/disconnect.ts` | the same | close event, offline, destroy | races joins of the user's other sockets and the sweep | a user who left is removed, one who stayed is not | `Membership` |
| Prune index and sweep, `services/participants.ts`, `cleanup.ts` | pending-prunes set, grace keys | schedule, clear, tick in every process | no lock; index, grace key and document are written apart | everybody who left is pruned | `Membership` |
| Ownership, `services/ownership.ts` | `ownerId`, roles | transfer on join, prune, cleanup | several writers choose | one owner, who is a participant | `Membership` |
| Empty-room gate, `services/empty-room.ts` | `emptyAt` marker | note, confirm, destroy | check, then act | an empty room dies, a used one does not | `Membership` |
| Presence counts and heartbeat, `redis/presence-lua.ts`, `node-heartbeat.ts` | counts per room, user, process; alive keys | bump, reconcile, heartbeat | crash leaves counts behind | a dead process's counts do not count | `Membership` (partly) |
| Socket queue and dispatch, `realtime/realtime-server.ts`, `socket-dispatch.ts`, `ws/*` | queue, request ids | enqueue, dispatch, dedupe | a close overtakes the queue | one handler at a time, none before the join | `Membership` (partly) |
| Playback timeline, `services/timeline.ts`, `handlers/playback.ts` | anchor, stamp, rate, pause | seek, play, pause, rate | the playhead is computed, the clocks differ | the playhead moves only as a message says | `Playback` |
| Playlist, `services/playlist-ops.ts`, `handlers/playlist.ts` | items, index, ingest status | add, select, reorder, remove, error | an index into a list others change | what plays changes only for a reason | `Playback` |
| Playlist resolve, `services/playlist-resolve.ts`, `media/yt-dlp/resolve-*.ts` | lease, claim, pending set, in-flight set | resolve, renew, reclaim | leases lapse under their holder, processes die, the end of a lease is awaited by nobody | no item resolves for ever, no registration stays | `PlaylistResolve`; effect on the playlist in `Playback` |
| Extraction lock and cache, `media/yt-dlp/extract*.ts`, `cache.ts` | lock, cached result, in-flight map | extract, wait, fail over | the lock is a lease | one extraction per URL at a time, everyone gets an answer | `ExtractLock` |
| Broadcast, `realtime/broadcast/*`, `redis/pubsub*.ts` | dirty rooms, last hash, cached projection | publish, coalesce, fan out | reordering, crashes, lost messages | clients converge | `Broadcast` (no presence batches) |
| Client state, `src/src/client/realtime/*` | merged room, socket state | merge, reconnect | stale snapshots | playback never goes back | `Broadcast` |
| Repair, `repair.ts` | the document | normalise | drops data | total | only the index clamp |
| Admission, room security, identity, control token | tokens, hashes, claims | check | eviction and claims | one owner of an identity | one nondeterministic refusal |
| Local playback presence, viewer media | overlay per viewer | report | none that decides anything | - | not modelled |
| Local media relay, store, HLS, access; mediasoup; the yt-dlp process; proxy | files, streams, processes | I/O | I/O | - | not modelled |
| Rate limits, URL safety, lifecycle, drain, wiring | counters, flags | check, shut down | - | - | not modelled |
| Client player, service worker, UI, pages, scripts | browser | render | continuous time | - | not modelled |

`PROJECT.json` has the same list with sources and reasons, and the list of
hazards, each at its line, with the properties that watch it.

How they interact: a socket's messages run one after the other
(`realtime-server.ts`); its close event does not wait for them. Every handler
ends in `updateRoom` and then writes presence, prune and marker keys, one Redis
command at a time, with other handlers, other processes and the maintenance tick
of each process (`resolve-reclaim.ts`, which also runs the sweep) in between.

## Modules

| Module | What |
|---|---|
| `AtomicRoom` | What `updateRoom` promises: one indivisible read-modify-write, or no effect. |
| `RoomStore` | The WATCH / GET / mutate / EXEC loop on the connections of the processes. |
| `MCRoomStore` | Constants for TLC. |
| `RoomStoreProofs` | Types, no lost update, refinement of `AtomicRoom`. |
| `Membership` | Join, leave, rollback, sweep, prune, gate. `updateRoom` is one step. |
| `MCMembership` | Constants for TLC. |
| `MembershipProofs` | Types and ownership. |
| `PresenceProofs` | Who accounts for a presence reference. |
| `Playback` | Playlist and timeline of one room. |
| `MCPlayback` | Constants for TLC. |
| `PlaybackProofs` | Types, current media, what switches it, stamps, jumps, pauses. |
| `PlaylistResolve` | Who resolves a playlist item: in-flight mark, lease, claim, tick. |
| `MCPlaylistResolve` | Constants for TLC. |
| `PlaylistResolveProofs` | Types, and that an item that resolves has somebody at work. |
| `ExtractLock` | One yt-dlp extraction per URL in the cluster. |
| `MCExtractLock` | Constants for TLC. |
| `ExtractLockProofs` | Types, mutual exclusion, one spawn per result. |
| `SharedPlayback` | What the broadcast promises viewers: one history of playbacks, seen forward. |
| `Broadcast` | From a committed write to the views of the clients. |
| `MCBroadcast` | Constants for TLC. |
| `BroadcastProofs` | Types, no client goes back, refinement of `SharedPlayback`. |

How the modules rest on each other: `RoomStore` shows what `updateRoom` is worth;
all others take it as one step. `PlaylistResolve` takes an extraction as one step
that ends; `ExtractLock` shows that it does (`ExtractionEnds`). `Playback` has
what a resolve writes into the playlist, `PlaylistResolve` when it does.
`Broadcast` knows of a write only its generation. `AtomicRoom` and
`SharedPlayback` are the two abstract specifications: what a writer of the
document may rely on, and what a viewer may.

### RoomStore

A step is one command that Redis executes plus the synchronous code that runs on
the reply. `watch[p]` and `dirty[p]` belong to the connection of process `p`,
because that is where Redis keeps them; `client.ts` opens one command client per
process. A document is the set of calls whose mutation it holds, so a lost
update is a call missing from the set. The mutate callback may commit, abort
(`MutateNull`) or throw (`MutateThrows`); which rooms it accepts is `Creators`.
An EXEC on a dirty connection is modelled with both outcomes the driver can
report: null, which the code retries (`ExecConflict`), and a rejected promise,
which it does not (`ExecRejected`). `Crash` drops a process with its calls.
Loss of the connection in the middle of an EXEC is not modelled.

### Membership

A step is one Redis command and the synchronous code on its reply. The record
`msg[s]` is the handler on socket `s`'s queue, `close[s]` the handler of its
close event, `sweep[n]` the tick of process `n`, `gate[t]` the empty-room check
a close handler or a sweep waits for; each has a `pc` and the values the code
holds in local variables across an await.

| Code | Actions |
|---|---|
| `join.ts`, `commit-membership.ts` | `JoinStart`, `Untrack`, `JoinRefused`, `ReadPresence`, `JoinCommit` |
| `post-commit.ts` | `PostDead`, `PostAlive`, `Bump`, `Settle` |
| `abort.ts` | `Undo`, `UndoRead`, `UndoCommit`, `UndoPrune` |
| `mutate-room.ts`, `participant.ts` | `MutStart`, `MutNull`, `MutCommit`, `Lists` |
| `disconnect.ts` | `SocketClosed`, `CloseDec`, `CloseRead`, `CloseKeep`, `CloseOffline`, `CloseGated`, `ClosePrune` |
| `empty-room.ts`, `destroyRoom` | `GateNote`, `GatePresence`, `GateConfirm`, `GateDelete` |
| `cleanup.ts` | `SweepStart`, `SweepRead`, `SweepCommit`, `SweepLists`, `SweepGated` |
| `participants.ts` | `SweepIndex`, `SweepDue`, `SweepRemove`, `SweepUnindex`, `SweepEnd` |
| timers, failures | `PruneGraceOver`, `EmptyElapse`, `HeartbeatExpire`, `SocketClosing`, `Crash` |

What is merged or left out:

- `updateRoom` is atomic. `RoomStore` shows this for calls that do not overlap
  in one process and refutes it for those that do; `Membership` is about what
  goes wrong even so.
- The presence read (hash and alive list) is one step; so are SET NX and GET of
  the marker, the presence re-check and the DEL of the marker, the two commands
  of `schedulePrune` and `clearPrune`, the loops that call them for several
  users, writes that follow each other with no decision in between (`Settle`,
  `SweepLists`), and the two presence reads of the rollback.
- A rejoin of a socket under another user id (`join.ts:54`) is left out: a socket
  belongs to one user.
- A socket is opened once. Messages still queued when it closes are left out:
  `joinCommitted` is gone with the registry entry, so they do nothing.
- Time is not modelled: a grace period may elapse whenever it runs, which allows
  more than the code does. `disconnectedAt` and the prune grace key run out
  together. Equal `joinedAt` is resolved either way.
- Reconciliation only rewrites counts of dead processes, which `Online` does not
  count; the rewrite is left out, and with it the lost bump it can cause. The
  10 s cache of the alive list, an unreliable list and processes that start
  later are not modelled.
- Drain, TTLs of marker and index, local media, log, revisions, role
  normalisation, repair (also the cut at `ROOM_PARTICIPANTS_LIMIT`), and the
  fallback that prunes while Redis is down are not modelled.

### Playback

A step is one committed mutation of the document. The body of the mutation is
the action; `Commit` is the tail that every mutation runs (index clamp, current
media). Each mutation reads the clock of its process, any value in
`now .. now + Skew`. Milliseconds and rates are naturals. Names, durations,
titles, loop modes, seek preview, permissions, the log and revisions are left
out. The publication of the packaged variants of a local file
(`local-media.ts:215`) sets `ingestStatus` as a cleared error report does and is no
action of its own. A duplicate error report for an item is a no-op in the code
and no step here. The trim of an overlong playlist cannot happen, because adding checks the
limit. Item ids are used once, as random ids are.

### PlaylistResolve

A step is one Redis command, or one commit, and the code on its reply. `status`
is the item in the document, `pending`, `lease` and `claim` are the Redis keys,
`task[p][i]` is where `resolvePlaylistItem` of process `p` is, `call[p][i]` a
caller on its way there, `ending[p][i]` the `endResolveLease` that `stop()` sends
off without awaiting it, `tick[p]` the list of the reclaim loop.

| Code | Actions |
|---|---|
| `handlers/playlist.ts`, `stale-upstream-refresh.ts`, `join/post-commit.ts` | `AddUrl`, `Retry`, `scheduleResolvingPlaylistItems`, `RemoveItem` |
| `playlist-resolve.ts` | `Reresolve`, `Invalidate`, `resolvePlaylistItem`, `resolveMediaSource`, `commitResolvingItem` |
| `resolve-lease.ts` | `RegisterPending`, `RegisterLease`, `EndDeletesLease`, `EndRemovesPending`, `listAbandonedResolves`, `reclaimAbandonedResolves` |
| `resolve-reclaim.ts` | `TickStep` |
| time, failures | `DeadLeaseLapses`, `LiveLeaseLapses`, `ClaimLapses`, `Crash` |

- The commands of a process leave on one connection in order. So a commit, the
  start of the un-awaited end and the removal of the in-flight mark are one step,
  and the commit of a later resolve by the same process, as its next end, comes
  after the commands of the older end (the guard `ending = "none"`). A re-resolve
  may begin while the older end still goes on, and their commands then come in
  any order.
- A process that crashed does not come back; another one with its role is
  another member of `Proc`. The random owner of a lease is its process.
- The tick reads the set and the leases in one step. A caller that asks for an
  item while an earlier call of the same process for it is still on its way is
  left out: the in-flight mark would send it back.
- Not modelled: failing Redis commands in begin and end, the TTL of the pending
  set, the wait of `commitResolvingItem` for a room that is not there yet, a
  commit that throws inside the resolver's `catch` (`playlist-resolve.ts:160`),
  which leaves the item resolving until somebody asks again, and direct media
  URLs, which settle without an extraction.

### ExtractLock

`lock[u]` holds the process whose token is under the lock key, `cache[u]` the
result of an extraction, `ext[p][u]` where `extractInfo` of `p` is. The read
before the loop and the read at its top are one (`ReadCache`), and so are the two
reads under the lock (`CheckAgain`). The deadline may pass at any poll
(`WaitTimeout`). A process that Redis does not answer (`AcquireFails`) and one
whose lease lapses (`LiveLockLapses`) are noted in `unlocked`, and their URL in
`faulted`; `MaxFaults` bounds them. A cache that cannot be read or written,
which the code treats as a miss, is not modelled: it only costs a spawn.

### Broadcast

The document is its generation: a write of any kind raises it and changes the
structure (participants, playlist, or the action log, to which every control
adds an entry). `log[g]` is the generation whose playback generation `g` has. A
view has the generation, playback and structure that the client holds.

| Code | Actions |
|---|---|
| `mutate-room.ts` | `mutateRoomMessage` (commit), `publishControl` (`publishAfterMutation`) |
| other writers (playlist messages, resolves, sweep, prune, disconnect) | `WriteSnapshot` |
| `seek-preview.ts` | `SeekPreview` |
| `room-broadcast-bus.ts`, `snapshot-publisher.ts`, `snapshot-build.ts` | `MarkDirty`, `FlushSnapshot`, `PublishSnapshot` |
| `post-commit.ts` | `Connect`, `SendToJoiner` |
| `control-publisher.ts`, `bus-fanout.ts`, `pubsub-handlers.ts` | `Publish`, `Deliver` |
| `room-state-merge.ts`, `room-socket-dispatcher.ts` | `applyRoomControl`, `applyRoomSnapshot`, `Receive` |
| `room-socket-connection.ts` | `Disconnect`, `Reconnect` |

- A client takes a message in the step that sends it. A socket's messages arrive
  in order, and what is under way when it closes is lost, as if it had closed
  before.
- The snapshots of a process leave it in the order in which it read the document
  for them: their commands share one connection, and a read that the snapshot
  cache answers has the generation of one that is through. Flushes of a process
  overlap, each with the hash it found.
- A join is its commit, the registration of the socket and the read for the
  joiner in one step (`Membership` has its parts). A join of a user who is still
  in the room keeps the generation. It does write the document
  (`commit-membership.ts:183-192`: repair, role normalisation, the connected flags
  of others), and a change of structure under an unchanged generation is not
  followed here.
- Not modelled: a failing PUBLISH, presence batches, messages to one user, the
  change of admission, destruction and re-creation of the room, the
  reconciliation of `currentIndex`, and what a seek preview shows.

## Runs

| Run | Instance | Shows |
|---|---|---|
| `store_private` | 3 calls on a room, a process each; a 4th process refreshes and deletes the room; 2 attempts | no lost update, `AtomicRoom` implemented, every call ends |
| `store_shared` | two of the calls in one process | **violated**: a stale EXEC gets through |
| `leave` | a socket on a process that may crash, another process sweeps; a room that dies when empty and one that lives on | no presence without a connection; who left is pruned; the empty room dies |
| `rooms` | two sockets of a user, two rooms, two joins per socket | at most one reference per socket, over all rooms; none left behind, also by a socket that joined twice and closed, but where a second join dies |
| `owner` | two users with a socket each, role changes, a close, a sweep | one owner, who is a participant |
| `destroy` | two sockets of a user, a sweep | **violated**: a room is deleted under a join |
| `switch` | a socket, two rooms | **violated**: joined but not present |
| `timeline` | 3 items (one a local file), 2 rates, skew 1, 2 ticks | what plays and the playhead change only as they should |
| `pause` | one remote and one local item | **violated**: a pause rewinds |
| `resolve` | 2 processes, one may crash; one item; one retry, join or lapse under a living process | an item that resolves is in somebody's hands and settles; a crashed resolve is reclaimed; no registration stays |
| `extract` | 3 processes, one may crash; one URL; one fault | one extraction at a time, one per result, everyone gets an answer |
| `broadcast` | 2 processes, one may crash; 2 clients, one on each; 3 events among writes, previews, closing sockets and crashes | playback never goes back; `SharedPlayback` implemented; playback and structure converge |

Every property of a passing run has a mutant, an operator beside the definition
it changes and commented as such, which breaks it.

Bounds. `MaxAttempts = 2` has one conflict that is retried and one that
exhausts the loop; the counter has no other effect. Three calls have a writer
that conflicts with two others. Two sockets per user are the least that tell a
count from a flag, two rooms the least for a switch, two users the least for a
transfer of ownership. `MaxJoins`, `Mutators`, `Leavers`, `Sweepers`,
`MayCrash` and `DyingRooms` name who may do what in a run: the runs split the
behaviours between them so that each is exhaustive. The liveness run has one
socket, and a room outside `DyingRooms` beside one inside it: where the room is
destroyed anyway, `GoneIsPruned` would say nothing of the prune index. With a skew of 1 and rates 1 and 2 clocks go backwards between
mutations, which is the case `nextMonotonicMs` exists for; three items are the
least for which a move crosses the current one from either side. `MaxClock`
and `MaxNow` end a behaviour of `Playback`.

`resolve` has one item: items share nothing but the list of a tick, whose order is
free. With `MaxEvents = 2` it passes too, with 915 384 states. `extract` needs
three processes: a holder that lost its lease, one that holds the lock, and one
that waits. In `broadcast` three events are a write on either side and one that
disturbs them, the least in which a control overtakes another, a snapshot and a
reconnect; joins are bounded by the sockets that close.

Deadlock is checked in `leave`, `owner`, `destroy` and `store_private`, whose
system never stops. It is off where a behaviour ends by its bounds: all sockets
closed with no sweep (`rooms`, `switch`), all calls over (`store_shared`), the
end of time (`timeline`, `pause`), every item settled or removed (`resolve`),
everything delivered (`broadcast`).

Fairness. `RoomStore`: weak fairness of each call's next step; Redis answers and
the event loop runs the continuation. `Membership`: weak fairness of each
handler, of the close event of a socket that closes, of the sweep of a process
that runs (`setInterval`), of the grace periods and the heartbeat TTL. Nobody
has to join, send, close or crash. `PlaylistResolve`: weak fairness of what a
process has begun, of its tick, and of the TTLs of a dead process's lease and of
claims. `ExtractLock`: the same for the steps of an extraction and a dead
holder's lock, and strong fairness of the deadline of a waiter, which is a clock
that runs while it polls: the poll that finds it passed comes although each poll
before went on. `Broadcast`: weak fairness of the timers, the subscriber and the
handlers of a process that runs, and of the reconnect timer of a client; nobody
has to write or close. `Playback` has no liveness property.

Premises. Some liveness properties hold under a premise that names what the code
gives no answer to; without it TLC finds a counterexample.

- `CrashedIsReclaimed` assumes that no `endResolveLease` runs into a later resolve
  of the item (`EndRaces`). The end deletes the lease and the registration
  whoever they belong to (`resolve-lease.ts:99`); if the later resolver then
  crashes, nobody knows of the item.
- `ResolvingSettles` and `SomebodyResolves` assume that no process crashes: one
  may die after the commit that made the item "resolving" and before the
  registration.
- `StructureConverges` assumes that two processes do not have snapshots of
  different generations under way at the same time (`SnapshotsCross`). A client takes the structure of the
  snapshot that arrives last and keeps the larger `structuralRevision`; two
  snapshots that cross leave it with the older playlist until
  the next change. Playback is gated by the generation and needs no such premise.
- Both convergence properties exclude `lost`: a process that dies between a
  write and its publication and has no client. Where it has one, that client
  connects elsewhere and its join brings on a snapshot.

### What the violated runs show

- `store_shared`. `state-store.ts:87` calls `updateRoom` an optimistic lock and
  `participants.ts:257` relies on it. All calls of a process share a connection
  (`client.ts`), so the EXEC or UNWATCH of one forgets the WATCH of another.
- `destroy`. `cleanup.ts:108`: "so a concurrent join cannot lose the room". The
  deletion after the re-check is unconditional.
- `switch`. `join.ts:87` keeps "the existing presence ref" on a rejoin, but on a
  switch of rooms that reference has just been dropped.
- `pause`. `timeline.ts:41` promises that toggles keep continuous time; the pause
  for an offline owner (`disconnect.ts:100`) sets a new stamp and keeps the old
  anchor.

Seen while modelling and not runs of their own:

- A second join of a socket that dies leaves its first reference behind: the
  rollback removes the registry entry but drops a reference only if this join
  added one (`abort.ts:23-26`), and the close event then finds no entry.
  `NoGhostPresence` concedes exactly this, one reference for each such socket
  (`LeftBehind`), so that it can be checked, and proved, for any number of joins.
  What the rollback did is in no state of the program, so the socket has a history
  field for it, `orphan`, which `PostDead` sets and no action reads. A socket that
  rejoined or switched and then closed in order is conceded nothing.
- A rollback and a close can both release the reference of one socket. The
  socket begins to close during its bump, so that the rollback is chosen; its
  close event arrives before the rollback's `removeSocket` and finds
  `presenceTracked` set. Both decrement, and the second decrement takes the
  reference of another tab of the user, who is then offline while connected.
  `abort.ts:20` means to avoid "wiping multi-tab". With `Room = {r1}`,
  `Socket = {s1, s2}`, `MaxJoins = 1` and otherwise the constants of `switch`,
  TLC finds this as a counterexample to `JoinedIsPresent`.
- The first local file of an empty room starts unstamped (`playlist.ts:185`), so
  the playhead begins at the time since the last stamp.

Also seen, without a run: an extraction in flight writes its older result after
an invalidation (`playlist-resolve.ts:218` wants "the next pass" fresh); the
projection that seek previews go out on goes stale when another process writes,
and the clients then drop the previews; a client that stays through the
destruction of its room ignores the playback of the new one until its generation
has caught up.

## Proofs

All by TLAPS, for every value of the constants that satisfies the modules'
assumptions, which state only how the constants are typed and, in `Membership`,
that there are finitely many rooms and sockets. Two theorems have a premise of
their own: `PrivateConnections` and `LoneTabs`.

- **RoomStore.** `TypeCorrect` (`TypeOK`, in which a call in its loop has an
  attempt left). `NoOverwrite` and `Atomicity` hold under `PrivateConnections`:
  the calls of a process do not overlap and it refreshes no TTL meanwhile. The
  inductive invariant is `ReadIsFresh`: a call that has set its WATCH either has
  a dirty connection or still watches its key and holds the stored document. The
  refinement maps a call inside the loop to "pending"; every step but a commit,
  an end, a deletion or a crash is a stutter.
- **Membership.** `MembershipTypes`; `OneOwnerAlways` and `OwnerStaysParticipant`
  from the inductive `Ownership`, which also says that an absent document has no
  participants and a stored one names a user. The lemmas say what
  each of the operations that write the document (join, reconcile, transfer,
  offline, prune, role change) does to a well-owned document; `NextOwnership`
  needs them only where a step writes `doc`.
- **Presence.** `NoGhosts` (`NoGhostPresence`) and `SocketCountsOnce`
  (`OneRefPerSocket`). Neither is inductive. `RefsCovered` says that a count is
  at most the number of sockets that answer for it: those that hold it or have
  its release under way, those left behind, and those that were in the room when
  their process died. That a step keeps it needs to know, of each socket, what
  its flags mean together (`Facts`): a join adds a reference only on a socket that
  has none, neither in its registry entry nor on the way to being dropped, and
  entry, join and close handler mean the same room whenever one of them may still
  drop it, and a socket that was left behind had joined before, is dead and joins
  nothing any more. Each step touches one socket, so it takes at most one from a count and
  its holders or adds at most one to both (`Balanced`, `CoverDropped`, `CoverAdded`).
  `SocketCountsOnce` then adds up: a socket answers for one room
  only. Induction over the set of rooms is out of reach here, so the sum lemmas
  (`SumOfShares` and those before it) take a least counterexample among the
  cardinalities. `LoneTabIsPresent` is about the converse, that who has joined is
  present (`JoinedIsPresent`), which the run `switch` refutes. Three ways to break it
  are known: a switch of rooms, a double release that hits another tab, a room that
  is destroyed under the join. With one socket per user and process, one join on
  each and no room that dies (`LoneTabs`) it holds for any number of users, rooms and
  processes, with crashes and sweeps: every violation needs a second tab, a second
  join or a dying room.
- **Playback.** `PlaybackTypes` and `MediaCurrentAlways` from `PlaybackInv`:
  types, the current-media invariant, and that every listed item id has been
  given out, without which a list could come to hold an item twice. The sequence lemmas
  (`RemoveAtShifts`, `InsertAtShifts`, `MovedKeeps`) say that a reorder is a
  permutation that keeps the current item under the shifted index.
  `TimelineStamped`: a step that changes the playhead at any reading, the pause
  or the item that plays carries a later stamp. The action properties rest on
  two lemmas about steps, `StepKinds` and `SwitchingReason`: a step leaves the
  playback state as it is, is a transport message, resets the timeline for another
  item, or is the pause for an offline owner. From them `SwitchesRestart`, `SwitchesForAReason`
  and `JumpsAreSmall`. The bound of the last is the skew times the rate before or
  after, so there are no jumps at all where the clocks agree; it is sharp enough
  that it fails for a pause that does not re-anchor. `PausesFreeze` answers
  the run `pause`: the pause for an offline owner is the only one that moves the
  playhead.
- **PlaylistResolve.** `NobodyTurnsAway`: `SomebodyResolves` is inductive together
  with the types. A caller goes only where its own process has the item in
  flight, and a task ends only in the commit that settles the item. Nothing about
  leases or claims is needed, which says that they cannot break it.
- **ExtractLock.** `LockExcludes` (`OneExtractor`) and `ResultIsShared`
  (`OneSpawnPerResult`). The invariant says that a process inside the try block
  holds the lock or is in `unlocked` (`LockHeld`), that whoever is in `unlocked`
  has its URL in `faulted`, that a write has a result, and that the spawns since
  the cache lost its entry are accounted for by the cache or by one worker
  (`SpawnsAccounted`).
- **Broadcast.** `PlaybackMatchesGeneration` and `NoClientGoesBack`. Each action
  has a lemma that it keeps the invariant and takes no client back (`Forward`);
  both come from what the two merges do to one view (`MergesForward`), so they
  hold whatever order the messages arrive in. `ActsSomewhere` says that a process
  publishes each committed control. `PlaybackIsShared` is the refinement of
  `SharedPlayback`: a write of the document appends to the history, every other
  step moves some clients forward or is a stutter. It needs `GensCommitted`, that
  every generation in a control, a queue, a build, a cache or a view is one the
  document has had.

Every safety property of a passing run is a theorem. Only model-checked are the
liveness properties (`EveryCallEnds`, `GoneIsPruned`, `EmptyRoomDies`,
`ResolvingSettles`, `CrashedIsReclaimed`, `NoPendingLeak`, `ExtractionEnds`,
`PlaybackConverges`, `StructureConverges`), which need fairness and ENABLED and
are out of the prover's reach. What the violated runs refute is not provable;
`NoOverwrite`, `LoneTabIsPresent` and `PausesFreeze` say under which conditions it
holds. `NoJoinedRoomDestroyed` has no such companion yet.

## Plan

1. `AtomicRoom`, `RoomStore` - done, proved.
2. `Membership` - done; types, ownership and presence proved. Next: when a room
   is not destroyed under a join.
3. `Playback` - done; all its properties proved. Next: the first item of an empty
   room.
4. `PlaylistResolve`, `ExtractLock` - done; the safety properties proved. Next:
   the safety core of the liveness properties, that a registered resolve always
   has a lease, a task or a tick that will find it.
5. `Broadcast` - done; refinement of `SharedPlayback` proved. Next: presence
   batches and their revision, the admission change, a room that is created anew.
6. `PresenceRefs`: bump against reconcile against crash and the cached alive
   list; a timed model of prune against join; the participants
   limit.
7. Admission and eviction, request dedupe, local media relay, as far as the code
   has protocol in them.

## Not modelled

The map covers the parts above. The rest of the repository is outside for one of
three reasons. It has no state of its own that steps could disturb: UI, pages,
schemas, formatting, URL and manifest rewriting. Its state is a library's or a
browser's: mediasoup, media elements, iframes, the service worker, child
processes. Or it is a single decision on one key: rate limits, password and token
checks, which appear as one nondeterministic refusal where a modelled handler
makes them. The scripts (load tests, audits, end-to-end drivers) are clients of
the system, not part of it. `PROJECT.json` lists them with their reasons.
