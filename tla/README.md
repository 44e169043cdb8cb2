# A TLA+ model of knext

The repository deploys Next.js applications on Knative and, in
`packages/scale-zero-pg`, runs their Postgres on Neon storage so that it can scale
to zero. What is modelled here are the parts that keep state and meet failures:

- **pswatcher**, the failover of a pageserver to its standby (`PSWatcher`);
- **the gateway**, which wakes a compute when a client connects and scales it to
  zero when the fleet is idle (`Gateway`);
- **the ISR cache** that the pods of an app share in Redis (`CacheHandler`);
- **the static assets** of an app, as deploys, collections and rollbacks write and
  delete them (`AssetDeploys`);
- **a pod's runtime**: the supervisor's shutdown and the sync of optimized images
  (`PodRuntime`).

TLC checks all of them on small instances, and TLAPS proves every safety property the
passing runs check for every value of the constants, some under a named hypothesis.

## 1. Inventory

| Component | State it keeps | Operations | What makes it correct |
|---|---|---|---|
| **pswatcher** `gateway/internal/pswatcher` | the `Controller` fields (failures, done, promotedInProcess, adoptBounced, primarySeenPresent, reservedGen), lost in a crash; in the cluster the generation ledger ConfigMap and the client Service selector | `SeedLedger` once, then `Tick`: freeze, selector, probe, second vantage, `failover`, adopted failover, standby warming | no tenant above the ledger, one reservation per generation, nothing flipped half-promoted, no demotion, every death failed over |
| **attach scripts** `deploy/55-storage-init.yaml`, `provision-app.sh` | none | attach a tenant at max(ledger, view) | never below, never ahead of the ledger |
| **gateway** `gateway/internal/gateway` | per compute a count and a pointer to an idle timer; per connection its clients, backend, wake | accept, wake, handshake, pipe, clean up, sleep, drain | slots balance, busy computes never sleep, idle ones do, clients are served, drains end |
| **wake** `gateway/internal/wake` | the calls in flight (single-flight), budget buckets, the warm gate | `ConnectWithWake`, coalescing, retry, budget, warm pool | one wake per cold group, no caller forgotten, one writer per timeline |
| **writer autoscaler** `writerscaler` | direction counters and a cooldown per pod | resize in place, flag for a bounce | never bounces, never flaps |
| **AppDatabase operator** `appdb` | the CR's status, finalizer, reclaim ledger | branch, render, warm hold, reclaim | a CR is gone only when its timeline is |
| **Zone operator** `zone` | publications and subscriptions | wire, poll, tear down | no slot left behind, no cycle |
| **ISR cache** `kn-next/src/adapters/cache-handler.js` | in Redis the entries and a set of keys per tag; in each process the client, the breaker, the gate of a native client, a memory fallback | get, set, revalidateTag | an entry and its index live and die together, every call ends |
| **runtime supervisor** `kn-next/src/adapters/node-server.ts`, `shutdown.ts` | the child, the shutting-down flag, drain hooks | spawn, child exit, signal, drain, grace cap | the drains finish before the exit or the cap says so, it always exits |
| **image cache sync** `image-cache-sync.ts` | a listing, a watcher, pending keys and a flush timer | restore, watch, probe, reconcile, flush, stop | no variant of the disk is overlooked |
| **assets and CLI** `kn-next/src/utils/asset-*.ts`, `src/cli` | build prefixes in an object store; the NextApp CR | deploy, gc, rollback | no live build is deleted, and none inside the window |
| **NextApp operator** `kn-next-operator` | CR status, finalizer, platform rollout slots | reconcile, finalize, roll out | converges, cleans up, bounded rollout |
| libraries, UI, demos, build adapters | none that is shared | | |

**Interaction.** Clients reach a compute through the gateway. The gateway scales
the compute's Deployment through the API server, asks the other replicas for their
connection counts over HTTP, and has no other shared state. A compute resolves the
`pageserver` Service when it boots and stays pinned to that node. pswatcher probes
the primary over HTTP, asks the API server about its pod, writes the ledger by
compare-and-swap, PUTs locations on the standby, patches the Service selector and
deletes the computes' pods. The attach scripts read the ledger and PUT on the
routed node at any time. The operators create computes and branches. The pods of an
app share a Redis and an object store, and nothing else; the CLI writes the store and
the NextApp CR, the NextApp operator reads the CR and reports the traffic in its
status, which a collection reads back. Inside a pod the supervisor and the image sync
share one event loop, and the disk with the Next.js server.

**What is hard.** Two watchers under a partition; a crash between any two calls;
lost replies; observations used after they went stale; timers that fire while a
client arrives; a peer's count read before the peer changes; a drain deadline
during a wake; commands of several calls on one connection, and a connection that dies
between two of them; a status that lags behind the pin it should report; a file written
before anyone watches. PROJECT.json lists each such hazard at its line, with the
properties that look for it or the reason none does.

## 2. Modules

| Module | What it is |
|---|---|
| `GenerationLedger` | the abstract specification: what a failover promises the storage plane |
| `PSWatcher` | the watcher, one action per call, and the plane it drives |
| `MCPSWatcher` | symmetry, and two statements of the documents about the failover |
| `PSWatcher_proofs` | the ledger: its theorems and their proofs |
| `PSWatcherCutover_proofs` | the two nodes around the flip: theorems on top of those |
| `Gateway` | the gateway's replicas, their connections and timers, and the compute |
| `MCGateway`, `Gateway_proofs` | symmetry; its theorems |
| `TagStore` | the abstract specification of the store the pods share |
| `CacheHandler` | get, set, revalidateTag over both Redis clients |
| `MCCacheHandler`, `CacheHandler_proofs` | its instances; its theorems |
| `CacheClients_proofs` | the clients of a pod: theorems on top of those |
| `AssetDeploys` | deploys, collections, rollbacks, the operator's routing |
| `MCAssetDeploys`, `AssetDeploys_proofs` | build ids and histories; its theorems |
| `AssetWindow_proofs` | the retention window: theorems on top of those |
| `Supervisor` | signals, the child, drain hooks, the grace cap |
| `ImageCacheSync` | the sync of a pod's optimized images |
| `PodRuntime` | the two composed as node-server.ts wires them |
| `MCPodRuntime`, `PodRuntime_proofs` | files and variants; its theorems |

### PSWatcher

`pc[w]` is the next call of watcher w, `ctl[w]` the `Controller` fields that
survive a tick, `tick[w]` the locals of the running `Tick` or `SeedLedger`. The
plane is `ledger` (generation and resourceVersion), `route` (the Service selector),
`loc[n][t]` (mode and generation of tenant t on node n), `computes` (the nodes
running computes are pinned to), the `primary` pod and the `freeze`. Every call is
an action, since anything may happen between two calls:

- `SeedRead`, `SeedView`, `SeedWrite` are `SeedLedger`;
- `ReadFreeze`, `ReadSelector`, `Probe`, `Sight`, `Vantage`, `LedgerAdvanced` are the
  detection half of `Tick`;
- `ReadLedger`, `Recover`, `Validate`, `Corroborate`, `Reserve`, `Promote`, `Flip`,
  `Bounce` are `failover`, with its early returns;
- `Converge`, `ConvergeView`, `ConvergePut`, `Adopt` are the adopted failover;
- `WarmThrottled`, `WarmResolve`, `WarmCheck`, `WarmPut` are the deferred warm pass.

Around it are a crash of a watcher, the primary getting worse or coming back (with
or without its volume), a standby rebuilt empty, an operator's freeze, the attach
scripts, and computes that wake. A write whose call errs may have landed or not.

What is abstracted:

- the freeze deadline and its clamp become `FreezeLapses`;
- `failures` stops at the threshold, the only value it is compared with;
- a PUT never answers 404 (the code's comments say that the pageserver does not), so
  the branches behind that answer, kept in the code as defence in depth, and the two
  "nothing to promote" returns they lead to, are left out;
- a PUT that timed out lands within its step or never;
- the ledger may be absent or pruned at the start only; one that was reset below the
  plane, which `SeedLedger` would heal upwards, is not among the initial states, since
  until it is healed it breaks what the other properties say;
- of the pod's status it is told whether it is ready, runs but is not ready (`degraded`),
  is stopped (`down`), stale because its node is lost (`lost`), or absent (`gone`). The
  HTTP probe does not depend on it: a degraded primary may answer one, and one on a lost
  node too (`DeadAnswers`);
- an attach script reads the ledger and attaches in one step;
- a standby answers unless a fault is spent;
- the refusals of `resolveStandby` are about static configuration, which is assumed
  valid; a selector patched by hand and the manual failback are not modelled.

### Gateway

One compute key. `conn[c]` is a connection with its control point, replica, whether
its backend is live and what a drain did to it. `count[g]` and `cur[g]` are the
`activeEntry` of replica g, `timer[g][s]` are its timer goroutines (several may
exist, the entry points to the last), `flight[g]` is the coalescer's call, `up[g]`
is whether the replica is open, draining, past its deadline, or gone. The compute is
`replicas` (desired) and `pod`. The actions follow a connection (`Accept`, `Parse`,
`Start`, `Publish`, `Dial`, `WakeReturns`, `Poll`, `Reply`, the pipe, `Unpublish`,
`End`, `Arm`), a timer (`Fire`, `Scrape`, `Rearm`, `Final`, `Sleep`, `Heal`,
`WakeBack`), a drain (`Drain`, `ForceClose`, `Exit`) and the Deployment.
`connStarted` and `ConnOpen` are two steps, as `ConnClose` and `connEnded` are: a
peer may scrape in between. `timer[g][s].after` is history: the connections published
after the timer's look at the peers.

What is abstracted:

- time: an armed timer may fire at any moment. A deadline of a wake passes only when
  waiting is vain (`Stuck`), unless `SlowCalls`, which also lets a scale call outlast
  an idle window;
- TLS, authorization, `GW_MAX_CONNS`, the wake budget, the status gate and the bytes
  are a connection that gives up (`GiveUp`) or a call that fails;
- replication connections are counted by `count` like the others; `replCount` counts a
  subset of them and is left out;
- a scale call is one step, its retries included; a conflict is an error;
- the peers are scraped in one step (the fleet has two replicas);
- a client that leaves early is noticed when its pipe starts, as in the code, which
  does not read from it before;
- a timer that waits for the lock is merged with its firing;
- a replica that drains is still listed as a peer, one that is gone is not;
- `MaxTimers` bounds the timers of a replica pending at a time: with all slots taken,
  `Arm` waits for one.

### CacheHandler and TagStore

A call of the handler is a record `call[c]`: the command it waits for (`pc`), the pod,
the client it acquired, what was asked, and what the network did to it (`landed`: Redis
applied the command and the reply is not back; `cut`: its connection closed). `pod[p]`
is the module state of a process: the breaker, the number of the current client and
how far it is connected. `gate[p][n]` is the queue in front of native client n.
`Start` is `ensureConnected` with `getRedis`; `Proceed` and `Connect` are the wait for
readiness, in which every waiter of a native client has a handshake of its own that may
fail after the client was dropped; `Lands` is Redis; `Answered` is the continuation
after an await; `Fails` and `TimesOut` are `redisCall`'s fault, which drops the current
client (`Unhealthy`) whichever it is by then. ioredis sends a transaction in one write
and rejects what is pending when it disconnects; Bun's client does neither, so a
transaction is `MULTI`, then `EXEC`, and after a failure `DISCARD` (`Discards`), holding
the gate throughout, and these have no budget (`Budgeted`). A connection may go silent
(`Silence`) and may be closed at last (`Closes`), which rejects what was sent on it.

`TagStore` is what the pods promise each other: `Write`, `Invalidate` and `Remove`, each
in one step. `lapsed` is history: the memberships that an invalidation deleted without
having seen them.

What is abstracted: an entry is its set of tags; a get changes nothing; the cooldown of
an ioredis client outlasts `disconnect()` and the budget of a command, as the defaults
have it (5 s and 2 s), while that of a native client may end at any time
(`CooldownEnds`); the commands that a native transaction queues between MULTI and EXEC
are answered with its EXEC; the event log (on a native client its commands wait in the
gate like any other, and its errors are ignored), serialization, freshness, build scoping and the image memory are left out, and so is a
client that cannot be loaded, which leaves a pod on its memory for good.

### AssetDeploys

Each run of `knext deploy` and `knext gc` has a `stage` and a `plan` (what its
collection has read); `store` is the set of objects, `cr` the NextApp's build, pin and
held condition, `revs` the revisions in order, `observed` the status. A deploy is
`Start`, `BulkUpload`, `Verify`, `Reupload`, `Relist`, `Push`, `Reclaim`, `Apply`,
`Wait`; one that takes its assets from the image pushes first. A collection is
`ReadStatus`, `ReadPin`, `ReadPinAgain`, `ReadStatusAgain`, `List`, `Delete`. `Rollback`,
`ClearPin`, `Hold`, `RollOut` and `Observe` are the CLI and the operator; a CLI that
fails may have moved any part of the objects, and any run may be killed.

What is abstracted: a build is two objects, its assets and its marker; the labels of
the revisions that a collection keeps are read with the pin, since they never change;
reading a failed status and any other skip both end a collection; staging, dry runs,
`--skip-upload` and the shared directories are left out.

### Supervisor, ImageCacheSync, PodRuntime

`Supervisor`: the child may end at any moment (`End`), which is not yet its exit event
(`ChildExit`). The first signal forwards SIGTERM; the exit event starts the drain hooks
during a shutdown and ends the pod otherwise; `Drained` or `Grace` ends a shutdown.
`ImageCacheSync`: `phase` is where `startImageCacheSync` is, `live` whether the watcher's
stream reports events, `pending` and `timer` the flush, `reading` and `uploading` the
pushes in flight. `PodRuntime` runs both in one process: a signal stops the sync before
the shutdown, and the exit ends it.

Every call of the store and every reading of a directory may fail: `lost` are the files
that were given up so, until they are written anew or uploaded after all.

What is abstracted: a variant is its set of files; an upload of bytes already stored
is one that changes nothing; the grace timer is unref'd, so the model counts on a drain
hook that hangs to hold a handle, as the database drain does (without one, Node would
exit with 0 and no warning once its loop is empty); the metrics endpoint and the other deferred steps are left
out, as is a signal before the spawn.

## 3. What TLC checks

Each property has a mutant, a plausible slip in one definition, that TLC finds
violated under the configuration of the run. The slips stand beside the definitions
they spoil, under the comment "Slip".

| Run | Instance | Checks |
|---|---|---|
| `FailoverSingle` | 1 watcher, 2 tenants, threshold 2, 2 faults, fair | `TypeOK`, `AttachedWithinLedger`, `CutoverInvariant`, `NoPhantomAttach`, `NeverDemotes`, `PromotedBeforeFlip`, `DeathFailsOver`, `FlipBounces` |
| `FailoverDual` | 2 watchers, 1 tenant, 1 fault, standby may lose its volume | `LedgerInvariant`, `ReservationsDistinct`, `LedgerNeverLowers`, `ImplementsLedger` |
| `FailoverConverge` | 1 watcher, 1 tenant, 3 faults, fair | `FlipConverges` |
| `GatewayFleet` | 2 replicas, 2 connections, any failure once | `TypeOK`, `CountsSlots`, `SparesOlderSessions` |
| `GatewayTimers` | 1 replica, 2 connections, 2 timers, slow calls | `WokenStayAwaited` |
| `GatewayLive` | 1 replica, 2 connections, a compute crash or a drain, fair | `ClientsServed`, `DrainEnds` |
| `GatewayIdle` | 2 replicas, 2 connections, a failed scrape, fair | `SleepsWhenIdle` |
| `CacheIsr` | a Node and a Bun pod, 2 keys, 1 tag, 3 calls in 2 slots, 1 fault, fair | `TypeOK`, `Reachable`, `TransactionsAlone`, `QueueMoves`, `ImplementsTagStore`, `HealthyClientKept`, `Settles` |
| `AssetDeploys` | 2 deploys (host, image), retention 2, 1 rollback, 2 faults | `TypeOK`, `WindowKept`, `ReapOutranked`, `ReclaimSparesLive` |
| `AssetCollect` | 1 deploy, 1 gc, 2 served builds, retention 1, 2 rollbacks, 2 faults | `WindowKept`, `NeverReapsProtected` |
| `AssetReclaimClaim` | 2 deploys of one tag | `ReclaimSparesLive`, which fails |
| `PodRuntime` | 2 drain hooks, 2 signals, 2 files of a variant, fair | `TypeOK`, `CleanExit`, `TermOnce`, `NoneOverlooked`, `Exits`, `FilesStored`, `NoPushAfterStop` |

**Bounds.** One watcher is what is deployed (`replicas: 1`, `Recreate`); two are the
partition the compare-and-swap exists for, a third adds no new kind of race, and the
proofs do not depend on it. Two tenants are the base, never skippable, and another.
Two faults are what it takes to lose a reservation and then crash during its retry;
`FailoverConverge` has three since lagging takes an aborted promotion, a crash and a
return. Generations need no bound: a watcher reserves once, and to reserve again
costs a fault. Two replicas are the shipped gateway fleet. Two connections are
one that ends and one that arrives while the first one's timer runs, or one per
replica. Two timers are the fewest of which the entry forgets one. Two slots and three calls are what a
late failure takes: a call on the old client, one that makes the new one, one that uses
it. A second fault, one that meets the new client, is in `CacheTwoFaults.cfg` for the
safety properties and in `CacheSettles.cfg`, with one key, for `Settles`; they are too
large to be run together and pass by hand. One pod of each runtime covers both clients and the sharing of Redis; a second tag
only repeats the loop of the first. Two deploys are one that collects while the other
uploads; retention 1 and 2 are the smallest windows with and without room. Two hooks
are one that settles and one that does not, two signals one that is repeated, two files
of one variant the replacement of an older one. Every budget is small, and what is
checked is the order of events, not their number.

`CutoverInvariant`, `NoPhantomAttach`, `NeverDemotes` and `PromotedBeforeFlip` are checked
for one watcher and a standby that keeps its volume; which of them needs what is in
section 4. A standby emptied between the two passes of a failover is attached empty by
the second, and with two watchers the warm pass of one may PUT a Secondary after the
promotion of the other, which it read as absent before. `WokenStayAwaited` is checked for one replica, for
the reason in section 5.
`DeathFailsOver` asks nothing while the primary still answers probes, nor of a pod that was
never seen, is gone, and has a ledger at the base generation, which the code holds back
on purpose. `FlipConverges` has one tenant: failures of another would end with the budget.
`NoPushAfterStop` is about a stop that finds the handle of the sync.
`Reachable` excepts memberships in `lapsed`, `Settles` and `QueueMoves` what waits behind a
native transaction on a silent connection, `NeverReapsProtected` changes after the second read of a
collection: in each the exception is the window the code leaves, described in section 5
or in the hazards. `WindowKept` lists build ids in the order of their deploys, as the
default ids (the time) do.
`GatewayTimers` leaves out failed scale calls: a client is not woken back when the
wake back itself fails. `GatewayLive` leaves out failed wakes and writes, which the
code reports to the client. `GatewayIdle` leaves out failed scale-downs, which the
code does not retry, and replicas that stop, whose timers are lost.

**Fairness.** `PSWatcher!Fairness`: the run loop ticks for ever and every call has a
client timeout, so a watcher's next call is weakly fair; the warm interval elapses
again and again, so `WarmResolve`, which competes with the throttle, is strongly
fair; a freeze is clamped, so `FreezeLapses` is weakly fair. Nothing obliges a pod to
die or return, an operator, a script or a compute to act, or a fault to happen.
`Gateway!Fairness`: goroutines of connections and timers are scheduled, wakes return
(each attempt has a timeout), the drain deadline passes, and the Deployment
controller starts and stops the pod. No client is obliged to come or to leave.
`CacheHandler!Fairness`: a command that Redis can answer is answered, a refused one
fails, one with a budget runs out of it, and a wait for a connection ends; nothing
obliges an outage to end, a breaker to close, a reply to arrive on a silent connection
or the runtime to close one. `PodRuntime!Fairness`: the exit event of a child is delivered, the grace cap
fires, and the callbacks and store calls of the sync run while the pod does; neither the
child nor a drain hook is obliged to end.

## 4. What TLAPS proves

For every value of the constants that their assumptions allow:

| Module | Theorem | States |
|---|---|---|
| `PSWatcher_proofs` | `TypeCorrect` | `Spec => []TypeOK` |
| | `LedgerSound` | `Spec => []LedgerInvariant` |
| | `NeverAheadOfLedger` | `Spec => []AttachedWithinLedger` |
| | `NoSharedReservation` | `Spec => []ReservationsDistinct` |
| | `LedgerMonotone` | `Spec => LedgerNeverLowers` |
| | `Implements` | `Spec => ImplementsLedger` |
| `PSWatcherCutover_proofs` | `NoPhantom` | `~StandbyLosesVolume => (Spec => NoPhantomAttach)` |
| | `NoDemotion` | `Alone => (Spec => NeverDemotes)` |
| | `CutoverSound` | `Alone /\ ~StandbyLosesVolume => (Spec => []CutoverInvariant)` |
| | `PromotedFirst` | `Alone /\ ~StandbyLosesVolume => (Spec => PromotedBeforeFlip)` |
| `Gateway_proofs` | `TypeCorrect` | `Spec => []TypeOK` |
| | `SlotsBalance` | `Spec => []CountsSlots` |
| | `OlderSessionsSpared` | `Served => (Spec => []SparesOlderSessions)` |
| | `WokenNotStranded` | `Solo => (Spec => []WokenStayAwaited)` |
| `CacheHandler_proofs` | `CacheTypeOK` | `Spec => []TypeOK` |
| | `CacheImplementsTagStore` | `Spec => ImplementsTagStore` |
| | `CacheReachable` | `Spec => []Reachable` |
| | `CacheTransactionsAlone` | `Spec => []TransactionsAlone` |
| `CacheClients_proofs` | `CacheQueueMoves` | `Spec => []QueueMoves` |
| | `CacheHealthyClientKept` | `Spec => HealthyClientKept` |
| `AssetDeploys_proofs` | `AssetTypeOK` | `Spec => []TypeOK` |
| | `AssetNeverReapsProtected` | `Spec => NeverReapsProtected` |
| | `AssetReclaimSparesLive` | `OwnTags => (Spec => ReclaimSparesLive)` |
| `AssetWindow_proofs` | `AssetReapOutranked` | `Spec => []ReapOutranked` |
| | `AssetWindowKept` | `OwnTags => (Spec => []WindowKept)` |
| `PodRuntime_proofs` | `PodTypeOK` | `Spec => []TypeOK` |
| | `PodCleanExit` | `Spec => []CleanExit` |
| | `PodTermOnce` | `Spec => []TermOnce` |
| | `PodNoneOverlooked` | `Spec => []NoneOverlooked` |
| | `PodNoPushAfterStop` | `Spec => NoPushAfterStop` |

**The failover**, for any set of watchers and tenants, any threshold, base generation
and starting generations, any number of faults, and a standby that may lose its volume.
`AttachedWithinLedger` is not inductive: a reservation raises the ledger from a value
that was read several calls before. What keeps it sound is the resourceVersion, and
`LedgerInvariant` says how. While the token of a watcher is still the ledger's, what
it concluded from its read still holds (`TokenSound`); once the token is old, the
write can only fail and nothing needs to hold. A generation being PUT has been
granted by the ledger (`GrantSound`); and while the ledger is unset all tenants are
attached at the same generation, so the one recovered from a single view is above
none (`LocationsSound`). The proof has one lemma per kind of step: the steps that
only move the control of a watcher (`Quiet`), those that move a location (`LocStep`)
and those that write the ledger (`WriteStep`). Monotonicity and the refinement follow
from the invariant and a lemma on how each step moves the plane.

**The cutover** is about the two nodes instead of the ledger, and needs another invariant,
`CutoverInvariant`, which `FailoverSingle` checks: before the flip no instance is past
a failover (`LatchSound`); what PASS 1 found held on the standby still is (`HeldSound`);
the node a warm pass works on is the one not selected, and what it found missing there
still is (`WarmSound`); and the tenants a failover has passed over are not on the
standby, those it has promoted are served at the ledger's generation (`CutSound`).
`NoPhantom` uses `HeldSound` alone, in which the watchers do not meet, so it holds for
any number of them. The others are about a lone watcher (`Alone`), as it is deployed: its
node stays unselected while it warms because no one else flips, and its generation
stays the ledger's because no one else reserves. TLC shows that the hypotheses are
needed: with two watchers it finds `NeverDemotes` and `PromotedBeforeFlip` violated,
and with a standby that loses its volume `NoPhantomAttach` and `PromotedBeforeFlip`. A
watcher that crashes restarts from nothing, so no theorem assumes that it does not.

**The gateway**, for any number of replicas, connections, pending timers and failures.
The types need the count: `connEnded` subtracts one, and that the result is a natural
number follows only from `CountsSlots`, so the two are proved together, with the fact
that a replica that is gone has no connection (`GoneOK`, without which a restart would
open one that counts zero and holds slots). `SparesOlderSessions` strengthens to
`Looked`: past its look at the peers a timer has noted every published connection but
its own replica's, and the last look adds those because a count of zero means no holder.
It needs `Served`, and `GoneOK` again, for a peer that is not scraped any more.
`WokenStayAwaited` strengthens to `Awaited`: while a client polls, the compute is scaled
to one or a timer of its replica is between the scale-down and the wake back. It holds
for one replica whose scale calls do not fail (`Solo`): another replica wakes back its
own clients only (`FleetClaim`, section 5).

**The cache.** The refinement is shown step by step: a call touches Redis only when a
command lands, and what lands is a step of `TagStore`. `Reachable` is then an invariant of
the abstract store alone. The types are the hard part, since they say what the gate is:
each native queue holds the calls with a command on that client, each once, so that
leaving it (`Tail`) and entering it (`Append`) never lose or double a call. With it,
`TransactionsAlone` is inductive: only the head of a queue begins a transaction, and only
a head leaves.

`QueueMoves` follows from the types of the gate: while a call has a command on a native
client the queue is not empty, its head is sent, and what is sent can be answered,
refused or timed out, unless it belongs to a transaction on a silent connection. So
whatever entered, left or was discarded before, the gate was given back.

`HealthyClientKept` is about the commands that a dropped client leaves behind: one of them
failing later would drop the next client. On Node none is left (`CallsCurrent`): while
the breaker is closed, every call of the pod is on its current client, for the cooldown
ends only when the calls of the old one have, and `disconnect()` rejects at once what was
pending there. This is where the proof rests on the length of the cooldown against the
command budget, both of which the environment may set. The property is not claimed of
Bun pods (section 5).

**The assets.** `NeverReapsProtected` rests on an invariant on the plan of each
collection that has seen no change since its second read: past that read it keeps the
builds of all revisions the status names and of the pin, and what it still reaps is
disjoint from what it keeps. `ReclaimSparesLive` needs that deploys have build ids of
their own, which no earlier build has either (`OwnTags`); then a build that is live was
applied by the deploy with its tag, which is past the stages that lead to a reclaim.

`WindowKept` counts builds in a store that changes under the count. `ReapOutranked` is the
step between: the builds that a listing counts as newer are marked, so each was served
before, has a deploy that began, or was taken for the newest, and is a rival; rivals only
come, so what is planned for deletion stays outside the window until it is deleted. Then
a build inside the window loses objects to no collection, and with `OwnTags` to no
reclaim either (TLC finds `WindowKept` violated when two deploys share a tag). The sets
of builds are finite in every reachable state although the sets of runs and builds need
not be: a step begins one deploy at most.

**The pod.** `SupInv` relates the exit code, the drain hooks and the signals;
`SyncInv` has a part for each phase of the sync: what is left to scan, or covered
already, once the watcher is live (`ScanCovers`, `NoneOverlooked`), and what a stopped
sync no longer has (`StoppedStill`).

Only model-checked: liveness (`DeathFailsOver`, `FlipBounces`, `FlipConverges`,
`ClientsServed`, `DrainEnds`, `SleepsWhenIdle`, `Settles`, `Exits`, `FilesStored`), which
TLAPS cannot prove from fairness. Every invariant and every action property of a passing
run is stated by a theorem.

## 5. Where the documents and the code differ

Each difference listed has a configuration, and TLC finds the statement violated there.
`AssetReclaimClaim` is one of the project's runs; the others are run by hand, as
`tlc -config EpisodeClaim.cfg MCPSWatcher`.

- **`AssetReclaimClaim`** (`MCAssetDeploys`). asset-upload.ts:1536 says that the build id
  of a deploy that aborts before its apply can never be in the status or pinned. The
  build id is the tag, and the README's pipelines use the commit as the tag, so a second
  run of a job deploys the id that serves. When its push fails, its reclaim deletes the
  assets of the live build.
- **`CacheIndexClaim`** (`MCCacheHandler`). The comment of `execAtomic` gives an entry
  that `revalidateTag` can never reach as what the transaction excludes. `revalidateTag`
  reads the members of a tag, then deletes those and the whole set: an entry written in
  between stays, and loses its index.
- **`CacheGateClaim`** (`MCCacheHandler`). The comment of `budgetNativeClient` bounds every
  command on the native client. A native transaction runs on the raw client behind it,
  so on a connection that dies silently its call, and those waiting in the gate, hang.
- **`EpisodeClaim`** (`MCPSWatcher`). docs/operations.md says that the ledger advances
  exactly once per episode even if a promotion is retried. The reservation is kept in
  memory, so a crash or a lost reply after it makes the retry reserve one more. This is
  safe, as `AttachedWithinLedger` shows, but not what is documented.
- **`FencingClaim`** (`MCPSWatcher`). docs/operations.md says that the higher generation
  fences the dead primary. Between the reservation and the flip an attach script may find
  the ledger at the new generation and the Service still on the old primary, and attach
  that one at the generation the standby then gets too. It takes a primary that
  answers at that moment: one that returns.
- **`FleetClaim`** (`MCGateway`). docs/operations.md says that a client of replica B which
  arrives between A's peer check and A's scale-down is held until ready, as its own wake
  wakes the compute again at once. If A's scale-down lands after B's wake, no one
  wakes the compute: B polls without waking again, A heals only for its own clients.
  B's client is answered with an error at its wake deadline.
- **`LaneClaim`** (`MCGateway`). wake/ro.go says that the read-only lane reuses the
  peer-aware sleep. Its gateway does get the peers, but the metrics server serves the
  writer lane's registry only, so read-only sessions are invisible to the other replica.

One property holds on Node and not on Bun, and no document claims it there:
**`CacheBreakerClaim`** (`MCCacheHandler`) states `HealthyClientKept` of a Bun pod, and TLC
finds a late fault of an old command that drops the next, healthy client. The budgets of
a native gate run one after another, each from when its command gets the gate, a
transaction has none, neither the `DEL` of a `set(null)` nor the event log starts the
cooldown anew, and a dropped native client has no `disconnect()`.

skew-protection.mdx says that a collection keeps the newest builds; `pruneOldBuilds`
orders by the position in the listing, which is the age only when the ids sort by time.

## 6. Not modelled

| Component | Why |
|---|---|
| wake retry and wake budget, writer autoscaler | schedules and thresholds over real time; as functions they restate the code |
| warm pool driver and gate | a second tier that ships with zero replicas; the window of its check against a cold scale-up is listed as a hazard |
| AppDatabase and Zone operators | mostly SQL, DNS and manifests against services that are not in the repository; the dropped error of the timeline delete is listed as a hazard |
| NextApp operator, platform rollout | what the assets see of it is in `AssetDeploys`; the rest renders objects and conditions from the CR at every reconcile |
| status gate, startup rewriting, TLS, authorization, protocol parsing | decide one connection from its bytes, without shared state |
| webhook, defaults, validation | stateless checks |
| build, compile and instrumentation adapters, `scripts/` | transform or audit files in one pass |
| self-contained supervisor | a process without a child or drain hooks: its drain is Node's own server close |
| libraries, UI, CI action, demos | thin clients and examples |

What would come next: an abstract specification of what the gateway promises a compute
(it runs while a session is open) and the refinement to it; the safety core of the
leads-to properties, what can never again be lost on the way; and the warm pool, with
one writer per timeline as its abstract specification.
