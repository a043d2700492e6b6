# Verification of the NVIDIA DRA driver (with KV-cache pools)

TLA+ models of the concurrent and failure-prone parts of this repository, the
TLC configurations that check them on small instances, and theorems that TLAPS
proves for every instance. `PROJECT.json` maps every definition to the source
lines it stands for, lists the runs, the faulty variants ("mutants") each
property is shown to catch, and the hazards the properties are for.

    tlc -workers 2 -config MCClaimCleanup.cfg MCClaimLifecycle
    tlapm ClaimLifecycleProofs.tla

Every run of `PROJECT.json` is `tlc -config <cfg> <module>`.

## 1. The system

The repository is a Kubernetes Dynamic Resource Allocation driver: a set of
cooperating programs that share an API server, files on each node and a kernel
lock.

| Component | State it keeps | Operations | Talks to |
|---|---|---|---|
| compute-domain kubelet plugin (`cmd/compute-domain-kubelet-plugin`) | checkpoint file, CDI spec files, per-domain config directories, informer cache of ComputeDomains | Prepare / Unprepare of a claim, cleanup of stale claims, cleanup of directories | kubelet (gRPC), API server (node label, domain status), a second process of itself during an upgrade |
| work queue (`pkg/workqueue`) | client-go queue, `activeOps` per key | Enqueue, EnqueueWithKey, processNextWorkItem with back-off | every other component |
| compute-domain daemon (`cmd/compute-domain-daemon`) | IMEX child process, clique membership (index per node), DNS mapping and nodes file | join / leave the clique, push membership, restart or signal IMEX, watchdog | API server, the IMEX process, its pod's readiness |
| compute-domain controller (`cmd/compute-domain-controller`) | finalizers of domain, DaemonSet, ResourceClaimTemplates; domain status | create children, ordered teardown, status aggregation, label removal, orphan cleanup | API server |
| GPU kubelet plugin (`cmd/gpu-kubelet-plugin`) | checkpoint, CDI files, MIG devices, MPS daemons, device taints | Prepare / Unprepare, dynamic MIG creation and roll-back, health events | kubelet, NVML, API server |
| KV-cache controller (`cmd/kvcache-controller`) | KVCachePool objects, a claim annotation | match or provision a pool for a claim, pool finalizer and status | API server |
| KV-cache kubelet plugin (`cmd/kvcache-kubelet-plugin`) | CDI files | Prepare / Unprepare of a claim | kubelet, API server |
| webhook (`cmd/webhook`), API types (`api/.../v1beta1`), feature gates | none; the configs of a claim pass through them | review of a claim, defaults, Normalize, Validate | API server, both kubelet plugins |
| flags, metrics, build information | none of interest | configuration, output | - |

### What is hard, and what makes each part correct

* **Claim lifecycle (compute domain).** Several requests are served at once, an
  upgrade runs two processes on the same files, and each attempt touches the
  checkpoint, the node label, a CDI file and the checkpoint again, and can be
  cut short anywhere. A channel Prepare *cannot finish* until a daemon Prepare,
  which needs the same lock, has gone through. Correct: one claim per device;
  nothing on the node that the checkpoint does not know of; no lost update of
  the file; Prepare at most once; the cleanup, which looks without the lock,
  never hurts a live claim; no deadlock between the codependent requests.
* **Work queue.** A retry of an old object may run after the newer object was
  handled. Correct: the newest object is eventually reconciled and is reconciled
  last.
* **IMEX process manager.** Restart, watchdog and signals share one handle of the
  child. Correct: one child at most, a lost child comes back, an intended stop
  is not undone.
* **Clique membership.** Daemons pick the lowest free index under optimistic
  concurrency, and leave; their DNS names derive from the index. Correct: no two
  live daemons with one index, every daemon's hosts file converges.
* **Controller.** Teardown is a chain of finalizers over several objects with an
  API server that may fail between any two calls. Correct: no child outlives its
  domain, the domain is gone only when its children are, the label goes.
* **GPU plugin.** MIG devices are created before the checkpoint says so, GPUs change
  drivers, compute modes and time slices; correct: after any crash the devices of
  unfinished claims are destroyed and no live device is, and a claim keeps the
  sharing it was given.
* **Device health.** NVML events cross a bounded channel whose reader starts after
  its writer and ends on its own. Correct: the slice shows the latest events,
  no device is forgotten, shutdown ends.
* **Device configs.** Entries of class and claim, for all or for some requests, are
  judged at admission and again on the node. Correct: every device gets the
  strongest config meant for it, and what was admitted is not refused later.
* **KV cache.** Claims with equal configuration share a pool, created
  concurrently by name. Correct: equal configuration gives one pool; controller
  and plugin agree on the pool of a claim.

## 2. Plan

1. `ClaimLifecycle`, with `ClaimLedger` as what it promises and
   `ClaimLifecycleProofs`: the core of the driver. *Done in full.*
2. `WorkQueue`: supersession and retry; theorems on `activeOps`. *Done.*
3. `KVCachePool`: claim and pool reconciler with the plugin. *Done.*
4. `ProcessManager`: the IMEX child, its watchdog and signals; proofs of one child
   and of a wait that does not block. *Done.*
5. `CliqueMembership`: index allocation, membership push, readiness, shutdown,
   the controller's cleanup; proofs of unique indices, stable names and known
   peers. *Done.*
6. `GpuLifecycle`: Prepare and Unprepare with dynamic MIG, passthrough and
   sharing; it implements the same `ClaimLedger`; proofs that devices and sharing
   settings are kept and MIG devices tracked. *Done.*
7. `DeviceHealth`: monitor, channel, consumer and shutdown; proof that the latest
   health is published. *Done.*
8. `DomainController`: finalizers, teardown, cleanup workers, caches, change of
   leader; proofs that a domain goes last and that nothing of a live one is
   deleted. *Done.*
9. `DeviceConfig`: webhook, API types, choice of a config; proofs that precedence
   holds, that what was admitted is prepared, that limits reach the right devices.
   *Done.*

Each gets an MC module, runs with two or three actors and one or two faults, and
an inductive invariant that is first checked by TLC.

## 3. Claim lifecycle of the compute-domain plugin

`ClaimLifecycle.tla` models one node. Its *threads* are the goroutines that work
on one claim: a *handler* is the callback the request's work queue runs for a
claim (`nodePrepareResource`, `nodeUnprepareResource`), a *cleaner* is the worker
of a `CheckpointCleanupManager`. Threads belong to processes (`ProcOf`).

| Variable | Code |
|---|---|
| `checkpoint` | `PreparedClaims` in the checkpoint file: absent, PrepareStarted, PrepareCompleted; "legacy" and "nameless" are what the conversion makes of 25.3.x entries |
| `cdi`, `configDir` | CDI spec files of claims; config directories of domains |
| `lock` | the flock on `pu.lock`; the thread that holds it |
| `pc`, `arg`, `snap` | where a thread is, its claim, the checkpoint copy of `updateCheckpoint` |
| `stale` | the cleaner's list, read without the lock |
| `proc`, `known`, `sweep` | life of each process, its ComputeDomain informer cache, the directory the periodic cleanup has decided to remove |
| `kubelet` | what the kubelet last heard of a claim |
| `live`, `cdState`, `ready`, `label` | API server: claims, domains, node readiness in the domain's status, the node label |

One action is one step between two points where another thread, the other
process, a crash or the API server can be seen: `PrepareCheck`, `ReadCheckpoint`
and `PrepareStarted` (the two halves of `updateCheckpoint`),
`ApplyChannelConfig` or `ApplyDaemonConfig`, `AddNodeLabel`,
`AssertComputeDomainReady`, `CreateClaimSpecFile`, `ReadCheckpoint`,
`PrepareCompleted`; for Unprepare `UnprepareFind`, `UnprepareDevices`,
`DeleteClaimSpecFile`, `ReadCheckpoint`, `DeleteClaimFromCheckpoint`. Every early
return is a disjunct: `Done` for success and permanent errors, `Retry` for the
rest. `ConfigResultsMapFails` is the error return of `getConfigResultsMap`, with
which `prepareDevices` and `unprepareDevices` both begin. Each step that does I/O
has a failing twin (`CheckpointFails`, `NodeUpdateFails`, `SpecFileFails`); a
failing API call may have taken effect.

### Modelling decisions

* A request with several claims is several handlers: `driver.go` enqueues one
  callback per claim; the common deadline is `GiveUp`. Lock polling and back-off
  are the one step "pLock"/"uLock", since both hold nothing and both end with a
  new attempt or the deadline.
* The DeviceState mutex is free whenever `pu.lock` is, so it adds nothing. The
  kubelet does not run two requests for one claim at a time.
* The plugin helper rejects unallocated claims and UID mismatches before the
  driver is called, so the nil-allocation return of `Prepare` is unreachable.
* The checkpoint write is a temporary file and a rename: atomic. Get and Update
  of the Node are one step, since the update carries the `resourceVersion`.
* Requests are served before the informer cache is filled ("starting"). The
  directory cleanup ticks every ten minutes and is taken to start after that.
* `Shutdown` is no more than `Crash` at a moment where it does no harm.
* A started claim without a name (25.3.x) is skipped by the cleanup for good, as
  the code does; `StaleStartedResolved` is about named ones.
* `ConfigOf` says how the configs of a claim read: "valid"; "unknownField", which
  the strict decoder of Prepare refuses (a permanent error) and the other one of
  Unprepare accepts; "undecodable", which both refuse; "mismatched" for what
  `getConfigResultsMap` finds after decoding (a config of the other type, a device
  that is not allocatable, a config that is not opaque), an error that is retried.
  A claim is PrepareStarted before any of this is found out. A config that decodes
  and does not pass `Validate` is left out: Prepare retries it like a mismatched
  one, and Unprepare does not validate. Which config a device gets is
  `DeviceConfig` (section 11).

### Runs

| Run | Instance | Shows |
|---|---|---|
| `claim_cleanup` | a request and a cleaner on an old checkpoint (a legacy and a nameless entry, an admin-access claim), deletions of claims and of the domain, 1 fault | nothing on the node is untracked, prepared claims stay prepared, and the whole implements `ClaimLedger`: devices stay exclusive through panics, restarts and the cleanup's look without the lock |
| `claim_stale` | 1 handler, a cleaner, 3 channel claims of one domain, of which one has an unknown field in its config and one a config of the wrong type, 1 fault, fairness | a stale PrepareStarted claim is eventually removed if Unprepare can read its config; the claim that it cannot read does not stop the cleanup of the others |
| `claim_processes` | 2 processes, channel and daemon claim, 1 fault, fairness | no checkpoint update is lost, no claim is prepared twice, and the codependent prepares both complete |

*Bounds.* Two threads are enough for every race, since the lock admits one and the
other may be anywhere.
`MaxFaults` counts crashes, I/O errors and lost answers together; one fault
already leaves every intermediate state on disk, and the theorems below hold for
any number. Deadlock is not checked where no cleaner runs: when the domains and
claims of such an instance are gone, the system rightly has nothing to do.

*Fairness.* `FairSpec`: goroutines get scheduled (weak fairness of a thread's
steps); each request for a claim polls the lock, whose holders release it within
seconds (strong fairness per thread and claim); the cleanup is periodic; a
process that died is restarted and its informer catches up. `ClusterFairSpec`
adds that the kubelet asks again for the claims of its pods, that domains are
created, that the daemon of a labelled node comes up, and `Patience`: an attempt
takes far less than the 45 s of a request, so from some time on no request
expires while another attempt has the lock.

### Observations

The model shows, without runs of their own:

* some stale claims are never dropped. `Prepare` writes PrepareStarted
  (`device_state.go:184`) before it decodes the configs (`:350`); Unprepare, the
  cleanup's too, decodes them again (`:442`) and returns the error before it reaches
  the checkpoint. A claim with a config that does not decode, of the wrong type, or
  for a device that is not there stays in the checkpoint for ever, and each cleanup
  tries again: a path that the TODO at `cleanup.go:202` asks for.
  `StaleStartedResolved` is therefore restricted to claims whose configs Unprepare
  can read (`Unpreparable`); without the restriction TLC refutes it, without any
  fault and under the same fairness;
* the Unprepare of a claim left in PrepareStarted removes the node label that a
  prepared claim of the same domain relies on (`device_state.go:453`; the comment
  in `assertImexChannelNotAllocated`, `device_state.go:670`, calls two claims of
  which one is not completed a safe situation);
* after an Unprepare that stopped between the CDI file and the checkpoint, Prepare
  succeeds without a CDI file (`PrepareCheck`; `device_state.go:171`);
* the directory cleanup acts on an old lookup and may remove the directory of a
  daemon claim that is already prepared (`SweepLookup`, `SweepRemove`;
  `computedomain.go:430`);
* `GetNonAdminDevices` (`prepared.go:120`) dereferences a nil allocation before it
  tests for it: an entry of a 25.3.0-rc.2 checkpoint makes the Prepare of every
  other claim panic (`NilAllocations`, `Dies`); `claim_cleanup` goes through those
  panics.

### Proofs

`ClaimLifecycleProofs.tla` proves, for any number of processes, threads, claims,
domains and faults, from `ConstantsAssumption` (the sets fit together),
`ConfigAssumption` (each claim's configs read in one of the four ways) and
`LegacyAssumption` (an old checkpoint has at most one claim per device):

* `TypeCorrect`, `NoUpdateIsLost`, `DevicesAreExclusive`, `EverythingIsTracked`,
  `PreparedClaimsStay`: the type, and the invariants the runs check (exclusiveness
  on its own, and as part of the ledger);
* `PrepareIsIdempotent`, `CleanupIsSafe`: the action properties;
* `ImplementsLedger`: `Spec` implements `ClaimLedger`;
* `NobodyWaitsInVain`: `pu.lock` is held only within an attempt (`FlockInUse`), a
  process that is not there does nothing (`DeadAreIdle`), and a claim that the kubelet
  waits for has a request that is still worked on (`RequestOpen`). It is what the
  liveness properties need of the state: no error path, back-off or crash leaves
  the lock, or a request, behind.

None of the invariants is inductive alone. `Inv` adds `Control` (only the lock
holder is past the lock, a thread at work has a claim that no other request
has, an idle one has none), `Preparation` (what the holder has established at
each step: the device was free at the check *and is still*, because only the
holder writes the checkpoint; the entry is PrepareStarted from the first write
on), `Removal` (what an Unprepare has already undone, and that a cleaner's claim
is gone from the API server) and `Requests` (what the kubelet believes of the
claims at work). Exclusiveness of channel 0 rests on
`assertImexChannelNotAllocated` alone, of the daemon device on the overlap
check; the proof keeps the two apart. Each action is one lemma per conjunct it
can disturb; a step that touches none of the relevant variables goes through one
frame lemma.

Liveness itself (`StaleStartedResolved`, `CodependentPrepares`) is model-checked
only: TLAPS does not reason about fairness here.

## 4. Work queue

`WorkQueue.tla` models `pkg/workqueue` and the part of the client-go queue below
it. An element of `Items` is one `*WorkItem`; `Enqueue` stands for the four
`Enqueue*` methods, which differ in whether the item has a key and whether the
object is copied.

| Variable | Code |
|---|---|
| `activeOps` | the map of the same name: the current item of each key |
| `delayed`, `queue`, `dirty` | client-go: items waiting for their back-off, items ready, items added and not yet handed out |
| `item`, `pc` | the item of `processNextWorkItem` and where the goroutine of `Run` is |
| `cancelled`, `shuttingDown` | the context of `Run`; `queue.ShutDown` |
| `newest`, `enqueued`, `succeeded` | history, read by properties only |

`Select`, `Get`, `CallbackFails` / `CallbackSucceeds`, `HandleFailure` /
`HandleSuccess` and `Done` are the steps of `Run` and `processNextWorkItem`
between which producers can enqueue: the mutex is held over the comparison with
`activeOps` and `AddRateLimited`, so these are one step. Lengths of back-offs and
jitter are left out; the order in which they elapse is free, which is what the
code allows for items of different age.

| Run | Instance | Shows |
|---|---|---|
| `work_queue` | 3 items of one key, 1 without key, fairness | nothing dropped; the newest item stays current until it succeeded; a success is final; every item is reconciled or superseded; `Run` returns |

Three items of a key are what it takes for an old item, a current one and the
next to meet. An instance may have every item done and the queue idle, so
deadlock is not checked. *Fairness:* the goroutines run, timers fire, and a
callback that is tried again and again succeeds in the end (strong fairness of
`CallbackSucceeds`): the queue cannot promise more than its callbacks do.

The model shows, without a run of its own, that an older item which fails after
the newer item of its key has succeeded is retried, because `activeOps` then has
no entry, although it is not "still the current operation for this key"
(`MayRetry`; `workqueue.go:172`).

*Proofs* (`WorkQueueProofs.tla`, from `QueueAssumption`, any number of items and
keys): `NoItemIsLost`, `NewestStaysCurrent`, `NoSecondSuccess`. The inductive
invariant `Inv` adds where an item may be while it is processed (not in
`delayed` or the queue unless it was added again, every queued item is dirty)
and that a succeeded item is nowhere except at the worker.

## 5. KV-cache pools

`KVCachePool.tla` composes the two reconcilers of the KV-cache controller, the
API server with the pools and the claims' annotations, and the kubelet plugin
of one node.

| Variable | Code |
|---|---|
| `live`, `binding` | ResourceClaims; the annotation `kvcache.nvidia.com/kvcache-pool-name` |
| `pools` | KVCachePool objects: compatibility fields as one key, finalizer, deletion timestamp, readiness (status Ready with an endpoint) |
| `leader`, `queued` | the lease of `main.go`; the claim controller's queue |
| `seen`, `cached` | each replica's informer caches of claims and pools |
| `pc`, `arg` | where a replica's reconciler and a plugin request are, and their claim |
| `found`, `lock`, `cdi`, `kubelet` | plugin: annotation and then pool of a request, `pu.lock`, CDI files, what the kubelet last heard |

`Reconcile` is the reconciler up to `matchOrProvision`; `GetPool`, `CreatePool`,
`RegetPool` are the three API calls of `getOrCreatePool`, `PatchClaim` the
binding, `WriteFails` a write that fails with or without its effect. Reads are
from the replica's cache, writes go to the API server.

### Modelling decisions

* `ensureLMCacheChildren` and `deleteLMCacheChildren` are stubs that return an
  error, so the PoolReconciler never gets beyond its finalizer, and a pool with
  the finalizer is never released. Readiness is set by the environment
  (`PoolReady`), as an operator does by hand.
* The generated name is a truncated SHA-256 of the five fields; `NameOf` is
  assumed to be injective.
* A config is valid or not as a whole; a decoding error of any config counts as
  an invalid last one.
* controller-runtime runs one reconcile at a time per controller. A replica that
  lost its lease may finish the call it is in; a process that dies in a call is
  a replica that takes no further step.
* Specs of claims and pools are not edited: a claim's spec is immutable in the
  API; that nobody edits a pool's fields is an assumption.
* Pools in `DeletablePools` may vanish at any time, also between the Get and the
  patch, so what is said of bound pools is said of the others.
* The plugin does not retry within a request and its `DeviceState` mutex is
  nested in `pu.lock`.

### Runs

| Run | Instance | Shows |
|---|---|---|
| `pool` | 2 replicas, a plugin request, a claim with a generated name; an administrator who makes an incompatible pool of that name, or another pool; deletions; 1 fault; fairness | a bound claim has a compatible pool and keeps it, the plugin injects that pool, and the claim is bound unless its name is taken |

Two replicas, or a replica and the administrator, meet in every create race; one fault is a
failed call or a change of the leader. Deadlock is not checked because a cluster
whose claims are bound has nothing to do. *Fairness:* reconcilers run, caches
catch up, and a claim in the queue is not passed over for ever (strong fairness
per claim: the controller-runtime queue is first-in first-out). The plugin and
the administrator are under no obligation.

### Observations

The model shows, without runs of their own: of several configs of a claim the
controller takes the last (`DecodeKVCachePoolConfig`) and the plugin the first
(`PluginConfig`), so that the injected pool need not be the bound one; a claim with an
explicit name is matched by configuration all the same and turned away for good
(`UseCachedPool`; `src/README.md:38` says "Skip config-based matching"); and the
plugin, which does not compare fields, injects that pool into the claim the
controller turned away (`GetReadyPool`).

### Proofs

`KVCachePoolProofs.tla` proves, for any number of replicas, requests, claims,
pools and faults, from `PoolAssumption` (in particular that different fields have
different generated names; an explicit name may be one of them):

* `BoundPoolsServe`: whoever wins the create race, a claim is bound only to a
  pool with its fields;
* `BindingIsFinal`: two replicas, a stale cache or a retried patch never move a
  bound claim to another pool;
* `InjectedPoolIsBound`: the CDI file the plugin writes names the bound pool;
* `NoClaimDropped`: a claim that can be served and is not yet bound is in the
  leader's queue or being reconciled by it, after any failed write, stale read or
  change of the leader;
* `TypeCorrect`.

`Inv` adds to them what each party relies on. `CacheAgrees`: a replica's cache
may lack a pool, but never has wrong fields for one that is not deleted, so a
match found in it is a match. `PatchReady`: a reconciler that is about to patch
has seen the pool. `BoundByConfig`: the annotation is a function of the claim's
configuration, which is why a second patch by another replica changes nothing.
`RequestReads`: what a plugin request has read of the annotation and the pool
still holds when it writes its file. `NoClaimDropped` needs `SeenAgrees` (a cache
has a claim as bound or gone only when it is, so a reconciler that skips a claim is
right) and that pools which nobody deletes stay. It is the part of the liveness
property `NoClaimForgotten` that is safety; the rest, which is fairness, is
model-checked only.

## 6. Clique membership of the compute-domain daemons

`CliqueMembership.tla` composes the daemons of a compute domain, one per node,
the object they share, and the controller's cleanup. The object is the
ComputeDomainClique or, with the feature gate ComputeDomainCliques off, the
status of the ComputeDomain; `gates` is chosen in `Init` and the actions stand
for both managers (`cdclique.go`, `cdstatus.go`), which have the same steps.

| Variable | Code |
|---|---|
| `object` | `Daemons` of the clique or `Status.Nodes` of the domain: IP, index, readiness and position by node |
| `view`, `fresh` | each daemon's mutation cache over its informer; who has the current version |
| `todo` | its work queue: the keyed items "cdclique" / "cd" |
| `previous`, `sending` | `previousDaemons`; a worker blocked in the send on `updatedDaemonsChan` |
| `looping`, `config` | the update loop; the mapping it last wrote (hosts file or nodes file) for the IMEX child |
| `pod`, `ready`, `podsSeen` | daemon pods with their IPs, their readiness, the controller's pod cache |
| `others` | the nodes for which the same cache has a daemon pod of another ComputeDomain |
| `phase` | the daemon process: down, running, context cancelled |

`EnsureCliqueExists`, `SyncNoop`, `SyncDaemonInfo` and `UpdateDaemonStatus` are
the callbacks of the work queue; `Push` is `maybePushDaemonsUpdate`, part of
both sync actions. `ReceiveUpdate` and `LoopEnds` are the two cases of the
update loop's select; `Cancel`, `Stop`, `KillCancelled` and `Crash` the ways a
daemon ends; `RemoveStale` is the controller's periodic `sync`.

### Modelling decisions

* The API server's optimistic concurrency is the set `fresh`: a write succeeds
  only from the current version, and makes every other copy old. A refused write
  changes nothing and is retried, so it is no step. `UpdateLost` is a write that
  is applied and whose answer does not arrive.
* The controller writes from a copy too. It reads nothing else from it, so its
  action is the attempt that succeeds, on the current object; what it decides
  from is its cache of the pods, which may be behind. A cleanup that hits a live
  pod counts as a fault, to bound how often it happens.
* The daemon's informer of its own pod resyncs every few minutes, and its
  callback reads the readiness anew: `UpdateDaemonStatus` may occur whenever the
  listed readiness differs. A callback that acts on the previous readiness is
  the same action before the change.
* `place` is the position in the list: of two entries with one IP the later one
  decides the name (`Last`).
* With the gate on, `cleanupClique` gets the daemon pods of *all* domains
  (`daemonsetpods.go:44`, `cdstatus.go:144`) and compares node names: it keeps an
  entry as long as any domain has a daemon on the node. `DeliverOthers` lets
  such pods come and go, at any time and without a bound, on `SharedNodes`. With
  the gate off, `getNonStaleFabricNodes` keeps an entry as long as any pod of the
  domain has its IP. Such entries (`Mistaken`) are the exception in both liveness
  properties, and only while they are mistaken.
* Owner references, garbage collection of the clique, nodes without a clique
  and the life of the IMEX child are left out.

### Runs

| Run | Instance | Shows |
|---|---|---|
| `membership` | 2 nodes, both shared with other domains, 2 IPs, 2 indices, both objects, 2 pods, 2 starts, 1 fault | unique indices, stable names, a daemon at rest has configured exactly its peers |
| `membership_live` | the same with 1 index for 2 nodes, fairness | a running daemon is listed with its readiness in the end; nothing stays of a pod that is gone, unless it is taken for another's |

Two daemons meet in every race of writes, since a write names one winner. Two pods
of one node (with the same IP or another), or one of each, are what it takes for
an entry to be left behind and found again. One fault is a crash, a lost
answer, a probe that fails later, or a premature cleanup. A cluster at rest does
nothing, so deadlock is not checked. *Fairness* is weak and per daemon:
goroutines run, informers deliver, the kubelet restarts containers and ends
grace periods, the controller's sync is periodic. Nobody has to create or delete
a pod, to signal, or to pass a probe. A blocked worker at shutdown is reached
(`LoopEnds` before `ReceiveUpdate`): such a daemon never runs `Stop`, and
`NothingAbandoned` holds because of the kill and the controller.

### Observations

Only the sets of IPs are compared before an update is pushed (`cdclique.go:418`). A
daemon that is removed by a controller whose pod cache is behind and that inserts
itself again gets the lowest free index, which may be another one, with the same
IP: no daemon whose set of IPs stays the same rewrites its hosts file, although
the comment at `cdclique.go:337` promises a consistent mapping on all machines. What does hold is
`PeersKnown`: the set of peers is right, only the names may differ. With the gate
off, an entry of a pod that is gone stays as long as any pod has its IP
(`cdstatus.go:346`). With the gate on, it stays as long as a daemon of another
ComputeDomain runs on the node (`cdstatus.go:290`), for instance when the node was
given to the next domain before the controller's sync: the entry keeps its index,
which a new daemon may then lack (`Capacity`), and is copied into the status of the
ComputeDomain. Both are `Mistaken`; without that exception TLC refutes both
liveness properties of `membership_live`.

### Proofs

`CliqueMembershipProofs.tla` proves, for any number of nodes, cliques, IPs, pods,
starts and faults, from `MembershipAssumption`: `TypeCorrect`,
`IndicesAreUnique`, `PeersAreKnown` and `NamesAreStable`. The inductive
invariant `Inv` consists of

* `CopiesCurrent`: who is in `fresh` has the object as his copy, the fact that
  turns a choice from a copy into a choice from the object, and on which
  uniqueness rests;
* `PodsDistinct`: two pods do not share an IP, so that a daemon's `Stop`, which
  removes entries by IP, does not take a running daemon's entry;
* `Received`: outside a send, `config` has the IPs of `previous`;
* `Handled`: a daemon without a pending "sync" has `previous` in agreement with
  its copy, as far as the push is not withheld (`Complete`).

`DaemonListed` and `NothingAbandoned` are liveness properties and are
model-checked only.

## 7. IMEX process manager

`ProcessManager.tla` models `process.go` with the two goroutines that use it: the
update loop (either of `main.go`'s, chosen by `mode`) and the watchdog. It is what
the action `ReceiveUpdate` of `CliqueMembership` does with the child.

| Variable | Code |
|---|---|
| `handle`, `result` | `m.handle`; `waitResChan`, which holds one result |
| `lock`, `pc` | the mutex, by holder; where each goroutine is |
| `child` | a child: running, exited (a zombie, which still takes signals), waited (its `Wait` has returned), gone (its result is in the channel) |
| `signalled`, `cancelled` | children that got SIGTERM; the context |
| `config`, `knows` | number of the last list written, and of the list each child acts on |

The mutex is held within `start`, `stop` and `Signal`; `start` is one step, the
others are a check (`CheckHandle`) and a use of the handle, because the watchdog's
`wait` resets the handle without the mutex. `Restart` and `EnsureStarted` look at
the handle without it and are steps of their own. The channel receive and the
reset of the handle in `wait` are one step: in between, everyone else sees a
handle whose child cannot be signalled, as before it. Left out: a daemon without
a clique, which starts no child, and the ticker's period.

| Run | Instance | Shows |
|---|---|---|
| `process_manager` | 3 updates, 2 faults, both loops, fairness | one child at most and the handle is it; the watchdog's wait does not block; a child acts on the last list when the loop is idle; a lost child is replaced unless the daemon shuts down; shutdown ends |

Three updates start, replace and replace again; two faults let a replacement die
or fail too. The daemon stops at shutdown, so deadlock is not checked.
*Fairness:* goroutines run, a child that got SIGTERM ends (the code has no
time-out; without it Kubernetes kills the container), and Go's random `select`
does not pass over the end of the context for ever.

The model shows, without runs of their own: when an update arrives between the
death of a child and the watchdog's tick, `stop` gets `os.ErrProcessDone` and the
daemon shuts down instead of restarting the child, although `process.go:165` says
that unexpected termination is handled "by restarting the process"; the
watchdog's `wait` may reset the handle between check and use, a nil-pointer
panic (`Panics`); and a child started while the watchdog's last `stop` has
already failed with "not started" is left to die with the container.

*Proofs* (`ProcessManagerProofs.tla`, from `ProcessAssumption`, any number of
updates and faults): `TypeCorrect`, `OneChildAtMost`, `WaitNeverBlocks`,
`ChildIsInformed`, `NobodyWaitsInVain`. `Inv` adds `MutexHeld` (who is within stop or Signal has the
mutex), `ResultOfHandle` (a result in the channel is the handle's child's, and
that child is gone, so a stop that could be tempted to wait for it fails at the
signal), `OnlyReader` (while the watchdog is between lost and wait no stop is
waiting) and `Informed` (`ChildInformed` also after a list that changed nothing,
where the child is not signalled). `NobodyWaitsInVain` says that the mutex is never
left behind (`MutexInUse`) and that a stop, which waits with the mutex held, waits for
a result that is there or for a child that was told to end (`StopAwaited`).
`ChildReplaced` and `ShutdownCompletes`, which need fairness on top of it, are
model-checked only.

## 8. GPU kubelet plugin: claims, MIG, passthrough, sharing

`GpuLifecycle.tla` models one node with the process that serves it. It has the
requests of section 3 on other devices: a device is a GPU, a MIG device that is
created for a claim (`DynamicMIG`), or a GPU for passthrough; a deployment has one
of the sets of feature gates that `ValidateFeatureGates` accepts.

| Variable | Code |
|---|---|
| `checkpoint`, `specs` | claims in the checkpoint (PrepareStarted, PrepareCompleted); CDI spec files |
| `inst`, `gi`, `mig` | NVML: a GPU instance with or without its compute instance, its id (`GIID`), GPUs in MIG mode |
| `recorded` | the ids in the checkpoint (`MigLiveTuple` of a completed claim's devices) |
| `recycled` | history: claims one of whose devices was given an id that a completed claim still had on record |
| `known` | `GpuInfo.migEnabled`, read when the process starts |
| `driver` | the kernel driver a GPU is bound to |
| `daemons`, `mode`, `slice` | MPS deployments, compute mode and time slice of GPUs |
| `alloc`, `published` | `perGPUAllocatable`; the devices of the ResourceSlices |
| `lock`, `pc`, `work`, `todo`, `up` | `pu.lock`; where each goroutine is, its claim and the devices its loop has left; the process |
| `object`, `kubelet` | ResourceClaims; what the kubelet last heard |

Prepare is `PrepareCheck` (with the roll-back of a started attempt,
`unpreparePartiallyPrepairedClaim`, device by device: `DestroyComputeInstance`,
`DestroyGpuInstance`, `DeleteDone`), `PrepareStarted`, `ConfigureVfio` and
`BindVfio` or `ApplySharing`, `CreateDeployment` and `AssertReady`,
`CreateGpuInstance` and `CreateComputeInstance`, `Created`,
`CreateClaimSpecFile`, `PrepareCompleted`, `PrepareReturns`; Unprepare is
`UnprepareFind`, `UnconfigureVfio` and `BindNvidia`, `UnprepareDevices`,
`StopDaemon`, `DefaultTimeSlice`, `DiscoverSiblings`, `DeleteClaimSpecFile`,
`DeleteClaimFromCheckpoint`, `UnprepareReturns`. `Start`, the deletions of
`DestroyUnknownMIGDevices` and `NewDriver` are the start of a process; `Cleanup`
and `UnprepareIfStale` the cleanup of stale claims. Failures of calls and the end
of the process after any step are `...Fails` and `Crash`.

*Decisions.* The file lock is held for the whole of a request, so the two halves
of `updateCheckpoint` are one step here; what section 3 shows of two processes is
not repeated. NVML refuses an occupied placement (`Occupied`) and refuses to leave
MIG mode while there are instances. It gives a new instance any id that no instance
of the GPU has, also one given before. `deleteMigDevice` goes by ids: those of the
device it has just looked up for a roll-back and at the start of a process, those of
the checkpoint for the Unprepare of a completed claim, where the comparison of UUIDs
is commented out (`GetGpuInstanceById`; `nvlib.go:1060`). A compute instance is the
only one of its GPU instance and has no id of its own. The scheduler may give one device to two
claims, as the code's comments expect.

| Run | Instance | Shows |
|---|---|---|
| `gpu` | 1 GPU, as a whole, for passthrough and with 3 placements of which two overlap; a behaviour has either 3 claims on MIG devices (one for two placements, one for one of the same, one for the overlapping one) or 3 on the GPU (one with MPS, one with a long time slice, one for passthrough); 3 ids; 1 request, the cleanup; 1 fault; 4 gate sets of which one is refused | a held claim keeps its driver, its CDI spec and its MIG devices (but see below); it keeps its MPS daemon or time slice and nobody changes its GPU's mode; a visible MIG device belongs to a claim of the checkpoint; `ClaimLedger` is implemented |

One request and the cleaner are enough, since the lock admits one; one fault
leaves each intermediate state behind for the next request or process, and the
theorems below hold for any number. The two kinds of claims are kept apart
(`Workloads`), since those of one kind contend with each other and hardly with the
other kind. Three ids are as many as there can be instances, so each may be given
again or left alone; they are told apart only by equality, and the run uses that
symmetry. Deadlock is checked.

*Recycled ids.* The Unprepare of a claim destroys its GPU instance and then fails,
so the claim stays in the checkpoint with the id of a device that is gone. Before
the kubelet retries, another claim whose placement is free now is prepared, and
NVML gives its instance the same id. The retry finds that instance and destroys it,
in use. The comment on `MigLiveTuple` (`mig.go:57`) describes this and introduces
the UUID for it. The run reaches this case, and without the conjunct
`c \notin recycled` TLC refutes `DevicesKept` on it. `DevicesKept` says, and
`HeldDevicesAreKept` proves, that this is the only way: a claim outside `recycled`
keeps its devices.

*Observations*, without runs of their own:

* a GPU instance whose compute instance failed to be created is not listed by
  NVML as a MIG device: nothing finds it again, and its placement stays occupied
  (`Visible`; `nvlib.go:664`);
* the retry of a Prepare with MPS finds the Deployment and returns before
  the compute mode is set (`CreateDeployment`; `sharing.go:214`);
* `maybeDisableMigMode` trusts `migEnabled` of the start of the process; only
  NVML's refusal keeps another claim's devices (`MigAfter`; `nvlib.go:1114`);
* a claim that stays in PrepareStarted is rolled back for MIG devices only: a GPU
  bound to vfio-pci, an MPS daemon or a time slice stays;
* once the unbinding of a GPU succeeded and the binding failed, `getDriver` is an
  error for every later attempt (`ConfigureVfio`, `UnconfigureVfio`);
* siblings of a passthrough device are hidden in memory only: the slices of a new
  process show them again until the next Prepare (`WithoutSiblings`);
* an admin claim sets the time slice of GPUs that others hold, and a MIG device it
  names is destroyed with it (`Undisturbed`, the exception of `DevicesKept` and
  `SharingKept`); the device may be created again under another id than the one on
  record, which the Unprepare of the other claim then does not find (`NoAdmin`, the
  exception of `MigTracked`).

### Proofs

`GpuLifecycleProofs.tla`, for any sets of handlers, cleaners, claims, GPUs and
devices, any feature gates and any number of faults: `TypeCorrect`,
`HeldDevicesAreKept`, `MigDevicesAreTracked`, `SharingIsKept`, `ImplementsLedger`
and `LockHolderGoesOn`. `ConstantsAssumption` and `WorkloadsAssumption` say that the sets fit together and that
a GPU is one device and one passthrough device, as `GetPerGpuAllocatableDevices`
and `enumerateGpuVfioDevices` make them; MIG devices may overlap in any way.

`Inv` adds to the properties

* `Control`: requests run after `NewDriver` has published, and only the lock
  holder is between `Acquire` and its answer;
* `Requests`: an Unprepare is that of the kubelet, which has no other request for
  the claim, or a cleaner's for a claim that is deleted;
* `Progress`: what each position in Prepare and Unprepare has established of the
  devices of the claim: that no completed claim overlaps *still*, which devices
  are bound, created or deleted, that the loop's rest (`todo`) holds nothing of
  another completed claim;
* `MigGated`: instances exist with dynamic MIG only;
* `Identified`, `RecordAgrees`: two instances of a GPU have different ids, and a
  completed claim's device, while it exists and no admin claim names it, has the id
  on record;
* `Exclusive`, `Answered`, `GrantKept`: completed claims do not conflict, what the
  kubelet was told stands, and a completed claim that nobody unprepares has all it
  was granted;
* `MigKept`: if that claim is not in `recycled`, its MIG devices exist and no other
  completed claim has one of their ids on record (`Unshadowed`); `MigCreating` is the
  same of a claim whose devices are being created.

The argument: whatever a step does to a device, GPU, daemon or time slice, it does
for the claim of the lock holder. That claim is not settled (`SettledIsOther`,
`DeletedIsUnused`) and does not conflict with one that is, so the two share no
device and, since a GPU is one device, no driver or time slice either (`Apart`).
A deletion by id does not reach a settled claim's device either, as long as no
other completed claim has its id on record. That can begin in two ways only: the
claim was given such an id, and then it is in `recycled`; or another claim records
one when it completes, and that is the id of its own device, which exists
(`Identified`). For `MigTracked`, `RecordAgrees` is needed: a claim leaves the
checkpoint after a search by id, which must not miss a device that exists.
An admin claim is outside the overlap check, which is why `Undisturbed` is needed
and not only convenient. The refinement maps the ledger's claims to the completed
ones; only three steps write the checkpoint (`WhoRecords`).

`LockHolderGoesOn` is about the lock that every request of the node waits for: it is
held only by a request under way (`LockInUse`), and between two calls that belong
together (unbind and bind, GPU instance and compute instance) that request finds
what it left (`Resumable`), so its next call has something to work on.

## 9. GPU kubelet plugin: device health

`DeviceHealth.tla`: the goroutine of `RunPlugin` (`boot`: registration of the
GPUs for events, start of monitor and consumer, the first `publishResources`,
shutdown), the monitor (`MonitorSelect`, `WaitTimeout`, `WaitXid`,
`WaitGpuLost`, `SendXid`), the channel `unhealthy` with one place per device, and
`deviceHealthEvents` (`Receive`, `PublishTaints`, `ConsumerEnds`). `reported`
is history: the taints that the events which were not dropped call for.

| Run | Instance | Shows |
|---|---|---|
| `health` | 2 GPUs with a device each, a fatal and a skipped XID, 3 events, 1 failed call, fairness | the slice has the taints of the latest events when nothing is on its way; what was reported is applied; shutdown ends |

Three events fill the channel and block the monitor while the consumer publishes.
The plugin stops, so deadlock is not checked. *Fairness:* the three goroutines run,
and the wait for NVML has a time-out of 5 s; nothing is assumed of events,
failures or the end of the context.

*Observations*: the first publication of `NewDriver` has no taints and may come
after one of the consumer; a failed publication is not repeated until the next
change; a "gpu-lost" that finds the channel full is dropped; an XID that is not
fatal replaces the taint of a fatal one; taints are gone after a restart; and at
shutdown the consumer may leave while the monitor is blocked on a full channel,
and `Stop` waits for ever (`BlockedForever`).

### Proofs

`DeviceProofs.tla` (part 1), for any GPUs, devices, XIDs and bounds: `TypeCorrect`;
`LatestIsPublished` (the invariant of the run); and `NoneDroppedAtStart`: the
non-blocking sends of the registration never find the channel full, because a
place is left for each GPU still to be registered (`Room`). `Inv` consists of the
type, `Phases` (the order in which the three goroutines start), `Room`, `Latest`
and `SliceCurrent` (the last publication of the consumer has its taints).
`Latest` is the heart: for each device and kind of event, the taint that the
events call for is the one of the last message for it that the monitor holds or
the channel has, and the consumer's own if there is none; so a message can neither
be lost nor overtake another between the monitor's send and `Receive`.

## 10. Compute-domain controller

`DomainController.tla`: one ComputeDomain, its workload template, its DaemonSet
and that one's template, with their finalizers, at the API server (`cd`,
`server`, `label`) and in the leader's informer (`cdCache`, `cache`) and mutation
caches (`mutation`). A goroutine (`Threads`: the work queue's handler and a
cleanup worker per kind of object) has a list of calls left (`todo`): `Teardown`,
`Setup` and `CleanupCalls` are the bodies of `onAddOrUpdate` and of the cleanup
callbacks as sequences of calls, and each call is an action that reads what the
code reads: `Find`, `Delete`, `Release`, `Lookup` and `Create` the mutation cache,
`AssertRemoved` the informer, `RemoveLabels` the API server. An error ends the
list (`Return`) and the queue has the domain again (`Handle`).

*Decisions.* A resource version per object decides between informer and mutation
cache, and whether an update is refused. A failed call (`CallFails`) has no
effect; a creation may also have its effect without an answer, at once or later
(`CreateUnanswered`, `CreateLate`). Lost leases and ends of the process are one
action; two leaders do not overlap. Only one namespace is modelled, in which
`MultiNamespaceDaemonSetManager` is its only member. The finalizer of the domain
is the state "live"; status updates are left out, because the handler reads
nothing from them.

| Run | Instance | Shows |
|---|---|---|
| `domain` | 1 domain, 1 fault, 1 change of leader, 1 label, fairness | the domain goes last; objects of a live domain are never deleted; a deleted domain goes; nothing is left; a domain that stays gets its objects |

One domain is enough: every lookup is by its UID. A cluster at rest does nothing,
so deadlock is not checked. *Fairness:* goroutines run, the informer resyncs and
delivers, the cleanups are periodic (10 minutes), and there is a leader again.

*Observation.* `DaemonSetManager.Delete` returns when it finds no DaemonSet. If setup
ended between the template and the DaemonSet and the domain is then deleted, the
template is never deleted, its `RemoveFinalizer` is an error, and the domain stays
in deletion (`Stuck`, the exception of `DomainRemoved`): its cleanup worker only
takes objects whose domain is gone.

### Proofs

`DomainControllerProofs.tla`, for any number of faults, changes of the leader and
labels: `TypeCorrect`, `ObjectsAreKept`, `DomainGoesLast`. `Inv` has four groups:

* of the lists of calls: `Lists` (a `find` or `lookup` is followed by the calls it
  may skip, a `finalize` is last and in no list that creates; a cleanup worker only
  finds, deletes and releases);
* of the domain: `Lag` (the cached domain is an earlier state; one that is cached
  as live is not gone, since the finalizer is removed by a handler that has seen
  the deletion), `Unseen` and `NewIsEmpty` (no object before a process has seen the
  domain, or before it has its finalizer), `NoCreation` (for a domain that is new
  or gone a creation is behind an `addFinalizer`, which fails or makes it live);
* of deletions: `Deletions`, `Kept` (a list with a deletion is for a domain that
  is deleted; so `ObjectsKept`);
* of the caches: `CacheBehind`, `Known`, `Down`, `Order`. `Known` says why it is sound
  to release an object that one does not see: an object that exists and whose creation
  was answered is in the mutation cache with a version newer than the informer's,
  or in the informer, so `View` shows it (`Sees`). Hence an object is gone when the
  handler is past its `release` (`Order`), and all of them are when `finalize` is
  the only call left. `AssertRemoved` is not needed for this; it guards objects in
  `lost`, of which nothing is claimed.

A step of a goroutine is the rest of its list (`Left`, from `Rest` on `SubSeq`)
and an effect on one object (`ObjectEffect`) and on the domain (`DomainEffect`);
each part of `Inv` is then preserved by one lemma with one step per kind of
action.

## 11. Device configs

`DeviceConfig.tla`: the entries of a claim (`AddConfig`), the webhook
(`AdmitResourceClaimParameters`), and the plugin's choice and use of them
(`PrepareDevices`), for the GPU and the compute-domain driver. The operators are
the code's functions: `GetOpaqueDeviceConfigs`, `Normalize` and `Validate` of
each type, `LimitOptions` for the pinned memory limits. A Go loop that appends some
elements of a list to another is `Filter`; `Selection` is the config that the scan
from the end of `Configs` finds for each result. The order in which the configs of a
claim are applied is that of a Go map: `outcome` is any of the `Verdicts`. A config
is a record of the fields the code tests (`IsConfig`); a device is the rank of its
UUID, in `1..MaxDevice`.

| Run | Instance | Shows |
|---|---|---|
| `config` | claims of 2 GPUs and a MIG device, of a passthrough device, of a channel and a daemon; up to 3 entries of 41; 4 gate sets, one of which no plugin starts with | the strongest config meant for a device is used; what the webhook admits is prepared; limits reach the devices they name |

Three entries are a class entry between two of the claim, or the reverse, for all or for one
request. A claim that was judged is the end of a behaviour, so deadlock is not
checked. The second property has a precondition, `Consistent`, for what the
webhook cannot see or does not look at:

* it skips entries of classes, entries that are not opaque, and entries of other
  drivers (its `DriverName` is `gpu.nvidia.com`: the compute-domain types it
  knows are reviewed only when they are addressed to the GPU driver);
* `GpuSharing.Validate` ignores the settings of the strategy that was not chosen,
  for which Prepare refuses the claim; memory limits are only judged on the node;
* it does not know which requests are for devices of which type.

Further observations: it refuses `VfioDeviceConfig`, which Prepare supports; a
`timeSlicingConfig` without interval makes `Validate` dereference nil, in the
webhook (where the chart's failure policy then denies) and in the plugin; an
index and a UUID of one device leave either limit, by the order of a Go map; the
default configs of the compute-domain plugin have no domain and are always
refused.

### Proofs

`DeviceProofs.tla` (part 2) proves the three properties of the run, for any entries,
any number of them, any allocations, devices and sets of gates, from
`ConfigAssumption` (entries and results have the shape the API server stores):
`PrecedenceHolds`, `AdmittedPreparesHolds`, `LimitsOverrideHolds`. `ConfigInv` is the
three and `Submitted` (the entries are entries), `Control` (a claim is prepared once,
after its review) and `Passed` (the webhook found nothing in a claim it let
through).

The model has one step that matters, so the argument is about what the operators
compute. The loops are recursive functions, and what they return is shown by
induction: `Induct` has the set of the numbers in question as its parameter, not a
predicate, and follows from the least element of a set of naturals (`LeastNat`, from
`NatLessThanWellFounded`). With it

* `FilterKept` and `FilterAscends`: a loop keeps exactly the elements of the set, in
  their order; so the list of candidates is ascending in strength
  (`CandidatesRanked`) and the scan from its end finds the strongest
  (`ScanFindsLast`, `StrongestSelected`);
* `IndexIsRank`: the place of a device in the sorted UUIDs is the number of the
  smaller ones the config is applied to; so an index names one device
  (`KeysOfDevice`, `LimitsOfDevice`);
* `AdmittedAccepted`, `DefaultPrepares`, `PlainApplies`: what the webhook's `Validate`
  accepted, and each default, passes the plugin's checks too.

## 12. What is proved and what is model-checked

Theorems (sections 3 to 11) hold for every value of the constants that satisfies
the named assumptions, which TLC evaluates in the runs. Every invariant, action
property of safety and refinement that a run checks is a theorem; each inductive
invariant was checked by TLC on the run's instance before it was proved.

Only model-checked is liveness under fairness (`StaleStartedResolved`,
`CodependentPrepares`, `NewestReconciled`, `RunReturns`, `NoClaimForgotten`,
`DaemonListed`, `NothingAbandoned`, `ChildReplaced`, `ShutdownCompletes`,
`ReportedApplied`, `ShutdownEnds`, `DomainRemoved`, `NothingLeft`,
`DomainProvisioned`), which is out of the prover's reach. What some of them need of
the state, that nobody waits for what will not come, is proved on its own:
`NobodyWaitsInVain` (sections 3 and 7), `NoClaimDropped`, `LockHolderGoesOn`. These
are no properties of a run; TLC agreed with each on the run's instance.

## 13. Not modelled

* Hardware enumeration of the compute-domain plugin (`/proc`, NVML), its gRPC
  liveness probe, container edits, environment variables, flags, metrics and build
  information: pure I/O or data without a state that evolves. Of the GPU plugin's
  enumeration only which devices it finds is modelled.
* The status that the compute-domain controller aggregates (`updateGlobalStatus`,
  `cdstatus.go` beyond the removal of stale entries), additional namespaces, and a
  leader that goes on after its lease has passed to another.
* Two GPU plugin processes at once: `DestroyUnknownMIGDevices` of a starting
  process takes no lock.
* The conversion between checkpoint versions, beyond the two kinds of old entries of
  section 3.
* Generated clients and deep copies, vendored code, charts and scripts.
