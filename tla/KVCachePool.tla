----------------------------- MODULE KVCachePool -----------------------------
(***************************************************************************)
(* KV-cache pools: the ClaimReconciler binds ResourceClaims to KVCachePool *)
(* objects (match or provision), the PoolReconciler guards the pools with  *)
(* a finalizer, and the kubelet plugin of a node injects the endpoint of a *)
(* claim's pool into its pods.                                             *)
(*                                                                         *)
(* The controller runs in several replicas of which one is the leader; a   *)
(* replica that lost the lease may still finish the call it is in.  Each   *)
(* replica reads claims and pools from its own informer cache, which lags; *)
(* it writes to the API server.  The plugin reads from the API server.     *)
(*                                                                         *)
(* A config is abstracted to its explicit pool name, its compatibility key *)
(* (engine, model family, dtype, block size and latency tier as one value) *)
(* and whether Validate accepts it; the capacity decides nothing.          *)
(***************************************************************************)
EXTENDS Naturals, Sequences

CONSTANTS
  Replicas,        \* controller replicas
  FirstLeaders,    \* the replicas that may get the lease first
  Handlers,        \* request goroutines of the kubelet plugin
  Claims,          \* ResourceClaims
  Names,           \* KVCachePool names
  Keys,            \* values of the five compatibility fields
  NameOf,          \* [Keys -> Names], deterministicPoolName
  SpecConfigs,     \* [Claims -> Seq(Configs)], in the claim's spec
  ClassConfigs,    \* [Claims -> Seq(Configs)], from its device class
  AdminPools,      \* pools an administrator makes: pairs of name and key
  DeletableClaims, \* claims users may delete
  DeletablePools,  \* names of the pools users may delete
  ReadyPools,      \* names of the pools that somebody brings up
  MaxFaults,       \* bound on failed calls and changes of the leader
  None,            \* no name, no config, no pool, no replica
  Gone             \* a claim that was deleted, as a cache sees it

Configs == [pool : Names \cup {None}, key : Keys, valid : BOOLEAN]

Pools == [key : Keys, finalizer : BOOLEAN, deleting : BOOLEAN, ready : BOOLEAN]

ASSUME PoolAssumption ==
  /\ FirstLeaders \subseteq Replicas
  /\ NameOf \in [Keys -> Names]
  /\ \A j, k \in Keys : NameOf[j] = NameOf[k] => j = k
  /\ SpecConfigs \in [Claims -> Seq(Configs)]
  /\ ClassConfigs \in [Claims -> Seq(Configs)]
  /\ AdminPools \subseteq Names \X Keys
  /\ DeletableClaims \subseteq Claims
  /\ DeletablePools \cup ReadyPools \subseteq Names
  /\ MaxFaults \in Nat
  /\ None \notin Names \cup Keys \cup Configs \cup Pools
  /\ None \notin Claims \cup Handlers
  /\ Gone \notin Names \cup {None}
  /\ Replicas \cap Handlers = {}

VARIABLES
  live,      \* claims that exist
  binding,   \* [Claims -> Names \cup {None}] the pool annotation
  pools,     \* [Names -> Pools \cup {None}] the KVCachePool objects
  leader,    \* the replica that has the lease
  queued,    \* claims in the leader's work queue
  seen,      \* [Replicas -> [Claims -> ...]] cached annotations
  cached,    \* [Replicas -> [Names -> Keys \cup {None}]] cached pools
  pc,        \* [Replicas \cup Handlers -> ...]
  arg,       \* [Replicas \cup Handlers -> Claims \cup {None}]
  found,     \* [Handlers -> ...] the pool name resolved, the pool read
  lock,      \* the plugin's pu.lock: a handler or None
  cdi,       \* [Claims -> ...] the pool in the claim's CDI spec file
  kubelet,   \* [Claims -> ...] what the kubelet last heard of a claim
  faults

Workers == Replicas \cup Handlers

ReconcileSteps == {"getPool", "createPool", "regetPool", "patch"}
PluginSteps    == {"pLock", "getReady", "writeSpec", "uLock", "removeSpec"}

api    == <<live, binding, pools>>
caches == <<seen, cached>>
plugin == <<found, lock, cdi, kubelet>>
vars   == <<api, leader, queued, caches, pc, arg, plugin, faults>>

TypeOK ==
  /\ live \subseteq Claims
  /\ binding \in [Claims -> Names \cup {None}]
  /\ pools \in [Names -> Pools \cup {None}]
  /\ leader \in Replicas
  /\ queued \subseteq Claims
  /\ seen \in [Replicas -> [Claims -> Names \cup {None, Gone}]]
  /\ cached \in [Replicas -> [Names -> Keys \cup {None}]]
  /\ pc \in [Workers -> ReconcileSteps \cup PluginSteps \cup {"idle"}]
  /\ arg \in [Workers -> Claims \cup {None}]
  /\ found \in [Handlers -> [name : Names \cup {None}, key : Keys \cup {None}]]
  /\ lock \in Handlers \cup {None}
  /\ cdi \in [Claims -> [name : Names, key : Keys] \cup {None}]
  /\ kubelet \in [Claims -> {"none", "busy", "prepared", "failed"}]
  /\ faults \in 0 .. MaxFaults

NothingFound == [name |-> None, key |-> None]

Init ==
  /\ live = Claims
  /\ binding = [c \in Claims |-> None]
  /\ pools = [n \in Names |-> None]
  /\ leader \in FirstLeaders
  /\ queued = Claims
  /\ seen = [r \in Replicas |-> [c \in Claims |-> None]]
  /\ cached = [r \in Replicas |-> [n \in Names |-> None]]
  /\ pc = [w \in Workers |-> "idle"]
  /\ arg = [w \in Workers |-> None]
  /\ found = [h \in Handlers |-> NothingFound]
  /\ lock = None
  /\ cdi = [c \in Claims |-> None]
  /\ kubelet = [c \in Claims |-> "none"]
  /\ faults = 0

Goto(w, step) == pc' = [pc EXCEPT ![w] = step]

Fault ==
  /\ faults < MaxFaults
  /\ faults' = faults + 1

-----------------------------------------------------------------------------
(* The configuration of a claim.                                           *)

(***************************************************************************)
(* decodeKVCachePoolConfig: "later entries win".                           *)
(***************************************************************************)
DecodeKVCachePoolConfig(c) ==
  IF SpecConfigs[c] = <<>> THEN None ELSE SpecConfigs[c][Len(SpecConfigs[c])]

(***************************************************************************)
(* Serviceable: there is a config for this driver, and it is valid.        *)
(***************************************************************************)
Serviceable(c) ==
  IF SpecConfigs[c] = <<>> THEN FALSE ELSE DecodeKVCachePoolConfig(c).valid

\* Faulty variant: a name nobody has used yet.
FreshPoolName(c) ==
  LET free == {n \in Names : pools[n] = None} IN
  IF free = {} THEN NameOf[DecodeKVCachePoolConfig(c).key]
  ELSE CHOOSE n \in free : TRUE

(***************************************************************************)
(* matchOrProvision: the explicit name or the one made from the key.       *)
(***************************************************************************)
PoolName(c) ==
  LET cfg == DecodeKVCachePoolConfig(c) IN
  IF cfg.pool # None THEN cfg.pool ELSE NameOf[cfg.key]

ClaimKey(c) == DecodeKVCachePoolConfig(c).key

(***************************************************************************)
(* GetOpaqueDeviceConfigs lists the configs of the class, then those of    *)
(* the claim, "from lowest to highest" precedence; prepareDevices takes    *)
(* the first.                                                              *)
(***************************************************************************)
GetOpaqueDeviceConfigs(c) == ClassConfigs[c] \o SpecConfigs[c]

PluginConfig(c) ==
  LET configs == GetOpaqueDeviceConfigs(c) IN
  IF configs = <<>> THEN None ELSE configs[1]

\* Faulty variant: the controller's annotation is not waited for.
NameFromKey(cfg, annotation) == NameOf[cfg.key]

(***************************************************************************)
(* ResolvedPoolName: the explicit name, else the controller's annotation.  *)
(***************************************************************************)
ResolvedPoolName(cfg, annotation) ==
  IF cfg.pool # None THEN cfg.pool ELSE annotation

-----------------------------------------------------------------------------
(* ClaimReconciler.                                                        *)

(***************************************************************************)
(* The call ends; on an error the leader's queue gets the claim again.     *)
(***************************************************************************)
Finish(r, again) ==
  /\ Goto(r, "idle")
  /\ arg' = [arg EXCEPT ![r] = None]
  /\ queued' = IF again /\ leader = r THEN queued \cup {arg[r]} ELSE queued

(***************************************************************************)
(* Reconcile up to its first use of a pool.  A claim that is gone, that    *)
(* has no config for this driver or is bound already needs nothing; an     *)
(* invalid config is a TerminalError.                                      *)
(***************************************************************************)
Reconcile(r, c) ==
  /\ leader = r
  /\ pc[r] = "idle"
  /\ c \in queued
  /\ queued' = queued \ {c}
  /\ \/ /\ Serviceable(c)
        /\ seen[r][c] = None
        /\ Goto(r, "getPool")
        /\ arg' = [arg EXCEPT ![r] = c]
     \/ /\ ~ Serviceable(c) \/ seen[r][c] # None
        /\ UNCHANGED <<pc, arg>>
  /\ UNCHANGED <<api, leader, caches, plugin, faults>>

\* Faulty variant: any pool of the name will do.
UseAnyPool(r) ==
  /\ Goto(r, "patch")
  /\ UNCHANGED <<arg, queued>>

(***************************************************************************)
(* poolMatchesConfig on a cached pool: go on, or a TerminalError.          *)
(***************************************************************************)
UseCachedPool(r) ==
  LET c == arg[r] IN
  \/ /\ cached[r][PoolName(c)] = ClaimKey(c)
     /\ Goto(r, "patch")
     /\ UNCHANGED <<arg, queued>>
  \/ /\ cached[r][PoolName(c)] \notin {None, ClaimKey(c)}
     /\ Finish(r, FALSE)

GetPool(r) ==
  LET c == arg[r] IN
  /\ pc[r] = "getPool"
  /\ \/ /\ cached[r][PoolName(c)] # None
        /\ UseCachedPool(r)
     \/ /\ cached[r][PoolName(c)] = None
        /\ Goto(r, "createPool")
        /\ UNCHANGED <<arg, queued>>
  /\ UNCHANGED <<api, leader, caches, plugin, faults>>

NewPool(k) == [key |-> k, finalizer |-> FALSE, deleting |-> FALSE,
               ready |-> FALSE]

\* Faulty variant: a lost race is a failure for good.
CreatePoolOnce(r) ==
  LET n == PoolName(arg[r]) IN
  /\ pc[r] = "createPool"
  /\ \/ /\ pools[n] = None
        /\ pools' = [pools EXCEPT ![n] = NewPool(ClaimKey(arg[r]))]
        /\ Goto(r, "patch")
        /\ UNCHANGED <<arg, queued>>
     \/ /\ pools[n] # None
        /\ Finish(r, FALSE)
        /\ UNCHANGED pools
  /\ UNCHANGED <<live, binding, leader, caches, plugin, faults>>

(***************************************************************************)
(* Create, which fails with AlreadyExists if another call was faster or    *)
(* the cache was behind.                                                   *)
(***************************************************************************)
CreatePool(r) ==
  LET n == PoolName(arg[r]) IN
  /\ pc[r] = "createPool"
  /\ \/ /\ pools[n] = None
        /\ pools' = [pools EXCEPT ![n] = NewPool(ClaimKey(arg[r]))]
        /\ Goto(r, "patch")
     \/ /\ pools[n] # None
        /\ Goto(r, "regetPool")
        /\ UNCHANGED pools
  /\ UNCHANGED <<live, binding, leader, queued, caches, arg, plugin, faults>>

(***************************************************************************)
(* Get again, from the same cache, which may still be behind.              *)
(***************************************************************************)
RegetPool(r) ==
  /\ pc[r] = "regetPool"
  /\ \/ /\ cached[r][PoolName(arg[r])] # None
        /\ UseCachedPool(r)
     \/ /\ cached[r][PoolName(arg[r])] = None
        /\ Finish(r, TRUE)
  /\ UNCHANGED <<api, leader, caches, plugin, faults>>

(***************************************************************************)
(* The merge patch of the annotation carries no resourceVersion; it fails  *)
(* only if the claim is gone.                                              *)
(***************************************************************************)
PatchClaim(r) ==
  LET c == arg[r] IN
  /\ pc[r] = "patch"
  /\ \/ /\ c \in live
        /\ binding' = [binding EXCEPT ![c] = PoolName(c)]
        /\ Finish(r, FALSE)
     \/ /\ c \notin live
        /\ Finish(r, TRUE)
        /\ UNCHANGED binding
  /\ UNCHANGED <<live, pools, leader, caches, plugin, faults>>

(***************************************************************************)
(* A write fails, with or without its effect.                              *)
(***************************************************************************)
WriteFails(r) ==
  LET c == arg[r] IN
  /\ Fault
  /\ \/ /\ pc[r] = "createPool"
        /\ pools[PoolName(c)] = None
        /\ \/ pools' = [pools EXCEPT ![PoolName(c)] = NewPool(ClaimKey(c))]
           \/ UNCHANGED pools
        /\ UNCHANGED binding
     \/ /\ pc[r] = "patch"
        /\ c \in live
        /\ \/ binding' = [binding EXCEPT ![c] = PoolName(c)]
           \/ UNCHANGED binding
        /\ UNCHANGED pools
  /\ Finish(r, TRUE)
  /\ UNCHANGED <<live, leader, caches, plugin>>

-----------------------------------------------------------------------------
(* PoolReconciler.                                                         *)

(***************************************************************************)
(* Reconcile adds the finalizer; the update is refused if the cached pool  *)
(* is not the current one.  ensureLMCacheChildren, deleteLMCacheChildren   *)
(* are not implemented and return an error: nothing after them is reached, *)
(* and a pool with the finalizer is never released.                        *)
(***************************************************************************)
AddFinalizer(n) ==
  /\ pools[n] # None
  /\ ~ pools[n].deleting
  /\ ~ pools[n].finalizer
  /\ pools' = [pools EXCEPT ![n].finalizer = TRUE]
  /\ UNCHANGED <<live, binding, leader, queued, caches, pc, arg, plugin, faults>>

-----------------------------------------------------------------------------
(* The controller's environment.                                           *)

SyncClaim(r, c) ==
  LET now == IF c \in live THEN binding[c] ELSE Gone IN
  /\ seen[r][c] # now
  /\ seen' = [seen EXCEPT ![r][c] = now]
  /\ queued' = IF leader = r THEN queued \cup {c} ELSE queued
  /\ UNCHANGED <<api, leader, cached, pc, arg, plugin, faults>>

\* What a watch has to say of a pool: its fields, or that it is gone.
CurrentKey(n) == IF pools[n] = None THEN None ELSE pools[n].key

SyncPool(r, n) ==
  /\ cached[r][n] # CurrentKey(n)
  /\ cached' = [cached EXCEPT ![r][n] = CurrentKey(n)]
  /\ UNCHANGED <<api, leader, queued, seen, pc, arg, plugin, faults>>

(***************************************************************************)
(* The lease passes to another replica, whose controllers start with every *)
(* claim of its cache in the queue.                                        *)
(***************************************************************************)
ChangeLeader(r) ==
  /\ leader # r
  /\ pc[r] = "idle"
  /\ Fault
  /\ leader' = r
  /\ queued' = {c \in Claims : seen[r][c] # Gone}
  /\ UNCHANGED <<api, caches, pc, arg, plugin>>

AdminCreates(n, k) ==
  /\ <<n, k>> \in AdminPools
  /\ pools[n] = None
  /\ pools' = [pools EXCEPT ![n] = NewPool(k)]
  /\ UNCHANGED <<live, binding, leader, queued, caches, pc, arg, plugin, faults>>

(***************************************************************************)
(* Somebody other than this controller reports the pool ready.             *)
(***************************************************************************)
PoolReady(n) ==
  /\ n \in ReadyPools
  /\ pools[n] # None
  /\ ~ pools[n].ready
  /\ pools' = [pools EXCEPT ![n].ready = TRUE]
  /\ UNCHANGED <<live, binding, leader, queued, caches, pc, arg, plugin, faults>>

DeletePool(n) ==
  /\ n \in DeletablePools
  /\ pools[n] # None
  /\ ~ pools[n].deleting
  /\ pools' = IF pools[n].finalizer THEN [pools EXCEPT ![n].deleting = TRUE]
              ELSE [pools EXCEPT ![n] = None]
  /\ UNCHANGED <<live, binding, leader, queued, caches, pc, arg, plugin, faults>>

DeleteClaim(c) ==
  /\ c \in live \cap DeletableClaims
  /\ live' = live \ {c}
  /\ UNCHANGED <<binding, pools, leader, queued, caches, pc, arg, plugin, faults>>

-----------------------------------------------------------------------------
(* The kubelet plugin.                                                     *)

(***************************************************************************)
(* A request for a claim starts; the plugin helper fetches the claim, with *)
(* its annotation, before the driver sees it.                              *)
(***************************************************************************)
PrepareResourceClaims(h, c) ==
  /\ pc[h] = "idle"
  /\ c \in live
  /\ kubelet[c] # "busy"
  /\ kubelet' = [kubelet EXCEPT ![c] = "busy"]
  /\ found' = [found EXCEPT ![h] = [name |-> binding[c], key |-> None]]
  /\ Goto(h, "pLock")
  /\ arg' = [arg EXCEPT ![h] = c]
  /\ UNCHANGED <<api, leader, queued, caches, lock, cdi, faults>>

UnprepareResourceClaims(h, c) ==
  /\ pc[h] = "idle"
  /\ kubelet[c] \in {"prepared", "failed"}
  /\ kubelet' = [kubelet EXCEPT ![c] = "busy"]
  /\ Goto(h, "uLock")
  /\ arg' = [arg EXCEPT ![h] = c]
  /\ UNCHANGED <<api, leader, queued, caches, found, lock, cdi, faults>>

Acquire(h) ==
  /\ pc[h] \in {"pLock", "uLock"}
  /\ lock = None
  /\ lock' = h
  /\ Goto(h, IF pc[h] = "pLock" THEN "getReady" ELSE "removeSpec")
  /\ UNCHANGED <<api, leader, queued, caches, arg, found, cdi, kubelet, faults>>

(***************************************************************************)
(* The request is answered.  No error is retried by the plugin.            *)
(***************************************************************************)
Answer(h, result) ==
  /\ Goto(h, "idle")
  /\ arg' = [arg EXCEPT ![h] = None]
  /\ found' = [found EXCEPT ![h] = NothingFound]
  /\ lock' = IF lock = h THEN None ELSE lock
  /\ kubelet' = [kubelet EXCEPT ![arg[h]] = result]

(***************************************************************************)
(* The lock is not free within 10 s, a file operation or a Get fails.      *)
(***************************************************************************)
RequestFails(h) ==
  /\ pc[h] \in PluginSteps
  /\ pc[h] \in {"pLock", "uLock"} => lock # None
  /\ Fault
  /\ Answer(h, "failed")
  /\ UNCHANGED <<api, leader, queued, caches, cdi>>

(***************************************************************************)
(* resolveKVCachePool and validatePoolReady.                               *)
(***************************************************************************)
ReadyPool(n) == n # None /\ pools[n] # None /\ pools[n].ready

GetReadyPool(h) ==
  LET cfg   == PluginConfig(arg[h])
      name  == ResolvedPoolName(cfg, found[h].name)
      ready == IF cfg = None THEN FALSE ELSE cfg.valid /\ ReadyPool(name)
  IN
  /\ pc[h] = "getReady"
  /\ \/ /\ ~ ready
        /\ Answer(h, "failed")
     \/ /\ ready
        /\ found' = [found EXCEPT ![h] = [name |-> name,
                                          key |-> pools[name].key]]
        /\ Goto(h, "writeSpec")
        /\ UNCHANGED <<arg, lock, kubelet>>
  /\ UNCHANGED <<api, leader, queued, caches, cdi, faults>>

CreateClaimSpecFile(h) ==
  /\ pc[h] = "writeSpec"
  /\ cdi' = [cdi EXCEPT ![arg[h]] = found[h]]
  /\ Answer(h, "prepared")
  /\ UNCHANGED <<api, leader, queued, caches, faults>>

DeleteClaimSpecFile(h) ==
  /\ pc[h] = "removeSpec"
  /\ cdi' = [cdi EXCEPT ![arg[h]] = None]
  /\ Answer(h, "none")
  /\ UNCHANGED <<api, leader, queued, caches, faults>>

-----------------------------------------------------------------------------
ReconcileStep(r) ==
  \/ \E c \in Claims : Reconcile(r, c)
  \/ GetPool(r) \/ CreatePool(r) \/ RegetPool(r) \/ PatchClaim(r)

CacheStep(r) ==
  \/ \E c \in Claims : SyncClaim(r, c)
  \/ \E n \in Names : SyncPool(r, n)

PoolStep(n) ==
  \/ AddFinalizer(n) \/ PoolReady(n) \/ DeletePool(n)
  \/ \E k \in Keys : AdminCreates(n, k)

PluginStep(h) ==
  \/ \E c \in Claims : PrepareResourceClaims(h, c) \/ UnprepareResourceClaims(h, c)
  \/ Acquire(h) \/ GetReadyPool(h)
  \/ CreateClaimSpecFile(h) \/ DeleteClaimSpecFile(h)
  \/ RequestFails(h)

Next ==
  \/ \E r \in Replicas : ReconcileStep(r) \/ WriteFails(r) \/ CacheStep(r)
  \/ \E r \in Replicas : ChangeLeader(r)
  \/ \E n \in Names : PoolStep(n)
  \/ \E c \in Claims : DeleteClaim(c)
  \/ \E h \in Handlers : PluginStep(h)

Spec == Init /\ [][Next]_vars

(***************************************************************************)
(* The reconcilers run; every claim of the queue gets its turn; the caches *)
(* catch up.  The plugin is left free to do nothing.                       *)
(***************************************************************************)
Fairness ==
  /\ \A r \in Replicas :
        /\ WF_vars(ReconcileStep(r))
        /\ \A c \in Claims : SF_vars(Reconcile(r, c)) /\ WF_vars(SyncClaim(r, c))
        /\ \A n \in Names : WF_vars(SyncPool(r, n))

FairSpec == Spec /\ Fairness

-----------------------------------------------------------------------------
(* Properties.                                                             *)

Bound(c) == binding[c] # None

(***************************************************************************)
(* BoundPoolServes: the pool a claim is bound to exists and has the        *)
(* claim's key, for pools that nobody deletes, although the reconciler     *)
(* decides from a cache and may lose the create race to another claim,     *)
(* another replica or an administrator.                                    *)
(***************************************************************************)
BoundPoolServes ==
  \A c \in Claims :
     (Bound(c) /\ binding[c] \notin DeletablePools)
       => pools[binding[c]] # None /\ pools[binding[c]].key = ClaimKey(c)

(***************************************************************************)
(* BoundOnce: a claim's pool never changes, although a stale cache makes   *)
(* the reconciler bind a bound claim again ("already bound").              *)
(***************************************************************************)
BoundOnce ==
  [][\A c \in Claims : Bound(c) => binding'[c] = binding[c]]_vars

NameTaken(c) == CurrentKey(PoolName(c)) \notin {None, ClaimKey(c)}

(***************************************************************************)
(* NoClaimForgotten: every claim with a valid config is eventually bound,  *)
(* deleted, or found its pool's name taken by an incompatible pool; lost   *)
(* races, failed calls and a new leader only delay it.                     *)
(***************************************************************************)
NoClaimForgotten ==
  \A c \in Claims :
     Serviceable(c) => <>(Bound(c) \/ c \notin live \/ NameTaken(c))

OneConfig(c) == ClassConfigs[c] = <<>> /\ Len(SpecConfigs[c]) = 1

(***************************************************************************)
(* GeneratedPoolInjected: a claim with one config and no explicit name has *)
(* a compatible pool injected, the one it is bound to, although the        *)
(* annotation and the pool were read at different times.                   *)
(***************************************************************************)
GeneratedPoolInjected ==
  \A c \in Claims :
     /\ OneConfig(c)
     /\ DecodeKVCachePoolConfig(c).pool = None
     /\ cdi[c] # None
     /\ cdi[c].name \notin DeletablePools
     => cdi[c].name = binding[c] /\ cdi[c].key = ClaimKey(c)
=============================================================================
