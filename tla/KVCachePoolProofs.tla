-------------------------- MODULE KVCachePoolProofs --------------------------
(***************************************************************************)
(* Proofs about the binding of claims to KV-cache pools, for any number of *)
(* replicas, requests, claims, pools and faults.                           *)
(***************************************************************************)
EXTENDS KVCachePool, TLAPS

(***************************************************************************)
(* What a reconciler and a request work on.                                *)
(***************************************************************************)
Working ==
  /\ \A r \in Replicas :
        /\ pc[r] \in ReconcileSteps \cup {"idle"}
        /\ pc[r] # "idle" => arg[r] \in Claims /\ Serviceable(arg[r])
  /\ \A h \in Handlers :
        /\ pc[h] \in PluginSteps \cup {"idle"}
        /\ pc[h] # "idle" => arg[h] \in Claims

Serves(n, k) == pools[n] # None /\ pools[n].key = k

(***************************************************************************)
(* A cache that is behind may lack a pool, but what it has of a pool that  *)
(* is not deleted is right.                                                *)
(***************************************************************************)
CacheAgrees ==
  \A r \in Replicas : \A n \in Names \ DeletablePools :
     cached[r][n] # None => Serves(n, cached[r][n])

(***************************************************************************)
(* A reconciler patches a claim only when the pool exists.                 *)
(***************************************************************************)
PatchReady ==
  \A r \in Replicas :
     (pc[r] = "patch" /\ PoolName(arg[r]) \notin DeletablePools)
       => Serves(PoolName(arg[r]), ClaimKey(arg[r]))

(***************************************************************************)
(* The binding is a function of the claim alone.                           *)
(***************************************************************************)
BoundByConfig ==
  \A c \in Claims : Bound(c) => Serviceable(c) /\ binding[c] = PoolName(c)

Generated(c) == OneConfig(c) /\ DecodeKVCachePoolConfig(c).pool = None

(***************************************************************************)
(* What a request has read: the annotation, then the pool.                 *)
(***************************************************************************)
RequestReads ==
  \A h \in Handlers :
     /\ pc[h] \in {"pLock", "getReady"} =>
           found[h].name \in {None, binding[arg[h]]}
     /\ pc[h] = "writeSpec" =>
           /\ found[h] \in [name : Names, key : Keys]
           /\ (Generated(arg[h]) /\ found[h].name \notin DeletablePools) =>
                 /\ found[h].name = binding[arg[h]]
                 /\ found[h].key = ClaimKey(arg[h])

Inv ==
  /\ TypeOK
  /\ Working
  /\ CacheAgrees
  /\ PatchReady
  /\ BoundByConfig
  /\ BoundPoolServes
  /\ RequestReads
  /\ GeneratedPoolInjected

-----------------------------------------------------------------------------
(* Configurations.                                                         *)

(***************************************************************************)
(* The config that decodeKVCachePoolConfig finds names a pool and a key.   *)
(***************************************************************************)
LEMMA ServiceableConfig ==
  ASSUME NEW c \in Claims, Serviceable(c)
  PROVE  /\ DecodeKVCachePoolConfig(c) \in Configs
         /\ PoolName(c) \in Names
         /\ ClaimKey(c) \in Keys
<1>1. SpecConfigs[c] \in Seq(Configs) /\ SpecConfigs[c] # <<>>
  BY PoolAssumption DEF Serviceable
<1>2. Len(SpecConfigs[c]) \in 1 .. Len(SpecConfigs[c])
  BY <1>1
<1>3. SpecConfigs[c][Len(SpecConfigs[c])] \in Configs
  BY <1>1, <1>2
<1>4. DecodeKVCachePoolConfig(c) \in Configs
  BY <1>1, <1>3 DEF DecodeKVCachePoolConfig
<1>5. QED
  BY <1>4, PoolAssumption DEF PoolName, ClaimKey, Configs

(***************************************************************************)
(* The config the plugin takes is one of the claim's or none, and the      *)
(* controller's if there is only one.                                      *)
(***************************************************************************)
LEMMA PluginConfigs ==
  ASSUME NEW c \in Claims
  PROVE  /\ PluginConfig(c) \in Configs \cup {None}
         /\ OneConfig(c) => PluginConfig(c) = DecodeKVCachePoolConfig(c)
<1> DEFINE configs == GetOpaqueDeviceConfigs(c)
<1>1. ClassConfigs[c] \in Seq(Configs) /\ SpecConfigs[c] \in Seq(Configs)
  BY PoolAssumption
<1>2. configs \in Seq(Configs)
  BY <1>1 DEF GetOpaqueDeviceConfigs
<1>3. configs # <<>> => configs[1] \in Configs
  BY <1>2
<1>4. ASSUME OneConfig(c)
      PROVE  PluginConfig(c) = DecodeKVCachePoolConfig(c)
  <2>1. ClassConfigs[c] = <<>> /\ Len(SpecConfigs[c]) = 1
    BY <1>4 DEF OneConfig
  <2>2. Len(configs) = 1 /\ configs[1] = SpecConfigs[c][1]
    BY <1>1, <2>1 DEF GetOpaqueDeviceConfigs
  <2>3. configs # <<>> /\ SpecConfigs[c] # <<>>
    BY <1>1, <1>2, <2>1, <2>2
  <2>4. QED
    BY <2>1, <2>2, <2>3 DEF PluginConfig, DecodeKVCachePoolConfig
<1>5. QED
  BY <1>3, <1>4 DEF PluginConfig

-----------------------------------------------------------------------------
(***************************************************************************)
(* The inductive invariant holds in the initial states.                    *)
(***************************************************************************)
LEMMA InitInv == Init => Inv
<1> SUFFICES ASSUME Init PROVE Inv
  OBVIOUS
<1> USE DEF Init
<1>1. TypeOK
  BY PoolAssumption DEF TypeOK, NothingFound
<1>2. Working /\ CacheAgrees /\ PatchReady /\ RequestReads
  BY DEF Working, CacheAgrees, PatchReady, RequestReads, Workers
<1>3. BoundByConfig /\ BoundPoolServes /\ GeneratedPoolInjected
  BY DEF BoundByConfig, BoundPoolServes, GeneratedPoolInjected, Bound
<1>4. QED
  BY <1>1, <1>2, <1>3 DEF Inv

-----------------------------------------------------------------------------
(* Frames: what a step leaves alone, and what it keeps.                    *)

PoolsKept ==
  \A n \in Names \ DeletablePools :
     pools[n] # None => pools'[n] # None /\ pools'[n].key = pools[n].key

BindingsKept == \A c \in Claims : Bound(c) => binding'[c] = binding[c]

(***************************************************************************)
(* The caches stay right while pools keep their keys.                      *)
(***************************************************************************)
LEMMA CacheFrame ==
  ASSUME Inv, PoolsKept, UNCHANGED cached
  PROVE  CacheAgrees'
BY DEF Inv, CacheAgrees, Serves, PoolsKept

(***************************************************************************)
(* A reconciler whose step it is not stays ready to patch.                 *)
(***************************************************************************)
LEMMA PatchFrame ==
  ASSUME Inv, PoolsKept, NEW r \in Replicas,
         pc'[r] = pc[r], arg'[r] = arg[r],
         pc'[r] = "patch", PoolName(arg'[r]) \notin DeletablePools
  PROVE  Serves(PoolName(arg[r]), ClaimKey(arg[r]))'
<1>1. arg[r] \in Claims /\ Serviceable(arg[r])
  BY DEF Inv, Working
<1>2. Serves(PoolName(arg[r]), ClaimKey(arg[r]))
  BY DEF Inv, PatchReady
<1>3. PoolName(arg[r]) \in Names \ DeletablePools
  BY <1>1, ServiceableConfig
<1>4. PoolName(arg'[r]) = PoolName(arg[r]) /\ ClaimKey(arg'[r]) = ClaimKey(arg[r])
  OBVIOUS
<1>5. QED
  BY <1>2, <1>3, <1>4 DEF Serves, PoolsKept, PoolName, ClaimKey,
     DecodeKVCachePoolConfig

(***************************************************************************)
(* Bound claims keep their pools.                                          *)
(***************************************************************************)
LEMMA BoundFrame ==
  ASSUME Inv, PoolsKept, UNCHANGED binding
  PROVE  BoundByConfig' /\ BoundPoolServes'
<1>1. BoundByConfig'
  BY DEF Inv, BoundByConfig, Bound, PoolName, DecodeKVCachePoolConfig
<1>2. BoundPoolServes'
  BY DEF Inv, TypeOK, BoundPoolServes, Bound, PoolsKept, ClaimKey,
     DecodeKVCachePoolConfig
<1>3. QED
  BY <1>1, <1>2

(***************************************************************************)
(* What requests have read stays right while bindings do not change.       *)
(***************************************************************************)
LEMMA RequestFrame ==
  ASSUME Inv, BindingsKept, UNCHANGED <<found, cdi>>,
         \A h \in Handlers : pc'[h] = pc[h] /\ arg'[h] = arg[h]
  PROVE  RequestReads' /\ GeneratedPoolInjected'
<1>1. \A c \in Claims : binding[c] \in Names => binding'[c] = binding[c]
  BY PoolAssumption DEF BindingsKept, Bound
<1>2. RequestReads'
  <2> SUFFICES ASSUME NEW h \in Handlers
      PROVE /\ pc[h] \in {"pLock", "getReady"} =>
                  found[h].name \in {None, binding'[arg[h]]}
            /\ pc[h] = "writeSpec" =>
                  /\ found[h] \in [name : Names, key : Keys]
                  /\ (Generated(arg[h]) /\ found[h].name \notin DeletablePools) =>
                        /\ found[h].name = binding'[arg[h]]
                        /\ found[h].key = ClaimKey(arg[h])
    BY DEF RequestReads, Generated, OneConfig, ClaimKey, DecodeKVCachePoolConfig
  <2>1. pc[h] # "idle" => arg[h] \in Claims
    BY DEF Inv, Working
  <2>2. CASE pc[h] \in {"pLock", "getReady"}
    <3>1. found[h].name \in {None, binding[arg[h]]}
      BY <2>2 DEF Inv, RequestReads
    <3>2. binding[arg[h]] \in Names \cup {None}
      BY <2>1, <2>2 DEF Inv, TypeOK
    <3>3. QED
      BY <1>1, <2>1, <2>2, <3>1, <3>2
  <2>3. CASE pc[h] = "writeSpec"
    BY <1>1, <2>1, <2>3 DEF Inv, RequestReads
  <2>4. QED
    BY <2>2, <2>3
<1>3. GeneratedPoolInjected'
  BY <1>1 DEF Inv, TypeOK, GeneratedPoolInjected, ClaimKey, OneConfig,
     DecodeKVCachePoolConfig
<1>4. QED
  BY <1>2, <1>3

-----------------------------------------------------------------------------
(* The reconcilers.                                                        *)

OnlyMoves(w) ==
  \A v \in Workers \ {w} : pc'[v] = pc[v] /\ arg'[v] = arg[v]

(***************************************************************************)
(* A step of one reconciler that leaves the plugin alone: what remains is  *)
(* about that reconciler.                                                  *)
(***************************************************************************)
LEMMA ReconcilerFrame ==
  ASSUME Inv, NEW r \in Replicas, OnlyMoves(r), PoolsKept, BindingsKept,
         TypeOK', UNCHANGED <<found, cdi, cached>>,
         pc'[r] \in ReconcileSteps \cup {"idle"},
         pc'[r] # "idle" => arg'[r] \in Claims /\ Serviceable(arg'[r]),
         (pc'[r] = "patch" /\ PoolName(arg'[r]) \notin DeletablePools) =>
            pools'[PoolName(arg'[r])] # None
              /\ pools'[PoolName(arg'[r])].key = ClaimKey(arg'[r]),
         BoundByConfig' /\ BoundPoolServes'
  PROVE  Inv'
<1>1. \A h \in Handlers : pc'[h] = pc[h] /\ arg'[h] = arg[h]
  BY PoolAssumption DEF OnlyMoves, Workers
<1>2. \A q \in Replicas \ {r} : pc'[q] = pc[q] /\ arg'[q] = arg[q]
  BY DEF OnlyMoves, Workers
<1>3. RequestReads' /\ GeneratedPoolInjected'
  BY <1>1, RequestFrame
<1>4. Working'
  BY <1>1, <1>2 DEF Inv, Working, Serviceable, DecodeKVCachePoolConfig
<1>5. CacheAgrees'
  BY CacheFrame
<1>6. PatchReady'
  <2> SUFFICES ASSUME NEW q \in Replicas, pc'[q] = "patch",
                      PoolName(arg'[q]) \notin DeletablePools
               PROVE  Serves(PoolName(arg[q]), ClaimKey(arg[q]))'
    BY DEF PatchReady, PoolName, DecodeKVCachePoolConfig
  <2>1. CASE q = r
    BY <2>1 DEF Serves, PoolName, ClaimKey, DecodeKVCachePoolConfig
  <2>2. CASE q # r
    BY <1>2, <2>2, PatchFrame
  <2>3. QED
    BY <2>1, <2>2
<1>7. QED
  BY <1>3, <1>4, <1>5, <1>6 DEF Inv

(***************************************************************************)
(* Finish frees the reconciler.                                            *)
(***************************************************************************)
LEMMA FinishFrees ==
  ASSUME TypeOK, NEW r \in Replicas, NEW again \in BOOLEAN,
         arg[r] \in Claims, Finish(r, again)
  PROVE  /\ pc' \in [Workers -> ReconcileSteps \cup PluginSteps \cup {"idle"}]
         /\ arg' \in [Workers -> Claims \cup {None}]
         /\ queued' \subseteq Claims
         /\ pc'[r] = "idle"
         /\ OnlyMoves(r)
BY DEF TypeOK, Finish, Goto, OnlyMoves, Workers

(***************************************************************************)
(* Goto moves one worker.                                                  *)
(***************************************************************************)
LEMMA GotoMoves ==
  ASSUME TypeOK, NEW w \in Workers, NEW s \in ReconcileSteps \cup PluginSteps,
         Goto(w, s), UNCHANGED arg
  PROVE  /\ pc' \in [Workers -> ReconcileSteps \cup PluginSteps \cup {"idle"}]
         /\ pc'[w] = s
         /\ OnlyMoves(w)
BY DEF TypeOK, Goto, OnlyMoves

(***************************************************************************)
(* A claim is taken from the queue.                                        *)
(***************************************************************************)
LEMMA ReconcileStepInv ==
  ASSUME Inv, NEW r \in Replicas, NEW c \in Claims, Reconcile(r, c)
  PROVE  Inv' /\ BindingsKept
<1>1. PoolsKept /\ BindingsKept
  BY DEF Reconcile, api, PoolsKept, BindingsKept
<1>2. BoundByConfig' /\ BoundPoolServes'
  BY <1>1, BoundFrame DEF Reconcile, api
<1>3. CASE Serviceable(c) /\ Goto(r, "getPool") /\ arg' = [arg EXCEPT ![r] = c]
  <2>1. /\ pc' = [pc EXCEPT ![r] = "getPool"]
        /\ arg' = [arg EXCEPT ![r] = c]
        /\ queued' = queued \ {c}
        /\ UNCHANGED <<live, binding, pools, leader, seen, cached, found, lock,
                       cdi, kubelet, faults>>
    BY <1>3 DEF Reconcile, Goto, api, caches, plugin
  <2>2. TypeOK'
    BY <2>1 DEF Inv, TypeOK, Workers, ReconcileSteps
  <2>3. OnlyMoves(r) /\ pc'[r] = "getPool" /\ arg'[r] = c
    BY <2>1 DEF Inv, TypeOK, Workers, OnlyMoves
  <2>4. QED
    BY <1>1, <1>2, <1>3, <2>1, <2>2, <2>3, ReconcilerFrame DEF ReconcileSteps
<1>4. CASE UNCHANGED <<pc, arg>>
  <2>1. /\ queued' = queued \ {c}
        /\ UNCHANGED <<live, binding, pools, leader, seen, cached, found, lock,
                       cdi, kubelet, faults, pc, arg>>
    BY <1>4 DEF Reconcile, api, caches, plugin
  <2>2. TypeOK'
    BY <2>1 DEF Inv, TypeOK
  <2>3. Working' /\ CacheAgrees' /\ PatchReady'
    BY <2>1 DEF Inv, Working, CacheAgrees, PatchReady, Serves, PoolName, ClaimKey,
       Serviceable, DecodeKVCachePoolConfig
  <2>4. RequestReads' /\ GeneratedPoolInjected'
    BY <1>1, <2>1, RequestFrame
  <2>5. QED
    BY <1>1, <1>2, <2>2, <2>3, <2>4 DEF Inv
<1>5. QED
  BY <1>3, <1>4 DEF Reconcile

(***************************************************************************)
(* A step of a reconciler that has a claim and writes nothing.             *)
(***************************************************************************)
LEMMA ReadStepInv ==
  ASSUME Inv, NEW r \in Replicas, pc[r] # "idle",
         UNCHANGED <<api, leader, caches, plugin, faults>>,
         \/ UseCachedPool(r)
         \/ \E s \in {"createPool", "regetPool"} :
               Goto(r, s) /\ UNCHANGED <<arg, queued>>
         \/ Finish(r, TRUE)
  PROVE  Inv' /\ BindingsKept
<1>1. arg[r] \in Claims /\ Serviceable(arg[r])
  BY DEF Inv, Working
<1>2. PoolName(arg[r]) \in Names /\ ClaimKey(arg[r]) \in Keys
  BY <1>1, ServiceableConfig
<1>3. UNCHANGED <<live, binding, pools, leader, seen, cached, found, lock, cdi,
                  kubelet, faults>>
  BY DEF api, caches, plugin
<1>4. PoolsKept /\ BindingsKept
  BY <1>3 DEF PoolsKept, BindingsKept
<1>5. BoundByConfig' /\ BoundPoolServes'
  BY <1>3, <1>4, BoundFrame
<1>6. TypeOK /\ r \in Workers
  BY DEF Inv, Workers
<1>7. CASE \E again \in BOOLEAN : Finish(r, again)
  <2>1. /\ pc' \in [Workers -> ReconcileSteps \cup PluginSteps \cup {"idle"}]
        /\ arg' \in [Workers -> Claims \cup {None}]
        /\ queued' \subseteq Claims
        /\ pc'[r] = "idle"
        /\ OnlyMoves(r)
    BY <1>1, <1>6, <1>7, FinishFrees
  <2>2. TypeOK'
    BY <1>3, <1>6, <2>1 DEF TypeOK
  <2>3. QED
    BY <1>3, <1>4, <1>5, <2>1, <2>2, ReconcilerFrame
<1>8. ASSUME NEW s \in ReconcileSteps, pc' = [pc EXCEPT ![r] = s],
             UNCHANGED <<arg, queued>>,
             s = "patch" => cached[r][PoolName(arg[r])] = ClaimKey(arg[r])
      PROVE  Inv'
  <2>1. /\ pc' \in [Workers -> ReconcileSteps \cup PluginSteps \cup {"idle"}]
        /\ pc'[r] = s
        /\ OnlyMoves(r)
    BY <1>6, <1>8, GotoMoves DEF Goto
  <2>2. TypeOK'
    BY <1>3, <1>6, <1>8, <2>1 DEF TypeOK
  <2>3. ASSUME s = "patch", PoolName(arg[r]) \notin DeletablePools
        PROVE  pools[PoolName(arg[r])] # None
                 /\ pools[PoolName(arg[r])].key = ClaimKey(arg[r])
    BY <1>2, <1>8, <2>3, PoolAssumption DEF Inv, CacheAgrees, Serves
  <2>4. arg'[r] = arg[r]
    BY <1>8
  <2>5. QED
    BY <1>1, <1>3, <1>4, <1>5, <1>8, <2>1, <2>2, <2>3, <2>4, ReconcilerFrame
<1>9. CASE UseCachedPool(r)
  <2>1. CASE /\ cached[r][PoolName(arg[r])] = ClaimKey(arg[r])
             /\ Goto(r, "patch")
             /\ UNCHANGED <<arg, queued>>
    BY <1>4, <1>8, <2>1 DEF ReconcileSteps, Goto
  <2>2. CASE Finish(r, FALSE)
    BY <1>7, <2>2
  <2>3. QED
    BY <1>9, <2>1, <2>2 DEF UseCachedPool
<1>10. CASE \E s \in {"createPool", "regetPool"} :
              Goto(r, s) /\ UNCHANGED <<arg, queued>>
  BY <1>4, <1>8, <1>10 DEF ReconcileSteps, Goto
<1>11. QED
  BY <1>4, <1>7, <1>9, <1>10

(***************************************************************************)
(* The Get of getOrCreatePool preserves the invariant.                     *)
(***************************************************************************)
LEMMA GetPoolInv ==
  ASSUME Inv, NEW r \in Replicas, GetPool(r)
  PROVE  Inv' /\ BindingsKept
BY ReadStepInv DEF GetPool

(***************************************************************************)
(* So does the second Get, after a lost create race.                       *)
(***************************************************************************)
LEMMA RegetPoolInv ==
  ASSUME Inv, NEW r \in Replicas, RegetPool(r)
  PROVE  Inv' /\ BindingsKept
BY ReadStepInv DEF RegetPool

(***************************************************************************)
(* A new pool has the type of a pool and disturbs no other.                *)
(***************************************************************************)
LEMMA NewPoolKept ==
  ASSUME TypeOK, NEW n \in Names, NEW k \in Keys, pools[n] = None,
         pools' = [pools EXCEPT ![n] = NewPool(k)]
  PROVE  /\ pools' \in [Names -> Pools \cup {None}]
         /\ PoolsKept
         /\ pools'[n] # None /\ pools'[n].key = k
<1>1. NewPool(k) \in Pools /\ NewPool(k).key = k
  BY DEF NewPool, Pools
<1>2. NewPool(k) # None
  BY <1>1, PoolAssumption
<1>3. QED
  BY <1>1, <1>2 DEF TypeOK, PoolsKept

(***************************************************************************)
(* A step of a reconciler that may write its claim's pool or annotation.   *)
(***************************************************************************)
LEMMA WriteStepInv ==
  ASSUME Inv, NEW r \in Replicas, pc[r] # "idle",
         UNCHANGED <<live, leader, caches, plugin>>,
         faults' \in 0 .. MaxFaults,
         \/ \E again \in BOOLEAN : Finish(r, again)
         \/ Goto(r, "regetPool") /\ UNCHANGED <<arg, queued>>
         \/ /\ Goto(r, "patch") /\ UNCHANGED <<arg, queued>>
            /\ pools[PoolName(arg[r])] = None
            /\ pools' = [pools EXCEPT ![PoolName(arg[r])] = NewPool(ClaimKey(arg[r]))],
         \/ UNCHANGED pools
         \/ /\ pools[PoolName(arg[r])] = None
            /\ pools' = [pools EXCEPT ![PoolName(arg[r])] = NewPool(ClaimKey(arg[r]))],
         \/ UNCHANGED binding
         \/ /\ pc[r] = "patch"
            /\ UNCHANGED pools
            /\ binding' = [binding EXCEPT ![arg[r]] = PoolName(arg[r])]
  PROVE  Inv' /\ BindingsKept
<1> DEFINE c == arg[r]
<1>1. c \in Claims /\ Serviceable(c)
  BY DEF Inv, Working
<1>2. PoolName(c) \in Names /\ ClaimKey(c) \in Keys
  BY <1>1, ServiceableConfig
<1>3. UNCHANGED <<live, leader, seen, cached, found, lock, cdi, kubelet>>
  BY DEF caches, plugin
<1>4. TypeOK /\ r \in Workers
  BY DEF Inv, Workers
<1>5. pools' \in [Names -> Pools \cup {None}] /\ PoolsKept
  <2>1. CASE UNCHANGED pools
    BY <1>4, <2>1 DEF TypeOK, PoolsKept
  <2>2. CASE /\ pools[PoolName(c)] = None
             /\ pools' = [pools EXCEPT ![PoolName(c)] = NewPool(ClaimKey(c))]
    BY <1>2, <1>4, <2>2, NewPoolKept
  <2>3. QED
    BY <2>1, <2>2
<1>6. binding' \in [Claims -> Names \cup {None}] /\ BindingsKept
  BY <1>1, <1>2, <1>4 DEF Inv, TypeOK, BindingsKept, BoundByConfig, Bound
<1>7. BoundByConfig' /\ BoundPoolServes'
  <2>1. CASE UNCHANGED binding
    BY <1>5, <2>1, BoundFrame
  <2>2. CASE /\ pc[r] = "patch"
             /\ UNCHANGED pools
             /\ binding' = [binding EXCEPT ![c] = PoolName(c)]
    <3>1. BoundByConfig'
      BY <1>1, <1>4, <2>2 DEF Inv, TypeOK, BoundByConfig, Bound, Serviceable,
         PoolName, DecodeKVCachePoolConfig
    <3>2. PoolName(c) \notin DeletablePools =>
             pools[PoolName(c)] # None /\ pools[PoolName(c)].key = ClaimKey(c)
      BY <2>2 DEF Inv, PatchReady, Serves
    <3>3. \A d \in Claims : ClaimKey(d)' = ClaimKey(d)
      BY DEF ClaimKey, DecodeKVCachePoolConfig
    <3>4. ASSUME NEW d \in Claims, Bound(d)', binding'[d] \notin DeletablePools
          PROVE  pools'[binding'[d]] # None /\ pools'[binding'[d]].key = ClaimKey(d)
      <4>1. CASE d = c
        BY <1>1, <1>4, <2>2, <3>2, <3>4, <4>1 DEF TypeOK
      <4>2. CASE d # c
        BY <1>4, <2>2, <3>4, <4>2 DEF Inv, TypeOK, BoundPoolServes, Bound
      <4>3. QED
        BY <4>1, <4>2
    <3>5. BoundPoolServes'
      BY <3>3, <3>4 DEF BoundPoolServes
    <3>6. QED
      BY <3>1, <3>5
  <2>3. QED
    BY <2>1, <2>2
<1>8. CASE \E again \in BOOLEAN : Finish(r, again)
  <2>1. /\ pc' \in [Workers -> ReconcileSteps \cup PluginSteps \cup {"idle"}]
        /\ arg' \in [Workers -> Claims \cup {None}]
        /\ queued' \subseteq Claims
        /\ pc'[r] = "idle"
        /\ OnlyMoves(r)
    BY <1>1, <1>4, <1>8, FinishFrees
  <2>2. TypeOK'
    BY <1>3, <1>4, <1>5, <1>6, <2>1 DEF TypeOK
  <2>3. QED
    BY <1>3, <1>5, <1>6, <1>7, <2>1, <2>2, ReconcilerFrame
<1>9. ASSUME NEW s \in {"regetPool", "patch"}, pc' = [pc EXCEPT ![r] = s],
             UNCHANGED <<arg, queued>>,
             s = "patch" =>
                /\ pools[PoolName(c)] = None
                /\ pools' = [pools EXCEPT ![PoolName(c)] = NewPool(ClaimKey(c))]
      PROVE  Inv'
  <2>1. /\ pc' \in [Workers -> ReconcileSteps \cup PluginSteps \cup {"idle"}]
        /\ pc'[r] = s
        /\ OnlyMoves(r)
    BY <1>4, <1>9, GotoMoves DEF ReconcileSteps, Goto
  <2>2. TypeOK'
    BY <1>3, <1>4, <1>5, <1>6, <1>9, <2>1 DEF TypeOK
  <2>3. s = "patch" => pools'[PoolName(c)] # None
                         /\ pools'[PoolName(c)].key = ClaimKey(c)
    BY <1>2, <1>4, <1>9, NewPoolKept
  <2>4. arg'[r] = c
    BY <1>9
  <2>5. QED
    BY <1>1, <1>3, <1>5, <1>6, <1>7, <1>9, <2>1, <2>2, <2>3, <2>4,
       ReconcilerFrame DEF ReconcileSteps
<1>10. CASE Goto(r, "regetPool") /\ UNCHANGED <<arg, queued>>
  BY <1>6, <1>9, <1>10 DEF Goto
<1>11. CASE /\ Goto(r, "patch") /\ UNCHANGED <<arg, queued>>
            /\ pools[PoolName(arg[r])] = None
            /\ pools' = [pools EXCEPT ![PoolName(arg[r])] = NewPool(ClaimKey(arg[r]))]
  BY <1>6, <1>9, <1>11 DEF Goto
<1>12. QED
  BY <1>6, <1>8, <1>10, <1>11

(***************************************************************************)
(* A create that succeeds, or finds the pool there.                        *)
(***************************************************************************)
LEMMA CreatePoolInv ==
  ASSUME Inv, NEW r \in Replicas, CreatePool(r)
  PROVE  Inv' /\ BindingsKept
<1>1. faults' \in 0 .. MaxFaults
  BY DEF Inv, TypeOK, CreatePool
<1>2. QED
  BY <1>1, WriteStepInv DEF CreatePool

(***************************************************************************)
(* The patch of the annotation, the only step that binds a claim.          *)
(***************************************************************************)
LEMMA PatchClaimInv ==
  ASSUME Inv, NEW r \in Replicas, PatchClaim(r)
  PROVE  Inv' /\ BindingsKept
<1>1. faults' \in 0 .. MaxFaults
  BY DEF Inv, TypeOK, PatchClaim
<1>2. pc[r] = "patch" /\ (Finish(r, TRUE) \/ Finish(r, FALSE))
  BY DEF PatchClaim
<1>3. QED
  BY <1>1, <1>2, WriteStepInv DEF PatchClaim

(***************************************************************************)
(* A write that fails, with or without its effect.                         *)
(***************************************************************************)
LEMMA WriteFailsInv ==
  ASSUME Inv, NEW r \in Replicas, WriteFails(r)
  PROVE  Inv' /\ BindingsKept
<1>1. faults' \in 0 .. MaxFaults
  BY PoolAssumption DEF Inv, TypeOK, WriteFails, Fault
<1>2. pc[r] # "idle" /\ Finish(r, TRUE)
  BY DEF WriteFails
<1>3. QED
  BY <1>1, <1>2, WriteStepInv DEF WriteFails

-----------------------------------------------------------------------------
(* The environment of the controller.                                      *)

(***************************************************************************)
(* A step of nobody's program that keeps the pools nobody deletes.         *)
(***************************************************************************)
LEMMA EnvironmentFrame ==
  ASSUME Inv, PoolsKept, TypeOK', UNCHANGED <<binding, cached, pc, arg, found, cdi>>
  PROVE  Inv' /\ BindingsKept
<1>1. BindingsKept
  BY DEF BindingsKept
<1>2. CacheAgrees' /\ BoundByConfig' /\ BoundPoolServes'
  BY CacheFrame, BoundFrame
<1>3. RequestReads' /\ GeneratedPoolInjected'
  BY <1>1, RequestFrame
<1>4. Working'
  BY DEF Inv, Working, Serviceable, DecodeKVCachePoolConfig
<1>5. PatchReady'
  BY PatchFrame DEF PatchReady, PoolName, DecodeKVCachePoolConfig
<1>6. QED
  BY <1>1, <1>2, <1>3, <1>4, <1>5 DEF Inv

(***************************************************************************)
(* A claim reaches a replica's cache.                                      *)
(***************************************************************************)
LEMMA SyncClaimInv ==
  ASSUME Inv, NEW r \in Replicas, NEW c \in Claims, SyncClaim(r, c)
  PROVE  Inv' /\ BindingsKept
<1>1. UNCHANGED <<live, binding, pools, leader, cached, pc, arg, found, lock, cdi,
                  kubelet, faults>>
  BY DEF SyncClaim, api, plugin
<1>2. PoolsKept
  BY <1>1 DEF PoolsKept
<1>3. seen' \in [Replicas -> [Claims -> Names \cup {None, Gone}]]
  BY DEF SyncClaim, Inv, TypeOK
<1>4. queued' \subseteq Claims
  BY DEF SyncClaim, Inv, TypeOK
<1>5. TypeOK'
  BY <1>1, <1>3, <1>4 DEF Inv, TypeOK
<1>6. QED
  BY <1>1, <1>2, <1>5, EnvironmentFrame

(***************************************************************************)
(* A cache catches up with one pool.                                       *)
(***************************************************************************)
LEMMA SyncPoolInv ==
  ASSUME Inv, NEW r \in Replicas, NEW n \in Names, SyncPool(r, n)
  PROVE  Inv' /\ BindingsKept
<1>1. /\ cached' = [cached EXCEPT ![r][n] = CurrentKey(n)]
      /\ UNCHANGED <<live, binding, pools, leader, queued, seen, pc, arg, found,
                     lock, cdi, kubelet, faults>>
  BY DEF SyncPool, api, plugin
<1>2. /\ CurrentKey(n) \in Keys \cup {None}
      /\ CurrentKey(n) # None => Serves(n, CurrentKey(n))
  BY DEF CurrentKey, Serves, Inv, TypeOK, Pools
<1>3. TypeOK'
  BY <1>1, <1>2 DEF Inv, TypeOK
<1>4. PoolsKept /\ BindingsKept
  BY <1>1 DEF PoolsKept, BindingsKept
<1>5. CacheAgrees'
  <2> SUFFICES ASSUME NEW q \in Replicas, NEW m \in Names \ DeletablePools,
                      cached'[q][m] # None
               PROVE  pools[m] # None /\ pools[m].key = cached'[q][m]
    BY <1>1 DEF CacheAgrees, Serves
  <2>1. CASE q = r /\ m = n
    BY <1>1, <1>2, <2>1 DEF Inv, TypeOK, Serves
  <2>2. CASE ~ (q = r /\ m = n)
    <3>1. cached'[q][m] = cached[q][m]
      BY <1>1, <2>2 DEF Inv, TypeOK
    <3>2. QED
      BY <3>1 DEF Inv, CacheAgrees, Serves
  <2>3. QED
    BY <2>1, <2>2
<1>6. Working' /\ PatchReady'
  BY <1>1 DEF Inv, Working, PatchReady, Serves, Serviceable, PoolName, ClaimKey,
     DecodeKVCachePoolConfig
<1>7. BoundByConfig' /\ BoundPoolServes'
  BY <1>1, <1>4, BoundFrame
<1>8. RequestReads' /\ GeneratedPoolInjected'
  BY <1>1, <1>4, RequestFrame
<1>9. QED
  BY <1>3, <1>4, <1>5, <1>6, <1>7, <1>8 DEF Inv

(***************************************************************************)
(* A change of the leader.                                                 *)
(***************************************************************************)
LEMMA ChangeLeaderInv ==
  ASSUME Inv, NEW r \in Replicas, ChangeLeader(r)
  PROVE  Inv' /\ BindingsKept
<1>1. UNCHANGED <<live, binding, pools, seen, cached, pc, arg, found, lock, cdi,
                  kubelet>>
  BY DEF ChangeLeader, api, caches, plugin
<1>2. PoolsKept
  BY <1>1 DEF PoolsKept
<1>3. leader' \in Replicas /\ queued' \subseteq Claims /\ faults' \in 0 .. MaxFaults
  BY PoolAssumption DEF ChangeLeader, Fault, Inv, TypeOK
<1>4. TypeOK'
  BY <1>1, <1>3 DEF Inv, TypeOK
<1>5. QED
  BY <1>1, <1>2, <1>4, EnvironmentFrame

(***************************************************************************)
(* An update of a flag leaves a pool its type and its key.                 *)
(***************************************************************************)
LEMMA PoolUpdate ==
  ASSUME NEW p \in Pools
  PROVE  /\ [p EXCEPT !.finalizer = TRUE] \in Pools
         /\ [p EXCEPT !.ready = TRUE] \in Pools
         /\ [p EXCEPT !.deleting = TRUE] \in Pools
         /\ [p EXCEPT !.finalizer = TRUE].key = p.key
         /\ [p EXCEPT !.ready = TRUE].key = p.key
         /\ [p EXCEPT !.deleting = TRUE].key = p.key
BY DEF Pools

(***************************************************************************)
(* What happens to one pool: it stays a pool, and only a deletion takes it *)
(* away.                                                                   *)
(***************************************************************************)
LEMMA PoolStepKeeps ==
  ASSUME Inv, NEW n \in Names, PoolStep(n)
  PROVE  pools' \in [Names -> Pools \cup {None}] /\ PoolsKept
<1>1. CASE \E k \in Keys : AdminCreates(n, k)
  BY <1>1, NewPoolKept DEF Inv, AdminCreates
<1>2. ASSUME NEW p \in Pools, pools' = [pools EXCEPT ![n] = p],
             pools[n] # None, p.key = pools[n].key
      PROVE  pools' \in [Names -> Pools \cup {None}] /\ PoolsKept
  <2>1. p # None
    BY PoolAssumption
  <2>2. QED
    BY <1>2, <2>1 DEF Inv, TypeOK, PoolsKept
<1>3. pools[n] # None =>
         /\ [pools[n] EXCEPT !.finalizer = TRUE] \in Pools
         /\ [pools[n] EXCEPT !.ready = TRUE] \in Pools
         /\ [pools[n] EXCEPT !.deleting = TRUE] \in Pools
         /\ [pools[n] EXCEPT !.finalizer = TRUE].key = pools[n].key
         /\ [pools[n] EXCEPT !.ready = TRUE].key = pools[n].key
         /\ [pools[n] EXCEPT !.deleting = TRUE].key = pools[n].key
  <2>1. pools[n] # None => pools[n] \in Pools
    BY DEF Inv, TypeOK
  <2>2. QED
    BY <2>1, PoolUpdate
<1>4. CASE AddFinalizer(n)
  BY <1>2, <1>3, <1>4 DEF AddFinalizer
<1>5. CASE PoolReady(n)
  BY <1>2, <1>3, <1>5 DEF PoolReady
<1>6. CASE DeletePool(n)
  <2>1. CASE pools[n].finalizer
    BY <1>2, <1>3, <1>6, <2>1 DEF DeletePool
  <2>2. CASE ~ pools[n].finalizer
    BY <1>6, <2>2 DEF DeletePool, Inv, TypeOK, PoolsKept
  <2>3. QED
    BY <2>1, <2>2
<1>7. QED
  BY <1>1, <1>4, <1>5, <1>6 DEF PoolStep

(***************************************************************************)
(* Nothing else changes with it.                                           *)
(***************************************************************************)
LEMMA PoolStepInv ==
  ASSUME Inv, NEW n \in Names, PoolStep(n)
  PROVE  Inv' /\ BindingsKept
<1>1. UNCHANGED <<live, binding, leader, queued, seen, cached, pc, arg, found, lock,
                  cdi, kubelet, faults>>
  BY DEF PoolStep, AddFinalizer, PoolReady, DeletePool, AdminCreates, caches, plugin
<1>2. pools' \in [Names -> Pools \cup {None}] /\ PoolsKept
  BY PoolStepKeeps
<1>3. TypeOK'
  BY <1>1, <1>2 DEF Inv, TypeOK
<1>4. QED
  BY <1>1, <1>2, <1>3, EnvironmentFrame

(***************************************************************************)
(* A claim is deleted, and its binding with it.                            *)
(***************************************************************************)
LEMMA DeleteClaimInv ==
  ASSUME Inv, NEW c \in Claims, DeleteClaim(c)
  PROVE  Inv' /\ BindingsKept
<1>1. UNCHANGED <<binding, pools, leader, queued, seen, cached, pc, arg, found, lock,
                  cdi, kubelet, faults>>
  BY DEF DeleteClaim, caches, plugin
<1>2. PoolsKept
  BY <1>1 DEF PoolsKept
<1>3. TypeOK'
  BY <1>1 DEF Inv, TypeOK, DeleteClaim
<1>4. QED
  BY <1>1, <1>2, <1>3, EnvironmentFrame

-----------------------------------------------------------------------------
(* The kubelet plugin.                                                     *)

(***************************************************************************)
(* A step of one request: what remains is about that request.              *)
(***************************************************************************)
LEMMA PluginFrame ==
  ASSUME Inv, NEW h \in Handlers, OnlyMoves(h), TypeOK',
         UNCHANGED <<pools, binding, cached>>,
         \A g \in Handlers \ {h} : found'[g] = found[g],
         pc'[h] \in PluginSteps \cup {"idle"},
         pc'[h] # "idle" => arg'[h] \in Claims,
         pc'[h] \in {"pLock", "getReady"} =>
            found'[h].name \in {None, binding[arg'[h]]},
         pc'[h] = "writeSpec" =>
            /\ found'[h] \in [name : Names, key : Keys]
            /\ (Generated(arg'[h]) /\ found'[h].name \notin DeletablePools) =>
                  /\ found'[h].name = binding[arg'[h]]
                  /\ found'[h].key = ClaimKey(arg'[h]),
         GeneratedPoolInjected'
  PROVE  Inv' /\ BindingsKept
<1>1. \A r \in Replicas : pc'[r] = pc[r] /\ arg'[r] = arg[r]
  BY PoolAssumption DEF OnlyMoves, Workers
<1>2. \A g \in Handlers \ {h} : pc'[g] = pc[g] /\ arg'[g] = arg[g]
  BY DEF OnlyMoves, Workers
<1>3. PoolsKept /\ BindingsKept
  BY DEF PoolsKept, BindingsKept
<1>4. CacheAgrees' /\ BoundByConfig' /\ BoundPoolServes'
  BY <1>3, CacheFrame, BoundFrame
<1>5. PatchReady'
  BY <1>1, <1>3, PatchFrame DEF PatchReady, PoolName, DecodeKVCachePoolConfig
<1>6. Working'
  BY <1>1, <1>2 DEF Inv, Working, Serviceable, DecodeKVCachePoolConfig
<1>7. RequestReads'
  <2> SUFFICES ASSUME NEW g \in Handlers
      PROVE /\ pc'[g] \in {"pLock", "getReady"} =>
                  found'[g].name \in {None, binding[arg'[g]]}
            /\ pc'[g] = "writeSpec" =>
                  /\ found'[g] \in [name : Names, key : Keys]
                  /\ (Generated(arg'[g]) /\ found'[g].name \notin DeletablePools) =>
                        /\ found'[g].name = binding[arg'[g]]
                        /\ found'[g].key = ClaimKey(arg'[g])
    BY DEF RequestReads, Generated, OneConfig, ClaimKey, DecodeKVCachePoolConfig
  <2>1. CASE g = h
    BY <2>1
  <2>2. CASE g # h
    BY <1>2, <2>2 DEF Inv, RequestReads
  <2>3. QED
    BY <2>1, <2>2
<1>8. QED
  BY <1>3, <1>4, <1>5, <1>6, <1>7 DEF Inv

(***************************************************************************)
(* While neither CDI files nor bindings change, nothing else is injected.  *)
(***************************************************************************)
LEMMA InjectedFrame ==
  ASSUME Inv, UNCHANGED <<cdi, binding>>
  PROVE  GeneratedPoolInjected'
BY DEF Inv, GeneratedPoolInjected, ClaimKey, OneConfig, DecodeKVCachePoolConfig

(***************************************************************************)
(* Answer frees the request and the lock.                                  *)
(***************************************************************************)
LEMMA AnswerFrees ==
  ASSUME TypeOK, NEW h \in Handlers, arg[h] \in Claims,
         NEW result \in {"none", "prepared", "failed"}, Answer(h, result)
  PROVE  /\ pc' \in [Workers -> ReconcileSteps \cup PluginSteps \cup {"idle"}]
         /\ arg' \in [Workers -> Claims \cup {None}]
         /\ found' \in [Handlers -> [name : Names \cup {None}, key : Keys \cup {None}]]
         /\ lock' \in Handlers \cup {None}
         /\ kubelet' \in [Claims -> {"none", "busy", "prepared", "failed"}]
         /\ pc'[h] = "idle"
         /\ OnlyMoves(h)
         /\ \A g \in Handlers \ {h} : found'[g] = found[g]
<1>1. /\ pc' = [pc EXCEPT ![h] = "idle"]
      /\ arg' = [arg EXCEPT ![h] = None]
      /\ found' = [found EXCEPT ![h] = NothingFound]
      /\ lock' = IF lock = h THEN None ELSE lock
      /\ kubelet' = [kubelet EXCEPT ![arg[h]] = result]
  BY DEF Answer, Goto
<1>2. NothingFound \in [name : Names \cup {None}, key : Keys \cup {None}]
  BY DEF NothingFound
<1>3. h \in Workers
  BY DEF Workers
<1>4. QED
  BY <1>1, <1>2, <1>3 DEF TypeOK, OnlyMoves

(***************************************************************************)
(* A request is answered without a change of the CDI files, or with the    *)
(* removal of one.                                                         *)
(***************************************************************************)
LEMMA AnswerInv ==
  ASSUME Inv, NEW h \in Handlers, pc[h] # "idle",
         NEW result \in {"none", "prepared", "failed"}, Answer(h, result),
         UNCHANGED <<live, binding, pools, leader, queued, seen, cached>>,
         faults' \in 0 .. MaxFaults,
         cdi' \in [Claims -> [name : Names, key : Keys] \cup {None}],
         GeneratedPoolInjected'
  PROVE  Inv' /\ BindingsKept
<1>1. TypeOK /\ arg[h] \in Claims
  BY DEF Inv, Working
<1>2. /\ pc' \in [Workers -> ReconcileSteps \cup PluginSteps \cup {"idle"}]
      /\ arg' \in [Workers -> Claims \cup {None}]
      /\ found' \in [Handlers -> [name : Names \cup {None}, key : Keys \cup {None}]]
      /\ lock' \in Handlers \cup {None}
      /\ kubelet' \in [Claims -> {"none", "busy", "prepared", "failed"}]
      /\ pc'[h] = "idle"
      /\ OnlyMoves(h)
      /\ \A g \in Handlers \ {h} : found'[g] = found[g]
  BY <1>1, AnswerFrees
<1>3. TypeOK'
  BY <1>1, <1>2 DEF TypeOK
<1>4. QED
  BY <1>2, <1>3, PluginFrame

(***************************************************************************)
(* The kubelet calls the plugin.                                           *)
(***************************************************************************)
LEMMA RequestStartsInv ==
  ASSUME Inv, NEW h \in Handlers, NEW c \in Claims,
         PrepareResourceClaims(h, c) \/ UnprepareResourceClaims(h, c)
  PROVE  Inv' /\ BindingsKept
<1>1. UNCHANGED <<live, binding, pools, leader, queued, seen, cached, lock, cdi,
                  faults>>
  BY DEF PrepareResourceClaims, UnprepareResourceClaims, api, caches
<1>2. GeneratedPoolInjected'
  BY <1>1, InjectedFrame
<1>3. h \in Workers /\ TypeOK
  BY DEF Workers, Inv
<1>4. CASE PrepareResourceClaims(h, c)
  <2>1. /\ pc' = [pc EXCEPT ![h] = "pLock"]
        /\ arg' = [arg EXCEPT ![h] = c]
        /\ found' = [found EXCEPT ![h] = [name |-> binding[c], key |-> None]]
        /\ kubelet' = [kubelet EXCEPT ![c] = "busy"]
    BY <1>4 DEF PrepareResourceClaims, Goto
  <2>2. [name |-> binding[c], key |-> None]
           \in [name : Names \cup {None}, key : Keys \cup {None}]
    BY <1>3 DEF TypeOK
  <2>3. TypeOK'
    BY <1>1, <1>3, <2>1, <2>2 DEF TypeOK, PluginSteps
  <2>4. /\ OnlyMoves(h) /\ pc'[h] = "pLock" /\ arg'[h] = c
        /\ found'[h].name = binding[c]
        /\ \A g \in Handlers \ {h} : found'[g] = found[g]
    BY <1>3, <2>1 DEF TypeOK, OnlyMoves
  <2>5. QED
    BY <1>1, <1>2, <2>3, <2>4, PluginFrame DEF PluginSteps
<1>5. CASE UnprepareResourceClaims(h, c)
  <2>1. /\ pc' = [pc EXCEPT ![h] = "uLock"]
        /\ arg' = [arg EXCEPT ![h] = c]
        /\ found' = found
        /\ kubelet' = [kubelet EXCEPT ![c] = "busy"]
    BY <1>5 DEF UnprepareResourceClaims, Goto
  <2>2. TypeOK'
    BY <1>1, <1>3, <2>1 DEF TypeOK, PluginSteps
  <2>3. OnlyMoves(h) /\ pc'[h] = "uLock" /\ arg'[h] = c
    BY <1>3, <2>1 DEF TypeOK, OnlyMoves
  <2>4. QED
    BY <1>1, <1>2, <2>1, <2>2, <2>3, PluginFrame DEF PluginSteps
<1>6. QED
  BY <1>4, <1>5

(***************************************************************************)
(* A request takes the lock of the plugin.                                 *)
(***************************************************************************)
LEMMA AcquireInv ==
  ASSUME Inv, NEW h \in Handlers, Acquire(h)
  PROVE  Inv' /\ BindingsKept
<1>1. /\ UNCHANGED <<live, binding, pools, leader, queued, seen, cached, arg, found,
                     cdi, kubelet, faults>>
      /\ lock' = h
      /\ pc[h] \in {"pLock", "uLock"}
      /\ pc' = [pc EXCEPT ![h] = IF pc[h] = "pLock" THEN "getReady" ELSE "removeSpec"]
  BY DEF Acquire, Goto, api, caches
<1>2. GeneratedPoolInjected'
  BY <1>1, InjectedFrame
<1>3. h \in Workers /\ TypeOK /\ arg[h] \in Claims
  BY <1>1 DEF Workers, Inv, Working
<1>4. TypeOK'
  BY <1>1, <1>3 DEF TypeOK, PluginSteps
<1>5. /\ OnlyMoves(h) /\ pc'[h] \in {"getReady", "removeSpec"} /\ arg'[h] = arg[h]
      /\ pc'[h] = "getReady" => pc[h] = "pLock"
  BY <1>1, <1>3 DEF TypeOK, OnlyMoves
<1>6. pc'[h] = "getReady" => found[h].name \in {None, binding[arg[h]]}
  BY <1>5 DEF Inv, RequestReads
<1>7. QED
  BY <1>1, <1>2, <1>3, <1>4, <1>5, <1>6, PluginFrame DEF PluginSteps

(***************************************************************************)
(* The pool a request reads: for a claim without an explicit name it is    *)
(* the bound one, which is compatible.                                     *)
(***************************************************************************)
LEMMA GetReadyPoolInv ==
  ASSUME Inv, NEW h \in Handlers, GetReadyPool(h)
  PROVE  Inv' /\ BindingsKept
<1> DEFINE c == arg[h]
           cfg == PluginConfig(c)
           name == ResolvedPoolName(cfg, found[h].name)
<1>1. /\ UNCHANGED <<live, binding, pools, leader, queued, seen, cached, cdi, faults>>
      /\ pc[h] = "getReady"
  BY DEF GetReadyPool, api, caches
<1>2. GeneratedPoolInjected'
  BY <1>1, InjectedFrame
<1>3. h \in Workers /\ TypeOK /\ c \in Claims
  BY <1>1 DEF Workers, Inv, Working
<1>4. CASE Answer(h, "failed")
  BY <1>1, <1>2, <1>3, <1>4, AnswerInv DEF TypeOK
<1>5. CASE /\ cfg # None /\ cfg.valid /\ ReadyPool(name)
           /\ found' = [found EXCEPT ![h] = [name |-> name, key |-> pools[name].key]]
           /\ Goto(h, "writeSpec")
           /\ UNCHANGED <<arg, lock, kubelet>>
  <2>1. cfg \in Configs
    BY <1>3, <1>5, PluginConfigs
  <2>2. name \in Names /\ pools[name] # None
    BY <1>3, <1>5, <2>1 DEF ReadyPool, ResolvedPoolName, Configs, TypeOK
  <2>3. pools[name].key \in Keys
    BY <1>3, <2>2 DEF TypeOK, Pools
  <2>4. [name |-> name, key |-> pools[name].key] \in [name : Names, key : Keys]
    BY <2>2, <2>3
  <2>5. ASSUME Generated(c), name \notin DeletablePools
        PROVE  name = binding[c] /\ pools[name].key = ClaimKey(c)
    <3>1. cfg.pool = None
      BY <1>3, <2>5, PluginConfigs DEF Generated
    <3>2. name = found[h].name
      BY <3>1 DEF ResolvedPoolName
    <3>3. name = binding[c]
      BY <1>1, <2>2, <3>2, PoolAssumption DEF Inv, RequestReads
    <3>4. Bound(c)
      BY <2>2, <3>3, PoolAssumption DEF Bound
    <3>5. QED
      BY <1>3, <2>5, <3>3, <3>4 DEF Inv, BoundPoolServes
  <2>6. /\ pc' = [pc EXCEPT ![h] = "writeSpec"]
        /\ found' \in [Handlers -> [name : Names \cup {None}, key : Keys \cup {None}]]
        /\ found'[h] = [name |-> name, key |-> pools[name].key]
        /\ \A g \in Handlers \ {h} : found'[g] = found[g]
    BY <1>3, <1>5, <2>2, <2>3 DEF TypeOK, Goto
  <2>7. TypeOK'
    BY <1>1, <1>3, <1>5, <2>6 DEF TypeOK, PluginSteps
  <2>8. OnlyMoves(h) /\ pc'[h] = "writeSpec" /\ arg'[h] = c
    BY <1>3, <1>5, <2>6 DEF TypeOK, OnlyMoves
  <2>9. found'[h].name = name /\ found'[h].key = pools[name].key
    BY <2>6
  <2>10. QED
    BY <1>1, <1>2, <1>3, <2>4, <2>5, <2>6, <2>7, <2>8, <2>9, PluginFrame
       DEF PluginSteps
<1>6. QED
  BY <1>4, <1>5 DEF GetReadyPool

(***************************************************************************)
(* A request writes the CDI file of its claim.                             *)
(***************************************************************************)
LEMMA CreateClaimSpecFileInv ==
  ASSUME Inv, NEW h \in Handlers, CreateClaimSpecFile(h)
  PROVE  Inv' /\ BindingsKept
<1> DEFINE c == arg[h]
<1>1. /\ UNCHANGED <<live, binding, pools, leader, queued, seen, cached, faults>>
      /\ pc[h] = "writeSpec"
      /\ cdi' = [cdi EXCEPT ![c] = found[h]]
      /\ Answer(h, "prepared")
  BY DEF CreateClaimSpecFile, api, caches
<1>2. TypeOK /\ c \in Claims
  BY <1>1 DEF Inv, Working
<1>3. /\ found[h] \in [name : Names, key : Keys]
      /\ (Generated(c) /\ found[h].name \notin DeletablePools) =>
            found[h].name = binding[c] /\ found[h].key = ClaimKey(c)
  BY <1>1 DEF Inv, RequestReads
<1>4. cdi' \in [Claims -> [name : Names, key : Keys] \cup {None}]
  BY <1>1, <1>2, <1>3 DEF TypeOK
<1>5. GeneratedPoolInjected'
  <2> SUFFICES ASSUME NEW d \in Claims, Generated(d), cdi'[d] # None,
                      cdi'[d].name \notin DeletablePools
               PROVE  cdi'[d].name = binding[d] /\ cdi'[d].key = ClaimKey(d)
    BY <1>1 DEF GeneratedPoolInjected, Generated, OneConfig, ClaimKey,
       DecodeKVCachePoolConfig
  <2>1. CASE d = c
    BY <1>1, <1>2, <1>3, <2>1 DEF TypeOK
  <2>2. CASE d # c
    BY <1>1, <1>2, <2>2 DEF Inv, TypeOK, GeneratedPoolInjected, Generated
  <2>3. QED
    BY <2>1, <2>2
<1>6. QED
  BY <1>1, <1>2, <1>4, <1>5, AnswerInv DEF TypeOK

(***************************************************************************)
(* A request removes the CDI file of its claim.                            *)
(***************************************************************************)
LEMMA DeleteClaimSpecFileInv ==
  ASSUME Inv, NEW h \in Handlers, DeleteClaimSpecFile(h)
  PROVE  Inv' /\ BindingsKept
<1>1. /\ UNCHANGED <<live, binding, pools, leader, queued, seen, cached, faults>>
      /\ pc[h] = "removeSpec"
      /\ cdi' = [cdi EXCEPT ![arg[h]] = None]
      /\ Answer(h, "none")
  BY DEF DeleteClaimSpecFile, api, caches
<1>2. TypeOK /\ arg[h] \in Claims
  BY <1>1 DEF Inv, Working
<1>3. cdi' \in [Claims -> [name : Names, key : Keys] \cup {None}]
  BY <1>1, <1>2 DEF TypeOK
<1>4. \A d \in Claims : cdi'[d] # None => cdi'[d] = cdi[d]
  BY <1>1, <1>2 DEF TypeOK
<1>5. GeneratedPoolInjected'
  BY <1>1, <1>4 DEF Inv, GeneratedPoolInjected, OneConfig, ClaimKey,
     DecodeKVCachePoolConfig
<1>6. QED
  BY <1>1, <1>2, <1>3, <1>5, AnswerInv DEF TypeOK

(***************************************************************************)
(* A request that fails.                                                   *)
(***************************************************************************)
LEMMA RequestFailsInv ==
  ASSUME Inv, NEW h \in Handlers, RequestFails(h)
  PROVE  Inv' /\ BindingsKept
<1>1. /\ UNCHANGED <<live, binding, pools, leader, queued, seen, cached, cdi>>
      /\ pc[h] # "idle"
      /\ Answer(h, "failed")
  BY DEF RequestFails, api, caches, PluginSteps
<1>2. faults' \in 0 .. MaxFaults
  BY PoolAssumption DEF Inv, TypeOK, RequestFails, Fault
<1>3. GeneratedPoolInjected'
  BY <1>1, InjectedFrame
<1>4. QED
  BY <1>1, <1>2, <1>3, AnswerInv DEF Inv, TypeOK

-----------------------------------------------------------------------------
(* Theorems.                                                               *)

(***************************************************************************)
(* The invariant is inductive, and no step of anyone changes a binding.    *)
(***************************************************************************)
LEMMA NextInv == Inv /\ [Next]_vars => Inv' /\ BindingsKept
<1> SUFFICES ASSUME Inv, [Next]_vars PROVE Inv' /\ BindingsKept
  OBVIOUS
<1>1. ASSUME NEW r \in Replicas, ReconcileStep(r)
      PROVE  Inv' /\ BindingsKept
  BY <1>1, ReconcileStepInv, GetPoolInv, CreatePoolInv, RegetPoolInv, PatchClaimInv
     DEF ReconcileStep
<1>2. ASSUME NEW r \in Replicas, CacheStep(r)
      PROVE  Inv' /\ BindingsKept
  BY <1>2, SyncClaimInv, SyncPoolInv DEF CacheStep
<1>3. ASSUME NEW h \in Handlers, PluginStep(h)
      PROVE  Inv' /\ BindingsKept
  BY <1>3, RequestStartsInv, AcquireInv, GetReadyPoolInv, CreateClaimSpecFileInv,
     DeleteClaimSpecFileInv, RequestFailsInv DEF PluginStep
<1>4. CASE UNCHANGED vars
  <2>1. UNCHANGED <<live, binding, pools, leader, queued, seen, cached, pc, arg,
                    found, lock, cdi, kubelet, faults>>
    BY <1>4 DEF vars, api, caches, plugin
  <2>2. PoolsKept /\ TypeOK'
    BY <2>1 DEF PoolsKept, Inv, TypeOK
  <2>3. QED
    BY <2>1, <2>2, EnvironmentFrame
<1>5. QED
  BY <1>1, <1>2, <1>3, <1>4, WriteFailsInv, ChangeLeaderInv, PoolStepInv,
     DeleteClaimInv DEF Next

(***************************************************************************)
(* Every reachable state satisfies the inductive invariant.                *)
(***************************************************************************)
THEOREM Invariance == Spec => []Inv
<1>1. Init => Inv
  BY InitInv
<1>2. Inv /\ [Next]_vars => Inv'
  BY NextInv
<1>3. QED
  BY <1>1, <1>2, PTL DEF Spec

(***************************************************************************)
(* Every variable keeps its type.                                          *)
(***************************************************************************)
THEOREM TypeCorrect == Spec => []TypeOK
<1>1. Inv => TypeOK
  BY DEF Inv
<1>2. QED
  BY <1>1, Invariance, PTL

(***************************************************************************)
(* The pool a claim is bound to exists and is compatible, unless somebody  *)
(* deletes it: whatever the caches lag, whoever wins the create race.      *)
(***************************************************************************)
THEOREM BoundPoolsServe == Spec => []BoundPoolServes
<1>1. Inv => BoundPoolServes
  BY DEF Inv
<1>2. QED
  BY <1>1, Invariance, PTL

(***************************************************************************)
(* The plugin injects the pool that getOrCreatePool bound the claim to.    *)
(***************************************************************************)
THEOREM InjectedPoolIsBound == Spec => []GeneratedPoolInjected
<1>1. Inv => GeneratedPoolInjected
  BY DEF Inv
<1>2. QED
  BY <1>1, Invariance, PTL

(***************************************************************************)
(* Reconciling a bound claim again, from a stale cache, changes nothing.   *)
(***************************************************************************)
THEOREM BindingIsFinal == Spec => BoundOnce
<1>1. Inv /\ [Next]_vars =>
        [\A c \in Claims : Bound(c) => binding'[c] = binding[c]]_vars
  BY NextInv DEF BindingsKept
<1>2. QED
  BY <1>1, Invariance, PTL DEF Spec, BoundOnce

-----------------------------------------------------------------------------
(* No claim is dropped: the state in which the reconcilers leave a claim   *)
(* always has a next step for it. What is left of NoClaimForgotten is      *)
(* fairness.                                                               *)

(***************************************************************************)
(* A cache has a claim as bound, or gone, only when it is.                 *)
(***************************************************************************)
SeenAgrees ==
  \A r \in Replicas : \A c \in Claims : seen[r][c] # None => Bound(c) \/ c \notin live

(***************************************************************************)
(* The claims the controller still has to bind: NoClaimForgotten's, for    *)
(* names of pools that nobody deletes.                                     *)
(***************************************************************************)
Pending(c) ==
  /\ Serviceable(c)
  /\ PoolName(c) \notin DeletablePools
  /\ c \in live
  /\ ~ Bound(c)
  /\ ~ NameTaken(c)

(***************************************************************************)
(* The leader has such a claim in its queue or in its hands.               *)
(***************************************************************************)
Remembered(c) == c \in queued \/ (pc[leader] # "idle" /\ arg[leader] = c)

NoneDropped == \A c \in Claims : Pending(c) => Remembered(c)

(***************************************************************************)
(* Pools that nobody deletes stay, with their keys, whoever takes a step.  *)
(***************************************************************************)
LEMMA NextKeepsPools ==
  ASSUME Inv, [Next]_vars
  PROVE  PoolsKept
<1>1. ASSUME NEW r \in Replicas, CreatePool(r) \/ WriteFails(r)
      PROVE  PoolsKept
  <2>1. CASE UNCHANGED pools
    BY <2>1 DEF PoolsKept
  <2>2. CASE ~ UNCHANGED pools
    <3>1. /\ pc[r] # "idle"
          /\ pools[PoolName(arg[r])] = None
          /\ pools' = [pools EXCEPT ![PoolName(arg[r])] = NewPool(ClaimKey(arg[r]))]
      BY <1>1, <2>2 DEF CreatePool, WriteFails
    <3>2. arg[r] \in Claims /\ Serviceable(arg[r])
      BY <3>1 DEF Inv, Working
    <3>3. PoolName(arg[r]) \in Names /\ ClaimKey(arg[r]) \in Keys
      BY <3>2, ServiceableConfig
    <3>4. QED
      BY <3>1, <3>3, NewPoolKept DEF Inv
  <2>3. QED
    BY <2>1, <2>2
<1>2. ASSUME NEW r \in Replicas,
             \/ \E c \in Claims : Reconcile(r, c)
             \/ GetPool(r) \/ RegetPool(r) \/ PatchClaim(r)
             \/ CacheStep(r) \/ ChangeLeader(r)
      PROVE  PoolsKept
  BY <1>2 DEF Reconcile, GetPool, RegetPool, PatchClaim, CacheStep, SyncClaim, SyncPool,
     ChangeLeader, api, PoolsKept
<1>3. ASSUME NEW n \in Names, PoolStep(n)
      PROVE  PoolsKept
  BY <1>3, PoolStepKeeps
<1>4. ASSUME NEW c \in Claims, DeleteClaim(c)
      PROVE  PoolsKept
  BY <1>4 DEF DeleteClaim, PoolsKept
<1>5. ASSUME NEW h \in Handlers, PluginStep(h)
      PROVE  PoolsKept
  BY <1>5 DEF PluginStep, PrepareResourceClaims, UnprepareResourceClaims, Acquire,
     GetReadyPool, CreateClaimSpecFile, DeleteClaimSpecFile, RequestFails, api, PoolsKept
<1>6. CASE UNCHANGED vars
  BY <1>6 DEF vars, api, PoolsKept
<1>7. QED
  BY <1>1, <1>2, <1>3, <1>4, <1>5, <1>6 DEF Next, ReconcileStep

(***************************************************************************)
(* Claims only go away: none comes back under a cache.                     *)
(***************************************************************************)
LEMMA LiveShrinks ==
  ASSUME [Next]_vars
  PROVE  live' \subseteq live
<1>1. ASSUME NEW r \in Replicas,
             ReconcileStep(r) \/ WriteFails(r) \/ CacheStep(r) \/ ChangeLeader(r)
      PROVE  live' \subseteq live
  BY <1>1 DEF ReconcileStep, Reconcile, GetPool, CreatePool, RegetPool, PatchClaim,
     WriteFails, CacheStep, SyncClaim, SyncPool, ChangeLeader, api
<1>2. ASSUME NEW n \in Names, PoolStep(n)
      PROVE  live' \subseteq live
  BY <1>2 DEF PoolStep, AddFinalizer, PoolReady, DeletePool, AdminCreates
<1>3. ASSUME NEW c \in Claims, DeleteClaim(c)
      PROVE  live' \subseteq live
  BY <1>3 DEF DeleteClaim
<1>4. ASSUME NEW h \in Handlers, PluginStep(h)
      PROVE  live' \subseteq live
  BY <1>4 DEF PluginStep, PrepareResourceClaims, UnprepareResourceClaims, Acquire,
     GetReadyPool, CreateClaimSpecFile, DeleteClaimSpecFile, RequestFails, api
<1>5. CASE UNCHANGED vars
  BY <1>5 DEF vars, api
<1>6. QED
  BY <1>1, <1>2, <1>3, <1>4, <1>5 DEF Next

(***************************************************************************)
(* A claim that is pending after a step was pending before it.             *)
(***************************************************************************)
LEMMA PendingBefore ==
  ASSUME Inv, [Next]_vars, NEW c \in Claims, Pending(c)'
  PROVE  Pending(c)
<1>1. PoolsKept /\ BindingsKept /\ live' \subseteq live
  BY NextKeepsPools, NextInv, LiveShrinks
<1>2. Serviceable(c) /\ PoolName(c) \notin DeletablePools
  BY DEF Pending, Serviceable, PoolName, DecodeKVCachePoolConfig
<1>3. c \in live /\ ~ Bound(c)
  BY <1>1 DEF Pending, BindingsKept, Bound
<1>4. PoolName(c) \in Names
  BY <1>2, ServiceableConfig
<1>5. (pools'[PoolName(c)] = None) \/ (pools'[PoolName(c)].key = ClaimKey(c))
  <2>1. pools'[PoolName(c)] \in Pools \cup {None}
    BY <1>4, NextInv DEF Inv, TypeOK
  <2>2. pools'[PoolName(c)] # None => pools'[PoolName(c)].key # None
    BY <2>1, PoolAssumption DEF Pools
  <2>3. QED
    BY <2>2 DEF Pending, NameTaken, CurrentKey, PoolName, ClaimKey, DecodeKVCachePoolConfig
<1>6. ~ NameTaken(c)
  BY <1>1, <1>2, <1>4, <1>5 DEF NameTaken, CurrentKey, PoolsKept
<1>7. QED
  BY <1>2, <1>3, <1>6 DEF Pending

(***************************************************************************)
(* The caches never run ahead of the claims.                               *)
(***************************************************************************)
LEMMA SeenStep ==
  ASSUME Inv, SeenAgrees, [Next]_vars
  PROVE  SeenAgrees'
<1>1. BindingsKept /\ live' \subseteq live
  BY NextInv, LiveShrinks
<1>2. ASSUME UNCHANGED seen PROVE SeenAgrees'
  BY <1>1, <1>2 DEF SeenAgrees, BindingsKept, Bound
<1>3. ASSUME NEW r \in Replicas, NEW c \in Claims, SyncClaim(r, c)
      PROVE  SeenAgrees'
  <2>1. UNCHANGED <<live, binding>>
    BY <1>3 DEF SyncClaim, api
  <2>2. seen'[r][c] # None => Bound(c) \/ c \notin live
    BY <1>3 DEF SyncClaim, Inv, TypeOK, Bound
  <2>3. \A q \in Replicas, d \in Claims :
           (q # r \/ d # c) => seen'[q][d] = seen[q][d]
    BY <1>3 DEF SyncClaim, Inv, TypeOK
  <2>4. QED
    BY <2>1, <2>2, <2>3 DEF SeenAgrees, Bound
<1>4. ASSUME NEW r \in Replicas,
             \/ ReconcileStep(r) \/ WriteFails(r) \/ ChangeLeader(r)
             \/ \E n \in Names : SyncPool(r, n)
      PROVE  UNCHANGED seen
  BY <1>4 DEF ReconcileStep, Reconcile, GetPool, CreatePool, RegetPool, PatchClaim,
     WriteFails, SyncPool, ChangeLeader, caches
<1>5. ASSUME NEW n \in Names, PoolStep(n)
      PROVE  UNCHANGED seen
  BY <1>5 DEF PoolStep, AddFinalizer, PoolReady, DeletePool, AdminCreates, caches
<1>6. ASSUME NEW c \in Claims, DeleteClaim(c)
      PROVE  UNCHANGED seen
  BY <1>6 DEF DeleteClaim, caches
<1>7. ASSUME NEW h \in Handlers, PluginStep(h)
      PROVE  UNCHANGED seen
  BY <1>7 DEF PluginStep, PrepareResourceClaims, UnprepareResourceClaims, Acquire,
     GetReadyPool, CreateClaimSpecFile, DeleteClaimSpecFile, RequestFails, caches
<1>8. CASE UNCHANGED vars
  BY <1>2, <1>8 DEF vars, caches
<1>9. QED
  BY <1>2, <1>3, <1>4, <1>5, <1>6, <1>7, <1>8 DEF Next, CacheStep

(***************************************************************************)
(* A step that leaves the leader and its call alone and takes nothing from *)
(* the queue.                                                              *)
(***************************************************************************)
LEMMA RememberedFrame ==
  ASSUME NEW c \in Claims, Remembered(c), leader' = leader, queued \subseteq queued',
         pc'[leader] = pc[leader], arg'[leader] = arg[leader]
  PROVE  Remembered(c)'
BY DEF Remembered

(***************************************************************************)
(* A reconciler's step: on every path on which the leader lets go of a     *)
(* pending claim, the claim is in the queue again.  A terminal error would *)
(* mean that the name is taken, a cached binding that the claim is bound.  *)
(***************************************************************************)
LEMMA ReconcilerRemembers ==
  ASSUME Inv, SeenAgrees, NEW r \in Replicas, ReconcileStep(r) \/ WriteFails(r),
         NEW c \in Claims, Pending(c), Pending(c)', Remembered(c)
  PROVE  Remembered(c)'
<1>0. leader' = leader /\ leader \in Replicas /\ r \in Workers /\ leader \in Workers
  BY DEF Inv, TypeOK, ReconcileStep, Reconcile, GetPool, CreatePool, RegetPool,
     PatchClaim, WriteFails, Workers
<1>1. ASSUME NEW d \in Claims, Reconcile(r, d)
      PROVE  Remembered(c)'
  <2>1. leader = r /\ pc[r] = "idle" /\ c \in queued /\ queued' = queued \ {d}
    BY <1>1 DEF Reconcile, Remembered
  <2>2. CASE d # c
    BY <2>1, <2>2 DEF Remembered
  <2>3. CASE d = c
    <3>1. Serviceable(c) /\ seen[r][c] = None
      BY DEF Pending, SeenAgrees
    <3>2. pc'[r] = "getPool" /\ arg'[r] = c
      BY <1>0, <1>1, <2>3, <3>1 DEF Reconcile, Goto, Inv, TypeOK
    <3>3. QED
      BY <1>0, <2>1, <3>2 DEF Remembered
  <2>4. QED
    BY <2>2, <2>3
<1>2. ASSUME pc[r] # "idle",
             \/ UNCHANGED <<arg, queued>> /\ pc'[r] # "idle"
                  /\ (leader # r => pc'[leader] = pc[leader])
             \/ Finish(r, TRUE)
             \/ Finish(r, FALSE) /\ (leader = r => arg[r] # c)
      PROVE  Remembered(c)'
  <2>1. CASE UNCHANGED <<arg, queued>> /\ pc'[r] # "idle"
               /\ (leader # r => pc'[leader] = pc[leader])
    BY <1>0, <2>1 DEF Remembered
  <2>2. CASE Finish(r, TRUE)
    BY <1>0, <2>2 DEF Finish, Goto, Remembered, Inv, TypeOK
  <2>3. CASE Finish(r, FALSE) /\ (leader = r => arg[r] # c)
    BY <1>0, <2>3 DEF Finish, Goto, Remembered, Inv, TypeOK
  <2>4. QED
    BY <1>2, <2>1, <2>2, <2>3
<1>3. ASSUME NEW s \in ReconcileSteps, Goto(r, s)
      PROVE  pc'[r] # "idle" /\ (leader # r => pc'[leader] = pc[leader])
  BY <1>0, <1>3 DEF Goto, ReconcileSteps, Inv, TypeOK
<1>4. ASSUME pc[r] # "idle", UseCachedPool(r)
      PROVE  Remembered(c)'
  <2>1. CASE Goto(r, "patch") /\ UNCHANGED <<arg, queued>>
    BY <1>2, <1>3, <1>4, <2>1 DEF ReconcileSteps
  <2>2. CASE /\ Finish(r, FALSE)
             /\ cached[r][PoolName(arg[r])] \notin {None, ClaimKey(arg[r])}
    <3>1. ASSUME arg[r] = c PROVE FALSE
      <4>1. PoolName(c) \in Names \ DeletablePools /\ ~ NameTaken(c)
        BY ServiceableConfig DEF Pending
      <4>2. Serves(PoolName(c), cached[r][PoolName(c)])
        BY <2>2, <3>1, <4>1 DEF Inv, CacheAgrees
      <4>3. QED
        BY <2>2, <3>1, <4>1, <4>2 DEF Serves, NameTaken, CurrentKey
    <3>2. QED
      BY <1>2, <1>4, <2>2, <3>1
  <2>3. QED
    BY <1>4, <2>1, <2>2 DEF UseCachedPool
<1>5. CASE GetPool(r)
  BY <1>2, <1>3, <1>4, <1>5 DEF GetPool, ReconcileSteps
<1>6. CASE CreatePool(r)
  BY <1>2, <1>3, <1>6 DEF CreatePool, ReconcileSteps
<1>7. CASE RegetPool(r)
  BY <1>2, <1>4, <1>7 DEF RegetPool
<1>8. CASE PatchClaim(r)
  <2>1. CASE arg[r] = c
    <3>1. c \in live
      BY DEF Pending
    <3>2. binding'[c] = PoolName(c)
      BY <1>8, <2>1, <3>1 DEF PatchClaim, Inv, TypeOK
    <3>3. PoolName(c) # None
      BY ServiceableConfig, PoolAssumption DEF Pending
    <3>4. QED
      BY <3>2, <3>3 DEF Pending, Bound
  <2>2. CASE arg[r] # c
    BY <1>2, <1>8, <2>2 DEF PatchClaim
  <2>3. QED
    BY <2>1, <2>2
<1>9. CASE WriteFails(r)
  BY <1>2, <1>9 DEF WriteFails
<1>10. QED
  BY <1>1, <1>5, <1>6, <1>7, <1>8, <1>9 DEF ReconcileStep

(***************************************************************************)
(* Nor does a lagging cache, a new leader, an administrator, a user or the *)
(* kubelet plugin take a pending claim from the leader.                    *)
(***************************************************************************)
LEMMA NextRemembers ==
  ASSUME Inv, SeenAgrees, NoneDropped, [Next]_vars
  PROVE  NoneDropped'
<1> SUFFICES ASSUME NEW c \in Claims, Pending(c)' PROVE Remembered(c)'
  BY DEF NoneDropped
<1>1. Pending(c)
  BY PendingBefore
<1>2. Remembered(c)
  BY <1>1 DEF NoneDropped
<1>3. leader \in Replicas
  BY DEF Inv, TypeOK
<1>4. ASSUME NEW r \in Replicas, ReconcileStep(r) \/ WriteFails(r)
      PROVE  Remembered(c)'
  BY <1>1, <1>2, <1>4, ReconcilerRemembers
<1>5. ASSUME NEW r \in Replicas, CacheStep(r)
      PROVE  Remembered(c)'
  BY <1>2, <1>5, RememberedFrame DEF CacheStep, SyncClaim, SyncPool
<1>6. ASSUME NEW r \in Replicas, ChangeLeader(r)
      PROVE  Remembered(c)'
  <2>1. seen[r][c] = None
    BY <1>1 DEF Pending, SeenAgrees
  <2>2. c \in queued'
    BY <1>6, <2>1, PoolAssumption DEF ChangeLeader
  <2>3. QED
    BY <2>2 DEF Remembered
<1>7. ASSUME NEW n \in Names, PoolStep(n)
      PROVE  Remembered(c)'
  BY <1>2, <1>7, RememberedFrame DEF PoolStep, AddFinalizer, PoolReady, DeletePool,
     AdminCreates
<1>8. ASSUME NEW d \in Claims, DeleteClaim(d)
      PROVE  Remembered(c)'
  BY <1>2, <1>8, RememberedFrame DEF DeleteClaim
<1>9. ASSUME NEW h \in Handlers, PluginStep(h)
      PROVE  Remembered(c)'
  <2>1. leader # h
    BY <1>3, PoolAssumption
  <2>2. leader' = leader /\ queued' = queued
    BY <1>9 DEF PluginStep, PrepareResourceClaims, UnprepareResourceClaims, Acquire,
       GetReadyPool, CreateClaimSpecFile, DeleteClaimSpecFile, RequestFails
  <2>3. pc'[leader] = pc[leader]
    BY <1>3, <1>9, <2>1 DEF PluginStep, PrepareResourceClaims, UnprepareResourceClaims,
       Acquire, GetReadyPool, CreateClaimSpecFile, DeleteClaimSpecFile, RequestFails,
       Answer, Goto, Inv, TypeOK, Workers
  <2>4. arg'[leader] = arg[leader]
    BY <1>3, <1>9, <2>1 DEF PluginStep, PrepareResourceClaims, UnprepareResourceClaims,
       Acquire, GetReadyPool, CreateClaimSpecFile, DeleteClaimSpecFile, RequestFails,
       Answer, Inv, TypeOK, Workers
  <2>5. QED
    BY <1>2, <2>2, <2>3, <2>4, RememberedFrame
<1>10. CASE UNCHANGED vars
  BY <1>2, <1>10, RememberedFrame DEF vars
<1>11. QED
  BY <1>4, <1>5, <1>6, <1>7, <1>8, <1>9, <1>10 DEF Next

(***************************************************************************)
(* Whatever races getOrCreatePool loses, whichever calls fail, however far *)
(* the caches lag and whoever gets the lease: a claim that is still to be  *)
(* bound is always in the leader's queue or in the leader's hands.         *)
(***************************************************************************)
THEOREM NoClaimDropped == Spec => []NoneDropped
<1>1. Init => SeenAgrees /\ NoneDropped
  BY DEF Init, SeenAgrees, NoneDropped, Remembered
<1>2. Inv /\ SeenAgrees /\ NoneDropped /\ [Next]_vars => SeenAgrees' /\ NoneDropped'
  BY SeenStep, NextRemembers
<1>3. QED
  BY <1>1, <1>2, Invariance, PTL DEF Spec
=============================================================================
