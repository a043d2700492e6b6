---------------------------- MODULE GpuLifecycle ----------------------------
(***************************************************************************)
(* The GPU kubelet plugin (src/cmd/gpu-kubelet-plugin): how it prepares    *)
(* and unprepares the claims of a node, with the three kinds of device it  *)
(* changes the node for.                                                   *)
(*                                                                         *)
(*  - Dynamic MIG: a device is carved out of a GPU in two steps, a GPU     *)
(*    instance (GI) and a compute instance (CI) in it, and is destroyed in *)
(*    the reverse order.                                                   *)
(*  - Passthrough: a GPU is unbound from one driver and bound to another.  *)
(*    While one of its two devices is prepared the other is not advertised.*)
(*  - Sharing: time slices and an MPS control daemon per claim.            *)
(*                                                                         *)
(* Requests hold a file lock for all of their work, so they do not overlap *)
(* each other; but any of their calls can fail, the process can die after  *)
(* every one of them, and what it leaves behind is found again by name or  *)
(* by id, by the next request, by the start of the next process, or by the *)
(* cleanup of stale claims.                                                *)
(***************************************************************************)
EXTENDS Naturals

CONSTANTS
  Handlers,       \* requests of the kubelet that can be in flight
  Cleaners,       \* the goroutine of CheckpointCleanupManager, or none
  Boot,           \* the goroutine of NewDriver
  Claims,
  AdminClaims,    \* claims allocated with AdminAccess
  DeletedClaims,  \* claims that users may delete
  Workloads,      \* the sets of claims users may have, given the gates
  Gpus,
  Devices,        \* device names
  KindOf,         \* the type of each device: "gpu", "mig" or "vfio"
  GpuOf,          \* its parent GPU
  Ids,            \* GPU instance ids of a GPU
  SlicesOf,       \* the memory slices of its placement
  DevicesOf,      \* the allocation results of each claim
  SharingOf,      \* the config of each claim: "default", "long" or "mps"
  GateSets,       \* the feature gates a deployment may ask for
  MaxFaults,      \* bound on failed calls and crashes
  None

Threads == Handlers \cup Cleaners \cup {Boot}

ASSUME ConstantsAssumption ==
  /\ AdminClaims \subseteq Claims
  /\ DeletedClaims \subseteq Claims
  /\ KindOf \in [Devices -> {"gpu", "mig", "vfio"}]
  /\ GpuOf \in [Devices -> Gpus]
  /\ \A d, e \in Devices :  \* a GPU is one device, and one passthrough device
       KindOf[d] # "mig" /\ KindOf[e] = KindOf[d] /\ GpuOf[e] = GpuOf[d] => e = d
  /\ DevicesOf \in [Claims -> SUBSET Devices]
  /\ SharingOf \in [Claims -> {"default", "long", "mps"}]
  /\ GateSets \subseteq
       [dynamicMIG : BOOLEAN, passthrough : BOOLEAN, mps : BOOLEAN, timeSlicing : BOOLEAN]
  /\ MaxFaults \in Nat
  /\ None \notin Claims \cup Threads \cup Ids
  /\ Boot \notin Handlers \cup Cleaners
  /\ Handlers \cap Cleaners = {}

ASSUME WorkloadsAssumption == Workloads \in [GateSets -> SUBSET SUBSET Claims]

VARIABLES
  gates,       \* feature gates of the deployment
  up,          \* TRUE from the start of the process to its end
  lock,        \* holder of the prepare/unprepare file lock
  pc,          \* what each thread does next
  work,        \* the claim a thread works on
  todo,        \* the devices its current loop has left
  checkpoint,  \* state of each claim in the checkpoint file
  recorded,    \* the GI ids in the entries of completed claims
  recycled,    \* claims given a GI id that such an entry still held
  specs,       \* claims with a CDI spec file
  inst,        \* NVML: "none", "gi" (GI only) or "full" (GI and CI)
  gi,          \* NVML: the GI id of each device that exists
  mig,         \* NVML: GPUs in MIG mode
  known,       \* GpuInfo.migEnabled as the process found it at its start
  driver,      \* kernel driver of each GPU: "nvidia", "vfio" or "none"
  daemons,     \* claims with an MPS control daemon deployment
  mode,        \* compute mode of each GPU: "default" or "exclusive"
  slice,       \* time slice of each GPU: "default" or "long"
  alloc,       \* perGPUAllocatable of the process
  published,   \* devices in the published ResourceSlices
  object,      \* ResourceClaim objects: "pending", "allocated" or "deleted"
  kubelet,     \* "none", "asked", "prepared" or "unpreparing"
  faults

idVars == <<gi, recorded, recycled>>
nodeVars == <<inst, mig, driver, daemons, mode, slice>>
procVars == <<up, known, alloc>>
threadVars == <<lock, pc, work, todo>>
worldVars == <<object, kubelet, published>>
vars == <<gates, idVars, nodeVars, procVars, threadVars, checkpoint, specs, worldVars, faults>>

-----------------------------------------------------------------------------
(* Which gates go together, and what a process finds when it starts.       *)

ValidGates(g) ==
  /\ ~ (g.dynamicMIG /\ g.passthrough)
  /\ ~ (g.dynamicMIG /\ g.mps)

OnGpu(g) == {d \in Devices : GpuOf[d] = g}

\* GPUs are seen through NVML, and so with the nvidia driver only; passthrough
\* devices through PCI; MIG profiles and placements are devices of their own.
VisitDevices == {d \in Devices : KindOf[d] = "gpu" /\ driver[GpuOf[d]] = "nvidia"}

InspectMigProfilesAndPlacements == {d \in Devices : KindOf[d] = "mig" /\ gates.dynamicMIG}

EnumerateGpuVfioDevices == {d \in Devices : KindOf[d] = "vfio" /\ gates.passthrough}

EnumerateAllPossibleDevices ==
  VisitDevices \cup InspectMigProfilesAndPlacements \cup EnumerateGpuVfioDevices

Siblings(d) ==
  IF KindOf[d] = "mig" THEN {}
  ELSE {e \in OnGpu(GpuOf[d]) : KindOf[e] # KindOf[d] /\ KindOf[e] # "mig"}

Completed(c) == checkpoint[c] = "completed"

UsedByCompletedClaim(d) == \E c \in Claims : Completed(c) /\ d \in DevicesOf[c]

MigDevices(c) == {d \in DevicesOf[c] : KindOf[d] = "mig"}

GpusOf(c) == {GpuOf[d] : d \in {e \in DevicesOf[c] : KindOf[e] = "gpu"}}

\* deviceLib lists MIG device handles, of which there is one per CI: a GI
\* without a CI is not among them.
Visible(d) == inst[d] = "full"

Init ==
  /\ gates \in {g \in GateSets : ValidGates(g)}
  /\ up = FALSE
  /\ lock = None
  /\ pc = [t \in Threads |-> "idle"]
  /\ work = [t \in Threads |-> None]
  /\ todo = [t \in Threads |-> {}]
  /\ checkpoint = [c \in Claims |-> "none"]
  /\ recorded = [c \in Claims |-> [d \in Devices |-> None]]
  /\ recycled = {}
  /\ specs = {}
  /\ gi = [d \in Devices |-> None]
  /\ inst = [d \in Devices |-> "none"]
  /\ mig = {}
  /\ known = {}
  /\ driver = [g \in Gpus |-> "nvidia"]
  /\ daemons = {}
  /\ mode = [g \in Gpus |-> "default"]
  /\ slice = [g \in Gpus |-> "default"]
  /\ alloc = {}
  /\ published = {}
  /\ \E w \in Workloads[gates] :
        object = [c \in Claims |-> IF c \in w THEN "pending" ELSE "deleted"]
  /\ kubelet = [c \in Claims |-> "none"]
  /\ faults = 0

-----------------------------------------------------------------------------
(* Steps that several operations share.                                    *)

Fault == faults < MaxFaults /\ faults' = faults + 1

At(t, label) == pc[t] = label /\ up

Goto(t, label) == pc' = [pc EXCEPT ![t] = label]

GotoWith(t, label, ds) ==
  /\ Goto(t, label)
  /\ todo' = [todo EXCEPT ![t] = ds]

Leave(t) ==
  /\ pc' = [pc EXCEPT ![t] = "idle"]
  /\ work' = [work EXCEPT ![t] = None]
  /\ todo' = [todo EXCEPT ![t] = {}]
  /\ lock' = IF lock = t THEN None ELSE lock

\* A request fails: the lock is released, and the kubelet or the next round
\* of the cleanup tries again.
Fail(t) == Leave(t) /\ UNCHANGED <<kubelet, checkpoint>>

\* The answer to a request of the kubelet; the cleanup has nobody to answer.
Answer(t, from, to) ==
  kubelet' = IF t \in Handlers /\ kubelet[work[t]] = from
               THEN [kubelet EXCEPT ![work[t]] = to]
               ELSE kubelet

-----------------------------------------------------------------------------
(* Requests and the lock.                                                  *)

InFlight(c) == \E t \in Handlers : work[t] = c

PrepareLabels ==
  {"pLock", "pCheck", "pDelete", "pStart", "pConfig", "pBind", "pDeploy",
   "pReady", "pCreate", "pCompute", "pSpec", "pDone", "pPublish"}
UnprepareLabels ==
  {"uLock", "uCheck", "uVfio", "uBind", "uDelete", "uStop", "uSlice",
   "uSibling", "uSpec", "uForget", "uPublish"}

PrepareResourceClaims(t, c) ==
  /\ At(t, "idle") /\ pc[Boot] = "served"
  /\ object[c] = "allocated"
  /\ kubelet[c] # "unpreparing"
  /\ Goto(t, "pLock")
  /\ work' = [work EXCEPT ![t] = c]
  /\ kubelet' = [kubelet EXCEPT ![c] = IF @ = "none" THEN "asked" ELSE @]
  /\ UNCHANGED <<gates, idVars, nodeVars, procVars, lock, todo, checkpoint,
                 specs, object, published, faults>>

UnprepareResourceClaims(t, c) ==
  /\ At(t, "idle") /\ pc[Boot] = "served"
  /\ kubelet[c] # "none"
  /\ ~ InFlight(c)
  /\ Goto(t, "uLock")
  /\ work' = [work EXCEPT ![t] = c]
  /\ kubelet' = [kubelet EXCEPT ![c] = "unpreparing"]
  /\ UNCHANGED <<gates, idVars, nodeVars, procVars, lock, todo, checkpoint,
                 specs, object, published, faults>>

\* nodePrepareResource and nodeUnprepareResource take the lock for the whole
\* request, and give up after ten seconds.
Acquire(t) ==
  /\ up /\ pc[t] \in {"pLock", "uLock"}
  /\ lock = None
  /\ lock' = t
  /\ Goto(t, IF pc[t] = "pLock" THEN "pCheck" ELSE "uCheck")
  /\ UNCHANGED <<gates, idVars, nodeVars, procVars, work, todo, checkpoint,
                 specs, worldVars, faults>>

AcquireTimeout(t) ==
  /\ up /\ pc[t] \in {"pLock", "uLock"}
  /\ lock # None
  /\ Fail(t)
  /\ UNCHANGED <<gates, idVars, nodeVars, procVars, specs, object, published,
                 faults>>

-----------------------------------------------------------------------------
(* Deleting MIG devices: the rollback of a partial Prepare, Unprepare, and *)
(* the start of a process.                                                 *)

\* The devices of a claim, found by their specification.
FindMigDevBySpec(c) == {d \in MigDevices(c) : Visible(d)}

\* Faulty variant: the devices of completed claims are not spared.
PartialOfAnyClaim(c) == IF gates.dynamicMIG THEN FindMigDevBySpec(c) ELSE {}

\* unpreparePartiallyPrepairedClaim.
Partial(c) ==
  IF gates.dynamicMIG
    THEN {d \in FindMigDevBySpec(c) : ~ UsedByCompletedClaim(d)}
    ELSE {}

\* DestroyUnknownMIGDevices keeps the devices of completed claims.
Unknown == {d \in Devices : Visible(d) /\ ~ UsedByCompletedClaim(d)}

Deleting(t) == up /\ pc[t] \in {"pDelete", "uDelete", "destroy"}

\* What deleteMigDevice finds for a device: the rollback and a new process have
\* looked the device up, but Unprepare goes by the GI id in the checkpoint, and
\* the UUID beside it is not compared.  (The CI id is always 0.)
GetGpuInstanceById(t, d) ==
  IF pc[t] = "uDelete" /\ Completed(work[t])
    THEN {e \in OnGpu(GpuOf[d]) : inst[e] # "none" /\ gi[e] = recorded[work[t]][d]}
    ELSE {d}

DestroyComputeInstance(t, d) ==
  /\ Deleting(t) /\ d \in todo[t]
  /\ \E e \in GetGpuInstanceById(t, d) :
       inst[e] = "full" /\ inst' = [inst EXCEPT ![e] = "gi"]
  /\ UNCHANGED <<gates, idVars, mig, driver, daemons, mode, slice, procVars,
                 threadVars, checkpoint, specs, worldVars, faults>>

\* maybeDisableMigMode asks for MIG mode to be disabled when it sees no MIG
\* device, and it looks only if MIG mode was on when the process started;
\* NVML does not disable it while an instance exists.
MigAfter(g, after) ==
  IF /\ g \in known => \A d \in OnGpu(g) : after[d] # "full"
     /\ \A d \in OnGpu(g) : after[d] = "none"
    THEN mig \ {g}
    ELSE mig

\* An id that is not found leaves nothing to destroy.
DestroyGpuInstance(t, d) ==
  LET found == GetGpuInstanceById(t, d) IN
  /\ Deleting(t) /\ d \in todo[t] /\ \A e \in found : inst[e] # "full"
  /\ inst' = [e \in Devices |-> IF e \in found THEN "none" ELSE inst[e]]
  /\ gi' = [e \in Devices |-> IF e \in found THEN None ELSE gi[e]]
  /\ mig' = MigAfter(GpuOf[d], inst')
  /\ todo' = [todo EXCEPT ![t] = @ \ {d}]
  /\ UNCHANGED <<gates, recorded, recycled, driver, daemons, mode, slice,
                 procVars, lock, pc, work, checkpoint, specs, worldVars,
                 faults>>

\* "In use by another client", at any point.
DeleteFails(t) ==
  /\ Deleting(t) /\ pc[t] # "destroy"
  /\ Fault /\ Fail(t)
  /\ UNCHANGED <<gates, idVars, nodeVars, procVars, specs, object, published>>

\* Faulty variant: also what a claim that is not completed may not have.
DeleteDoneAny(t) ==
  /\ Deleting(t) /\ pc[t] # "destroy"
  /\ todo[t] = {}
  /\ Goto(t, IF pc[t] = "pDelete" THEN "pStart" ELSE "uStop")
  /\ UNCHANGED <<gates, idVars, nodeVars, procVars, lock, work, todo,
                 checkpoint, specs, worldVars, faults>>

DeleteDone(t) ==
  /\ Deleting(t) /\ pc[t] # "destroy"
  /\ todo[t] = {}
  /\ Goto(t, CASE pc[t] = "pDelete" -> "pStart"
               [] pc[t] = "uDelete" /\ Completed(work[t]) -> "uStop"
               [] OTHER -> "uSpec")
  /\ UNCHANGED <<gates, idVars, nodeVars, procVars, lock, work, todo,
                 checkpoint, specs, worldVars, faults>>

-----------------------------------------------------------------------------
(* Prepare.                                                                *)

NonAdminDevices(c) == IF c \in AdminClaims THEN {} ELSE DevicesOf[c]

Conflict(c, e) == c # e /\ NonAdminDevices(c) \cap NonAdminDevices(e) # {}

\* Faulty variant: the wrong claims are looked at.
OverlappingStarted(c) == \E e \in Claims : checkpoint[e] = "started" /\ Conflict(c, e)

Overlapping(c) == \E e \in Claims : Completed(e) /\ Conflict(c, e)

\* An idempotent success, a refusal, a rollback, or a start.
PrepareCheck(t) ==
  LET c == work[t] IN
  /\ At(t, "pCheck")
  /\ \/ /\ Completed(c)
        /\ Goto(t, "pPublish")
        /\ UNCHANGED <<lock, work, todo, kubelet, checkpoint>>
     \/ /\ ~ Completed(c) /\ Overlapping(c)
        /\ Fail(t)
     \/ /\ ~ Completed(c) /\ ~ Overlapping(c)
        /\ IF checkpoint[c] = "started"
             THEN GotoWith(t, "pDelete", Partial(c))
             ELSE GotoWith(t, "pStart", {})
        /\ UNCHANGED <<lock, work, kubelet, checkpoint>>
  /\ UNCHANGED <<gates, idVars, nodeVars, procVars, specs, object, published,
                 faults>>

PrepareStarted(t) ==
  LET c == work[t] IN
  /\ At(t, "pStart")
  /\ checkpoint' = [checkpoint EXCEPT ![c] = "started"]
  /\ recycled' = recycled \ {c}
  /\ GotoWith(t, "pConfig", {d \in DevicesOf[c] : KindOf[d] = "vfio"})
  /\ UNCHANGED <<gates, gi, recorded, nodeVars, procVars, lock, work, specs,
                 worldVars, faults>>

ValidConfig(c) ==
  CASE SharingOf[c] = "mps"  -> gates.mps
    [] SharingOf[c] = "long" -> gates.timeSlicing
    [] OTHER                 -> TRUE

\* No such allocatable device, or a config that does not validate.
ConfigRefused(t) ==
  /\ At(t, "pConfig")
  /\ ~ (DevicesOf[work[t]] \subseteq alloc /\ ValidConfig(work[t]))
  /\ Fail(t)
  /\ UNCHANGED <<gates, idVars, nodeVars, procVars, specs, object, published,
                 faults>>

Accepted(t) == DevicesOf[work[t]] \subseteq alloc /\ ValidConfig(work[t])

\* VfioPciManager.Configure: a GPU that vfio-pci has is left alone, one with
\* no driver is an error, and one of the nvidia driver is unbound first.
ConfigureVfio(t, d) ==
  /\ At(t, "pConfig") /\ Accepted(t) /\ d \in todo[t]
  /\ \/ /\ driver[GpuOf[d]] = "vfio"
        /\ todo' = [todo EXCEPT ![t] = @ \ {d}]
        /\ UNCHANGED <<driver, lock, pc, work, kubelet, checkpoint>>
     \/ /\ driver[GpuOf[d]] = "none"
        /\ Fail(t)
        /\ UNCHANGED driver
     \/ /\ driver[GpuOf[d]] = "nvidia"
        /\ driver' = [driver EXCEPT ![GpuOf[d]] = "none"]
        /\ GotoWith(t, "pBind", {d})
        /\ UNCHANGED <<lock, work, kubelet, checkpoint>>
  /\ UNCHANGED <<gates, idVars, inst, mig, daemons, mode, slice, procVars,
                 specs, object, published, faults>>

BindVfio(t, d) ==
  /\ At(t, "pBind") /\ d \in todo[t]
  /\ driver' = [driver EXCEPT ![GpuOf[d]] = "vfio"]
  /\ GotoWith(t, "pConfig",
       {e \in DevicesOf[work[t]] : KindOf[e] = "vfio" /\ driver'[GpuOf[e]] # "vfio"})
  /\ UNCHANGED <<gates, idVars, inst, mig, daemons, mode, slice, procVars,
                 lock, work, checkpoint, specs, worldVars, faults>>

SetAll(f, gs, v) == [g \in Gpus |-> IF g \in gs THEN v ELSE f[g]]

\* applySharingConfig: SetTimeSlice sets the compute mode too; Start leaves a
\* daemon alone that has its deployment.
ApplySharing(t) ==
  LET c == work[t] IN
  /\ At(t, "pConfig") /\ Accepted(t) /\ todo[t] = {}
  /\ IF SharingOf[c] = "mps"
       THEN /\ mode' = IF c \in daemons THEN mode ELSE SetAll(mode, GpusOf(c), "exclusive")
            /\ Goto(t, IF c \in daemons THEN "pReady" ELSE "pDeploy")
            /\ UNCHANGED <<slice, todo>>
       ELSE /\ mode' = IF gates.timeSlicing THEN SetAll(mode, GpusOf(c), "default") ELSE mode
            /\ slice' = IF gates.timeSlicing THEN SetAll(slice, GpusOf(c), SharingOf[c]) ELSE slice
            /\ GotoWith(t, "pCreate", MigDevices(c))
  /\ UNCHANGED <<gates, idVars, inst, mig, driver, daemons, procVars, lock,
                 work, checkpoint, specs, worldVars, faults>>

CreateDeployment(t) ==
  /\ At(t, "pDeploy")
  /\ daemons' = daemons \cup {work[t]}
  /\ Goto(t, "pReady")
  /\ UNCHANGED <<gates, idVars, inst, mig, driver, mode, slice, procVars, lock,
                 work, todo, checkpoint, specs, worldVars, faults>>

AssertReady(t) ==
  /\ At(t, "pReady")
  /\ GotoWith(t, "pCreate", MigDevices(work[t]))
  /\ UNCHANGED <<gates, idVars, nodeVars, procVars, lock, work, checkpoint,
                 specs, worldVars, faults>>

Occupied(d) ==
  \E e \in OnGpu(GpuOf[d]) : inst[e] # "none" /\ SlicesOf[e] \cap SlicesOf[d] # {}

\* The entry of a completed claim still holds the id, for a device on the GPU.
Recorded(g, i) ==
  \E c \in Claims : Completed(c) /\ \E d \in MigDevices(c) : GpuOf[d] = g /\ recorded[c][d] = i

\* createMigDevice enables MIG mode, and NVML refuses an occupied placement
\* ("insufficient resources"); it gives the instance any id that is free.
CreateGpuInstance(t, d) ==
  /\ At(t, "pCreate") /\ d \in todo[t]
  /\ mig' = mig \cup {GpuOf[d]}
  /\ \/ /\ Occupied(d)
        /\ Fail(t) /\ UNCHANGED <<inst, gi, recycled>>
     \/ /\ ~ Occupied(d)
        /\ inst' = [inst EXCEPT ![d] = "gi"]
        /\ \E i \in Ids \ {gi[e] : e \in OnGpu(GpuOf[d])} :
             /\ gi' = [gi EXCEPT ![d] = i]
             /\ recycled' = IF Recorded(GpuOf[d], i) THEN recycled \cup {work[t]} ELSE recycled
        /\ GotoWith(t, "pCompute", todo[t] \ {d})
        /\ UNCHANGED <<lock, work, kubelet, checkpoint>>
  /\ UNCHANGED <<gates, recorded, driver, daemons, mode, slice, procVars,
                 specs, object, published, faults>>

\* The device that was taken up last.
CreateComputeInstance(t, d) ==
  /\ At(t, "pCompute") /\ d \in MigDevices(work[t]) \ todo[t] /\ inst[d] = "gi"
  /\ inst' = [inst EXCEPT ![d] = "full"]
  /\ Goto(t, "pCreate")
  /\ UNCHANGED <<gates, idVars, mig, driver, daemons, mode, slice, procVars, lock,
                 work, todo, checkpoint, specs, worldVars, faults>>

Created(t) ==
  /\ At(t, "pCreate") /\ todo[t] = {}
  /\ Goto(t, "pSpec")
  /\ UNCHANGED <<gates, idVars, nodeVars, procVars, lock, work, todo,
                 checkpoint, specs, worldVars, faults>>

WithoutSiblings(c) ==
  IF gates.passthrough THEN alloc \ UNION {Siblings(d) : d \in DevicesOf[c]} ELSE alloc

CreateClaimSpecFile(t) ==
  /\ At(t, "pSpec")
  /\ alloc' = WithoutSiblings(work[t])
  /\ specs' = specs \cup {work[t]}
  /\ Goto(t, "pDone")
  /\ UNCHANGED <<gates, idVars, nodeVars, up, known, lock, work, todo,
                 checkpoint, worldVars, faults>>

CreateClaimSpecFileFails(t) ==
  /\ At(t, "pSpec")
  /\ alloc' = WithoutSiblings(work[t])
  /\ Fault /\ Fail(t)
  /\ UNCHANGED <<gates, idVars, nodeVars, up, known, specs, object, published>>

\* The live tuples of the new devices go into the checkpoint.
PrepareCompleted(t) ==
  LET c == work[t] IN
  /\ At(t, "pDone")
  /\ checkpoint' = [checkpoint EXCEPT ![c] = "completed"]
  /\ recorded' = [recorded EXCEPT ![c] =
                    [d \in Devices |-> IF d \in MigDevices(c) THEN gi[d] ELSE None]]
  /\ Goto(t, "pPublish")
  /\ UNCHANGED <<gates, gi, recycled, nodeVars, procVars, lock, work, todo,
                 specs, worldVars, faults>>

PublishResources == published' = IF gates.passthrough THEN alloc ELSE published

PrepareReturns(t) ==
  /\ At(t, "pPublish")
  /\ PublishResources
  /\ Answer(t, "asked", "prepared")
  /\ Leave(t)
  /\ UNCHANGED <<gates, idVars, nodeVars, procVars, checkpoint, specs, object,
                 faults>>

\* Any of the other calls of Prepare can fail, and leaves what is done.
PrepareFails(t) ==
  /\ up /\ pc[t] \in {"pCheck", "pStart", "pConfig", "pBind", "pDeploy", "pReady",
                      "pCreate", "pCompute", "pDone", "pPublish"}
  /\ pc[t] = "pPublish" => gates.passthrough
  /\ Fault /\ Fail(t)
  /\ UNCHANGED <<gates, idVars, nodeVars, procVars, specs, object, published>>

-----------------------------------------------------------------------------
(* Unprepare.                                                              *)

\* Faulty variant: a claim that is not completed has nothing to delete.
UnprepareFindCompleted(t) ==
  LET c == work[t] IN
  /\ At(t, "uCheck")
  /\ \/ checkpoint[c] = "none" /\ GotoWith(t, "uPublish", {})
     \/ checkpoint[c] = "started" /\ GotoWith(t, "uDelete", {})
     \/ /\ checkpoint[c] = "completed"
        /\ GotoWith(t, "uVfio", {d \in DevicesOf[c] : KindOf[d] = "vfio"})
  /\ UNCHANGED <<gates, idVars, nodeVars, procVars, lock, work, checkpoint,
                 specs, worldVars, faults>>

UnprepareFind(t) ==
  LET c == work[t] IN
  /\ At(t, "uCheck")
  /\ \/ checkpoint[c] = "none" /\ GotoWith(t, "uPublish", {})
     \/ checkpoint[c] = "started" /\ GotoWith(t, "uDelete", Partial(c))
     \/ /\ checkpoint[c] = "completed"
        /\ GotoWith(t, "uVfio", {d \in DevicesOf[c] : KindOf[d] = "vfio"})
  /\ UNCHANGED <<gates, idVars, nodeVars, procVars, lock, work, checkpoint,
                 specs, worldVars, faults>>

\* unprepareVfioDevices, VfioPciManager.Unconfigure.
UnconfigureVfio(t, d) ==
  /\ At(t, "uVfio") /\ d \in todo[t]
  /\ \/ /\ d \notin alloc \/ driver[GpuOf[d]] = "none"
        /\ Fail(t)
        /\ UNCHANGED driver
     \/ /\ d \in alloc /\ driver[GpuOf[d]] = "nvidia"
        /\ todo' = [todo EXCEPT ![t] = @ \ {d}]
        /\ UNCHANGED <<driver, lock, pc, work, kubelet, checkpoint>>
     \/ /\ d \in alloc /\ driver[GpuOf[d]] = "vfio"
        /\ driver' = [driver EXCEPT ![GpuOf[d]] = "none"]
        /\ GotoWith(t, "uBind", {d})
        /\ UNCHANGED <<lock, work, kubelet, checkpoint>>
  /\ UNCHANGED <<gates, idVars, inst, mig, daemons, mode, slice, procVars,
                 specs, object, published, faults>>

BindNvidia(t, d) ==
  /\ At(t, "uBind") /\ d \in todo[t]
  /\ driver' = [driver EXCEPT ![GpuOf[d]] = "nvidia"]
  /\ GotoWith(t, "uVfio",
       {e \in DevicesOf[work[t]] : KindOf[e] = "vfio" /\ driver'[GpuOf[e]] # "nvidia"})
  /\ UNCHANGED <<gates, idVars, inst, mig, daemons, mode, slice, procVars,
                 lock, work, checkpoint, specs, worldVars, faults>>

\* The MIG devices of a completed claim are deleted by the GI and CI ids in
\* the checkpoint, so that one that has lost its CI is found.
UnprepareDevices(t) ==
  /\ At(t, "uVfio") /\ todo[t] = {}
  /\ GotoWith(t, "uDelete", IF gates.dynamicMIG THEN MigDevices(work[t]) ELSE {})
  /\ UNCHANGED <<gates, idVars, nodeVars, procVars, lock, work, checkpoint,
                 specs, worldVars, faults>>

StopDaemon(t) ==
  /\ At(t, "uStop")
  /\ daemons' = IF gates.mps THEN daemons \ {work[t]} ELSE daemons
  /\ Goto(t, "uSlice")
  /\ UNCHANGED <<gates, idVars, inst, mig, driver, mode, slice, procVars, lock,
                 work, todo, checkpoint, specs, worldVars, faults>>

DefaultTimeSlice(t) ==
  /\ At(t, "uSlice")
  /\ IF gates.timeSlicing
       THEN /\ mode' = SetAll(mode, GpusOf(work[t]), "default")
            /\ slice' = SetAll(slice, GpusOf(work[t]), "default")
       ELSE UNCHANGED <<mode, slice>>
  /\ Goto(t, "uSibling")
  /\ UNCHANGED <<gates, idVars, inst, mig, driver, daemons, procVars, lock,
                 work, todo, checkpoint, specs, worldVars, faults>>

Rediscovered(c) == UNION {Siblings(d) : d \in DevicesOf[c] \cap alloc}

\* discoverSiblingAllocatables advertises the other devices of the GPU again.
DiscoverSiblings(t) ==
  /\ At(t, "uSibling")
  /\ alloc' = IF gates.passthrough THEN alloc \cup Rediscovered(work[t]) ELSE alloc
  /\ Goto(t, "uSpec")
  /\ UNCHANGED <<gates, idVars, nodeVars, up, known, lock, work, todo,
                 checkpoint, specs, worldVars, faults>>

\* A failure to delete the file is only logged.
DeleteClaimSpecFile(t) ==
  /\ At(t, "uSpec")
  /\ \/ specs' = specs \ {work[t]} /\ UNCHANGED faults
     \/ Fault /\ UNCHANGED specs
  /\ Goto(t, "uForget")
  /\ UNCHANGED <<gates, idVars, nodeVars, procVars, lock, work, todo,
                 checkpoint, worldVars>>

DeleteClaimFromCheckpoint(t) ==
  /\ At(t, "uForget")
  /\ checkpoint' = [checkpoint EXCEPT ![work[t]] = "none"]
  /\ recorded' = [recorded EXCEPT ![work[t]] = [d \in Devices |-> None]]
  /\ Goto(t, "uPublish")
  /\ UNCHANGED <<gates, gi, recycled, nodeVars, procVars, lock, work, todo,
                 specs, worldVars, faults>>

UnprepareReturns(t) ==
  /\ At(t, "uPublish")
  /\ PublishResources
  /\ Answer(t, "unpreparing", "none")
  /\ Leave(t)
  /\ UNCHANGED <<gates, idVars, nodeVars, procVars, checkpoint, specs, object,
                 faults>>

UnprepareFails(t) ==
  /\ up /\ pc[t] \in {"uCheck", "uVfio", "uBind", "uStop", "uSlice", "uSibling",
                      "uForget", "uPublish"}
  /\ pc[t] = "uPublish" => gates.passthrough
  /\ Fault /\ Fail(t)
  /\ UNCHANGED <<gates, idVars, nodeVars, procVars, specs, object, published>>

-----------------------------------------------------------------------------
(* The cleanup of claims that were left in PrepareStarted.                 *)

Cleanup(k, c) ==
  /\ At(k, "idle") /\ pc[Boot] = "served"
  /\ checkpoint[c] = "started"
  /\ Goto(k, "kLookup")
  /\ work' = [work EXCEPT ![k] = c]
  /\ UNCHANGED <<gates, idVars, nodeVars, procVars, lock, todo, checkpoint,
                 specs, worldVars, faults>>

\* getClaimByName: the claim is stale if its object is gone.
UnprepareIfStale(k) ==
  /\ At(k, "kLookup")
  /\ IF object[work[k]] = "deleted"
       THEN Goto(k, "uLock") /\ UNCHANGED <<lock, work, todo>>
       ELSE Leave(k)
  /\ UNCHANGED <<gates, idVars, nodeVars, procVars, checkpoint, specs,
                 worldVars, faults>>

-----------------------------------------------------------------------------
(* The process, and the cluster around it.                                 *)

Start ==
  /\ ~ up
  /\ up' = TRUE
  /\ known' = mig
  /\ alloc' = EnumerateAllPossibleDevices
  /\ GotoWith(Boot, "destroy", IF gates.dynamicMIG THEN Unknown ELSE {})
  /\ UNCHANGED <<gates, idVars, nodeVars, lock, work, checkpoint, specs,
                 worldVars, faults>>

\* obliterateStaleMIGDevices is best effort: its first error ends it.  On each
\* GPU it ends with maybeDisableMigMode.
DestroyUnknownMIGDevices ==
  /\ At(Boot, "destroy")
  /\ mig' = IF todo[Boot] = {} THEN {g \in mig : g \in MigAfter(g, inst)} ELSE mig
  /\ GotoWith(Boot, "publish", {})
  /\ UNCHANGED <<gates, idVars, inst, driver, daemons, mode, slice, procVars,
                 lock, work, checkpoint, specs, worldVars, faults>>

\* The rest of NewDriver: the resources are published and requests served.
NewDriver ==
  /\ At(Boot, "publish")
  /\ published' = alloc
  /\ Goto(Boot, "served")
  /\ UNCHANGED <<gates, idVars, nodeVars, procVars, lock, work, todo,
                 checkpoint, specs, object, kubelet, faults>>

Crash ==
  /\ up /\ Fault
  /\ up' = FALSE
  /\ lock' = None
  /\ pc' = [t \in Threads |-> "idle"]
  /\ work' = [t \in Threads |-> None]
  /\ todo' = [t \in Threads |-> {}]
  /\ UNCHANGED <<gates, idVars, nodeVars, known, alloc, checkpoint, specs,
                 worldVars>>

\* The scheduler allocates advertised devices; that two claims get the same
\* one is not ruled out ("races between data processing in different
\* goroutines in the scheduler").
Allocate(c) ==
  /\ object[c] = "pending"
  /\ DevicesOf[c] \subseteq published
  /\ object' = [object EXCEPT ![c] = "allocated"]
  /\ UNCHANGED <<gates, idVars, nodeVars, procVars, threadVars, checkpoint,
                 specs, kubelet, published, faults>>

DeleteClaim(c) ==
  /\ c \in DeletedClaims /\ object[c] = "allocated"
  /\ object' = [object EXCEPT ![c] = "deleted"]
  /\ UNCHANGED <<gates, idVars, nodeVars, procVars, threadVars, checkpoint,
                 specs, kubelet, published, faults>>

Request(t) ==
  \E c \in Claims : PrepareResourceClaims(t, c) \/ UnprepareResourceClaims(t, c)

PrepareStep(t) ==
  \/ PrepareCheck(t) \/ PrepareStarted(t) \/ ConfigRefused(t) \/ ApplySharing(t)
  \/ CreateDeployment(t) \/ AssertReady(t) \/ Created(t) \/ CreateClaimSpecFile(t)
  \/ PrepareCompleted(t) \/ PrepareReturns(t)
  \/ \E d \in Devices : \/ ConfigureVfio(t, d) \/ BindVfio(t, d)
                        \/ CreateGpuInstance(t, d) \/ CreateComputeInstance(t, d)

UnprepareStep(t) ==
  \/ UnprepareFind(t) \/ UnprepareDevices(t) \/ StopDaemon(t) \/ DefaultTimeSlice(t)
  \/ DiscoverSiblings(t) \/ DeleteClaimSpecFile(t) \/ DeleteClaimFromCheckpoint(t)
  \/ UnprepareReturns(t)
  \/ \E d \in Devices : UnconfigureVfio(t, d) \/ BindNvidia(t, d)

DeleteStep(t) ==
  \/ \E d \in Devices : DestroyComputeInstance(t, d) \/ DestroyGpuInstance(t, d)
  \/ DeleteDone(t)

Failure(t) ==
  \/ DeleteFails(t) \/ PrepareFails(t) \/ CreateClaimSpecFileFails(t) \/ UnprepareFails(t)

CleanerStep(k) == UnprepareIfStale(k) \/ \E c \in Claims : Cleanup(k, c)

Next ==
  \/ \E t \in Handlers : Request(t)
  \/ \E t \in Handlers \cup Cleaners :
        Acquire(t) \/ AcquireTimeout(t) \/ PrepareStep(t) \/ UnprepareStep(t) \/ Failure(t)
  \/ \E t \in Threads : DeleteStep(t)
  \/ \E k \in Cleaners : CleanerStep(k)
  \/ Start \/ DestroyUnknownMIGDevices \/ NewDriver \/ Crash
  \/ \E c \in Claims : Allocate(c) \/ DeleteClaim(c)

Spec == Init /\ [][Next]_vars

-----------------------------------------------------------------------------
(* Properties.                                                             *)

IdsOK ==
  /\ gi \in [Devices -> Ids \cup {None}]
  /\ recorded \in [Claims -> [Devices -> Ids \cup {None}]]
  /\ recycled \subseteq Claims

TypeOK ==
  /\ IdsOK
  /\ gates \in GateSets
  /\ up \in BOOLEAN
  /\ lock \in Threads \cup {None}
  /\ pc \in [Threads -> PrepareLabels \cup UnprepareLabels \cup
                          {"idle", "kLookup", "destroy", "publish", "served"}]
  /\ work \in [Threads -> Claims \cup {None}]
  /\ todo \in [Threads -> SUBSET Devices]
  /\ checkpoint \in [Claims -> {"none", "started", "completed"}]
  /\ specs \subseteq Claims
  /\ inst \in [Devices -> {"none", "gi", "full"}]
  /\ mig \subseteq Gpus
  /\ known \subseteq Gpus
  /\ driver \in [Gpus -> {"nvidia", "vfio", "none"}]
  /\ daemons \subseteq Claims
  /\ mode \in [Gpus -> {"default", "exclusive"}]
  /\ slice \in [Gpus -> {"default", "long"}]
  /\ alloc \subseteq Devices
  /\ published \subseteq Devices
  /\ object \in [Claims -> {"pending", "allocated", "deleted"}]
  /\ kubelet \in [Claims -> {"none", "asked", "prepared", "unpreparing"}]
  /\ faults \in 0..MaxFaults

\* The kubelet was told that the claim is prepared, and has its pods running.
Held(c) == kubelet[c] = "prepared" /\ object[c] = "allocated"

GpusNamed(c) == {GpuOf[d] : d \in DevicesOf[c]}

\* An admin claim names devices that others hold: it sets the time slice of
\* their GPU, and a MIG device that it names is created and deleted twice.
Undisturbed(c) ==
  /\ c \notin AdminClaims
  /\ \A e \in AdminClaims : GpusNamed(e) \cap GpusNamed(c) = {}

(***************************************************************************)
(* DevicesKept: a claim that the kubelet holds keeps its CDI spec and its  *)
(* devices, whatever is rolled back, cleaned up or unprepared for other    *)
(* claims that name the same devices, and whatever a new process destroys  *)
(* ("absolutely critical, however, that this cleanup method does not       *)
(* accidentally tear down the wrong device"), unless an admin claim names  *)
(* the same GPU.  A MIG device that was given the GI id of one in the      *)
(* entry of a completed claim is the one exception.                        *)
(***************************************************************************)
DevicesKept ==
  \A c \in Claims : Held(c) /\ Undisturbed(c) =>
     /\ Completed(c) /\ c \in specs
     /\ \A d \in DevicesOf[c] :
          /\ KindOf[d] = "mig" /\ c \notin recycled => inst[d] = "full"
          /\ KindOf[d] = "vfio" => driver[GpuOf[d]] = "vfio"

\* No admin claim can have the device created or deleted a second time.
NoAdmin(d) == \A c \in AdminClaims : d \notin DevicesOf[c]

(***************************************************************************)
(* MigTracked: every MIG device on the node is one of a claim in the       *)
(* checkpoint, so that somebody will delete it: a claim goes only after    *)
(* its devices, although Unprepare looks for them by ids that may be old.  *)
(* With an admin claim a device may have been created again under another  *)
(* id than the one on record.                                              *)
(***************************************************************************)
MigTracked ==
  \A d \in Devices : Visible(d) /\ NoAdmin(d) =>
     \E c \in Claims : checkpoint[c] # "none" /\ d \in DevicesOf[c]

\* What a claim is given: an MPS daemon, or a time slice.
SharingGranted(c) ==
  IF SharingOf[c] = "mps" THEN c \in daemons
  ELSE gates.timeSlicing => \A g \in GpusOf(c) :
                              mode[g] = "default" /\ slice[g] = SharingOf[c]

(***************************************************************************)
(* SharingKept: a claim that the kubelet holds has the MPS daemon or the   *)
(* time slice of its config, and no step for another claim changes the     *)
(* compute mode or the time slice of its GPUs (applySharingConfig and      *)
(* unprepareDevices act on whole GPUs), unless an admin claim names one of *)
(* them.                                                                   *)
(***************************************************************************)
SharingKept ==
  /\ [](\A c \in Claims : Held(c) /\ Undisturbed(c) => SharingGranted(c))
  /\ [][\A c \in Claims : Held(c) /\ Held(c)' /\ Undisturbed(c) =>
          \A g \in GpusOf(c) : mode'[g] = mode[g] /\ slice'[g] = slice[g]]_vars

PreparedClaims == {c \in Claims : Completed(c)}

Ledger == INSTANCE ClaimLedger WITH prepared <- PreparedClaims

(***************************************************************************)
(* LedgerSpec: the plugin implements the ledger of claims: a device is     *)
(* granted to a claim only while no other claim that may not share it      *)
(* holds it (validateNoOverlappingPreparedDevices under the file lock).    *)
(***************************************************************************)
LedgerSpec == Ledger!Spec
=============================================================================
