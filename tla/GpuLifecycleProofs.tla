------------------------- MODULE GpuLifecycleProofs -------------------------
(***************************************************************************)
(* Proofs about GpuLifecycle, for any number of requests, claims, GPUs and *)
(* devices, any feature gates that go together, and any failures.          *)
(***************************************************************************)
EXTENDS GpuLifecycle, TLAPS

Workers == Handlers \cup Cleaners

\* Where a thread holds the file lock.
Critical == (PrepareLabels \cup UnprepareLabels) \ {"pLock", "uLock"}

\* Where a request has found that the claim may be prepared.
Preparing ==
  {"pDelete", "pStart", "pConfig", "pBind", "pDeploy", "pReady", "pCreate",
   "pCompute", "pSpec", "pDone"}
Started == Preparing \ {"pDelete", "pStart"}
Configured == Started \ {"pConfig", "pBind"}
Granting == Configured \ {"pDeploy", "pReady"}

\* Where the MIG devices of the claim have been deleted.
Cleared == {"uStop", "uSlice", "uSibling", "uSpec", "uForget"}

\* Another claim has completed with the device.
UsedByOther(c, d) == \E e \in Claims : e # c /\ Completed(e) /\ d \in DevicesOf[e]

\* Requests are served after the start of the process, and one at a time.
Control ==
  /\ up => pc[Boot] \in {"destroy", "publish", "served"}
  /\ ~ up => \A t \in Threads : pc[t] = "idle"
  /\ \A t \in Workers :
       /\ pc[t] \in PrepareLabels \cup UnprepareLabels \cup {"idle", "kLookup"}
       /\ pc[t] = "idle" => work[t] = None
       /\ pc[t] # "idle" => pc[Boot] = "served" /\ work[t] \in Claims
       /\ pc[t] \in Critical => lock = t
  /\ \A k \in Cleaners : pc[k] \notin PrepareLabels

\* Who unprepares a claim: one request of the kubelet, which waits for the
\* others, or the cleanup of a claim that is deleted.
Requests ==
  /\ \A t \in Handlers : pc[t] \in UnprepareLabels =>
       /\ kubelet[work[t]] = "unpreparing"
       /\ \A s \in Handlers \ {t} : work[s] # work[t]
  /\ \A k \in Cleaners : pc[k] \in UnprepareLabels => object[work[k]] = "deleted"

VfioBound(c) == \A d \in DevicesOf[c] : KindOf[d] = "vfio" => driver[GpuOf[d]] = "vfio"

\* No other completed claim has the id of the device on record.
Unshadowed(c, d) ==
  \A e \in Claims : e # c /\ Completed(e) =>
    \A f \in MigDevices(e) : GpuOf[f] = GpuOf[d] => recorded[e][f] # gi[d]

\* The device exists, under an id that leads nobody else to it.
Safe(c, d) == c \notin recycled => Unshadowed(c, d)

MigCreated(c) == \A d \in MigDevices(c) : inst[d] = "full" /\ Safe(c, d)

\* The same while the devices are created: all that is done, but for the last one.
MigCreating(t) ==
  LET done == MigDevices(work[t]) \ todo[t] IN
  /\ todo[t] \subseteq MigDevices(work[t])
  /\ \A d \in done : inst[d] # "none" /\ Safe(work[t], d)
  /\ pc[t] = "pCreate" => \A d \in done : inst[d] = "full"
  /\ \A d, e \in done : inst[d] = "gi" /\ inst[e] = "gi" => d = e

\* How far a thread is with the devices of its claim: Prepare.
PrepareProgress(t) ==
  LET c == work[t] IN
  /\ pc[t] \in Preparing => ~ Completed(c) /\ ~ Overlapping(c)
  /\ pc[t] \in Started => checkpoint[c] = "started"
  /\ pc[t] = "pDelete" => \A d \in todo[t] : ~ UsedByCompletedClaim(d)
  /\ pc[t] = "pConfig" =>
       \A d \in DevicesOf[c] \ todo[t] : KindOf[d] = "vfio" => driver[GpuOf[d]] = "vfio"
  /\ pc[t] \in Configured => VfioBound(c) /\ (MigDevices(c) # {} => gates.dynamicMIG)
  /\ pc[t] \in {"pDeploy", "pReady"} => SharingOf[c] = "mps"
  /\ pc[t] = "pReady" => c \in daemons
  /\ pc[t] \in Granting => SharingGranted(c)
  /\ pc[t] = "pDone" => c \in specs
  /\ pc[t] = "pPublish" => Completed(c)

\* The same of its MIG devices.
CreateProgress(t) ==
  /\ pc[t] \in {"pCreate", "pCompute"} => MigCreating(t)
  /\ pc[t] \in {"pSpec", "pDone"} => MigCreated(work[t])

\* The same of Unprepare.
UnprepareProgress(t) ==
  LET c == work[t] IN
  /\ pc[t] \in {"uVfio", "uBind", "uStop", "uSlice", "uSibling"} => Completed(c)
  /\ pc[t] \in {"uVfio", "uBind"} =>
       \A d \in todo[t] : d \in DevicesOf[c] /\ KindOf[d] = "vfio"
  /\ pc[t] = "uDelete" =>
       /\ \A d \in todo[t] : \/ ~ Completed(c) /\ ~ UsedByCompletedClaim(d)
                             \/ Completed(c) /\ d \in MigDevices(c)
       /\ \A d \in DevicesOf[c] :
            Visible(d) /\ NoAdmin(d) => d \in todo[t] \/ UsedByOther(c, d)
  /\ pc[t] \in Cleared =>
       \A d \in DevicesOf[c] : Visible(d) /\ NoAdmin(d) => UsedByOther(c, d)
  /\ pc[t] = "uPublish" => ~ Completed(c)

Progress ==
  /\ \A t \in Workers : PrepareProgress(t) /\ CreateProgress(t) /\ UnprepareProgress(t)
  /\ pc[Boot] = "destroy" => \A d \in todo[Boot] : ~ UsedByCompletedClaim(d)

\* Instances are of MIG devices, which only dynamic MIG has.
MigGated ==
  /\ \A d \in Devices : inst[d] # "none" => KindOf[d] = "mig" /\ gates.dynamicMIG
  /\ \A d \in alloc : KindOf[d] = "mig" => gates.dynamicMIG

\* Each instance that exists has an id, and no two on a GPU the same.
Identified ==
  /\ \A d \in Devices : inst[d] = "none" <=> gi[d] = None
  /\ \A d, e \in Devices : gi[d] # None /\ gi[e] = gi[d] /\ GpuOf[e] = GpuOf[d] => e = d

\* A device of a completed claim is the one on record, as long as it exists.
RecordAgrees ==
  \A c \in Claims : Completed(c) =>
    \A d \in MigDevices(c) : NoAdmin(d) /\ inst[d] # "none" => gi[d] = recorded[c][d]

\* The claims that have completed share no device.
Exclusive == \A c, e \in Claims : Completed(c) /\ Completed(e) => ~ Conflict(c, e)

\* What the kubelet was told stands.
Answered ==
  \A c \in Claims : kubelet[c] = "prepared" /\ object[c] # "deleted" => Completed(c)

\* A claim that has completed has what it was given until it is unprepared.
Granted(c) == c \in specs /\ VfioBound(c) /\ SharingGranted(c)

Settled(c) ==
  /\ Completed(c) /\ Undisturbed(c)
  /\ kubelet[c] # "unpreparing" /\ object[c] # "deleted"

GrantKept == \A c \in Claims : Settled(c) => Granted(c)

\* The same of its MIG devices, if it was not given an id on record.
MigKept == \A c \in Claims : Settled(c) /\ c \notin recycled => MigCreated(c)

Inv ==
  /\ TypeOK /\ Control /\ Requests /\ Progress /\ MigGated /\ Identified /\ RecordAgrees
  /\ Exclusive /\ Answered /\ GrantKept /\ MigKept /\ MigTracked
-----------------------------------------------------------------------------
(* Facts about threads and claims.                                         *)

LEMMA ThreadFacts ==
  /\ Boot \notin Workers /\ Boot \in Threads /\ Workers \subseteq Threads
  /\ None \notin Workers /\ None \notin Claims
BY ConstantsAssumption DEF Workers, Threads

\* The lock is held by one thread.
LEMMA OneHolder ==
  ASSUME Control, NEW t \in Workers, pc[t] \in Critical, NEW s \in Workers, s # t
  PROVE  pc[s] \notin Critical
BY DEF Control

\* A claim that no admin claim disturbs shares neither a device nor the driver
\* or time slice of a GPU with a claim it does not conflict with.
LEMMA Apart ==
  ASSUME NEW c \in Claims, NEW e \in Claims, c # e, Undisturbed(c), ~ Conflict(e, c),
         NEW d \in DevicesOf[c], NEW f \in DevicesOf[e]
  PROVE  /\ d # f
         /\ KindOf[d] # "mig" /\ KindOf[f] = KindOf[d] => GpuOf[d] # GpuOf[f]
BY ConstantsAssumption DEF Undisturbed, GpusNamed, Conflict, NonAdminDevices

\* A thread that prepares or unprepares a claim has nothing to do with one that
\* is settled: it works on another one, which does not conflict with it.
LEMMA SettledIsOther ==
  ASSUME TypeOK, Control, Requests, Progress, Exclusive,
         NEW t \in Workers, NEW c \in Claims, Settled(c),
         \/ pc[t] \in Preparing
         \/ pc[t] \in UnprepareLabels /\ Completed(work[t])
  PROVE  work[t] \in Claims /\ work[t] # c /\ ~ Conflict(work[t], c)
<1>1. work[t] \in Claims /\ Completed(c)
  BY ConstantsAssumption DEF Control, Settled, Preparing, UnprepareLabels
<1>2. CASE pc[t] \in Preparing
  BY <1>1, <1>2 DEF Progress, PrepareProgress, Overlapping
<1>3. CASE pc[t] \in UnprepareLabels /\ Completed(work[t])
  <2>1. work[t] # c
    BY <1>3 DEF Requests, Settled, Workers
  <2>2. QED
    BY <1>1, <1>3, <2>1 DEF Exclusive
<1>4. QED
  BY <1>2, <1>3

\* No unpreparing thread works on a settled claim.
LEMMA UnpreparedIsNotSettled ==
  ASSUME Requests, NEW t \in Workers, pc[t] \in UnprepareLabels
  PROVE  ~ Settled(work[t])
BY DEF Requests, Settled, Workers

\* What is deleted is not a device of a settled claim, unless that claim was
\* given an id on record.
LEMMA DeletedIsUnused ==
  ASSUME TypeOK, Control, Requests, Progress, Exclusive, MigKept,
         NEW t \in Threads, Deleting(t), NEW d \in todo[t],
         NEW c \in Claims, Settled(c), c \notin recycled,
         NEW e \in GetGpuInstanceById(t, d)
  PROVE  e \notin MigDevices(c)
<1>1. Completed(c) /\ Undisturbed(c) /\ MigCreated(c)
  BY DEF Settled, MigKept
<1>2. CASE pc[t] = "uDelete" /\ Completed(work[t])
  <2>1. /\ t \in Workers /\ work[t] \in Claims /\ work[t] # c
        /\ d \in MigDevices(work[t])
    BY <1>2, UnpreparedIsNotSettled DEF Control, Progress, UnprepareProgress, Threads, Workers,
       UnprepareLabels
  <2>2. GpuOf[e] = GpuOf[d] /\ gi[e] = recorded[work[t]][d]
    BY <1>2 DEF GetGpuInstanceById, OnGpu
  <2>3. QED
    BY <1>1, <1>2, <2>1, <2>2 DEF MigCreated, Safe, Unshadowed
<1>3. CASE ~ (pc[t] = "uDelete" /\ Completed(work[t]))
  <2>1. e = d
    BY <1>3 DEF GetGpuInstanceById
  <2>2. ~ UsedByCompletedClaim(d)
    BY <1>3 DEF Deleting, Progress, PrepareProgress, UnprepareProgress, Control, Threads,
       Workers, PrepareLabels, UnprepareLabels
  <2>3. QED
    BY <1>1, <2>1, <2>2 DEF UsedByCompletedClaim, MigDevices
<1>4. QED
  BY <1>2, <1>3

-----------------------------------------------------------------------------
(* Each part of the invariant is preserved.                                *)

\* The steps that change instances, their ids, or what is recorded of them.
LEMMA WhoCarves ==
  ASSUME Next, ~ UNCHANGED <<inst, idVars, checkpoint>>
  PROVE  \/ \E t \in Workers :
              \/ PrepareStarted(t) \/ PrepareCompleted(t) \/ DeleteClaimFromCheckpoint(t)
              \/ \E d \in Devices : CreateGpuInstance(t, d) \/ CreateComputeInstance(t, d)
         \/ \E t \in Threads, d \in Devices :
              DestroyComputeInstance(t, d) \/ DestroyGpuInstance(t, d)
<1> USE DEF nodeVars, Fail
<1>1. ASSUME NEW t \in Handlers, Request(t)
      PROVE  FALSE
  BY <1>1 DEF Request, PrepareResourceClaims, UnprepareResourceClaims
<1>2. ASSUME NEW t \in Workers, Acquire(t) \/ AcquireTimeout(t)
      PROVE  FALSE
  BY <1>2 DEF Acquire, AcquireTimeout
<1>3. ASSUME NEW t \in Workers, PrepareStep(t)
      PROVE  \/ PrepareStarted(t) \/ PrepareCompleted(t)
             \/ \E d \in Devices : CreateGpuInstance(t, d) \/ CreateComputeInstance(t, d)
  BY <1>3
  DEF PrepareStep, PrepareCheck, ConfigRefused, ConfigureVfio, BindVfio, ApplySharing,
      CreateDeployment, AssertReady, Created, CreateClaimSpecFile, PrepareReturns
<1>4. ASSUME NEW t \in Workers, UnprepareStep(t)
      PROVE  DeleteClaimFromCheckpoint(t)
  BY <1>4
  DEF UnprepareStep, UnprepareFind, UnconfigureVfio, BindNvidia, UnprepareDevices,
      StopDaemon, DefaultTimeSlice, DiscoverSiblings, DeleteClaimSpecFile, UnprepareReturns
<1>5. ASSUME NEW t \in Workers, Failure(t)
      PROVE  FALSE
  BY <1>5
  DEF Failure, DeleteFails, PrepareFails, CreateClaimSpecFileFails, UnprepareFails
<1>6. ASSUME NEW t \in Threads, DeleteStep(t)
      PROVE  \E d \in Devices : DestroyComputeInstance(t, d) \/ DestroyGpuInstance(t, d)
  BY <1>6 DEF DeleteStep, DeleteDone
<1>7. ASSUME NEW t \in Cleaners, CleanerStep(t)
      PROVE  FALSE
  BY <1>7 DEF CleanerStep, Cleanup, UnprepareIfStale
<1>8. ASSUME Start \/ DestroyUnknownMIGDevices \/ NewDriver \/ Crash
      PROVE  FALSE
  BY <1>8 DEF Start, DestroyUnknownMIGDevices, NewDriver, Crash
<1>9. ASSUME NEW c \in Claims, Allocate(c) \/ DeleteClaim(c)
      PROVE  FALSE
  BY <1>9 DEF Allocate, DeleteClaim
<1>10. QED
  BY <1>1, <1>2, <1>3, <1>4, <1>5, <1>6, <1>7, <1>8, <1>9 DEF Next, Workers

\* The thread that takes such a step is in a request, on a claim.
LEMMA CarvesForClaim ==
  ASSUME Control, NEW t \in Workers, pc[t] \in PrepareLabels \cup UnprepareLabels
  PROVE  work[t] \in Claims
BY DEF Control, PrepareLabels, UnprepareLabels

LEMMA IdsStep ==
  ASSUME TypeOK, Control, Next
  PROVE  IdsOK'
<1> USE DEF TypeOK, IdsOK
<1>1. CASE UNCHANGED <<inst, idVars, checkpoint>>
  BY <1>1 DEF idVars
<1>2. ASSUME NEW t \in Workers, PrepareStarted(t)
      PROVE  IdsOK'
  BY <1>2 DEF PrepareStarted
<1>3. ASSUME NEW t \in Workers, PrepareCompleted(t)
      PROVE  IdsOK'
  BY <1>3 DEF PrepareCompleted
<1>4. ASSUME NEW t \in Workers, DeleteClaimFromCheckpoint(t)
      PROVE  IdsOK'
  BY <1>4 DEF DeleteClaimFromCheckpoint
<1>5. ASSUME NEW t \in Workers, NEW d \in Devices, CreateGpuInstance(t, d)
      PROVE  IdsOK'
  <2>1. work[t] \in Claims
    BY <1>5, CarvesForClaim DEF CreateGpuInstance, At, PrepareLabels
  <2>2. QED
    BY <1>5, <2>1 DEF CreateGpuInstance
<1>6. ASSUME NEW t \in Threads, NEW d \in Devices,
             \/ CreateComputeInstance(t, d) \/ DestroyComputeInstance(t, d)
             \/ DestroyGpuInstance(t, d)
      PROVE  IdsOK'
  BY <1>6 DEF CreateComputeInstance, DestroyComputeInstance, DestroyGpuInstance, idVars
<1>7. QED
  BY <1>1, <1>2, <1>3, <1>4, <1>5, <1>6, WhoCarves, ThreadFacts

LEMMA TypeStep ==
  ASSUME TypeOK, Control, Next
  PROVE  TypeOK'
<1> USE DEF Threads, Workers, PrepareLabels, UnprepareLabels, Critical,
        At, Goto, GotoWith, Leave, Fail, idVars, nodeVars, procVars, threadVars, worldVars
<1>0. IdsOK'
  BY IdsStep
<1>1. ASSUME NEW t \in Handlers, Request(t)
      PROVE  TypeOK'
  BY <1>0, <1>1, ConstantsAssumption
  DEF Request, PrepareResourceClaims, UnprepareResourceClaims, TypeOK, Control
<1>2. ASSUME NEW t \in Workers, Acquire(t) \/ AcquireTimeout(t)
      PROVE  TypeOK'
  BY <1>0, <1>2, ConstantsAssumption DEF Acquire, AcquireTimeout, TypeOK, Control
<1>3. ASSUME NEW t \in Workers, PrepareStep(t)
      PROVE  TypeOK'
  <2>1. CASE ApplySharing(t)
    BY <1>0, <2>1, ConstantsAssumption
    DEF ApplySharing, SetAll, MigDevices, TypeOK, Control
  <2>2. ASSUME NEW d \in Devices, CreateGpuInstance(t, d)
        PROVE  TypeOK'
    <3>1. GpuOf[d] \in Gpus
      BY ConstantsAssumption
    <3>2. CASE Occupied(d)
      BY <1>0, <2>2, <3>1, <3>2 DEF CreateGpuInstance, TypeOK
    <3>3. CASE ~ Occupied(d)
      BY <1>0, <2>2, <3>1, <3>3 DEF CreateGpuInstance, TypeOK
    <3>4. QED
      BY <3>2, <3>3
  <2>3. ASSUME NEW d \in Devices, CreateComputeInstance(t, d)
        PROVE  TypeOK'
    BY <1>0, <2>3 DEF CreateComputeInstance, TypeOK
  <2>4. CASE PrepareCompleted(t)
    BY <1>0, <2>4 DEF PrepareCompleted, TypeOK
  <2>5. CASE \/ PrepareCheck(t) \/ PrepareStarted(t) \/ ConfigRefused(t)
             \/ CreateDeployment(t) \/ AssertReady(t) \/ Created(t)
             \/ CreateClaimSpecFile(t) \/ PrepareReturns(t)
             \/ \E d \in Devices : ConfigureVfio(t, d) \/ BindVfio(t, d)
    BY <1>0, <2>5, ConstantsAssumption
    DEF PrepareCheck, PrepareStarted, ConfigRefused, ConfigureVfio, Accepted,
        BindVfio, CreateDeployment, AssertReady, Created, CreateClaimSpecFile,
        WithoutSiblings, PrepareReturns, Answer, PublishResources, Partial,
        FindMigDevBySpec, MigDevices, TypeOK, Control
  <2>6. QED
    BY <1>3, <2>1, <2>2, <2>3, <2>4, <2>5 DEF PrepareStep
<1>4. ASSUME NEW t \in Workers, UnprepareStep(t)
      PROVE  TypeOK'
  BY <1>0, <1>4, ConstantsAssumption
  DEF UnprepareStep, UnprepareFind, UnconfigureVfio, BindNvidia, UnprepareDevices,
      StopDaemon, DefaultTimeSlice, DiscoverSiblings, DeleteClaimSpecFile,
      DeleteClaimFromCheckpoint, UnprepareReturns, Answer, PublishResources,
      Partial, FindMigDevBySpec, MigDevices, Fault, TypeOK, Control, SetAll,
      Rediscovered, Siblings, OnGpu
<1>5. ASSUME NEW t \in Workers, Failure(t)
      PROVE  TypeOK'
  BY <1>0, <1>5, ConstantsAssumption
  DEF Failure, DeleteFails, PrepareFails, CreateClaimSpecFileFails,
      UnprepareFails, Fault, Deleting, WithoutSiblings, TypeOK, Control
<1>6. ASSUME NEW t \in Threads, DeleteStep(t)
      PROVE  TypeOK'
  BY <1>0, <1>6, ConstantsAssumption
  DEF DeleteStep, DestroyComputeInstance, DestroyGpuInstance, DeleteDone,
      Deleting, TypeOK, Control, MigAfter, OnGpu, GetGpuInstanceById
<1>7. ASSUME NEW t \in Cleaners, CleanerStep(t)
      PROVE  TypeOK'
  BY <1>0, <1>7, ConstantsAssumption
  DEF CleanerStep, Cleanup, UnprepareIfStale, TypeOK, Control
<1>8. CASE Start \/ DestroyUnknownMIGDevices \/ NewDriver \/ Crash
  <2>1. CASE Crash
    <3>1. /\ lock' = None /\ faults' \in 0 .. MaxFaults
          /\ UNCHANGED <<gates, idVars, nodeVars, known, alloc, checkpoint, specs, worldVars>>
      BY <1>0, <2>1, ConstantsAssumption DEF Crash, Fault, TypeOK
    <3>2. /\ pc' \in [Threads -> PrepareLabels \cup UnprepareLabels \cup
                                   {"idle", "kLookup", "destroy", "publish", "served"}]
          /\ work' \in [Threads -> Claims \cup {None}]
          /\ todo' \in [Threads -> SUBSET Devices]
      BY <1>0, <2>1 DEF Crash
    <3>3. up' \in BOOLEAN
      BY <1>0, <2>1 DEF Crash
    <3>4. QED
      BY <1>0, <3>1, <3>2, <3>3 DEF TypeOK
  <2>2. CASE Start
    <3>1. up' \in BOOLEAN
      BY <1>0, <2>2 DEF Start
    <3>2. alloc' \subseteq Devices /\ todo' \in [Threads -> SUBSET Devices]
      BY <1>0, <2>2 DEF Start, TypeOK, EnumerateAllPossibleDevices, VisitDevices,
         InspectMigProfilesAndPlacements, EnumerateGpuVfioDevices, Unknown
    <3>3. QED
      BY <1>0, <2>2, <3>1, <3>2 DEF Start, TypeOK
  <2>3. CASE DestroyUnknownMIGDevices \/ NewDriver
    BY <1>0, <2>3 DEF DestroyUnknownMIGDevices, NewDriver, TypeOK
  <2>4. QED
    BY <1>0, <1>8, <2>1, <2>2, <2>3
<1>9. ASSUME NEW c \in Claims, Allocate(c) \/ DeleteClaim(c)
      PROVE  TypeOK'
  BY <1>0, <1>9, ConstantsAssumption DEF Allocate, DeleteClaim, TypeOK, Control
<1>10. QED
  BY <1>0, <1>1, <1>2, <1>3, <1>4, <1>5, <1>6, <1>7, <1>8, <1>9 DEF Next

LEMMA ControlStep ==
  ASSUME TypeOK, Control, Next
  PROVE  Control'
<1> USE DEF Threads, Workers, PrepareLabels, UnprepareLabels, Critical,
        At, Goto, GotoWith, Leave, Fail, idVars, nodeVars, procVars, threadVars, worldVars
<1>1. ASSUME NEW t \in Handlers, Request(t)
      PROVE  Control'
  BY <1>1, ConstantsAssumption
  DEF Request, PrepareResourceClaims, UnprepareResourceClaims, TypeOK, Control
<1>2. ASSUME NEW t \in Workers, Acquire(t) \/ AcquireTimeout(t)
      PROVE  Control'
  BY <1>2, ConstantsAssumption DEF Acquire, AcquireTimeout, TypeOK, Control
<1>3. ASSUME NEW t \in Workers, PrepareStep(t)
      PROVE  Control'
  BY <1>3, ConstantsAssumption
  DEF PrepareStep, PrepareCheck, PrepareStarted, ConfigRefused, ConfigureVfio,
      Accepted, BindVfio, ApplySharing, CreateDeployment, AssertReady,
      CreateGpuInstance, CreateComputeInstance, Created, CreateClaimSpecFile,
      WithoutSiblings, PrepareCompleted, PrepareReturns, Answer, PublishResources,
      Partial, FindMigDevBySpec, MigDevices, TypeOK, Control
<1>4. ASSUME NEW t \in Workers, UnprepareStep(t)
      PROVE  Control'
  BY <1>4, ConstantsAssumption
  DEF UnprepareStep, UnprepareFind, UnconfigureVfio, BindNvidia, UnprepareDevices,
      StopDaemon, DefaultTimeSlice, DiscoverSiblings, DeleteClaimSpecFile,
      DeleteClaimFromCheckpoint, UnprepareReturns, Answer, PublishResources,
      Partial, FindMigDevBySpec, MigDevices, Fault, TypeOK, Control
<1>5. ASSUME NEW t \in Workers, Failure(t)
      PROVE  Control'
  BY <1>5, ConstantsAssumption
  DEF Failure, DeleteFails, PrepareFails, CreateClaimSpecFileFails,
      UnprepareFails, Fault, Deleting, WithoutSiblings, TypeOK, Control
<1>6. ASSUME NEW t \in Threads, DeleteStep(t)
      PROVE  Control'
  BY <1>6, ConstantsAssumption
  DEF DeleteStep, DestroyComputeInstance, DestroyGpuInstance, DeleteDone,
      Deleting, TypeOK, Control
<1>7. ASSUME NEW t \in Cleaners, CleanerStep(t)
      PROVE  Control'
  BY <1>7, ConstantsAssumption
  DEF CleanerStep, Cleanup, UnprepareIfStale, TypeOK, Control
<1>8. CASE Start \/ DestroyUnknownMIGDevices \/ NewDriver \/ Crash
  BY <1>8, ConstantsAssumption
  DEF Start, DestroyUnknownMIGDevices, NewDriver, Crash, Fault, TypeOK, Control
<1>9. ASSUME NEW c \in Claims, Allocate(c) \/ DeleteClaim(c)
      PROVE  Control'
  BY <1>9, ConstantsAssumption DEF Allocate, DeleteClaim, TypeOK, Control
<1>10. QED
  BY <1>1, <1>2, <1>3, <1>4, <1>5, <1>6, <1>7, <1>8, <1>9 DEF Next

LEMMA RequestsStep ==
  ASSUME TypeOK, Control, Requests, Next
  PROVE  Requests'
<1> USE DEF Threads, Workers, PrepareLabels, UnprepareLabels, Critical,
        At, Goto, GotoWith, Leave, Fail, idVars, nodeVars, procVars, threadVars, worldVars
<1>1. ASSUME NEW t \in Handlers, Request(t)
      PROVE  Requests'
  BY <1>1, ConstantsAssumption
  DEF Request, PrepareResourceClaims, UnprepareResourceClaims, TypeOK, Control,
      Requests, InFlight
<1>2. ASSUME NEW t \in Workers, Acquire(t) \/ AcquireTimeout(t)
      PROVE  Requests'
  BY <1>2, ConstantsAssumption
  DEF Acquire, AcquireTimeout, TypeOK, Control, Requests
<1>3. ASSUME NEW t \in Workers, PrepareStep(t)
      PROVE  Requests'
  BY <1>3, ConstantsAssumption
  DEF PrepareStep, PrepareCheck, PrepareStarted, ConfigRefused, ConfigureVfio,
      Accepted, BindVfio, ApplySharing, CreateDeployment, AssertReady,
      CreateGpuInstance, CreateComputeInstance, Created, CreateClaimSpecFile,
      WithoutSiblings, PrepareCompleted, PrepareReturns, Answer, PublishResources,
      Partial, FindMigDevBySpec, MigDevices, TypeOK, Control, Requests
<1>4. ASSUME NEW t \in Workers, UnprepareStep(t)
      PROVE  Requests'
  BY <1>4, ConstantsAssumption
  DEF UnprepareStep, UnprepareFind, UnconfigureVfio, BindNvidia, UnprepareDevices,
      StopDaemon, DefaultTimeSlice, DiscoverSiblings, DeleteClaimSpecFile,
      DeleteClaimFromCheckpoint, UnprepareReturns, Answer, PublishResources,
      Partial, FindMigDevBySpec, MigDevices, Fault, TypeOK, Control, Requests
<1>5. ASSUME NEW t \in Workers, Failure(t)
      PROVE  Requests'
  BY <1>5, ConstantsAssumption
  DEF Failure, DeleteFails, PrepareFails, CreateClaimSpecFileFails,
      UnprepareFails, Fault, Deleting, WithoutSiblings, TypeOK, Control, Requests
<1>6. ASSUME NEW t \in Threads, DeleteStep(t)
      PROVE  Requests'
  BY <1>6, ConstantsAssumption
  DEF DeleteStep, DestroyComputeInstance, DestroyGpuInstance, DeleteDone,
      Deleting, TypeOK, Control, Requests
<1>7. ASSUME NEW t \in Cleaners, CleanerStep(t)
      PROVE  Requests'
  BY <1>7, ConstantsAssumption
  DEF CleanerStep, Cleanup, UnprepareIfStale, TypeOK, Control, Requests
<1>8. CASE Start \/ DestroyUnknownMIGDevices \/ NewDriver \/ Crash
  BY <1>8, ConstantsAssumption
  DEF Start, DestroyUnknownMIGDevices, NewDriver, Crash, Fault, TypeOK, Control,
      Requests
<1>9. ASSUME NEW c \in Claims, Allocate(c) \/ DeleteClaim(c)
      PROVE  Requests'
  BY <1>9, ConstantsAssumption DEF Allocate, DeleteClaim, TypeOK, Control, Requests
<1>10. QED
  BY <1>1, <1>2, <1>3, <1>4, <1>5, <1>6, <1>7, <1>8, <1>9 DEF Next

\* A thread keeps its progress when nothing it depends on changes, and has none
\* to keep outside of the lock.
LEMMA PrepareFrame ==
  ASSUME NEW s \in Workers, PrepareProgress(s),
         \/ pc'[s] \notin Preparing \cup {"pPublish"}
         \/ /\ pc'[s] = pc[s] /\ work'[s] = work[s] /\ todo'[s] = todo[s]
            /\ UNCHANGED <<gates, driver, daemons, mode, slice, checkpoint, specs>>
  PROVE  PrepareProgress(s)'
<1>1. CASE pc'[s] \notin Preparing \cup {"pPublish"}
  BY <1>1 DEF PrepareProgress, Preparing, Started, Configured, Granting
<1>2. CASE /\ pc'[s] = pc[s] /\ work'[s] = work[s] /\ todo'[s] = todo[s]
           /\ UNCHANGED <<gates, driver, daemons, mode, slice, checkpoint, specs>>
  BY <1>2 DEF PrepareProgress, Completed, Overlapping, UsedByCompletedClaim, VfioBound,
     SharingGranted
<1>3. QED
  BY <1>1, <1>2

\* Prepare, step by step.
LEMMA PrepareStepProgress ==
  ASSUME TypeOK, Control, Progress, MigGated, NEW t \in Workers, PrepareStep(t)
  PROVE  PrepareProgress(t)'
<1> USE DEF Threads, Workers, At, Goto, GotoWith, Leave, Fail, idVars, nodeVars, procVars,
        threadVars, worldVars
<1>1. CASE PrepareCheck(t)
  BY <1>1, ConstantsAssumption
  DEF PrepareCheck, Partial, FindMigDevBySpec, UsedByCompletedClaim, TypeOK,
      Control, Progress, MigGated, PrepareProgress, Completed, Overlapping,
      VfioBound, SharingGranted, MigDevices, Preparing, Started,
      Configured, Granting
<1>2. CASE PrepareStarted(t)
  BY <1>2, ConstantsAssumption
  DEF PrepareStarted, Overlapping, UsedByCompletedClaim, TypeOK, Control,
      Progress, MigGated, PrepareProgress, Completed, Overlapping, VfioBound,
      SharingGranted, MigDevices, Preparing, Started, Configured,
      Granting
<1>3. CASE ConfigRefused(t)
  BY <1>3, ConstantsAssumption
  DEF ConfigRefused, TypeOK, Control, Progress, MigGated, PrepareProgress,
      Completed, Overlapping, VfioBound, SharingGranted, MigDevices,
      Preparing, Started, Configured, Granting
<1>4. ASSUME NEW d \in Devices, ConfigureVfio(t, d)
      PROVE  PrepareProgress(t)'
  BY <1>4, ConstantsAssumption
  DEF ConfigureVfio, TypeOK, Control, Progress, MigGated, PrepareProgress,
      Completed, Overlapping, VfioBound, SharingGranted, MigDevices,
      Preparing, Started, Configured, Granting
<1>5. ASSUME NEW d \in Devices, BindVfio(t, d)
      PROVE  PrepareProgress(t)'
  BY <1>5, ConstantsAssumption
  DEF BindVfio, TypeOK, Control, Progress, MigGated, PrepareProgress, Completed,
      Overlapping, VfioBound, SharingGranted, MigDevices, Preparing,
      Started, Configured, Granting
<1>6. CASE ApplySharing(t)
  <2> DEFINE c == work[t]
  <2>1. /\ c \in Claims /\ work'[t] = c /\ checkpoint' = checkpoint /\ gates' = gates
        /\ pc[t] = "pConfig" /\ inst' = inst /\ driver' = driver
        /\ daemons' = daemons /\ todo[t] = {} /\ DevicesOf[c] \subseteq alloc
    BY <1>6, ConstantsAssumption DEF ApplySharing, Accepted, Control, PrepareLabels,
       UnprepareLabels
  <2>2. /\ ~ Completed(c)' /\ ~ Overlapping(c)' /\ checkpoint'[c] = "started"
        /\ VfioBound(c)' /\ (MigDevices(c) # {} => gates.dynamicMIG)
    BY <2>1, ConstantsAssumption DEF Progress, PrepareProgress, Completed, Overlapping,
       VfioBound, MigDevices, MigGated, Preparing, Started
  <2>3. CASE SharingOf[c] = "mps"
    <3>1. /\ pc'[t] = "pReady" /\ c \in daemons'
          \/ pc'[t] = "pDeploy"
      BY <1>6, <2>1, <2>3 DEF ApplySharing, TypeOK
    <3>2. QED
      BY <2>1, <2>2, <2>3, <3>1 DEF PrepareProgress, Preparing, Started, Configured, Granting
  <2>4. CASE SharingOf[c] # "mps"
    <3>1. pc'[t] = "pCreate" /\ todo'[t] = MigDevices(c)
      BY <1>6, <2>4 DEF ApplySharing, TypeOK
    <3>2. SharingGranted(c)'
      BY <1>6, <2>1, <2>4, ConstantsAssumption DEF ApplySharing, SharingGranted, SetAll,
         GpusOf, TypeOK
    <3>3. QED
      BY <2>1, <2>2, <2>4, <3>1, <3>2 DEF PrepareProgress, Preparing, Started, Configured,
         Granting
  <2>5. QED
    BY <2>3, <2>4
<1>7. CASE CreateDeployment(t)
  BY <1>7, ConstantsAssumption
  DEF CreateDeployment, TypeOK, Control, Progress, MigGated, PrepareProgress,
      Completed, Overlapping, VfioBound, SharingGranted, MigDevices,
      Preparing, Started, Configured, Granting
<1>8. CASE AssertReady(t)
  BY <1>8, ConstantsAssumption
  DEF AssertReady, TypeOK, Control, Progress, MigGated, PrepareProgress,
      Completed, Overlapping, VfioBound, SharingGranted, MigDevices,
      Preparing, Started, Configured, Granting
<1>9. ASSUME NEW d \in Devices, CreateGpuInstance(t, d)
      PROVE  PrepareProgress(t)'
  BY <1>9, ConstantsAssumption
  DEF CreateGpuInstance, TypeOK, Control, Progress, MigGated, PrepareProgress,
      Completed, Overlapping, VfioBound, SharingGranted, MigDevices,
      Preparing, Started, Configured, Granting
<1>10. ASSUME NEW d \in Devices, CreateComputeInstance(t, d)
      PROVE  PrepareProgress(t)'
  BY <1>10, ConstantsAssumption
  DEF CreateComputeInstance, TypeOK, Control, Progress, MigGated, PrepareProgress,
      Completed, Overlapping, VfioBound, SharingGranted, MigDevices,
      Preparing, Started, Configured, Granting
<1>11. CASE Created(t)
  BY <1>11, ConstantsAssumption
  DEF Created, TypeOK, Control, Progress, MigGated, PrepareProgress, Completed,
      Overlapping, VfioBound, SharingGranted, MigDevices, Preparing,
      Started, Configured, Granting
<1>12. CASE CreateClaimSpecFile(t)
  BY <1>12, ConstantsAssumption
  DEF CreateClaimSpecFile, TypeOK, Control, Progress, MigGated, PrepareProgress,
      Completed, Overlapping, VfioBound, SharingGranted, MigDevices,
      Preparing, Started, Configured, Granting
<1>13. CASE PrepareCompleted(t)
  BY <1>13, ConstantsAssumption
  DEF PrepareCompleted, TypeOK, Control, Progress, MigGated, PrepareProgress,
      Completed, Overlapping, VfioBound, SharingGranted, MigDevices,
      Preparing, Started, Configured, Granting
<1>14. CASE PrepareReturns(t)
  BY <1>14, ConstantsAssumption
  DEF PrepareReturns, TypeOK, Control, Progress, MigGated, PrepareProgress,
      Completed, Overlapping, VfioBound, SharingGranted, MigDevices,
      Preparing, Started, Configured, Granting
<1>15. QED
  BY <1>1, <1>2, <1>3, <1>4, <1>5, <1>6, <1>7, <1>8, <1>9, <1>10, <1>11, <1>12, <1>13, <1>14
     DEF PrepareStep

\* Prepare, with all other steps.
LEMMA PrepareProgressStep ==
  ASSUME TypeOK, Control, Progress, MigGated, Next, NEW s \in Workers
  PROVE  PrepareProgress(s)'
<1> USE DEF Threads, Workers, PrepareLabels, UnprepareLabels, Critical, At, Goto, GotoWith,
        Leave, Fail, idVars, nodeVars, procVars, threadVars, worldVars
<1>0. PrepareProgress(s)
  BY DEF Progress
<1>1. ASSUME NEW t \in Handlers, Request(t)
      PROVE  PrepareProgress(s)'
  BY <1>0, <1>1, PrepareFrame DEF Request, PrepareResourceClaims, UnprepareResourceClaims,
     TypeOK, Preparing
<1>2. ASSUME NEW t \in Workers, Acquire(t) \/ AcquireTimeout(t)
      PROVE  PrepareProgress(s)'
  BY <1>0, <1>2, PrepareFrame DEF Acquire, AcquireTimeout, TypeOK, Preparing
<1>3. ASSUME NEW t \in Workers, PrepareStep(t)
      PROVE  PrepareProgress(s)'
  <2>1. CASE s = t
    BY <1>3, <2>1, PrepareStepProgress
  <2>2. CASE s # t
    <3>1. pc[t] \in Critical /\ pc'[s] = pc[s]
      BY <1>3, <2>2
      DEF PrepareStep, PrepareCheck, PrepareStarted, ConfigRefused, ConfigureVfio, BindVfio,
          ApplySharing, CreateDeployment, AssertReady, CreateGpuInstance,
          CreateComputeInstance, Created, CreateClaimSpecFile, PrepareCompleted,
          PrepareReturns, TypeOK
    <3>2. pc[s] \notin Critical
      BY <2>2, <3>1, OneHolder
    <3>3. QED
      BY <1>0, <3>1, <3>2, PrepareFrame DEF Preparing
  <2>3. QED
    BY <2>1, <2>2
<1>4. ASSUME NEW t \in Workers, UnprepareStep(t)
      PROVE  PrepareProgress(s)'
  <2>1. /\ pc[t] \in Critical /\ pc'[t] \in UnprepareLabels \cup {"idle"}
        /\ s # t => pc'[s] = pc[s]
    BY <1>4
    DEF UnprepareStep, UnprepareFind, UnconfigureVfio, BindNvidia, UnprepareDevices,
        StopDaemon, DefaultTimeSlice, DiscoverSiblings, DeleteClaimSpecFile,
        DeleteClaimFromCheckpoint, UnprepareReturns, TypeOK
  <2>2. s # t => pc[s] \notin Critical
    BY <2>1, OneHolder
  <2>3. QED
    BY <1>0, <2>1, <2>2, PrepareFrame DEF Preparing
<1>5. ASSUME NEW t \in Workers, Failure(t)
      PROVE  PrepareProgress(s)'
  <2>1. pc[t] \in Critical /\ pc'[t] = "idle" /\ (s # t => pc'[s] = pc[s])
    BY <1>5 DEF Failure, DeleteFails, PrepareFails, CreateClaimSpecFileFails, UnprepareFails,
       Deleting, TypeOK
  <2>2. s # t => pc[s] \notin Critical
    BY <2>1, OneHolder
  <2>3. QED
    BY <1>0, <2>1, <2>2, PrepareFrame DEF Preparing
<1>6. ASSUME NEW t \in Threads, DeleteStep(t)
      PROVE  PrepareProgress(s)'
  <2>1. CASE s = t
    BY <1>6, <2>1 DEF DeleteStep, DestroyComputeInstance, DestroyGpuInstance, DeleteDone,
       Deleting, TypeOK, Control, Progress, PrepareProgress, Completed, Overlapping,
       UsedByCompletedClaim, Preparing, Started, Configured, Granting
  <2>2. CASE s # t
    <3>1. pc'[s] = pc[s] /\ pc[s] \notin Critical
      BY <1>6, <2>2, ThreadFacts, OneHolder DEF DeleteStep, DestroyComputeInstance,
         DestroyGpuInstance, DeleteDone, Deleting, TypeOK, Control
    <3>2. QED
      BY <1>0, <3>1, PrepareFrame DEF Preparing
  <2>3. QED
    BY <2>1, <2>2
<1>7. ASSUME NEW t \in Cleaners, CleanerStep(t)
      PROVE  PrepareProgress(s)'
  BY <1>0, <1>7, PrepareFrame DEF CleanerStep, Cleanup, UnprepareIfStale, TypeOK, Preparing
<1>8. CASE Start \/ DestroyUnknownMIGDevices \/ NewDriver \/ Crash
  <2>1. pc'[s] = "idle"
    BY <1>8, ThreadFacts DEF Start, DestroyUnknownMIGDevices, NewDriver, Crash, TypeOK, Control
  <2>2. QED
    BY <1>0, <2>1, PrepareFrame DEF Preparing
<1>9. ASSUME NEW c \in Claims, Allocate(c) \/ DeleteClaim(c)
      PROVE  PrepareProgress(s)'
  BY <1>0, <1>9, PrepareFrame DEF Allocate, DeleteClaim
<1>10. QED
  BY <1>1, <1>2, <1>3, <1>4, <1>5, <1>6, <1>7, <1>8, <1>9 DEF Next

\* The MIG devices of the claim that a request prepares.
LEMMA CreateStepProgress ==
  ASSUME TypeOK, Control, Progress, NEW t \in Workers, PrepareStep(t)
  PROVE  CreateProgress(t)'
<1> DEFINE c == work[t]
<1> USE DEF Threads, Workers, At, Goto, GotoWith, Leave, Fail, idVars, nodeVars, procVars,
        threadVars, worldVars, TypeOK
<1>1. CreateProgress(t)
  BY DEF Progress
<1>2. CASE ApplySharing(t) \/ AssertReady(t)
  <2>1. pc'[t] \in {"pDeploy", "pReady"} \/ (pc'[t] = "pCreate" /\ todo'[t] = MigDevices(c))
    BY <1>2 DEF ApplySharing, AssertReady
  <2>2. work' = work
    BY <1>2 DEF ApplySharing, AssertReady
  <2>3. QED
    BY <2>1, <2>2 DEF CreateProgress, MigCreating
<1>3. ASSUME NEW d \in Devices, CreateGpuInstance(t, d)
      PROVE  CreateProgress(t)'
  <2>1. CASE Occupied(d)
    BY <1>3, <2>1 DEF CreateGpuInstance, CreateProgress
  <2>2. CASE ~ Occupied(d)
    <3>1. /\ pc'[t] = "pCompute" /\ todo'[t] = todo[t] \ {d} /\ work'[t] = c
          /\ inst' = [inst EXCEPT ![d] = "gi"] /\ d \in todo[t]
          /\ checkpoint' = checkpoint /\ recorded' = recorded
      BY <1>3, <2>2 DEF CreateGpuInstance
    <3>2. /\ MigCreating(t) /\ pc[t] = "pCreate"
          /\ todo[t] \subseteq MigDevices(c) /\ c \in Claims /\ c \notin {e \in Claims : Completed(e)}
      BY <1>1, <1>3 DEF CreateGpuInstance, CreateProgress, MigCreating, Control, Progress,
         PrepareProgress, Preparing
    <3>3. PICK i \in Ids :
            /\ gi' = [gi EXCEPT ![d] = i]
            /\ recycled' = IF Recorded(GpuOf[d], i) THEN recycled \cup {c} ELSE recycled
      BY <1>3, <2>2 DEF CreateGpuInstance
    <3>4. Safe(c, d)'
      <4>1. gi'[d] = i
        BY <3>3 DEF IdsOK
      <4>2. CASE Recorded(GpuOf[d], i)
        BY <3>1, <3>3, <4>2 DEF Safe
      <4>3. CASE ~ Recorded(GpuOf[d], i)
        BY <3>1, <4>1, <4>3 DEF Safe, Unshadowed, Recorded, Completed
      <4>4. QED
        BY <4>2, <4>3
    <3>5. ASSUME NEW e \in MigDevices(c) \ todo[t]
          PROVE  inst'[e] = "full" /\ Safe(c, e)'
      <4>1. e \in Devices /\ e # d /\ inst[e] = "full" /\ Safe(c, e)
        BY <3>1, <3>2, ConstantsAssumption DEF MigCreating, MigDevices
      <4>2. gi'[e] = gi[e] /\ inst'[e] = inst[e] /\ recycled \subseteq recycled'
        BY <3>1, <3>3, <4>1 DEF IdsOK
      <4>3. QED
        BY <3>1, <4>1, <4>2 DEF Safe, Unshadowed, Completed
    <3>6. inst'[d] = "gi"
      BY <3>1
    <3>7. MigCreating(t)'
      BY <3>1, <3>2, <3>4, <3>5, <3>6 DEF MigCreating
    <3>8. QED
      BY <3>1, <3>7 DEF CreateProgress
  <2>3. QED
    BY <2>1, <2>2
<1>4. ASSUME NEW d \in Devices, CreateComputeInstance(t, d)
      PROVE  CreateProgress(t)'
  <2>1. /\ pc'[t] = "pCreate" /\ todo'[t] = todo[t] /\ work'[t] = c
        /\ inst' = [inst EXCEPT ![d] = "full"] /\ d \in MigDevices(c) \ todo[t]
        /\ inst[d] = "gi" /\ checkpoint' = checkpoint /\ UNCHANGED idVars
    BY <1>4 DEF CreateComputeInstance
  <2>2. MigCreating(t) /\ pc[t] = "pCompute"
    BY <1>1, <1>4 DEF CreateComputeInstance, CreateProgress
  <2>3. \A e \in MigDevices(c) : Safe(c, e)' <=> Safe(c, e)
    BY <2>1 DEF Safe, Unshadowed, Completed
  <2>4. ASSUME NEW e \in MigDevices(c) \ todo[t]
        PROVE  inst'[e] = "full"
    <3>0. c \in Claims
      BY <2>2, CarvesForClaim DEF PrepareLabels
    <3>1. e \in Devices /\ inst \in [Devices -> {"none", "gi", "full"}]
      BY <3>0, ConstantsAssumption DEF MigDevices
    <3>2. e # d => inst[e] = "full"
      BY <2>1, <2>2, <3>1 DEF MigCreating
    <3>3. QED
      BY <2>1, <3>1, <3>2
  <2>5. MigCreating(t)'
    BY <2>1, <2>2, <2>3, <2>4 DEF MigCreating
  <2>6. QED
    BY <2>1, <2>5 DEF CreateProgress
<1>5. CASE Created(t) \/ CreateClaimSpecFile(t)
  <2>1. /\ work' = work /\ UNCHANGED <<inst, idVars, checkpoint>>
        /\ \/ pc[t] = "pCreate" /\ todo[t] = {} /\ pc'[t] = "pSpec"
           \/ pc[t] = "pSpec" /\ pc'[t] = "pDone"
    BY <1>5 DEF Created, CreateClaimSpecFile
  <2>2. MigCreated(c)
    BY <1>1, <2>1 DEF CreateProgress, MigCreating, MigCreated
  <2>3. MigCreated(c)'
    BY <2>1, <2>2 DEF MigCreated, Safe, Unshadowed, Completed
  <2>4. QED
    BY <2>1, <2>3 DEF CreateProgress
<1>6. CASE \/ PrepareCheck(t) \/ PrepareStarted(t) \/ ConfigRefused(t) \/ CreateDeployment(t)
           \/ PrepareCompleted(t) \/ PrepareReturns(t)
           \/ \E d \in Devices : ConfigureVfio(t, d) \/ BindVfio(t, d)
  BY <1>6
  DEF PrepareCheck, PrepareStarted, ConfigRefused, CreateDeployment, PrepareCompleted,
      PrepareReturns, ConfigureVfio, BindVfio, CreateProgress
<1>7. QED
  BY <1>2, <1>3, <1>4, <1>5, <1>6 DEF PrepareStep

\* The same, with all other steps.
LEMMA CreateProgressStep ==
  ASSUME TypeOK, Control, Progress, Next, NEW s \in Workers
  PROVE  CreateProgress(s)'
<1> DEFINE Creating == {"pCreate", "pCompute", "pSpec", "pDone"}
<1> USE ThreadFacts DEF Threads, Workers, PrepareLabels, UnprepareLabels, Critical, At, Goto,
        GotoWith, Leave, Fail, idVars, nodeVars, procVars, threadVars, worldVars
<1>0. CreateProgress(s)
  BY DEF Progress
<1>1. ASSUME \/ pc'[s] \notin Creating
             \/ /\ pc'[s] = pc[s] /\ work'[s] = work[s] /\ todo'[s] = todo[s]
                /\ UNCHANGED <<inst, idVars, checkpoint>>
      PROVE  CreateProgress(s)'
  <2>1. CASE pc'[s] \notin Creating
    BY <2>1 DEF CreateProgress
  <2>2. CASE /\ pc'[s] = pc[s] /\ work'[s] = work[s] /\ todo'[s] = todo[s]
             /\ UNCHANGED <<inst, idVars, checkpoint>>
    BY <1>0, <2>2 DEF CreateProgress, MigCreating, MigCreated, Safe, Unshadowed, Completed
  <2>3. QED
    BY <1>1, <2>1, <2>2
<1> HIDE DEF Creating
<1>2. Creating \subseteq Critical
  BY DEF Creating
<1>3. ASSUME NEW t \in Handlers, Request(t)
      PROVE  CreateProgress(s)'
  BY <1>1, <1>3 DEF Request, PrepareResourceClaims, UnprepareResourceClaims, TypeOK, Creating
<1>4. ASSUME NEW t \in Workers, Acquire(t) \/ AcquireTimeout(t)
      PROVE  CreateProgress(s)'
  BY <1>1, <1>4 DEF Acquire, AcquireTimeout, TypeOK, Creating
<1>5. ASSUME NEW t \in Workers, PrepareStep(t)
      PROVE  CreateProgress(s)'
  <2>1. CASE s = t
    BY <1>5, <2>1, CreateStepProgress
  <2>2. CASE s # t
    <3>1. pc[t] \in Critical /\ pc'[s] = pc[s]
      BY <1>5, <2>2
      DEF PrepareStep, PrepareCheck, PrepareStarted, ConfigRefused, ConfigureVfio, BindVfio,
          ApplySharing, CreateDeployment, AssertReady, CreateGpuInstance,
          CreateComputeInstance, Created, CreateClaimSpecFile, PrepareCompleted,
          PrepareReturns, TypeOK
    <3>2. pc[s] \notin Critical
      BY <2>2, <3>1, OneHolder
    <3>3. QED
      BY <1>1, <1>2, <3>1, <3>2
  <2>3. QED
    BY <2>1, <2>2
<1>6. ASSUME NEW t \in Workers, UnprepareStep(t) \/ Failure(t)
      PROVE  CreateProgress(s)'
  <2>1. /\ pc[t] \in Critical /\ pc'[t] \in UnprepareLabels \cup {"idle"}
        /\ s # t => pc'[s] = pc[s]
    <3>1. CASE UnprepareStep(t)
      BY <3>1
      DEF UnprepareStep, UnprepareFind, UnconfigureVfio, BindNvidia, UnprepareDevices,
          StopDaemon, DefaultTimeSlice, DiscoverSiblings, DeleteClaimSpecFile,
          DeleteClaimFromCheckpoint, UnprepareReturns, TypeOK
    <3>2. CASE Failure(t)
      BY <3>2
      DEF Failure, DeleteFails, PrepareFails, CreateClaimSpecFileFails, UnprepareFails,
          Deleting, TypeOK
    <3>3. QED
      BY <1>6, <3>1, <3>2
  <2>2. s # t => pc[s] \notin Critical
    BY <2>1, OneHolder
  <2>3. pc'[s] \notin Creating
    BY <1>2, <2>1, <2>2 DEF Creating
  <2>4. QED
    BY <1>1, <2>3
<1>7. ASSUME NEW t \in Threads, DeleteStep(t)
      PROVE  CreateProgress(s)'
  <2>1. pc'[s] \notin Creating
    <3>1. CASE s = t
      BY <1>7, <3>1 DEF DeleteStep, DestroyComputeInstance, DestroyGpuInstance, DeleteDone,
         Deleting, TypeOK, Creating
    <3>2. CASE s # t
      <4>1. pc'[s] = pc[s] /\ pc[s] \notin Critical
        BY <1>7, <3>2, OneHolder DEF DeleteStep, DestroyComputeInstance,
           DestroyGpuInstance, DeleteDone, Deleting, TypeOK, Control
      <4>2. QED
        BY <1>2, <4>1
    <3>3. QED
      BY <3>1, <3>2
  <2>2. QED
    BY <1>1, <2>1
<1>8. ASSUME NEW t \in Cleaners, CleanerStep(t)
      PROVE  CreateProgress(s)'
  BY <1>1, <1>8 DEF CleanerStep, Cleanup, UnprepareIfStale, TypeOK, Creating
<1>9. CASE Start \/ DestroyUnknownMIGDevices \/ NewDriver \/ Crash
  <2>1. pc'[s] = "idle"
    BY <1>9 DEF Start, DestroyUnknownMIGDevices, NewDriver, Crash, TypeOK, Control
  <2>2. QED
    BY <1>1, <2>1 DEF Creating
<1>10. ASSUME NEW c \in Claims, Allocate(c) \/ DeleteClaim(c)
      PROVE  CreateProgress(s)'
  BY <1>1, <1>10 DEF Allocate, DeleteClaim
<1>11. QED
  BY <1>3, <1>4, <1>5, <1>6, <1>7, <1>8, <1>9, <1>10 DEF Next

LEMMA UnprepareProgressStep ==
  ASSUME TypeOK, Control, Progress, MigGated, Identified, RecordAgrees, Next
  PROVE  \A s \in Workers : UnprepareProgress(s)'
<1> USE DEF Threads, Workers, PrepareLabels, UnprepareLabels, Critical,
        At, Goto, GotoWith, Leave, Fail, idVars, nodeVars, procVars, threadVars, worldVars
<1>1. ASSUME NEW t \in Handlers, Request(t)
      PROVE  \A s \in Workers : UnprepareProgress(s)'
  BY <1>1, ConstantsAssumption
  DEF Request, PrepareResourceClaims, UnprepareResourceClaims, TypeOK, Control,
      Preparing, Started, Configured, Granting, Cleared, Progress,
      PrepareProgress, UnprepareProgress, Completed, UsedByCompletedClaim,
      UsedByOther, Visible, MigGated
<1>2. ASSUME NEW t \in Workers, Acquire(t) \/ AcquireTimeout(t)
      PROVE  \A s \in Workers : UnprepareProgress(s)'
  BY <1>2, ConstantsAssumption
  DEF Acquire, AcquireTimeout, TypeOK, Control, Preparing, Started, Configured,
      Granting, Cleared, Progress, PrepareProgress, UnprepareProgress, Completed,
      UsedByCompletedClaim, UsedByOther, Visible, MigGated
<1>3. ASSUME NEW t \in Workers, PrepareStep(t)
      PROVE  \A s \in Workers : UnprepareProgress(s)'
  BY <1>3, ConstantsAssumption
  DEF PrepareStep, PrepareCheck, PrepareStarted, ConfigRefused, ConfigureVfio,
      Accepted, BindVfio, ApplySharing, CreateDeployment, AssertReady,
      CreateGpuInstance, CreateComputeInstance, Created, CreateClaimSpecFile,
      WithoutSiblings, PrepareCompleted, PrepareReturns, Answer, PublishResources,
      Partial, FindMigDevBySpec, MigDevices, TypeOK, Control, Preparing, Started,
      Configured, Granting, Cleared, Progress, PrepareProgress, UnprepareProgress,
      Completed, UsedByCompletedClaim, UsedByOther, Visible, MigGated
<1>4. ASSUME NEW t \in Workers, UnprepareStep(t)
      PROVE  \A s \in Workers : UnprepareProgress(s)'
  BY <1>4, ConstantsAssumption
  DEF UnprepareStep, UnprepareFind, UnconfigureVfio, BindNvidia, UnprepareDevices,
      StopDaemon, DefaultTimeSlice, DiscoverSiblings, DeleteClaimSpecFile,
      DeleteClaimFromCheckpoint, UnprepareReturns, Answer, PublishResources,
      Partial, FindMigDevBySpec, MigDevices, Fault, TypeOK, Control, Preparing,
      Started, Configured, Granting, Cleared, Progress, PrepareProgress,
      UnprepareProgress, Completed, UsedByCompletedClaim, UsedByOther, Visible,
      MigGated
<1>5. ASSUME NEW t \in Workers, Failure(t)
      PROVE  \A s \in Workers : UnprepareProgress(s)'
  BY <1>5, ConstantsAssumption
  DEF Failure, DeleteFails, PrepareFails, CreateClaimSpecFileFails,
      UnprepareFails, Fault, Deleting, WithoutSiblings, TypeOK, Control,
      Preparing, Started, Configured, Granting, Cleared, Progress,
      PrepareProgress, UnprepareProgress, Completed, UsedByCompletedClaim,
      UsedByOther, Visible, MigGated
<1>6. ASSUME NEW t \in Threads, DeleteStep(t)
      PROVE  \A s \in Workers : UnprepareProgress(s)'
  <2> SUFFICES ASSUME NEW s \in Workers
               PROVE  UnprepareProgress(s)'
    OBVIOUS
  <2>0. /\ Deleting(t) /\ UNCHANGED <<work, checkpoint>>
        /\ \A d \in Devices : Visible(d)' => Visible(d)
    BY <1>6 DEF DeleteStep, DestroyComputeInstance, DestroyGpuInstance, DeleteDone, Visible,
       TypeOK
  <2>1. CASE s # t
    <3>1. pc'[s] = pc[s]
      BY <1>6, <2>1 DEF DeleteStep, DestroyComputeInstance, DestroyGpuInstance, DeleteDone, TypeOK
    <3>2. CASE t \in Workers
      <4>1. pc[t] \in Critical
        BY <2>0, <3>2 DEF Deleting, Control
      <4>2. pc[s] \notin Critical
        BY <2>1, <3>2, <4>1, OneHolder
      <4>3. QED
        BY <3>1, <4>2 DEF UnprepareProgress, Cleared
    <3>3. CASE t = Boot
      <4>1. pc[s] = "idle"
        BY <2>0, <3>3 DEF Deleting, Control
      <4>2. QED
        BY <3>1, <4>1 DEF UnprepareProgress, Cleared
    <3>4. QED
      BY <3>2, <3>3
  <2>2. CASE s = t /\ pc[t] = "pDelete"
    BY <1>6, <2>2 DEF DeleteStep, DestroyComputeInstance, DestroyGpuInstance, DeleteDone,
       TypeOK, UnprepareProgress, Cleared
  <2>3. CASE s = t /\ pc[t] = "uDelete" /\ DeleteDone(t)
    <3>1. /\ UnprepareProgress(t) /\ todo[t] = {}
          /\ pc'[t] = IF Completed(work[t]) THEN "uStop" ELSE "uSpec"
      BY <2>3 DEF DeleteDone, Progress, TypeOK
    <3>2. QED
      BY <2>0, <2>3, <3>1, ConstantsAssumption
      DEF UnprepareProgress, Cleared, UsedByOther, Completed, Control
  <2>4. ASSUME s = t, pc[t] = "uDelete", NEW d \in Devices, DestroyComputeInstance(t, d)
        PROVE  UnprepareProgress(s)'
    <3>1. UnprepareProgress(t) /\ pc'[t] = "uDelete" /\ todo' = todo
      BY <2>4 DEF DestroyComputeInstance, Progress
    <3>2. QED
      BY <2>0, <2>4, <3>1, ConstantsAssumption
      DEF UnprepareProgress, Cleared, UsedByOther, UsedByCompletedClaim, Completed, Control
  <2>5. ASSUME s = t, pc[t] = "uDelete", NEW d \in Devices, DestroyGpuInstance(t, d)
        PROVE  UnprepareProgress(s)'
    <3>1. /\ UnprepareProgress(t) /\ pc'[t] = "uDelete" /\ todo'[t] = todo[t] \ {d}
          /\ d \in todo[t] /\ work[t] \in Claims
      BY <2>4, <2>5 DEF DestroyGpuInstance, Progress, TypeOK, Control
    <3>2. Visible(d)' => ~ NoAdmin(d)
      <4>1. SUFFICES ASSUME inst[d] # "none", NoAdmin(d)
                     PROVE  d \in GetGpuInstanceById(t, d)
        BY <2>5 DEF DestroyGpuInstance, Visible, TypeOK
      <4>2. CASE Completed(work[t])
        <5>1. d \in MigDevices(work[t])
          BY <2>5, <3>1, <4>2 DEF UnprepareProgress
        <5>2. gi[d] = recorded[work[t]][d]
          BY <3>1, <4>1, <4>2, <5>1 DEF RecordAgrees
        <5>3. QED
          BY <2>5, <4>1, <4>2, <5>2 DEF GetGpuInstanceById, OnGpu
      <4>3. CASE ~ Completed(work[t])
        BY <4>3 DEF GetGpuInstanceById
      <4>4. QED
        BY <4>2, <4>3
    <3>3. QED
      BY <2>0, <2>5, <3>1, <3>2, ConstantsAssumption
      DEF UnprepareProgress, Cleared, UsedByOther, UsedByCompletedClaim, Completed
  <2>6. QED
    BY <1>6, <2>0, <2>1, <2>2, <2>3, <2>4, <2>5 DEF DeleteStep, Deleting, Control
<1>7. ASSUME NEW t \in Cleaners, CleanerStep(t)
      PROVE  \A s \in Workers : UnprepareProgress(s)'
  BY <1>7, ConstantsAssumption
  DEF CleanerStep, Cleanup, UnprepareIfStale, TypeOK, Control, Preparing, Started,
      Configured, Granting, Cleared, Progress, PrepareProgress, UnprepareProgress,
      Completed, UsedByCompletedClaim, UsedByOther, Visible, MigGated
<1>8. CASE Start \/ DestroyUnknownMIGDevices \/ NewDriver \/ Crash
  BY <1>8, ConstantsAssumption
  DEF Start, DestroyUnknownMIGDevices, NewDriver, Crash, Fault, TypeOK, Control,
      Preparing, Started, Configured, Granting, Cleared, Progress,
      PrepareProgress, UnprepareProgress, Completed, UsedByCompletedClaim,
      UsedByOther, Visible, MigGated
<1>9. ASSUME NEW c \in Claims, Allocate(c) \/ DeleteClaim(c)
      PROVE  \A s \in Workers : UnprepareProgress(s)'
  BY <1>9, ConstantsAssumption
  DEF Allocate, DeleteClaim, TypeOK, Control, Preparing, Started, Configured,
      Granting, Cleared, Progress, PrepareProgress, UnprepareProgress, Completed,
      UsedByCompletedClaim, UsedByOther, Visible, MigGated
<1>10. QED
  BY <1>1, <1>2, <1>3, <1>4, <1>5, <1>6, <1>7, <1>8, <1>9 DEF Next

\* What a starting process destroys is of no completed claim.
LEMMA BootProgressStep ==
  ASSUME TypeOK, Control, Progress, Next
  PROVE  (pc[Boot] = "destroy" => \A d \in todo[Boot] : ~ UsedByCompletedClaim(d))'
<1> USE DEF Threads, Workers, PrepareLabels, UnprepareLabels, Critical,
        At, Goto, GotoWith, Leave, Fail, idVars, nodeVars, procVars, threadVars, worldVars
<1>1. ASSUME NEW t \in Handlers, Request(t)
      PROVE  (pc[Boot] = "destroy" => \A d \in todo[Boot] : ~ UsedByCompletedClaim(d))'
  BY <1>1, ConstantsAssumption
  DEF Request, PrepareResourceClaims, UnprepareResourceClaims, TypeOK, Control,
      Progress, Completed, UsedByCompletedClaim
<1>2. ASSUME NEW t \in Workers, Acquire(t) \/ AcquireTimeout(t)
      PROVE  (pc[Boot] = "destroy" => \A d \in todo[Boot] : ~ UsedByCompletedClaim(d))'
  BY <1>2, ConstantsAssumption
  DEF Acquire, AcquireTimeout, TypeOK, Control, Progress, Completed,
      UsedByCompletedClaim
<1>3. ASSUME NEW t \in Workers, PrepareStep(t)
      PROVE  (pc[Boot] = "destroy" => \A d \in todo[Boot] : ~ UsedByCompletedClaim(d))'
  BY <1>3, ConstantsAssumption
  DEF PrepareStep, PrepareCheck, PrepareStarted, ConfigRefused, ConfigureVfio,
      Accepted, BindVfio, ApplySharing, CreateDeployment, AssertReady,
      CreateGpuInstance, CreateComputeInstance, Created, CreateClaimSpecFile,
      WithoutSiblings, PrepareCompleted, PrepareReturns, Answer, PublishResources,
      Partial, FindMigDevBySpec, MigDevices, TypeOK, Control, Progress, Completed,
      UsedByCompletedClaim
<1>4. ASSUME NEW t \in Workers, UnprepareStep(t)
      PROVE  (pc[Boot] = "destroy" => \A d \in todo[Boot] : ~ UsedByCompletedClaim(d))'
  BY <1>4, ConstantsAssumption
  DEF UnprepareStep, UnprepareFind, UnconfigureVfio, BindNvidia, UnprepareDevices,
      StopDaemon, DefaultTimeSlice, DiscoverSiblings, DeleteClaimSpecFile,
      DeleteClaimFromCheckpoint, UnprepareReturns, Answer, PublishResources,
      Partial, FindMigDevBySpec, MigDevices, Fault, TypeOK, Control, Progress,
      Completed, UsedByCompletedClaim
<1>5. ASSUME NEW t \in Workers, Failure(t)
      PROVE  (pc[Boot] = "destroy" => \A d \in todo[Boot] : ~ UsedByCompletedClaim(d))'
  BY <1>5, ConstantsAssumption
  DEF Failure, DeleteFails, PrepareFails, CreateClaimSpecFileFails,
      UnprepareFails, Fault, Deleting, WithoutSiblings, TypeOK, Control, Progress,
      Completed, UsedByCompletedClaim
<1>6. ASSUME NEW t \in Threads, DeleteStep(t)
      PROVE  (pc[Boot] = "destroy" => \A d \in todo[Boot] : ~ UsedByCompletedClaim(d))'
  BY <1>6, ConstantsAssumption
  DEF DeleteStep, DestroyComputeInstance, DestroyGpuInstance, DeleteDone,
      Deleting, TypeOK, Control, Progress, Completed, UsedByCompletedClaim
<1>7. ASSUME NEW t \in Cleaners, CleanerStep(t)
      PROVE  (pc[Boot] = "destroy" => \A d \in todo[Boot] : ~ UsedByCompletedClaim(d))'
  BY <1>7, ConstantsAssumption
  DEF CleanerStep, Cleanup, UnprepareIfStale, TypeOK, Control, Progress,
      Completed, UsedByCompletedClaim
<1>8. CASE Start \/ DestroyUnknownMIGDevices \/ NewDriver \/ Crash
  BY <1>8, ConstantsAssumption
  DEF Start, DestroyUnknownMIGDevices, NewDriver, Crash, Fault, TypeOK, Control,
      Progress, Completed, UsedByCompletedClaim, Unknown
<1>9. ASSUME NEW c \in Claims, Allocate(c) \/ DeleteClaim(c)
      PROVE  (pc[Boot] = "destroy" => \A d \in todo[Boot] : ~ UsedByCompletedClaim(d))'
  BY <1>9, ConstantsAssumption
  DEF Allocate, DeleteClaim, TypeOK, Control, Progress, Completed,
      UsedByCompletedClaim
<1>10. QED
  BY <1>1, <1>2, <1>3, <1>4, <1>5, <1>6, <1>7, <1>8, <1>9 DEF Next

LEMMA MigGatedStep ==
  ASSUME TypeOK, Control, Progress, MigGated, Next
  PROVE  MigGated'
<1> USE DEF Threads, Workers, PrepareLabels, UnprepareLabels, Critical,
        At, Goto, GotoWith, Leave, Fail, idVars, nodeVars, procVars, threadVars, worldVars
<1>1. ASSUME NEW t \in Handlers, Request(t)
      PROVE  MigGated'
  BY <1>1, ConstantsAssumption
  DEF Request, PrepareResourceClaims, UnprepareResourceClaims, TypeOK, Control,
      Preparing, Started, Configured, Granting, Cleared, Progress,
      PrepareProgress, MigGated
<1>2. ASSUME NEW t \in Workers, Acquire(t) \/ AcquireTimeout(t)
      PROVE  MigGated'
  BY <1>2, ConstantsAssumption
  DEF Acquire, AcquireTimeout, TypeOK, Control, Preparing, Started, Configured,
      Granting, Cleared, Progress, PrepareProgress, MigGated
<1>3. ASSUME NEW t \in Workers, PrepareStep(t)
      PROVE  MigGated'
  <2>1. ASSUME NEW d \in Devices, CreateGpuInstance(t, d) \/ CreateComputeInstance(t, d)
        PROVE  MigGated'
    <3>1. d \in MigDevices(work[t]) /\ gates.dynamicMIG
      BY <2>1 DEF CreateGpuInstance, CreateComputeInstance, Progress, PrepareProgress,
         CreateProgress, MigCreating, Preparing, Started, Configured
    <3>2. KindOf[d] = "mig" /\ UNCHANGED <<gates, alloc>>
      BY <2>1, <3>1 DEF CreateGpuInstance, CreateComputeInstance, MigDevices
    <3>3. \A e \in Devices : e # d => inst'[e] = inst[e]
      BY <2>1 DEF CreateGpuInstance, CreateComputeInstance, TypeOK
    <3>4. QED
      BY <3>1, <3>2, <3>3 DEF MigGated
  <2>2. CASE \/ PrepareCheck(t) \/ PrepareStarted(t) \/ ConfigRefused(t) \/ ApplySharing(t)
             \/ CreateDeployment(t) \/ AssertReady(t) \/ Created(t)
             \/ CreateClaimSpecFile(t) \/ PrepareCompleted(t) \/ PrepareReturns(t)
             \/ \E d \in Devices : ConfigureVfio(t, d) \/ BindVfio(t, d)
    BY <2>2
    DEF PrepareCheck, PrepareStarted, ConfigRefused, ConfigureVfio, BindVfio, ApplySharing,
        CreateDeployment, AssertReady, Created, CreateClaimSpecFile, WithoutSiblings,
        PrepareCompleted, PrepareReturns, MigGated
  <2>3. QED
    BY <1>3, <2>1, <2>2 DEF PrepareStep
<1>4. ASSUME NEW t \in Workers, UnprepareStep(t)
      PROVE  MigGated'
  BY <1>4, ConstantsAssumption
  DEF UnprepareStep, UnprepareFind, UnconfigureVfio, BindNvidia, UnprepareDevices,
      StopDaemon, DefaultTimeSlice, DiscoverSiblings, DeleteClaimSpecFile,
      DeleteClaimFromCheckpoint, UnprepareReturns, Answer, PublishResources,
      Partial, FindMigDevBySpec, MigDevices, Fault, TypeOK, Control, Preparing,
      Started, Configured, Granting, Cleared, Progress, PrepareProgress, MigGated,
      Rediscovered, Siblings, OnGpu
<1>5. ASSUME NEW t \in Workers, Failure(t)
      PROVE  MigGated'
  BY <1>5, ConstantsAssumption
  DEF Failure, DeleteFails, PrepareFails, CreateClaimSpecFileFails,
      UnprepareFails, Fault, Deleting, WithoutSiblings, TypeOK, Control,
      Preparing, Started, Configured, Granting, Cleared, Progress,
      PrepareProgress, MigGated
<1>6. ASSUME NEW t \in Threads, DeleteStep(t)
      PROVE  MigGated'
  BY <1>6, ConstantsAssumption
  DEF DeleteStep, DestroyComputeInstance, DestroyGpuInstance, DeleteDone,
      Deleting, TypeOK, Control, Preparing, Started, Configured, Granting,
      Cleared, Progress, PrepareProgress, MigGated
<1>7. ASSUME NEW t \in Cleaners, CleanerStep(t)
      PROVE  MigGated'
  BY <1>7, ConstantsAssumption
  DEF CleanerStep, Cleanup, UnprepareIfStale, TypeOK, Control, Preparing, Started,
      Configured, Granting, Cleared, Progress, PrepareProgress, MigGated
<1>8. CASE Start \/ DestroyUnknownMIGDevices \/ NewDriver \/ Crash
  BY <1>8, ConstantsAssumption
  DEF Start, DestroyUnknownMIGDevices, NewDriver, Crash, Fault, TypeOK, Control,
      Preparing, Started, Configured, Granting, Cleared, Progress,
      PrepareProgress, MigGated, EnumerateAllPossibleDevices, VisitDevices,
      InspectMigProfilesAndPlacements, EnumerateGpuVfioDevices, Unknown
<1>9. ASSUME NEW c \in Claims, Allocate(c) \/ DeleteClaim(c)
      PROVE  MigGated'
  BY <1>9, ConstantsAssumption
  DEF Allocate, DeleteClaim, TypeOK, Control, Preparing, Started, Configured,
      Granting, Cleared, Progress, PrepareProgress, MigGated
<1>10. QED
  BY <1>1, <1>2, <1>3, <1>4, <1>5, <1>6, <1>7, <1>8, <1>9 DEF Next

\* A claim completes only if it conflicts with none that has.
LEMMA ExclusiveStep ==
  ASSUME TypeOK, Control, Progress, Exclusive, Next
  PROVE  Exclusive'
<1> USE DEF Threads, Workers, PrepareLabels, UnprepareLabels, Critical,
        At, Goto, GotoWith, Leave, Fail, idVars, nodeVars, procVars, threadVars, worldVars
<1>1. ASSUME NEW t \in Handlers, Request(t)
      PROVE  Exclusive'
  BY <1>1, ConstantsAssumption
  DEF Request, PrepareResourceClaims, UnprepareResourceClaims, TypeOK, Control,
      Preparing, Started, Configured, Granting, Cleared, Progress,
      PrepareProgress, UnprepareProgress, Completed, Exclusive, Overlapping,
      Conflict
<1>2. ASSUME NEW t \in Workers, Acquire(t) \/ AcquireTimeout(t)
      PROVE  Exclusive'
  BY <1>2, ConstantsAssumption
  DEF Acquire, AcquireTimeout, TypeOK, Control, Preparing, Started, Configured,
      Granting, Cleared, Progress, PrepareProgress, UnprepareProgress, Completed,
      Exclusive, Overlapping, Conflict
<1>3. ASSUME NEW t \in Workers, PrepareStep(t)
      PROVE  Exclusive'
  BY <1>3, ConstantsAssumption
  DEF PrepareStep, PrepareCheck, PrepareStarted, ConfigRefused, ConfigureVfio,
      Accepted, BindVfio, ApplySharing, CreateDeployment, AssertReady,
      CreateGpuInstance, CreateComputeInstance, Created, CreateClaimSpecFile,
      WithoutSiblings, PrepareCompleted, PrepareReturns, Answer, PublishResources,
      Partial, FindMigDevBySpec, MigDevices, TypeOK, Control, Preparing, Started,
      Configured, Granting, Cleared, Progress, PrepareProgress, UnprepareProgress,
      Completed, Exclusive, Overlapping, Conflict
<1>4. ASSUME NEW t \in Workers, UnprepareStep(t)
      PROVE  Exclusive'
  BY <1>4, ConstantsAssumption
  DEF UnprepareStep, UnprepareFind, UnconfigureVfio, BindNvidia, UnprepareDevices,
      StopDaemon, DefaultTimeSlice, DiscoverSiblings, DeleteClaimSpecFile,
      DeleteClaimFromCheckpoint, UnprepareReturns, Answer, PublishResources,
      Partial, FindMigDevBySpec, MigDevices, Fault, TypeOK, Control, Preparing,
      Started, Configured, Granting, Cleared, Progress, PrepareProgress,
      UnprepareProgress, Completed, Exclusive, Overlapping, Conflict
<1>5. ASSUME NEW t \in Workers, Failure(t)
      PROVE  Exclusive'
  BY <1>5, ConstantsAssumption
  DEF Failure, DeleteFails, PrepareFails, CreateClaimSpecFileFails,
      UnprepareFails, Fault, Deleting, WithoutSiblings, TypeOK, Control,
      Preparing, Started, Configured, Granting, Cleared, Progress,
      PrepareProgress, UnprepareProgress, Completed, Exclusive, Overlapping,
      Conflict
<1>6. ASSUME NEW t \in Threads, DeleteStep(t)
      PROVE  Exclusive'
  BY <1>6, ConstantsAssumption
  DEF DeleteStep, DestroyComputeInstance, DestroyGpuInstance, DeleteDone,
      Deleting, TypeOK, Control, Preparing, Started, Configured, Granting,
      Cleared, Progress, PrepareProgress, UnprepareProgress, Completed, Exclusive,
      Overlapping, Conflict
<1>7. ASSUME NEW t \in Cleaners, CleanerStep(t)
      PROVE  Exclusive'
  BY <1>7, ConstantsAssumption
  DEF CleanerStep, Cleanup, UnprepareIfStale, TypeOK, Control, Preparing, Started,
      Configured, Granting, Cleared, Progress, PrepareProgress, UnprepareProgress,
      Completed, Exclusive, Overlapping, Conflict
<1>8. CASE Start \/ DestroyUnknownMIGDevices \/ NewDriver \/ Crash
  BY <1>8, ConstantsAssumption
  DEF Start, DestroyUnknownMIGDevices, NewDriver, Crash, Fault, TypeOK, Control,
      Preparing, Started, Configured, Granting, Cleared, Progress,
      PrepareProgress, UnprepareProgress, Completed, Exclusive, Overlapping,
      Conflict
<1>9. ASSUME NEW c \in Claims, Allocate(c) \/ DeleteClaim(c)
      PROVE  Exclusive'
  BY <1>9, ConstantsAssumption
  DEF Allocate, DeleteClaim, TypeOK, Control, Preparing, Started, Configured,
      Granting, Cleared, Progress, PrepareProgress, UnprepareProgress, Completed,
      Exclusive, Overlapping, Conflict
<1>10. QED
  BY <1>1, <1>2, <1>3, <1>4, <1>5, <1>6, <1>7, <1>8, <1>9 DEF Next

LEMMA AnsweredStep ==
  ASSUME TypeOK, Control, Requests, Progress, Answered, Next
  PROVE  Answered'
<1> USE DEF Threads, Workers, PrepareLabels, UnprepareLabels, Critical,
        At, Goto, GotoWith, Leave, Fail, idVars, nodeVars, procVars, threadVars, worldVars
<1>1. ASSUME NEW t \in Handlers, Request(t)
      PROVE  Answered'
  BY <1>1, ConstantsAssumption
  DEF Request, PrepareResourceClaims, UnprepareResourceClaims, TypeOK, Control,
      Preparing, Started, Configured, Granting, Cleared, Progress,
      PrepareProgress, UnprepareProgress, Completed, Answered, Requests
<1>2. ASSUME NEW t \in Workers, Acquire(t) \/ AcquireTimeout(t)
      PROVE  Answered'
  BY <1>2, ConstantsAssumption
  DEF Acquire, AcquireTimeout, TypeOK, Control, Preparing, Started, Configured,
      Granting, Cleared, Progress, PrepareProgress, UnprepareProgress, Completed,
      Answered, Requests
<1>3. ASSUME NEW t \in Workers, PrepareStep(t)
      PROVE  Answered'
  BY <1>3, ConstantsAssumption
  DEF PrepareStep, PrepareCheck, PrepareStarted, ConfigRefused, ConfigureVfio,
      Accepted, BindVfio, ApplySharing, CreateDeployment, AssertReady,
      CreateGpuInstance, CreateComputeInstance, Created, CreateClaimSpecFile,
      WithoutSiblings, PrepareCompleted, PrepareReturns, Answer, PublishResources,
      Partial, FindMigDevBySpec, MigDevices, TypeOK, Control, Preparing, Started,
      Configured, Granting, Cleared, Progress, PrepareProgress, UnprepareProgress,
      Completed, Answered, Requests
<1>4. ASSUME NEW t \in Workers, UnprepareStep(t)
      PROVE  Answered'
  BY <1>4, ConstantsAssumption
  DEF UnprepareStep, UnprepareFind, UnconfigureVfio, BindNvidia, UnprepareDevices,
      StopDaemon, DefaultTimeSlice, DiscoverSiblings, DeleteClaimSpecFile,
      DeleteClaimFromCheckpoint, UnprepareReturns, Answer, PublishResources,
      Partial, FindMigDevBySpec, MigDevices, Fault, TypeOK, Control, Preparing,
      Started, Configured, Granting, Cleared, Progress, PrepareProgress,
      UnprepareProgress, Completed, Answered, Requests
<1>5. ASSUME NEW t \in Workers, Failure(t)
      PROVE  Answered'
  BY <1>5, ConstantsAssumption
  DEF Failure, DeleteFails, PrepareFails, CreateClaimSpecFileFails,
      UnprepareFails, Fault, Deleting, WithoutSiblings, TypeOK, Control,
      Preparing, Started, Configured, Granting, Cleared, Progress,
      PrepareProgress, UnprepareProgress, Completed, Answered, Requests
<1>6. ASSUME NEW t \in Threads, DeleteStep(t)
      PROVE  Answered'
  BY <1>6, ConstantsAssumption
  DEF DeleteStep, DestroyComputeInstance, DestroyGpuInstance, DeleteDone,
      Deleting, TypeOK, Control, Preparing, Started, Configured, Granting,
      Cleared, Progress, PrepareProgress, UnprepareProgress, Completed, Answered,
      Requests
<1>7. ASSUME NEW t \in Cleaners, CleanerStep(t)
      PROVE  Answered'
  BY <1>7, ConstantsAssumption
  DEF CleanerStep, Cleanup, UnprepareIfStale, TypeOK, Control, Preparing, Started,
      Configured, Granting, Cleared, Progress, PrepareProgress, UnprepareProgress,
      Completed, Answered, Requests
<1>8. CASE Start \/ DestroyUnknownMIGDevices \/ NewDriver \/ Crash
  BY <1>8, ConstantsAssumption
  DEF Start, DestroyUnknownMIGDevices, NewDriver, Crash, Fault, TypeOK, Control,
      Preparing, Started, Configured, Granting, Cleared, Progress,
      PrepareProgress, UnprepareProgress, Completed, Answered, Requests
<1>9. ASSUME NEW c \in Claims, Allocate(c) \/ DeleteClaim(c)
      PROVE  Answered'
  BY <1>9, ConstantsAssumption
  DEF Allocate, DeleteClaim, TypeOK, Control, Preparing, Started, Configured,
      Granting, Cleared, Progress, PrepareProgress, UnprepareProgress, Completed,
      Answered, Requests
<1>10. QED
  BY <1>1, <1>2, <1>3, <1>4, <1>5, <1>6, <1>7, <1>8, <1>9 DEF Next

\* A claim leaves the checkpoint after its MIG devices.
LEMMA MigTrackedStep ==
  ASSUME TypeOK, Control, Progress, MigGated, MigTracked, Next
  PROVE  MigTracked'
<1> USE DEF Threads, Workers, PrepareLabels, UnprepareLabels, Critical,
        At, Goto, GotoWith, Leave, Fail, idVars, nodeVars, procVars, threadVars, worldVars
<1>1. ASSUME NEW t \in Handlers, Request(t)
      PROVE  MigTracked'
  BY <1>1, ConstantsAssumption
  DEF Request, PrepareResourceClaims, UnprepareResourceClaims, TypeOK, Control,
      Preparing, Started, Configured, Granting, Cleared, Progress,
      PrepareProgress, UnprepareProgress, Completed, MigTracked, UsedByOther,
      Visible, MigDevices
<1>2. ASSUME NEW t \in Workers, Acquire(t) \/ AcquireTimeout(t)
      PROVE  MigTracked'
  BY <1>2, ConstantsAssumption
  DEF Acquire, AcquireTimeout, TypeOK, Control, Preparing, Started, Configured,
      Granting, Cleared, Progress, PrepareProgress, UnprepareProgress, Completed,
      MigTracked, UsedByOther, Visible, MigDevices
<1>3. ASSUME NEW t \in Workers, PrepareStep(t)
      PROVE  MigTracked'
  BY <1>3, ConstantsAssumption
  DEF PrepareStep, PrepareCheck, PrepareStarted, ConfigRefused, ConfigureVfio,
      Accepted, BindVfio, ApplySharing, CreateDeployment, AssertReady,
      CreateGpuInstance, CreateComputeInstance, Created, CreateClaimSpecFile,
      WithoutSiblings, PrepareCompleted, PrepareReturns, Answer, PublishResources,
      Partial, FindMigDevBySpec, MigDevices, TypeOK, Control, Preparing, Started,
      Configured, Granting, Cleared, Progress, PrepareProgress, UnprepareProgress,
      Completed, MigTracked, UsedByOther, Visible
<1>4. ASSUME NEW t \in Workers, UnprepareStep(t)
      PROVE  MigTracked'
  BY <1>4, ConstantsAssumption
  DEF UnprepareStep, UnprepareFind, UnconfigureVfio, BindNvidia, UnprepareDevices,
      StopDaemon, DefaultTimeSlice, DiscoverSiblings, DeleteClaimSpecFile,
      DeleteClaimFromCheckpoint, UnprepareReturns, Answer, PublishResources,
      Partial, FindMigDevBySpec, MigDevices, Fault, TypeOK, Control, Preparing,
      Started, Configured, Granting, Cleared, Progress, PrepareProgress,
      UnprepareProgress, Completed, MigTracked, UsedByOther, Visible
<1>5. ASSUME NEW t \in Workers, Failure(t)
      PROVE  MigTracked'
  BY <1>5, ConstantsAssumption
  DEF Failure, DeleteFails, PrepareFails, CreateClaimSpecFileFails,
      UnprepareFails, Fault, Deleting, WithoutSiblings, TypeOK, Control,
      Preparing, Started, Configured, Granting, Cleared, Progress,
      PrepareProgress, UnprepareProgress, Completed, MigTracked, UsedByOther,
      Visible, MigDevices
<1>6. ASSUME NEW t \in Threads, DeleteStep(t)
      PROVE  MigTracked'
  BY <1>6, ConstantsAssumption
  DEF DeleteStep, DestroyComputeInstance, DestroyGpuInstance, DeleteDone,
      Deleting, TypeOK, Control, Preparing, Started, Configured, Granting,
      Cleared, Progress, PrepareProgress, UnprepareProgress, Completed,
      MigTracked, UsedByOther, Visible, MigDevices
<1>7. ASSUME NEW t \in Cleaners, CleanerStep(t)
      PROVE  MigTracked'
  BY <1>7, ConstantsAssumption
  DEF CleanerStep, Cleanup, UnprepareIfStale, TypeOK, Control, Preparing, Started,
      Configured, Granting, Cleared, Progress, PrepareProgress, UnprepareProgress,
      Completed, MigTracked, UsedByOther, Visible, MigDevices
<1>8. CASE Start \/ DestroyUnknownMIGDevices \/ NewDriver \/ Crash
  BY <1>8, ConstantsAssumption
  DEF Start, DestroyUnknownMIGDevices, NewDriver, Crash, Fault, TypeOK, Control,
      Preparing, Started, Configured, Granting, Cleared, Progress,
      PrepareProgress, UnprepareProgress, Completed, MigTracked, UsedByOther,
      Visible, MigDevices
<1>9. ASSUME NEW c \in Claims, Allocate(c) \/ DeleteClaim(c)
      PROVE  MigTracked'
  BY <1>9, ConstantsAssumption
  DEF Allocate, DeleteClaim, TypeOK, Control, Preparing, Started, Configured,
      Granting, Cleared, Progress, PrepareProgress, UnprepareProgress, Completed,
      MigTracked, UsedByOther, Visible, MigDevices
<1>10. QED
  BY <1>1, <1>2, <1>3, <1>4, <1>5, <1>6, <1>7, <1>8, <1>9 DEF Next

\* NVML gives an instance an id that no other one on the GPU has.
LEMMA IdentifiedStep ==
  ASSUME TypeOK, Identified, Next
  PROVE  Identified'
<1> USE DEF TypeOK, IdsOK
<1>1. CASE UNCHANGED <<inst, idVars, checkpoint>>
  BY <1>1 DEF idVars, Identified
<1>2. ASSUME NEW t \in Workers,
             PrepareStarted(t) \/ PrepareCompleted(t) \/ DeleteClaimFromCheckpoint(t)
      PROVE  Identified'
  BY <1>2 DEF PrepareStarted, PrepareCompleted, DeleteClaimFromCheckpoint, nodeVars, Identified
<1>3. ASSUME NEW t \in Workers, NEW d \in Devices, CreateGpuInstance(t, d)
      PROVE  Identified'
  <2>1. CASE Occupied(d)
    BY <1>3, <2>1 DEF CreateGpuInstance, Identified
  <2>2. CASE ~ Occupied(d)
    <3>1. inst' = [inst EXCEPT ![d] = "gi"]
      BY <1>3, <2>2 DEF CreateGpuInstance
    <3>2. PICK i \in Ids \ {gi[e] : e \in OnGpu(GpuOf[d])} : gi' = [gi EXCEPT ![d] = i]
      BY <1>3, <2>2 DEF CreateGpuInstance
    <3>3. i # None
      BY <3>2, ConstantsAssumption
    <3>4. \A e \in Devices : e # d /\ GpuOf[e] = GpuOf[d] => gi[e] # i
      BY <3>2 DEF OnGpu
    <3>5. QED
      BY <3>1, <3>2, <3>3, <3>4 DEF Identified
  <2>3. QED
    BY <2>1, <2>2
<1>4. ASSUME NEW t \in Threads, NEW d \in Devices, CreateComputeInstance(t, d)
      PROVE  Identified'
  BY <1>4 DEF CreateComputeInstance, idVars, Identified
<1>5. ASSUME NEW t \in Threads, NEW d \in Devices, DestroyComputeInstance(t, d)
      PROVE  Identified'
  BY <1>5 DEF DestroyComputeInstance, idVars, Identified
<1>6. ASSUME NEW t \in Threads, NEW d \in Devices, DestroyGpuInstance(t, d)
      PROVE  Identified'
  BY <1>6 DEF DestroyGpuInstance, Identified
<1>7. QED
  BY <1>1, <1>2, <1>3, <1>4, <1>5, <1>6, WhoCarves, ThreadFacts

\* Only the claim itself has its device created, and records the id then.
LEMMA RecordAgreesStep ==
  ASSUME TypeOK, Control, Progress, Identified, RecordAgrees, Next
  PROVE  RecordAgrees'
<1> USE DEF TypeOK, IdsOK
<1>1. CASE UNCHANGED <<inst, idVars, checkpoint>>
  BY <1>1 DEF idVars, RecordAgrees, Completed
<1>2. ASSUME NEW t \in Workers, PrepareStarted(t) \/ DeleteClaimFromCheckpoint(t)
      PROVE  RecordAgrees'
  <2>1. work[t] \in Claims
    BY <1>2, CarvesForClaim DEF PrepareStarted, DeleteClaimFromCheckpoint, At, PrepareLabels,
       UnprepareLabels
  <2>2. QED
    BY <1>2, <2>1 DEF PrepareStarted, DeleteClaimFromCheckpoint, nodeVars, RecordAgrees,
       Completed
<1>3. ASSUME NEW t \in Workers, PrepareCompleted(t)
      PROVE  RecordAgrees'
  <2>1. work[t] \in Claims
    BY <1>3, CarvesForClaim DEF PrepareCompleted, At, PrepareLabels
  <2>2. /\ UNCHANGED <<inst, gi>>
        /\ \A c \in Claims : c # work[t] =>
             recorded'[c] = recorded[c] /\ checkpoint'[c] = checkpoint[c]
    BY <1>3 DEF PrepareCompleted, nodeVars
  <2>3. recorded'[work[t]] = [d \in Devices |-> IF d \in MigDevices(work[t]) THEN gi[d] ELSE None]
    BY <1>3, <2>1 DEF PrepareCompleted
  <2>4. \A d \in MigDevices(work[t]) : recorded'[work[t]][d] = gi[d]
    BY <2>1, <2>3, ConstantsAssumption DEF MigDevices
  <2>5. ASSUME NEW c \in Claims, Completed(c)', NEW d \in MigDevices(c), NoAdmin(d),
               inst'[d] # "none"
        PROVE  gi'[d] = recorded'[c][d]
    BY <2>2, <2>4, <2>5 DEF RecordAgrees, Completed
  <2>6. QED
    BY <2>5 DEF RecordAgrees
<1>4. ASSUME NEW t \in Workers, NEW d \in Devices, CreateGpuInstance(t, d)
      PROVE  RecordAgrees'
  <2>1. CASE Occupied(d)
    BY <1>4, <2>1 DEF CreateGpuInstance, Fail, RecordAgrees, Completed
  <2>2. CASE ~ Occupied(d)
    <3>1. /\ inst' = [inst EXCEPT ![d] = "gi"] /\ UNCHANGED <<recorded, checkpoint>>
          /\ \E i \in Ids : gi' = [gi EXCEPT ![d] = i]
          /\ pc[t] = "pCreate" /\ d \in todo[t]
      BY <1>4, <2>2 DEF CreateGpuInstance, At
    <3>2. /\ work[t] \in Claims /\ d \in MigDevices(work[t])
          /\ ~ Completed(work[t]) /\ ~ Overlapping(work[t])
      BY <3>1 DEF Control, Progress, PrepareProgress, CreateProgress, MigCreating, Preparing
    <3>3. ASSUME NEW c \in Claims, Completed(c), d \in MigDevices(c), NoAdmin(d)
          PROVE  FALSE
      BY <3>2, <3>3 DEF Overlapping, Conflict, NonAdminDevices, NoAdmin, MigDevices
    <3>4. ASSUME NEW c \in Claims, Completed(c), NEW e \in MigDevices(c), NoAdmin(e),
                 inst'[e] # "none"
          PROVE  gi'[e] = recorded[c][e]
      <4>1. e \in Devices /\ e # d
        BY <3>3, <3>4, ConstantsAssumption DEF MigDevices
      <4>2. QED
        BY <3>1, <3>4, <4>1 DEF RecordAgrees
    <3>5. QED
      BY <3>1, <3>4 DEF RecordAgrees, Completed
  <2>3. QED
    BY <2>1, <2>2
<1>5. ASSUME NEW t \in Threads, NEW d \in Devices,
             CreateComputeInstance(t, d) \/ DestroyComputeInstance(t, d)
      PROVE  RecordAgrees'
  <2>1. /\ UNCHANGED <<idVars, checkpoint>>
        /\ \A e \in Devices : inst'[e] # "none" => inst[e] # "none"
    BY <1>5 DEF CreateComputeInstance, DestroyComputeInstance
  <2>2. QED
    BY <2>1, ConstantsAssumption DEF RecordAgrees, Completed, idVars, MigDevices
<1>6. ASSUME NEW t \in Threads, NEW d \in Devices, DestroyGpuInstance(t, d)
      PROVE  RecordAgrees'
  <2>1. /\ UNCHANGED <<recorded, checkpoint>>
        /\ \A e \in Devices : inst'[e] # "none" => inst[e] # "none" /\ gi'[e] = gi[e]
    BY <1>6 DEF DestroyGpuInstance
  <2>2. QED
    BY <2>1, ConstantsAssumption DEF RecordAgrees, Completed, MigDevices
<1>7. QED
  BY <1>1, <1>2, <1>3, <1>4, <1>5, <1>6, WhoCarves, ThreadFacts

\* A claim becomes settled when it completes, and not otherwise.
LEMMA SettledBefore ==
  ASSUME TypeOK, Control, Progress, Next, NEW c \in Claims, Settled(c)'
  PROVE  \/ Settled(c)
         \/ \E t \in Workers : work[t] = c /\ PrepareCompleted(t)
<1> USE DEF Threads, Workers, PrepareLabels, UnprepareLabels, Critical,
        At, Goto, GotoWith, Leave, Fail, idVars, nodeVars, procVars, threadVars, worldVars,
        TypeOK, Settled, Completed
<1>1. ASSUME NEW t \in Handlers, Request(t)
      PROVE  Settled(c)
  BY <1>1 DEF Request, PrepareResourceClaims, UnprepareResourceClaims
<1>2. ASSUME NEW t \in Workers, Acquire(t) \/ AcquireTimeout(t)
      PROVE  Settled(c)
  BY <1>2 DEF Acquire, AcquireTimeout
<1>3. ASSUME NEW t \in Workers, PrepareStep(t)
      PROVE  Settled(c) \/ (work[t] = c /\ PrepareCompleted(t))
  <2>1. CASE PrepareCompleted(t)
    BY <2>1 DEF PrepareCompleted
  <2>2. CASE PrepareReturns(t)
    BY <2>2 DEF PrepareReturns, Answer, Control
  <2>3. CASE PrepareStarted(t)
    BY <2>3 DEF PrepareStarted
  <2>4. CASE PrepareStep(t) /\ ~ PrepareCompleted(t) /\ ~ PrepareReturns(t) /\ ~ PrepareStarted(t)
    <3>1. UNCHANGED <<checkpoint, kubelet, object>>
      BY <2>4
      DEF PrepareStep, PrepareCheck, ConfigRefused, ConfigureVfio, BindVfio, ApplySharing,
          CreateDeployment, AssertReady, CreateGpuInstance, CreateComputeInstance, Created,
          CreateClaimSpecFile
    <3>2. QED
      BY <3>1
  <2>5. QED
    BY <1>3, <2>1, <2>2, <2>3, <2>4
<1>4. ASSUME NEW t \in Workers, UnprepareStep(t)
      PROVE  Settled(c)
  <2>1. CASE UnprepareReturns(t)
    <3>1. ~ Completed(work[t]) /\ checkpoint' = checkpoint /\ object' = object
      BY <2>1 DEF UnprepareReturns, Progress, UnprepareProgress
    <3>2. work[t] # c
      BY <3>1
    <3>3. kubelet'[c] = kubelet[c]
      BY <2>1, <3>2 DEF UnprepareReturns, Answer
    <3>4. QED
      BY <3>1, <3>3
  <2>2. CASE UnprepareStep(t) /\ ~ UnprepareReturns(t)
    BY <2>2
    DEF UnprepareStep, UnprepareFind, UnconfigureVfio, BindNvidia, UnprepareDevices,
        StopDaemon, DefaultTimeSlice, DiscoverSiblings, DeleteClaimSpecFile,
        DeleteClaimFromCheckpoint
  <2>3. QED
    BY <1>4, <2>1, <2>2
<1>5. ASSUME NEW t \in Workers, Failure(t)
      PROVE  Settled(c)
  BY <1>5
  DEF Failure, DeleteFails, PrepareFails, CreateClaimSpecFileFails, UnprepareFails
<1>6. ASSUME NEW t \in Threads, DeleteStep(t)
      PROVE  Settled(c)
  BY <1>6 DEF DeleteStep, DestroyComputeInstance, DestroyGpuInstance, DeleteDone
<1>7. ASSUME NEW t \in Cleaners, CleanerStep(t)
      PROVE  Settled(c)
  BY <1>7 DEF CleanerStep, Cleanup, UnprepareIfStale
<1>8. ASSUME Start \/ DestroyUnknownMIGDevices \/ NewDriver \/ Crash
      PROVE  Settled(c)
  BY <1>8 DEF Start, DestroyUnknownMIGDevices, NewDriver, Crash
<1>9. ASSUME NEW e \in Claims, Allocate(e) \/ DeleteClaim(e)
      PROVE  Settled(c)
  BY <1>9 DEF Allocate, DeleteClaim
<1>10. QED
  BY <1>1, <1>2, <1>3, <1>4, <1>5, <1>6, <1>7, <1>8, <1>9 DEF Next

\* Nothing that is done for one claim takes from a settled one.
LEMMA GrantKeptStep ==
  ASSUME TypeOK, Control, Requests, Progress, Exclusive, GrantKept, Next
  PROVE  GrantKept'
<1> USE DEF Threads, Workers, PrepareLabels, UnprepareLabels, Critical,
        At, Goto, GotoWith, Leave, Fail, idVars, nodeVars, procVars, threadVars, worldVars
<1>1. ASSUME NEW t \in Handlers, Request(t)
      PROVE  GrantKept'
  BY <1>1, ConstantsAssumption, Apart
  DEF Request, PrepareResourceClaims, UnprepareResourceClaims, TypeOK, Control,
      Preparing, Started, Configured, Granting, Cleared, Progress,
      PrepareProgress, UnprepareProgress, Completed, Requests, Exclusive,
      Overlapping, GrantKept, Settled, Granted, VfioBound,
      SharingGranted, GpusOf, SetAll
<1>2. ASSUME NEW t \in Workers, Acquire(t) \/ AcquireTimeout(t)
      PROVE  GrantKept'
  BY <1>2, ConstantsAssumption, Apart
  DEF Acquire, AcquireTimeout, TypeOK, Control, Preparing, Started, Configured,
      Granting, Cleared, Progress, PrepareProgress, UnprepareProgress, Completed,
      Requests, Exclusive, Overlapping, GrantKept, Settled, Granted, VfioBound,
      MigDevices, SharingGranted, GpusOf, SetAll
<1>3. ASSUME NEW t \in Workers, PrepareStep(t)
      PROVE  GrantKept'
  BY <1>3, ConstantsAssumption, Apart
  DEF PrepareStep, PrepareCheck, PrepareStarted, ConfigRefused, ConfigureVfio,
      Accepted, BindVfio, ApplySharing, CreateDeployment, AssertReady,
      CreateGpuInstance, CreateComputeInstance, Created, CreateClaimSpecFile,
      WithoutSiblings, PrepareCompleted, PrepareReturns, Answer, PublishResources,
      Partial, FindMigDevBySpec, MigDevices, TypeOK, Control, Preparing, Started,
      Configured, Granting, Cleared, Progress, PrepareProgress, UnprepareProgress,
      Completed, Requests, Exclusive, Overlapping, GrantKept, Settled, Granted,
      VfioBound, SharingGranted, GpusOf, SetAll
<1>4. ASSUME NEW t \in Workers, UnprepareStep(t)
      PROVE  GrantKept'
  BY <1>4, ConstantsAssumption, Apart
  DEF UnprepareStep, UnprepareFind, UnconfigureVfio, BindNvidia, UnprepareDevices,
      StopDaemon, DefaultTimeSlice, DiscoverSiblings, DeleteClaimSpecFile,
      DeleteClaimFromCheckpoint, UnprepareReturns, Answer, PublishResources,
      Partial, FindMigDevBySpec, MigDevices, Fault, TypeOK, Control, Preparing,
      Started, Configured, Granting, Cleared, Progress, PrepareProgress,
      UnprepareProgress, Completed, Requests, Exclusive, Overlapping, GrantKept,
      Settled, Granted, VfioBound, SharingGranted, GpusOf, SetAll
<1>5. ASSUME NEW t \in Workers, Failure(t)
      PROVE  GrantKept'
  BY <1>5, ConstantsAssumption, Apart
  DEF Failure, DeleteFails, PrepareFails, CreateClaimSpecFileFails,
      UnprepareFails, Fault, Deleting, WithoutSiblings, TypeOK, Control,
      Preparing, Started, Configured, Granting, Cleared, Progress,
      PrepareProgress, UnprepareProgress, Completed, Requests, Exclusive,
      Overlapping, GrantKept, Settled, Granted, VfioBound,
      SharingGranted, GpusOf, SetAll
<1>6. ASSUME NEW t \in Threads, DeleteStep(t)
      PROVE  GrantKept'
  <2>1. UNCHANGED <<gates, driver, daemons, mode, slice, checkpoint, specs, kubelet, object>>
    BY <1>6 DEF DeleteStep, DestroyComputeInstance, DestroyGpuInstance, DeleteDone
  <2>2. \A c \in Claims : Settled(c)' => Settled(c)
    BY <2>1 DEF Settled, Completed
  <2>3. QED
    BY <2>1, <2>2 DEF GrantKept, Granted, VfioBound, SharingGranted
<1>7. ASSUME NEW t \in Cleaners, CleanerStep(t)
      PROVE  GrantKept'
  BY <1>7, ConstantsAssumption, Apart
  DEF CleanerStep, Cleanup, UnprepareIfStale, TypeOK, Control, Preparing, Started,
      Configured, Granting, Cleared, Progress, PrepareProgress, UnprepareProgress,
      Completed, Requests, Exclusive, Overlapping, GrantKept, Settled, Granted,
      VfioBound, MigDevices, SharingGranted, GpusOf, SetAll
<1>8. CASE Start \/ DestroyUnknownMIGDevices \/ NewDriver \/ Crash
  BY <1>8, ConstantsAssumption, Apart
  DEF Start, DestroyUnknownMIGDevices, NewDriver, Crash, Fault, TypeOK, Control,
      Preparing, Started, Configured, Granting, Cleared, Progress,
      PrepareProgress, UnprepareProgress, Completed, Requests, Exclusive,
      Overlapping, GrantKept, Settled, Granted, VfioBound,
      SharingGranted, GpusOf, SetAll
<1>9. ASSUME NEW c \in Claims, Allocate(c) \/ DeleteClaim(c)
      PROVE  GrantKept'
  BY <1>9, ConstantsAssumption, Apart
  DEF Allocate, DeleteClaim, TypeOK, Control, Preparing, Started, Configured,
      Granting, Cleared, Progress, PrepareProgress, UnprepareProgress, Completed,
      Requests, Exclusive, Overlapping, GrantKept, Settled, Granted, VfioBound,
      MigDevices, SharingGranted, GpusOf, SetAll
<1>10. QED
  BY <1>1, <1>2, <1>3, <1>4, <1>5, <1>6, <1>7, <1>8, <1>9 DEF Next

\* Nor does it take the MIG devices of one whose ids are not on record: they are
\* found neither by their name nor by their id.
LEMMA MigKeptStep ==
  ASSUME TypeOK, Control, Requests, Progress, Exclusive, Identified, MigKept, Next
  PROVE  MigKept'
<1> SUFFICES ASSUME NEW c \in Claims, Settled(c)', c \notin recycled'
             PROVE  MigCreated(c)'
  BY DEF MigKept
<1> USE DEF TypeOK, IdsOK
<1>0. MigDevices(c) \subseteq DevicesOf[c] /\ DevicesOf[c] \subseteq Devices
  BY ConstantsAssumption DEF MigDevices
<1>1. CASE \E t \in Workers : work[t] = c /\ PrepareCompleted(t)
  <2>1. PICK t \in Workers : work[t] = c /\ PrepareCompleted(t)
    BY <1>1
  <2>2. /\ pc[t] = "pDone" /\ UNCHANGED <<inst, gi, recycled>>
        /\ \A e \in Claims : e # c => recorded'[e] = recorded[e] /\ checkpoint'[e] = checkpoint[e]
    BY <2>1 DEF PrepareCompleted, At, nodeVars
  <2>3. MigCreated(c)
    BY <2>1, <2>2 DEF Progress, CreateProgress
  <2>4. QED
    BY <2>2, <2>3 DEF MigCreated, Safe, Unshadowed, Completed
<1>2. CASE Settled(c) /\ UNCHANGED <<inst, idVars, checkpoint>>
  BY <1>2 DEF MigKept, MigCreated, Safe, Unshadowed, Completed, idVars
<1>3. ASSUME Settled(c), NEW t \in Workers, PrepareStarted(t)
      PROVE  MigCreated(c)'
  <2>1. work[t] \in Claims /\ ~ Completed(work[t]) /\ work[t] # c
    BY <1>3, CarvesForClaim DEF PrepareStarted, At, PrepareLabels, Progress, PrepareProgress,
       Preparing, Settled
  <2>2. /\ UNCHANGED <<inst, gi, recorded>> /\ c \notin recycled
        /\ \A e \in Claims : Completed(e)' => Completed(e)
    BY <1>3, <2>1 DEF PrepareStarted, nodeVars, Completed
  <2>3. MigCreated(c)
    BY <1>3, <2>2 DEF MigKept
  <2>4. QED
    BY <2>2, <2>3 DEF MigCreated, Safe, Unshadowed
<1>4. ASSUME Settled(c), NEW t \in Workers, PrepareCompleted(t), work[t] # c
      PROVE  MigCreated(c)'
  <2> DEFINE e == work[t]
  <2>1. /\ e \in Claims /\ ~ Conflict(e, c) /\ e # c
    BY <1>4, SettledIsOther DEF PrepareCompleted, At, Preparing
  <2>2. /\ UNCHANGED <<inst, gi, recycled>>
        /\ \A f \in MigDevices(e) : recorded'[e][f] = gi[f]
        /\ \A x \in Claims : x # e => recorded'[x] = recorded[x] /\ checkpoint'[x] = checkpoint[x]
    <3>1. recorded'[e] = [f \in Devices |-> IF f \in MigDevices(e) THEN gi[f] ELSE None]
      BY <1>4, <2>1 DEF PrepareCompleted
    <3>2. \A f \in MigDevices(e) : recorded'[e][f] = gi[f]
      BY <2>1, <3>1, ConstantsAssumption DEF MigDevices
    <3>3. QED
      BY <1>4, <3>2 DEF PrepareCompleted, nodeVars
  <2> HIDE DEF e
  <2>3. MigCreated(c) /\ Undisturbed(c)
    BY <1>4, <2>2 DEF MigKept, Settled
  <2>4. ASSUME NEW d \in MigDevices(c), NEW f \in MigDevices(e), GpuOf[f] = GpuOf[d]
        PROVE  gi[f] # gi[d]
    <3>1. d \in Devices /\ f \in Devices /\ f # d
      BY <1>0, <2>1, <2>3, Apart, ConstantsAssumption DEF MigDevices
    <3>2. gi[d] # None
      BY <2>3, <3>1 DEF MigCreated, Identified
    <3>3. QED
      BY <2>4, <3>1, <3>2 DEF Identified
  <2>5. \A d \in MigDevices(c) : Unshadowed(c, d)'
    <3>1. \A d \in MigDevices(c) : Unshadowed(c, d)
      BY <1>4, <2>2, <2>3 DEF MigCreated, Safe
    <3>2. QED
      BY <2>1, <2>2, <2>4, <3>1 DEF Unshadowed, Completed
  <2>6. QED
    BY <2>2, <2>3, <2>5 DEF MigCreated, Safe
<1>5. ASSUME Settled(c), NEW t \in Workers, DeleteClaimFromCheckpoint(t)
      PROVE  MigCreated(c)'
  <2>1. work[t] \in Claims
    BY <1>5, CarvesForClaim DEF DeleteClaimFromCheckpoint, At, UnprepareLabels
  <2>2. /\ UNCHANGED <<inst, gi, recycled>>
        /\ \A e \in Claims : Completed(e)' => Completed(e) /\ recorded'[e] = recorded[e]
    BY <1>5, <2>1 DEF DeleteClaimFromCheckpoint, nodeVars, Completed
  <2>3. MigCreated(c)
    BY <1>5, <2>2 DEF MigKept
  <2>4. QED
    BY <2>2, <2>3 DEF MigCreated, Safe, Unshadowed
<1>6. ASSUME Settled(c), NEW t \in Workers, NEW d \in Devices,
             CreateGpuInstance(t, d) \/ CreateComputeInstance(t, d)
      PROVE  MigCreated(c)'
  <2>1. pc[t] \in {"pCreate", "pCompute"}
    BY <1>6 DEF CreateGpuInstance, CreateComputeInstance, At
  <2>2. work[t] \in Claims /\ work[t] # c /\ ~ Conflict(work[t], c)
    BY <1>6, <2>1, SettledIsOther DEF Preparing
  <2>3. d \in MigDevices(work[t])
    BY <1>6, <2>1 DEF CreateGpuInstance, CreateComputeInstance, Progress, CreateProgress,
       MigCreating
  <2>4. d \notin MigDevices(c)
    BY <1>6, <2>2, <2>3, Apart DEF Settled, MigDevices
  <2>5. /\ \A e \in MigDevices(c) : inst'[e] = inst[e] /\ gi'[e] = gi[e]
        /\ UNCHANGED <<recorded, checkpoint>> /\ recycled \subseteq recycled'
    BY <1>0, <1>6, <2>4 DEF CreateGpuInstance, CreateComputeInstance, idVars, Fail
  <2>6. MigCreated(c)
    BY <1>6, <2>5 DEF MigKept
  <2>7. QED
    BY <2>5, <2>6 DEF MigCreated, Safe, Unshadowed, Completed
<1>7. ASSUME Settled(c), NEW t \in Threads, NEW d \in Devices,
             DestroyComputeInstance(t, d) \/ DestroyGpuInstance(t, d)
      PROVE  MigCreated(c)'
  <2>1. /\ UNCHANGED <<recorded, recycled, checkpoint>> /\ Deleting(t) /\ d \in todo[t]
    BY <1>7 DEF DestroyComputeInstance, DestroyGpuInstance, idVars
  <2>2. \A e \in GetGpuInstanceById(t, d) : e \notin MigDevices(c)
    BY <1>7, <2>1, DeletedIsUnused
  <2>3. \A e \in MigDevices(c) : inst'[e] = inst[e] /\ gi'[e] = gi[e]
    BY <1>0, <1>7, <2>2 DEF DestroyComputeInstance, DestroyGpuInstance, idVars
  <2>4. MigCreated(c)
    BY <1>7, <2>1 DEF MigKept
  <2>5. QED
    BY <2>1, <2>3, <2>4 DEF MigCreated, Safe, Unshadowed, Completed
<1>8. Settled(c) \/ \E t \in Workers : work[t] = c /\ PrepareCompleted(t)
  BY SettledBefore
<1>9. QED
  BY <1>1, <1>2, <1>3, <1>4, <1>5, <1>6, <1>7, <1>8, WhoCarves

-----------------------------------------------------------------------------
(* The theorems.                                                           *)

LEMMA InitInv == Init => Inv
<1> SUFFICES ASSUME Init PROVE Inv
  OBVIOUS
<1> USE DEF Init, Threads, Workers
<1>1. TypeOK
  <2>1. up \in BOOLEAN
    OBVIOUS
  <2>2. QED
    BY <2>1, ConstantsAssumption DEF TypeOK, IdsOK
<1>2. Control /\ Requests
  BY ConstantsAssumption DEF Control, Requests, PrepareLabels, UnprepareLabels, Critical
<1>3. Progress
  BY ConstantsAssumption DEF Progress, PrepareProgress, UnprepareProgress, Preparing,
     Started, Configured, Granting, Cleared, CreateProgress
<1>4. MigGated /\ MigTracked /\ Identified /\ RecordAgrees
  BY DEF MigGated, MigTracked, Visible, Identified, RecordAgrees, Completed
<1>5. Exclusive /\ Answered /\ GrantKept /\ MigKept
  BY DEF Exclusive, Answered, GrantKept, MigKept, Settled, Completed
<1>6. QED
  BY <1>1, <1>2, <1>3, <1>4, <1>5 DEF Inv

LEMMA StepInv == Inv /\ [Next]_vars => Inv'
<1> SUFFICES ASSUME Inv, [Next]_vars PROVE Inv'
  OBVIOUS
<1>1. CASE Next
  <2>1. TypeOK' /\ Control' /\ Requests' /\ MigGated'
    BY <1>1, TypeStep, ControlStep, RequestsStep, MigGatedStep DEF Inv
  <2>2. Progress'
    BY <1>1, PrepareProgressStep, CreateProgressStep, UnprepareProgressStep, BootProgressStep
       DEF Inv, Progress
  <2>3. Exclusive' /\ Answered' /\ GrantKept' /\ MigTracked'
    BY <1>1, ExclusiveStep, AnsweredStep, GrantKeptStep, MigTrackedStep DEF Inv
  <2>4. Identified' /\ RecordAgrees' /\ MigKept'
    BY <1>1, IdentifiedStep, RecordAgreesStep, MigKeptStep DEF Inv
  <2>5. QED
    BY <2>1, <2>2, <2>3, <2>4 DEF Inv
<1>2. CASE UNCHANGED vars
  <2> USE <1>2 DEF vars, idVars, nodeVars, procVars, threadVars, worldVars
  <2>1. TypeOK' /\ Control' /\ Requests' /\ MigGated'
    BY DEF Inv, TypeOK, IdsOK, Control, Requests, MigGated
  <2>2. Progress'
    <3>1. \A s \in Workers : PrepareProgress(s)'
      BY PrepareFrame DEF Inv, Progress
    <3>2. \A s \in Workers : UnprepareProgress(s)'
      BY DEF Inv, Progress, UnprepareProgress, Completed, UsedByCompletedClaim, UsedByOther,
         Visible
    <3>3. (pc[Boot] = "destroy" => \A d \in todo[Boot] : ~ UsedByCompletedClaim(d))'
      BY DEF Inv, Progress, UsedByCompletedClaim, Completed
    <3>4. \A s \in Workers : CreateProgress(s)'
      BY DEF Inv, Progress, CreateProgress, MigCreating, MigCreated, Safe, Unshadowed, Completed
    <3>5. QED
      BY <3>1, <3>2, <3>3, <3>4 DEF Progress
  <2>3. Exclusive' /\ Answered' /\ MigTracked'
    BY DEF Inv, Exclusive, Answered, MigTracked, Completed, Visible
  <2>4. GrantKept'
    BY DEF Inv, GrantKept, Settled, Granted, Completed, VfioBound, SharingGranted
  <2>5. Identified' /\ RecordAgrees' /\ MigKept'
    BY DEF Inv, Identified, RecordAgrees, MigKept, MigCreated, Safe, Unshadowed, Settled,
       Completed
  <2>6. QED
    BY <2>1, <2>2, <2>3, <2>4, <2>5 DEF Inv
<1>3. QED
  BY <1>1, <1>2

LEMMA Invariance == Spec => []Inv
BY InitInv, StepInv, PTL DEF Spec

\* What the invariant says of a claim that the kubelet holds.
LEMMA HeldIsGranted ==
  ASSUME Inv, NEW c \in Claims, Held(c), Undisturbed(c)
  PROVE  Settled(c) /\ Granted(c) /\ (c \notin recycled => MigCreated(c))
BY DEF Inv, Held, Answered, Settled, GrantKept, MigKept

(***************************************************************************)
(* Each variable has its type.                                             *)
(***************************************************************************)
THEOREM TypeCorrect == Spec => []TypeOK
BY Invariance, PTL DEF Inv

(***************************************************************************)
(* DevicesKept: a claim that the kubelet holds keeps its CDI spec, its MIG *)
(* devices and the driver of its passthrough devices, whatever is rolled   *)
(* back (unpreparePartiallyPrepairedClaim), cleaned up, unprepared or      *)
(* destroyed at a start (DestroyUnknownMIGDevices) for others.  Two kinds  *)
(* of claim are excepted: one on a GPU that an admin claim names, and, for *)
(* its MIG devices, one that was given a GPU instance id which a completed *)
(* claim still had on record (deleteMigDevice goes by that id alone).      *)
(***************************************************************************)
THEOREM HeldDevicesAreKept == Spec => []DevicesKept
<1>1. Inv => DevicesKept
  BY HeldIsGranted DEF DevicesKept, Settled, Granted, VfioBound, MigCreated, MigDevices
<1>2. QED
  BY <1>1, Invariance, PTL

(***************************************************************************)
(* MigTracked: no MIG device is left on the node without a claim in the    *)
(* checkpoint through which it will be deleted, if no admin claim names it:*)
(* the id on record leads to the device as long as that exists.            *)
(***************************************************************************)
THEOREM MigDevicesAreTracked == Spec => []MigTracked
BY Invariance, PTL DEF Inv

\* Only two steps change the compute mode or the time slice of a GPU.
LEMMA WhoShares ==
  ASSUME Next, ~ UNCHANGED <<mode, slice>>
  PROVE  \E t \in Workers :
           ApplySharing(t) \/ DefaultTimeSlice(t)
<1> USE DEF nodeVars
<1>1. ASSUME NEW t \in Handlers, Request(t)
      PROVE  FALSE
  BY <1>1 DEF Request, PrepareResourceClaims, UnprepareResourceClaims
<1>2. ASSUME NEW t \in Workers, Acquire(t) \/ AcquireTimeout(t)
      PROVE  FALSE
  BY <1>2 DEF Acquire, AcquireTimeout
<1>3. ASSUME NEW t \in Workers, PrepareStep(t)
      PROVE  ApplySharing(t)
  BY <1>3
  DEF PrepareStep, PrepareCheck, PrepareStarted, ConfigRefused, ConfigureVfio,
      BindVfio, CreateDeployment, AssertReady, CreateGpuInstance,
      CreateComputeInstance, Created, CreateClaimSpecFile, PrepareCompleted,
      PrepareReturns
<1>4. ASSUME NEW t \in Workers, UnprepareStep(t)
      PROVE  DefaultTimeSlice(t)
  BY <1>4
  DEF UnprepareStep, UnprepareFind, UnconfigureVfio, BindNvidia, UnprepareDevices,
      StopDaemon, DiscoverSiblings, DeleteClaimSpecFile,
      DeleteClaimFromCheckpoint, UnprepareReturns
<1>5. ASSUME NEW t \in Workers, Failure(t)
      PROVE  FALSE
  BY <1>5
  DEF Failure, DeleteFails, PrepareFails, CreateClaimSpecFileFails, UnprepareFails
<1>6. ASSUME NEW t \in Threads, DeleteStep(t)
      PROVE  FALSE
  BY <1>6 DEF DeleteStep, DestroyComputeInstance, DestroyGpuInstance, DeleteDone
<1>7. ASSUME NEW t \in Cleaners, CleanerStep(t)
      PROVE  FALSE
  BY <1>7 DEF CleanerStep, Cleanup, UnprepareIfStale
<1>8. ASSUME Start \/ DestroyUnknownMIGDevices \/ NewDriver \/ Crash
      PROVE  FALSE
  BY <1>8 DEF Start, DestroyUnknownMIGDevices, NewDriver, Crash
<1>9. ASSUME NEW c \in Claims, Allocate(c) \/ DeleteClaim(c)
      PROVE  FALSE
  BY <1>9 DEF Allocate, DeleteClaim
<1>10. QED
  BY <1>1, <1>2, <1>3, <1>4, <1>5, <1>6, <1>7, <1>8, <1>9 DEF Next, Workers

(***************************************************************************)
(* SharingKept: a claim that the kubelet holds has its MPS daemon or its   *)
(* time slice, and no step for another claim changes them                  *)
(* (applySharingConfig, unprepareDevices).                                 *)
(***************************************************************************)
THEOREM SharingIsKept == Spec => SharingKept
<1>1. Inv => \A c \in Claims : Held(c) /\ Undisturbed(c) => SharingGranted(c)
  BY HeldIsGranted DEF Granted
<1>2. ASSUME Inv, [Next]_vars
      PROVE  [\A c \in Claims : Held(c) /\ Held(c)' /\ Undisturbed(c) =>
                \A g \in GpusOf(c) : mode'[g] = mode[g] /\ slice'[g] = slice[g]]_vars
  <2> SUFFICES ASSUME Next, NEW c \in Claims, Held(c), Undisturbed(c), NEW g \in GpusOf(c)
               PROVE  mode'[g] = mode[g] /\ slice'[g] = slice[g]
    BY <1>2
  <2>1. Settled(c)
    BY <1>2, HeldIsGranted
  <2>2. CASE UNCHANGED <<mode, slice>>
    BY <2>2
  <2>3. ASSUME NEW t \in Workers, ApplySharing(t) \/ DefaultTimeSlice(t)
        PROVE  mode'[g] = mode[g] /\ slice'[g] = slice[g]
    <3>1. \/ pc[t] \in Preparing
          \/ pc[t] \in UnprepareLabels /\ Completed(work[t])
      BY <1>2, <2>3 DEF ApplySharing, DefaultTimeSlice, At, Preparing, UnprepareLabels, Inv,
         Progress, UnprepareProgress
    <3>2. work[t] \in Claims /\ work[t] # c /\ ~ Conflict(work[t], c)
      BY <1>2, <2>1, <3>1, SettledIsOther DEF Inv
    <3>3. g \notin GpusOf(work[t]) /\ g \in Gpus
      BY <3>2, Apart, ConstantsAssumption DEF GpusOf
    <3>4. QED
      BY <1>2, <2>3, <3>3 DEF ApplySharing, DefaultTimeSlice, SetAll, Inv, TypeOK
  <2>4. QED
    BY <2>2, <2>3, WhoShares
<1>3. QED
  BY <1>1, <1>2, Invariance, PTL DEF Spec, SharingKept

\* Only three steps write the checkpoint.
LEMMA WhoRecords ==
  ASSUME Next, checkpoint' # checkpoint
  PROVE  \E t \in Workers :
           PrepareStarted(t) \/ PrepareCompleted(t) \/ DeleteClaimFromCheckpoint(t)
<1> USE DEF Fail
<1>1. ASSUME NEW t \in Handlers, Request(t)
      PROVE  FALSE
  BY <1>1 DEF Request, PrepareResourceClaims, UnprepareResourceClaims
<1>2. ASSUME NEW t \in Workers, Acquire(t) \/ AcquireTimeout(t)
      PROVE  FALSE
  BY <1>2 DEF Acquire, AcquireTimeout
<1>3. ASSUME NEW t \in Workers, PrepareStep(t)
      PROVE  PrepareStarted(t) \/ PrepareCompleted(t)
  BY <1>3
  DEF PrepareStep, PrepareCheck, ConfigRefused, ConfigureVfio, BindVfio,
      ApplySharing, CreateDeployment, AssertReady, CreateGpuInstance,
      CreateComputeInstance, Created, CreateClaimSpecFile, PrepareReturns
<1>4. ASSUME NEW t \in Workers, UnprepareStep(t)
      PROVE  DeleteClaimFromCheckpoint(t)
  BY <1>4
  DEF UnprepareStep, UnprepareFind, UnconfigureVfio, BindNvidia, UnprepareDevices,
      StopDaemon, DefaultTimeSlice, DiscoverSiblings, DeleteClaimSpecFile,
      UnprepareReturns
<1>5. ASSUME NEW t \in Workers, Failure(t)
      PROVE  FALSE
  BY <1>5
  DEF Failure, DeleteFails, PrepareFails, CreateClaimSpecFileFails, UnprepareFails
<1>6. ASSUME NEW t \in Threads, DeleteStep(t)
      PROVE  FALSE
  BY <1>6 DEF DeleteStep, DestroyComputeInstance, DestroyGpuInstance, DeleteDone
<1>7. ASSUME NEW t \in Cleaners, CleanerStep(t)
      PROVE  FALSE
  BY <1>7 DEF CleanerStep, Cleanup, UnprepareIfStale
<1>8. ASSUME Start \/ DestroyUnknownMIGDevices \/ NewDriver \/ Crash
      PROVE  FALSE
  BY <1>8 DEF Start, DestroyUnknownMIGDevices, NewDriver, Crash
<1>9. ASSUME NEW c \in Claims, Allocate(c) \/ DeleteClaim(c)
      PROVE  FALSE
  BY <1>9 DEF Allocate, DeleteClaim
<1>10. QED
  BY <1>1, <1>2, <1>3, <1>4, <1>5, <1>6, <1>7, <1>8, <1>9 DEF Next, Workers

\* How the checkpoint changes.
LEMMA Transitions ==
  ASSUME TypeOK, Control, Progress, [Next]_vars, checkpoint' # checkpoint
  PROVE  \E t \in Workers :
           /\ work[t] \in Claims
           /\ \/ /\ checkpoint' = [checkpoint EXCEPT ![work[t]] = "started"]
                 /\ ~ Completed(work[t])
              \/ /\ checkpoint' = [checkpoint EXCEPT ![work[t]] = "completed"]
                 /\ ~ Completed(work[t]) /\ ~ Overlapping(work[t])
              \/ checkpoint' = [checkpoint EXCEPT ![work[t]] = "none"]
<1>1. PICK t \in Workers :
        PrepareStarted(t) \/ PrepareCompleted(t) \/ DeleteClaimFromCheckpoint(t)
  BY WhoRecords DEF vars
<1>2. QED
  BY <1>1 DEF PrepareStarted, PrepareCompleted, DeleteClaimFromCheckpoint, At, Control,
     Progress, PrepareProgress, Preparing

(***************************************************************************)
(* LedgerSpec: the plugin implements the ledger of claims: Prepare grants  *)
(* a claim its devices only while no other one that may not share them     *)
(* holds them (validateNoOverlappingPreparedDevices), for any number of    *)
(* requests in flight and through the death of the process.                *)
(***************************************************************************)
THEOREM ImplementsLedger == Spec => LedgerSpec
<1>1. Init => Ledger!Init
  BY DEF Init, Ledger!Init, PreparedClaims, Completed
<1>2. ASSUME Inv, [Next]_vars
      PROVE  [Ledger!Next]_PreparedClaims
  <2>1. CASE checkpoint' = checkpoint
    BY <2>1 DEF PreparedClaims, Completed
  <2>2. CASE checkpoint' # checkpoint
    <3>1. checkpoint \in [Claims -> {"none", "started", "completed"}]
      BY <1>2 DEF Inv, TypeOK
    <3>2. PICK t \in Workers :
           /\ work[t] \in Claims
           /\ \/ /\ checkpoint' = [checkpoint EXCEPT ![work[t]] = "started"]
                 /\ ~ Completed(work[t])
              \/ /\ checkpoint' = [checkpoint EXCEPT ![work[t]] = "completed"]
                 /\ ~ Completed(work[t]) /\ ~ Overlapping(work[t])
              \/ checkpoint' = [checkpoint EXCEPT ![work[t]] = "none"]
      BY <1>2, <2>2, Transitions DEF Inv
    <3>3. CASE checkpoint' = [checkpoint EXCEPT ![work[t]] = "completed"]
                 /\ ~ Completed(work[t]) /\ ~ Overlapping(work[t])
      <4>1. /\ work[t] \notin PreparedClaims
            /\ PreparedClaims' = PreparedClaims \cup {work[t]}
        BY <3>1, <3>2, <3>3 DEF PreparedClaims, Completed
      <4>2. Ledger!Free(work[t])
        BY <3>3 DEF Ledger!Free, PreparedClaims, Overlapping
      <4>3. QED
        BY <3>2, <4>1, <4>2 DEF Ledger!Next, Ledger!Grant
    <3>4. CASE checkpoint' = [checkpoint EXCEPT ![work[t]] = "started"]
                 /\ ~ Completed(work[t])
      BY <3>1, <3>2, <3>4 DEF PreparedClaims, Completed
    <3>5. CASE checkpoint' = [checkpoint EXCEPT ![work[t]] = "none"]
      <4>1. PreparedClaims' = PreparedClaims \ {work[t]}
        BY <3>1, <3>2, <3>5 DEF PreparedClaims, Completed
      <4>2. QED
        BY <3>2, <4>1 DEF Ledger!Next, Ledger!Revoke
    <3>6. QED
      BY <3>2, <3>3, <3>4, <3>5
  <2>3. QED
    BY <2>1, <2>2
<1>3. QED
  BY <1>1, <1>2, Invariance, PTL DEF Spec, LedgerSpec, Ledger!Spec

-----------------------------------------------------------------------------
(* The file lock, which every request of the node waits for.               *)

\* The lock is held only within a request: no error path, timeout or crash
\* leaves it behind.
LockInUse == lock # None => lock \in Workers /\ pc[lock] \in Critical

\* Between two calls that belong together the holder finds what it left: the GPU
\* that it unbound, and the GPU instance that it made.
Resumable(t) ==
  /\ pc[t] \in {"pBind", "uBind"} => \E d \in todo[t] : driver[GpuOf[d]] = "none"
  /\ pc[t] = "pCompute" => \E d \in MigDevices(work[t]) \ todo[t] : inst[d] = "gi"

HolderGoesOn == LockInUse /\ \A t \in Workers : Resumable(t)

\* No step leaves the lock with a thread that is not in a request.
LEMMA LockInUseStep ==
  ASSUME TypeOK, Control, LockInUse, Next
  PROVE  LockInUse'
<1> USE ThreadFacts DEF Critical, PrepareLabels, UnprepareLabels,
        At, Goto, GotoWith, Leave, Fail, idVars, nodeVars, procVars, threadVars, worldVars
<1>1. ASSUME NEW t \in Handlers, Request(t)
      PROVE  LockInUse'
  BY <1>1
  DEF Request, PrepareResourceClaims, UnprepareResourceClaims, TypeOK, LockInUse, Workers
<1>2. ASSUME NEW t \in Workers, Acquire(t) \/ AcquireTimeout(t)
      PROVE  LockInUse'
  BY <1>2 DEF Acquire, AcquireTimeout, TypeOK, LockInUse
<1>3. ASSUME NEW t \in Workers, PrepareStep(t)
      PROVE  LockInUse'
  BY <1>3
  DEF PrepareStep, PrepareCheck, PrepareStarted, ConfigRefused, ConfigureVfio,
      BindVfio, ApplySharing, CreateDeployment, AssertReady, CreateGpuInstance,
      CreateComputeInstance, Created, CreateClaimSpecFile, PrepareCompleted,
      PrepareReturns, TypeOK, LockInUse
<1>4. ASSUME NEW t \in Workers, UnprepareStep(t)
      PROVE  LockInUse'
  BY <1>4
  DEF UnprepareStep, UnprepareFind, UnconfigureVfio, BindNvidia, UnprepareDevices,
      StopDaemon, DefaultTimeSlice, DiscoverSiblings, DeleteClaimSpecFile,
      DeleteClaimFromCheckpoint, UnprepareReturns, TypeOK, LockInUse
<1>5. ASSUME NEW t \in Workers, Failure(t)
      PROVE  LockInUse'
  BY <1>5
  DEF Failure, DeleteFails, PrepareFails, CreateClaimSpecFileFails,
      UnprepareFails, TypeOK, LockInUse
<1>6. ASSUME NEW t \in Threads, DeleteStep(t)
      PROVE  LockInUse'
  BY <1>6
  DEF DeleteStep, DestroyComputeInstance, DestroyGpuInstance, DeleteDone,
      Deleting, TypeOK, LockInUse
<1>7. ASSUME NEW t \in Cleaners, CleanerStep(t)
      PROVE  LockInUse'
  BY <1>7 DEF CleanerStep, Cleanup, UnprepareIfStale, TypeOK, LockInUse, Workers
<1>8. CASE Start \/ DestroyUnknownMIGDevices \/ NewDriver \/ Crash
  BY <1>8 DEF Start, DestroyUnknownMIGDevices, NewDriver, Crash, TypeOK, LockInUse
<1>9. ASSUME NEW c \in Claims, Allocate(c) \/ DeleteClaim(c)
      PROVE  LockInUse'
  BY <1>9 DEF Allocate, DeleteClaim, LockInUse
<1>10. QED
  BY <1>1, <1>2, <1>3, <1>4, <1>5, <1>6, <1>7, <1>8, <1>9 DEF Next, Workers

\* The thread that takes a step in a request finds what it left; the others are
\* outside of the lock.
LEMMA ResumableStep ==
  ASSUME TypeOK, Control, Progress, \A t \in Workers : Resumable(t), Next
  PROVE  \A t \in Workers : Resumable(t)'
<1> DEFINE Paired == {"pBind", "uBind", "pCompute"}
<1> USE ThreadFacts DEF At, Goto, GotoWith, Leave, Fail, idVars, nodeVars, procVars, threadVars,
        worldVars
<1>0. Paired \subseteq Critical
  BY DEF Critical, PrepareLabels, UnprepareLabels
<1>1. ASSUME NEW t \in Workers, pc[t] \in Critical, Resumable(t)',
             \A s \in Workers \ {t} : pc'[s] = pc[s]
      PROVE  \A s \in Workers : Resumable(s)'
  BY <1>0, <1>1, OneHolder DEF Resumable
<1>2. ASSUME UNCHANGED <<driver, inst>>,
             \A s \in Workers :
                pc'[s] \notin Paired \/ (pc'[s] = pc[s] /\ todo'[s] = todo[s] /\ work'[s] = work[s])
      PROVE  \A s \in Workers : Resumable(s)'
  BY <1>2 DEF Resumable
<1>3. ASSUME NEW t \in Handlers, Request(t)
      PROVE  \A s \in Workers : Resumable(s)'
  BY <1>2, <1>3
  DEF Request, PrepareResourceClaims, UnprepareResourceClaims, TypeOK, Workers
<1>4. ASSUME NEW t \in Workers, Acquire(t) \/ AcquireTimeout(t)
      PROVE  \A s \in Workers : Resumable(s)'
  BY <1>2, <1>4 DEF Acquire, AcquireTimeout, TypeOK
<1>5. ASSUME NEW t \in Workers, PrepareStep(t)
      PROVE  \A s \in Workers : Resumable(s)'
  <2>1. pc[t] \in Critical /\ \A s \in Workers \ {t} : pc'[s] = pc[s]
    BY <1>5
    DEF PrepareStep, PrepareCheck, PrepareStarted, ConfigRefused, ConfigureVfio,
        BindVfio, ApplySharing, CreateDeployment, AssertReady, CreateGpuInstance,
        CreateComputeInstance, Created, CreateClaimSpecFile, PrepareCompleted,
        PrepareReturns, TypeOK, Critical, PrepareLabels, UnprepareLabels
  <2>2. ASSUME NEW d \in Devices, ConfigureVfio(t, d)
        PROVE  Resumable(t)'
    BY <2>2, ConstantsAssumption DEF ConfigureVfio, Resumable, TypeOK
  <2>3. ASSUME NEW d \in Devices, CreateGpuInstance(t, d)
        PROVE  Resumable(t)'
    <3>1. CASE Occupied(d)
      BY <2>3, <3>1 DEF CreateGpuInstance, Resumable, TypeOK
    <3>2. CASE ~ Occupied(d)
      <4>1. d \in MigDevices(work[t])
        BY <2>3 DEF CreateGpuInstance, Progress, CreateProgress, MigCreating
      <4>2. /\ pc'[t] = "pCompute" /\ work' = work /\ inst'[d] = "gi"
            /\ todo'[t] = todo[t] \ {d}
        BY <2>3, <3>2 DEF CreateGpuInstance, TypeOK
      <4>3. QED
        BY <4>1, <4>2 DEF Resumable, MigDevices
    <3>3. QED
      BY <3>1, <3>2
  <2>4. ASSUME NEW d \in Devices, BindVfio(t, d) \/ CreateComputeInstance(t, d)
        PROVE  Resumable(t)'
    BY <2>4 DEF BindVfio, CreateComputeInstance, Resumable, TypeOK
  <2>5. ASSUME \/ PrepareCheck(t) \/ PrepareStarted(t) \/ ConfigRefused(t)
               \/ ApplySharing(t) \/ CreateDeployment(t) \/ AssertReady(t) \/ Created(t)
               \/ CreateClaimSpecFile(t) \/ PrepareCompleted(t) \/ PrepareReturns(t)
        PROVE  Resumable(t)'
    BY <2>5
    DEF PrepareCheck, PrepareStarted, ConfigRefused, ApplySharing, CreateDeployment,
        AssertReady, Created, CreateClaimSpecFile, PrepareCompleted, PrepareReturns,
        Resumable, TypeOK
  <2>6. Resumable(t)'
    BY <1>5, <2>2, <2>3, <2>4, <2>5 DEF PrepareStep
  <2>7. QED
    BY <1>1, <2>1, <2>6
<1>6. ASSUME NEW t \in Workers, UnprepareStep(t)
      PROVE  \A s \in Workers : Resumable(s)'
  <2>1. pc[t] \in Critical /\ \A s \in Workers \ {t} : pc'[s] = pc[s]
    BY <1>6
    DEF UnprepareStep, UnprepareFind, UnconfigureVfio, BindNvidia, UnprepareDevices,
        StopDaemon, DefaultTimeSlice, DiscoverSiblings, DeleteClaimSpecFile,
        DeleteClaimFromCheckpoint, UnprepareReturns, TypeOK, Critical, PrepareLabels,
        UnprepareLabels
  <2>2. ASSUME NEW d \in Devices, UnconfigureVfio(t, d)
        PROVE  Resumable(t)'
    BY <2>2, ConstantsAssumption DEF UnconfigureVfio, Resumable, TypeOK
  <2>3. ASSUME \/ UnprepareFind(t) \/ UnprepareDevices(t) \/ StopDaemon(t)
               \/ DefaultTimeSlice(t) \/ DiscoverSiblings(t) \/ DeleteClaimSpecFile(t)
               \/ DeleteClaimFromCheckpoint(t) \/ UnprepareReturns(t)
               \/ \E d \in Devices : BindNvidia(t, d)
        PROVE  Resumable(t)'
    BY <2>3
    DEF UnprepareFind, UnprepareDevices, StopDaemon, DefaultTimeSlice, DiscoverSiblings,
        DeleteClaimSpecFile, DeleteClaimFromCheckpoint, UnprepareReturns, BindNvidia,
        Resumable, TypeOK
  <2>4. Resumable(t)'
    BY <1>6, <2>2, <2>3 DEF UnprepareStep
  <2>5. QED
    BY <1>1, <2>1, <2>4
<1>7. ASSUME NEW t \in Workers, Failure(t)
      PROVE  \A s \in Workers : Resumable(s)'
  BY <1>2, <1>7
  DEF Failure, DeleteFails, PrepareFails, CreateClaimSpecFileFails, UnprepareFails, TypeOK
<1>8. ASSUME NEW t \in Threads, DeleteStep(t)
      PROVE  \A s \in Workers : Resumable(s)'
  <2>1. Deleting(t) /\ \A s \in Threads \ {t} : pc'[s] = pc[s]
    BY <1>8
    DEF DeleteStep, DestroyComputeInstance, DestroyGpuInstance, DeleteDone, TypeOK
  <2>2. pc'[t] \notin Paired
    BY <1>8
    DEF DeleteStep, DestroyComputeInstance, DestroyGpuInstance, DeleteDone, Deleting,
        TypeOK
  <2>3. CASE t \in Workers
    <3>1. pc[t] \in Critical
      BY <2>1, <2>3 DEF Deleting, Control, Critical, PrepareLabels, UnprepareLabels
    <3>2. QED
      BY <1>1, <2>1, <2>2, <2>3, <3>1 DEF Resumable
  <2>4. CASE t = Boot
    <3>1. pc[Boot] # "served"
      BY <2>1, <2>4 DEF Deleting
    <3>2. \A s \in Workers : pc'[s] = "idle"
      BY <2>1, <2>4, <3>1 DEF Control
    <3>3. QED
      BY <3>2 DEF Resumable
  <2>5. QED
    BY <2>3, <2>4 DEF Threads, Workers
<1>9. ASSUME NEW t \in Cleaners, CleanerStep(t)
      PROVE  \A s \in Workers : Resumable(s)'
  BY <1>2, <1>9 DEF CleanerStep, Cleanup, UnprepareIfStale, TypeOK, Workers
<1>10. CASE Start \/ NewDriver
  BY <1>2, <1>10 DEF Start, NewDriver, TypeOK
<1>11. CASE DestroyUnknownMIGDevices \/ Crash
  BY <1>2, <1>11 DEF DestroyUnknownMIGDevices, Crash, TypeOK
<1>12. ASSUME NEW c \in Claims, Allocate(c) \/ DeleteClaim(c)
      PROVE  \A s \in Workers : Resumable(s)'
  BY <1>2, <1>12 DEF Allocate, DeleteClaim
<1>13. QED
  BY <1>3, <1>4, <1>5, <1>6, <1>7, <1>8, <1>9, <1>10, <1>11, <1>12 DEF Next, Workers

(***************************************************************************)
(* HolderGoesOn: whichever call fails and whenever the process dies, the   *)
(* lock that all requests of the node wait for is held only by a request   *)
(* that is under way, and that request is never in the middle of a pair of *)
(* calls (unbind and bind, GPU instance and compute instance) whose first  *)
(* half somebody else has undone.                                          *)
(***************************************************************************)
THEOREM LockHolderGoesOn == Spec => []HolderGoesOn
<1>1. Init => HolderGoesOn
  BY DEF Init, HolderGoesOn, LockInUse, Resumable, Workers, Threads
<1>2. Inv /\ HolderGoesOn /\ [Next]_vars => HolderGoesOn'
  <2> SUFFICES ASSUME Inv, HolderGoesOn, [Next]_vars PROVE HolderGoesOn'
    OBVIOUS
  <2>1. CASE Next
    BY <2>1, LockInUseStep, ResumableStep DEF Inv, HolderGoesOn
  <2>2. CASE UNCHANGED vars
    BY <2>2 DEF vars, nodeVars, threadVars, HolderGoesOn, LockInUse, Resumable
  <2>3. QED
    BY <2>1, <2>2
<1>3. QED
  BY <1>1, <1>2, Invariance, PTL DEF Spec

=============================================================================
