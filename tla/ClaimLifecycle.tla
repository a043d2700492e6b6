--------------------------- MODULE ClaimLifecycle ---------------------------
(***************************************************************************)
(* The life of ResourceClaims in the compute-domain kubelet plugin of ONE  *)
(* node: driver.nodePrepareResource and nodeUnprepareResource, the         *)
(* DeviceState they mutate, the checkpoint cleanup manager, the node label *)
(* and the per-domain config directory of the ComputeDomainManager.        *)
(*                                                                         *)
(* Threads are the goroutines that work on one claim at a time: a Handler  *)
(* serves one claim of a kubelet Prepare/Unprepare request, a Cleaner is   *)
(* the worker of a CheckpointCleanupManager.  Threads belong to plugin     *)
(* processes, of which two overlap during a driver upgrade; the processes  *)
(* share the file lock pu.lock, the checkpoint file, the CDI directory,    *)
(* the config directory and the API server.                                *)
(*                                                                         *)
(* A claim holds exactly one device (the code rejects anything else): the  *)
(* channel device 0 or the daemon device of the node.                      *)
(***************************************************************************)
EXTENDS Naturals, FiniteSets

CONSTANTS
  Procs,          \* plugin processes on the node
  Handlers,       \* request goroutines
  Cleaners,       \* checkpoint cleanup workers
  ProcOf,         \* [Handlers \cup Cleaners -> Procs]
  Claims,         \* ResourceClaim UIDs
  ChannelClaims,  \* the claims for channel 0; the others are daemon claims
  AdminClaims,    \* the claims allocated with admin access
  ForeignClaims,  \* the claims of another namespace than their domain's
  LegacyClaims,   \* completed claims of a 25.3.0-rc.2 checkpoint at start-up
  NamelessClaims, \* started claims of a 25.3.x checkpoint at start-up
  DeletedClaims,  \* the claims users may delete
  DeletedDomains, \* the domains users may delete
  Domains,        \* ComputeDomain UIDs
  DomainOf,       \* [Claims -> Domains], the DomainID in the claim's config
  ConfigOf,       \* [Claims -> ConfigKinds], how the claim's config reads
  MaxFaults,      \* bound on crashes, I/O errors and API errors
  None            \* no thread, no claim, no label

Threads == Handlers \cup Cleaners

(***************************************************************************)
(* The configs of a claim are what a user wrote.  One with an unknown      *)
(* field decodes only when the decoder is not strict; one that does not    *)
(* decode at all may be of a newer version; one is "mismatched" when it    *)
(* decodes and is of a type that the device is not, or when the device is  *)
(* not one that the process has.                                           *)
(***************************************************************************)
ConfigKinds == {"valid", "unknownField", "mismatched", "undecodable"}

ASSUME ConfigAssumption == ConfigOf \in [Claims -> ConfigKinds]

ASSUME ConstantsAssumption ==
  /\ Handlers \cap Cleaners = {}
  /\ ProcOf \in [Threads -> Procs]
  /\ ChannelClaims \subseteq Claims
  /\ AdminClaims \subseteq Claims
  /\ ForeignClaims \subseteq Claims
  /\ LegacyClaims \subseteq Claims
  /\ NamelessClaims \subseteq Claims \ LegacyClaims
  /\ DomainOf \in [Claims -> Domains]
  /\ MaxFaults \in Nat
  /\ None \notin Threads \cup Claims \cup Domains

(***************************************************************************)
(* A checkpoint of an older driver holds one claim per device.             *)
(***************************************************************************)
ASSUME LegacyAssumption ==
  \A c, e \in LegacyClaims \cup NamelessClaims :
     (c # e) => ~ (c \in ChannelClaims <=> e \in ChannelClaims)

VARIABLES
  live,        \* claims whose object exists in the API server
  kubelet,     \* [Claims -> ...] what the kubelet last heard of each claim
  cdState,     \* [Domains -> ...] life of the ComputeDomain object
  ready,       \* domains whose status says this node is ready
  label,       \* the node's ComputeDomain label: a domain or None
  checkpoint,  \* [Claims -> ...] PreparedClaims in the checkpoint file
  cdi,         \* claims with a CDI spec file
  configDir,   \* domains with a config directory
  proc,        \* [Procs -> ...] life of each process
  known,       \* [Procs -> SUBSET Domains] ComputeDomain informer caches
  sweep,       \* [Procs -> ...] domain whose directory is being removed
  lock,        \* pu.lock: the thread holding it or None
  pc,          \* [Threads -> Steps]
  arg,         \* [Threads -> Claims \cup {None}] the claim worked on
  snap,        \* [Threads -> checkpoint value read by updateCheckpoint]
  stale,       \* [Cleaners -> SUBSET Claims] candidates still to look at
  faults       \* number of faults so far

api    == <<live, cdState, ready>>
disk   == <<checkpoint, cdi, configDir>>
procs  == <<proc, known, sweep>>
work   == <<pc, arg, snap, stale>>
vars   == <<api, kubelet, label, disk, procs, lock, work, faults>>

(***************************************************************************)
(* "legacy" is PrepareCompleted with a nil Status.Allocation: what         *)
(* Checkpoint2503RC2.ToV1 and CheckpointV1.ToV2 make of an old entry.      *)
(* "nameless" is PrepareStarted without the claim's name.                  *)
(***************************************************************************)
ClaimStates   == {"absent", "nameless", "started", "completed", "legacy"}
KubeletStates == {"none", "busy", "prepared", "failed"}
DomainStates  == {"none", "active", "deleting", "gone"}
ProcStates    == {"starting", "running", "panicked", "down"}

PrepareSteps   == {"pLock", "pCheck", "pStartR", "pStartW", "pApply",
                   "pLabel", "pReady", "pCDI", "pDoneR", "pDoneW"}
UnprepareSteps == {"uLock", "uFind", "uDevices", "uCDI", "uDelR", "uDelW"}
Steps          == PrepareSteps \cup UnprepareSteps \cup {"idle", "cNext"}

Blank == [c \in Claims |-> "absent"]

Prepared(c) == checkpoint[c] \in {"completed", "legacy"}

Device(c) == IF c \in ChannelClaims THEN "channel" ELSE "daemon"

Exists(d) == cdState[d] \in {"active", "deleting"}

(***************************************************************************)
(* Two claims that must not be prepared on a node together: the daemon     *)
(* device may be shared with admin access, channel 0 never.                *)
(***************************************************************************)
Conflict(c, e) ==
  /\ c # e
  /\ Device(c) = Device(e)
  /\ c \in ChannelClaims \/ (c \notin AdminClaims /\ e \notin AdminClaims)

TypeOK ==
  /\ live \subseteq Claims
  /\ kubelet \in [Claims -> KubeletStates]
  /\ cdState \in [Domains -> DomainStates]
  /\ ready \subseteq Domains
  /\ label \in Domains \cup {None}
  /\ checkpoint \in [Claims -> ClaimStates]
  /\ cdi \subseteq Claims
  /\ configDir \subseteq Domains
  /\ proc \in [Procs -> ProcStates]
  /\ known \in [Procs -> SUBSET Domains]
  /\ sweep \in [Procs -> Domains \cup {None}]
  /\ lock \in Threads \cup {None}
  /\ pc \in [Threads -> Steps]
  /\ arg \in [Threads -> Claims \cup {None}]
  /\ snap \in [Threads -> [Claims -> ClaimStates]]
  /\ stale \in [Cleaners -> SUBSET Claims]
  /\ faults \in 0 .. MaxFaults

(***************************************************************************)
(* NewDeviceState finds a checkpoint of an older driver or creates an      *)
(* empty one.  The older driver's process is gone; the label, CDI files    *)
(* and directories of its claims are on the node.                          *)
(***************************************************************************)
OldClaims == LegacyClaims \cup NamelessClaims

OldState(c) ==
  CASE c \in LegacyClaims -> "legacy"
    [] c \in NamelessClaims -> "nameless"
    [] OTHER -> "absent"

Init ==
  /\ live = Claims
  /\ kubelet = [c \in Claims |-> CASE c \in LegacyClaims -> "prepared"
                                   [] c \in NamelessClaims -> "failed"
                                   [] OTHER -> "none"]
  /\ cdState = [d \in Domains |->
                  IF \E c \in OldClaims : DomainOf[c] = d
                    THEN "active" ELSE "none"]
  /\ ready = {}
  /\ label = IF OldClaims \cap ChannelClaims = {} THEN None
             ELSE DomainOf[CHOOSE c \in OldClaims \cap ChannelClaims : TRUE]
  /\ checkpoint = [c \in Claims |-> OldState(c)]
  /\ cdi = LegacyClaims
  /\ configDir = {DomainOf[c] : c \in OldClaims \ ChannelClaims}
  /\ proc = [p \in Procs |-> "starting"]
  /\ known = [p \in Procs |-> {}]
  /\ sweep = [p \in Procs |-> None]
  /\ lock = None
  /\ pc = [t \in Threads |-> "idle"]
  /\ arg = [t \in Threads |-> None]
  /\ snap = [t \in Threads |-> Blank]
  /\ stale = [k \in Cleaners |-> {}]
  /\ faults = 0

-----------------------------------------------------------------------------
(* Moving a thread along.                                                  *)

Goto(t, step) ==
  /\ pc' = [pc EXCEPT ![t] = step]
  /\ UNCHANGED <<arg, snap, stale>>

Fault ==
  /\ faults < MaxFaults
  /\ faults' = faults + 1

(***************************************************************************)
(* The attempt ends with the claim's work done, for good or with a         *)
(* permanent error: the lock is released and the kubelet gets the result.  *)
(* A cleaner goes on to its next candidate.                                *)
(***************************************************************************)
Done(t, result) ==
  /\ lock' = None
  /\ pc' = [pc EXCEPT ![t] = IF t \in Cleaners THEN "cNext" ELSE "idle"]
  /\ arg' = [arg EXCEPT ![t] = None]
  /\ snap' = [snap EXCEPT ![t] = Blank]
  /\ kubelet' = IF t \in Cleaners THEN kubelet
                ELSE [kubelet EXCEPT ![arg[t]] = result]
  /\ UNCHANGED stale

\* Faulty variant: the lock is kept over the back-off.
RetryHolding(t) ==
  IF t \in Cleaners
    THEN Done(t, "failed")
    ELSE /\ pc' = [pc EXCEPT ![t] = IF pc[t] \in PrepareSteps
                                      THEN "pLock" ELSE "uLock"]
         /\ snap' = [snap EXCEPT ![t] = Blank]
         /\ UNCHANGED <<lock, arg, stale, kubelet>>

(***************************************************************************)
(* The attempt ends with a retryable error: the lock is released and the   *)
(* request's work queue runs the same callback again after a back-off.  A  *)
(* cleaner makes one attempt only.                                         *)
(***************************************************************************)
Retry(t) ==
  IF t \in Cleaners
    THEN Done(t, "failed")
    ELSE /\ lock' = None
         /\ pc' = [pc EXCEPT ![t] = IF pc[t] \in PrepareSteps
                                      THEN "pLock" ELSE "uLock"]
         /\ snap' = [snap EXCEPT ![t] = Blank]
         /\ UNCHANGED <<arg, stale, kubelet>>

-----------------------------------------------------------------------------
(* Requests and the lock.                                                  *)

(***************************************************************************)
(* The kubelet asks for a claim again until it is prepared, and again      *)
(* after its own restart.  The plugin helper fetches the claim from the    *)
(* API server first, so the object exists when the request starts; it may  *)
(* be gone later.                                                          *)
(***************************************************************************)
PrepareResourceClaims(t, c) ==
  /\ pc[t] = "idle"
  /\ proc[ProcOf[t]] \in {"starting", "running"}
  /\ c \in live
  /\ cdState[DomainOf[c]] # "none"
  /\ kubelet[c] # "busy"
  /\ kubelet' = [kubelet EXCEPT ![c] = "busy"]
  /\ pc' = [pc EXCEPT ![t] = "pLock"]
  /\ arg' = [arg EXCEPT ![t] = c]
  /\ UNCHANGED <<api, label, disk, procs, lock, snap, stale, faults>>

UnprepareResourceClaims(t, c) ==
  /\ pc[t] = "idle"
  /\ proc[ProcOf[t]] \in {"starting", "running"}
  /\ kubelet[c] \in {"prepared", "failed"}
  /\ kubelet' = [kubelet EXCEPT ![c] = "busy"]
  /\ pc' = [pc EXCEPT ![t] = "uLock"]
  /\ arg' = [arg EXCEPT ![t] = c]
  /\ UNCHANGED <<api, label, disk, procs, lock, snap, stale, faults>>

\* Faulty variant: flock() is not awaited.
AcquireUnlocked(t) ==
  /\ pc[t] \in {"pLock", "uLock"}
  /\ lock' = t
  /\ Goto(t, IF pc[t] = "pLock" THEN "pCheck" ELSE "uFind")
  /\ UNCHANGED <<api, kubelet, label, disk, procs, faults>>

(***************************************************************************)
(* Flock.Acquire polls a non-blocking flock().  The DeviceState mutex      *)
(* taken next is free whenever pu.lock is, so it is not modelled.          *)
(***************************************************************************)
Acquire(t) ==
  /\ pc[t] \in {"pLock", "uLock"}
  /\ lock = None
  /\ lock' = t
  /\ Goto(t, IF pc[t] = "pLock" THEN "pCheck" ELSE "uFind")
  /\ UNCHANGED <<api, kubelet, label, disk, procs, faults>>

(***************************************************************************)
(* ErrorRetryMaxTimeout: the request's context ends while the claim waits  *)
(* for the lock or for its next attempt; the response has no result for    *)
(* the claim, which the kubelet takes for an error.                        *)
(***************************************************************************)
GiveUp(t) ==
  /\ t \in Handlers
  /\ pc[t] \in {"pLock", "uLock"}
  /\ pc' = [pc EXCEPT ![t] = "idle"]
  /\ arg' = [arg EXCEPT ![t] = None]
  /\ kubelet' = [kubelet EXCEPT ![arg[t]] = "failed"]
  /\ UNCHANGED <<api, label, disk, procs, lock, snap, stale, faults>>

(***************************************************************************)
(* A cleaner that does not get the lock within 10 s leaves the claim to a  *)
(* later cleanup.  A prepare takes well under that: a fault.               *)
(***************************************************************************)
AcquireTimeout(k) ==
  /\ k \in Cleaners
  /\ pc[k] = "uLock"
  /\ lock # None
  /\ Fault
  /\ pc' = [pc EXCEPT ![k] = "cNext"]
  /\ arg' = [arg EXCEPT ![k] = None]
  /\ UNCHANGED <<api, kubelet, label, disk, procs, lock, snap, stale>>

-----------------------------------------------------------------------------
(* updateCheckpoint: read the file, mutate the copy, write the file.       *)

ReadCheckpoint(t) ==
  /\ pc[t] \in {"pStartR", "pDoneR", "uDelR"}
  /\ snap' = [snap EXCEPT ![t] = checkpoint]
  /\ pc' = [pc EXCEPT ![t] = CASE pc[t] = "pStartR" -> "pStartW"
                               [] pc[t] = "pDoneR"  -> "pDoneW"
                               [] pc[t] = "uDelR"   -> "uDelW"]
  /\ UNCHANGED <<api, kubelet, label, disk, procs, lock, arg, stale, faults>>

WriteCheckpoint(t, state) ==
  checkpoint' = [snap[t] EXCEPT ![arg[t]] = state]

(***************************************************************************)
(* The read or the atomic replacement of the file fails.                   *)
(***************************************************************************)
CheckpointFails(t) ==
  /\ pc[t] \in {"pCheck", "uFind", "pStartR", "pStartW", "pDoneR", "pDoneW",
                "uDelR", "uDelW"}
  /\ Fault
  /\ Retry(t)
  /\ UNCHANGED <<api, label, disk, procs>>

-----------------------------------------------------------------------------
(* DeviceState.Prepare.                                                    *)

(***************************************************************************)
(* The Go runtime aborts the process: every thread of it stops where it is *)
(* and the kernel closes its lock file.  The kubelet sees the calls fail.  *)
(***************************************************************************)
Dies(p, how) ==
  LET mine == {t \in Threads : ProcOf[t] = p} IN
  /\ proc' = [proc EXCEPT ![p] = how]
  /\ sweep' = [sweep EXCEPT ![p] = None]
  /\ lock' = IF lock \in mine THEN None ELSE lock
  /\ pc' = [t \in Threads |-> IF t \in mine THEN "idle" ELSE pc[t]]
  /\ arg' = [t \in Threads |-> IF t \in mine THEN None ELSE arg[t]]
  /\ snap' = [t \in Threads |-> IF t \in mine THEN Blank ELSE snap[t]]
  /\ stale' = [k \in Cleaners |-> IF k \in mine THEN {} ELSE stale[k]]
  /\ kubelet' = [c \in Claims |->
                   IF \E t \in mine \cap Handlers : arg[t] = c
                     THEN "failed" ELSE kubelet[c]]

(***************************************************************************)
(* validateNoOverlappingPreparedDevices, for a claim without admin access: *)
(* the completed claims that hold its device, and the legacy entries whose *)
(* nil Allocation GetNonAdminDevices dereferences.                         *)
(***************************************************************************)
Overlapping(c) ==
  IF c \in AdminClaims THEN {}
  ELSE {e \in Claims \ ({c} \cup AdminClaims) :
          checkpoint[e] = "completed" /\ Device(e) = Device(c)}

NilAllocations(c) ==
  IF c \in AdminClaims THEN {}
  ELSE {e \in Claims \ {c} : checkpoint[e] = "legacy"}

\* Faulty variant: a completed claim is prepared once more.
PrepareCheckAgain(t) ==
  LET c == arg[t] IN
  /\ pc[t] = "pCheck"
  /\ \/ /\ Overlapping(c) # {}
        /\ Retry(t)
     \/ /\ Overlapping(c) = {}
        /\ Goto(t, "pStartR")
        /\ UNCHANGED <<lock, kubelet>>
  /\ UNCHANGED <<api, label, disk, procs, faults>>

(***************************************************************************)
(* Prepare of a claim that is PrepareCompleted returns the devices of the  *)
(* checkpoint.  Otherwise the overlap check decides; the map is walked in  *)
(* any order, so an overlap and a nil entry may both come first.           *)
(***************************************************************************)
PrepareCheck(t) ==
  LET c == arg[t] IN
  /\ pc[t] = "pCheck"
  /\ \/ /\ Prepared(c)
        /\ Done(t, "prepared")
        /\ UNCHANGED procs
     \/ /\ ~ Prepared(c)
        /\ Overlapping(c) # {}
        /\ Retry(t)
        /\ UNCHANGED procs
     \/ /\ ~ Prepared(c)
        /\ NilAllocations(c) # {}
        /\ Dies(ProcOf[t], "panicked")
        /\ UNCHANGED known
     \/ /\ ~ Prepared(c)
        /\ Overlapping(c) = {}
        /\ NilAllocations(c) = {}
        /\ Goto(t, "pStartR")
        /\ UNCHANGED <<lock, kubelet, procs>>
  /\ UNCHANGED <<api, label, disk, faults>>

PrepareStarted(t) ==
  /\ pc[t] = "pStartW"
  /\ WriteCheckpoint(t, "started")
  /\ pc' = [pc EXCEPT ![t] = "pApply"]
  /\ snap' = [snap EXCEPT ![t] = Blank]
  /\ UNCHANGED <<api, kubelet, label, cdi, configDir, procs, lock, arg, stale,
                 faults>>

(***************************************************************************)
(* getConfigResultsMap, with which prepareDevices and unprepareDevices     *)
(* begin: the former decodes strictly.  A decoding error is permanent, the *)
(* others are retried; either way nothing was done.                        *)
(***************************************************************************)
Undecodable(t) ==
  IF pc[t] \in PrepareSteps THEN {"unknownField", "undecodable"} ELSE {"undecodable"}

Readable(t) == ConfigOf[arg[t]] \notin Undecodable(t) \cup {"mismatched"}

ConfigResultsMapFails(t) ==
  /\ pc[t] \in {"pApply", "uDevices"}
  /\ \/ ConfigOf[arg[t]] \in Undecodable(t) /\ Done(t, "failed")
     \/ ConfigOf[arg[t]] = "mismatched" /\ Retry(t)
  /\ UNCHANGED <<api, label, disk, procs, faults>>

(***************************************************************************)
(* assertImexChannelNotAllocated(0): admin access makes no difference.     *)
(***************************************************************************)
ChannelAllocated == \E e \in ChannelClaims : Prepared(e)

(***************************************************************************)
(* applyComputeDomainChannelConfig up to its first API call: the channel   *)
(* must be free and the domain must be in the informer's cache, in the     *)
(* claim's namespace; otherwise the error is permanent.                    *)
(***************************************************************************)
ApplyChannelConfig(t) ==
  LET c == arg[t] IN
  /\ pc[t] = "pApply" /\ Readable(t)
  /\ c \in ChannelClaims
  /\ \/ /\ ChannelAllocated
        /\ Retry(t)
     \/ /\ ~ ChannelAllocated
        /\ \/ DomainOf[c] \notin known[ProcOf[t]]
           \/ c \in ForeignClaims
        /\ Done(t, "failed")
     \/ /\ ~ ChannelAllocated
        /\ DomainOf[c] \in known[ProcOf[t]]
        /\ c \notin ForeignClaims
        /\ Goto(t, "pLabel")
        /\ UNCHANGED <<lock, kubelet>>
  /\ UNCHANGED <<api, label, disk, procs, faults>>

(***************************************************************************)
(* applyComputeDomainDaemonConfig: the config directory is created before  *)
(* the domain is looked up.                                                *)
(***************************************************************************)
ApplyDaemonConfig(t) ==
  LET d == DomainOf[arg[t]] IN
  /\ pc[t] = "pApply" /\ Readable(t)
  /\ arg[t] \notin ChannelClaims
  /\ configDir' = configDir \cup {d}
  /\ \/ /\ d \notin known[ProcOf[t]]
        /\ Retry(t)
     \/ /\ d \in known[ProcOf[t]]
        /\ Goto(t, "pCDI")
        /\ UNCHANGED <<lock, kubelet>>
  /\ UNCHANGED <<api, label, checkpoint, cdi, procs, faults>>

(***************************************************************************)
(* AddNodeLabel: Get and Update of the Node are one step because the       *)
(* update carries the resourceVersion that was read and is refused if the  *)
(* node changed.                                                           *)
(***************************************************************************)
AddNodeLabel(t) ==
  LET d == DomainOf[arg[t]] IN
  /\ pc[t] = "pLabel"
  /\ \/ /\ label \notin {None, d}
        /\ Retry(t)
        /\ UNCHANGED label
     \/ /\ label \in {None, d}
        /\ label' = d
        /\ Goto(t, "pReady")
        /\ UNCHANGED <<lock, kubelet>>
  /\ UNCHANGED <<api, disk, procs, faults>>

AssertComputeDomainReady(t) ==
  LET d == DomainOf[arg[t]] IN
  /\ pc[t] = "pReady"
  /\ \/ /\ d \in known[ProcOf[t]] \cap ready
        /\ Goto(t, "pCDI")
        /\ UNCHANGED <<lock, kubelet>>
     \/ /\ d \notin known[ProcOf[t]] \cap ready
        /\ Retry(t)
  /\ UNCHANGED <<api, label, disk, procs, faults>>

CreateClaimSpecFile(t) ==
  /\ pc[t] = "pCDI"
  /\ cdi' = cdi \cup {arg[t]}
  /\ Goto(t, "pDoneR")
  /\ UNCHANGED <<api, kubelet, label, checkpoint, configDir, procs, lock,
                 faults>>

PrepareCompleted(t) ==
  /\ pc[t] = "pDoneW"
  /\ WriteCheckpoint(t, "completed")
  /\ Done(t, "prepared")
  /\ UNCHANGED <<api, label, cdi, configDir, procs, faults>>

-----------------------------------------------------------------------------
(* DeviceState.Unprepare.                                                  *)

(***************************************************************************)
(* A claim that is not in the checkpoint needs no work.  A legacy entry    *)
(* needs the claim object for its status; without it the error is          *)
(* permanent.                                                              *)
(***************************************************************************)
UnprepareFind(t) ==
  LET c == arg[t] IN
  /\ pc[t] = "uFind"
  /\ \/ /\ checkpoint[c] = "absent"
        /\ Done(t, "none")
     \/ /\ checkpoint[c] = "legacy"
        /\ c \notin live
        /\ Done(t, "failed")
     \/ /\ checkpoint[c] # "absent"
        /\ checkpoint[c] = "legacy" => c \in live
        /\ Goto(t, "uDevices")
        /\ UNCHANGED <<lock, kubelet>>
  /\ UNCHANGED <<api, label, disk, procs, faults>>

(***************************************************************************)
(* unprepareDevices: RemoveNodeLabel for a channel, nothing for a daemon.  *)
(***************************************************************************)
WithoutLabel(d) == IF label = d THEN None ELSE label

\* Faulty variant: the node label is forgotten.
UnprepareNoDevices(t) ==
  /\ pc[t] = "uDevices" /\ Readable(t)
  /\ Goto(t, "uCDI")
  /\ UNCHANGED <<api, kubelet, label, disk, procs, lock, faults>>

UnprepareDevices(t) ==
  LET c == arg[t] IN
  /\ pc[t] = "uDevices" /\ Readable(t)
  /\ label' = IF c \in ChannelClaims THEN WithoutLabel(DomainOf[c]) ELSE label
  /\ Goto(t, "uCDI")
  /\ UNCHANGED <<api, kubelet, disk, procs, lock, faults>>

DeleteClaimSpecFile(t) ==
  /\ pc[t] = "uCDI"
  /\ cdi' = cdi \ {arg[t]}
  /\ Goto(t, "uDelR")
  /\ UNCHANGED <<api, kubelet, label, checkpoint, configDir, procs, lock,
                 faults>>

DeleteClaimFromCheckpoint(t) ==
  /\ pc[t] = "uDelW"
  /\ WriteCheckpoint(t, "absent")
  /\ Done(t, "none")
  /\ UNCHANGED <<api, label, cdi, configDir, procs, faults>>

-----------------------------------------------------------------------------
(* One of the steps of an attempt fails.  A call to the API server that    *)
(* fails may have taken effect: the response, not the request, was lost.   *)

NodeUpdateFails(t) ==
  /\ \/ /\ pc[t] = "pLabel"
        /\ label \in {None, DomainOf[arg[t]]}
        /\ label' \in {label, DomainOf[arg[t]]}
     \/ /\ pc[t] = "uDevices" /\ Readable(t)
        /\ arg[t] \in ChannelClaims
        /\ label' \in {label, WithoutLabel(DomainOf[arg[t]])}
  /\ Fault
  /\ Retry(t)
  /\ UNCHANGED <<api, disk, procs>>

SpecFileFails(t) ==
  /\ pc[t] \in {"pCDI", "uCDI"}
  /\ Fault
  /\ Retry(t)
  /\ UNCHANGED <<api, label, disk, procs>>

-----------------------------------------------------------------------------
(* CheckpointCleanupManager: cleanup and unprepareIfStale.                 *)

\* Faulty variant: the wrong claims are kept.
CleanupCompleted(k) ==
  /\ pc[k] = "idle"
  /\ proc[ProcOf[k]] = "running"
  /\ stale' = [stale EXCEPT ![k] = {c \in Claims : checkpoint[c] = "completed"}]
  /\ pc' = [pc EXCEPT ![k] = "cNext"]
  /\ UNCHANGED <<api, kubelet, label, disk, procs, lock, arg, snap, faults>>

(***************************************************************************)
(* The worker reads the checkpoint without the lock, at start-up and then  *)
(* periodically, and keeps the claims in PrepareStarted; the nameless ones *)
(* are skipped.                                                            *)
(***************************************************************************)
Cleanup(k) ==
  /\ pc[k] = "idle"
  /\ proc[ProcOf[k]] = "running"
  /\ stale' = [stale EXCEPT ![k] = {c \in Claims : checkpoint[c] = "started"}]
  /\ pc' = [pc EXCEPT ![k] = "cNext"]
  /\ UNCHANGED <<api, kubelet, label, disk, procs, lock, arg, snap, faults>>

\* Faulty variant: the API server is not asked.
AnyIsStale(c) == TRUE

(***************************************************************************)
(* One candidate: the claim object is fetched by name.  Only if there is   *)
(* none, or one with another UID, is the claim unprepared.                 *)
(***************************************************************************)
IsStale(c) == c \notin live

UnprepareIfStale(k, c) ==
  /\ pc[k] = "cNext"
  /\ c \in stale[k]
  /\ stale' = [stale EXCEPT ![k] = @ \ {c}]
  /\ \/ /\ IsStale(c)
        /\ pc' = [pc EXCEPT ![k] = "uLock"]
        /\ arg' = [arg EXCEPT ![k] = c]
     \/ /\ ~ IsStale(c)
        /\ UNCHANGED <<pc, arg>>
  /\ UNCHANGED <<api, kubelet, label, disk, procs, lock, snap, faults>>

(***************************************************************************)
(* getClaimByName fails for another reason: the claim is left for later.   *)
(***************************************************************************)
LookupFails(k, c) ==
  /\ pc[k] = "cNext"
  /\ c \in stale[k]
  /\ Fault
  /\ stale' = [stale EXCEPT ![k] = @ \ {c}]
  /\ UNCHANGED <<api, kubelet, label, disk, procs, lock, pc, arg, snap>>

CleanupDone(k) ==
  /\ pc[k] = "cNext"
  /\ stale[k] = {}
  /\ Goto(k, "idle")
  /\ UNCHANGED <<api, kubelet, label, disk, procs, lock, faults>>

-----------------------------------------------------------------------------
(* Processes.                                                              *)

Crash(p) ==
  /\ proc[p] \in {"starting", "running"}
  /\ Fault
  /\ Dies(p, "down")
  /\ UNCHANGED <<api, label, disk, known>>

(***************************************************************************)
(* NewDriver: requests are served before the informer's cache is filled;   *)
(* the cleanups start after that.                                          *)
(***************************************************************************)
Restart(p) ==
  /\ proc[p] \in {"down", "panicked"}
  /\ proc' = [proc EXCEPT ![p] = "starting"]
  /\ known' = [known EXCEPT ![p] = {}]
  /\ UNCHANGED <<api, kubelet, label, disk, sweep, lock, work, faults>>

CacheSync(p) ==
  /\ proc[p] \in {"starting", "running"}
  /\ \/ proc[p] = "starting"
     \/ known[p] # {d \in Domains : Exists(d)}
  /\ proc' = [proc EXCEPT ![p] = "running"]
  /\ known' = [known EXCEPT ![p] = {d \in Domains : Exists(d)}]
  /\ UNCHANGED <<api, kubelet, label, disk, sweep, lock, work, faults>>

(***************************************************************************)
(* periodicCleanup looks up the domain of each directory in the informer's *)
(* cache and, some time after, removes the directory if there was none.    *)
(***************************************************************************)
SweepLookup(p, d) ==
  /\ proc[p] = "running"
  /\ sweep[p] = None
  /\ d \in configDir \ known[p]
  /\ sweep' = [sweep EXCEPT ![p] = d]
  /\ UNCHANGED <<api, kubelet, label, disk, proc, known, lock, work, faults>>

SweepRemove(p) ==
  /\ sweep[p] # None
  /\ configDir' = configDir \ {sweep[p]}
  /\ sweep' = [sweep EXCEPT ![p] = None]
  /\ UNCHANGED <<api, kubelet, label, checkpoint, cdi, proc, known, lock,
                 work, faults>>

-----------------------------------------------------------------------------
(* The cluster: users, the scheduler, the compute-domain controller and    *)
(* the compute-domain daemon.                                              *)

CreateComputeDomain(d) ==
  /\ cdState[d] = "none"
  /\ cdState' = [cdState EXCEPT ![d] = "active"]
  /\ UNCHANGED <<live, ready, kubelet, label, disk, procs, lock, work, faults>>

DeleteComputeDomain(d) ==
  /\ d \in DeletedDomains
  /\ cdState[d] = "active"
  /\ cdState' = [cdState EXCEPT ![d] = "deleting"]
  /\ UNCHANGED <<live, ready, kubelet, label, disk, procs, lock, work, faults>>

(***************************************************************************)
(* The controller's RemoveComputeDomainLabels, then its finalizer.         *)
(***************************************************************************)
RemoveComputeDomainLabel(d) ==
  /\ cdState[d] = "deleting"
  /\ label = d
  /\ label' = None
  /\ UNCHANGED <<api, kubelet, disk, procs, lock, work, faults>>

RemoveFinalizer(d) ==
  /\ cdState[d] = "deleting"
  /\ label # d
  /\ cdState' = [cdState EXCEPT ![d] = "gone"]
  /\ ready' = ready \ {d}
  /\ UNCHANGED <<live, kubelet, label, disk, procs, lock, work, faults>>

(***************************************************************************)
(* The daemon pod runs on a labelled node once its claim is prepared, and  *)
(* reports the node ready; it goes away with the label.                    *)
(***************************************************************************)
NodeReady(d) ==
  /\ Exists(d)
  /\ label = d
  /\ d \notin ready
  /\ \E c \in Claims \ ChannelClaims :
        DomainOf[c] = d /\ kubelet[c] = "prepared"
  /\ ready' = ready \cup {d}
  /\ UNCHANGED <<live, cdState, kubelet, label, disk, procs, lock, work,
                 faults>>

NodeNotReady(d) ==
  /\ d \in ready
  /\ label # d
  /\ ready' = ready \ {d}
  /\ UNCHANGED <<live, cdState, kubelet, label, disk, procs, lock, work,
                 faults>>

DeleteClaim(c) ==
  /\ c \in live \cap DeletedClaims
  /\ live' = live \ {c}
  /\ UNCHANGED <<cdState, ready, kubelet, label, disk, procs, lock, work,
                 faults>>

-----------------------------------------------------------------------------
PrepareStep(t) ==
  \/ PrepareCheck(t) \/ PrepareStarted(t)
  \/ ApplyChannelConfig(t) \/ ApplyDaemonConfig(t)
  \/ AddNodeLabel(t) \/ AssertComputeDomainReady(t)
  \/ CreateClaimSpecFile(t) \/ PrepareCompleted(t)

UnprepareStep(t) ==
  \/ UnprepareFind(t) \/ UnprepareDevices(t)
  \/ DeleteClaimSpecFile(t) \/ DeleteClaimFromCheckpoint(t)

FaultStep(t) ==
  CheckpointFails(t) \/ NodeUpdateFails(t) \/ SpecFileFails(t)

ThreadStep(t) ==
  \/ ReadCheckpoint(t) \/ PrepareStep(t) \/ UnprepareStep(t)
  \/ ConfigResultsMapFails(t)

KubeletStep ==
  \E t \in Handlers, c \in Claims :
     PrepareResourceClaims(t, c) \/ UnprepareResourceClaims(t, c)

CleanerStep(k) ==
  \/ Cleanup(k) \/ CleanupDone(k)
  \/ \E c \in Claims : UnprepareIfStale(k, c)

ProcessStep(p) == Restart(p) \/ CacheSync(p)

ClusterStep ==
  \/ \E d \in Domains :
        \/ CreateComputeDomain(d) \/ DeleteComputeDomain(d)
        \/ RemoveComputeDomainLabel(d) \/ RemoveFinalizer(d)
        \/ NodeReady(d) \/ NodeNotReady(d)
  \/ \E c \in Claims : DeleteClaim(c)

Next ==
  \/ KubeletStep
  \/ \E t \in Threads : Acquire(t) \/ ThreadStep(t) \/ FaultStep(t)
  \/ \E t \in Handlers : GiveUp(t)
  \/ \E k \in Cleaners : CleanerStep(k) \/ AcquireTimeout(k)
  \/ \E k \in Cleaners, c \in Claims : LookupFails(k, c)
  \/ \E p \in Procs : ProcessStep(p) \/ Crash(p)
  \/ \E p \in Procs : SweepRemove(p) \/ \E d \in Domains : SweepLookup(p, d)
  \/ ClusterStep

Spec == Init /\ [][Next]_vars

(***************************************************************************)
(* Goroutines are scheduled; each request for a claim polls flock(), which *)
(* its holders release within seconds; the cleanup worker runs             *)
(* periodically; a process is restarted and its informer catches up.       *)
(***************************************************************************)
AcquireFor(t, c) == arg[t] = c /\ Acquire(t)

Fairness ==
  /\ \A t \in Threads : WF_vars(ThreadStep(t))
  /\ \A t \in Threads, c \in Claims : SF_vars(AcquireFor(t, c))
  /\ \A k \in Cleaners : WF_vars(CleanerStep(k))
  /\ \A p \in Procs : WF_vars(ProcessStep(p))

FairSpec == Spec /\ Fairness

(***************************************************************************)
(* In addition, the kubelet asks again for every claim of its pods, users  *)
(* create the domains, and the daemon pod of a labelled node comes up.     *)
(* An attempt is over long before a request's deadline: in the long run no *)
(* request passes it while another one has the lock.                       *)
(***************************************************************************)
Patience ==
  <>[][\A t \in Handlers :
         (pc[t] \in {"pLock", "uLock"} /\ lock # None) => pc'[t] # "idle"]_vars

ClusterFairness ==
  /\ \A c \in Claims :
        SF_vars(\E t \in Handlers : PrepareResourceClaims(t, c))
  /\ \A d \in Domains : WF_vars(CreateComputeDomain(d)) /\ SF_vars(NodeReady(d))
  /\ Patience

ClusterFairSpec == FairSpec /\ ClusterFairness

-----------------------------------------------------------------------------
(* Properties.                                                             *)

(***************************************************************************)
(* DeviceExclusive: no two claims in PrepareCompleted conflict, whatever   *)
(* requests, retries, crashes and cleanups interleave                      *)
(* (validateNoOverlappingPreparedDevices, assertImexChannelNotAllocated).  *)
(***************************************************************************)
DeviceExclusive ==
  \A c, e \in Claims : Prepared(c) /\ Prepared(e) => ~ Conflict(c, e)

(***************************************************************************)
(* NothingUntracked: what is not in the checkpoint is not on the node.     *)
(* Unprepare relies on it ("never prepared or has already been             *)
(* unprepared"): a CDI file, or a node label, without a checkpoint entry   *)
(* would never be removed.                                                 *)
(***************************************************************************)
NothingUntracked ==
  /\ \A c \in cdi : checkpoint[c] # "absent"
  /\ label # None => \E c \in ChannelClaims : /\ DomainOf[c] = label
                                              /\ checkpoint[c] # "absent"

(***************************************************************************)
(* NoLostUpdate: updateCheckpoint writes back what it read plus its own    *)
(* change: the file has not changed since, in spite of the other threads   *)
(* and of the other process.                                               *)
(***************************************************************************)
NoLostUpdate ==
  \A t \in Threads :
     pc[t] \in {"pStartW", "pDoneW", "uDelW"} => snap[t] = checkpoint

(***************************************************************************)
(* PreparedStaysPrepared: a claim the kubelet was told is prepared, and    *)
(* whose object exists, is PrepareCompleted: neither another request nor   *)
(* the cleanup, with its reading of the checkpoint without the lock, takes *)
(* it away.                                                                *)
(***************************************************************************)
PreparedStaysPrepared ==
  \A c \in live : kubelet[c] = "prepared" => Prepared(c)

(***************************************************************************)
(* PreparedAtMostOnce: a PrepareCompleted claim only leaves the checkpoint *)
(* (by an Unprepare), it is never marked PrepareStarted again: "actual     *)
(* device preparation must happen at most once".                           *)
(***************************************************************************)
PreparedAtMostOnce ==
  [][\A c \in Claims : Prepared(c) => checkpoint'[c] \in {checkpoint[c], "absent"}]_vars

(***************************************************************************)
(* CleanupOnlyStale: the cleanup takes a claim out of the checkpoint only  *)
(* if its object is gone from the API server.                              *)
(***************************************************************************)
CleanupOnlyStale ==
  [][\A k \in Cleaners, c \in Claims :
        /\ lock = k
        /\ checkpoint[c] # "absent"
        /\ checkpoint'[c] = "absent"
        => c \notin live]_vars

\* Unprepare gets past the configs of the claim.
Unpreparable(c) == ConfigOf[c] \in {"valid", "unknownField"}

(***************************************************************************)
(* StaleStartedResolved: a claim that was left in PrepareStarted and whose *)
(* object is gone does not stay there: the cleanup removes it, also if its *)
(* configs have an unknown field and Prepare refused it for good.  What    *)
(* Unprepare cannot read either stays, and is tried again for ever.        *)
(***************************************************************************)
StaleStartedResolved ==
  \A c \in Claims :
     (checkpoint[c] = "started" /\ c \notin live /\ Unpreparable(c))
        ~> (checkpoint[c] # "started")

(***************************************************************************)
(* CodependentPrepares: unless something is unprepared, the Prepare of a   *)
(* channel claim completes although it needs the node ready, which needs   *)
(* the label it sets itself and the Prepare of the daemon claim, which it  *)
(* must let through ("for the first prepare() to eventually complete, a    *)
(* second prepare() must be incoming").                                    *)
(***************************************************************************)
CodependentPrepares ==
  \/ <>(\E t \in Threads : pc[t] \in UnprepareSteps)
  \/ <>(\A c \in Claims \ ForeignClaims : ConfigOf[c] = "valid" => Prepared(c))

-----------------------------------------------------------------------------
(* What the plugin promises to its users, and that it keeps the promise.   *)

PreparedClaims == {c \in Claims : Prepared(c)}

Ledger == INSTANCE ClaimLedger WITH prepared <- PreparedClaims

(***************************************************************************)
(* LedgerSpec: seen from outside, the plugin grants devices to claims one  *)
(* at a time, each free of conflicts, and revokes them one at a time; all  *)
(* the started states, retries, crashes and cleanups in between are        *)
(* stuttering.                                                             *)
(***************************************************************************)
LedgerSpec == Ledger!Spec
=============================================================================
