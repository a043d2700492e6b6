------------------------ MODULE ClaimLifecycleProofs ------------------------
(***************************************************************************)
(* Theorems about ClaimLifecycle, for any number of claims, domains,       *)
(* handlers, cleaners, processes and faults.                               *)
(***************************************************************************)
EXTENDS ClaimLifecycle, TLAPS

-----------------------------------------------------------------------------
(* Control: what the position of a thread says about the lock, its claim   *)
(* and its kind.                                                           *)

Attempt == PrepareSteps \cup UnprepareSteps

Critical == Attempt \ {"pLock", "uLock"}

Control ==
  \A t \in Threads :
     /\ pc[t] \in Attempt => arg[t] \in Claims
     /\ pc[t] \in Critical => lock = t
     /\ t \in Cleaners => pc[t] \notin PrepareSteps

-----------------------------------------------------------------------------
(* Type correctness.                                                       *)

\* The part of TypeOK that the end of an attempt touches.
WorkType ==
  /\ lock \in Threads \cup {None}
  /\ pc \in [Threads -> Steps]
  /\ arg \in [Threads -> Claims \cup {None}]
  /\ snap \in [Threads -> [Claims -> ClaimStates]]
  /\ stale \in [Cleaners -> SUBSET Claims]
  /\ kubelet \in [Claims -> KubeletStates]

\* Done keeps the types, whatever result the kubelet is told.
LEMMA DoneType ==
  ASSUME TypeOK, NEW t \in Threads, NEW result \in KubeletStates,
         Done(t, result)
  PROVE  WorkType'
  BY DEF TypeOK, Done, WorkType, Steps, PrepareSteps, UnprepareSteps, Blank,
         ClaimStates

\* Retry keeps the types.
LEMMA RetryType ==
  ASSUME TypeOK, NEW t \in Threads, Retry(t)
  PROVE  WorkType'
  <1>1. CASE t \in Cleaners
    BY <1>1, DoneType DEF Retry, KubeletStates
  <1>2. CASE t \notin Cleaners
    <2>1. Blank \in [Claims -> ClaimStates]
      BY DEF Blank, ClaimStates
    <2>2. {"pLock", "uLock"} \subseteq Steps
      BY DEF Steps, PrepareSteps, UnprepareSteps
    <2>3. QED
      <3>1. /\ lock' = None
            /\ pc' = [pc EXCEPT ![t] = IF pc[t] \in PrepareSteps
                                         THEN "pLock" ELSE "uLock"]
            /\ snap' = [snap EXCEPT ![t] = Blank]
            /\ UNCHANGED <<arg, stale, kubelet>>
        BY <1>2 DEF Retry
      <3>2. QED
        BY <3>1, <2>1, <2>2 DEF TypeOK, WorkType
  <1>3. QED
    BY <1>1, <1>2

\* Goto keeps the types.
LEMMA GotoType ==
  ASSUME TypeOK, NEW t \in Threads, NEW step \in Steps, Goto(t, step),
         UNCHANGED <<lock, kubelet>>
  PROVE  WorkType'
  BY DEF TypeOK, Goto, WorkType

\* The death of a process keeps the types.
LEMMA DiesType ==
  ASSUME TypeOK, NEW p \in Procs, NEW how \in ProcStates, Dies(p, how)
  PROVE  /\ WorkType'
         /\ proc' \in [Procs -> ProcStates]
         /\ sweep' \in [Procs -> Domains \cup {None}]
  BY DEF TypeOK, Dies, WorkType, Steps, Blank, ClaimStates, KubeletStates

\* The initial states are well typed.
LEMMA TypeInit == Init => TypeOK
  <1>. SUFFICES ASSUME Init PROVE TypeOK
    OBVIOUS
  <1>1. \A c \in Claims : OldState(c) \in ClaimStates
    BY DEF OldState, ClaimStates
  <1>2. label \in Domains \cup {None}
    BY ConstantsAssumption DEF Init, OldClaims
  <1>3. kubelet \in [Claims -> KubeletStates]
    BY DEF Init, KubeletStates
  <1>4. configDir \subseteq Domains
    BY ConstantsAssumption DEF Init, OldClaims
  <1>5. QED
    BY <1>1, <1>2, <1>3, <1>4, ConstantsAssumption
    DEF Init, TypeOK, DomainStates, ProcStates, Steps, Blank, ClaimStates,
        Threads

\* Every step keeps the types; the domain of a claim is one because of Control.
LEMMA TypeStep == TypeOK /\ Control /\ [Next]_vars => TypeOK'
  <1>. SUFFICES ASSUME TypeOK, Control, [Next]_vars PROVE TypeOK'
    OBVIOUS
  <1>. USE ConstantsAssumption
       DEF vars, api, disk, procs, work, TypeOK, WorkType, Steps,
           PrepareSteps, UnprepareSteps
  <1>1. ASSUME NEW t \in Handlers, NEW c \in Claims, PrepareResourceClaims(t, c)
        PROVE  TypeOK'
    BY <1>1 DEF PrepareResourceClaims, KubeletStates, Threads
  <1>2. ASSUME NEW t \in Handlers, NEW c \in Claims, UnprepareResourceClaims(t, c)
        PROVE  TypeOK'
    BY <1>2 DEF UnprepareResourceClaims, KubeletStates, Threads
  <1>3. ASSUME NEW t \in Threads, Acquire(t) PROVE TypeOK'
    BY <1>3 DEF Acquire, Goto
  <1>4. ASSUME NEW t \in Threads, ReadCheckpoint(t) PROVE TypeOK'
    BY <1>4 DEF ReadCheckpoint
  <1>5. ASSUME NEW t \in Threads, PrepareCheck(t) PROVE TypeOK'
    BY <1>5, DoneType, RetryType, GotoType, DiesType
    DEF PrepareCheck, KubeletStates, ProcStates
  <1>6. ASSUME NEW t \in Threads, PrepareStarted(t) PROVE TypeOK'
    BY <1>6 DEF PrepareStarted, WriteCheckpoint, Blank, ClaimStates
  <1>7. ASSUME NEW t \in Threads, ApplyChannelConfig(t) PROVE TypeOK'
    BY <1>7, DoneType, RetryType, GotoType
    DEF ApplyChannelConfig, KubeletStates
  <1>8. ASSUME NEW t \in Threads, ApplyDaemonConfig(t) PROVE TypeOK'
    BY <1>8, RetryType, GotoType DEF ApplyDaemonConfig, Control, Attempt
  <1>9. ASSUME NEW t \in Threads, AddNodeLabel(t) PROVE TypeOK'
    BY <1>9, RetryType, GotoType DEF AddNodeLabel, Control, Attempt
  <1>10. ASSUME NEW t \in Threads, AssertComputeDomainReady(t) PROVE TypeOK'
    BY <1>10, RetryType, GotoType DEF AssertComputeDomainReady
  <1>10a. ASSUME NEW t \in Threads, ConfigResultsMapFails(t)
        PROVE  TypeOK'
    BY <1>10a, DoneType, RetryType DEF ConfigResultsMapFails, KubeletStates
  <1>11. ASSUME NEW t \in Threads, CreateClaimSpecFile(t) PROVE TypeOK'
    BY <1>11, GotoType DEF CreateClaimSpecFile, Control, Attempt
  <1>12. ASSUME NEW t \in Threads, PrepareCompleted(t) PROVE TypeOK'
    BY <1>12, DoneType
    DEF PrepareCompleted, WriteCheckpoint, KubeletStates, ClaimStates
  <1>13. ASSUME NEW t \in Threads, UnprepareFind(t) PROVE TypeOK'
    BY <1>13, DoneType, GotoType DEF UnprepareFind, KubeletStates
  <1>14. ASSUME NEW t \in Threads, UnprepareDevices(t) PROVE TypeOK'
    BY <1>14, GotoType DEF UnprepareDevices, WithoutLabel
  <1>15. ASSUME NEW t \in Threads, DeleteClaimSpecFile(t) PROVE TypeOK'
    BY <1>15, GotoType DEF DeleteClaimSpecFile
  <1>16. ASSUME NEW t \in Threads, DeleteClaimFromCheckpoint(t) PROVE TypeOK'
    BY <1>16, DoneType
    DEF DeleteClaimFromCheckpoint, WriteCheckpoint, KubeletStates, ClaimStates
  <1>17. ASSUME NEW t \in Threads, CheckpointFails(t) PROVE TypeOK'
    BY <1>17, RetryType DEF CheckpointFails, Fault
  <1>18. ASSUME NEW t \in Threads, NodeUpdateFails(t) PROVE TypeOK'
    BY <1>18, RetryType
    DEF NodeUpdateFails, WithoutLabel, Fault, Control, Attempt
  <1>19. ASSUME NEW t \in Threads, SpecFileFails(t) PROVE TypeOK'
    BY <1>19, RetryType DEF SpecFileFails, Fault
  <1>20. ASSUME NEW t \in Handlers, GiveUp(t) PROVE TypeOK'
    BY <1>20 DEF GiveUp, KubeletStates
  <1>21. ASSUME NEW k \in Cleaners, AcquireTimeout(k) PROVE TypeOK'
    BY <1>21 DEF AcquireTimeout, Fault, Threads
  <1>22. ASSUME NEW k \in Cleaners, Cleanup(k) PROVE TypeOK'
    BY <1>22 DEF Cleanup
  <1>23. ASSUME NEW k \in Cleaners, CleanupDone(k) PROVE TypeOK'
    BY <1>23 DEF CleanupDone, Goto
  <1>24. ASSUME NEW k \in Cleaners, NEW c \in Claims, UnprepareIfStale(k, c)
        PROVE  TypeOK'
    <2>1. UNCHANGED <<live, kubelet, cdState, ready, label, checkpoint, cdi,
                      configDir, proc, known, sweep, lock, snap, faults>>
      BY <1>24 DEF UnprepareIfStale
    <2>2. stale' \in [Cleaners -> SUBSET Claims]
      BY <1>24 DEF UnprepareIfStale
    <2>3. pc' \in [Threads -> Steps]
      BY <1>24 DEF UnprepareIfStale
    <2>4. arg' \in [Threads -> Claims \cup {None}]
      <3>1. arg' = arg \/ arg' = [arg EXCEPT ![k] = c]
        BY <1>24 DEF UnprepareIfStale
      <3>2. arg \in [Threads -> Claims \cup {None}] /\ c \in Claims
        BY <1>24
      <3>3. QED
        BY <3>1, <3>2
    <2>5. QED
      BY <2>1, <2>2, <2>3, <2>4
  <1>25. ASSUME NEW k \in Cleaners, NEW c \in Claims, LookupFails(k, c)
        PROVE  TypeOK'
    BY <1>25 DEF LookupFails, Fault
  <1>26. ASSUME NEW p \in Procs, Restart(p) PROVE TypeOK'
    BY <1>26 DEF Restart, ProcStates
  <1>27. ASSUME NEW p \in Procs, CacheSync(p) PROVE TypeOK'
    BY <1>27 DEF CacheSync, ProcStates
  <1>28. ASSUME NEW p \in Procs, Crash(p) PROVE TypeOK'
    BY <1>28, DiesType DEF Crash, Fault, ProcStates
  <1>29. ASSUME NEW p \in Procs, SweepRemove(p) PROVE TypeOK'
    BY <1>29 DEF SweepRemove
  <1>30. ASSUME NEW p \in Procs, NEW d \in Domains, SweepLookup(p, d)
        PROVE  TypeOK'
    BY <1>30 DEF SweepLookup
  <1>31. ASSUME NEW d \in Domains, CreateComputeDomain(d) PROVE TypeOK'
    BY <1>31 DEF CreateComputeDomain, DomainStates
  <1>32. ASSUME NEW d \in Domains, DeleteComputeDomain(d) PROVE TypeOK'
    BY <1>32 DEF DeleteComputeDomain, DomainStates
  <1>33. ASSUME NEW d \in Domains, RemoveComputeDomainLabel(d) PROVE TypeOK'
    BY <1>33 DEF RemoveComputeDomainLabel
  <1>34. ASSUME NEW d \in Domains, RemoveFinalizer(d) PROVE TypeOK'
    BY <1>34 DEF RemoveFinalizer, DomainStates
  <1>35. ASSUME NEW d \in Domains, NodeReady(d) PROVE TypeOK'
    BY <1>35 DEF NodeReady
  <1>36. ASSUME NEW d \in Domains, NodeNotReady(d) PROVE TypeOK'
    BY <1>36 DEF NodeNotReady
  <1>37. ASSUME NEW c \in Claims, DeleteClaim(c) PROVE TypeOK'
    BY <1>37 DEF DeleteClaim
  <1>38. CASE UNCHANGED vars
    BY <1>38
  <1>39. QED
    BY <1>1, <1>2, <1>3, <1>4, <1>5, <1>6, <1>7, <1>8, <1>9, <1>10, <1>10a, <1>11,
        <1>12, <1>13, <1>14, <1>15, <1>16, <1>17, <1>18, <1>19, <1>20, <1>21,
        <1>22, <1>23, <1>24, <1>25, <1>26, <1>27, <1>28, <1>29, <1>30, <1>31,
        <1>32, <1>33, <1>34, <1>35, <1>36, <1>37, <1>38
    DEF Next, KubeletStep, ThreadStep, FaultStep, PrepareStep, UnprepareStep,
        CleanerStep, ProcessStep, ClusterStep, Threads

-----------------------------------------------------------------------------
(* The steps of the cluster, of the informers and of the directory         *)
(* cleanup leave claims, threads and the lock alone.                       *)

EnvStep ==
  \/ \E p \in Procs : ProcessStep(p) \/ SweepRemove(p)
  \/ \E p \in Procs, d \in Domains : SweepLookup(p, d)
  \/ ClusterStep

LEMMA EnvQuiet ==
  ASSUME EnvStep
  PROVE  /\ UNCHANGED <<kubelet, checkpoint, cdi, lock, pc, arg, snap, stale>>
         /\ live' \subseteq live
         /\ label' \in {label, None}
  BY DEF EnvStep, ProcessStep, ClusterStep, Restart, CacheSync, SweepRemove,
         SweepLookup, CreateComputeDomain, DeleteComputeDomain,
         RemoveComputeDomainLabel, RemoveFinalizer, NodeReady, NodeNotReady,
         DeleteClaim, api, disk, procs, work

\* Only the holder of pu.lock is inside an attempt.
LEMMA ControlInit == Init => Control
  BY DEF Init, Control, Attempt, Critical, PrepareSteps, UnprepareSteps

\* ... and every step keeps it.
LEMMA ControlStep == TypeOK /\ Control /\ [Next]_vars => Control'
  <1>. SUFFICES ASSUME TypeOK, Control, [Next]_vars
                PROVE  Control'
    OBVIOUS
  <1>. USE ConstantsAssumption DEF vars, api, disk, procs, work, TypeOK,
         Control, Attempt, Critical, Threads, Steps, PrepareSteps,
         UnprepareSteps
  <1>1. ASSUME NEW t \in Handlers, NEW c \in Claims, PrepareResourceClaims(t, c)
        PROVE  Control'
    BY <1>1 DEF PrepareResourceClaims
  <1>2. ASSUME NEW t \in Handlers, NEW c \in Claims, UnprepareResourceClaims(t, c)
        PROVE  Control'
    BY <1>2 DEF UnprepareResourceClaims
  <1>3. ASSUME NEW t \in Threads, Acquire(t) PROVE Control'
    BY <1>3 DEF Acquire, Goto
  <1>4. ASSUME NEW t \in Threads, ReadCheckpoint(t) PROVE Control'
    BY <1>4 DEF ReadCheckpoint
  <1>5. ASSUME NEW t \in Threads, PrepareCheck(t) PROVE Control'
    BY <1>5 DEF PrepareCheck, Goto, Retry, Done, Dies
  <1>6. ASSUME NEW t \in Threads, PrepareStarted(t) PROVE Control'
    BY <1>6 DEF PrepareStarted, WriteCheckpoint
  <1>7. ASSUME NEW t \in Threads, ApplyChannelConfig(t) PROVE Control'
    BY <1>7 DEF ApplyChannelConfig, Goto, Retry, Done
  <1>8. ASSUME NEW t \in Threads, ApplyDaemonConfig(t) PROVE Control'
    BY <1>8 DEF ApplyDaemonConfig, Goto, Retry, Done
  <1>9. ASSUME NEW t \in Threads, AddNodeLabel(t) PROVE Control'
    BY <1>9 DEF AddNodeLabel, Goto, Retry, Done
  <1>10. ASSUME NEW t \in Threads, AssertComputeDomainReady(t) PROVE Control'
    BY <1>10 DEF AssertComputeDomainReady, Goto, Retry, Done
  <1>10a. ASSUME NEW t \in Threads, ConfigResultsMapFails(t)
        PROVE  Control'
    BY <1>10a DEF ConfigResultsMapFails, Retry, Done
  <1>11. ASSUME NEW t \in Threads, CreateClaimSpecFile(t) PROVE Control'
    BY <1>11 DEF CreateClaimSpecFile, Goto
  <1>12. ASSUME NEW t \in Threads, PrepareCompleted(t) PROVE Control'
    BY <1>12 DEF PrepareCompleted, Done, WriteCheckpoint
  <1>13. ASSUME NEW t \in Threads, UnprepareFind(t) PROVE Control'
    BY <1>13 DEF UnprepareFind, Goto, Done
  <1>14. ASSUME NEW t \in Threads, UnprepareDevices(t) PROVE Control'
    BY <1>14 DEF UnprepareDevices, Goto, WithoutLabel
  <1>15. ASSUME NEW t \in Threads, DeleteClaimSpecFile(t) PROVE Control'
    BY <1>15 DEF DeleteClaimSpecFile, Goto
  <1>16. ASSUME NEW t \in Threads, DeleteClaimFromCheckpoint(t) PROVE Control'
    BY <1>16 DEF DeleteClaimFromCheckpoint, Done, WriteCheckpoint
  <1>17. ASSUME NEW t \in Threads, CheckpointFails(t) PROVE Control'
    BY <1>17 DEF CheckpointFails, Retry, Done
  <1>18. ASSUME NEW t \in Threads, NodeUpdateFails(t) PROVE Control'
    BY <1>18 DEF NodeUpdateFails, Retry, Done, WithoutLabel
  <1>19. ASSUME NEW t \in Threads, SpecFileFails(t) PROVE Control'
    BY <1>19 DEF SpecFileFails, Retry, Done
  <1>20. ASSUME NEW t \in Handlers, GiveUp(t) PROVE Control'
    BY <1>20 DEF GiveUp
  <1>21. ASSUME NEW k \in Cleaners, AcquireTimeout(k) PROVE Control'
    BY <1>21 DEF AcquireTimeout
  <1>22. ASSUME NEW k \in Cleaners, Cleanup(k) PROVE Control'
    BY <1>22 DEF Cleanup
  <1>23. ASSUME NEW k \in Cleaners, CleanupDone(k) PROVE Control'
    BY <1>23 DEF CleanupDone, Goto
  <1>24. ASSUME NEW k \in Cleaners, NEW c \in Claims, UnprepareIfStale(k, c)
        PROVE  Control'
    BY <1>24 DEF UnprepareIfStale, IsStale
  <1>25. ASSUME NEW k \in Cleaners, NEW c \in Claims, LookupFails(k, c)
        PROVE  Control'
    BY <1>25 DEF LookupFails
  <1>26. ASSUME NEW p \in Procs, Crash(p) PROVE Control'
    BY <1>26 DEF Crash, Dies
  <1>27. CASE EnvStep
    BY <1>27, EnvQuiet
  <1>28. CASE UNCHANGED vars
    BY <1>28
  <1>29. QED
    BY <1>1, <1>2, <1>3, <1>4, <1>5, <1>6, <1>7, <1>8, <1>9, <1>10, <1>10a, <1>11,
        <1>12, <1>13, <1>14, <1>15, <1>16, <1>17, <1>18, <1>19, <1>20, <1>21,
        <1>22, <1>23, <1>24, <1>25, <1>26, <1>27, <1>28
    DEF Next, KubeletStep, ThreadStep, FaultStep, PrepareStep, UnprepareStep,
        CleanerStep, EnvStep, Threads

-----------------------------------------------------------------------------
(* The checkpoint: what a thread in the middle of an attempt knows of it.  *)

Preparing == {"pStartR", "pStartW", "pApply", "pLabel", "pReady", "pCDI",
              "pDoneR", "pDoneW"}
Started   == Preparing \ {"pStartR", "pStartW"}
Granting  == Started \ {"pApply"}

Preparation ==
  \A t \in Threads :
     /\ pc[t] \in Preparing => /\ ~ Prepared(arg[t])
                               /\ Overlapping(arg[t]) = {}
                               /\ NilAllocations(arg[t]) = {}
     /\ pc[t] \in Started => checkpoint[arg[t]] = "started"
     /\ pc[t] \in {"pLabel", "pReady"} => arg[t] \in ChannelClaims
     /\ (pc[t] \in Granting /\ arg[t] \in ChannelClaims) => ~ ChannelAllocated

\* What a thread is about to write back is what the file holds.
LEMMA NoLostUpdateInit == Init => NoLostUpdate
  BY DEF Init, NoLostUpdate

\* ... and every step keeps it.
LEMMA NoLostUpdateStep ==
  TypeOK /\ Control /\ NoLostUpdate /\ [Next]_vars
    => NoLostUpdate'
  <1>. SUFFICES ASSUME TypeOK, Control, NoLostUpdate, [Next]_vars
                PROVE  NoLostUpdate'
    OBVIOUS
  <1>. USE ConstantsAssumption DEF vars, api, disk, procs, work, NoLostUpdate,
         TypeOK, Control, Attempt, Critical, Threads, Steps, PrepareSteps,
         UnprepareSteps
  <1>1. ASSUME NEW t \in Handlers, NEW c \in Claims, PrepareResourceClaims(t, c)
        PROVE  NoLostUpdate'
    BY <1>1 DEF PrepareResourceClaims
  <1>2. ASSUME NEW t \in Handlers, NEW c \in Claims, UnprepareResourceClaims(t, c)
        PROVE  NoLostUpdate'
    BY <1>2 DEF UnprepareResourceClaims
  <1>3. ASSUME NEW t \in Threads, Acquire(t) PROVE NoLostUpdate'
    BY <1>3 DEF Acquire, Goto
  <1>4. ASSUME NEW t \in Threads, ReadCheckpoint(t) PROVE NoLostUpdate'
    BY <1>4 DEF ReadCheckpoint
  <1>5. ASSUME NEW t \in Threads, PrepareCheck(t) PROVE NoLostUpdate'
    BY <1>5, SMTT(60) DEF PrepareCheck, Goto, Retry, Done, Dies
  <1>6. ASSUME NEW t \in Threads, PrepareStarted(t) PROVE NoLostUpdate'
    BY <1>6 DEF PrepareStarted, WriteCheckpoint
  <1>7. ASSUME NEW t \in Threads, ApplyChannelConfig(t) PROVE NoLostUpdate'
    BY <1>7 DEF ApplyChannelConfig, Goto, Retry, Done
  <1>8. ASSUME NEW t \in Threads, ApplyDaemonConfig(t) PROVE NoLostUpdate'
    BY <1>8 DEF ApplyDaemonConfig, Goto, Retry, Done
  <1>9. ASSUME NEW t \in Threads, AddNodeLabel(t) PROVE NoLostUpdate'
    BY <1>9 DEF AddNodeLabel, Goto, Retry, Done
  <1>10. ASSUME NEW t \in Threads, AssertComputeDomainReady(t)
        PROVE  NoLostUpdate'
    BY <1>10 DEF AssertComputeDomainReady, Goto, Retry, Done
  <1>10a. ASSUME NEW t \in Threads, ConfigResultsMapFails(t)
        PROVE  NoLostUpdate'
    BY <1>10a DEF ConfigResultsMapFails, Retry, Done
  <1>11. ASSUME NEW t \in Threads, CreateClaimSpecFile(t) PROVE NoLostUpdate'
    BY <1>11 DEF CreateClaimSpecFile, Goto
  <1>12. ASSUME NEW t \in Threads, PrepareCompleted(t) PROVE NoLostUpdate'
    BY <1>12 DEF PrepareCompleted, Done, WriteCheckpoint
  <1>13. ASSUME NEW t \in Threads, UnprepareFind(t) PROVE NoLostUpdate'
    BY <1>13 DEF UnprepareFind, Goto, Done
  <1>14. ASSUME NEW t \in Threads, UnprepareDevices(t) PROVE NoLostUpdate'
    BY <1>14 DEF UnprepareDevices, Goto, WithoutLabel
  <1>15. ASSUME NEW t \in Threads, DeleteClaimSpecFile(t) PROVE NoLostUpdate'
    BY <1>15 DEF DeleteClaimSpecFile, Goto
  <1>16. ASSUME NEW t \in Threads, DeleteClaimFromCheckpoint(t)
        PROVE  NoLostUpdate'
    BY <1>16 DEF DeleteClaimFromCheckpoint, Done, WriteCheckpoint
  <1>17. ASSUME NEW t \in Threads, CheckpointFails(t) PROVE NoLostUpdate'
    BY <1>17 DEF CheckpointFails, Retry, Done
  <1>18. ASSUME NEW t \in Threads, NodeUpdateFails(t) PROVE NoLostUpdate'
    BY <1>18 DEF NodeUpdateFails, Retry, Done, WithoutLabel
  <1>19. ASSUME NEW t \in Threads, SpecFileFails(t) PROVE NoLostUpdate'
    BY <1>19 DEF SpecFileFails, Retry, Done
  <1>20. ASSUME NEW t \in Handlers, GiveUp(t) PROVE NoLostUpdate'
    BY <1>20 DEF GiveUp
  <1>21. ASSUME NEW k \in Cleaners, AcquireTimeout(k) PROVE NoLostUpdate'
    BY <1>21 DEF AcquireTimeout
  <1>22. ASSUME NEW k \in Cleaners, Cleanup(k) PROVE NoLostUpdate'
    BY <1>22 DEF Cleanup
  <1>23. ASSUME NEW k \in Cleaners, CleanupDone(k) PROVE NoLostUpdate'
    BY <1>23 DEF CleanupDone, Goto
  <1>24. ASSUME NEW k \in Cleaners, NEW c \in Claims, UnprepareIfStale(k, c)
        PROVE  NoLostUpdate'
    BY <1>24 DEF UnprepareIfStale, IsStale
  <1>25. ASSUME NEW k \in Cleaners, NEW c \in Claims, LookupFails(k, c)
        PROVE  NoLostUpdate'
    BY <1>25 DEF LookupFails
  <1>26. ASSUME NEW p \in Procs, Crash(p) PROVE NoLostUpdate'
    BY <1>26 DEF Crash, Dies
  <1>27. CASE EnvStep
    BY <1>27, EnvQuiet
  <1>28. CASE UNCHANGED vars
    BY <1>28
  <1>29. QED
    BY <1>1, <1>2, <1>3, <1>4, <1>5, <1>6, <1>7, <1>8, <1>9, <1>10, <1>10a, <1>11,
        <1>12, <1>13, <1>14, <1>15, <1>16, <1>17, <1>18, <1>19, <1>20, <1>21,
        <1>22, <1>23, <1>24, <1>25, <1>26, <1>27, <1>28
    DEF Next, KubeletStep, ThreadStep, FaultStep, PrepareStep, UnprepareStep,
        CleanerStep, EnvStep, Threads

\* What the checks at the start of an attempt found still holds later.
LEMMA PreparationInit == Init => Preparation
  BY DEF Init, Preparation, Preparing, Started, Granting

\* ... and every step keeps it.
LEMMA PreparationStep ==
  TypeOK /\ Control /\ NoLostUpdate /\ Preparation /\ [Next]_vars
    => Preparation'
  <1>. SUFFICES ASSUME TypeOK, Control, NoLostUpdate, Preparation, [Next]_vars
                PROVE  Preparation'
    OBVIOUS
  <1>. USE ConstantsAssumption DEF vars, api, disk, procs, work, NoLostUpdate,
         Preparation, Preparing, Started, Granting, Prepared, Overlapping,
         NilAllocations, ChannelAllocated, Device, TypeOK, Control, Attempt,
         Critical, Threads, Steps, PrepareSteps, UnprepareSteps
  <1>1. ASSUME NEW t \in Handlers, NEW c \in Claims, PrepareResourceClaims(t, c)
        PROVE  Preparation'
    BY <1>1 DEF PrepareResourceClaims
  <1>2. ASSUME NEW t \in Handlers, NEW c \in Claims, UnprepareResourceClaims(t, c)
        PROVE  Preparation'
    BY <1>2 DEF UnprepareResourceClaims
  <1>3. ASSUME NEW t \in Threads, Acquire(t) PROVE Preparation'
    BY <1>3 DEF Acquire, Goto
  <1>4. ASSUME NEW t \in Threads, ReadCheckpoint(t) PROVE Preparation'
    BY <1>4 DEF ReadCheckpoint
  <1>5. ASSUME NEW t \in Threads, PrepareCheck(t) PROVE Preparation'
    BY <1>5 DEF PrepareCheck, Goto, Retry, Done, Dies
  <1>6. ASSUME NEW t \in Threads, PrepareStarted(t) PROVE Preparation'
    BY <1>6 DEF PrepareStarted, WriteCheckpoint
  <1>7. ASSUME NEW t \in Threads, ApplyChannelConfig(t) PROVE Preparation'
    BY <1>7 DEF ApplyChannelConfig, Goto, Retry, Done
  <1>8. ASSUME NEW t \in Threads, ApplyDaemonConfig(t) PROVE Preparation'
    BY <1>8 DEF ApplyDaemonConfig, Goto, Retry, Done
  <1>9. ASSUME NEW t \in Threads, AddNodeLabel(t) PROVE Preparation'
    BY <1>9 DEF AddNodeLabel, Goto, Retry, Done
  <1>10. ASSUME NEW t \in Threads, AssertComputeDomainReady(t)
        PROVE  Preparation'
    BY <1>10 DEF AssertComputeDomainReady, Goto, Retry, Done
  <1>10a. ASSUME NEW t \in Threads, ConfigResultsMapFails(t)
        PROVE  Preparation'
    BY <1>10a DEF ConfigResultsMapFails, Retry, Done
  <1>11. ASSUME NEW t \in Threads, CreateClaimSpecFile(t) PROVE Preparation'
    BY <1>11 DEF CreateClaimSpecFile, Goto
  <1>12. ASSUME NEW t \in Threads, PrepareCompleted(t) PROVE Preparation'
    <2>1. \A u \in Threads : pc'[u] \notin Critical
      BY <1>12 DEF PrepareCompleted, Done
    <2>2. Preparing \subseteq Critical
      OBVIOUS
    <2>3. QED
      BY <2>1, <2>2 DEF Preparation, Started, Granting
  <1>13. ASSUME NEW t \in Threads, UnprepareFind(t) PROVE Preparation'
    BY <1>13 DEF UnprepareFind, Goto, Done
  <1>14. ASSUME NEW t \in Threads, UnprepareDevices(t) PROVE Preparation'
    BY <1>14 DEF UnprepareDevices, Goto, WithoutLabel
  <1>15. ASSUME NEW t \in Threads, DeleteClaimSpecFile(t) PROVE Preparation'
    BY <1>15 DEF DeleteClaimSpecFile, Goto
  <1>16. ASSUME NEW t \in Threads, DeleteClaimFromCheckpoint(t)
        PROVE  Preparation'
    <2>1. \A u \in Threads : pc'[u] \notin Critical
      BY <1>16 DEF DeleteClaimFromCheckpoint, Done
    <2>2. Preparing \subseteq Critical
      OBVIOUS
    <2>3. QED
      BY <2>1, <2>2 DEF Preparation, Started, Granting
  <1>17. ASSUME NEW t \in Threads, CheckpointFails(t) PROVE Preparation'
    BY <1>17 DEF CheckpointFails, Retry, Done
  <1>18. ASSUME NEW t \in Threads, NodeUpdateFails(t) PROVE Preparation'
    BY <1>18 DEF NodeUpdateFails, Retry, Done, WithoutLabel
  <1>19. ASSUME NEW t \in Threads, SpecFileFails(t) PROVE Preparation'
    BY <1>19 DEF SpecFileFails, Retry, Done
  <1>20. ASSUME NEW t \in Handlers, GiveUp(t) PROVE Preparation'
    BY <1>20 DEF GiveUp
  <1>21. ASSUME NEW k \in Cleaners, AcquireTimeout(k) PROVE Preparation'
    BY <1>21 DEF AcquireTimeout
  <1>22. ASSUME NEW k \in Cleaners, Cleanup(k) PROVE Preparation'
    BY <1>22 DEF Cleanup
  <1>23. ASSUME NEW k \in Cleaners, CleanupDone(k) PROVE Preparation'
    BY <1>23 DEF CleanupDone, Goto
  <1>24. ASSUME NEW k \in Cleaners, NEW c \in Claims, UnprepareIfStale(k, c)
        PROVE  Preparation'
    BY <1>24 DEF UnprepareIfStale, IsStale
  <1>25. ASSUME NEW k \in Cleaners, NEW c \in Claims, LookupFails(k, c)
        PROVE  Preparation'
    BY <1>25 DEF LookupFails
  <1>26. ASSUME NEW p \in Procs, Crash(p) PROVE Preparation'
    BY <1>26 DEF Crash, Dies
  <1>27. CASE EnvStep
    BY <1>27, EnvQuiet
  <1>28. CASE UNCHANGED vars
    BY <1>28
  <1>29. QED
    BY <1>1, <1>2, <1>3, <1>4, <1>5, <1>6, <1>7, <1>8, <1>9, <1>10, <1>10a, <1>11,
        <1>12, <1>13, <1>14, <1>15, <1>16, <1>17, <1>18, <1>19, <1>20, <1>21,
        <1>22, <1>23, <1>24, <1>25, <1>26, <1>27, <1>28
    DEF Next, KubeletStep, ThreadStep, FaultStep, PrepareStep, UnprepareStep,
        CleanerStep, EnvStep, Threads

-----------------------------------------------------------------------------
(* The node: what an Unprepare has already removed.                        *)

Removal ==
  \A t \in Threads :
     /\ pc[t] \in {"uDelR", "uDelW"} => arg[t] \notin cdi
     /\ (pc[t] \in {"uCDI", "uDelR", "uDelW"} /\ arg[t] \in ChannelClaims)
          => label # DomainOf[arg[t]]

\* A failed attempt moves its own thread out of the critical steps only.
LEMMA RetryMoves ==
  ASSUME TypeOK, NEW t \in Threads, Retry(t)
  PROVE  /\ \A u \in Threads \ {t} : pc'[u] = pc[u] /\ arg'[u] = arg[u]
         /\ pc'[t] \in {"pLock", "uLock", "cNext"}
  <1>1. CASE t \in Cleaners
    BY <1>1 DEF TypeOK, Retry, Done
  <1>2. CASE t \notin Cleaners
    BY <1>2 DEF TypeOK, Retry
  <1>3. QED
    BY <1>1, <1>2

\* Nobody else adds the label or the CDI file back.
LEMMA RemovalInit == Init => Removal
  BY DEF Init, Removal

\* ... and every step keeps it.
LEMMA RemovalStep == TypeOK /\ Control /\ Removal /\ [Next]_vars => Removal'
  <1>. SUFFICES ASSUME TypeOK, Control, Removal, [Next]_vars
                PROVE  Removal'
    OBVIOUS
  <1>. USE ConstantsAssumption DEF vars, api, disk, procs, work, Removal,
         TypeOK, Control, Attempt, Critical, Threads, Steps, PrepareSteps,
         UnprepareSteps
  <1>1. ASSUME NEW t \in Handlers, NEW c \in Claims, PrepareResourceClaims(t, c)
        PROVE  Removal'
    BY <1>1 DEF PrepareResourceClaims
  <1>2. ASSUME NEW t \in Handlers, NEW c \in Claims, UnprepareResourceClaims(t, c)
        PROVE  Removal'
    BY <1>2 DEF UnprepareResourceClaims
  <1>3. ASSUME NEW t \in Threads, Acquire(t) PROVE Removal'
    BY <1>3 DEF Acquire, Goto
  <1>4. ASSUME NEW t \in Threads, ReadCheckpoint(t) PROVE Removal'
    BY <1>4 DEF ReadCheckpoint
  <1>5. ASSUME NEW t \in Threads, PrepareCheck(t) PROVE Removal'
    BY <1>5 DEF PrepareCheck, Goto, Retry, Done, Dies
  <1>6. ASSUME NEW t \in Threads, PrepareStarted(t) PROVE Removal'
    BY <1>6 DEF PrepareStarted, WriteCheckpoint
  <1>7. ASSUME NEW t \in Threads, ApplyChannelConfig(t) PROVE Removal'
    BY <1>7 DEF ApplyChannelConfig, Goto, Retry, Done
  <1>8. ASSUME NEW t \in Threads, ApplyDaemonConfig(t) PROVE Removal'
    BY <1>8 DEF ApplyDaemonConfig, Goto, Retry, Done
  <1>9. ASSUME NEW t \in Threads, AddNodeLabel(t) PROVE Removal'
    BY <1>9 DEF AddNodeLabel, Goto, Retry, Done
  <1>10. ASSUME NEW t \in Threads, AssertComputeDomainReady(t) PROVE Removal'
    BY <1>10 DEF AssertComputeDomainReady, Goto, Retry, Done
  <1>10a. ASSUME NEW t \in Threads, ConfigResultsMapFails(t)
        PROVE  Removal'
    BY <1>10a DEF ConfigResultsMapFails, Retry, Done
  <1>11. ASSUME NEW t \in Threads, CreateClaimSpecFile(t) PROVE Removal'
    BY <1>11 DEF CreateClaimSpecFile, Goto
  <1>12. ASSUME NEW t \in Threads, PrepareCompleted(t) PROVE Removal'
    BY <1>12 DEF PrepareCompleted, Done, WriteCheckpoint
  <1>13. ASSUME NEW t \in Threads, UnprepareFind(t) PROVE Removal'
    BY <1>13, SMTT(60) DEF UnprepareFind, Goto, Done
  <1>14. ASSUME NEW t \in Threads, UnprepareDevices(t) PROVE Removal'
    BY <1>14 DEF UnprepareDevices, Goto, WithoutLabel
  <1>15. ASSUME NEW t \in Threads, DeleteClaimSpecFile(t) PROVE Removal'
    BY <1>15 DEF DeleteClaimSpecFile, Goto
  <1>16. ASSUME NEW t \in Threads, DeleteClaimFromCheckpoint(t) PROVE Removal'
    BY <1>16 DEF DeleteClaimFromCheckpoint, Done, WriteCheckpoint
  <1>17. ASSUME NEW t \in Threads, CheckpointFails(t) PROVE Removal'
    BY <1>17, RetryMoves DEF CheckpointFails
  <1>18. ASSUME NEW t \in Threads, NodeUpdateFails(t) PROVE Removal'
    <2>1. Retry(t) /\ pc[t] \in Critical
      BY <1>18 DEF NodeUpdateFails
    <2>2. \A u \in Threads : pc'[u] \notin {"uCDI", "uDelR", "uDelW"}
      BY <2>1, RetryMoves
    <2>3. QED
      BY <2>2
  <1>19. ASSUME NEW t \in Threads, SpecFileFails(t) PROVE Removal'
    BY <1>19 DEF SpecFileFails, Retry, Done
  <1>20. ASSUME NEW t \in Handlers, GiveUp(t) PROVE Removal'
    BY <1>20 DEF GiveUp
  <1>21. ASSUME NEW k \in Cleaners, AcquireTimeout(k) PROVE Removal'
    BY <1>21 DEF AcquireTimeout
  <1>22. ASSUME NEW k \in Cleaners, Cleanup(k) PROVE Removal'
    BY <1>22 DEF Cleanup
  <1>23. ASSUME NEW k \in Cleaners, CleanupDone(k) PROVE Removal'
    BY <1>23 DEF CleanupDone, Goto
  <1>24. ASSUME NEW k \in Cleaners, NEW c \in Claims, UnprepareIfStale(k, c)
        PROVE  Removal'
    BY <1>24 DEF UnprepareIfStale, IsStale
  <1>25. ASSUME NEW k \in Cleaners, NEW c \in Claims, LookupFails(k, c)
        PROVE  Removal'
    BY <1>25 DEF LookupFails
  <1>26. ASSUME NEW p \in Procs, Crash(p) PROVE Removal'
    BY <1>26 DEF Crash, Dies
  <1>27. CASE EnvStep
    BY <1>27, EnvQuiet
  <1>28. CASE UNCHANGED vars
    BY <1>28
  <1>29. QED
    BY <1>1, <1>2, <1>3, <1>4, <1>5, <1>6, <1>7, <1>8, <1>9, <1>10, <1>10a, <1>11,
        <1>12, <1>13, <1>14, <1>15, <1>16, <1>17, <1>18, <1>19, <1>20, <1>21,
        <1>22, <1>23, <1>24, <1>25, <1>26, <1>27, <1>28
    DEF Next, KubeletStep, ThreadStep, FaultStep, PrepareStep, UnprepareStep,
        CleanerStep, EnvStep, Threads

\* The label and the CDI files have their checkpoint entries.
LEMMA NothingUntrackedInit == Init => NothingUntracked
  <1>. SUFFICES ASSUME Init PROVE NothingUntracked
    OBVIOUS
  <1>. USE ConstantsAssumption DEF Init
  <1>1. \A c \in cdi : checkpoint[c] # "absent"
    BY DEF OldState
  <1>2. label # None => \E c \in ChannelClaims : /\ DomainOf[c] = label
                                                /\ checkpoint[c] # "absent"
    <2>. DEFINE old == CHOOSE c \in OldClaims \cap ChannelClaims : TRUE
    <2>. HAVE label # None
    <2>1. old \in OldClaims \cap ChannelClaims /\ label = DomainOf[old]
      OBVIOUS
    <2>. HIDE DEF old
    <2>2. checkpoint[old] # "absent"
      BY <2>1 DEF OldClaims, OldState
    <2>3. QED
      BY <2>1, <2>2
  <1>3. QED
    BY <1>1, <1>2 DEF NothingUntracked

\* ... and every step keeps it.
LEMMA NothingUntrackedStep ==
  TypeOK /\ Control /\ NoLostUpdate /\ Preparation /\ Removal /\ NothingUntracked /\ [Next]_vars
    => NothingUntracked'
  <1>. SUFFICES ASSUME TypeOK, Control, NoLostUpdate, Preparation, Removal, NothingUntracked, [Next]_vars
                PROVE  NothingUntracked'
    OBVIOUS
  <1>. USE ConstantsAssumption DEF vars, api, disk, procs, work, NoLostUpdate,
         Preparation, Preparing, Started, Granting, Removal, NothingUntracked,
         TypeOK, Control, Attempt, Critical, Threads, Steps, PrepareSteps,
         UnprepareSteps
  <1>1. ASSUME NEW t \in Handlers, NEW c \in Claims, PrepareResourceClaims(t, c)
        PROVE  NothingUntracked'
    BY <1>1 DEF PrepareResourceClaims
  <1>2. ASSUME NEW t \in Handlers, NEW c \in Claims, UnprepareResourceClaims(t, c)
        PROVE  NothingUntracked'
    BY <1>2 DEF UnprepareResourceClaims
  <1>3. ASSUME NEW t \in Threads, Acquire(t) PROVE NothingUntracked'
    BY <1>3 DEF Acquire, Goto
  <1>4. ASSUME NEW t \in Threads, ReadCheckpoint(t) PROVE NothingUntracked'
    BY <1>4 DEF ReadCheckpoint
  <1>5. ASSUME NEW t \in Threads, PrepareCheck(t) PROVE NothingUntracked'
    BY <1>5 DEF PrepareCheck, Goto, Retry, Done, Dies
  <1>6. ASSUME NEW t \in Threads, PrepareStarted(t) PROVE NothingUntracked'
    BY <1>6 DEF PrepareStarted, WriteCheckpoint
  <1>7. ASSUME NEW t \in Threads, ApplyChannelConfig(t)
        PROVE  NothingUntracked'
    BY <1>7 DEF ApplyChannelConfig, Goto, Retry, Done
  <1>8. ASSUME NEW t \in Threads, ApplyDaemonConfig(t) PROVE NothingUntracked'
    BY <1>8 DEF ApplyDaemonConfig, Goto, Retry, Done
  <1>9. ASSUME NEW t \in Threads, AddNodeLabel(t) PROVE NothingUntracked'
    BY <1>9 DEF AddNodeLabel, Goto, Retry, Done
  <1>10. ASSUME NEW t \in Threads, AssertComputeDomainReady(t)
        PROVE  NothingUntracked'
    BY <1>10 DEF AssertComputeDomainReady, Goto, Retry, Done
  <1>10a. ASSUME NEW t \in Threads, ConfigResultsMapFails(t)
        PROVE  NothingUntracked'
    BY <1>10a DEF ConfigResultsMapFails, Retry, Done
  <1>11. ASSUME NEW t \in Threads, CreateClaimSpecFile(t)
        PROVE  NothingUntracked'
    BY <1>11 DEF CreateClaimSpecFile, Goto
  <1>12. ASSUME NEW t \in Threads, PrepareCompleted(t) PROVE NothingUntracked'
    BY <1>12 DEF PrepareCompleted, Done, WriteCheckpoint
  <1>13. ASSUME NEW t \in Threads, UnprepareFind(t) PROVE NothingUntracked'
    BY <1>13 DEF UnprepareFind, Goto, Done
  <1>14. ASSUME NEW t \in Threads, UnprepareDevices(t) PROVE NothingUntracked'
    BY <1>14 DEF UnprepareDevices, Goto, WithoutLabel
  <1>15. ASSUME NEW t \in Threads, DeleteClaimSpecFile(t)
        PROVE  NothingUntracked'
    BY <1>15 DEF DeleteClaimSpecFile, Goto
  <1>16. ASSUME NEW t \in Threads, DeleteClaimFromCheckpoint(t)
        PROVE  NothingUntracked'
    BY <1>16 DEF DeleteClaimFromCheckpoint, Done, WriteCheckpoint
  <1>17. ASSUME NEW t \in Threads, CheckpointFails(t) PROVE NothingUntracked'
    BY <1>17 DEF CheckpointFails, Retry, Done
  <1>18. ASSUME NEW t \in Threads, NodeUpdateFails(t) PROVE NothingUntracked'
    BY <1>18 DEF NodeUpdateFails, Retry, Done, WithoutLabel
  <1>19. ASSUME NEW t \in Threads, SpecFileFails(t) PROVE NothingUntracked'
    BY <1>19 DEF SpecFileFails, Retry, Done
  <1>20. ASSUME NEW t \in Handlers, GiveUp(t) PROVE NothingUntracked'
    BY <1>20 DEF GiveUp
  <1>21. ASSUME NEW k \in Cleaners, AcquireTimeout(k) PROVE NothingUntracked'
    BY <1>21 DEF AcquireTimeout
  <1>22. ASSUME NEW k \in Cleaners, Cleanup(k) PROVE NothingUntracked'
    BY <1>22 DEF Cleanup
  <1>23. ASSUME NEW k \in Cleaners, CleanupDone(k) PROVE NothingUntracked'
    BY <1>23 DEF CleanupDone, Goto
  <1>24. ASSUME NEW k \in Cleaners, NEW c \in Claims, UnprepareIfStale(k, c)
        PROVE  NothingUntracked'
    BY <1>24 DEF UnprepareIfStale, IsStale
  <1>25. ASSUME NEW k \in Cleaners, NEW c \in Claims, LookupFails(k, c)
        PROVE  NothingUntracked'
    BY <1>25 DEF LookupFails
  <1>26. ASSUME NEW p \in Procs, Crash(p) PROVE NothingUntracked'
    BY <1>26 DEF Crash, Dies
  <1>27. CASE EnvStep
    BY <1>27, EnvQuiet
  <1>28. CASE UNCHANGED vars
    BY <1>28
  <1>29. QED
    BY <1>1, <1>2, <1>3, <1>4, <1>5, <1>6, <1>7, <1>8, <1>9, <1>10, <1>10a, <1>11,
        <1>12, <1>13, <1>14, <1>15, <1>16, <1>17, <1>18, <1>19, <1>20, <1>21,
        <1>22, <1>23, <1>24, <1>25, <1>26, <1>27, <1>28
    DEF Next, KubeletStep, ThreadStep, FaultStep, PrepareStep, UnprepareStep,
        CleanerStep, EnvStep, Threads

-----------------------------------------------------------------------------
(* The kubelet: what it believes of the claims that are being worked on.   *)

Requests ==
  /\ \A t \in Handlers : arg[t] # None => kubelet[arg[t]] = "busy"
  /\ \A t, u \in Handlers : (arg[t] = arg[u] /\ arg[t] # None) => t = u
  /\ \A k \in Cleaners : arg[k] # None => arg[k] \notin live

\* Requests holds after an attempt that ends, for good or to be retried.
LEMMA DoneRequests ==
  ASSUME TypeOK, Requests, NEW t \in Threads, arg[t] \in Claims,
         NEW result, Done(t, result), live' = live
  PROVE  Requests'
  <1>. USE ConstantsAssumption DEF TypeOK, Requests, Done, Threads
  <1>1. CASE t \in Cleaners
    BY <1>1
  <1>2. CASE t \in Handlers
    BY <1>2
  <1>3. QED
    BY <1>1, <1>2

LEMMA RetryRequests ==
  ASSUME TypeOK, Requests, NEW t \in Threads, arg[t] \in Claims,
         Retry(t), live' = live
  PROVE  Requests'
  <1>1. CASE t \in Cleaners
    BY <1>1, DoneRequests DEF Retry
  <1>2. CASE t \notin Cleaners
    BY <1>2 DEF Retry, Requests
  <1>3. QED
    BY <1>1, <1>2

\* Requests holds after the death of a process.
LEMMA DiesRequests ==
  ASSUME TypeOK, Requests, NEW p \in Procs, NEW how, Dies(p, how), live' = live
  PROVE  Requests'
  BY ConstantsAssumption DEF TypeOK, Requests, Dies, Threads

\* A claim has one request at a time, and a cleaner only gone claims.
LEMMA RequestsInit == Init => Requests
  BY ConstantsAssumption DEF Init, Requests, Threads

\* ... and every step keeps it.
LEMMA RequestsStep ==
  TypeOK /\ Control /\ Requests /\ [Next]_vars
    => Requests'
  <1>. SUFFICES ASSUME TypeOK, Control, Requests, [Next]_vars
                PROVE  Requests'
    OBVIOUS
  <1>. USE ConstantsAssumption DEF vars, api, disk, procs, work, Requests,
         TypeOK, Control, Attempt, Critical, Threads, Steps, PrepareSteps,
         UnprepareSteps
  <1>1. ASSUME NEW t \in Handlers, NEW c \in Claims, PrepareResourceClaims(t, c)
        PROVE  Requests'
    BY <1>1 DEF PrepareResourceClaims
  <1>2. ASSUME NEW t \in Handlers, NEW c \in Claims, UnprepareResourceClaims(t, c)
        PROVE  Requests'
    BY <1>2 DEF UnprepareResourceClaims
  <1>3. ASSUME NEW t \in Threads, Acquire(t) PROVE Requests'
    BY <1>3 DEF Acquire, Goto
  <1>4. ASSUME NEW t \in Threads, ReadCheckpoint(t) PROVE Requests'
    BY <1>4 DEF ReadCheckpoint
  <1>5. ASSUME NEW t \in Threads, PrepareCheck(t) PROVE Requests'
    BY <1>5, DoneRequests, RetryRequests, DiesRequests DEF PrepareCheck, Goto
  <1>6. ASSUME NEW t \in Threads, PrepareStarted(t) PROVE Requests'
    BY <1>6 DEF PrepareStarted, WriteCheckpoint
  <1>7. ASSUME NEW t \in Threads, ApplyChannelConfig(t) PROVE Requests'
    BY <1>7, DoneRequests, RetryRequests DEF ApplyChannelConfig, Goto
  <1>8. ASSUME NEW t \in Threads, ApplyDaemonConfig(t) PROVE Requests'
    BY <1>8, RetryRequests DEF ApplyDaemonConfig, Goto
  <1>9. ASSUME NEW t \in Threads, AddNodeLabel(t) PROVE Requests'
    BY <1>9, RetryRequests DEF AddNodeLabel, Goto
  <1>10. ASSUME NEW t \in Threads, AssertComputeDomainReady(t) PROVE Requests'
    BY <1>10, RetryRequests DEF AssertComputeDomainReady, Goto
  <1>10a. ASSUME NEW t \in Threads, ConfigResultsMapFails(t)
        PROVE  Requests'
    BY <1>10a, DoneRequests, RetryRequests DEF ConfigResultsMapFails
  <1>11. ASSUME NEW t \in Threads, CreateClaimSpecFile(t) PROVE Requests'
    BY <1>11 DEF CreateClaimSpecFile, Goto
  <1>12. ASSUME NEW t \in Threads, PrepareCompleted(t) PROVE Requests'
    BY <1>12, DoneRequests DEF PrepareCompleted
  <1>13. ASSUME NEW t \in Threads, UnprepareFind(t) PROVE Requests'
    BY <1>13, DoneRequests DEF UnprepareFind, Goto
  <1>14. ASSUME NEW t \in Threads, UnprepareDevices(t) PROVE Requests'
    BY <1>14 DEF UnprepareDevices, Goto, WithoutLabel
  <1>15. ASSUME NEW t \in Threads, DeleteClaimSpecFile(t) PROVE Requests'
    BY <1>15 DEF DeleteClaimSpecFile, Goto
  <1>16. ASSUME NEW t \in Threads, DeleteClaimFromCheckpoint(t)
        PROVE  Requests'
    BY <1>16, DoneRequests DEF DeleteClaimFromCheckpoint
  <1>17. ASSUME NEW t \in Threads, CheckpointFails(t) PROVE Requests'
    BY <1>17, RetryRequests DEF CheckpointFails
  <1>18. ASSUME NEW t \in Threads, NodeUpdateFails(t) PROVE Requests'
    BY <1>18, RetryRequests DEF NodeUpdateFails
  <1>19. ASSUME NEW t \in Threads, SpecFileFails(t) PROVE Requests'
    BY <1>19, RetryRequests DEF SpecFileFails
  <1>20. ASSUME NEW t \in Handlers, GiveUp(t) PROVE Requests'
    BY <1>20 DEF GiveUp
  <1>21. ASSUME NEW k \in Cleaners, AcquireTimeout(k) PROVE Requests'
    BY <1>21 DEF AcquireTimeout
  <1>22. ASSUME NEW k \in Cleaners, Cleanup(k) PROVE Requests'
    BY <1>22 DEF Cleanup
  <1>23. ASSUME NEW k \in Cleaners, CleanupDone(k) PROVE Requests'
    BY <1>23 DEF CleanupDone, Goto
  <1>24. ASSUME NEW k \in Cleaners, NEW c \in Claims, UnprepareIfStale(k, c)
        PROVE  Requests'
    <2>1. UNCHANGED <<kubelet, live>>
      BY <1>24 DEF UnprepareIfStale
    <2>2. \A u \in Threads \ {k} : arg'[u] = arg[u]
      BY <1>24 DEF UnprepareIfStale
    <2>3. arg'[k] = arg[k] \/ arg'[k] \notin live
      BY <1>24 DEF UnprepareIfStale, IsStale
    <2>4. \A t \in Handlers : arg'[t] = arg[t]
      <3>1. \A t \in Handlers : t \in Threads \ {k}
        BY <1>24
      <3>2. QED
        BY <2>2, <3>1
    <2>5. \A j \in Cleaners : arg'[j] = arg[j] \/ arg'[j] \notin live
      BY <2>2, <2>3
    <2>6. QED
      BY <2>1, <2>4, <2>5 DEF Requests
  <1>25. ASSUME NEW k \in Cleaners, NEW c \in Claims, LookupFails(k, c)
        PROVE  Requests'
    BY <1>25 DEF LookupFails
  <1>26. ASSUME NEW p \in Procs, Crash(p) PROVE Requests'
    BY <1>26, DiesRequests DEF Crash
  <1>27. CASE EnvStep
    BY <1>27, EnvQuiet
  <1>28. CASE UNCHANGED vars
    BY <1>28
  <1>29. QED
    BY <1>1, <1>2, <1>3, <1>4, <1>5, <1>6, <1>7, <1>8, <1>9, <1>10, <1>10a, <1>11,
        <1>12, <1>13, <1>14, <1>15, <1>16, <1>17, <1>18, <1>19, <1>20, <1>21,
        <1>22, <1>23, <1>24, <1>25, <1>26, <1>27, <1>28
    DEF Next, KubeletStep, ThreadStep, FaultStep, PrepareStep, UnprepareStep,
        CleanerStep, EnvStep, Threads

\* The kubelet is told of a claim what the checkpoint says.
LEMMA PreparedStaysPreparedInit == Init => PreparedStaysPrepared
  BY ConstantsAssumption DEF Init, PreparedStaysPrepared, Prepared, OldState

\* ... and every step keeps it.
LEMMA PreparedStaysPreparedStep ==
  TypeOK /\ Control /\ NoLostUpdate /\ Requests /\ PreparedStaysPrepared /\ [Next]_vars
    => PreparedStaysPrepared'
  <1>. SUFFICES ASSUME TypeOK, Control, NoLostUpdate, Requests, PreparedStaysPrepared, [Next]_vars
                PROVE  PreparedStaysPrepared'
    OBVIOUS
  <1>. USE ConstantsAssumption DEF vars, api, disk, procs, work, NoLostUpdate,
         Requests, PreparedStaysPrepared, Prepared, TypeOK, Control, Attempt,
         Critical, Threads, Steps, PrepareSteps, UnprepareSteps
  <1>1. ASSUME NEW t \in Handlers, NEW c \in Claims, PrepareResourceClaims(t, c)
        PROVE  PreparedStaysPrepared'
    BY <1>1 DEF PrepareResourceClaims
  <1>2. ASSUME NEW t \in Handlers, NEW c \in Claims, UnprepareResourceClaims(t, c)
        PROVE  PreparedStaysPrepared'
    BY <1>2 DEF UnprepareResourceClaims
  <1>3. ASSUME NEW t \in Threads, Acquire(t) PROVE PreparedStaysPrepared'
    BY <1>3 DEF Acquire, Goto
  <1>4. ASSUME NEW t \in Threads, ReadCheckpoint(t)
        PROVE  PreparedStaysPrepared'
    BY <1>4 DEF ReadCheckpoint
  <1>5. ASSUME NEW t \in Threads, PrepareCheck(t) PROVE PreparedStaysPrepared'
    BY <1>5 DEF PrepareCheck, Goto, Retry, Done, Dies
  <1>6. ASSUME NEW t \in Threads, PrepareStarted(t)
        PROVE  PreparedStaysPrepared'
    BY <1>6 DEF PrepareStarted, WriteCheckpoint
  <1>7. ASSUME NEW t \in Threads, ApplyChannelConfig(t)
        PROVE  PreparedStaysPrepared'
    BY <1>7 DEF ApplyChannelConfig, Goto, Retry, Done
  <1>8. ASSUME NEW t \in Threads, ApplyDaemonConfig(t)
        PROVE  PreparedStaysPrepared'
    BY <1>8 DEF ApplyDaemonConfig, Goto, Retry, Done
  <1>9. ASSUME NEW t \in Threads, AddNodeLabel(t) PROVE PreparedStaysPrepared'
    BY <1>9 DEF AddNodeLabel, Goto, Retry, Done
  <1>10. ASSUME NEW t \in Threads, AssertComputeDomainReady(t)
        PROVE  PreparedStaysPrepared'
    BY <1>10 DEF AssertComputeDomainReady, Goto, Retry, Done
  <1>10a. ASSUME NEW t \in Threads, ConfigResultsMapFails(t)
        PROVE  PreparedStaysPrepared'
    BY <1>10a DEF ConfigResultsMapFails, Retry, Done
  <1>11. ASSUME NEW t \in Threads, CreateClaimSpecFile(t)
        PROVE  PreparedStaysPrepared'
    BY <1>11 DEF CreateClaimSpecFile, Goto
  <1>12. ASSUME NEW t \in Threads, PrepareCompleted(t)
        PROVE  PreparedStaysPrepared'
    BY <1>12 DEF PrepareCompleted, Done, WriteCheckpoint
  <1>13. ASSUME NEW t \in Threads, UnprepareFind(t)
        PROVE  PreparedStaysPrepared'
    BY <1>13 DEF UnprepareFind, Goto, Done
  <1>14. ASSUME NEW t \in Threads, UnprepareDevices(t)
        PROVE  PreparedStaysPrepared'
    BY <1>14 DEF UnprepareDevices, Goto, WithoutLabel
  <1>15. ASSUME NEW t \in Threads, DeleteClaimSpecFile(t)
        PROVE  PreparedStaysPrepared'
    BY <1>15 DEF DeleteClaimSpecFile, Goto
  <1>16. ASSUME NEW t \in Threads, DeleteClaimFromCheckpoint(t)
        PROVE  PreparedStaysPrepared'
    BY <1>16 DEF DeleteClaimFromCheckpoint, Done, WriteCheckpoint
  <1>17. ASSUME NEW t \in Threads, CheckpointFails(t)
        PROVE  PreparedStaysPrepared'
    BY <1>17 DEF CheckpointFails, Retry, Done
  <1>18. ASSUME NEW t \in Threads, NodeUpdateFails(t)
        PROVE  PreparedStaysPrepared'
    BY <1>18 DEF NodeUpdateFails, Retry, Done, WithoutLabel
  <1>19. ASSUME NEW t \in Threads, SpecFileFails(t)
        PROVE  PreparedStaysPrepared'
    BY <1>19 DEF SpecFileFails, Retry, Done
  <1>20. ASSUME NEW t \in Handlers, GiveUp(t) PROVE PreparedStaysPrepared'
    BY <1>20 DEF GiveUp
  <1>21. ASSUME NEW k \in Cleaners, AcquireTimeout(k)
        PROVE  PreparedStaysPrepared'
    BY <1>21 DEF AcquireTimeout
  <1>22. ASSUME NEW k \in Cleaners, Cleanup(k) PROVE PreparedStaysPrepared'
    BY <1>22 DEF Cleanup
  <1>23. ASSUME NEW k \in Cleaners, CleanupDone(k)
        PROVE  PreparedStaysPrepared'
    BY <1>23 DEF CleanupDone, Goto
  <1>24. ASSUME NEW k \in Cleaners, NEW c \in Claims, UnprepareIfStale(k, c)
        PROVE  PreparedStaysPrepared'
    BY <1>24 DEF UnprepareIfStale, IsStale
  <1>25. ASSUME NEW k \in Cleaners, NEW c \in Claims, LookupFails(k, c)
        PROVE  PreparedStaysPrepared'
    BY <1>25 DEF LookupFails
  <1>26. ASSUME NEW p \in Procs, Crash(p) PROVE PreparedStaysPrepared'
    BY <1>26 DEF Crash, Dies
  <1>27. CASE EnvStep
    BY <1>27, EnvQuiet
  <1>28. CASE UNCHANGED vars
    BY <1>28
  <1>29. QED
    BY <1>1, <1>2, <1>3, <1>4, <1>5, <1>6, <1>7, <1>8, <1>9, <1>10, <1>10a, <1>11,
        <1>12, <1>13, <1>14, <1>15, <1>16, <1>17, <1>18, <1>19, <1>20, <1>21,
        <1>22, <1>23, <1>24, <1>25, <1>26, <1>27, <1>28
    DEF Next, KubeletStep, ThreadStep, FaultStep, PrepareStep, UnprepareStep,
        CleanerStep, EnvStep, Threads

-----------------------------------------------------------------------------
(* Exclusive devices.                                                      *)

\* The three steps that write the checkpoint file; no other step changes it.
LEMMA CheckpointWrites ==
  ASSUME [Next]_vars
  PROVE  \/ checkpoint' = checkpoint
         \/ \E t \in Threads : \/ PrepareStarted(t)
                               \/ PrepareCompleted(t)
                               \/ DeleteClaimFromCheckpoint(t)
  <1>. USE DEF vars, api, disk, procs, work
  <1>1. CASE KubeletStep
    BY <1>1 DEF KubeletStep, PrepareResourceClaims, UnprepareResourceClaims
  <1>2. ASSUME NEW t \in Threads, Acquire(t) \/ ReadCheckpoint(t)
        PROVE  checkpoint' = checkpoint
    BY <1>2 DEF Acquire, ReadCheckpoint
  <1>3. ASSUME NEW t \in Threads, PrepareStep(t), ~ PrepareStarted(t),
               ~ PrepareCompleted(t)
        PROVE  checkpoint' = checkpoint
    BY <1>3 DEF PrepareStep, PrepareCheck, ApplyChannelConfig,
                ApplyDaemonConfig, AddNodeLabel, AssertComputeDomainReady,
                CreateClaimSpecFile
  <1>4. ASSUME NEW t \in Threads, UnprepareStep(t),
               ~ DeleteClaimFromCheckpoint(t)
        PROVE  checkpoint' = checkpoint
    BY <1>4 DEF UnprepareStep, UnprepareFind, UnprepareDevices,
                DeleteClaimSpecFile
  <1>4a. ASSUME NEW t \in Threads, ConfigResultsMapFails(t)
        PROVE  checkpoint' = checkpoint
    BY <1>4a DEF ConfigResultsMapFails
  <1>5. ASSUME NEW t \in Threads, FaultStep(t)
        PROVE  checkpoint' = checkpoint
    BY <1>5 DEF FaultStep, CheckpointFails, NodeUpdateFails, SpecFileFails
  <1>6. ASSUME NEW t \in Handlers, GiveUp(t)
        PROVE  checkpoint' = checkpoint
    BY <1>6 DEF GiveUp
  <1>7. ASSUME NEW k \in Cleaners, CleanerStep(k) \/ AcquireTimeout(k)
        PROVE  checkpoint' = checkpoint
    BY <1>7 DEF CleanerStep, AcquireTimeout, Cleanup, CleanupDone,
                UnprepareIfStale
  <1>8. ASSUME NEW k \in Cleaners, NEW c \in Claims, LookupFails(k, c)
        PROVE  checkpoint' = checkpoint
    BY <1>8 DEF LookupFails
  <1>9. ASSUME NEW p \in Procs, Crash(p)
        PROVE  checkpoint' = checkpoint
    BY <1>9 DEF Crash
  <1>10. CASE EnvStep
    BY <1>10, EnvQuiet
  <1>11. CASE UNCHANGED vars
    BY <1>11
  <1>12. QED
    BY <1>1, <1>2, <1>3, <1>4, <1>4a, <1>5, <1>6, <1>7, <1>8, <1>9, <1>10, <1>11
    DEF Next, ThreadStep, EnvStep

Inv ==
  /\ TypeOK
  /\ Control
  /\ NoLostUpdate
  /\ Preparation
  /\ Removal
  /\ NothingUntracked
  /\ Requests
  /\ PreparedStaysPrepared

\* A claim about to be completed conflicts with no prepared claim: of a channel
\* the allocation check says so, of a daemon device the overlap check.
LEMMA FreeToGrant ==
  ASSUME TypeOK, Control, Preparation, NEW t \in Threads, pc[t] = "pDoneW",
         NEW e \in Claims, Prepared(e)
  PROVE  ~ Conflict(arg[t], e) /\ ~ Conflict(e, arg[t])
  <1>. DEFINE c == arg[t]
  <1>1. c \in Claims
    BY DEF Control, Attempt, PrepareSteps
  <1>2. /\ Overlapping(c) = {}
        /\ NilAllocations(c) = {}
        /\ c \in ChannelClaims => ~ ChannelAllocated
    BY DEF Preparation, Preparing, Started, Granting
  <1>3. CASE c \in ChannelClaims
    <2>1. e \notin ChannelClaims
      BY <1>2, <1>3 DEF ChannelAllocated
    <2>2. QED
      BY <1>3, <2>1 DEF Conflict, Device
  <1>4. CASE c \notin ChannelClaims /\ (c \in AdminClaims \/ e \in AdminClaims)
    BY <1>4 DEF Conflict, Device
  <1>5. CASE c \notin ChannelClaims /\ c \notin AdminClaims /\ e \notin AdminClaims
    <2>1. Device(e) # Device(c) \/ e = c
      BY <1>2, <1>5 DEF Overlapping, NilAllocations, Prepared
    <2>2. QED
      BY <2>1 DEF Conflict
  <1>6. QED
    BY <1>3, <1>4, <1>5

\* What a step does to the checkpoint.
LEMMA Transitions ==
  ASSUME Inv, [Next]_vars, checkpoint' # checkpoint
  PROVE  \E t \in Threads :
           /\ lock = t
           /\ arg[t] \in Claims
           /\ \/ /\ checkpoint' = [checkpoint EXCEPT ![arg[t]] = "started"]
                 /\ ~ Prepared(arg[t])
              \/ /\ checkpoint' = [checkpoint EXCEPT ![arg[t]] = "completed"]
                 /\ ~ Prepared(arg[t])
                 /\ \A e \in Claims : Prepared(e) => /\ ~ Conflict(arg[t], e)
                                                     /\ ~ Conflict(e, arg[t])
              \/ checkpoint' = [checkpoint EXCEPT ![arg[t]] = "absent"]
  <1>1. PICK t \in Threads : \/ PrepareStarted(t)
                             \/ PrepareCompleted(t)
                             \/ DeleteClaimFromCheckpoint(t)
    BY CheckpointWrites
  <1>2. pc[t] \in {"pStartW", "pDoneW", "uDelW"}
    BY <1>1 DEF PrepareStarted, PrepareCompleted, DeleteClaimFromCheckpoint
  <1>3. /\ lock = t
        /\ arg[t] \in Claims
        /\ snap[t] = checkpoint
    BY <1>2 DEF Inv, Control, Critical, Attempt, PrepareSteps, UnprepareSteps,
                NoLostUpdate
  <1>4. CASE PrepareStarted(t)
    <2>1. ~ Prepared(arg[t])
      BY <1>4 DEF PrepareStarted, Inv, Preparation, Preparing
    <2>2. QED
      BY <1>3, <1>4, <2>1 DEF PrepareStarted, WriteCheckpoint
  <1>5. CASE PrepareCompleted(t)
    <2>1. pc[t] = "pDoneW" /\ ~ Prepared(arg[t])
      BY <1>5 DEF PrepareCompleted, Inv, Preparation, Preparing
    <2>2. \A e \in Claims : Prepared(e) => /\ ~ Conflict(arg[t], e)
                                           /\ ~ Conflict(e, arg[t])
      BY <2>1, FreeToGrant DEF Inv
    <2>3. QED
      BY <1>3, <1>5, <2>1, <2>2 DEF PrepareCompleted, WriteCheckpoint
  <1>6. CASE DeleteClaimFromCheckpoint(t)
    BY <1>3, <1>6 DEF DeleteClaimFromCheckpoint, WriteCheckpoint
  <1>7. QED
    BY <1>1, <1>4, <1>5, <1>6

\* One claim per device in the checkpoint of an older driver.
LEMMA DeviceExclusiveInit == Init => DeviceExclusive
  BY LegacyAssumption, ConstantsAssumption
  DEF Init, DeviceExclusive, Prepared, OldState, Conflict, Device

\* Only PrepareCompleted adds a prepared claim, and it is free to grant.
LEMMA DeviceExclusiveStep ==
  Inv /\ DeviceExclusive /\ [Next]_vars => DeviceExclusive'
  <1>. SUFFICES ASSUME Inv, DeviceExclusive, [Next]_vars,
                       NEW c \in Claims, NEW e \in Claims,
                       Prepared(c)', Prepared(e)'
                PROVE  ~ Conflict(c, e)
    BY DEF DeviceExclusive, Conflict, Device
  <1>1. CASE checkpoint' = checkpoint
    BY <1>1 DEF DeviceExclusive, Prepared
  <1>2. CASE checkpoint' # checkpoint
    <2>1. PICK t \in Threads :
            /\ arg[t] \in Claims
            /\ \/ checkpoint' = [checkpoint EXCEPT ![arg[t]] = "started"]
               \/ /\ checkpoint' = [checkpoint EXCEPT ![arg[t]] = "completed"]
                  /\ \A d \in Claims : Prepared(d) => /\ ~ Conflict(arg[t], d)
                                                      /\ ~ Conflict(d, arg[t])
               \/ checkpoint' = [checkpoint EXCEPT ![arg[t]] = "absent"]
      BY <1>2, Transitions
    <2>2. checkpoint \in [Claims -> ClaimStates]
      BY DEF Inv, TypeOK
    <2>3. CASE c # arg[t] /\ e # arg[t]
      BY <2>1, <2>2, <2>3 DEF DeviceExclusive, Prepared
    <2>4. CASE c = arg[t] /\ e = arg[t]
      BY <2>4 DEF Conflict
    <2>5. CASE c = arg[t] /\ e # arg[t]
      BY <2>1, <2>2, <2>5 DEF Prepared
    <2>6. CASE c # arg[t] /\ e = arg[t]
      BY <2>1, <2>2, <2>6 DEF Prepared
    <2>7. QED
      BY <2>3, <2>4, <2>5, <2>6
  <1>3. QED
    BY <1>1, <1>2

-----------------------------------------------------------------------------
(* The theorems.                                                           *)

\* Init implies Inv.
LEMMA InvInit == Init => Inv
  BY TypeInit, ControlInit, NoLostUpdateInit, PreparationInit, RemovalInit,
     NothingUntrackedInit, RequestsInit, PreparedStaysPreparedInit DEF Inv

\* Every step preserves Inv.
LEMMA InvStep == Inv /\ [Next]_vars => Inv'
  BY TypeStep, ControlStep, NoLostUpdateStep, PreparationStep, RemovalStep,
     NothingUntrackedStep, RequestsStep, PreparedStaysPreparedStep DEF Inv

\* The conjunction of everything above is an inductive invariant.
THEOREM Invariance == Spec => []Inv
  BY InvInit, InvStep, PTL DEF Spec

\* Every variable keeps its type.
THEOREM TypeCorrect == Spec => []TypeOK
  <1>1. Inv => TypeOK
    BY DEF Inv
  <1>2. QED
    BY <1>1, Invariance, PTL

\* No update of the checkpoint is lost: each updateCheckpoint writes back what
\* is in the file, plus its own change, in every interleaving of any number of
\* requests, cleanups and processes.
THEOREM NoUpdateIsLost == Spec => []NoLostUpdate
  <1>1. Inv => NoLostUpdate
    BY DEF Inv
  <1>2. QED
    BY <1>1, Invariance, PTL

\* No two prepared claims conflict over the channel or the daemon device.
THEOREM DevicesAreExclusive == Spec => []DeviceExclusive
  <1>1. Init => Inv /\ DeviceExclusive
    BY InvInit, DeviceExclusiveInit
  <1>2. Inv /\ DeviceExclusive /\ [Next]_vars => (Inv /\ DeviceExclusive)'
    BY InvStep, DeviceExclusiveStep
  <1>3. QED
    BY <1>1, <1>2, PTL DEF Spec

\* Every CDI file and the node label have an entry in the checkpoint, so that
\* Unprepare finds what it has to remove.
THEOREM EverythingIsTracked == Spec => []NothingUntracked
  <1>1. Inv => NothingUntracked
    BY DEF Inv
  <1>2. QED
    BY <1>1, Invariance, PTL

\* A claim the kubelet was told is prepared stays prepared while it exists.
THEOREM PreparedClaimsStay == Spec => []PreparedStaysPrepared
  <1>1. Inv => PreparedStaysPrepared
    BY DEF Inv
  <1>2. QED
    BY <1>1, Invariance, PTL

\* A completed claim is never prepared again: Prepare is idempotent.
THEOREM PrepareIsIdempotent == Spec => PreparedAtMostOnce
  <1>1. ASSUME Inv, [Next]_vars
        PROVE  [\A c \in Claims : Prepared(c) =>
                  checkpoint'[c] \in {checkpoint[c], "absent"}]_vars
    <2>1. CASE checkpoint' = checkpoint
      BY <2>1
    <2>2. CASE checkpoint' # checkpoint
      <3>1. checkpoint \in [Claims -> ClaimStates]
        BY <1>1 DEF Inv, TypeOK
      <3>2. QED
        BY <1>1, <2>2, <3>1, Transitions
    <2>3. QED
      BY <2>1, <2>2
  <1>2. QED
    BY <1>1, Invariance, PTL DEF Spec, PreparedAtMostOnce

\* The cleanup removes only claims whose object is gone.
THEOREM CleanupIsSafe == Spec => CleanupOnlyStale
  <1>1. ASSUME Inv, [Next]_vars
        PROVE  [\A k \in Cleaners, c \in Claims :
                  /\ lock = k
                  /\ checkpoint[c] # "absent"
                  /\ checkpoint'[c] = "absent"
                  => c \notin live]_vars
    <2>. SUFFICES ASSUME NEW k \in Cleaners, NEW c \in Claims, lock = k,
                         checkpoint[c] # "absent", checkpoint'[c] = "absent"
                  PROVE  c \notin live
      OBVIOUS
    <2>1. checkpoint \in [Claims -> ClaimStates] /\ None \notin Claims
      BY <1>1, ConstantsAssumption DEF Inv, TypeOK
    <2>2. arg[k] = c
      BY <1>1, <2>1, Transitions
    <2>3. QED
      BY <1>1, <2>1, <2>2 DEF Inv, Requests
  <1>2. QED
    BY <1>1, Invariance, PTL DEF Spec, CleanupOnlyStale

\* The plugin implements the ledger.
THEOREM ImplementsLedger == Spec => LedgerSpec
  <1>1. Init => Ledger!Init
    BY DeviceExclusiveInit DEF Ledger!Init, PreparedClaims, DeviceExclusive
  <1>2. ASSUME Inv, [Next]_vars
        PROVE  [Ledger!Next]_PreparedClaims
    <2>1. CASE checkpoint' = checkpoint
      BY <2>1 DEF PreparedClaims, Prepared
    <2>2. CASE checkpoint' # checkpoint
      <3>1. checkpoint \in [Claims -> ClaimStates]
        BY <1>2 DEF Inv, TypeOK
      <3>2. PICK t \in Threads :
              /\ arg[t] \in Claims
              /\ \/ /\ checkpoint' = [checkpoint EXCEPT ![arg[t]] = "started"]
                    /\ ~ Prepared(arg[t])
                 \/ /\ checkpoint' = [checkpoint EXCEPT ![arg[t]] = "completed"]
                    /\ ~ Prepared(arg[t])
                    /\ \A e \in Claims : Prepared(e) => ~ Conflict(arg[t], e)
                 \/ checkpoint' = [checkpoint EXCEPT ![arg[t]] = "absent"]
        BY <1>2, <2>2, Transitions
      <3>3. CASE /\ checkpoint' = [checkpoint EXCEPT ![arg[t]] = "started"]
                 /\ ~ Prepared(arg[t])
        BY <3>1, <3>2, <3>3 DEF PreparedClaims, Prepared
      <3>4. CASE /\ checkpoint' = [checkpoint EXCEPT ![arg[t]] = "completed"]
                 /\ ~ Prepared(arg[t])
                 /\ \A e \in Claims : Prepared(e) => ~ Conflict(arg[t], e)
        <4>1. PreparedClaims' = PreparedClaims \cup {arg[t]}
          BY <3>1, <3>2, <3>4 DEF PreparedClaims, Prepared
        <4>2. Ledger!Grant(arg[t])
          BY <3>4, <4>1 DEF Ledger!Grant, Ledger!Free, PreparedClaims
        <4>3. QED
          BY <3>2, <4>2 DEF Ledger!Next
      <3>5. CASE checkpoint' = [checkpoint EXCEPT ![arg[t]] = "absent"]
        <4>1. PreparedClaims' = PreparedClaims \ {arg[t]}
          BY <3>1, <3>2, <3>5 DEF PreparedClaims, Prepared
        <4>2. CASE arg[t] \in PreparedClaims
          BY <3>2, <4>1, <4>2 DEF Ledger!Next, Ledger!Revoke
        <4>3. CASE arg[t] \notin PreparedClaims
          BY <4>1, <4>3
        <4>4. QED
          BY <4>2, <4>3
      <3>6. QED
        BY <3>2, <3>3, <3>4, <3>5
    <2>3. QED
      BY <2>1, <2>2
  <1>3. QED
    BY <1>1, <1>2, Invariance, PTL DEF Spec, LedgerSpec, Ledger!Spec

-----------------------------------------------------------------------------
(* Nobody waits in vain: what CodependentPrepares and StaleStartedResolved *)
(* need of the lock and of the requests, apart from fairness.              *)

\* pu.lock is held only within an attempt: neither a back-off, nor an error, nor
\* the end of a process leaves it behind.
FlockInUse == lock # None => pc[lock] \in Critical

\* A process that is not there does nothing.
DeadAreIdle ==
  \A t \in Threads : proc[ProcOf[t]] \notin {"starting", "running"} => pc[t] = "idle"

\* A claim for which the kubelet waits has a request that is still worked on.
RequestOpen ==
  \A c \in Claims : kubelet[c] = "busy" =>
     \E t \in Handlers : pc[t] \in Attempt /\ arg[t] = c

Orderly == FlockInUse /\ DeadAreIdle /\ RequestOpen

\* A step that goes on with the attempt.
Continues(t) ==
  /\ \A u \in Threads \ {t} : pc'[u] = pc[u]
  /\ pc'[t] \in Critical
  /\ UNCHANGED <<lock, arg, kubelet, proc>>

\* A step of a thread that has the lock goes on with the attempt, or ends it, for
\* good, for a retry, or with its process; a request that ends is answered.
LEMMA AttemptSteps ==
  ASSUME TypeOK, NEW t \in Threads, ThreadStep(t) \/ FaultStep(t)
  PROVE  /\ pc[t] \in Critical
         /\ \/ Continues(t)
            \/ Retry(t) /\ UNCHANGED proc
            \/ \E r \in KubeletStates \ {"busy"} : Done(t, r) /\ UNCHANGED proc
            \/ Dies(ProcOf[t], "panicked")
  <1>. USE DEF Critical, Attempt, PrepareSteps, UnprepareSteps
  <1>0. {"prepared", "failed", "none"} \subseteq KubeletStates \ {"busy"}
    BY DEF KubeletStates
  <1>1. ASSUME NEW s \in Critical, pc' = [pc EXCEPT ![t] = s],
               UNCHANGED <<lock, arg, kubelet, proc>>
        PROVE  Continues(t)
    BY <1>1 DEF Continues, TypeOK
  <1>2. ASSUME NEW s \in Critical, Goto(t, s), UNCHANGED <<lock, kubelet, proc>>
        PROVE  Continues(t)
    BY <1>1, <1>2 DEF Goto
  <1>3. CASE ReadCheckpoint(t)
    BY <1>1, <1>3 DEF ReadCheckpoint, procs
  <1>4. CASE PrepareCheck(t)
    BY <1>0, <1>2, <1>4 DEF PrepareCheck, procs
  <1>5. CASE PrepareStarted(t)
    BY <1>1, <1>5 DEF PrepareStarted, procs
  <1>6. CASE ApplyChannelConfig(t)
    BY <1>0, <1>2, <1>6 DEF ApplyChannelConfig, procs
  <1>7. CASE ApplyDaemonConfig(t) \/ AddNodeLabel(t) \/ AssertComputeDomainReady(t)
    BY <1>2, <1>7 DEF ApplyDaemonConfig, AddNodeLabel, AssertComputeDomainReady, procs
  <1>8. CASE CreateClaimSpecFile(t) \/ UnprepareDevices(t) \/ DeleteClaimSpecFile(t)
    BY <1>2, <1>8 DEF CreateClaimSpecFile, UnprepareDevices, DeleteClaimSpecFile, procs
  <1>9. CASE PrepareCompleted(t) \/ DeleteClaimFromCheckpoint(t)
    BY <1>0, <1>9 DEF PrepareCompleted, DeleteClaimFromCheckpoint, procs
  <1>10. CASE UnprepareFind(t)
    BY <1>0, <1>2, <1>10 DEF UnprepareFind, procs
  <1>10a. CASE ConfigResultsMapFails(t)
    BY <1>0, <1>10a DEF ConfigResultsMapFails, procs
  <1>11. CASE FaultStep(t)
    BY <1>11 DEF FaultStep, CheckpointFails, NodeUpdateFails, SpecFileFails, procs
  <1>12. QED
    BY <1>3, <1>4, <1>5, <1>6, <1>7, <1>8, <1>9, <1>10, <1>10a, <1>11
    DEF ThreadStep, PrepareStep, UnprepareStep

\* The end of an attempt frees the lock and answers the kubelet.
LEMMA DoneOrderly ==
  ASSUME TypeOK, Orderly, NEW t \in Threads, pc[t] \in Critical,
         NEW r \in KubeletStates \ {"busy"}, Done(t, r), UNCHANGED proc
  PROVE  Orderly'
  <1>1. lock' = None /\ \A u \in Threads \ {t} : pc'[u] = pc[u] /\ arg'[u] = arg[u]
    BY DEF TypeOK, Done
  <1>2. DeadAreIdle'
    <2>1. pc[t] # "idle" /\ t \in Threads
      BY DEF Critical, Attempt, PrepareSteps, UnprepareSteps
    <2>2. QED
      BY <1>1, <2>1 DEF Orderly, DeadAreIdle
  <1>3. ASSUME NEW c \in Claims, kubelet'[c] = "busy"
        PROVE  \E u \in Handlers : pc'[u] \in Attempt /\ arg'[u] = c
    <2>1. kubelet[c] = "busy"
      BY <1>3 DEF TypeOK, Done
    <2>2. PICK u \in Handlers : pc[u] \in Attempt /\ arg[u] = c
      BY <2>1 DEF Orderly, RequestOpen
    <2>3. u # t
      <3>. SUFFICES ASSUME u = t PROVE FALSE
        OBVIOUS
      <3>1. t \notin Cleaners
        BY ConstantsAssumption
      <3>2. kubelet'[c] = r
        BY <2>2, <3>1 DEF TypeOK, Done
      <3>3. QED
        BY <1>3, <3>2
    <2>4. QED
      BY <1>1, <2>2, <2>3 DEF Threads
  <1>4. QED
    BY <1>1, <1>2, <1>3 DEF Orderly, FlockInUse, RequestOpen

\* An attempt that will be retried frees the lock and keeps its request.
LEMMA RetryOrderly ==
  ASSUME TypeOK, Orderly, NEW t \in Threads, pc[t] \in Critical,
         Retry(t), UNCHANGED proc
  PROVE  Orderly'
  <1>1. CASE t \in Cleaners
    BY <1>1, DoneOrderly DEF Retry, KubeletStates
  <1>2. CASE t \notin Cleaners
    <2>1. /\ lock' = None /\ UNCHANGED <<arg, kubelet>>
          /\ \A u \in Threads \ {t} : pc'[u] = pc[u]
          /\ pc'[t] \in Attempt
      BY <1>2 DEF TypeOK, Retry, Attempt, PrepareSteps, UnprepareSteps
    <2>2. DeadAreIdle'
      <3>1. pc[t] # "idle"
        BY DEF Critical, Attempt, PrepareSteps, UnprepareSteps
      <3>2. QED
        BY <2>1, <3>1 DEF Orderly, DeadAreIdle
    <2>3. RequestOpen'
      BY <2>1 DEF Orderly, RequestOpen, Threads
    <2>4. QED
      BY <2>1, <2>2, <2>3 DEF Orderly, FlockInUse
  <1>3. QED
    BY <1>1, <1>2

\* The kernel frees the lock of a process that ends, and the kubelet's calls to it
\* fail.
LEMMA DiesOrderly ==
  ASSUME TypeOK, Orderly, NEW p \in Procs, NEW how \in {"panicked", "down"}, Dies(p, how)
  PROVE  Orderly'
  <1>1. \A t \in Threads : IF ProcOf[t] = p
                             THEN pc'[t] = "idle"
                             ELSE pc'[t] = pc[t] /\ arg'[t] = arg[t]
    BY DEF Dies
  <1>2. FlockInUse'
    <2>1. lock' # None => lock' = lock /\ lock \in Threads /\ ProcOf[lock] # p
      BY DEF Dies, TypeOK
    <2>2. QED
      BY <1>1, <2>1 DEF Orderly, FlockInUse
  <1>3. DeadAreIdle'
    BY <1>1, ConstantsAssumption DEF Orderly, DeadAreIdle, Dies, TypeOK
  <1>4. ASSUME NEW c \in Claims, kubelet'[c] = "busy"
        PROVE  \E u \in Handlers : pc'[u] \in Attempt /\ arg'[u] = c
    <2>1. kubelet[c] = "busy" /\ \A t \in Handlers : ProcOf[t] = p => arg[t] # c
      BY <1>4 DEF Dies, Threads
    <2>2. PICK u \in Handlers : pc[u] \in Attempt /\ arg[u] = c
      BY <2>1 DEF Orderly, RequestOpen
    <2>3. QED
      BY <1>1, <2>1, <2>2 DEF Threads
  <1>5. QED
    BY <1>2, <1>3, <1>4 DEF Orderly, RequestOpen

\* A thread that waits, or a cleaner between two claims, does not have the lock.
LEMMA OutsideOrderly ==
  ASSUME TypeOK, Orderly, NEW t \in Threads, pc[t] \notin Critical,
         \A u \in Threads \ {t} : pc'[u] = pc[u] /\ arg'[u] = arg[u],
         UNCHANGED <<lock, proc>>,
         pc'[t] = "idle" \/ proc[ProcOf[t]] \in {"starting", "running"},
         \A c \in Claims : kubelet'[c] = "busy" =>
            \/ kubelet[c] = "busy" /\ (t \in Handlers /\ pc[t] \in Attempt => arg[t] # c)
            \/ t \in Handlers /\ pc'[t] \in Attempt /\ arg'[t] = c
  PROVE  Orderly'
  <1>1. FlockInUse'
    BY DEF Orderly, FlockInUse, TypeOK
  <1>2. DeadAreIdle'
    BY DEF Orderly, DeadAreIdle
  <1>3. ASSUME NEW c \in Claims, kubelet'[c] = "busy"
        PROVE  \E u \in Handlers : pc'[u] \in Attempt /\ arg'[u] = c
    <2>1. CASE t \in Handlers /\ pc'[t] \in Attempt /\ arg'[t] = c
      BY <2>1
    <2>2. CASE kubelet[c] = "busy" /\ (t \in Handlers /\ pc[t] \in Attempt => arg[t] # c)
      <3>1. PICK u \in Handlers : pc[u] \in Attempt /\ arg[u] = c
        BY <2>2 DEF Orderly, RequestOpen
      <3>2. QED
        BY <2>2, <3>1 DEF Threads
    <2>3. QED
      BY <1>3, <2>1, <2>2
  <1>4. QED
    BY <1>1, <1>2, <1>3 DEF Orderly, RequestOpen

\* Every step of the plugin keeps the order.
LEMMA OrderlyStep == TypeOK /\ Control /\ Orderly /\ [Next]_vars => Orderly'
  <1>. SUFFICES ASSUME TypeOK, Control, Orderly, [Next]_vars PROVE Orderly'
    OBVIOUS
  <1>0. /\ \A t \in Threads : proc[ProcOf[t]] \notin {"starting", "running"} => pc[t] = "idle"
        /\ \A s \in {"idle", "cNext", "pLock", "uLock"} : s \notin Critical
        /\ {"pLock", "uLock"} \subseteq Attempt
        /\ {"idle", "cNext"} \cap Attempt = {}
    BY DEF Orderly, DeadAreIdle, Critical, Attempt, PrepareSteps, UnprepareSteps
  <1>1. ASSUME NEW t \in Threads, ThreadStep(t) \/ FaultStep(t)
        PROVE  Orderly'
    <2>1. pc[t] \in Critical
      BY <1>1, AttemptSteps
    <2>2. CASE Continues(t)
      <3>1. FlockInUse' /\ RequestOpen'
        BY <2>2 DEF Orderly, FlockInUse, RequestOpen, Continues, Critical, TypeOK, Threads
      <3>2. DeadAreIdle'
        BY <1>0, <2>1, <2>2 DEF Orderly, DeadAreIdle, Continues
      <3>3. QED
        BY <3>1, <3>2 DEF Orderly
    <2>3. CASE Dies(ProcOf[t], "panicked")
      BY <2>3, DiesOrderly, ConstantsAssumption
    <2>4. QED
      BY <1>1, <2>1, <2>2, <2>3, AttemptSteps, RetryOrderly, DoneOrderly
  <1>2. ASSUME NEW t \in Handlers, NEW c \in Claims,
               PrepareResourceClaims(t, c) \/ UnprepareResourceClaims(t, c)
        PROVE  Orderly'
    <2>1. /\ pc[t] = "idle" /\ proc[ProcOf[t]] \in {"starting", "running"}
          /\ UNCHANGED <<lock, proc>>
          /\ kubelet' = [kubelet EXCEPT ![c] = "busy"]
          /\ arg' = [arg EXCEPT ![t] = c]
          /\ pc' = [pc EXCEPT ![t] = "pLock"] \/ pc' = [pc EXCEPT ![t] = "uLock"]
      BY <1>2 DEF PrepareResourceClaims, UnprepareResourceClaims, procs
    <2>2. /\ pc'[t] \in {"pLock", "uLock"} /\ arg'[t] = c
          /\ \A u \in Threads \ {t} : pc'[u] = pc[u] /\ arg'[u] = arg[u]
          /\ \A e \in Claims : e # c => kubelet'[e] = kubelet[e]
      BY <2>1 DEF TypeOK, Threads
    <2>3. QED
      BY <1>0, <2>1, <2>2, OutsideOrderly DEF Threads
  <1>3. ASSUME NEW t \in Threads, Acquire(t)
        PROVE  Orderly'
    <2>1. /\ pc[t] \in {"pLock", "uLock"} /\ lock = None /\ lock' = t
          /\ pc'[t] \in {"pCheck", "uFind"}
          /\ \A u \in Threads \ {t} : pc'[u] = pc[u]
          /\ UNCHANGED <<arg, kubelet, proc>>
      BY <1>3 DEF Acquire, Goto, TypeOK, procs
    <2>2. FlockInUse' /\ RequestOpen'
      BY <2>1 DEF Orderly, FlockInUse, RequestOpen, Critical, Attempt, PrepareSteps,
        UnprepareSteps, Threads
    <2>3. DeadAreIdle'
      BY <2>1 DEF Orderly, DeadAreIdle
    <2>4. QED
      BY <2>2, <2>3 DEF Orderly
  <1>4. ASSUME NEW t \in Handlers, GiveUp(t)
        PROVE  Orderly'
    <2>1. /\ pc[t] \in {"pLock", "uLock"} /\ pc'[t] = "idle"
          /\ \A u \in Threads \ {t} : pc'[u] = pc[u] /\ arg'[u] = arg[u]
          /\ UNCHANGED <<lock, proc>>
      BY <1>4 DEF GiveUp, TypeOK, procs, Threads
    <2>2. arg[t] \in Claims
      BY <1>0, <2>1 DEF Control, Threads
    <2>3. \A c \in Claims : kubelet'[c] = "busy" => kubelet[c] = "busy" /\ arg[t] # c
      BY <1>4, <2>2 DEF GiveUp, TypeOK
    <2>4. QED
      BY <1>0, <2>1, <2>3, OutsideOrderly DEF Threads
  <1>5. ASSUME NEW k \in Cleaners,
               \/ CleanerStep(k) \/ AcquireTimeout(k)
               \/ \E c \in Claims : LookupFails(k, c)
        PROVE  Orderly'
    <2>1. pc[k] \in {"idle", "cNext", "uLock"} /\ k \notin Handlers /\ k \in Threads
      BY <1>5, ConstantsAssumption
      DEF CleanerStep, Cleanup, CleanupDone, UnprepareIfStale, AcquireTimeout, LookupFails,
          Threads
    <2>2. UNCHANGED <<lock, proc, kubelet>>
      BY <1>5 DEF CleanerStep, Cleanup, CleanupDone, UnprepareIfStale, AcquireTimeout,
        LookupFails, procs
    <2>3. \A u \in Threads \ {k} : pc'[u] = pc[u] /\ arg'[u] = arg[u]
      BY <1>5 DEF CleanerStep, Cleanup, CleanupDone, UnprepareIfStale, AcquireTimeout,
        LookupFails, Goto, TypeOK
    <2>4. pc[k] = "idle" => proc[ProcOf[k]] = "running"
      BY <1>5 DEF CleanerStep, Cleanup, CleanupDone, UnprepareIfStale, AcquireTimeout,
        LookupFails
    <2>5. QED
      BY <1>0, <2>1, <2>2, <2>3, <2>4, OutsideOrderly
  <1>6. ASSUME NEW p \in Procs, Crash(p)
        PROVE  Orderly'
    BY <1>6, DiesOrderly DEF Crash
  <1>7. CASE EnvStep
    <2>1. UNCHANGED <<lock, pc, arg, kubelet>>
      BY <1>7, EnvQuiet
    <2>2. \A p \in Procs : proc[p] \in {"starting", "running"} =>
                             proc'[p] \in {"starting", "running"}
      BY <1>7 DEF EnvStep, ProcessStep, ClusterStep, Restart, CacheSync, SweepRemove,
         SweepLookup, CreateComputeDomain, DeleteComputeDomain,
         RemoveComputeDomainLabel, RemoveFinalizer, NodeReady, NodeNotReady,
         DeleteClaim, procs, TypeOK
    <2>3. DeadAreIdle'
      BY <1>0, <2>1, <2>2, ConstantsAssumption DEF DeadAreIdle
    <2>4. QED
      BY <2>1, <2>3 DEF Orderly, FlockInUse, RequestOpen
  <1>8. CASE UNCHANGED vars
    BY <1>8 DEF Orderly, FlockInUse, DeadAreIdle, RequestOpen, vars, procs, work
  <1>9. QED
    BY <1>1, <1>2, <1>3, <1>4, <1>5, <1>6, <1>7, <1>8
    DEF Next, KubeletStep, EnvStep, Threads

\* Whatever fails, is retried, given up or killed: pu.lock is held only by a live
\* process within an attempt, and a claim for which the kubelet waits has a request
\* that is worked on. No wait of the plugin is for something that cannot come.
THEOREM NobodyWaitsInVain == Spec => []Orderly
  <1>1. Init => Orderly
    <2>. SUFFICES ASSUME Init PROVE Orderly
      OBVIOUS
    <2>1. FlockInUse /\ DeadAreIdle
      BY ConstantsAssumption DEF Init, FlockInUse, DeadAreIdle
    <2>2. RequestOpen
      BY DEF Init, RequestOpen
    <2>3. QED
      BY <2>1, <2>2 DEF Orderly
  <1>2. Inv => TypeOK /\ Control
    BY DEF Inv
  <1>3. QED
    BY <1>1, <1>2, OrderlyStep, Invariance, PTL DEF Spec
=============================================================================
