--------------------------- MODULE CliqueMembership ---------------------------
(***************************************************************************)
(* Membership of the compute-domain daemons in an IMEX domain: one daemon  *)
(* per node inserts itself, with an index that becomes its DNS name, into  *)
(* an object all daemons share, and passes every change of the membership  *)
(* to its update loop, which rewrites the configuration of the IMEX child. *)
(* The shared object is a ComputeDomainClique, or with the feature gate    *)
(* ComputeDomainCliques off the status of the ComputeDomain. The           *)
(* controller removes the entries of pods that are gone.                   *)
(*                                                                         *)
(* Everybody works on a cached copy of the object and writes the whole of  *)
(* it back; the API server refuses a write that is not based on the        *)
(* current version. fresh is the set of daemons whose copy is current.     *)
(***************************************************************************)
EXTENDS Integers, FiniteSets

CONSTANTS
  Nodes,
  IPs,          \* pod IP addresses
  CliqueOf,     \* [Nodes -> ...] the NVLink clique of a node
  Clique,       \* the clique whose ComputeDomainClique is modelled
  MaxNodes,     \* maxNodesPerIMEXDomain
  NumNodes,     \* spec.numNodes of the ComputeDomain
  GateSets,     \* feature gates: records with cliques and dns
  SharedNodes,  \* nodes on which other ComputeDomains have daemon pods at times
  MaxPods,      \* bound: daemon pods created in all
  MaxStarts,    \* bound: daemon processes started in all
  MaxFaults,    \* bound: crashes, failed probes, writes whose answer is lost
  None          \* no entry, no object, no pod

Indices == 0 .. MaxNodes - 1
Entries == [ip : IPs, index : Indices, ready : BOOLEAN, place : Nat]
Lists   == [Nodes -> Entries \cup {None}]
NoMap   == [ip \in {} |-> 0]
Tasks   == {"ensure", "sync"}
Nobody  == [n \in Nodes |-> None]

ASSUME MembershipAssumption ==
  /\ IsFiniteSet(Nodes)
  /\ MaxNodes \in Nat \ {0} /\ NumNodes \in Nat
  /\ MaxPods \in Nat /\ MaxStarts \in Nat /\ MaxFaults \in Nat
  /\ DOMAIN CliqueOf = Nodes
  /\ GateSets \subseteq [cliques : BOOLEAN, dns : BOOLEAN]
  /\ SharedNodes \subseteq Nodes
  /\ None \notin IPs \cup Entries \cup Lists

VARIABLES
  gates,     \* the feature gates of this cluster
  object,    \* the list of daemons in the shared object, or None
  fresh,     \* daemons that have the current version of it
  view,      \* [Nodes -> Lists \cup {None}] cached copies
  pod,       \* [Nodes -> IPs \cup {None}] the daemon pod of a node
  podsSeen,  \* [Nodes -> IPs \cup {None}] the controller's pod cache
  others,    \* nodes with another domain's daemon pod in that cache
  ready,     \* nodes whose daemon pod is ready
  phase,     \* [Nodes -> {"down", "run", "cancelled"}] the daemon process
  todo,      \* [Nodes -> SUBSET Tasks] its work queue, by key
  previous,  \* [Nodes -> Lists] previousDaemons
  sending,   \* nodes whose worker is blocked on updatedDaemonsChan
  looping,   \* nodes whose update loop runs
  config,    \* [Nodes -> ...] IP to index, as last given to the IMEX child
  podsMade, starts, faults

daemonVars == <<starts, phase, todo, previous, sending, looping, config>>
podVars    == <<pod, podsSeen, others, podsMade>>
vars == <<gates, object, fresh, view, ready, faults, podVars, daemonVars>>

-----------------------------------------------------------------------------
(* The list of daemons, as a function of the node: nobody has two entries. *)
(* place is the position in the list.                                      *)

Listed(list) == {n \in Nodes : list[n] # None}
Peers(n)     == {m \in Nodes : CliqueOf[m] = CliqueOf[n]}

(***************************************************************************)
(* getIPSetForClique, and getIPSet where all nodes have the same clique.   *)
(***************************************************************************)
IPSet(list, n) == {list[m].ip : m \in Listed(list) \cap Peers(n)}

UsedIndices(list, n) == {list[m].index : m \in Listed(list) \cap Peers(n)}

\* Faulty variant: the number of daemons is the next index.
NextIndexByCount(list, n, i) ==
  i \in Indices /\ i = Cardinality(Listed(list) \cap Peers(n))

(***************************************************************************)
(* The index that getNextAvailableIndex returns, if there is one.          *)
(***************************************************************************)
NextIndex(list, n, i) ==
  /\ i \in Indices \ UsedIndices(list, n)
  /\ \A j \in 0 .. i - 1 : j \in UsedIndices(list, n)

Insert(list, n, i) ==
  [list EXCEPT ![n] = [ip |-> pod[n], index |-> i, ready |-> FALSE,
                       place |-> Cardinality(Listed(list)) + 1]]

Without(list, S) ==
  [n \in Nodes |->
     IF n \in S \/ list[n] = None THEN None
     ELSE [list[n] EXCEPT !.place =
             Cardinality({m \in Listed(list) \ S : list[m].place <= @})]]

(***************************************************************************)
(* The mapping UpdateDNSNameMappings builds: of two entries with one IP    *)
(* the later one counts. Without DNS names only the IPs are written.       *)
(***************************************************************************)
Last(list, S) == CHOOSE m \in S : \A k \in S : list[k].place <= list[m].place

Mapping(list, n) ==
  [a \in IPSet(list, n) |->
     list[Last(list, {m \in Listed(list) \cap Peers(n) : list[m].ip = a})].index]

-----------------------------------------------------------------------------
(* Writes.                                                                 *)

\* Faulty variant: the write does not carry the version it is based on.
UpdateBlind(n, list) ==
  /\ object' = list
  /\ fresh' = {n}
  /\ view' = [view EXCEPT ![n] = list]
  /\ UNCHANGED faults

(***************************************************************************)
(* An Update based on the current version. The mutation cache shows a      *)
(* daemon its own write at once.                                           *)
(***************************************************************************)
Update(n, list) ==
  /\ n \in fresh
  /\ object' = list
  /\ fresh' = {n}
  /\ view' = [view EXCEPT ![n] = list]
  /\ UNCHANGED faults

(***************************************************************************)
(* An Update that the API server applies and whose answer is lost.         *)
(***************************************************************************)
UpdateLost(n, list) ==
  /\ faults < MaxFaults
  /\ n \in fresh
  /\ object' = list
  /\ fresh' = {}
  /\ faults' = faults + 1
  /\ UNCHANGED view

-----------------------------------------------------------------------------
(* The daemon: informer, work queue and callbacks.                         *)

Idle(n) == phase[n] = "run" /\ n \notin sending

(***************************************************************************)
(* run and Start: the informers list, and their add events are queued.     *)
(***************************************************************************)
Start(n) ==
  /\ phase[n] = "down" /\ pod[n] # None /\ starts < MaxStarts
  /\ starts' = starts + 1
  /\ phase' = [phase EXCEPT ![n] = "run"]
  /\ view' = [view EXCEPT ![n] = object]
  /\ fresh' = fresh \cup {n}
  /\ todo' = [todo EXCEPT ![n] =
        (IF gates.cliques THEN {"ensure"} ELSE {}) \cup
        (IF object # None THEN {"sync"} ELSE {})]
  /\ previous' = [previous EXCEPT ![n] = Nobody]
  /\ looping' = looping \cup {n}
  /\ config' = [config EXCEPT ![n] = NoMap]
  /\ UNCHANGED <<gates, object, ready, faults, podVars, sending>>

\* Faulty variant: only the add event is handled.
DeliverAddOnly(n) ==
  /\ phase[n] = "run" /\ n \notin fresh
  /\ view' = [view EXCEPT ![n] = object]
  /\ fresh' = fresh \cup {n}
  /\ todo' = [todo EXCEPT ![n] = @ \cup (IF view[n] = None THEN {"sync"} ELSE {})]
  /\ UNCHANGED <<gates, object, ready, faults, podVars, starts, phase, previous,
                 sending, looping, config>>

(***************************************************************************)
(* The informer of the daemon delivers the current object.                 *)
(***************************************************************************)
Deliver(n) ==
  /\ phase[n] = "run" /\ n \notin fresh
  /\ view' = [view EXCEPT ![n] = object]
  /\ fresh' = fresh \cup {n}
  /\ todo' = [todo EXCEPT ![n] = @ \cup {"sync"}]
  /\ UNCHANGED <<gates, object, ready, faults, podVars, starts, phase, previous,
                 sending, looping, config>>

(***************************************************************************)
(* ensureCliqueExists. A create that meets another daemon's fails and is   *)
(* retried until the informer shows the clique.                            *)
(***************************************************************************)
EnsureCliqueExists(n) ==
  /\ Idle(n) /\ "ensure" \in todo[n]
  /\ \/ /\ view[n] # None
        /\ todo' = [todo EXCEPT ![n] = @ \ {"ensure"}]
        /\ UNCHANGED <<object, fresh, view, faults>>
     \/ /\ view[n] = None /\ object = None
        /\ \/ /\ Update(n, Nobody)
              /\ todo' = [todo EXCEPT ![n] = (@ \ {"ensure"}) \cup {"sync"}]
           \/ UpdateLost(n, Nobody) /\ UNCHANGED todo
  /\ UNCHANGED <<gates, ready, podVars, starts, phase, previous, sending, looping,
                 config>>

(***************************************************************************)
(* maybePushDaemonsUpdate, maybePushNodesUpdate: the IP sets are compared. *)
(* The send blocks the worker until the update loop takes the list.        *)
(***************************************************************************)
Complete(list) ==
  (~gates.cliques /\ ~gates.dns) => Cardinality(Listed(list)) = NumNodes

Push(n, list) ==
  IF Complete(list) /\ IPSet(list, n) # IPSet(previous[n], n)
  THEN /\ previous' = [previous EXCEPT ![n] = list]
       /\ sending' = sending \cup {n}
  ELSE UNCHANGED <<previous, sending>>

\* Faulty variant: only a write of its own makes a daemon push the list.
SyncNoopSilent(n) ==
  /\ Idle(n) /\ "sync" \in todo[n]
  /\ view[n] # None
  /\ view[n][n] # None /\ view[n][n].ip = pod[n]
  /\ todo' = [todo EXCEPT ![n] = @ \ {"sync"}]
  /\ UNCHANGED <<gates, object, fresh, view, ready, faults, podVars, starts, phase,
                 previous, sending, looping, config>>

(***************************************************************************)
(* onAddOrUpdate when the object lists this node with its IP: nothing is   *)
(* written, and a change of the others is passed on.                       *)
(***************************************************************************)
SyncNoop(n) ==
  /\ Idle(n) /\ "sync" \in todo[n]
  /\ view[n] # None
  /\ view[n][n] # None /\ view[n][n].ip = pod[n]
  /\ todo' = [todo EXCEPT ![n] = @ \ {"sync"}]
  /\ Push(n, view[n])
  /\ UNCHANGED <<gates, object, fresh, view, ready, faults, podVars, starts, phase,
                 looping, config>>

(***************************************************************************)
(* syncDaemonInfoToClique, syncNodeInfoToCD: a new entry, or the new IP of *)
(* an old one. The event of the own write queues the callback again.       *)
(***************************************************************************)
NewLists(n) ==
  IF view[n][n] = None
  THEN {Insert(view[n], n, i) : i \in {j \in Indices : NextIndex(view[n], n, j)}}
  ELSE {[view[n] EXCEPT ![n].ip = pod[n]]}

SyncDaemonInfo(n) ==
  /\ Idle(n) /\ "sync" \in todo[n]
  /\ view[n] # None
  /\ \/ view[n][n] = None
     \/ view[n][n] # None /\ view[n][n].ip # pod[n]
  /\ \E list \in NewLists(n) :
        \/ Update(n, list) /\ Push(n, list)
        \/ UpdateLost(n, list) /\ UNCHANGED <<previous, sending>>
  /\ UNCHANGED <<gates, ready, podVars, starts, phase, todo, looping, config>>

(***************************************************************************)
(* updateDaemonStatus, updateNodeStatus: on an event of the own pod, and   *)
(* again at every resync of the pod informer, which can be at any time. A  *)
(* daemon that is not listed yet fails and is retried.                     *)
(***************************************************************************)
UpdateDaemonStatus(n) ==
  /\ Idle(n)
  /\ view[n] # None /\ view[n][n] # None
  /\ view[n][n].ready # (n \in ready)
  /\ LET list == [view[n] EXCEPT ![n].ready = n \in ready]
     IN \/ /\ Update(n, list)
           /\ todo' = [todo EXCEPT ![n] = @ \cup {"sync"}]
        \/ UpdateLost(n, list) /\ UNCHANGED todo
  /\ UNCHANGED <<gates, ready, podVars, starts, phase, previous, sending,
                 looping, config>>

-----------------------------------------------------------------------------
(* The update loop, and the end of a daemon.                               *)

(***************************************************************************)
(* The update loop takes the list and rewrites the configuration of the    *)
(* IMEX child. Once the context is done it may also choose to end.         *)
(***************************************************************************)
ReceiveUpdate(n) ==
  /\ n \in sending /\ n \in looping
  /\ config' = [config EXCEPT ![n] = Mapping(previous[n], n)]
  /\ sending' = sending \ {n}
  /\ UNCHANGED <<gates, object, fresh, view, ready, faults, podVars, starts, phase,
                 todo, previous, looping>>

LoopEnds(n) ==
  /\ phase[n] = "cancelled" /\ n \in looping
  /\ looping' = looping \ {n}
  /\ UNCHANGED <<gates, object, fresh, view, ready, faults, podVars, starts, phase,
                 todo, previous, sending, config>>

(***************************************************************************)
(* The context ends: a signal, or a fatal error of one of the tasks.       *)
(***************************************************************************)
Cancel(n) ==
  /\ phase[n] = "run"
  /\ phase' = [phase EXCEPT ![n] = "cancelled"]
  /\ UNCHANGED <<gates, object, fresh, view, ready, faults, podVars, starts, todo,
                 previous, sending, looping, config>>

Exit(n) ==
  /\ phase' = [phase EXCEPT ![n] = "down"]
  /\ view' = [view EXCEPT ![n] = None]
  /\ todo' = [todo EXCEPT ![n] = {}]
  /\ previous' = [previous EXCEPT ![n] = Nobody]
  /\ sending' = sending \ {n}
  /\ looping' = looping \ {n}
  /\ config' = [config EXCEPT ![n] = NoMap]
  /\ ready' = ready \ {n}
  /\ UNCHANGED <<gates, podVars, starts>>

(***************************************************************************)
(* Stop: entries with the IP of this pod are removed. The write is tried   *)
(* once; it fails if the copy, which no informer updates any more, is old. *)
(***************************************************************************)
OwnEntries(n) == {m \in Listed(view[n]) : view[n][m].ip = pod[n]}

Stop(n) ==
  /\ phase[n] = "cancelled" /\ n \notin sending
  /\ \/ /\ view[n] = None \/ n \notin fresh
        /\ object' = object /\ fresh' = fresh \ {n}
     \/ /\ view[n] # None /\ n \in fresh
        /\ object' = Without(object, OwnEntries(n))
        /\ fresh' = IF object' = object THEN fresh \ {n} ELSE {}
  /\ Exit(n)
  /\ UNCHANGED faults

(***************************************************************************)
(* The container is killed: at the end of the grace period, or any time.   *)
(***************************************************************************)
KillCancelled(n) ==
  /\ phase[n] = "cancelled"
  /\ Exit(n)
  /\ fresh' = fresh \ {n}
  /\ UNCHANGED <<object, faults>>

Crash(n) ==
  /\ phase[n] = "run" /\ faults < MaxFaults
  /\ faults' = faults + 1
  /\ Exit(n)
  /\ fresh' = fresh \ {n}
  /\ UNCHANGED object

-----------------------------------------------------------------------------
(* Kubernetes: pods and their readiness; the controller.                   *)

Managed(n) == ~gates.cliques \/ CliqueOf[n] = Clique

CreatePod(n) ==
  /\ Managed(n) /\ pod[n] = None /\ podsMade < MaxPods
  /\ \E a \in IPs \ {pod[m] : m \in Nodes} : pod' = [pod EXCEPT ![n] = a]
  /\ podsMade' = podsMade + 1
  /\ UNCHANGED <<gates, object, fresh, view, ready, faults, podsSeen, others,
                 daemonVars>>

DeletePod(n) ==
  /\ pod[n] # None /\ phase[n] = "down"
  /\ pod' = [pod EXCEPT ![n] = None]
  /\ UNCHANGED <<gates, object, fresh, view, ready, faults, podsSeen, others,
                 podsMade, daemonVars>>

(***************************************************************************)
(* The probes run check: the pod becomes ready once the IMEX child was     *)
(* started, and may cease to be.                                           *)
(***************************************************************************)
Probe(n) ==
  /\ phase[n] = "run" /\ config[n] # NoMap
  /\ \/ n \notin ready /\ ready' = ready \cup {n} /\ UNCHANGED faults
     \/ /\ n \in ready /\ ready' = ready \ {n}
        /\ faults < MaxFaults /\ faults' = faults + 1
  /\ UNCHANGED <<gates, object, fresh, view, podVars, daemonVars>>

DeliverPods ==
  /\ podsSeen # pod
  /\ podsSeen' = pod
  /\ UNCHANGED <<gates, object, fresh, view, ready, faults, pod, others, podsMade,
                 daemonVars>>

(***************************************************************************)
(* The same cache has the daemon pods of every ComputeDomain. Those of the *)
(* others come and go as their domains do.                                 *)
(***************************************************************************)
DeliverOthers(n) ==
  /\ gates.cliques /\ n \in SharedNodes
  /\ others' = IF n \in others THEN others \ {n} ELSE others \cup {n}
  /\ UNCHANGED <<gates, object, fresh, view, ready, faults, pod, podsSeen, podsMade,
                 daemonVars>>

\* Faulty variant: ready daemons are taken to be alive.
StaleNotReady(list) ==
  {n \in Listed(list) : podsSeen[n] = None /\ n \notin others /\ ~list[n].ready}

(***************************************************************************)
(* sync: cleanupClique removes entries of nodes without a daemon pod, of   *)
(* whichever domain; getNonStaleFabricNodes those whose IP no daemon pod   *)
(* of this domain has. The controller too works on a copy, which it only   *)
(* reads to write it: a write based on an old one is refused, and the      *)
(* action is the one that succeeds. Its cache of the pods may be behind.   *)
(***************************************************************************)
Stale(list) ==
  IF gates.cliques
  THEN {n \in Listed(list) : podsSeen[n] = None /\ n \notin others}
  ELSE {n \in Listed(list) : \A m \in Nodes : podsSeen[m] # list[n].ip}

RemoveStale ==
  /\ object # None /\ Stale(object) # {}
  /\ \/ /\ \A n \in Stale(object) : pod[n] = None
        /\ UNCHANGED faults
     \/ /\ \E n \in Stale(object) : pod[n] # None
        /\ faults < MaxFaults /\ faults' = faults + 1
  /\ object' = Without(object, Stale(object))
  /\ fresh' = {}
  /\ UNCHANGED <<gates, view, ready, podVars, daemonVars>>

-----------------------------------------------------------------------------
Init ==
  /\ gates \in GateSets
  /\ object = IF gates.cliques THEN None ELSE Nobody
  /\ fresh = {}
  /\ view = [n \in Nodes |-> None]
  /\ pod = Nobody /\ podsSeen = Nobody /\ others = {} /\ ready = {}
  /\ phase = [n \in Nodes |-> "down"]
  /\ todo = [n \in Nodes |-> {}]
  /\ previous = [n \in Nodes |-> Nobody]
  /\ sending = {} /\ looping = {}
  /\ config = [n \in Nodes |-> NoMap]
  /\ podsMade = 0 /\ starts = 0 /\ faults = 0

Daemon(n) ==
  \/ Start(n) \/ Deliver(n)
  \/ EnsureCliqueExists(n) \/ SyncNoop(n) \/ SyncDaemonInfo(n)
  \/ UpdateDaemonStatus(n)
  \/ ReceiveUpdate(n) \/ LoopEnds(n) \/ Cancel(n) \/ Stop(n)
  \/ KillCancelled(n) \/ Crash(n)

Next ==
  \/ \E n \in Nodes : \/ Daemon(n) \/ CreatePod(n) \/ DeletePod(n)
                      \/ Probe(n) \/ DeliverOthers(n)
  \/ DeliverPods \/ RemoveStale

Spec == Init /\ [][Next]_vars

(***************************************************************************)
(* Goroutines run, informers catch up and repeat, containers are started,  *)
(* the grace period ends, the controller syncs. Weak fairness is enough,   *)
(* also for writes that may conflict, as long as the others' writes end.   *)
(* Crashes, probes, signals and the life of pods are under no obligation.  *)
(***************************************************************************)
Fairness ==
  /\ \A n \in Nodes :
       /\ WF_vars(Start(n)) /\ WF_vars(Deliver(n))
       /\ WF_vars(EnsureCliqueExists(n)) /\ WF_vars(SyncNoop(n))
       /\ WF_vars(SyncDaemonInfo(n)) /\ WF_vars(UpdateDaemonStatus(n))
       /\ WF_vars(ReceiveUpdate(n)) /\ WF_vars(KillCancelled(n))
  /\ WF_vars(DeliverPods) /\ WF_vars(RemoveStale)

FairSpec == Spec /\ Fairness

-----------------------------------------------------------------------------
(* Properties.                                                             *)

TypeOK ==
  /\ gates \in GateSets
  /\ object \in Lists \cup {None}
  /\ fresh \subseteq Nodes
  /\ view \in [Nodes -> Lists \cup {None}]
  /\ pod \in [Nodes -> IPs \cup {None}]
  /\ podsSeen \in [Nodes -> IPs \cup {None}]
  /\ others \subseteq SharedNodes
  /\ ready \subseteq Nodes /\ sending \subseteq Nodes /\ looping \subseteq Nodes
  /\ phase \in [Nodes -> {"down", "run", "cancelled"}]
  /\ todo \in [Nodes -> SUBSET Tasks]
  /\ previous \in [Nodes -> Lists]
  /\ DOMAIN config = Nodes /\ \A n \in Nodes : DOMAIN config[n] \subseteq IPs
  /\ podsMade \in 0 .. MaxPods /\ starts \in 0 .. MaxStarts /\ faults \in 0 .. MaxFaults

(***************************************************************************)
(* No two daemons of a clique have the same index, and so the same DNS     *)
(* name, although each chooses its own from a copy (getNextAvailableIndex).*)
(***************************************************************************)
IndexUnique ==
  object # None =>
    \A m, n \in Listed(object) :
       (m # n /\ CliqueOf[m] = CliqueOf[n]) => object[m].index # object[n].index

(***************************************************************************)
(* While a daemon runs, and the controller knows of its pod, nobody takes  *)
(* its entry or its index away: DNS names of existing daemons are stable   *)
(* (comment of getNextAvailableIndex).                                     *)
(***************************************************************************)
Present(n) ==
  object # None /\ object[n] # None /\ object[n].ip = pod[n]

NameStable ==
  [][\A n \in Nodes :
       (Present(n) /\ phase[n] = "run" /\ phase'[n] = "run" /\ podsSeen[n] = pod[n])
         => Present(n)' /\ object'[n].index = object[n].index]_vars

(***************************************************************************)
(* A daemon that has nothing left to do has given its IMEX child exactly   *)
(* the peers of its clique (maybePushDaemonsUpdate and the update loop).   *)
(***************************************************************************)
Settled(n) ==
  /\ Idle(n) /\ n \in fresh /\ object # None
  /\ todo[n] \cap {"ensure", "sync"} = {}

PeersKnown ==
  \A n \in Nodes :
    (Settled(n) /\ Complete(object)) =>
       DOMAIN config[n] = IPSet(object, n)

(***************************************************************************)
(* A daemon that keeps running is listed in the end, with its IP and its   *)
(* readiness, if there are no more pods than indices: entries left by      *)
(* others do not use up the indices for good, and conflicts, lost answers  *)
(* and the controller's cleanup are overcome. An entry that is taken for   *)
(* the entry of another pod does stay: with the gate on while a daemon of  *)
(* another domain is on the node, with the gate off while another pod of   *)
(* this domain has the IP.                                                 *)
(***************************************************************************)
Mistaken(m) ==
  /\ object # None /\ object[m] # None
  /\ IF gates.cliques THEN m \in others
     ELSE \E k \in Nodes \ {m} : pod[k] = object[m].ip

Capacity(n) ==
  Cardinality({m \in Peers(n) : pod[m] # None \/ Mistaken(m)}) <= MaxNodes

DaemonListed ==
  \A n \in Nodes :
    []<>((phase[n] = "run" /\ Capacity(n))
           => Present(n) /\ object[n].ready = (n \in ready))

(***************************************************************************)
(* The entry of a pod that is gone does not stay: however a daemon ended,  *)
(* its own Stop or the controller removes it, unless it is taken for the   *)
(* entry of another pod time and again.                                    *)
(***************************************************************************)
Abandoned(n) ==
  object # None /\ object[n] # None /\ pod[n] = None /\ ~Mistaken(n)

NothingAbandoned == \A n \in Nodes : []<>~Abandoned(n)

=============================================================================
