--------------------------- MODULE DomainController ---------------------------
(***************************************************************************)
(* The compute-domain controller (src/cmd/compute-domain-controller): the  *)
(* life of one ComputeDomain and of the three objects it owns, a           *)
(* ResourceClaimTemplate for workloads, a DaemonSet, and the               *)
(* ResourceClaimTemplate of its pods.                                      *)
(*                                                                         *)
(* A work queue runs the handler of the domain; a cleanup worker for each  *)
(* kind of object removes those whose domain is gone.  All of them read    *)
(* informer caches that lag behind the API server, through a mutation      *)
(* cache that knows the writes of this process.  Calls fail, or succeed    *)
(* without an answer, or take effect after the answer was given up; the    *)
(* process can end at any step, and the next leader starts from fresh      *)
(* caches.                                                                 *)
(***************************************************************************)
EXTENDS Naturals, Sequences

CONSTANTS
  MaxFaults,  \* bound on failed calls
  MaxStops,   \* bound on the times a leader stops
  MaxLabels,  \* bound on the times a node is labelled
  None

Objects == {"workload", "template", "daemonSet"}

\* The goroutines: the work queue, and a cleanup worker for each kind.
Threads == Objects \cup {"handler"}

VARIABLES
  cd,       \* the domain: "none", "new", "live", "deleting" or "gone"
  server,   \* the objects at the API server, with resource versions
  label,    \* some node has the label of the domain
  up,       \* a process leads
  cdCache,  \* its informer cache of domains
  cache,    \* its informer caches of the objects
  mutation, \* its mutation caches of the objects
  todo,     \* the calls each goroutine has left
  late,     \* creations that were given up and may still take effect
  lost,     \* history: creations the process has no answer to
  labels, stops, faults

apiVars == <<cd, server, label>>
cacheVars == <<cdCache, cache, mutation>>
bounds == <<labels, stops, faults>>
vars == <<apiVars, up, cacheVars, todo, late, lost, bounds>>

\* "new" is a domain without the finalizer; "deleting" has a deletion
\* timestamp, and the finalizer.
DomainStates == {"none", "new", "live", "deleting", "gone"}

\* An object has its finalizer from the start.  "released" is the copy of a
\* deleting one without it that RemoveFinalizer leaves in the mutation cache.
ObjectStates == {"absent", "live", "deleting"}

Versions == [st : ObjectStates, rv : Nat]

Written == [st : ObjectStates \cup {"released"}, rv : Nat]

Absent == [st |-> "absent", rv |-> 0]

ASSUME ConstantsAssumption ==
  /\ MaxFaults \in Nat /\ MaxStops \in Nat /\ MaxLabels \in Nat
  /\ None \notin Objects \cup Written

Init ==
  /\ cd = "none"
  /\ server = [o \in Objects |-> Absent]
  /\ label = FALSE
  /\ up = FALSE
  /\ cdCache = "none"
  /\ cache = [o \in Objects |-> Absent]
  /\ mutation = [o \in Objects |-> None]
  /\ todo = [t \in Threads |-> <<>>]
  /\ late = {}
  /\ lost = {}
  /\ labels = 0 /\ stops = 0 /\ faults = 0

Fault == faults < MaxFaults /\ faults' = faults + 1

-----------------------------------------------------------------------------
(* Caches.                                                                 *)

\* Faulty variant: the informer cache as it is.
Cached(o) == cache[o]

\* getByComputeDomainUID on the mutation cache: what this process wrote counts
\* while it is newer than what the informer has, and also when the informer has
\* no such object.
View(o) ==
  IF mutation[o] # None /\ (cache[o].st = "absent" \/ mutation[o].rv > cache[o].rv)
    THEN mutation[o]
    ELSE cache[o]

DeliverDomain ==
  /\ up /\ cdCache # cd
  /\ cdCache' = cd
  /\ UNCHANGED <<apiVars, up, cache, mutation, todo, late, lost, bounds>>

Deliver(o) ==
  /\ up /\ cache[o] # server[o]
  /\ cache' = [cache EXCEPT ![o] = server[o]]
  /\ UNCHANGED <<apiVars, up, cdCache, mutation, todo, late, lost, bounds>>

\* An entry goes when the informer was found to be as new, or with its TTL of
\* an hour, in which the informer catches up.
Expire(o) ==
  /\ up /\ mutation[o] # None /\ cache[o].rv >= mutation[o].rv
  /\ mutation' = [mutation EXCEPT ![o] = None]
  /\ UNCHANGED <<apiVars, up, cdCache, cache, todo, late, lost, bounds>>

-----------------------------------------------------------------------------
(* The calls of a goroutine, one step each.                                *)

Call(op, o) == [op |-> op, of |-> o]

Ops == {"find", "delete", "labels", "release", "assert", "finalize",
        "finalizer", "lookup", "create"}

\* Faulty variant: the finalizer of the DaemonSet stays.
TeardownWithoutRelease ==
  <<Call("delete", "workload"),
    Call("find", "daemonSet"), Call("delete", "template"), Call("delete", "daemonSet"),
    Call("labels", None),
    Call("release", "workload"), Call("assert", "workload"),
    Call("release", "template"),
    Call("assert", "template"), Call("assert", "daemonSet"),
    Call("finalize", None)>>

\* ComputeDomainManager.onAddOrUpdate of a domain that is being deleted.
Teardown ==
  <<Call("delete", "workload"),
    Call("find", "daemonSet"), Call("delete", "template"), Call("delete", "daemonSet"),
    Call("labels", None),
    Call("release", "workload"), Call("assert", "workload"),
    Call("release", "template"), Call("release", "daemonSet"),
    Call("assert", "template"), Call("assert", "daemonSet"),
    Call("finalize", None)>>

\* The same of a domain that is not.
Setup ==
  <<Call("lookup", "daemonSet"), Call("create", "template"),
    Call("create", "daemonSet"), Call("create", "workload")>>

\* Faulty variant: the finalizers stay.
CleanupDeletes(o) == <<Call("delete", o)>>

\* The callbacks of the cleanup workers.
CleanupCalls(o) ==
  IF o = "daemonSet"
    THEN <<Call("find", "daemonSet"), Call("delete", "template"), Call("delete", "daemonSet"),
           Call("release", "template"), Call("release", "daemonSet")>>
    ELSE <<Call("delete", o), Call("release", o)>>

At(t, op) == up /\ todo[t] # <<>> /\ Head(todo[t]).op = op

Object(t) == Head(todo[t]).of

\* The call is done, and n that depend on it are skipped.
Proceed(t, n) == todo' = [todo EXCEPT ![t] = SubSeq(@, n + 2, Len(@))]

\* An error ends the handler, which is queued again, or the callback.
Return(t) == todo' = [todo EXCEPT ![t] = <<>>]

\* The queue has the domain again after every event, every error and every
\* resync; addFinalizer is the first call for one that has no finalizer.
Handle ==
  /\ up /\ todo["handler"] = <<>>
  /\ \/ /\ cdCache = "deleting"
        /\ todo' = [todo EXCEPT !["handler"] = Teardown]
     \/ /\ cdCache = "live"
        /\ todo' = [todo EXCEPT !["handler"] = Setup]
     \/ /\ cdCache = "new"
        /\ todo' = [todo EXCEPT !["handler"] = <<Call("finalizer", None)>> \o Setup]
  /\ UNCHANGED <<apiVars, up, cacheVars, late, lost, bounds>>

\* Faulty variant: the domain is not looked up.
CleanupAny(o) ==
  /\ up /\ todo[o] = <<>>
  /\ cache[o].st # "absent"
  /\ todo' = [todo EXCEPT ![o] = CleanupCalls(o)]
  /\ UNCHANGED <<apiVars, up, cacheVars, late, lost, bounds>>

\* CleanupManager.cleanup of an object whose domain is not cached.
Cleanup(o) ==
  /\ up /\ todo[o] = <<>>
  /\ cache[o].st # "absent"
  /\ cdCache \in {"none", "gone"}
  /\ todo' = [todo EXCEPT ![o] = CleanupCalls(o)]
  /\ UNCHANGED <<apiVars, up, cacheVars, late, lost, bounds>>

\* DaemonSetManager.Delete returns when there is no DaemonSet, and leaves the
\* template that was created for one.
Find(t) ==
  /\ At(t, "find")
  /\ Proceed(t, IF View("daemonSet").st = "absent" THEN 2 ELSE 0)
  /\ UNCHANGED <<apiVars, up, cacheVars, late, lost, bounds>>

\* The deletion of an object that is gone is not an error.
Delete(t) ==
  LET o == Object(t) IN
  /\ At(t, "delete")
  /\ server' = IF View(o).st = "live" /\ server[o].st = "live"
                 THEN [server EXCEPT ![o] = [st |-> "deleting", rv |-> @.rv + 1]]
                 ELSE server
  /\ Proceed(t, 0)
  /\ UNCHANGED <<cd, label, up, cacheVars, late, lost, bounds>>

\* RemoveFinalizer: an update of the copy in the cache, which must be current.
\* Without its last finalizer an object that is being deleted is gone.
Release(t) ==
  LET o == Object(t) IN
  /\ At(t, "release")
  /\ \/ /\ View(o).st \in {"absent", "released"}
        /\ Proceed(t, 0)
        /\ UNCHANGED <<server, mutation>>
     \/ /\ View(o).st = "live" \/ (View(o).st = "deleting" /\ View(o) # server[o])
        /\ Return(t)
        /\ UNCHANGED <<server, mutation>>
     \/ /\ View(o).st = "deleting" /\ View(o) = server[o]
        /\ server' = [server EXCEPT ![o] = [st |-> "absent", rv |-> @.rv + 1]]
        /\ mutation' = [mutation EXCEPT ![o] = [st |-> "released", rv |-> View(o).rv]]
        /\ Proceed(t, 0)
  /\ UNCHANGED <<cd, label, up, cdCache, cache, late, lost, bounds>>

\* AssertRemoved looks at the informer, not at the mutation cache.
AssertRemoved(t) ==
  /\ At(t, "assert")
  /\ IF cache[Object(t)].st = "absent" THEN Proceed(t, 0) ELSE Return(t)
  /\ UNCHANGED <<apiVars, up, cacheVars, late, lost, bounds>>

\* RemoveComputeDomainLabels lists the nodes at the API server.
RemoveLabels(t) ==
  /\ At(t, "labels")
  /\ label' = FALSE
  /\ Proceed(t, 0)
  /\ UNCHANGED <<cd, server, up, cacheVars, late, lost, bounds>>

\* ComputeDomainManager.RemoveFinalizer, with the domain as it is cached now.
RemoveFinalizer(t) ==
  /\ At(t, "finalize")
  /\ cd' = IF cdCache = "deleting" /\ cd = "deleting" THEN "gone" ELSE cd
  /\ Return(t)
  /\ UNCHANGED <<server, label, up, cacheVars, late, lost, bounds>>

\* addFinalizer fails if the domain has changed since it was cached.
AddFinalizer(t) ==
  /\ At(t, "finalizer")
  /\ IF cd = "new"
       THEN cd' = "live" /\ Proceed(t, 0)
       ELSE UNCHANGED cd /\ Return(t)
  /\ UNCHANGED <<server, label, up, cacheVars, late, lost, bounds>>

\* Faulty variant: a DaemonSet stands for all objects.
LookupAll(t) ==
  /\ At(t, "lookup")
  /\ Proceed(t, IF View("daemonSet").st = "absent" THEN 0 ELSE 3)
  /\ UNCHANGED <<apiVars, up, cacheVars, late, lost, bounds>>

\* DaemonSetManager.Create: no template either when there is a DaemonSet.
Lookup(t) ==
  /\ At(t, "lookup")
  /\ Proceed(t, IF View("daemonSet").st = "absent" THEN 0 ELSE 2)
  /\ UNCHANGED <<apiVars, up, cacheVars, late, lost, bounds>>

Created(o) == [st |-> "live", rv |-> server[o].rv + 1]

\* An object that the process does not see is created; one that it should
\* have seen is an error (AlreadyExists).
Create(t) ==
  LET o == Object(t) IN
  /\ At(t, "create")
  /\ \/ /\ View(o).st # "absent"
        /\ Proceed(t, 0)
        /\ UNCHANGED <<server, mutation>>
     \/ /\ View(o).st = "absent" /\ server[o].st # "absent"
        /\ Return(t)
        /\ UNCHANGED <<server, mutation>>
     \/ /\ View(o).st = "absent" /\ server[o].st = "absent"
        /\ server' = [server EXCEPT ![o] = Created(o)]
        /\ mutation' = [mutation EXCEPT ![o] = Created(o)]
        /\ Proceed(t, 0)
  /\ UNCHANGED <<cd, label, up, cdCache, cache, late, lost, bounds>>

-----------------------------------------------------------------------------
(* Failures, and the cluster around the controller.                        *)

\* A creation that the API server did and the process does not know of, now
\* or when the request arrives late.
CreateUnanswered(t) ==
  LET o == Object(t) IN
  /\ At(t, "create") /\ View(o).st = "absent" /\ server[o].st = "absent"
  /\ Fault /\ Return(t)
  /\ lost' = lost \cup {o}
  /\ \/ server' = [server EXCEPT ![o] = Created(o)] /\ UNCHANGED late
     \/ late' = late \cup {o} /\ UNCHANGED server
  /\ UNCHANGED <<cd, label, up, cacheVars, labels, stops>>

CreateLate(o) ==
  /\ o \in late
  /\ late' = late \ {o}
  /\ server' = IF server[o].st = "absent" THEN [server EXCEPT ![o] = Created(o)] ELSE server
  /\ UNCHANGED <<cd, label, up, cacheVars, todo, lost, bounds>>

CallFails(t) ==
  /\ up /\ todo[t] # <<>> /\ Head(todo[t]).op \notin {"find", "lookup", "assert"}
  /\ Fault /\ Return(t)
  /\ UNCHANGED <<apiVars, up, cacheVars, late, lost, labels, stops>>

\* The lease is lost, or the process ends; the pod starts again.
StopLeading ==
  /\ up /\ stops < MaxStops
  /\ stops' = stops + 1
  /\ up' = FALSE
  /\ todo' = [t \in Threads |-> <<>>]
  /\ mutation' = [o \in Objects |-> None]
  /\ UNCHANGED <<apiVars, cdCache, cache, late, lost, labels, faults>>

\* ComputeDomainManager.Start waits for the caches: first that of domains.
StartLeading ==
  /\ ~ up
  /\ up' = TRUE
  /\ cdCache' = cd
  /\ cache' = server
  /\ UNCHANGED <<apiVars, mutation, todo, late, lost, bounds>>

\* CleanupManager of the nodes, periodic and at every update of a domain.
CleanupLabels ==
  /\ up /\ label /\ cdCache \in {"none", "gone"}
  /\ label' = FALSE
  /\ UNCHANGED <<cd, server, up, cacheVars, todo, late, lost, bounds>>

CreateDomain ==
  /\ cd = "none"
  /\ cd' = "new"
  /\ UNCHANGED <<server, label, up, cacheVars, todo, late, lost, bounds>>

DeleteDomain ==
  /\ cd \in {"new", "live"}
  /\ cd' = IF cd = "new" THEN "gone" ELSE "deleting"
  /\ UNCHANGED <<server, label, up, cacheVars, todo, late, lost, bounds>>

\* The plugin of a node labels it for a claim of the domain, perhaps when the
\* domain is already gone.
LabelNode ==
  /\ cd \notin {"none", "new"} /\ labels < MaxLabels
  /\ labels' = labels + 1
  /\ label' = TRUE
  /\ UNCHANGED <<cd, server, up, cacheVars, todo, late, lost, stops, faults>>

Step(t) ==
  \/ Find(t) \/ Delete(t) \/ Release(t) \/ AssertRemoved(t) \/ RemoveLabels(t)
  \/ RemoveFinalizer(t) \/ AddFinalizer(t) \/ Lookup(t) \/ Create(t)

Informers == DeliverDomain \/ \E o \in Objects : Deliver(o) \/ Expire(o)

Next ==
  \/ Handle
  \/ \E o \in Objects : Cleanup(o) \/ CreateLate(o)
  \/ \E t \in Threads : Step(t) \/ CreateUnanswered(t) \/ CallFails(t)
  \/ Informers \/ CleanupLabels \/ StartLeading \/ StopLeading
  \/ CreateDomain \/ DeleteDomain \/ LabelNode

Spec == Init /\ [][Next]_vars

\* Goroutines run; the queue is given every cached domain at each resync, the
\* cleanup workers run every ten minutes, a watch delivers every object, and
\* there is a leader again.
Fairness ==
  /\ WF_vars(Handle) /\ \A t \in Threads : WF_vars(Step(t))
  /\ \A o \in Objects : WF_vars(Cleanup(o)) /\ WF_vars(Deliver(o)) /\ WF_vars(Expire(o))
  /\ WF_vars(DeliverDomain) /\ WF_vars(CleanupLabels) /\ WF_vars(StartLeading)

FairSpec == Spec /\ Fairness

-----------------------------------------------------------------------------
(* Properties.                                                             *)

TypeOK ==
  /\ cd \in DomainStates
  /\ server \in [Objects -> Versions]
  /\ label \in BOOLEAN
  /\ up \in BOOLEAN
  /\ cdCache \in DomainStates
  /\ cache \in [Objects -> Versions]
  /\ mutation \in [Objects -> Written \cup {None}]
  /\ todo \in [Threads -> Seq([op : Ops, of : Objects \cup {None}])]
  /\ late \subseteq Objects
  /\ lost \subseteq Objects
  /\ labels \in 0..MaxLabels
  /\ stops \in 0..MaxStops
  /\ faults \in 0..MaxFaults

(***************************************************************************)
(* TeardownOrder: the domain goes last: when it is gone none of its        *)
(* objects is left, although AssertRemoved reads an informer that may not  *)
(* have heard of an object yet, except one whose creation had no answer.   *)
(***************************************************************************)
TeardownOrder ==
  cd = "gone" => \A o \in Objects \ lost : server[o].st = "absent"

(***************************************************************************)
(* ObjectsKept: no object of a domain that nobody deleted is deleted,      *)
(* whatever the cleanup workers and a new leader find in their caches.     *)
(***************************************************************************)
ObjectsKept == cd = "live" => \A o \in Objects : server[o].st # "deleting"

\* Setup was given up between the template and its DaemonSet, and the domain
\* is deleted: Delete finds no DaemonSet and leaves the template, whose
\* finalizer is then not removed.
Stuck == server["template"].st = "live" /\ server["daemonSet"].st = "absent"

(***************************************************************************)
(* DomainRemoved: a domain that is deleted goes away, through failed       *)
(* calls, stale caches and changes of the leader, unless its template has  *)
(* no DaemonSet forever.                                                   *)
(***************************************************************************)
DomainRemoved == <>[](cd # "deleting") \/ <>[]Stuck

(***************************************************************************)
(* NothingLeft: what a creation without an answer or a late label leaves   *)
(* behind a domain that is gone is cleaned up.                             *)
(***************************************************************************)
NothingLeft ==
  (cd = "gone") ~> (~ label /\ \A o \in Objects : server[o].st = "absent")

(***************************************************************************)
(* DomainProvisioned: a domain that stays gets all of its objects.         *)
(***************************************************************************)
DomainProvisioned ==
  (cd = "live") ~> (cd # "live" \/ \A o \in Objects : server[o].st = "live")
=============================================================================
