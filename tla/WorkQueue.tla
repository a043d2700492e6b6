------------------------------ MODULE WorkQueue ------------------------------
(***************************************************************************)
(* pkg/workqueue: work items with a callback, retried with a back-off      *)
(* until the callback succeeds or a newer item with the same key was       *)
(* enqueued.  One goroutine (Run) processes the items one at a time;       *)
(* informer handlers and requests enqueue concurrently.                    *)
(*                                                                         *)
(* An element of Items is one *WorkItem: it is enqueued once, by whoever   *)
(* makes it.  The client-go queue underneath (delaying, rate limited,      *)
(* without duplicates) is modelled from how it is used.                    *)
(***************************************************************************)
EXTENDS Naturals, Sequences

CONSTANTS
  Items,    \* work items
  Keys,     \* keys of the items enqueued WithKey
  KeyOf,    \* [Items -> Keys \cup {NoKey}]
  NoKey,    \* the empty key of Enqueue and EnqueueRaw
  None      \* no item

ASSUME QueueAssumption ==
  /\ NoKey \notin Keys
  /\ KeyOf \in [Items -> Keys \cup {NoKey}]
  /\ None \notin Items

VARIABLES
  activeOps,     \* [Keys -> Items \cup {None}]
  delayed,       \* items whose back-off has not elapsed
  queue,         \* items ready to be handed out, in order
  dirty,         \* items added and not yet handed out
  item,          \* the item handed out by Get, or None
  pc,            \* where the goroutine of Run is
  cancelled,     \* the context is done
  shuttingDown,  \* queue.ShutDown was called
  newest,        \* history: [Keys -> the item enqueued last, or None]
  enqueued,      \* history: items enqueued
  succeeded      \* history: items whose callback returned nil

lib  == <<delayed, queue, dirty>>
hist == <<newest, enqueued, succeeded>>
vars == <<activeOps, lib, item, pc, cancelled, shuttingDown, hist>>

Steps == {"select", "get", "callback", "failed", "ok", "done", "returned"}

Keyed(i) == KeyOf[i] # NoKey

Queued(i) == \E n \in 1 .. Len(queue) : queue[n] = i

Pending(i) == i \in delayed \/ Queued(i) \/ i \in dirty \/ item = i

Superseded(i) == Keyed(i) /\ newest[KeyOf[i]] # i

TypeOK ==
  /\ activeOps \in [Keys -> Items \cup {None}]
  /\ delayed \subseteq Items
  /\ queue \in Seq(Items)
  /\ dirty \subseteq Items
  /\ item \in Items \cup {None}
  /\ pc \in Steps
  /\ cancelled \in BOOLEAN
  /\ shuttingDown \in BOOLEAN
  /\ newest \in [Keys -> Items \cup {None}]
  /\ enqueued \subseteq Items
  /\ succeeded \subseteq Items

Init ==
  /\ activeOps = [k \in Keys |-> None]
  /\ delayed = {}
  /\ queue = <<>>
  /\ dirty = {}
  /\ item = None
  /\ pc = "select"
  /\ cancelled = FALSE
  /\ shuttingDown = FALSE
  /\ newest = [k \in Keys |-> None]
  /\ enqueued = {}
  /\ succeeded = {}

-----------------------------------------------------------------------------
(* The client-go queue.                                                    *)

(***************************************************************************)
(* AddRateLimited: the item waits for its back-off; a queue that is        *)
(* shutting down ignores it.                                               *)
(***************************************************************************)
AddRateLimited(i) ==
  delayed' = IF shuttingDown THEN delayed ELSE delayed \cup {i}

(***************************************************************************)
(* The back-off elapses.  An item that is being processed is queued again  *)
(* only when its processing is done.                                       *)
(***************************************************************************)
DelayElapses(i) ==
  /\ i \in delayed
  /\ ~ shuttingDown
  /\ delayed' = delayed \ {i}
  /\ dirty' = dirty \cup {i}
  /\ queue' = IF i \in dirty \/ i = item THEN queue ELSE Append(queue, i)
  /\ UNCHANGED <<activeOps, item, pc, cancelled, shuttingDown, hist>>

\* Faulty variant: the item is not queued again.
DoneForgetful ==
  /\ pc = "done"
  /\ item' = None
  /\ pc' = "select"
  /\ UNCHANGED <<activeOps, lib, cancelled, shuttingDown, hist>>

Done ==
  /\ pc = "done"
  /\ item' = None
  /\ queue' = IF item \in dirty THEN Append(queue, item) ELSE queue
  /\ pc' = "select"
  /\ UNCHANGED <<activeOps, delayed, dirty, cancelled, shuttingDown, hist>>

-----------------------------------------------------------------------------
(* Producers.                                                              *)

(***************************************************************************)
(* Enqueue, EnqueueRaw, EnqueueWithKey, EnqueueRawWithKey: with a key, the *)
(* item becomes the current one and is added under the mutex.              *)
(***************************************************************************)
Enqueue(i) ==
  /\ i \notin enqueued
  /\ activeOps' = IF Keyed(i) THEN [activeOps EXCEPT ![KeyOf[i]] = i]
                  ELSE activeOps
  /\ AddRateLimited(i)
  /\ enqueued' = enqueued \cup {i}
  /\ newest' = IF Keyed(i) THEN [newest EXCEPT ![KeyOf[i]] = i] ELSE newest
  /\ UNCHANGED <<queue, dirty, item, pc, cancelled, shuttingDown, succeeded>>

-----------------------------------------------------------------------------
(* Run and processNextWorkItem.                                            *)

Cancel ==
  /\ ~ cancelled
  /\ cancelled' = TRUE
  /\ UNCHANGED <<activeOps, lib, item, pc, shuttingDown, hist>>

\* Faulty variant: nobody shuts the queue down.
NoShutDown ==
  /\ cancelled
  /\ ~ shuttingDown
  /\ UNCHANGED vars

(***************************************************************************)
(* The goroutine that waits for the context: items that wait for their     *)
(* back-off are dropped.                                                   *)
(***************************************************************************)
ShutDown ==
  /\ cancelled
  /\ ~ shuttingDown
  /\ shuttingDown' = TRUE
  /\ delayed' = {}
  /\ UNCHANGED <<activeOps, queue, dirty, item, pc, cancelled, hist>>

Select ==
  /\ pc = "select"
  /\ pc' = IF cancelled THEN "returned" ELSE "get"
  /\ UNCHANGED <<activeOps, lib, item, cancelled, shuttingDown, hist>>

Get ==
  /\ pc = "get"
  /\ \/ /\ queue # <<>>
        /\ item' = Head(queue)
        /\ queue' = Tail(queue)
        /\ dirty' = dirty \ {Head(queue)}
        /\ pc' = "callback"
     \/ /\ queue = <<>>
        /\ shuttingDown
        /\ pc' = "select"
        /\ UNCHANGED <<item, queue, dirty>>
  /\ UNCHANGED <<activeOps, delayed, cancelled, shuttingDown, hist>>

CallbackFails ==
  /\ pc = "callback"
  /\ pc' = "failed"
  /\ UNCHANGED <<activeOps, lib, item, cancelled, shuttingDown, hist>>

CallbackSucceeds(i) ==
  /\ pc = "callback"
  /\ item = i
  /\ pc' = "ok"
  /\ succeeded' = succeeded \cup {i}
  /\ UNCHANGED <<activeOps, lib, item, cancelled, shuttingDown, newest,
                 enqueued>>

\* Faulty variant: only a current item is retried.
CurrentOnly(i) == Keyed(i) /\ activeOps[KeyOf[i]] = i

(***************************************************************************)
(* A failed item is retried unless another item is current.  An item       *)
(* without a key never finds one.                                          *)
(***************************************************************************)
MayRetry(i) == Keyed(i) => activeOps[KeyOf[i]] \in {None, i}

HandleFailure ==
  /\ pc = "failed"
  /\ \/ /\ MayRetry(item)
        /\ AddRateLimited(item)
     \/ /\ ~ MayRetry(item)
        /\ UNCHANGED delayed
  /\ pc' = "done"
  /\ UNCHANGED <<activeOps, queue, dirty, item, cancelled, shuttingDown, hist>>

\* Faulty variant: the current item is deleted whichever it is.
HandleSuccessAlways ==
  /\ pc = "ok"
  /\ activeOps' = IF Keyed(item) THEN [activeOps EXCEPT ![KeyOf[item]] = None]
                  ELSE activeOps
  /\ pc' = "done"
  /\ UNCHANGED <<lib, item, cancelled, shuttingDown, hist>>

HandleSuccess ==
  /\ pc = "ok"
  /\ activeOps' = IF Keyed(item) /\ activeOps[KeyOf[item]] = item
                    THEN [activeOps EXCEPT ![KeyOf[item]] = None]
                    ELSE activeOps
  /\ pc' = "done"
  /\ UNCHANGED <<lib, item, cancelled, shuttingDown, hist>>

-----------------------------------------------------------------------------
CallbackEnds == CallbackFails \/ \E i \in Items : CallbackSucceeds(i)

RunStep ==
  \/ Select \/ Get \/ CallbackEnds
  \/ HandleFailure \/ HandleSuccess \/ Done

Next ==
  \/ RunStep
  \/ \E i \in Items : Enqueue(i) \/ DelayElapses(i)
  \/ Cancel \/ ShutDown

Spec == Init /\ [][Next]_vars

(***************************************************************************)
(* Goroutines are scheduled, timers fire, callbacks return; an item that   *)
(* is tried again and again succeeds in the end.                           *)
(***************************************************************************)
Fairness ==
  /\ WF_vars(RunStep)
  /\ WF_vars(ShutDown)
  /\ \A i \in Items : WF_vars(DelayElapses(i)) /\ SF_vars(CallbackSucceeds(i))

FairSpec == Spec /\ Fairness

-----------------------------------------------------------------------------
(* Properties.                                                             *)

(***************************************************************************)
(* NothingDropped: while the queue runs, an item that was enqueued and has *)
(* not succeeded is somewhere in the queue, or was superseded by a newer   *)
(* item of its key: neither the failure path nor the library's handling of *)
(* an item that is added while it is processed loses it.                   *)
(***************************************************************************)
NothingDropped ==
  \A i \in enqueued \ succeeded :
     cancelled \/ Superseded(i) \/ Pending(i)

(***************************************************************************)
(* CurrentUntilDone: the newest item of a key is the current one exactly   *)
(* until it has succeeded, so an older item that fails or succeeds in the  *)
(* meantime does not take its place away (processNextWorkItem's two        *)
(* comparisons with activeOps).                                            *)
(***************************************************************************)
CurrentUntilDone ==
  \A k \in Keys :
     (newest[k] # None /\ newest[k] \notin succeeded) => activeOps[k] = newest[k]

(***************************************************************************)
(* SuccessIsFinal: the callback of an item that succeeded is not run again,*)
(* whatever delay, queue and dirty set do with the item.                   *)
(***************************************************************************)
SuccessIsFinal == pc = "callback" => item \notin succeeded

(***************************************************************************)
(* NewestReconciled: every item is eventually reconciled, superseded, or   *)
(* the queue is stopped; an item without a key cannot be superseded.       *)
(***************************************************************************)
NewestReconciled ==
  \A i \in Items :
     (i \in enqueued) ~> (i \in succeeded \/ Superseded(i) \/ cancelled)

(***************************************************************************)
(* RunReturns: when its context ends, Run returns although it may be       *)
(* blocked in Get.                                                         *)
(***************************************************************************)
RunReturns == cancelled ~> (pc = "returned")
=============================================================================
