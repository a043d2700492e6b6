--------------------------- MODULE WorkQueueProofs ---------------------------
(***************************************************************************)
(* Proofs about the work queue, for any number of items and keys.          *)
(***************************************************************************)
EXTENDS WorkQueue, TLAPS

(***************************************************************************)
(* The client-go queue hands out no item twice: the dirty items are the    *)
(* queued ones and, after its retry was decided, the one in process.       *)
(***************************************************************************)
Library ==
  /\ \A m, n \in 1 .. Len(queue) : queue[m] = queue[n] => m = n
  /\ \A n \in 1 .. Len(queue) : queue[n] \in dirty /\ queue[n] # item
  /\ \A i \in dirty : Queued(i) \/ (i = item /\ pc = "done")
  /\ \A i \in delayed : i \notin dirty /\ (i = item => pc = "done")
  /\ shuttingDown => cancelled

(***************************************************************************)
(* Where an item that was handed out, or that has succeeded, can be.       *)
(***************************************************************************)
Progress ==
  /\ item = None <=> pc \in {"select", "get", "returned"}
  /\ delayed \cup dirty \cup succeeded \subseteq enqueued
  /\ item # None => item \in enqueued
  /\ \A i \in succeeded : i \notin delayed /\ i \notin dirty
  /\ pc \in {"callback", "failed"} => item \notin succeeded
  /\ pc = "ok" => item \in succeeded
  /\ (pc = "done" /\ item \notin succeeded) =>
        item \in delayed \/ item \in dirty \/ Superseded(item) \/ cancelled

(***************************************************************************)
(* activeOps has the newest item or none.                                  *)
(***************************************************************************)
Current ==
  /\ \A k \in Keys : activeOps[k] \in {None, newest[k]}
  /\ \A k \in Keys : newest[k] # None =>
        newest[k] \in enqueued /\ KeyOf[newest[k]] = k

Inv == TypeOK /\ Library /\ Progress /\ Current
         /\ CurrentUntilDone /\ NothingDropped

-----------------------------------------------------------------------------
(***************************************************************************)
(* What Append and Tail, on which the library's queue is built, do to the  *)
(* elements of a sequence.                                                 *)
(***************************************************************************)
LEMMA AppendElements ==
  ASSUME NEW S, NEW s \in Seq(S), NEW e \in S
  PROVE  /\ Append(s, e) \in Seq(S)
         /\ Len(Append(s, e)) = Len(s) + 1
         /\ Len(s) \in Nat
         /\ \A n \in 1 .. Len(s) : Append(s, e)[n] = s[n]
         /\ Append(s, e)[Len(s) + 1] = e
OBVIOUS

LEMMA TailElements ==
  ASSUME NEW S, NEW s \in Seq(S), s # <<>>
  PROVE  /\ Tail(s) \in Seq(S)
         /\ Len(Tail(s)) = Len(s) - 1
         /\ Len(s) \in Nat \ {0}
         /\ Head(s) = s[1]
         /\ Head(s) \in S
         /\ \A n \in 1 .. Len(s) - 1 : Tail(s)[n] = s[n + 1]
OBVIOUS

LEMMA InitInv == Init => Inv
<1> SUFFICES ASSUME Init PROVE Inv
  OBVIOUS
<1> USE QueueAssumption DEF Init
<1>0. queue \in Seq(Items) /\ Len(queue) = 0
  OBVIOUS
<1>1. TypeOK
  BY <1>0 DEF TypeOK, Steps
<1>2. Library
  BY <1>0 DEF Library, Queued
<1>3. Progress
  BY DEF Progress
<1>4. Current
  BY DEF Current
<1>5. CurrentUntilDone /\ NothingDropped
  BY DEF CurrentUntilDone, NothingDropped
<1> QED
  BY <1>1, <1>2, <1>3, <1>4, <1>5 DEF Inv

(***************************************************************************)
(* Steps that leave the library's sets alone.                              *)
(***************************************************************************)
LEMMA EnqueueInv ==
  ASSUME Inv, NEW i \in Items, Enqueue(i)
  PROVE  Inv'
<1> USE QueueAssumption DEF Inv, Enqueue, AddRateLimited, Keyed, lib, hist
<1>1. TypeOK'
  BY DEF TypeOK
<1>2. i # item /\ i \notin dirty /\ i \notin succeeded
  BY DEF Progress, TypeOK
<1>3. Library'
  BY <1>2 DEF Library, Queued
<1>4. \A j \in Items : Superseded(j) /\ j # i => Superseded(j)'
  BY DEF Superseded, TypeOK
<1>5. Progress'
  BY <1>2, <1>4 DEF Progress, TypeOK
<1>6. Current'
  BY DEF Current, TypeOK
<1>7. CurrentUntilDone'
  BY <1>2 DEF CurrentUntilDone, Current, TypeOK
<1>8. \A j \in Items : Pending(j) => Pending(j)'
  BY DEF Pending, Queued
<1>9. NothingDropped'
  <2> SUFFICES ASSUME NEW j \in (enqueued \ succeeded)'
               PROVE  cancelled' \/ Superseded(j)' \/ Pending(j)'
    BY DEF NothingDropped
  <2>1. CASE j = i
    BY <2>1 DEF Pending, Library
  <2>2. CASE j # i
    BY <2>2, <1>4, <1>8 DEF NothingDropped, TypeOK
  <2> QED
    BY <2>1, <2>2
<1> QED
  BY <1>1, <1>3, <1>5, <1>6, <1>7, <1>9

LEMMA DelayElapsesInv ==
  ASSUME Inv, NEW i \in Items, DelayElapses(i)
  PROVE  Inv'
<1> USE QueueAssumption DEF Inv, DelayElapses, Keyed, lib, hist
<1>0. /\ i \notin dirty
      /\ i \notin succeeded
      /\ i \in enqueued
      /\ \A n \in 1 .. Len(queue) : queue[n] # i
      /\ i = item => pc = "done"
  BY DEF Library, Progress
<1>1. TypeOK'
  BY AppendElements DEF TypeOK
<1>2. queue \in Seq(Items)
  BY DEF TypeOK
<1>3. \A j \in Items : Queued(j) => Queued(j)'
  BY <1>2, AppendElements DEF Queued
<1>4. i # item => Queued(i)'
  BY <1>0, <1>2, AppendElements DEF Queued
<1>5. Library'
  <2>1. CASE i = item
    BY <2>1, <1>0 DEF Library, Queued
  <2>2. CASE i # item
    <3>1. queue' = Append(queue, i)
      BY <2>2, <1>0
    <3>2. /\ Len(queue') = Len(queue) + 1 /\ Len(queue) \in Nat
          /\ \A n \in 1 .. Len(queue) : queue'[n] = queue[n]
          /\ queue'[Len(queue) + 1] = i
      BY <3>1, <1>2, AppendElements
    <3>3. \A m, n \in 1 .. Len(queue') : queue'[m] = queue'[n] => m = n
      BY <3>2, <1>0 DEF Library
    <3>4. \A n \in 1 .. Len(queue') : queue'[n] \in dirty' /\ queue'[n] # item'
      BY <3>2, <2>2 DEF Library
    <3>5. \A j \in dirty' : Queued(j)' \/ (j = item' /\ pc' = "done")
      BY <1>3, <1>4, <2>2 DEF Library, TypeOK
    <3> QED
      BY <3>3, <3>4, <3>5, <1>0 DEF Library
  <2> QED
    BY <2>1, <2>2
<1>6. Progress'
  BY <1>0 DEF Progress, Superseded
<1>7. Current' /\ CurrentUntilDone'
  BY DEF Current, CurrentUntilDone
<1>8. \A j \in Items : Pending(j) => Pending(j)'
  BY <1>3 DEF Pending
<1>9. NothingDropped'
  BY <1>8 DEF NothingDropped, Superseded, TypeOK
<1> QED
  BY <1>1, <1>5, <1>6, <1>7, <1>9

LEMMA DoneInv ==
  ASSUME Inv, Done
  PROVE  Inv'
<1> USE QueueAssumption DEF Inv, Done, Keyed, lib, hist
<1>0. /\ item \in Items
      /\ queue \in Seq(Items)
      /\ \A n \in 1 .. Len(queue) : queue[n] # item
  BY DEF Library, Progress, TypeOK
<1>1. TypeOK'
  BY <1>0, AppendElements DEF TypeOK, Steps
<1>2. \A j \in Items : Queued(j) => Queued(j)'
  BY <1>0, AppendElements DEF Queued
<1>3. item \in dirty => \E n \in 1 .. Len(queue') : queue'[n] = item
  BY <1>0, AppendElements DEF Queued
<1>3a. \A j \in dirty : Queued(j)'
  BY <1>2, <1>3 DEF Library, TypeOK, Queued
<1>4. Library'
  <2>1. CASE item \notin dirty
    BY <2>1, <1>0, <1>3a DEF Library, Queued, TypeOK
  <2>2. CASE item \in dirty
    <3>1. queue' = Append(queue, item)
      BY <2>2
    <3>2. /\ Len(queue') = Len(queue) + 1 /\ Len(queue) \in Nat
          /\ \A n \in 1 .. Len(queue) : queue'[n] = queue[n]
          /\ queue'[Len(queue) + 1] = item
      BY <3>1, <1>0, AppendElements
    <3>3. \A m, n \in 1 .. Len(queue') : queue'[m] = queue'[n] => m = n
      BY <3>2, <1>0 DEF Library
    <3>4. \A n \in 1 .. Len(queue') : queue'[n] \in dirty' /\ queue'[n] # item'
      BY <3>2, <2>2, <1>0 DEF Library, TypeOK
    <3> QED
      BY <3>3, <3>4, <1>3a DEF Library, TypeOK
  <2> QED
    BY <2>1, <2>2
<1>5. Progress'
  BY DEF Progress
<1>6. Current' /\ CurrentUntilDone'
  BY DEF Current, CurrentUntilDone
<1>7. NothingDropped'
  <2> SUFFICES ASSUME NEW j \in enqueued \ succeeded,
                      ~ cancelled, ~ Superseded(j)
               PROVE  Pending(j)'
    BY DEF NothingDropped, Superseded
  <2>1. Pending(j)
    BY DEF NothingDropped
  <2>2. CASE j = item
    BY <2>2, <1>3a DEF Progress, Pending
  <2>3. CASE j # item
    BY <2>1, <2>3, <1>2 DEF Pending, TypeOK
  <2> QED
    BY <2>2, <2>3
<1> QED
  BY <1>1, <1>4, <1>5, <1>6, <1>7

LEMMA GetInv ==
  ASSUME Inv, Get
  PROVE  Inv'
<1> USE QueueAssumption DEF Inv, Get, Keyed, lib, hist
<1>1. CASE queue = <<>>
  <2>0. pc' = "select" /\ UNCHANGED <<activeOps, lib, item, cancelled,
                                      shuttingDown, hist>>
    BY <1>1 DEF lib
  <2> QED
    BY <2>0 DEF lib, hist, TypeOK, Steps, Library, Progress, Current,
       CurrentUntilDone, NothingDropped, Superseded, Pending, Queued
<1>2. CASE queue # <<>>
  <2> DEFINE h == Head(queue)
  <2>0. /\ queue \in Seq(Items) /\ item = None
        /\ item' = h /\ queue' = Tail(queue) /\ dirty' = dirty \ {h}
        /\ pc' = "callback"
    BY <1>2 DEF TypeOK, Progress
  <2>1. /\ queue' \in Seq(Items) /\ Len(queue') = Len(queue) - 1
        /\ Len(queue) \in Nat \ {0} /\ h = queue[1] /\ h \in Items
        /\ \A n \in 1 .. Len(queue) - 1 : queue'[n] = queue[n + 1]
    BY <2>0, <1>2, TailElements
  <2> HIDE DEF h
  <2>2. h \in dirty /\ h \in enqueued /\ h \notin succeeded /\ h \notin delayed
    BY <2>1 DEF Library, Progress
  <2>3. TypeOK'
    BY <2>0, <2>1 DEF TypeOK, Steps
  <2>4. \A j \in Items : Queued(j) /\ j # h => Queued(j)'
    <3> SUFFICES ASSUME NEW n \in 1 .. Len(queue), queue[n] # h
                 PROVE  \E m \in 1 .. Len(queue') : queue'[m] = queue[n]
      BY DEF Queued
    <3>1. n - 1 \in 1 .. Len(queue') /\ queue'[n - 1] = queue[n]
      BY <2>1
    <3> QED
      BY <3>1
  <2>5. Library'
    <3>1. \A m, n \in 1 .. Len(queue') : queue'[m] = queue'[n] => m = n
      BY <2>1 DEF Library
    <3>2. \A n \in 1 .. Len(queue') : queue'[n] \in dirty' /\ queue'[n] # item'
      BY <2>0, <2>1 DEF Library
    <3>3. \A j \in dirty' : Queued(j)'
      BY <2>0, <2>4 DEF Library, TypeOK
    <3> QED
      BY <3>1, <3>2, <3>3, <2>0, <2>2 DEF Library
  <2>6. Progress'
    BY <2>0, <2>1, <2>2 DEF Progress
  <2>7. Current' /\ CurrentUntilDone'
    BY DEF Current, CurrentUntilDone
  <2>8. NothingDropped'
    BY <2>0, <2>4 DEF NothingDropped, Superseded, Pending, Library, TypeOK
  <2> QED
    BY <2>3, <2>5, <2>6, <2>7, <2>8
<1> QED
  BY <1>1, <1>2

LEMMA HandleFailureInv ==
  ASSUME Inv, HandleFailure
  PROVE  Inv'
<1> USE QueueAssumption DEF Inv, HandleFailure, AddRateLimited, MayRetry, hist,
                            Keyed
<1>0. /\ item \in Items /\ item \in enqueued /\ item \notin succeeded
      /\ item \notin delayed /\ item \notin dirty
  BY DEF Library, Progress, TypeOK, Queued
<1>1. TypeOK'
  BY <1>0 DEF TypeOK, Steps
<1>2. Library'
  BY <1>0 DEF Library, Queued
<1>3. ~ MayRetry(item) => Superseded(item)
  BY <1>0 DEF Current, Superseded, TypeOK
<1>4. Progress'
  BY <1>0, <1>3 DEF Progress, Superseded, Library
<1>5. Current' /\ CurrentUntilDone'
  BY DEF Current, CurrentUntilDone
<1>6. NothingDropped'
  BY DEF NothingDropped, Superseded, Pending, Queued
<1> QED
  BY <1>1, <1>2, <1>4, <1>5, <1>6

LEMMA HandleSuccessInv ==
  ASSUME Inv, HandleSuccess
  PROVE  Inv'
<1> USE QueueAssumption DEF Inv, HandleSuccess, lib, hist, Keyed
<1>0. item \in Items /\ item \in succeeded
  BY DEF Progress, TypeOK
<1>1. TypeOK'
  BY <1>0 DEF TypeOK, Steps
<1>2. Library'
  BY DEF Library, Queued
<1>3. Progress'
  BY <1>0 DEF Progress, Superseded
<1>4. Current'
  BY <1>0 DEF Current, TypeOK
<1>5. CurrentUntilDone'
  BY <1>0 DEF CurrentUntilDone, Current, TypeOK
<1>6. NothingDropped'
  BY DEF NothingDropped, Superseded, Pending, Queued
<1> QED
  BY <1>1, <1>2, <1>3, <1>4, <1>5, <1>6

(***************************************************************************)
(* The callback itself, and the steps of Run and of the goroutine that     *)
(* waits for the context.                                                  *)
(***************************************************************************)
LEMMA CallbackInv ==
  ASSUME Inv, CallbackEnds
  PROVE  Inv'
<1> USE QueueAssumption DEF Inv, lib, hist, Keyed
<1>1. CASE CallbackFails
  BY <1>1 DEF CallbackFails, TypeOK, Steps, Library, Progress, Current,
     CurrentUntilDone, NothingDropped, Superseded, Pending, Queued
<1>2. ASSUME NEW i \in Items, CallbackSucceeds(i)
      PROVE  Inv'
  <2> USE <1>2 DEF CallbackSucceeds
  <2>0. i \notin delayed /\ i \notin dirty /\ i \in enqueued
    BY DEF Library, Progress, Queued
  <2>1. TypeOK'
    BY DEF TypeOK, Steps
  <2>2. Library'
    BY <2>0 DEF Library, Queued
  <2>3. Progress'
    BY <2>0 DEF Progress, Superseded
  <2>4. Current' /\ CurrentUntilDone'
    BY DEF Current, CurrentUntilDone
  <2>5. NothingDropped'
    BY DEF NothingDropped, Superseded, Pending, Queued
  <2> QED
    BY <2>1, <2>2, <2>3, <2>4, <2>5
<1> QED
  BY <1>1, <1>2 DEF CallbackEnds

LEMMA ContextInv ==
  ASSUME Inv, Cancel \/ ShutDown \/ Select
  PROVE  Inv'
<1> USE QueueAssumption DEF Inv, Cancel, ShutDown, Select, lib, hist
<1>1. TypeOK'
  BY DEF TypeOK, Steps
<1>2. Library'
  BY DEF Library, Queued
<1>3. Progress'
  BY DEF Progress, Superseded, Keyed
<1>4. Current' /\ CurrentUntilDone'
  BY DEF Current, CurrentUntilDone
<1>5. NothingDropped'
  BY DEF NothingDropped, Superseded, Pending, Queued, Library, Keyed
<1> QED
  BY <1>1, <1>2, <1>3, <1>4, <1>5

LEMMA StutterInv ==
  ASSUME Inv, UNCHANGED vars
  PROVE  Inv'
BY DEF Inv, vars, lib, hist, TypeOK, Library, Progress, Current,
   CurrentUntilDone, NothingDropped, Superseded, Pending, Queued, Keyed

-----------------------------------------------------------------------------
(***************************************************************************)
(* Invariance: the strengthened invariant holds in every state the queue   *)
(* reaches.                                                                *)
(***************************************************************************)
THEOREM Invariance == Spec => []Inv
<1>1. Init => Inv
  BY InitInv
<1>2. Inv /\ [Next]_vars => Inv'
  BY EnqueueInv, DelayElapsesInv, DoneInv, GetInv, HandleFailureInv,
     HandleSuccessInv, CallbackInv, ContextInv, StutterInv DEF Next, RunStep
<1> QED
  BY <1>1, <1>2, PTL DEF Spec

(***************************************************************************)
(* TypeCorrect: the variables of the queue keep their types.               *)
(***************************************************************************)
THEOREM TypeCorrect == Spec => []TypeOK
<1>1. Inv => TypeOK
  BY DEF Inv
<1> QED
  BY <1>1, Invariance, PTL

(***************************************************************************)
(* NoItemIsLost: until its context ends, the queue loses no item that has  *)
(* neither succeeded nor been superseded (processNextWorkItem).            *)
(***************************************************************************)
THEOREM NoItemIsLost == Spec => []NothingDropped
<1>1. Inv => NothingDropped
  BY DEF Inv
<1> QED
  BY <1>1, Invariance, PTL

(***************************************************************************)
(* NewestStaysCurrent: an older item never takes the newest one's place in *)
(* activeOps.                                                              *)
(***************************************************************************)
THEOREM NewestStaysCurrent == Spec => []CurrentUntilDone
<1>1. Inv => CurrentUntilDone
  BY DEF Inv
<1> QED
  BY <1>1, Invariance, PTL

(***************************************************************************)
(* NoSecondSuccess: the callback of an item that succeeded is not run      *)
(* again.                                                                  *)
(***************************************************************************)
THEOREM NoSecondSuccess == Spec => []SuccessIsFinal
<1>1. Inv => SuccessIsFinal
  BY DEF Inv, Progress, SuccessIsFinal
<1> QED
  BY <1>1, Invariance, PTL
=============================================================================
