----------------------- MODULE DomainControllerProofs -----------------------
(***************************************************************************)
(* Proofs about DomainController: its type, that the objects of a domain   *)
(* nobody deleted are kept, and that a domain goes after its objects.      *)
(***************************************************************************)
EXTENDS DomainController, TLAPS

Calls == [op : Ops, of : Objects \cup {None}]

HasOp(s, op) == \E i \in 1..Len(s) : s[i].op = op

Has(s, op, o) == \E i \in 1..Len(s) : s[i] = Call(op, o)

\* A call that reads or writes an object names one.
Named(s) ==
  \A i \in 1..Len(s) :
    s[i].op \in {"delete", "release", "create", "assert"} => s[i].of \in Objects

\* What every list of calls has in common: what a find or a lookup may skip,
\* that the finalizer of the domain is removed last, and that no list both
\* creates and removes.
WellFormed(s) ==
  /\ Named(s)
  /\ \A i \in 1..Len(s) : s[i].op = "find" =>
       i + 2 <= Len(s) /\ s[i + 1].op = "delete" /\ s[i + 2].op = "delete"
  /\ \A i \in 1..Len(s) : s[i].op = "lookup" =>
       i + 2 <= Len(s) /\ s[i + 1].op = "create" /\ s[i + 2].op = "create"
  /\ \A i \in 1..Len(s) : s[i].op = "finalize" => i = Len(s)
  /\ \A i, j \in 1..Len(s) : ~ (s[i].op = "create" /\ s[j].op = "finalize")

\* A cleanup worker never sets up a domain nor releases it.
Worker(s) ==
  \A i \in 1..Len(s) : s[i].op \in {"find", "delete", "release"}

Lists ==
  /\ \A t \in Threads : WellFormed(todo[t])
  /\ \A o \in Objects : Worker(todo[o])

\* The cached domain is an earlier state of the domain; one that is cached as
\* live is not gone, because only a handler that saw the deletion ends it.
Lag ==
  /\ cdCache = "new" => cd # "none"
  /\ cdCache = "live" => cd \in {"live", "deleting"}
  /\ cdCache = "deleting" => cd \in {"deleting", "gone"}
  /\ cdCache = "gone" => cd = "gone"

\* As long as no process has seen the domain there is nothing.
Unseen ==
  cdCache = "none" =>
    /\ late = {}
    /\ \A o \in Objects : server[o].st = "absent" /\ cache[o].st = "absent"
    /\ \A t \in Threads : todo[t] = <<>>

Down ==
  ~ up => /\ \A t \in Threads : todo[t] = <<>>
          /\ \A o \in Objects : mutation[o] = None

Deletions ==
  \A t \in Threads : HasOp(todo[t], "delete") => cd \in {"deleting", "gone"}

Kept ==
  cd \in {"none", "new", "live"} => \A o \in Objects : server[o].st # "deleting"

CacheBehind == \A o \in Objects : cache[o].rv <= server[o].rv

\* The process knows of every object whose creation was answered: its own
\* writes are newer than what the informer has, until the informer has them.
Known ==
  up => \A o \in Objects \ lost : server[o].st # "absent" =>
     \/ /\ mutation[o] # None /\ mutation[o].st = "live"
        /\ mutation[o].rv > cache[o].rv
     \/ /\ cache[o].st \in {"live", "deleting"}
        /\ mutation[o] = None \/ mutation[o].st = "live"

\* In a teardown an object is gone once its finalizer was removed.
Order ==
  HasOp(todo["handler"], "finalize") =>
    \A o \in Objects \ lost : \/ Has(todo["handler"], "release", o)
                              \/ server[o].st = "absent"

\* Before a domain has the finalizer, and when it is gone, nothing is created:
\* addFinalizer is first, and fails.
NoCreation ==
  cd \in {"new", "gone"} =>
    (HasOp(todo["handler"], "create") => todo["handler"][1].op = "finalizer")

NewIsEmpty ==
  cd = "new" => late = {} /\ \A o \in Objects : server[o].st = "absent"

Inv ==
  /\ TypeOK /\ Lists /\ Lag /\ Unseen /\ Down /\ Deletions /\ Kept
  /\ late \subseteq lost /\ CacheBehind /\ Known /\ Order /\ NoCreation
  /\ NewIsEmpty /\ TeardownOrder

-----------------------------------------------------------------------------
(* Lists of calls.                                                         *)

\* What is left of a list when its first n + 1 calls are done or skipped.
LEMMA Rest ==
  ASSUME NEW s \in Seq(Calls), NEW n \in 0..2, n + 1 <= Len(s),
         NEW r, r = SubSeq(s, n + 2, Len(s))
  PROVE  /\ r \in Seq(Calls) /\ Len(r) = Len(s) - (n + 1)
         /\ \A i \in 1..Len(r) : i + n + 1 \in 1..Len(s) /\ r[i] = s[i + n + 1]
         /\ \A i \in 1..Len(s) :
              i > n + 1 => i - (n + 1) \in 1..Len(r) /\ r[i - (n + 1)] = s[i]
OBVIOUS

\* The rest of a list has its form.
LEMMA RestWellFormed ==
  ASSUME NEW s \in Seq(Calls), WellFormed(s), NEW n \in 0..2, n + 1 <= Len(s),
         NEW r, r = SubSeq(s, n + 2, Len(s))
  PROVE  WellFormed(r) /\ (Worker(s) => Worker(r))
<1>1. WellFormed(r)
  <2> DEFINE at(i) == i + n + 1
  <2>1. /\ Len(r) = Len(s) - (n + 1)
        /\ \A i \in 1..Len(r) : at(i) \in 1..Len(s) /\ r[i] = s[at(i)]
    BY Rest
  <2>2. ASSUME NEW i \in 1..Len(r), r[i].op \in {"find", "lookup"}
        PROVE  /\ i + 2 <= Len(r)
               /\ r[i].op = "find" => r[i + 1].op = "delete" /\ r[i + 2].op = "delete"
               /\ r[i].op = "lookup" => r[i + 1].op = "create" /\ r[i + 2].op = "create"
    <3>1. /\ at(i) + 2 <= Len(s)
          /\ r[i].op = "find" => s[at(i) + 1].op = "delete" /\ s[at(i) + 2].op = "delete"
          /\ r[i].op = "lookup" => s[at(i) + 1].op = "create" /\ s[at(i) + 2].op = "create"
      BY <2>1, <2>2 DEF WellFormed
    <3>2. i + 1 \in 1..Len(r) /\ i + 2 \in 1..Len(r)
      BY <2>1, <3>1
    <3>3. r[i + 1] = s[at(i) + 1] /\ r[i + 2] = s[at(i) + 2]
      <4>1. at(i + 1) = at(i) + 1 /\ at(i + 2) = at(i) + 2
        OBVIOUS
      <4>2. r[i + 1] = s[at(i + 1)] /\ r[i + 2] = s[at(i + 2)]
        BY <2>1, <3>2
      <4>3. QED
        BY <4>1, <4>2
    <3>4. i + 2 <= Len(r)
      BY <2>1, <3>2
    <3>5. QED
      BY <3>1, <3>3, <3>4
  <2>3. ASSUME NEW i \in 1..Len(r), r[i].op = "finalize"
        PROVE  i = Len(r)
    BY <2>1, <2>3 DEF WellFormed
  <2>4. ASSUME NEW i \in 1..Len(r), NEW j \in 1..Len(r)
        PROVE  ~ (r[i].op = "create" /\ r[j].op = "finalize")
    BY <2>1 DEF WellFormed
  <2>5. Named(r)
    BY <2>1 DEF WellFormed, Named
  <2>6. QED
    BY <2>2, <2>3, <2>4, <2>5 DEF WellFormed
<1>2. Worker(s) => Worker(r)
  BY Rest DEF Worker
<1>3. QED
  BY <1>1, <1>2

\* The rest has the calls that were not done or skipped.
LEMMA RestHas ==
  ASSUME NEW s \in Seq(Calls), NEW n \in 0..2, n + 1 <= Len(s),
         NEW r, r = SubSeq(s, n + 2, Len(s))
  PROVE  /\ \A op \in Ops : HasOp(r, op) => HasOp(s, op)
         /\ \A op \in Ops, o \in Objects :
              Has(s, op, o) => Has(r, op, o) \/ \E i \in 1..(n + 1) : s[i] = Call(op, o)
<1>1. ASSUME NEW op \in Ops, HasOp(r, op)
      PROVE  HasOp(s, op)
  BY <1>1, Rest DEF HasOp
<1>2. ASSUME NEW op \in Ops, NEW o \in Objects, Has(s, op, o)
      PROVE  Has(r, op, o) \/ \E i \in 1..(n + 1) : s[i] = Call(op, o)
  <2>1. PICK i \in 1..Len(s) : s[i] = Call(op, o)
    BY <1>2 DEF Has
  <2>2. CASE i > n + 1
    <3>1. i - (n + 1) \in 1..Len(r) /\ r[i - (n + 1)] = s[i]
      BY <2>2, Rest
    <3>2. QED
      BY <2>1, <3>1 DEF Has
  <2>3. CASE i <= n + 1
    BY <2>1, <2>3
  <2>4. QED
    BY <2>2, <2>3
<1>3. QED
  BY <1>1, <1>2

\* Teardown releases every object, then the domain, and creates none.
LEMMA TeardownFacts ==
  /\ Teardown \in Seq(Calls) /\ WellFormed(Teardown)
  /\ ~ HasOp(Teardown, "create")
  /\ \A o \in Objects : Has(Teardown, "release", o)
<1>1. Teardown \in Seq(Calls) /\ Len(Teardown) = 12
  BY DEF Teardown, Calls, Call, Ops, Objects
<1>2. \A i \in 1..12 : Teardown[i].op \notin {"create", "lookup", "finalizer"}
  BY DEF Teardown, Call
<1>3. \A i \in 1..12 : Teardown[i].op = "find" => i = 2
  BY DEF Teardown, Call
<1>4. \A i \in 1..12 : Teardown[i].op = "finalize" => i = 12
  BY DEF Teardown, Call
<1>5. Teardown[3].op = "delete" /\ Teardown[4].op = "delete"
  BY DEF Teardown, Call
<1>6. \A o \in Objects : Has(Teardown, "release", o)
  <2>1. /\ Teardown[6] = Call("release", "workload")
        /\ Teardown[8] = Call("release", "template")
        /\ Teardown[9] = Call("release", "daemonSet")
    BY DEF Teardown
  <2>2. QED
    BY <1>1, <2>1 DEF Has, Objects
<1>7. Named(Teardown)
  BY <1>1 DEF Named, Teardown, Call, Objects
<1>8. QED
  BY <1>1, <1>2, <1>3, <1>4, <1>5, <1>6, <1>7 DEF WellFormed, HasOp

\* Setup removes nothing.
LEMMA SetupFacts ==
  /\ Setup \in Seq(Calls) /\ WellFormed(Setup)
  /\ ~ HasOp(Setup, "finalize") /\ ~ HasOp(Setup, "delete")
<1>1. Setup \in Seq(Calls) /\ Len(Setup) = 4
  BY DEF Setup, Calls, Call, Ops, Objects
<1>2. /\ Setup[1].op = "lookup" /\ Setup[2].op = "create"
      /\ Setup[3].op = "create" /\ Setup[4].op = "create"
  BY DEF Setup, Call
<1>3. Named(Setup)
  BY <1>1 DEF Named, Setup, Call, Objects
<1>4. QED
  BY <1>1, <1>2, <1>3 DEF WellFormed, HasOp

\* A list of the calls of Setup after addFinalizer.
LEMMA FiveCalls ==
  ASSUME NEW s, Len(s) = 5,
         s[1].op = "finalizer", s[2].op = "lookup", s[3].op = "create",
         s[4].op = "create", s[5].op = "create",
         s[3].of \in Objects, s[4].of \in Objects, s[5].of \in Objects
  PROVE  WellFormed(s) /\ ~ HasOp(s, "finalize") /\ ~ HasOp(s, "delete")
<1>1. Named(s)
  BY DEF Named
<1>2. QED
  BY <1>1 DEF WellFormed, HasOp

\* Nor does Setup after addFinalizer, which is first.
LEMMA SetupNewFacts ==
  ASSUME NEW s, s = <<Call("finalizer", None)>> \o Setup
  PROVE  /\ s \in Seq(Calls) /\ WellFormed(s) /\ s[1].op = "finalizer"
         /\ ~ HasOp(s, "finalize") /\ ~ HasOp(s, "delete")
<1>1. s \in Seq(Calls) /\ Len(s) = 5
  BY SetupFacts DEF Setup, Calls, Call, Ops, Objects
<1>2. /\ s[1].op = "finalizer" /\ s[2].op = "lookup" /\ s[3].op = "create"
      /\ s[4].op = "create" /\ s[5].op = "create"
  BY DEF Setup, Call
<1>3. s[3].of \in Objects /\ s[4].of \in Objects /\ s[5].of \in Objects
  BY DEF Setup, Call, Objects
<1>4. QED
  BY <1>1, <1>2, <1>3, FiveCalls

\* The list of a cleanup worker.
LEMMA CleanupFacts ==
  ASSUME NEW o \in Objects
  PROVE  /\ CleanupCalls(o) \in Seq(Calls)
         /\ WellFormed(CleanupCalls(o)) /\ Worker(CleanupCalls(o))
<1>1. CASE o = "daemonSet"
  <2> DEFINE s == CleanupCalls(o)
  <2>1. s \in Seq(Calls) /\ Len(s) = 5
    BY <1>1 DEF CleanupCalls, Calls, Call, Ops, Objects
  <2>2. /\ s[1].op = "find" /\ s[2].op = "delete" /\ s[3].op = "delete"
        /\ s[4].op = "release" /\ s[5].op = "release"
    BY <1>1 DEF CleanupCalls, Call
  <2>3. Named(s)
    BY <2>1 DEF Named, CleanupCalls, Call, Objects
  <2> HIDE DEF s
  <2>4. QED
    BY <2>1, <2>2, <2>3 DEF WellFormed, Worker, s
<1>2. CASE o # "daemonSet"
  <2> DEFINE s == CleanupCalls(o)
  <2>1. s \in Seq(Calls) /\ Len(s) = 2
    BY <1>2 DEF CleanupCalls, Calls, Call, Ops
  <2>2. s[1].op = "delete" /\ s[2].op = "release"
    BY <1>2 DEF CleanupCalls, Call
  <2>3. Named(s)
    BY <2>1 DEF Named, CleanupCalls, Call, Objects
  <2> HIDE DEF s
  <2>4. QED
    BY <2>1, <2>2, <2>3 DEF WellFormed, Worker, s
<1>3. QED
  BY <1>1, <1>2

-----------------------------------------------------------------------------
(* Steps of a goroutine.                                                   *)

\* The first call of a list is one of its calls.
LEMMA First ==
  ASSUME TypeOK, NEW t \in Threads, todo[t] # <<>>
  PROVE  /\ todo[t] \in Seq(Calls) /\ Len(todo[t]) >= 1
         /\ Head(todo[t]) = todo[t][1] /\ Head(todo[t]) \in Calls
         /\ HasOp(todo[t], Head(todo[t]).op)
<1>1. todo[t] \in Seq(Calls)
  BY DEF TypeOK, Calls
<1>2. Len(todo[t]) >= 1 /\ Head(todo[t]) = todo[t][1] /\ Head(todo[t]) \in Calls
  BY <1>1
<1>3. QED
  BY <1>1, <1>2 DEF HasOp

\* The empty list.
LEMMA Empty ==
  /\ <<>> \in Seq(Calls) /\ WellFormed(<<>>) /\ Worker(<<>>)
  /\ \A op \in Ops : ~ HasOp(<<>>, op)
BY DEF WellFormed, Named, Worker, HasOp

\* What a step of a goroutine leaves of its list: nothing, or the rest.  It
\* skips no release, and one that it does is the first call.
Left(s, r) ==
  /\ s # <<>> /\ r \in Seq(Calls)
  /\ WellFormed(r) /\ (Worker(s) => Worker(r))
  /\ \A op \in Ops : HasOp(r, op) => HasOp(s, op)
  /\ \A o \in Objects :
       Has(s, "release", o) => r = <<>> \/ Has(r, "release", o) \/ s[1] = Call("release", o)

\* An error leaves nothing.
LEMMA LeftNothing ==
  ASSUME NEW s, s # <<>>
  PROVE  Left(s, <<>>)
BY Empty DEF Left

\* A call that is done leaves the rest.
LEMMA LeftRest ==
  ASSUME NEW s \in Seq(Calls), WellFormed(s), s # <<>>, NEW n \in {0, 2},
         n = 2 => s[1].op \in {"find", "lookup"}
  PROVE  Left(s, SubSeq(s, n + 2, Len(s)))
<1> DEFINE r == SubSeq(s, n + 2, Len(s))
<1>1. n + 1 <= Len(s) /\ Len(s) >= 1 /\ n \in 0..2
  <2>1. Len(s) >= 1
    OBVIOUS
  <2>2. QED
    BY <2>1 DEF WellFormed
<1>2. \A i \in 1..(n + 1) : s[i].op = "release" => i = 1
  BY <1>1 DEF WellFormed
<1>3. /\ r \in Seq(Calls) /\ WellFormed(r) /\ (Worker(s) => Worker(r))
      /\ \A op \in Ops : HasOp(r, op) => HasOp(s, op)
  <2>1. r \in Seq(Calls)
    BY <1>1, Rest
  <2>2. WellFormed(r) /\ (Worker(s) => Worker(r))
    BY <1>1, RestWellFormed
  <2>3. ASSUME NEW op \in Ops, HasOp(r, op)
        PROVE  HasOp(s, op)
    BY <1>1, <2>3, RestHas
  <2>4. QED
    BY <2>1, <2>2, <2>3
<1>4. ASSUME NEW o \in Objects, Has(s, "release", o)
      PROVE  Has(r, "release", o) \/ s[1] = Call("release", o)
  <2>1. Has(r, "release", o) \/ \E i \in 1..(n + 1) : s[i] = Call("release", o)
    BY <1>1, <1>4, RestHas DEF Ops
  <2>2. QED
    BY <1>2, <2>1 DEF Call
<1>5. QED
  BY <1>3, <1>4 DEF Left

\* One step of a goroutine, or the failure of one.
Works(t) == Step(t) \/ CreateUnanswered(t) \/ CallFails(t)

\* The steps of a goroutine that write an object or leave its creation open.
ObjectWrite(t, o) ==
  LET op == Head(todo[t]).op IN
  \/ /\ op = "delete" /\ server[o].st = "live"
     /\ server' = [server EXCEPT ![o] = [st |-> "deleting", rv |-> server[o].rv + 1]]
     /\ UNCHANGED <<mutation, late, lost>>
  \/ /\ op = "release" /\ server[o].st = "deleting"
     /\ server' = [server EXCEPT ![o] = [st |-> "absent", rv |-> server[o].rv + 1]]
     /\ mutation' = [mutation EXCEPT ![o] = [st |-> "released", rv |-> server[o].rv]]
     /\ UNCHANGED <<late, lost>>
  \/ /\ op = "create" /\ server[o].st = "absent"
     /\ server' = [server EXCEPT ![o] = Created(o)]
     /\ mutation' = [mutation EXCEPT ![o] = Created(o)]
     /\ UNCHANGED <<late, lost>>
  \/ /\ op = "create" /\ server[o].st = "absent" /\ lost' = lost \cup {o}
     /\ \/ server' = [server EXCEPT ![o] = Created(o)] /\ UNCHANGED late
        \/ late' = late \cup {o} /\ UNCHANGED server
     /\ UNCHANGED mutation

\* What a step of a goroutine does to the objects, and to the domain: it has
\* the finalizer added, or removed as the last call of a teardown.
ObjectEffect(t) ==
  /\ up /\ todo[t] # <<>> /\ UNCHANGED <<up, cdCache, cache, labels, stops>>
  /\ \/ UNCHANGED <<server, mutation, late, lost>>
     \/ \E o \in Objects : ObjectWrite(t, o)

DomainEffect(t) ==
  \/ /\ UNCHANGED cd
     /\ Head(todo[t]).op = "finalizer" => todo' = [todo EXCEPT ![t] = <<>>]
  \/ /\ Head(todo[t]).op = "finalize" /\ t = "handler" /\ Len(todo[t]) = 1
     /\ cd = "deleting" /\ cdCache = "deleting" /\ cd' = "gone"
     /\ todo' = [todo EXCEPT ![t] = <<>>]
  \/ Head(todo[t]).op = "finalizer" /\ t = "handler" /\ cd = "new" /\ cd' = "live"

\* A step of a goroutine shortens its list.
LEMMA Advance ==
  ASSUME TypeOK, Lists, NEW t \in Threads, Works(t)
  PROVE  \E r : todo' = [todo EXCEPT ![t] = r] /\ Left(todo[t], r)
<1>1. todo[t] # <<>> /\ up
  BY DEF Works, Step, Find, Delete, Release, AssertRemoved, RemoveLabels, RemoveFinalizer,
     AddFinalizer, Lookup, Create, CreateUnanswered, CallFails, At
<1>2. todo[t] \in Seq(Calls) /\ WellFormed(todo[t]) /\ Head(todo[t]) = todo[t][1]
  BY <1>1, First DEF Lists
<1>3. \/ Return(t) \/ Proceed(t, 0)
      \/ Proceed(t, 2) /\ Head(todo[t]).op \in {"find", "lookup"}
  BY DEF Works, Step, Find, Delete, Release, AssertRemoved, RemoveLabels, RemoveFinalizer,
     AddFinalizer, Lookup, Create, CreateUnanswered, CallFails, At
<1>4. CASE Return(t)
  BY <1>1, <1>4, LeftNothing DEF Return
<1>5. CASE Proceed(t, 0)
  <2>1. Left(todo[t], SubSeq(todo[t], 0 + 2, Len(todo[t])))
    BY <1>1, <1>2, LeftRest
  <2>2. QED
    BY <1>5, <2>1 DEF Proceed
<1>6. CASE Proceed(t, 2) /\ Head(todo[t]).op \in {"find", "lookup"}
  <2>1. Left(todo[t], SubSeq(todo[t], 2 + 2, Len(todo[t])))
    BY <1>1, <1>2, <1>6, LeftRest
  <2>2. QED
    BY <1>6, <2>1 DEF Proceed
<1>7. QED
  BY <1>3, <1>4, <1>5, <1>6

\* What the first call names, and who makes it.
LEMMA FirstNames ==
  ASSUME TypeOK, Lists, NEW t \in Threads, todo[t] # <<>>
  PROVE  /\ Head(todo[t]).op \in {"delete", "release", "create", "assert"} =>
              Object(t) \in Objects
         /\ Head(todo[t]).op \notin {"find", "delete", "release"} => t = "handler"
         /\ Head(todo[t]).op = "create" => ~ HasOp(todo[t], "finalize")
         /\ Head(todo[t]).op = "finalize" => Len(todo[t]) = 1
<1>1. Head(todo[t]) = todo[t][1] /\ 1 \in 1..Len(todo[t])
  BY First
<1>2. Head(todo[t]).op \in {"delete", "release", "create", "assert"} => Object(t) \in Objects
  BY <1>1 DEF Lists, WellFormed, Named, Object
<1>3. Head(todo[t]).op \notin {"find", "delete", "release"} => t = "handler"
  BY <1>1 DEF Lists, Worker, Threads
<1>4. Head(todo[t]).op = "create" => ~ HasOp(todo[t], "finalize")
  BY <1>1 DEF Lists, WellFormed, HasOp
<1>5. Head(todo[t]).op = "finalize" => Len(todo[t]) = 1
  BY <1>1 DEF Lists, WellFormed
<1>6. QED
  BY <1>2, <1>3, <1>4, <1>5

LEMMA HasObjectEffect ==
  ASSUME TypeOK, Lists, NEW t \in Threads, Works(t)
  PROVE  ObjectEffect(t)
<1> USE DEF ObjectEffect
<1>1. up /\ todo[t] # <<>> /\ UNCHANGED <<up, cdCache, cache, labels, stops>>
  BY DEF Works, Step, Find, Delete, Release, AssertRemoved, RemoveLabels,
     RemoveFinalizer, AddFinalizer, Lookup, Create, CreateUnanswered, CallFails, At,
     apiVars, cacheVars, bounds
<1>2. Head(todo[t]).op \in {"delete", "release", "create", "assert"} => Object(t) \in Objects
  BY <1>1, FirstNames
<1>3. CASE Delete(t)
  BY <1>2, <1>3 DEF Delete, At, cacheVars, bounds, ObjectWrite
<1>4. CASE Release(t)
  BY <1>2, <1>4 DEF Release, At, cacheVars, bounds, ObjectWrite
<1>5. CASE Create(t)
  BY <1>2, <1>5 DEF Create, At, cacheVars, bounds, ObjectWrite, Created
<1>6. CASE CreateUnanswered(t)
  BY <1>2, <1>6 DEF CreateUnanswered, At, cacheVars, bounds, ObjectWrite, Created
<1>7. CASE \/ Find(t) \/ AssertRemoved(t) \/ RemoveLabels(t) \/ RemoveFinalizer(t)
           \/ AddFinalizer(t) \/ Lookup(t) \/ CallFails(t)
  BY <1>1, <1>7 DEF Find, AssertRemoved, RemoveLabels, RemoveFinalizer, AddFinalizer,
     Lookup, CallFails, apiVars, cacheVars, bounds
<1>8. QED
  BY <1>1, <1>3, <1>4, <1>5, <1>6, <1>7 DEF Works, Step

LEMMA HasDomainEffect ==
  ASSUME TypeOK, Lists, NEW t \in Threads, Works(t)
  PROVE  DomainEffect(t)
<1> USE DEF DomainEffect
<1>1. /\ Head(todo[t]).op \in {"finalize", "finalizer"} => t = "handler"
      /\ Head(todo[t]).op = "finalize" => Len(todo[t]) = 1
  BY HasObjectEffect, FirstNames DEF ObjectEffect
<1>2. CASE RemoveFinalizer(t)
  BY <1>1, <1>2 DEF RemoveFinalizer, At, Return
<1>3. CASE AddFinalizer(t)
  BY <1>1, <1>3 DEF AddFinalizer, At, Return
<1>4. CASE CallFails(t)
  BY <1>4 DEF CallFails, Return, apiVars
<1>5. CASE \/ Find(t) \/ Delete(t) \/ Release(t) \/ AssertRemoved(t) \/ RemoveLabels(t)
           \/ Lookup(t) \/ Create(t) \/ CreateUnanswered(t)
  BY <1>5 DEF Find, Delete, Release, AssertRemoved, RemoveLabels, Lookup, Create,
     CreateUnanswered, At, apiVars
<1>6. QED
  BY <1>2, <1>3, <1>4, <1>5 DEF Works, Step

\* The handler starts on the list for the domain that it finds in the cache.
Script(r) ==
  /\ WellFormed(r) /\ cdCache \in {"new", "live", "deleting"}
  /\ HasOp(r, "delete") \/ HasOp(r, "finalize") =>
       cdCache = "deleting" /\ \A o \in Objects : Has(r, "release", o)
  /\ HasOp(r, "create") => cdCache = "live" \/ r[1].op = "finalizer"

LEMMA HandlerStarts ==
  ASSUME Handle
  PROVE  \E r \in Seq(Calls) : todo' = [todo EXCEPT !["handler"] = r] /\ Script(r)
<1> USE DEF Script
<1>1. CASE cdCache = "deleting" /\ todo' = [todo EXCEPT !["handler"] = Teardown]
  BY <1>1, TeardownFacts
<1>2. CASE cdCache = "live" /\ todo' = [todo EXCEPT !["handler"] = Setup]
  BY <1>2, SetupFacts
<1>3. CASE /\ cdCache = "new"
           /\ todo' = [todo EXCEPT !["handler"] = <<Call("finalizer", None)>> \o Setup]
  <2>1. PICK r : r = <<Call("finalizer", None)>> \o Setup
    OBVIOUS
  <2>2. QED
    BY <1>3, <2>1, SetupNewFacts
<1>4. QED
  BY <1>1, <1>2, <1>3 DEF Handle

-----------------------------------------------------------------------------
(* Each part of the invariant is preserved.                                *)

\* The lists have their type and their form.
LEMMA ListsStep ==
  ASSUME TypeOK, Lists, Next
  PROVE  Lists' /\ todo' \in [Threads -> Seq(Calls)]
<1> USE DEF apiVars, cacheVars, bounds
<1>1. CASE Handle
  <2>1. PICK r \in Seq(Calls) : todo' = [todo EXCEPT !["handler"] = r] /\ Script(r)
    BY <1>1, HandlerStarts
  <2>2. QED
    BY <2>1 DEF Script, Lists, TypeOK, Calls, Threads, Objects
<1>2. ASSUME NEW o \in Objects, Cleanup(o)
      PROVE  Lists' /\ todo' \in [Threads -> Seq(Calls)]
  BY <1>2, CleanupFacts DEF Cleanup, Lists, TypeOK, Calls, Threads, Objects
<1>3. ASSUME NEW o \in Objects, CreateLate(o)
      PROVE  Lists' /\ todo' \in [Threads -> Seq(Calls)]
  BY <1>3 DEF CreateLate, Lists, TypeOK, Calls
<1>4. ASSUME NEW t \in Threads, Works(t)
      PROVE  Lists' /\ todo' \in [Threads -> Seq(Calls)]
  <2>1. PICK r : todo' = [todo EXCEPT ![t] = r] /\ Left(todo[t], r)
    BY <1>4, Advance
  <2>2. QED
    BY <2>1 DEF Left, Lists, TypeOK, Calls, Threads
<1>5. CASE Informers
  BY <1>5 DEF Informers, DeliverDomain, Deliver, Expire, Lists, TypeOK, Calls
<1>6. CASE StartLeading \/ StopLeading
  BY <1>6, Empty DEF StartLeading, StopLeading, Lists, TypeOK, Calls, Threads
<1>7. CASE CleanupLabels \/ CreateDomain \/ DeleteDomain \/ LabelNode
  BY <1>7 DEF CleanupLabels, CreateDomain, DeleteDomain, LabelNode, Lists, TypeOK, Calls
<1>8. QED
  BY <1>1, <1>2, <1>3, <1>4, <1>5, <1>6, <1>7 DEF Next, Works

\* The data have their types, and a late creation is one without an answer.
LEMMA DataStep ==
  ASSUME TypeOK, Lists, late \subseteq lost, Next
  PROVE  /\ cd' \in DomainStates /\ cdCache' \in DomainStates
         /\ server' \in [Objects -> Versions] /\ cache' \in [Objects -> Versions]
         /\ mutation' \in [Objects -> Written \cup {None}]
         /\ late' \subseteq lost' /\ lost' \subseteq Objects
<1> USE DEF apiVars, cacheVars, bounds
<1>1. CASE Handle
  BY <1>1 DEF Handle, TypeOK, DomainStates, Versions, Written, ObjectStates
<1>2. ASSUME NEW o \in Objects, Cleanup(o)
      PROVE  /\ cd' \in DomainStates /\ cdCache' \in DomainStates
         /\ server' \in [Objects -> Versions] /\ cache' \in [Objects -> Versions]
         /\ mutation' \in [Objects -> Written \cup {None}]
         /\ late' \subseteq lost' /\ lost' \subseteq Objects
  BY <1>2 DEF Cleanup, TypeOK, DomainStates, Versions, Written, ObjectStates
<1>3. ASSUME NEW o \in Objects, CreateLate(o)
      PROVE  /\ cd' \in DomainStates /\ cdCache' \in DomainStates
         /\ server' \in [Objects -> Versions] /\ cache' \in [Objects -> Versions]
         /\ mutation' \in [Objects -> Written \cup {None}]
         /\ late' \subseteq lost' /\ lost' \subseteq Objects
  BY <1>3
  DEF CreateLate, Created, TypeOK, DomainStates, Versions, Written, ObjectStates
<1>4. ASSUME NEW t \in Threads, Works(t)
      PROVE  /\ cd' \in DomainStates /\ cdCache' \in DomainStates
         /\ server' \in [Objects -> Versions] /\ cache' \in [Objects -> Versions]
         /\ mutation' \in [Objects -> Written \cup {None}]
         /\ late' \subseteq lost' /\ lost' \subseteq Objects
  <2> USE DEF ObjectEffect, DomainEffect
  <2>1. ObjectEffect(t)
    BY <1>4, HasObjectEffect
  <2>2. DomainEffect(t)
    BY <1>4, HasDomainEffect
  <2>3. /\ cd' \in DomainStates /\ cdCache' \in DomainStates
        /\ cache' \in [Objects -> Versions]
    BY <2>1, <2>2 DEF TypeOK, DomainStates
  <2>4. CASE UNCHANGED <<server, mutation, late, lost>>
    BY <2>3, <2>4 DEF TypeOK
  <2>5. ASSUME NEW o \in Objects, ObjectWrite(t, o)
        PROVE  /\ server' \in [Objects -> Versions]
               /\ mutation' \in [Objects -> Written \cup {None}]
               /\ late' \subseteq lost' /\ lost' \subseteq Objects
    <3>1. /\ Created(o) \in Versions /\ Created(o) \in Written
          /\ [st |-> "deleting", rv |-> server[o].rv + 1] \in Versions
          /\ [st |-> "absent", rv |-> server[o].rv + 1] \in Versions
          /\ [st |-> "released", rv |-> server[o].rv] \in Written
      BY DEF TypeOK, Versions, Written, Created, ObjectStates
    <3>2. QED
      BY <2>5, <3>1 DEF ObjectWrite, TypeOK
  <2>6. QED
    BY <2>1, <2>3, <2>4, <2>5
<1>5. CASE Informers
  BY <1>5
  DEF Informers, DeliverDomain, Deliver, Expire, TypeOK, DomainStates, Versions,
      Written, ObjectStates
<1>6. CASE StartLeading \/ StopLeading
  BY <1>6
  DEF StartLeading, StopLeading, TypeOK, DomainStates, Versions, Written,
      ObjectStates
<1>7. CASE CleanupLabels \/ CreateDomain \/ DeleteDomain \/ LabelNode
  BY <1>7
  DEF CleanupLabels, CreateDomain, DeleteDomain, LabelNode, TypeOK, DomainStates,
      Versions, Written, ObjectStates
<1>8. QED
  BY <1>1, <1>2, <1>3, <1>4, <1>5, <1>6, <1>7 DEF Next, Works

\* The counters stay within their bounds.
LEMMA BoundsStep ==
  ASSUME TypeOK, Next
  PROVE  labels' \in 0..MaxLabels /\ stops' \in 0..MaxStops /\ faults' \in 0..MaxFaults
<1> USE DEF apiVars, cacheVars, bounds
<1>1. CASE Handle
  BY <1>1, ConstantsAssumption DEF Handle, TypeOK
<1>2. ASSUME NEW o \in Objects, Cleanup(o)
      PROVE  labels' \in 0..MaxLabels /\ stops' \in 0..MaxStops /\ faults' \in 0..MaxFaults
  BY <1>2, ConstantsAssumption DEF Cleanup, TypeOK
<1>3. ASSUME NEW o \in Objects, CreateLate(o)
      PROVE  labels' \in 0..MaxLabels /\ stops' \in 0..MaxStops /\ faults' \in 0..MaxFaults
  BY <1>3, ConstantsAssumption DEF CreateLate, Created, TypeOK
<1>4. ASSUME NEW t \in Threads, Works(t)
      PROVE  labels' \in 0..MaxLabels /\ stops' \in 0..MaxStops /\ faults' \in 0..MaxFaults
  BY <1>4, ConstantsAssumption
  DEF Works, Step, Find, Delete, Release, AssertRemoved, RemoveLabels,
      RemoveFinalizer, AddFinalizer, Lookup, Create, CreateUnanswered, CallFails,
      At, Object, Fault, Created, TypeOK
<1>5. CASE Informers
  BY <1>5, ConstantsAssumption DEF Informers, DeliverDomain, Deliver, Expire, TypeOK
<1>6. CASE StartLeading \/ StopLeading
  BY <1>6, ConstantsAssumption DEF StartLeading, StopLeading, TypeOK
<1>7. CASE CleanupLabels \/ CreateDomain \/ DeleteDomain \/ LabelNode
  BY <1>7, ConstantsAssumption
  DEF CleanupLabels, CreateDomain, DeleteDomain, LabelNode, TypeOK
<1>8. QED
  BY <1>1, <1>2, <1>3, <1>4, <1>5, <1>6, <1>7 DEF Next, Works

\* The flags are Boolean.
LEMMA FlagsStep ==
  ASSUME TypeOK, Next
  PROVE  label' \in BOOLEAN /\ up' \in BOOLEAN
<1> USE DEF apiVars, cacheVars, bounds
<1>1. CASE Handle
  BY <1>1 DEF Handle, TypeOK
<1>2. ASSUME NEW o \in Objects, Cleanup(o)
      PROVE  label' \in BOOLEAN /\ up' \in BOOLEAN
  BY <1>2 DEF Cleanup, TypeOK
<1>3. ASSUME NEW o \in Objects, CreateLate(o)
      PROVE  label' \in BOOLEAN /\ up' \in BOOLEAN
  BY <1>3 DEF CreateLate, Created, TypeOK
<1>4. ASSUME NEW t \in Threads, Works(t)
      PROVE  label' \in BOOLEAN /\ up' \in BOOLEAN
  BY <1>4
  DEF Works, Step, Find, Delete, Release, AssertRemoved, RemoveLabels,
      RemoveFinalizer, AddFinalizer, Lookup, Create, CreateUnanswered, CallFails,
      At, Object, Fault, Created, TypeOK
<1>5. CASE Informers
  BY <1>5 DEF Informers, DeliverDomain, Deliver, Expire, TypeOK
<1>6. CASE StartLeading \/ StopLeading
  BY <1>6 DEF StartLeading, StopLeading, TypeOK
<1>7. CASE CleanupLabels \/ CreateDomain \/ DeleteDomain \/ LabelNode
  BY <1>7 DEF CleanupLabels, CreateDomain, DeleteDomain, LabelNode, TypeOK
<1>8. QED
  BY <1>1, <1>2, <1>3, <1>4, <1>5, <1>6, <1>7 DEF Next, Works

\* The type invariant, from its parts.
LEMMA TypeStep ==
  ASSUME TypeOK, Lists, late \subseteq lost, Next
  PROVE  TypeOK'
<1>1. todo' \in [Threads -> Seq(Calls)] /\ late' \subseteq Objects
  BY ListsStep, DataStep
<1>2. QED
  BY <1>1, DataStep, BoundsStep, FlagsStep DEF TypeOK, Calls

\* The cached domain is an earlier state of the domain.
LEMMA LagStep ==
  ASSUME TypeOK, Lists, Lag, Next
  PROVE  Lag'
<1> USE DEF apiVars, cacheVars, bounds
<1>1. CASE Handle
  BY <1>1 DEF Handle, TypeOK, DomainStates, Lag
<1>2. ASSUME NEW o \in Objects, Cleanup(o)
      PROVE  Lag'
  BY <1>2 DEF Cleanup, TypeOK, DomainStates, Lag
<1>3. ASSUME NEW o \in Objects, CreateLate(o)
      PROVE  Lag'
  BY <1>3 DEF CreateLate, Created, TypeOK, DomainStates, Lag
<1>4. ASSUME NEW t \in Threads, Works(t)
      PROVE  Lag'
  <2> USE DEF ObjectEffect, DomainEffect
  <2>1. ObjectEffect(t)
    BY <1>4, HasObjectEffect
  <2>2. DomainEffect(t)
    BY <1>4, HasDomainEffect
  <2>3. QED
    BY <2>1, <2>2 DEF TypeOK, Lag
<1>5. CASE Informers
  BY <1>5 DEF Informers, DeliverDomain, Deliver, Expire, TypeOK, DomainStates, Lag
<1>6. CASE StartLeading \/ StopLeading
  BY <1>6 DEF StartLeading, StopLeading, TypeOK, DomainStates, Lag
<1>7. CASE CleanupLabels \/ CreateDomain \/ DeleteDomain \/ LabelNode
  BY <1>7
  DEF CleanupLabels, CreateDomain, DeleteDomain, LabelNode, TypeOK, DomainStates,
      Lag
<1>8. QED
  BY <1>1, <1>2, <1>3, <1>4, <1>5, <1>6, <1>7 DEF Next, Works

\* A process that does not lead has no list and no writes of its own.
LEMMA DownStep ==
  ASSUME TypeOK, Lists, Down, Next
  PROVE  Down'
<1> USE DEF apiVars, cacheVars, bounds
<1>1. CASE Handle
  <2>1. PICK r \in Seq(Calls) : todo' = [todo EXCEPT !["handler"] = r] /\ Script(r)
    BY <1>1, HandlerStarts
  <2> USE DEF Script
  <2>2. QED
    BY <1>1 DEF Down, Handle
<1>2. ASSUME NEW o \in Objects, Cleanup(o)
      PROVE  Down'
  BY <1>2 DEF Cleanup, Down
<1>3. ASSUME NEW o \in Objects, CreateLate(o)
      PROVE  Down'
  BY <1>3 DEF CreateLate, Created, Down, TypeOK, Threads
<1>4. ASSUME NEW t \in Threads, Works(t)
      PROVE  Down'
  <2> USE DEF ObjectEffect
  <2>1. ObjectEffect(t)
    BY <1>4, HasObjectEffect
  <2>2. QED
    BY <2>1 DEF Down
<1>5. CASE Informers
  BY <1>5 DEF Informers, DeliverDomain, Deliver, Expire, Down, TypeOK, Threads
<1>6. CASE StartLeading \/ StopLeading
  BY <1>6 DEF StartLeading, StopLeading, Down, TypeOK, Threads
<1>7. CASE CleanupLabels \/ CreateDomain \/ DeleteDomain \/ LabelNode
  BY <1>7
  DEF CleanupLabels, CreateDomain, DeleteDomain, LabelNode, Down, TypeOK, Threads
<1>8. QED
  BY <1>1, <1>2, <1>3, <1>4, <1>5, <1>6, <1>7 DEF Next, Works

\* Nothing exists before a process has seen the domain.
LEMMA UnseenStep ==
  ASSUME TypeOK, Lists, Lag, Unseen, Next
  PROVE  Unseen'
<1> USE DEF apiVars, cacheVars, bounds
<1>1. CASE Handle
  <2>1. PICK r \in Seq(Calls) : todo' = [todo EXCEPT !["handler"] = r] /\ Script(r)
    BY <1>1, HandlerStarts
  <2> USE DEF Script
  <2>2. QED
    BY <1>1, <2>1 DEF Handle, Unseen, apiVars
<1>2. ASSUME NEW o \in Objects, Cleanup(o)
      PROVE  Unseen'
  BY <1>2 DEF Cleanup, TypeOK, DomainStates, Lag, Unseen, Threads
<1>3. ASSUME NEW o \in Objects, CreateLate(o)
      PROVE  Unseen'
  BY <1>3 DEF CreateLate, Created, TypeOK, DomainStates, Lag, Unseen, Threads
<1>4. ASSUME NEW t \in Threads, Works(t)
      PROVE  Unseen'
  <2> USE DEF ObjectEffect
  <2>1. ObjectEffect(t)
    BY <1>4, HasObjectEffect
  <2>2. QED
    BY <2>1 DEF Unseen
<1>5. CASE Informers
  BY <1>5
  DEF Informers, DeliverDomain, Deliver, Expire, TypeOK, DomainStates, Lag,
      Unseen, Threads
<1>6. CASE StartLeading \/ StopLeading
  BY <1>6 DEF StartLeading, StopLeading, TypeOK, DomainStates, Lag, Unseen, Threads
<1>7. CASE CleanupLabels \/ CreateDomain \/ DeleteDomain \/ LabelNode
  BY <1>7
  DEF CleanupLabels, CreateDomain, DeleteDomain, LabelNode, TypeOK, DomainStates,
      Lag, Unseen, Threads
<1>8. QED
  BY <1>1, <1>2, <1>3, <1>4, <1>5, <1>6, <1>7 DEF Next, Works

\* A list with a deletion is for a domain that is deleted.
LEMMA DeletionsStep ==
  ASSUME TypeOK, Lists, Lag, Unseen, Deletions, Next
  PROVE  Deletions'
<1> USE DEF apiVars, cacheVars, bounds
<1>1. CASE Handle
  <2>1. PICK r \in Seq(Calls) : todo' = [todo EXCEPT !["handler"] = r] /\ Script(r)
    BY <1>1, HandlerStarts
  <2> USE DEF Script
  <2>2. QED
    BY <1>1, <2>1 DEF Handle, Deletions, Lag, Threads, TypeOK, Ops
<1>2. ASSUME NEW o \in Objects, Cleanup(o)
      PROVE  Deletions'
  BY <1>2 DEF Cleanup, Deletions, Lag, Unseen
<1>3. ASSUME NEW o \in Objects, CreateLate(o)
      PROVE  Deletions'
  BY <1>3 DEF CreateLate, Created, TypeOK, DomainStates, Deletions
<1>4. ASSUME NEW t \in Threads, Works(t)
      PROVE  Deletions'
  <2> USE DEF DomainEffect
  <2>1. DomainEffect(t)
    BY <1>4, HasDomainEffect
  <2>2. PICK r : todo' = [todo EXCEPT ![t] = r] /\ Left(todo[t], r)
    BY <1>4, Advance
  <2>3. QED
    BY <2>1, <2>2 DEF Deletions, TypeOK, Left, Ops
<1>5. CASE Informers
  BY <1>5
  DEF Informers, DeliverDomain, Deliver, Expire, TypeOK, DomainStates, Deletions
<1>6. CASE StartLeading \/ StopLeading
  BY <1>6, Empty DEF StartLeading, StopLeading, Deletions, Ops
<1>7. CASE CleanupLabels \/ CreateDomain \/ DeleteDomain \/ LabelNode
  BY <1>7
  DEF CleanupLabels, CreateDomain, DeleteDomain, LabelNode, TypeOK, DomainStates,
      Deletions
<1>8. QED
  BY <1>1, <1>2, <1>3, <1>4, <1>5, <1>6, <1>7 DEF Next, Works

\* Only the objects of such a domain are deleted.
LEMMA KeptStep ==
  ASSUME TypeOK, Lists, Deletions, Kept, Next
  PROVE  Kept'
<1> USE DEF apiVars, cacheVars, bounds
<1>1. CASE Handle
  BY <1>1 DEF Handle, TypeOK, DomainStates, Kept
<1>2. ASSUME NEW o \in Objects, Cleanup(o)
      PROVE  Kept'
  BY <1>2 DEF Cleanup, TypeOK, DomainStates, Kept
<1>3. ASSUME NEW o \in Objects, CreateLate(o)
      PROVE  Kept'
  BY <1>3 DEF CreateLate, Created, TypeOK, DomainStates, Kept
<1>4. ASSUME NEW t \in Threads, Works(t)
      PROVE  Kept'
  <2> USE DEF ObjectEffect, DomainEffect
  <2>1. ObjectEffect(t)
    BY <1>4, HasObjectEffect
  <2>2. DomainEffect(t)
    BY <1>4, HasDomainEffect
  <2>3. CASE UNCHANGED <<server, mutation, late, lost>>
    BY <2>2, <2>3 DEF Kept
  <2>4. ASSUME NEW o \in Objects, ObjectWrite(t, o)
        PROVE  Kept'
    <3>1. HasOp(todo[t], Head(todo[t]).op)
      BY <2>1, First
    <3>2. CASE Head(todo[t]).op = "delete"
      BY <2>2, <3>1, <3>2 DEF Deletions, Kept
    <3>3. CASE Head(todo[t]).op # "delete"
      <4>1. \A p \in Objects : server'[p] = server[p] \/ server'[p].st \in {"absent", "live"}
        BY <2>4, <3>3 DEF ObjectWrite, Created, TypeOK
      <4>2. QED
        BY <2>2, <4>1 DEF Kept
    <3>4. QED
      BY <3>2, <3>3
  <2>5. QED
    BY <2>1, <2>3, <2>4
<1>5. CASE Informers
  BY <1>5 DEF Informers, DeliverDomain, Deliver, Expire, TypeOK, DomainStates, Kept
<1>6. CASE StartLeading \/ StopLeading
  BY <1>6 DEF StartLeading, StopLeading, TypeOK, DomainStates, Kept
<1>7. CASE CleanupLabels \/ CreateDomain \/ DeleteDomain \/ LabelNode
  BY <1>7
  DEF CleanupLabels, CreateDomain, DeleteDomain, LabelNode, TypeOK, DomainStates,
      Kept
<1>8. QED
  BY <1>1, <1>2, <1>3, <1>4, <1>5, <1>6, <1>7 DEF Next, Works

\* The informer caches are behind the API server.
LEMMA BehindStep ==
  ASSUME TypeOK, Lists, CacheBehind, Next
  PROVE  CacheBehind'
<1> USE DEF apiVars, cacheVars, bounds
<1>1. CASE Handle
  BY <1>1 DEF Handle, TypeOK, Versions, CacheBehind
<1>2. ASSUME NEW o \in Objects, Cleanup(o)
      PROVE  CacheBehind'
  BY <1>2 DEF Cleanup, TypeOK, Versions, CacheBehind
<1>3. ASSUME NEW o \in Objects, CreateLate(o)
      PROVE  CacheBehind'
  BY <1>3 DEF CreateLate, Created, TypeOK, Versions, CacheBehind
<1>4. ASSUME NEW t \in Threads, Works(t)
      PROVE  CacheBehind'
  <2> USE DEF ObjectEffect
  <2>1. ObjectEffect(t)
    BY <1>4, HasObjectEffect
  <2>2. CASE UNCHANGED <<server, mutation, late, lost>>
    BY <2>1, <2>2 DEF CacheBehind
  <2>3. ASSUME NEW o \in Objects, ObjectWrite(t, o)
        PROVE  CacheBehind'
    <3>1. /\ server'[o].rv \in {server[o].rv, server[o].rv + 1}
          /\ \A p \in Objects : p # o => server'[p] = server[p]
      BY <2>3 DEF ObjectWrite, Created, TypeOK
    <3>2. \A p \in Objects : server[p].rv \in Nat /\ cache[p].rv \in Nat
      BY DEF TypeOK, Versions
    <3>3. QED
      BY <2>1, <3>1, <3>2 DEF CacheBehind
  <2>4. QED
    BY <2>1, <2>2, <2>3
<1>5. CASE Informers
  BY <1>5
  DEF Informers, DeliverDomain, Deliver, Expire, TypeOK, Versions, CacheBehind
<1>6. CASE StartLeading \/ StopLeading
  BY <1>6 DEF StartLeading, StopLeading, TypeOK, Versions, CacheBehind
<1>7. CASE CleanupLabels \/ CreateDomain \/ DeleteDomain \/ LabelNode
  BY <1>7
  DEF CleanupLabels, CreateDomain, DeleteDomain, LabelNode, TypeOK, Versions,
      CacheBehind
<1>8. QED
  BY <1>1, <1>2, <1>3, <1>4, <1>5, <1>6, <1>7 DEF Next, Works

\* The process knows of the objects whose creation was answered.
LEMMA KnownStep ==
  ASSUME TypeOK, Lists, Down, late \subseteq lost, CacheBehind, Known, Next
  PROVE  Known'
<1> USE DEF apiVars, cacheVars, bounds
<1>1. CASE Handle
  BY <1>1 DEF Handle, TypeOK, Versions, Written, ObjectStates, Known
<1>2. ASSUME NEW o \in Objects, Cleanup(o)
      PROVE  Known'
  BY <1>2 DEF Cleanup, TypeOK, Versions, Written, ObjectStates, Known
<1>3. ASSUME NEW o \in Objects, CreateLate(o)
      PROVE  Known'
  BY <1>3 DEF CreateLate, Created, TypeOK, Versions, Written, ObjectStates, Known
<1>4. ASSUME NEW t \in Threads, Works(t)
      PROVE  Known'
  <2> USE DEF ObjectEffect
  <2>1. ObjectEffect(t)
    BY <1>4, HasObjectEffect
  <2>2. CASE UNCHANGED <<server, mutation, late, lost>>
    BY <2>1, <2>2 DEF Known
  <2>3. ASSUME NEW o \in Objects, ObjectWrite(t, o)
        PROVE  Known'
    <3>1. ASSUME NEW p \in Objects \ lost', p # o
          PROVE  p \notin lost /\ server'[p] = server[p] /\ mutation'[p] = mutation[p]
      BY <2>3, <3>1 DEF ObjectWrite, TypeOK
    <3>2. server[o].rv \in Nat /\ cache[o].rv \in Nat /\ cache[o].rv <= server[o].rv
      BY DEF TypeOK, Versions, CacheBehind
    <3>3. \/ o \in lost' \/ server'[o].st = "absent"
          \/ server'[o] = Created(o) /\ mutation'[o] = Created(o)
          \/ server[o].st = "live" /\ UNCHANGED <<mutation, lost>>
      BY <2>3 DEF ObjectWrite, TypeOK
    <3>4. Created(o) # None /\ Created(o).st = "live" /\ Created(o).rv = server[o].rv + 1
      BY <3>2, ConstantsAssumption DEF Created, Written, ObjectStates
    <3>5. QED
      BY <2>1, <3>1, <3>2, <3>3, <3>4 DEF Known
  <2>4. QED
    BY <2>1, <2>2, <2>3
<1>5. CASE Informers
  <2>1. CASE DeliverDomain
    BY <2>1 DEF DeliverDomain, Known
  <2>2. ASSUME NEW o \in Objects, Deliver(o)
        PROVE  Known'
    <3>1. /\ cache'[o] = server[o] /\ \A p \in Objects : p # o => cache'[p] = cache[p]
          /\ UNCHANGED <<up, server, mutation, lost>> /\ up
      BY <2>2 DEF Deliver, TypeOK
    <3>2. server[o].st \in {"absent", "live", "deleting"}
      BY DEF TypeOK, Versions, ObjectStates
    <3>3. QED
      BY <3>1, <3>2 DEF Known
  <2>3. ASSUME NEW o \in Objects, Expire(o)
        PROVE  Known'
    <3>1. /\ mutation[o] # None /\ cache[o].rv >= mutation[o].rv
          /\ mutation'[o] = None /\ \A p \in Objects : p # o => mutation'[p] = mutation[p]
          /\ UNCHANGED <<up, server, cache, lost>> /\ up
      BY <2>3 DEF Expire, TypeOK
    <3>2. mutation[o].rv \in Nat /\ cache[o].rv \in Nat
      BY <3>1 DEF TypeOK, Versions, Written
    <3>3. QED
      BY <3>1, <3>2 DEF Known
  <2>4. QED
    BY <1>5, <2>1, <2>2, <2>3 DEF Informers
<1>6. CASE StartLeading \/ StopLeading
  BY <1>6
  DEF StartLeading, StopLeading, TypeOK, Versions, Written, ObjectStates, Known,
      Down
<1>7. CASE CleanupLabels \/ CreateDomain \/ DeleteDomain \/ LabelNode
  BY <1>7
  DEF CleanupLabels, CreateDomain, DeleteDomain, LabelNode, TypeOK, Versions,
      Written, ObjectStates, Known
<1>8. QED
  BY <1>1, <1>2, <1>3, <1>4, <1>5, <1>6, <1>7 DEF Next, Works

\* A domain without the finalizer, or gone, has no creation before its first call.
LEMMA NoCreationStep ==
  ASSUME TypeOK, Lists, Lag, Unseen, NoCreation, Next
  PROVE  NoCreation'
<1> USE DEF apiVars, cacheVars, bounds
<1>1. CASE Handle
  <2>1. PICK r \in Seq(Calls) : todo' = [todo EXCEPT !["handler"] = r] /\ Script(r)
    BY <1>1, HandlerStarts
  <2> USE DEF Script
  <2>2. QED
    BY <1>1, <2>1 DEF Handle, NoCreation, Lag, Threads, TypeOK
<1>2. ASSUME NEW o \in Objects, Cleanup(o)
      PROVE  NoCreation'
  BY <1>2 DEF Cleanup, NoCreation, Threads, Objects, TypeOK
<1>3. ASSUME NEW o \in Objects, CreateLate(o)
      PROVE  NoCreation'
  BY <1>3 DEF CreateLate, Created, TypeOK, DomainStates, NoCreation, Threads
<1>4. ASSUME NEW t \in Threads, Works(t)
      PROVE  NoCreation'
  <2> USE DEF DomainEffect
  <2>1. DomainEffect(t)
    BY <1>4, HasDomainEffect
  <2>2. PICK r : todo' = [todo EXCEPT ![t] = r] /\ Left(todo[t], r)
    BY <1>4, Advance
  <2>3. QED
    BY <2>1, <2>2, First, Empty DEF NoCreation, TypeOK, Left, Ops, Threads
<1>5. CASE Informers
  BY <1>5
  DEF Informers, DeliverDomain, Deliver, Expire, TypeOK, DomainStates, NoCreation,
      Threads
<1>6. CASE StartLeading \/ StopLeading
  BY <1>6, Empty DEF StartLeading, StopLeading, NoCreation, Ops, Threads
<1>7. CASE CleanupLabels \/ CreateDomain \/ DeleteDomain \/ LabelNode
  BY <1>7, Empty DEF CleanupLabels, CreateDomain, DeleteDomain, LabelNode, NoCreation,
     Lag, Unseen, Threads, Ops, TypeOK, DomainStates
<1>8. QED
  BY <1>1, <1>2, <1>3, <1>4, <1>5, <1>6, <1>7 DEF Next, Works

\* The process sees an object whose creation was answered.
LEMMA Sees ==
  ASSUME TypeOK, Known, up, NEW o \in Objects \ lost, server[o].st # "absent"
  PROVE  View(o).st \in {"live", "deleting"}
<1>1. cache[o].rv \in Nat /\ (mutation[o] # None => mutation[o].rv \in Nat)
  BY DEF TypeOK, Versions, Written
<1>2. QED
  BY <1>1 DEF Known, View

\* In a teardown an object is gone once its release is done.
LEMMA OrderStep ==
  ASSUME TypeOK, Lists, Lag, late \subseteq lost, Known, Order, Next
  PROVE  Order'
<1> USE DEF apiVars, cacheVars, bounds
<1>1. CASE Handle
  <2>1. PICK r \in Seq(Calls) : todo' = [todo EXCEPT !["handler"] = r] /\ Script(r)
    BY <1>1, HandlerStarts
  <2> USE DEF Script
  <2>2. QED
    BY <1>1, <2>1 DEF Handle, Order, Threads, TypeOK
<1>2. ASSUME NEW o \in Objects, Cleanup(o)
      PROVE  Order'
  BY <1>2 DEF Cleanup, Order, Threads, Objects, TypeOK
<1>3. ASSUME NEW o \in Objects, CreateLate(o)
      PROVE  Order'
  BY <1>3 DEF CreateLate, Created, TypeOK, Order
<1>4. ASSUME NEW t \in Threads, Works(t)
      PROVE  Order'
  <2> USE DEF ObjectEffect, DomainEffect
  <2>1. ObjectEffect(t)
    BY <1>4, HasObjectEffect
  <2>2. DomainEffect(t)
    BY <1>4, HasDomainEffect
  <2>3. PICK r : todo' = [todo EXCEPT ![t] = r] /\ Left(todo[t], r)
    BY <1>4, Advance
  <2>4. SUFFICES ASSUME HasOp(r, "finalize"), t = "handler"
                 PROVE  Order'
    <3>1. CASE t # "handler"
      <4>1. todo'["handler"] = todo["handler"] /\ Head(todo[t]).op # "create"
        BY <2>1, <2>3, <3>1, FirstNames DEF TypeOK, Threads
      <4>2. \A p \in Objects \ lost' :
              p \notin lost /\ (server[p].st = "absent" => server'[p].st = "absent")
        BY <2>1, <4>1 DEF ObjectWrite, TypeOK
      <4>3. QED
        BY <4>1, <4>2 DEF Order
    <3>2. QED
      BY <2>3, <3>1 DEF Order, TypeOK, Threads
  <2>5. /\ HasOp(todo[t], "finalize") /\ r # <<>> /\ todo'[t] = r
        /\ Head(todo[t]).op # "create"
    BY <2>1, <2>3, <2>4, Empty, FirstNames DEF Left, Ops, TypeOK
  <2>6. ASSUME NEW p \in Objects \ lost'
        PROVE  Has(r, "release", p) \/ server'[p].st = "absent"
    <3>1. p \notin lost /\ (server[p].st = "absent" => server'[p].st = "absent")
      BY <2>1, <2>5, <2>6 DEF ObjectWrite, TypeOK
    <3>2. Has(todo[t], "release", p) \/ server[p].st = "absent"
      BY <2>4, <2>5, <3>1 DEF Order
    <3>3. CASE Has(todo[t], "release", p) /\ ~ Has(r, "release", p)
      <4>1. Head(todo[t]) = Call("release", p)
        BY <2>1, <2>3, <2>5, <3>3, First DEF Left
      <4>2. Release(t) /\ Object(t) = p
        BY <1>4, <2>5, <4>1, <2>3 DEF Works, Step, Find, Delete, AssertRemoved,
           RemoveLabels, RemoveFinalizer, AddFinalizer, Lookup, Create, CreateUnanswered, CallFails, At,
           Call, Object, Return, TypeOK
      <4>3. ~ Return(t)
        BY <2>5 DEF Return, TypeOK
      <4>4. CASE View(p).st \in {"absent", "released"}
        BY <2>1, <2>6, <3>1, <4>4, Sees
      <4>5. CASE server' = [server EXCEPT ![p] = [st |-> "absent", rv |-> @.rv + 1]]
        BY <4>5 DEF TypeOK
      <4>6. QED
        BY <4>2, <4>3, <4>4, <4>5 DEF Release
    <3>4. QED
      BY <3>1, <3>2, <3>3
  <2>7. QED
    BY <2>4, <2>5, <2>6 DEF Order
<1>5. CASE Informers
  BY <1>5 DEF Informers, DeliverDomain, Deliver, Expire, TypeOK, Order
<1>6. CASE StartLeading \/ StopLeading
  BY <1>6, Empty DEF StartLeading, StopLeading, Order, Ops, Threads
<1>7. CASE CleanupLabels \/ CreateDomain \/ DeleteDomain \/ LabelNode
  BY <1>7 DEF CleanupLabels, CreateDomain, DeleteDomain, LabelNode, TypeOK, Order
<1>8. QED
  BY <1>1, <1>2, <1>3, <1>4, <1>5, <1>6, <1>7 DEF Next, Works

\* A domain without the finalizer has no objects.
LEMMA NewStep ==
  ASSUME TypeOK, Lists, Lag, Unseen, NoCreation, NewIsEmpty, Next
  PROVE  NewIsEmpty'
<1> USE DEF apiVars, cacheVars, bounds
<1>1. CASE Handle
  BY <1>1 DEF Handle, NewIsEmpty, TypeOK, DomainStates
<1>2. ASSUME NEW o \in Objects, Cleanup(o)
      PROVE  NewIsEmpty'
  BY <1>2 DEF Cleanup, NewIsEmpty, TypeOK, DomainStates
<1>3. ASSUME NEW o \in Objects, CreateLate(o)
      PROVE  NewIsEmpty'
  BY <1>3 DEF CreateLate, Created, NewIsEmpty, TypeOK, DomainStates
<1>4. ASSUME NEW t \in Threads, Works(t)
      PROVE  NewIsEmpty'
  <2> USE DEF ObjectEffect, DomainEffect
  <2>1. ObjectEffect(t)
    BY <1>4, HasObjectEffect
  <2>2. DomainEffect(t)
    BY <1>4, HasDomainEffect
  <2>3. cd = "new" => Head(todo[t]).op # "create"
    BY <2>1, First, FirstNames DEF NoCreation
  <2>4. cd' = "new" => cd = "new"
    BY <2>2
  <2>5. QED
    BY <2>1, <2>3, <2>4 DEF NewIsEmpty, ObjectWrite, TypeOK
<1>5. CASE Informers
  BY <1>5
  DEF Informers, DeliverDomain, Deliver, Expire, NewIsEmpty, TypeOK, DomainStates
<1>6. CASE StartLeading \/ StopLeading
  BY <1>6 DEF StartLeading, StopLeading, NewIsEmpty, TypeOK, DomainStates
<1>7. CASE CleanupLabels \/ CreateDomain \/ DeleteDomain \/ LabelNode
  BY <1>7
  DEF CleanupLabels, CreateDomain, DeleteDomain, LabelNode, NewIsEmpty, TypeOK,
      DomainStates, Lag, Unseen
<1>8. QED
  BY <1>1, <1>2, <1>3, <1>4, <1>5, <1>6, <1>7 DEF Next, Works

\* A domain that is gone has none left.
LEMMA TeardownStep ==
  ASSUME TypeOK, Lists, late \subseteq lost, Order, NoCreation, NewIsEmpty,
         TeardownOrder, Next
  PROVE  TeardownOrder'
<1> USE DEF apiVars, cacheVars, bounds
<1>1. CASE Handle
  BY <1>1 DEF Handle, TeardownOrder, TypeOK, DomainStates
<1>2. ASSUME NEW o \in Objects, Cleanup(o)
      PROVE  TeardownOrder'
  BY <1>2 DEF Cleanup, TeardownOrder, TypeOK, DomainStates
<1>3. ASSUME NEW o \in Objects, CreateLate(o)
      PROVE  TeardownOrder'
  BY <1>3 DEF CreateLate, Created, TeardownOrder, TypeOK, DomainStates
<1>4. ASSUME NEW t \in Threads, Works(t)
      PROVE  TeardownOrder'
  <2> USE DEF ObjectEffect, DomainEffect
  <2>1. ObjectEffect(t)
    BY <1>4, HasObjectEffect
  <2>2. DomainEffect(t)
    BY <1>4, HasDomainEffect
  <2>3. cd = "gone" => Head(todo[t]).op # "create"
    BY <2>1, First, FirstNames DEF NoCreation
  <2>4. CASE cd = "gone"
    BY <2>1, <2>3, <2>4 DEF TeardownOrder, ObjectWrite, TypeOK
  <2>5. CASE cd # "gone" /\ cd' = "gone"
    <3>1. /\ t = "handler" /\ Head(todo[t]).op = "finalize" /\ Len(todo[t]) = 1
          /\ HasOp(todo[t], "finalize") /\ todo[t][1] = Head(todo[t])
      BY <2>1, <2>2, <2>5, First
    <3>2. \A o \in Objects : ~ Has(todo[t], "release", o)
      BY <3>1 DEF Has, Call
    <3>3. QED
      BY <2>1, <3>1, <3>2 DEF Order, TeardownOrder, ObjectWrite
  <2>6. QED
    BY <2>4, <2>5 DEF TeardownOrder
<1>5. CASE Informers
  BY <1>5
  DEF Informers, DeliverDomain, Deliver, Expire, TeardownOrder, TypeOK,
      DomainStates
<1>6. CASE StartLeading \/ StopLeading
  BY <1>6 DEF StartLeading, StopLeading, TeardownOrder, TypeOK, DomainStates
<1>7. CASE CleanupLabels \/ CreateDomain \/ DeleteDomain \/ LabelNode
  BY <1>7
  DEF CleanupLabels, CreateDomain, DeleteDomain, LabelNode, TeardownOrder, TypeOK,
      DomainStates, NewIsEmpty
<1>8. QED
  BY <1>1, <1>2, <1>3, <1>4, <1>5, <1>6, <1>7 DEF Next, Works

-----------------------------------------------------------------------------
(* The theorems.                                                           *)

\* The invariant holds of the initial states, and is preserved.
LEMMA InitInv == Init => Inv
<1> SUFFICES ASSUME Init
             PROVE  Inv
  OBVIOUS
<1> USE DEF Init
<1>1. TypeOK
  <2>1. label \in BOOLEAN /\ up \in BOOLEAN
    OBVIOUS
  <2>2. Absent \in Versions
    BY DEF Absent, Versions, ObjectStates
  <2>3. QED
    BY <2>1, <2>2, ConstantsAssumption DEF TypeOK, DomainStates, Threads
<1>2. \A t \in Threads : todo[t] = <<>>
  OBVIOUS
<1>3. Lists /\ Deletions /\ Order /\ NoCreation
  BY <1>2, Empty DEF Lists, Deletions, Order, NoCreation, Threads, Ops
<1>4. Lag /\ Unseen /\ Down /\ Kept /\ CacheBehind /\ Known /\ NewIsEmpty /\ TeardownOrder
  BY <1>2 DEF Lag, Unseen, Down, Kept, CacheBehind, Known, NewIsEmpty, TeardownOrder, Absent
<1>5. QED
  BY <1>1, <1>3, <1>4 DEF Inv

LEMMA StepInv ==
  ASSUME Inv, [Next]_vars
  PROVE  Inv'
<1>1. CASE Next
  <2>1. TypeOK' /\ Lists' /\ (late \subseteq lost)'
    BY <1>1, TypeStep, ListsStep, DataStep DEF Inv
  <2>2. Lag' /\ Unseen' /\ Down' /\ Deletions' /\ Kept'
    BY <1>1, LagStep, UnseenStep, DownStep, DeletionsStep, KeptStep DEF Inv
  <2>3. CacheBehind' /\ Known' /\ Order'
    BY <1>1, BehindStep, KnownStep, OrderStep DEF Inv
  <2>4. NoCreation' /\ NewIsEmpty' /\ TeardownOrder'
    BY <1>1, NoCreationStep, NewStep, TeardownStep DEF Inv
  <2>5. QED
    BY <2>1, <2>2, <2>3, <2>4 DEF Inv
<1>2. CASE UNCHANGED vars
  <2> USE <1>2 DEF vars, apiVars, cacheVars, bounds, Inv
  <2>1. TypeOK' /\ (late \subseteq lost)'
    BY DEF TypeOK
  <2>2. Lists' /\ Lag' /\ Unseen' /\ Down' /\ Deletions' /\ Kept'
    BY DEF Lists, Lag, Unseen, Down, Deletions, Kept
  <2>3. CacheBehind' /\ Known' /\ Order' /\ NoCreation' /\ NewIsEmpty' /\ TeardownOrder'
    BY DEF CacheBehind, Known, Order, NoCreation, NewIsEmpty, TeardownOrder
  <2>4. QED
    BY <2>1, <2>2, <2>3
<1>3. QED
  BY <1>1, <1>2

LEMMA Invariance == Spec => []Inv
BY InitInv, StepInv, PTL DEF Spec

(***************************************************************************)
(* Each variable has its type.                                             *)
(***************************************************************************)
THEOREM TypeCorrect == Spec => []TypeOK
BY Invariance, PTL DEF Inv

(***************************************************************************)
(* ObjectsKept: no object of a domain that nobody deleted is deleted by    *)
(* the handler (onAddOrUpdate) or by a cleanup worker (CleanupManager),    *)
(* for any number of failed calls and changes of the leader, and whatever  *)
(* the lag of the informers.                                               *)
(***************************************************************************)
THEOREM ObjectsAreKept == Spec => []ObjectsKept
<1>1. Inv => ObjectsKept
  BY DEF Inv, Kept, ObjectsKept
<1>2. QED
  BY <1>1, Invariance, PTL

(***************************************************************************)
(* TeardownOrder: the finalizer of a domain is removed (RemoveFinalizer)   *)
(* after all of its objects are gone, except one whose creation had no     *)
(* answer.                                                                 *)
(***************************************************************************)
THEOREM DomainGoesLast == Spec => []TeardownOrder
BY Invariance, PTL DEF Inv
=============================================================================
