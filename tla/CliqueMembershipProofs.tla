------------------------ MODULE CliqueMembershipProofs ------------------------
(***************************************************************************)
(* Proofs about the membership of a clique, for any number of nodes, IPs,  *)
(* cliques, pods, restarts and faults, and every setting of the gates.     *)
(***************************************************************************)
EXTENDS CliqueMembership, FiniteSetTheorems, TLAPS

Unique(list) ==
  \A m, n \in Listed(list) :
     (m # n /\ CliqueOf[m] = CliqueOf[n]) => list[m].index # list[n].index

(***************************************************************************)
(* A copy of the current version is the object; a process has a pod, and   *)
(* no two pods have the same IP.                                           *)
(***************************************************************************)
CopiesCurrent == \A n \in fresh : phase[n] # "down" /\ view[n] = object

PodsDistinct ==
  /\ \A n \in Nodes : phase[n] # "down" => pod[n] # None
  /\ \A m, n \in Nodes : (m # n /\ pod[m] # None) => pod[m] # pod[n]

(***************************************************************************)
(* What the update loop has is what was last sent, and what was last sent  *)
(* has the IPs of the copy, once the copy has been handled.                *)
(***************************************************************************)
Received(n) == n \in sending \/ DOMAIN config[n] = IPSet(previous[n], n)

Handled(n) ==
  (phase[n] = "run" /\ "sync" \notin todo[n] /\ view[n] # None /\ Complete(view[n]))
    => IPSet(view[n], n) = IPSet(previous[n], n)

Inv ==
  /\ TypeOK
  /\ CopiesCurrent
  /\ PodsDistinct
  /\ object # None => Unique(object)
  /\ \A n \in Nodes : Received(n) /\ Handled(n)

(***************************************************************************)
(* What NameStable says of one step.                                       *)
(***************************************************************************)
NamesKept ==
  \A n \in Nodes :
    (Present(n) /\ phase[n] = "run" /\ phase'[n] = "run" /\ podsSeen[n] = pod[n])
      => Present(n)' /\ object'[n].index = object[n].index

-----------------------------------------------------------------------------
(* Lists.                                                                  *)

(***************************************************************************)
(* The empty list.                                                         *)
(***************************************************************************)
LEMMA NobodyListed ==
  /\ Nobody \in Lists
  /\ Listed(Nobody) = {}
  /\ Unique(Nobody)
  /\ \A n \in Nodes : IPSet(Nobody, n) = {}
  BY DEF Nobody, Lists, Listed, Unique, IPSet

(***************************************************************************)
(* A list is not None, and its entries are entries.                        *)
(***************************************************************************)
LEMMA ListEntries ==
  ASSUME NEW list \in Lists
  PROVE  /\ list # None
         /\ Listed(list) \subseteq Nodes
         /\ IsFiniteSet(Listed(list))
         /\ \A n \in Listed(list) : list[n] \in Entries
         /\ \A n \in Nodes : IPSet(list, n) \subseteq IPs
<1>1. list # None
  BY MembershipAssumption
<1>2. Listed(list) \subseteq Nodes
  BY DEF Listed
<1>3. IsFiniteSet(Listed(list))
  BY <1>2, MembershipAssumption, FS_Subset
<1>4. \A n \in Listed(list) : list[n] \in Entries
  BY DEF Listed, Lists
<1>5. \A n \in Nodes : IPSet(list, n) \subseteq IPs
  BY <1>4 DEF IPSet, Entries
<1>6. QED
  BY <1>1, <1>2, <1>3, <1>4, <1>5

(***************************************************************************)
(* An inserted daemon has an index that nobody else has.                   *)
(***************************************************************************)
LEMMA InsertList ==
  ASSUME NEW list \in Lists, NEW n \in Nodes, NEW i \in Indices,
         list[n] = None, pod[n] \in IPs, NextIndex(list, n, i)
  PROVE  LET new == Insert(list, n, i)
         IN /\ new \in Lists
            /\ Unique(list) => Unique(new)
            /\ new[n].ip = pod[n]
            /\ \A m \in Nodes \ {n} : new[m] = list[m]
<1> DEFINE new == Insert(list, n, i)
<1>1. Cardinality(Listed(list)) + 1 \in Nat
  BY ListEntries, FS_CardinalityType
<1> DEFINE e == [ip |-> pod[n], index |-> i, ready |-> FALSE,
                 place |-> Cardinality(Listed(list)) + 1]
<1>2. e \in Entries
  BY <1>1 DEF Entries
<1>3. new = [list EXCEPT ![n] = e]
  BY DEF Insert
<1>4. new \in Lists /\ new[n] = e /\ \A m \in Nodes \ {n} : new[m] = list[m]
  BY <1>2, <1>3 DEF Lists
<1>5. e.ip = pod[n] /\ e.index = i
  OBVIOUS
<1>6. \A m \in Listed(list) : CliqueOf[m] = CliqueOf[n] => list[m].index # i
  BY DEF NextIndex, UsedIndices, Peers, Listed
<1>7. Listed(new) = Listed(list) \cup {n}
  BY <1>4, <1>2, MembershipAssumption DEF Listed
<1> HIDE DEF new, e
<1>8. Unique(list) => Unique(new)
  BY <1>4, <1>5, <1>6, <1>7 DEF Unique, Listed
<1>9. QED
  BY <1>4, <1>5, <1>8 DEF new

Changed(list, n, e) == [list EXCEPT ![n] = e]

(***************************************************************************)
(* Changing the IP or the readiness of an entry leaves its index.          *)
(***************************************************************************)
LEMMA ChangeList ==
  ASSUME NEW list \in Lists, NEW n \in Nodes, list[n] # None,
         NEW e \in Entries, e.index = list[n].index
  PROVE  /\ Changed(list, n, e) \in Lists
         /\ Unique(list) => Unique(Changed(list, n, e))
         /\ \A m \in Nodes \ {n} : Changed(list, n, e)[m] = list[m]
         /\ Changed(list, n, e)[n] = e
<1> DEFINE new == Changed(list, n, e)
<1>1. new \in Lists /\ new[n] = e /\ \A m \in Nodes \ {n} : new[m] = list[m]
  BY DEF Lists, Changed
<1> HIDE DEF new
<1>2. Listed(new) = Listed(list)
  BY <1>1, MembershipAssumption DEF Listed
<1>3. \A m \in Listed(list) : new[m].index = list[m].index
  BY <1>1 DEF Listed
<1>4. Unique(list) => Unique(new)
  BY <1>2, <1>3 DEF Unique
<1>5. QED
  BY <1>1, <1>4 DEF new

(***************************************************************************)
(* An entry with another IP, or with another readiness.                    *)
(***************************************************************************)
LEMMA ChangeEntry ==
  ASSUME NEW x \in Entries, NEW a \in IPs, NEW r \in BOOLEAN
  PROVE  /\ [x EXCEPT !.ip = a] \in Entries
         /\ [x EXCEPT !.ip = a].index = x.index
         /\ [x EXCEPT !.ready = r] \in Entries
         /\ [x EXCEPT !.ready = r].index = x.index
         /\ [x EXCEPT !.ready = r].ip = x.ip
  BY DEF Entries

(***************************************************************************)
(* Removing entries leaves the IP and the index of the others.             *)
(***************************************************************************)
LEMMA WithoutList ==
  ASSUME NEW list \in Lists, NEW S
  PROVE  LET new == Without(list, S)
         IN /\ new \in Lists
            /\ Unique(list) => Unique(new)
            /\ \A m \in Listed(list) \ S :
                  new[m] # None /\ new[m].ip = list[m].ip
                                /\ new[m].index = list[m].index
<1> DEFINE new == Without(list, S)
           P(n) == Cardinality({m \in Listed(list) \ S : list[m].place <= list[n].place})
<1>1. \A n \in Nodes : P(n) \in Nat
  <2>1. TAKE n \in Nodes
  <2>2. {m \in Listed(list) \ S : list[m].place <= list[n].place} \subseteq Listed(list)
    OBVIOUS
  <2>3. QED
    BY <2>2, ListEntries, FS_Subset, FS_CardinalityType
<1>2. \A n \in Nodes : new[n] =
         IF n \in S \/ list[n] = None THEN None ELSE [list[n] EXCEPT !.place = P(n)]
  BY DEF Without
<1>3. new = [n \in Nodes |-> new[n]]
  BY DEF Without
<1> HIDE DEF new, P
<1>4. \A n \in Listed(list) \ S :
         /\ new[n] \in Entries
         /\ new[n].ip = list[n].ip /\ new[n].index = list[n].index
  <2>1. TAKE n \in Listed(list) \ S
  <2>2. list[n] \in Entries /\ P(n) \in Nat /\ n \in Nodes /\ list[n] # None
    BY <1>1, ListEntries DEF Listed
  <2>3. new[n] = [list[n] EXCEPT !.place = P(n)]
    BY <1>2, <2>2
  <2>4. QED
    BY <2>2, <2>3 DEF Entries
<1>5. \A n \in Nodes : n \notin Listed(list) \ S => new[n] = None
  BY <1>2 DEF Listed
<1>6. new \in Lists
  <2>1. \A n \in Nodes : new[n] \in Entries \cup {None}
    BY <1>4, <1>5
  <2>2. QED
    BY <2>1, <1>3 DEF Lists
<1>7. Listed(new) = Listed(list) \ S
  BY <1>4, <1>5, ListEntries, MembershipAssumption DEF Listed
<1>8. Unique(list) => Unique(new)
  BY <1>4, <1>7 DEF Unique
<1>9. QED
  BY <1>4, <1>6, <1>8, MembershipAssumption DEF new

-----------------------------------------------------------------------------
(* Steps.                                                                  *)

(***************************************************************************)
(* The initial states.                                                     *)
(***************************************************************************)
LEMMA InitInv == Init => Inv
<1> SUFFICES ASSUME Init PROVE Inv
  OBVIOUS
<1> USE DEF Init
<1>1. TypeOK
  BY NobodyListed, MembershipAssumption DEF TypeOK, NoMap, Nobody, Tasks
<1>2. CopiesCurrent /\ PodsDistinct
  BY DEF CopiesCurrent, PodsDistinct, Nobody
<1>3. object # None => Unique(object)
  BY NobodyListed
<1>4. \A n \in Nodes : Received(n) /\ Handled(n)
  BY NobodyListed DEF Received, Handled, NoMap
<1>5. QED
  BY <1>1, <1>2, <1>3, <1>4 DEF Inv

(***************************************************************************)
(* A daemon whose own state does not change.                               *)
(***************************************************************************)
LEMMA DaemonFrame ==
  ASSUME NEW n \in Nodes, Received(n), Handled(n),
         gates' = gates, phase'[n] = phase[n], view'[n] = view[n],
         todo'[n] = todo[n], previous'[n] = previous[n], config'[n] = config[n],
         (n \in sending') = (n \in sending)
  PROVE  Received(n)' /\ Handled(n)'
  BY DEF Received, Handled, Complete

(***************************************************************************)
(* A step that leaves the object alone.                                    *)
(***************************************************************************)
LEMMA ObjectFrame ==
  ASSUME Inv, object' = object,
         \A n \in Nodes : phase[n] = "run" => pod'[n] = pod[n]
  PROVE  (object # None => Unique(object))' /\ NamesKept
<1>1. (object # None => Unique(object))'
  BY DEF Inv, Unique
<1>2. NamesKept
  BY DEF NamesKept, Present
<1>3. QED
  BY <1>1, <1>2

(***************************************************************************)
(* A step that changes neither pods nor processes.                         *)
(***************************************************************************)
LEMMA PodFrame ==
  ASSUME Inv, pod' = pod, phase' = phase
  PROVE  PodsDistinct'
  BY DEF Inv, PodsDistinct

(***************************************************************************)
(* A daemon's write, seen or lost: a new list based on the current one in  *)
(* which at most the daemon's own entry is changed.                        *)
(***************************************************************************)
LEMMA WriteStep ==
  ASSUME Inv, NEW n \in Nodes, NEW list \in Lists, Unique(list),
         phase' = phase, pod' = pod, phase[n] # "down",
         Update(n, list) \/ UpdateLost(n, list),
         object # None =>
            /\ \A m \in Nodes \ {n} : list[m] = object[m]
            /\ Present(n) => list[n] # None /\ list[n].ip = pod[n]
                                           /\ list[n].index = object[n].index
  PROVE  /\ object' \in Lists \cup {None} /\ fresh' \subseteq Nodes
         /\ view' \in [Nodes -> Lists \cup {None}] /\ faults' \in 0 .. MaxFaults
         /\ \A m \in Nodes \ {n} : view'[m] = view[m]
         /\ CopiesCurrent' /\ PodsDistinct'
         /\ (object # None => Unique(object))'
         /\ NamesKept
<1>1. TypeOK /\ CopiesCurrent
  BY DEF Inv
<1>2. /\ object' = list /\ fresh' \subseteq {n}
      /\ fresh' = {} => view' = view
      /\ fresh' # {} => view' = [view EXCEPT ![n] = list]
  BY DEF Update, UpdateLost
<1>3. view' \in [Nodes -> Lists \cup {None}]
       /\ \A m \in Nodes \ {n} : view'[m] = view[m]
  BY <1>1, <1>2 DEF TypeOK
<1>4. faults' \in 0 .. MaxFaults
  BY <1>1, MembershipAssumption DEF TypeOK, Update, UpdateLost
<1>5. CopiesCurrent'
  BY <1>1, <1>2 DEF CopiesCurrent, TypeOK
<1>6. PodsDistinct'
  BY PodFrame
<1>7. (object # None => Unique(object))'
  BY <1>2 DEF Unique
<1>8. NamesKept
  <2> SUFFICES ASSUME NEW m \in Nodes, Present(m)
               PROVE  Present(m)' /\ object'[m].index = object[m].index
    BY DEF NamesKept
  <2>1. list # None
    BY ListEntries
  <2>2. CASE m = n
    BY <1>2, <2>1, <2>2 DEF Present
  <2>3. CASE m # n
    BY <1>2, <2>1, <2>3 DEF Present
  <2>4. QED
    BY <2>2, <2>3
<1>9. QED
  BY <1>2, <1>3, <1>4, <1>5, <1>6, <1>7, <1>8

(***************************************************************************)
(* A process starts with the current object, which it has not handled.     *)
(***************************************************************************)
LEMMA StartInv ==
  ASSUME Inv, NEW n \in Nodes, Start(n)
  PROVE  Inv' /\ NamesKept
<1> USE DEF Start, podVars
<1>1. TypeOK /\ CopiesCurrent /\ PodsDistinct
  BY DEF Inv
<1>2. TypeOK'
  BY <1>1, NobodyListed, MembershipAssumption DEF TypeOK, Tasks, NoMap
<1>3. CopiesCurrent'
  BY <1>1 DEF CopiesCurrent, TypeOK
<1>4. PodsDistinct'
  BY <1>1 DEF PodsDistinct, TypeOK
<1>5. (object # None => Unique(object))' /\ NamesKept
  BY ObjectFrame
<1>6. ASSUME NEW m \in Nodes
      PROVE  Received(m)' /\ Handled(m)'
  <2>1. CASE m = n
    <3>1. Handled(n)'
      BY <1>1 DEF Handled, TypeOK
    <3>2. config'[n] = NoMap /\ previous'[n] = Nobody
      BY <1>1 DEF TypeOK
    <3>3. Received(n)'
      BY <3>2, NobodyListed DEF Received, NoMap
    <3>4. QED
      BY <2>1, <3>1, <3>3
  <2>2. CASE m # n
    BY <1>1, <2>2, DaemonFrame DEF TypeOK, Inv
  <2>3. QED
    BY <2>1, <2>2
<1>7. QED
  BY <1>2, <1>3, <1>4, <1>5, <1>6 DEF Inv

(***************************************************************************)
(* The informer brings the current object; it is to be handled.            *)
(***************************************************************************)
LEMMA DeliverInv ==
  ASSUME Inv, NEW n \in Nodes, Deliver(n)
  PROVE  Inv' /\ NamesKept
<1> USE DEF Deliver, podVars
<1>1. TypeOK /\ CopiesCurrent
  BY DEF Inv
<1>2. TypeOK'
  BY <1>1 DEF TypeOK, Tasks
<1>3. CopiesCurrent'
  BY <1>1 DEF CopiesCurrent, TypeOK
<1>4. PodsDistinct'
  BY PodFrame
<1>5. (object # None => Unique(object))' /\ NamesKept
  BY ObjectFrame
<1>6. ASSUME NEW m \in Nodes
      PROVE  Received(m)' /\ Handled(m)'
  <2>1. CASE m = n
    BY <1>1, <2>1 DEF Received, Handled, TypeOK, Inv
  <2>2. CASE m # n
    BY <1>1, <2>2, DaemonFrame DEF TypeOK, Inv
  <2>3. QED
    BY <2>1, <2>2
<1>7. QED
  BY <1>2, <1>3, <1>4, <1>5, <1>6 DEF Inv

(***************************************************************************)
(* ensureCliqueExists only ever creates the empty object.                  *)
(***************************************************************************)
LEMMA EnsureInv ==
  ASSUME Inv, NEW n \in Nodes, EnsureCliqueExists(n)
  PROVE  Inv' /\ NamesKept
<1> USE DEF EnsureCliqueExists, podVars
<1>1. TypeOK /\ CopiesCurrent
  BY DEF Inv
<1>2. todo' \in [Nodes -> SUBSET Tasks]
       /\ \A m \in Nodes \ {n} : todo'[m] = todo[m]
  BY <1>1 DEF TypeOK, Tasks
<1>3. CASE view[n] # None
  <2>1. UNCHANGED <<object, fresh, view, faults>>
    BY <1>3
  <2>2. TypeOK'
    BY <1>1, <1>2, <2>1 DEF TypeOK
  <2>3. CopiesCurrent' /\ PodsDistinct'
    BY <1>1, <2>1, PodFrame DEF CopiesCurrent
  <2>4. (object # None => Unique(object))' /\ NamesKept
    BY <2>1, ObjectFrame
  <2>5. Received(n)' /\ Handled(n)'
    BY <1>1, <1>3, <2>1 DEF Received, Handled, TypeOK, Complete, Inv
  <2>6. \A m \in Nodes \ {n} : Received(m)' /\ Handled(m)'
    BY <1>2, <2>1, DaemonFrame DEF Inv
  <2>7. QED
    BY <2>2, <2>3, <2>4, <2>5, <2>6 DEF Inv
<1>4. CASE view[n] = None
  <2>1. object = None /\ (Update(n, Nobody) \/ UpdateLost(n, Nobody))
    BY <1>4
  <2>2. /\ object' \in Lists \cup {None} /\ fresh' \subseteq Nodes
        /\ view' \in [Nodes -> Lists \cup {None}] /\ faults' \in 0 .. MaxFaults
        /\ \A m \in Nodes \ {n} : view'[m] = view[m]
        /\ CopiesCurrent' /\ PodsDistinct'
        /\ (object # None => Unique(object))'
        /\ NamesKept
    BY <2>1, NobodyListed, WriteStep DEF Idle
  <2>3. TypeOK'
    BY <1>1, <1>2, <2>2 DEF TypeOK
  <2>4. Received(n)' /\ Handled(n)'
    BY <1>1, <1>4 DEF Received, Handled, TypeOK, Update, UpdateLost, Inv
  <2>5. \A m \in Nodes \ {n} : Received(m)' /\ Handled(m)'
    BY <1>2, <2>2, DaemonFrame DEF Inv
  <2>6. QED
    BY <2>2, <2>3, <2>4, <2>5 DEF Inv
<1>5. QED
  BY <1>3, <1>4

(***************************************************************************)
(* A push leaves in previous the IPs of the list, if the list is complete. *)
(***************************************************************************)
LEMMA PushStep ==
  ASSUME TypeOK, NEW n \in Nodes, NEW list \in Lists, Push(n, list),
         n \notin sending, Received(n), config' = config
  PROVE  /\ previous' \in [Nodes -> Lists] /\ sending' \subseteq Nodes
         /\ \A m \in Nodes \ {n} : /\ previous'[m] = previous[m]
                                   /\ (m \in sending') = (m \in sending)
         /\ Complete(list) => IPSet(list, n) = IPSet(previous'[n], n)
         /\ Received(n)'
<1>1. CASE Complete(list) /\ IPSet(list, n) # IPSet(previous[n], n)
  <2>1. previous' = [previous EXCEPT ![n] = list] /\ sending' = sending \cup {n}
    BY <1>1 DEF Push
  <2>2. QED
    BY <2>1 DEF TypeOK, Received
<1>2. CASE ~(Complete(list) /\ IPSet(list, n) # IPSet(previous[n], n))
  <2>1. previous' = previous /\ sending' = sending
    BY <1>2 DEF Push
  <2>2. QED
    BY <1>2, <2>1 DEF TypeOK, Received
<1>3. QED
  BY <1>1, <1>2

(***************************************************************************)
(* The callback that finds itself listed passes its copy on.               *)
(***************************************************************************)
LEMMA SyncNoopInv ==
  ASSUME Inv, NEW n \in Nodes, SyncNoop(n)
  PROVE  Inv' /\ NamesKept
<1> USE DEF SyncNoop, podVars
<1>1. TypeOK /\ CopiesCurrent /\ Received(n) /\ n \notin sending /\ view[n] \in Lists
  BY DEF Inv, Idle, TypeOK
<1>2. /\ previous' \in [Nodes -> Lists] /\ sending' \subseteq Nodes
      /\ \A m \in Nodes \ {n} : /\ previous'[m] = previous[m]
                                /\ (m \in sending') = (m \in sending)
      /\ Complete(view[n]) => IPSet(view[n], n) = IPSet(previous'[n], n)
      /\ Received(n)'
  BY <1>1, PushStep
<1>3. TypeOK'
  BY <1>1, <1>2 DEF TypeOK
<1>4. CopiesCurrent' /\ PodsDistinct'
  BY <1>1, PodFrame DEF CopiesCurrent
<1>5. (object # None => Unique(object))' /\ NamesKept
  BY ObjectFrame
<1>6. Handled(n)'
  BY <1>2 DEF Handled, Complete
<1>7. \A m \in Nodes \ {n} : todo'[m] = todo[m]
  BY <1>1 DEF TypeOK
<1>8. \A m \in Nodes \ {n} : Received(m)' /\ Handled(m)'
  BY <1>2, <1>7, DaemonFrame DEF Inv
<1>9. QED
  BY <1>2, <1>3, <1>4, <1>5, <1>6, <1>8 DEF Inv

(***************************************************************************)
(* The lists SyncDaemonInfo may write.                                     *)
(***************************************************************************)
LEMMA NewList ==
  ASSUME Inv, NEW n \in Nodes, view[n] \in Lists, pod[n] \in IPs,
         NEW list \in NewLists(n)
  PROVE  /\ list \in Lists
         /\ Unique(view[n]) => Unique(list)
         /\ \A m \in Nodes \ {n} : list[m] = view[n][m]
<1>1. CASE view[n][n] = None
  <2>1. PICK i \in Indices : NextIndex(view[n], n, i) /\ list = Insert(view[n], n, i)
    BY <1>1 DEF NewLists
  <2>2. QED
    BY <1>1, <2>1, InsertList
<1>2. CASE view[n][n] # None
  <2> DEFINE e == [view[n][n] EXCEPT !.ip = pod[n]]
  <2>1. view[n][n] \in Entries
    BY <1>2 DEF Lists
  <2>2. e \in Entries /\ e.index = view[n][n].index
    BY <2>1, ChangeEntry
  <2>3. list = Changed(view[n], n, e)
    BY <1>2 DEF NewLists, Changed
  <2> HIDE DEF e
  <2>4. QED
    BY <1>2, <2>2, <2>3, ChangeList
<1>3. QED
  BY <1>1, <1>2

(***************************************************************************)
(* A daemon inserts itself or changes its IP; its copy was current.        *)
(***************************************************************************)
LEMMA SyncDaemonInfoInv ==
  ASSUME Inv, NEW n \in Nodes, SyncDaemonInfo(n)
  PROVE  Inv' /\ NamesKept
<1> USE DEF SyncDaemonInfo, podVars
<1>1. /\ TypeOK /\ CopiesCurrent /\ Received(n) /\ n \notin sending
      /\ view[n] \in Lists /\ phase[n] = "run" /\ "sync" \in todo[n]
  BY DEF Inv, Idle, TypeOK
<1>2. pod[n] \in IPs
  BY <1>1 DEF Inv, PodsDistinct, TypeOK
<1>3. PICK list \in NewLists(n) :
         \/ Update(n, list) /\ Push(n, list)
         \/ UpdateLost(n, list) /\ UNCHANGED <<previous, sending>>
  OBVIOUS
<1>4. n \in fresh /\ view[n] = object
  BY <1>1, <1>3 DEF Update, UpdateLost, CopiesCurrent
<1>5. /\ list \in Lists /\ Unique(list)
      /\ \A m \in Nodes \ {n} : list[m] = object[m]
  BY <1>1, <1>2, <1>3, <1>4, NewList DEF Inv
<1>6. ~Present(n)
  BY <1>4 DEF Present
<1>7. /\ object' \in Lists \cup {None} /\ fresh' \subseteq Nodes
      /\ view' \in [Nodes -> Lists \cup {None}] /\ faults' \in 0 .. MaxFaults
      /\ \A m \in Nodes \ {n} : view'[m] = view[m]
      /\ CopiesCurrent' /\ PodsDistinct'
      /\ (object # None => Unique(object))'
      /\ NamesKept
  BY <1>1, <1>3, <1>5, <1>6, WriteStep
<1>8. /\ previous' \in [Nodes -> Lists] /\ sending' \subseteq Nodes
      /\ \A m \in Nodes \ {n} : /\ previous'[m] = previous[m]
                                /\ (m \in sending') = (m \in sending)
      /\ Received(n)'
  <2>1. CASE Push(n, list)
    BY <1>1, <1>5, <2>1, PushStep
  <2>2. CASE UNCHANGED <<previous, sending>>
    BY <1>1, <2>2 DEF TypeOK, Received
  <2>3. QED
    BY <1>3, <2>1, <2>2
<1>9. TypeOK'
  BY <1>1, <1>7, <1>8 DEF TypeOK
<1>10. Handled(n)'
  BY <1>1 DEF Handled
<1>11. \A m \in Nodes \ {n} : Received(m)' /\ Handled(m)'
  BY <1>7, <1>8, DaemonFrame DEF Inv
<1>12. QED
  BY <1>7, <1>8, <1>9, <1>10, <1>11 DEF Inv

(***************************************************************************)
(* A daemon reports its readiness.                                         *)
(***************************************************************************)
LEMMA UpdateDaemonStatusInv ==
  ASSUME Inv, NEW n \in Nodes, UpdateDaemonStatus(n)
  PROVE  Inv' /\ NamesKept
<1> USE DEF UpdateDaemonStatus, podVars
<1> DEFINE e == [view[n][n] EXCEPT !.ready = n \in ready]
           list == [view[n] EXCEPT ![n] = e]
<1>1. /\ TypeOK /\ CopiesCurrent /\ view[n] \in Lists /\ phase[n] = "run"
      /\ view[n][n] # None
  BY DEF Inv, Idle, TypeOK
<1>2. view[n][n] \in Entries
  BY <1>1 DEF Lists
<1>3. e \in Entries /\ e.index = view[n][n].index /\ e.ip = view[n][n].ip
  <2>1. (n \in ready) \in BOOLEAN
    OBVIOUS
  <2>2. IPs # {}
    BY <1>2 DEF Entries
  <2>3. QED
    BY <1>2, <2>1, <2>2, ChangeEntry, Zenon
<1>4. \/ Update(n, list) /\ todo' = [todo EXCEPT ![n] = @ \cup {"sync"}]
      \/ UpdateLost(n, list) /\ UNCHANGED todo
  OBVIOUS
<1> HIDE DEF e
<1>5. n \in fresh /\ view[n] = object
  BY <1>1, <1>4 DEF Update, UpdateLost, CopiesCurrent
<1>6. /\ list \in Lists /\ Unique(list) /\ list[n] = e
      /\ \A m \in Nodes \ {n} : list[m] = object[m]
  <2>1. list = Changed(view[n], n, e)
    BY DEF Changed
  <2>2. Unique(view[n])
    BY <1>1, <1>5, ListEntries DEF Inv
  <2> HIDE DEF list, UpdateDaemonStatus
  <2>3. QED
    BY <1>1, <1>3, <1>5, <2>1, <2>2, ChangeList
<1> HIDE DEF list
<1>7. Present(n) => list[n] # None /\ list[n].ip = pod[n]
                                  /\ list[n].index = object[n].index
  BY <1>3, <1>5, <1>6, MembershipAssumption DEF Present
<1>8. /\ object' \in Lists \cup {None} /\ fresh' \subseteq Nodes
      /\ view' \in [Nodes -> Lists \cup {None}] /\ faults' \in 0 .. MaxFaults
      /\ \A m \in Nodes \ {n} : view'[m] = view[m]
      /\ CopiesCurrent' /\ PodsDistinct'
      /\ (object # None => Unique(object))'
      /\ NamesKept
  BY <1>1, <1>4, <1>6, <1>7, WriteStep
<1>9. todo' \in [Nodes -> SUBSET Tasks]
       /\ \A m \in Nodes \ {n} : todo'[m] = todo[m]
  BY <1>1, <1>4 DEF TypeOK, Tasks
<1>10. TypeOK'
  BY <1>1, <1>8, <1>9 DEF TypeOK
<1>11. Received(n)' /\ Handled(n)'
  <2>1. Received(n)'
    BY DEF Received, Inv
  <2>2. CASE Update(n, list)
    BY <1>1, <1>4, <2>2, <2>1 DEF Handled, TypeOK, Update, UpdateLost
  <2>3. CASE UpdateLost(n, list)
    BY <1>1, <1>4, <2>3, <2>1 DEF Handled, TypeOK, UpdateLost, Complete, Inv
  <2>4. QED
    BY <1>4, <2>2, <2>3
<1>12. \A m \in Nodes \ {n} : Received(m)' /\ Handled(m)'
  BY <1>8, <1>9, DaemonFrame DEF Inv
<1>13. QED
  BY <1>8, <1>10, <1>11, <1>12 DEF Inv

(***************************************************************************)
(* The update loop takes what was sent.                                    *)
(***************************************************************************)
LEMMA ReceiveUpdateInv ==
  ASSUME Inv, NEW n \in Nodes, ReceiveUpdate(n)
  PROVE  Inv' /\ NamesKept
<1> USE DEF ReceiveUpdate, podVars
<1>1. TypeOK /\ CopiesCurrent
  BY DEF Inv
<1>2. DOMAIN Mapping(previous[n], n) = IPSet(previous[n], n)
  BY DEF Mapping
<1>3. IPSet(previous[n], n) \subseteq IPs
  BY <1>1, ListEntries DEF TypeOK
<1>4. /\ DOMAIN config' = Nodes /\ config'[n] = Mapping(previous[n], n)
      /\ \A m \in Nodes \ {n} : config'[m] = config[m]
  BY <1>1 DEF TypeOK
<1>5. TypeOK'
  BY <1>1, <1>2, <1>3, <1>4 DEF TypeOK
<1>6. CopiesCurrent' /\ PodsDistinct'
  BY <1>1, PodFrame DEF CopiesCurrent
<1>7. (object # None => Unique(object))' /\ NamesKept
  BY ObjectFrame
<1>8. Received(n)' /\ Handled(n)'
  BY <1>2, <1>4 DEF Received, Handled, Complete, Inv
<1>9. \A m \in Nodes \ {n} : Received(m)' /\ Handled(m)'
  BY <1>4, DaemonFrame DEF Inv
<1>10. QED
  BY <1>5, <1>6, <1>7, <1>8, <1>9 DEF Inv

(***************************************************************************)
(* The context ends, or the update loop does.                              *)
(***************************************************************************)
LEMMA CancelInv ==
  ASSUME Inv, NEW n \in Nodes, Cancel(n) \/ LoopEnds(n)
  PROVE  Inv' /\ NamesKept
<1> USE DEF Cancel, LoopEnds, podVars
<1>1. TypeOK /\ CopiesCurrent /\ PodsDistinct
  BY DEF Inv
<1>2. TypeOK'
  BY <1>1 DEF TypeOK
<1>3. \A m \in Nodes : phase'[m] # phase[m] => phase[m] = "run" /\ phase'[m] = "cancelled"
  BY <1>1 DEF TypeOK
<1>4. CopiesCurrent' /\ PodsDistinct'
  BY <1>1, <1>3 DEF CopiesCurrent, PodsDistinct, TypeOK
<1>5. (object # None => Unique(object))' /\ NamesKept
  BY ObjectFrame
<1>6. \A m \in Nodes : Received(m)' /\ Handled(m)'
  BY <1>1, <1>3 DEF Received, Handled, Complete, Inv
<1>7. QED
  BY <1>2, <1>4, <1>5, <1>6 DEF Inv

(***************************************************************************)
(* The end of a process.                                                   *)
(***************************************************************************)
LEMMA ExitStep ==
  ASSUME Inv, NEW n \in Nodes, Exit(n), n \notin fresh',
         object' \in Lists \cup {None}, fresh' \subseteq fresh,
         fresh' # {} => object' = object,
         faults' \in 0 .. MaxFaults
  PROVE  /\ TypeOK' /\ CopiesCurrent' /\ PodsDistinct'
         /\ \A m \in Nodes : Received(m)' /\ Handled(m)'
<1> USE DEF Exit, podVars
<1>1. TypeOK /\ CopiesCurrent /\ PodsDistinct
  BY DEF Inv
<1>2. TypeOK'
  BY <1>1, NobodyListed, MembershipAssumption DEF TypeOK, Tasks, NoMap
<1>3. CopiesCurrent'
  BY <1>1 DEF CopiesCurrent, TypeOK
<1>4. PodsDistinct'
  BY <1>1 DEF PodsDistinct, TypeOK
<1>5. Received(n)' /\ Handled(n)'
  <2>1. config'[n] = NoMap /\ previous'[n] = Nobody /\ phase'[n] = "down"
    BY <1>1 DEF TypeOK
  <2>2. QED
    BY <2>1, NobodyListed DEF Received, Handled, NoMap
<1>6. \A m \in Nodes \ {n} : Received(m)' /\ Handled(m)'
  BY <1>1, DaemonFrame DEF TypeOK, Inv
<1>7. QED
  BY <1>2, <1>3, <1>4, <1>5, <1>6

(***************************************************************************)
(* Stop removes no entry of another daemon that has a pod.                 *)
(***************************************************************************)
LEMMA StopInv ==
  ASSUME Inv, NEW n \in Nodes, Stop(n)
  PROVE  Inv' /\ NamesKept
<1> USE DEF Stop
<1>1. TypeOK /\ CopiesCurrent /\ PodsDistinct
  BY DEF Inv
<1>2. faults' \in 0 .. MaxFaults /\ pod' = pod /\ phase[n] = "cancelled"
  BY <1>1 DEF TypeOK, Exit, podVars
<1>3. CASE object' = object /\ fresh' = fresh \ {n}
  <2>1. /\ TypeOK' /\ CopiesCurrent' /\ PodsDistinct'
        /\ \A m \in Nodes : Received(m)' /\ Handled(m)'
    BY <1>1, <1>2, <1>3, ExitStep DEF TypeOK
  <2>2. (object # None => Unique(object))' /\ NamesKept
    BY <1>2, <1>3, ObjectFrame
  <2>3. QED
    BY <2>1, <2>2 DEF Inv
<1>4. CASE /\ view[n] # None /\ n \in fresh
           /\ object' = Without(object, OwnEntries(n))
           /\ fresh' = IF object' = object THEN fresh \ {n} ELSE {}
  <2>1. view[n] = object /\ object \in Lists /\ Unique(object)
    BY <1>1, <1>4 DEF CopiesCurrent, TypeOK, Inv
  <2>2. /\ object' \in Lists /\ Unique(object')
        /\ \A m \in Listed(object) \ OwnEntries(n) :
              object'[m] # None /\ object'[m].ip = object[m].ip
                                /\ object'[m].index = object[m].index
    BY <1>4, <2>1, WithoutList
  <2>3. /\ TypeOK' /\ CopiesCurrent' /\ PodsDistinct'
        /\ \A m \in Nodes : Received(m)' /\ Handled(m)'
    BY <1>2, <1>4, <2>2, ExitStep
  <2>4. NamesKept
    <3> SUFFICES ASSUME NEW m \in Nodes, Present(m), phase[m] = "run"
                 PROVE  Present(m)' /\ object'[m].index = object[m].index
      BY DEF NamesKept
    <3>1. m # n
      BY <1>2
    <3>2. pod[n] # pod[m]
      BY <1>1, <1>2, <3>1 DEF PodsDistinct
    <3>3. m \in Listed(object) \ OwnEntries(n)
      BY <2>1, <3>2 DEF Present, Listed, OwnEntries
    <3>4. object' # None
      BY <2>2, ListEntries
    <3>5. QED
      BY <1>2, <2>2, <3>3, <3>4 DEF Present
  <2>5. QED
    BY <2>2, <2>3, <2>4 DEF Inv, Unique
<1>5. QED
  BY <1>3, <1>4

(***************************************************************************)
(* A process that is killed leaves the object as it is.                    *)
(***************************************************************************)
LEMMA KillInv ==
  ASSUME Inv, NEW n \in Nodes, KillCancelled(n) \/ Crash(n)
  PROVE  Inv' /\ NamesKept
<1> USE DEF KillCancelled, Crash
<1>1. TypeOK
  BY DEF Inv
<1>2. faults' \in 0 .. MaxFaults /\ pod' = pod
  BY <1>1, MembershipAssumption DEF TypeOK, Exit, podVars
<1>3. object' = object /\ fresh' = fresh \ {n} /\ Exit(n)
  OBVIOUS
<1>4. /\ TypeOK' /\ CopiesCurrent' /\ PodsDistinct'
      /\ \A m \in Nodes : Received(m)' /\ Handled(m)'
  BY <1>1, <1>2, <1>3, ExitStep DEF TypeOK
<1>5. (object # None => Unique(object))' /\ NamesKept
  BY <1>2, <1>3, ObjectFrame
<1>6. QED
  BY <1>4, <1>5 DEF Inv

(***************************************************************************)
(* Pods come and go while no process runs in them.                         *)
(***************************************************************************)
LEMMA PodInv ==
  ASSUME Inv, NEW n \in Nodes, CreatePod(n) \/ DeletePod(n)
  PROVE  Inv' /\ NamesKept
<1> USE DEF CreatePod, DeletePod, daemonVars
<1>1. TypeOK /\ CopiesCurrent /\ PodsDistinct
  BY DEF Inv
<1>2. phase[n] = "down" /\ phase' = phase
  BY <1>1 DEF PodsDistinct, TypeOK
<1>3. TypeOK'
  BY <1>1, MembershipAssumption DEF TypeOK
<1>4. CopiesCurrent'
  BY <1>1 DEF CopiesCurrent
<1>5. PodsDistinct'
  <2>1. \A m \in Nodes \ {n} : pod'[m] = pod[m]
    BY <1>1 DEF TypeOK
  <2>2. \A m \in Nodes \ {n} : pod'[n] # None => pod'[n] # pod[m]
    BY <1>1 DEF TypeOK
  <2>3. QED
    BY <1>1, <1>2, <2>1, <2>2 DEF PodsDistinct
<1>6. (object # None => Unique(object))' /\ NamesKept
  <2>1. \A m \in Nodes : phase[m] = "run" => pod'[m] = pod[m]
    BY <1>1, <1>2 DEF TypeOK
  <2>2. QED
    BY <2>1, ObjectFrame
<1>7. \A m \in Nodes : Received(m)' /\ Handled(m)'
  BY DaemonFrame DEF Inv
<1>8. QED
  BY <1>3, <1>4, <1>5, <1>6, <1>7 DEF Inv

(***************************************************************************)
(* Probes, and the controller's cache of the pods.                         *)
(***************************************************************************)
LEMMA ProbeInv ==
  ASSUME Inv, (\E n \in Nodes : Probe(n) \/ DeliverOthers(n)) \/ DeliverPods
  PROVE  Inv' /\ NamesKept
<1> USE DEF Probe, DeliverPods, DeliverOthers, daemonVars, podVars
<1>1. TypeOK /\ CopiesCurrent
  BY DEF Inv
<1>2. TypeOK'
  BY <1>1, MembershipAssumption DEF TypeOK
<1>3. CopiesCurrent' /\ PodsDistinct'
  BY <1>1, PodFrame DEF CopiesCurrent
<1>4. (object # None => Unique(object))' /\ NamesKept
  BY ObjectFrame
<1>5. \A m \in Nodes : Received(m)' /\ Handled(m)'
  BY DaemonFrame DEF Inv
<1>6. QED
  BY <1>2, <1>3, <1>4, <1>5 DEF Inv

(***************************************************************************)
(* The controller removes no entry of a pod that it knows.                 *)
(***************************************************************************)
LEMMA RemoveStaleInv ==
  ASSUME Inv, RemoveStale
  PROVE  Inv' /\ NamesKept
<1> USE DEF RemoveStale, daemonVars, podVars
<1>1. TypeOK /\ CopiesCurrent
  BY DEF Inv
<1>2. object \in Lists /\ Unique(object)
  BY <1>1 DEF TypeOK, Inv
<1>3. /\ object' \in Lists /\ Unique(object')
      /\ \A m \in Listed(object) \ Stale(object) :
            object'[m] # None /\ object'[m].ip = object[m].ip
                              /\ object'[m].index = object[m].index
  BY <1>2, WithoutList
<1>4. faults' \in 0 .. MaxFaults
  BY <1>1, MembershipAssumption DEF TypeOK
<1>5. TypeOK'
  BY <1>1, <1>3, <1>4 DEF TypeOK
<1>6. CopiesCurrent' /\ PodsDistinct'
  BY PodFrame DEF CopiesCurrent
<1>7. NamesKept
  <2> SUFFICES ASSUME NEW m \in Nodes, Present(m), phase[m] = "run",
                      podsSeen[m] = pod[m]
               PROVE  Present(m)' /\ object'[m].index = object[m].index
    BY DEF NamesKept
  <2>1. pod[m] # None
    BY DEF Inv, PodsDistinct
  <2>2. m \in Listed(object) \ Stale(object)
    BY <2>1 DEF Present, Listed, Stale
  <2>3. object' # None
    BY <1>3, ListEntries
  <2>4. QED
    BY <1>3, <2>2, <2>3 DEF Present
<1>8. \A m \in Nodes : Received(m)' /\ Handled(m)'
  BY DaemonFrame DEF Inv
<1>9. QED
  BY <1>3, <1>5, <1>6, <1>7, <1>8 DEF Inv, Unique

(***************************************************************************)
(* Every step preserves the invariant and keeps the names.                 *)
(***************************************************************************)
LEMMA NextInv == Inv /\ [Next]_vars => Inv' /\ NamesKept
<1> SUFFICES ASSUME Inv, [Next]_vars PROVE Inv' /\ NamesKept
  OBVIOUS
<1>1. CASE UNCHANGED vars
  <2> USE <1>1 DEF vars, podVars, daemonVars
  <2>1. TypeOK' /\ CopiesCurrent' /\ PodsDistinct'
    BY DEF Inv, TypeOK, CopiesCurrent, PodsDistinct
  <2>2. (object # None => Unique(object))' /\ NamesKept
    BY ObjectFrame
  <2>3. \A m \in Nodes : Received(m)' /\ Handled(m)'
    BY DaemonFrame DEF Inv
  <2>4. QED
    BY <2>1, <2>2, <2>3 DEF Inv
<1>2. ASSUME NEW n \in Nodes, Daemon(n)
      PROVE  Inv' /\ NamesKept
  BY <1>2, StartInv, DeliverInv, EnsureInv, SyncNoopInv, SyncDaemonInfoInv,
     UpdateDaemonStatusInv, ReceiveUpdateInv, CancelInv, StopInv, KillInv
     DEF Daemon
<1>3. QED
  BY <1>1, <1>2, PodInv, ProbeInv, RemoveStaleInv DEF Next

(***************************************************************************)
(* The inductive invariant holds in every reachable state.                 *)
(***************************************************************************)
THEOREM Invariance == Spec => []Inv
<1>1. Inv /\ [Next]_vars => Inv'
  BY NextInv
<1>2. QED
  BY <1>1, InitInv, PTL DEF Spec

(***************************************************************************)
(* Types are kept: the variables of the daemons, pods and copies.          *)
(***************************************************************************)
THEOREM TypeCorrect == Spec => []TypeOK
<1>1. Inv => TypeOK
  BY DEF Inv
<1>2. QED
  BY <1>1, Invariance, PTL

(***************************************************************************)
(* getNextAvailableIndex never gives two daemons of a clique one index.    *)
(***************************************************************************)
THEOREM IndicesAreUnique == Spec => []IndexUnique
<1>1. Inv => IndexUnique
  BY DEF Inv, IndexUnique, Unique
<1>2. QED
  BY <1>1, Invariance, PTL

(***************************************************************************)
(* A daemon with nothing left to do has told its IMEX child of exactly the *)
(* peers of its clique.                                                    *)
(***************************************************************************)
THEOREM PeersAreKnown == Spec => []PeersKnown
<1>1. Inv => PeersKnown
  <2> SUFFICES ASSUME Inv, NEW n \in Nodes, Settled(n), Complete(object)
               PROVE  DOMAIN config[n] = IPSet(object, n)
    BY DEF PeersKnown
  <2>1. view[n] = object
    BY DEF Inv, CopiesCurrent, Settled
  <2>2. IPSet(object, n) = IPSet(previous[n], n)
    BY <2>1 DEF Inv, Handled, Settled, Idle
  <2>3. QED
    BY <2>2 DEF Inv, Received, Settled, Idle
<1>2. QED
  BY <1>1, Invariance, PTL

(***************************************************************************)
(* Nobody takes the entry or the index of a running daemon away that the   *)
(* controller knows of.                                                    *)
(***************************************************************************)
THEOREM NamesAreStable == Spec => NameStable
<1>1. Inv /\ [Next]_vars =>
      [\A n \in Nodes :
         (Present(n) /\ phase[n] = "run" /\ phase'[n] = "run" /\ podsSeen[n] = pod[n])
           => Present(n)' /\ object'[n].index = object[n].index]_vars
  BY NextInv DEF NamesKept
<1>2. QED
  BY <1>1, Invariance, PTL DEF Spec, NameStable

=============================================================================
