------------------------- MODULE ProcessManagerProofs -------------------------
(***************************************************************************)
(* Proofs about ProcessManager: for any number of updates and faults there *)
(* is one child at most, the watchdog's wait does not block, and the child *)
(* acts on the last update.                                                *)
(***************************************************************************)
EXTENDS ProcessManager, TLAPS

-----------------------------------------------------------------------------
(* The inductive invariant.                                                *)

(***************************************************************************)
(* The mutex: whoever is within stop or Signal has it.                     *)
(***************************************************************************)
Locked == {"usr1", "term", "quitTerm", "stopWait", "quitWait"}

MutexHeld == \A t \in Threads : pc[t] \in Locked => lock = t

(***************************************************************************)
(* A result in the channel is the one of the handle's child.               *)
(***************************************************************************)
ResultOfHandle == result # None => handle = result /\ child[result] = "gone"

(***************************************************************************)
(* Only the watchdog waits outside of a stop, and while it is on its way   *)
(* from lost to wait, the update loop is not in the wait of a stop.        *)
(***************************************************************************)
OnlyReader ==
  /\ pc["loop"] # "wait"
  /\ At("dog", "wait") => result # None /\ pc["loop"] \notin {"stopWait", "quitWait"}

(***************************************************************************)
(* ChildInformed, also after a list that changed nothing.                  *)
(***************************************************************************)
Informed ==
  pc["loop"] \in {"select", "recheck"} =>
    \A c \in Children : child[c] = "running" => knows[c] = config

Inv == TypeOK /\ OneChild /\ MutexHeld /\ ResultOfHandle /\ OnlyReader /\ Informed

-----------------------------------------------------------------------------
(***************************************************************************)
(* None is neither a child nor a thread.                                   *)
(***************************************************************************)
LEMMA NoneIsApart == None \notin Children /\ None \notin Threads
BY ProcessAssumption DEF Children, Threads

(***************************************************************************)
(* Init establishes the invariant: there is no child.                      *)
(***************************************************************************)
LEMMA InitInv == Init => Inv
<1>. SUFFICES ASSUME Init PROVE Inv
  OBVIOUS
<1>1. pc["loop"] = "select" /\ pc["dog"] = "tick" /\ pc \in [Threads -> Steps]
  BY DEF Init, Base, Threads, Steps
<1>2. TypeOK
  <2>1. config \in 0 .. MaxUpdates /\ knows \in [Children -> 0 .. MaxUpdates]
    BY ProcessAssumption DEF Init
  <2>2. faults \in 0 .. MaxFaults
    BY ProcessAssumption DEF Init
  <2>3. child \in [Children -> {"unborn", "running", "exited", "waited", "gone"}]
    BY DEF Init
  <2>. QED BY <1>1, <2>1, <2>2, <2>3 DEF Init, TypeOK
<1>3. OneChild /\ ResultOfHandle /\ Informed
  BY DEF Init, OneChild, ResultOfHandle, Informed
<1>4. MutexHeld /\ OnlyReader
  BY <1>1 DEF MutexHeld, OnlyReader, Locked, At, Threads
<1>. QED BY <1>2, <1>3, <1>4 DEF Inv

(***************************************************************************)
(* Restart only decides where to go.                                       *)
(***************************************************************************)
LEMMA RestartInv ==
  ASSUME Inv, NEW t \in Threads, Restart(t)
  PROVE  Inv'
<1>1. TypeOK'
  BY ProcessAssumption, NoneIsApart DEF Inv, TypeOK, Restart, At, Goto, Threads, Steps
<1>2. OneChild'
  BY NoneIsApart DEF Inv, TypeOK, OneChild, ResultOfHandle, Restart, At, Goto
<1>3. MutexHeld'
  BY NoneIsApart DEF Inv, TypeOK, MutexHeld, Locked, Threads, Restart, At, Goto
<1>4. ResultOfHandle'
  BY NoneIsApart DEF Inv, TypeOK, ResultOfHandle, OneChild, Restart, At, Goto
<1>5. OnlyReader'
  BY NoneIsApart
  DEF Inv, TypeOK, OnlyReader, ResultOfHandle, MutexHeld, Locked, Threads, Restart,
      At, Goto
<1>6. Informed'
  BY NoneIsApart DEF Inv, TypeOK, Informed, OneChild, Threads, Restart, At, Goto
<1>. QED BY <1>1, <1>2, <1>3, <1>4, <1>5, <1>6 DEF Inv

(***************************************************************************)
(* EnsureStarted goes back to the select only where the mapping did not    *)
(* change, or a child is there.                                            *)
(***************************************************************************)
LEMMA EnsureStartedInv ==
  ASSUME Inv, EnsureStarted
  PROVE  Inv'
<1>1. TypeOK'
  BY ProcessAssumption, NoneIsApart
  DEF Inv, TypeOK, EnsureStarted, At, Goto, Threads, Steps
<1>2. OneChild'
  BY NoneIsApart DEF Inv, TypeOK, OneChild, ResultOfHandle, EnsureStarted, At, Goto
<1>3. MutexHeld'
  BY NoneIsApart DEF Inv, TypeOK, MutexHeld, Locked, Threads, EnsureStarted, At, Goto
<1>4. ResultOfHandle'
  BY NoneIsApart DEF Inv, TypeOK, ResultOfHandle, OneChild, EnsureStarted, At, Goto
<1>5. OnlyReader'
  BY NoneIsApart
  DEF Inv, TypeOK, OnlyReader, ResultOfHandle, MutexHeld, Locked, Threads,
      EnsureStarted, At, Goto
<1>6. Informed'
  BY NoneIsApart DEF Inv, TypeOK, Informed, OneChild, Threads, EnsureStarted, At, Goto
<1>. QED BY <1>1, <1>2, <1>3, <1>4, <1>5, <1>6 DEF Inv

(***************************************************************************)
(* start sees no handle, hence no child and no result; the new child reads *)
(* the last configuration.                                                 *)
(***************************************************************************)
LEMMA StartInv ==
  ASSUME Inv, NEW t \in Threads, Start(t)
  PROVE  Inv'
<1>1. TypeOK'
  <2>1. pc' \in [Threads -> Steps]
    BY DEF Inv, TypeOK, Start, NewChild, Fail, Base, At, Goto, Threads, Steps
  <2>2. cancelled' \in BOOLEAN
    BY DEF Inv, TypeOK, Start, NewChild, Fail, Base, At, Goto
  <2>3. /\ handle' \in Children \cup {None} /\ result' \in Children \cup {None}
        /\ child' \in [Children -> {"unborn", "running", "exited", "waited", "gone"}]
        /\ config' \in 0 .. MaxUpdates /\ knows' \in [Children -> 0 .. MaxUpdates]
        /\ mode' \in Modes /\ lock' \in Threads \cup {None}
        /\ signalled' \subseteq Children /\ faults' \in 0 .. MaxFaults
    BY ProcessAssumption, NoneIsApart
    DEF Inv, TypeOK, Start, NewChild, Fail, Base, At, Goto
  <2>. QED BY <2>1, <2>2, <2>3 DEF TypeOK
<1>2. OneChild'
  BY NoneIsApart
  DEF Inv, TypeOK, OneChild, ResultOfHandle, Start, NewChild, Fail, Base, At, Goto
<1>3. MutexHeld'
  BY NoneIsApart
  DEF Inv, TypeOK, MutexHeld, Locked, Threads, Start, NewChild, Fail, Base, At, Goto
<1>4. ResultOfHandle'
  BY NoneIsApart
  DEF Inv, TypeOK, ResultOfHandle, OneChild, Start, NewChild, Fail, Base, At, Goto
<1>5. OnlyReader'
  BY NoneIsApart
  DEF Inv, TypeOK, OnlyReader, ResultOfHandle, MutexHeld, Locked, Threads, Start,
      NewChild, Fail, Base, At, Goto
<1>6. Informed'
  BY NoneIsApart
  DEF Inv, TypeOK, Informed, OneChild, Threads, Start, NewChild, Fail, Base, At, Goto
<1>. QED BY <1>1, <1>2, <1>3, <1>4, <1>5, <1>6 DEF Inv

(***************************************************************************)
(* stop and Signal take the mutex.                                         *)
(***************************************************************************)
LEMMA CheckHandleInv ==
  ASSUME Inv, NEW t \in Threads, CheckHandle(t)
  PROVE  Inv'
<1>1. TypeOK'
  <2>1. pc' \in [Threads -> Steps]
    BY DEF Inv, TypeOK, CheckHandle, Fail, At, Goto, Threads, Steps
  <2>2. cancelled' \in BOOLEAN
    BY DEF Inv, TypeOK, CheckHandle, Fail, At, Goto
  <2>3. /\ handle' \in Children \cup {None} /\ result' \in Children \cup {None}
        /\ child' \in [Children -> {"unborn", "running", "exited", "waited", "gone"}]
        /\ config' \in 0 .. MaxUpdates /\ knows' \in [Children -> 0 .. MaxUpdates]
        /\ mode' \in Modes /\ lock' \in Threads \cup {None}
        /\ signalled' \subseteq Children /\ faults' \in 0 .. MaxFaults
    BY ProcessAssumption, NoneIsApart DEF Inv, TypeOK, CheckHandle, Fail, At, Goto
  <2>. QED BY <2>1, <2>2, <2>3 DEF TypeOK
<1>2. OneChild'
  BY NoneIsApart
  DEF Inv, TypeOK, OneChild, ResultOfHandle, CheckHandle, Fail, At, Goto
<1>3. MutexHeld'
  BY NoneIsApart
  DEF Inv, TypeOK, MutexHeld, Locked, Threads, CheckHandle, Fail, At, Goto
<1>4. ResultOfHandle'
  BY NoneIsApart
  DEF Inv, TypeOK, ResultOfHandle, OneChild, CheckHandle, Fail, At, Goto
<1>5. OnlyReader'
  BY NoneIsApart
  DEF Inv, TypeOK, OnlyReader, ResultOfHandle, MutexHeld, Locked, Threads,
      CheckHandle, Fail, At, Goto
<1>6. Informed'
  BY NoneIsApart
  DEF Inv, TypeOK, Informed, OneChild, Threads, CheckHandle, Fail, At, Goto
<1>. QED BY <1>1, <1>2, <1>3, <1>4, <1>5, <1>6 DEF Inv

(***************************************************************************)
(* A panic ends everything.                                                *)
(***************************************************************************)
LEMMA PanicsInv ==
  ASSUME Inv, NEW t \in Threads, Panics(t)
  PROVE  Inv'
<1>1. TypeOK'
  BY ProcessAssumption, NoneIsApart DEF Inv, TypeOK, Panics, At, Threads, Steps
<1>2. OneChild'
  BY NoneIsApart DEF Inv, TypeOK, OneChild, ResultOfHandle, Panics, At
<1>3. MutexHeld'
  BY NoneIsApart DEF Inv, TypeOK, MutexHeld, Locked, Threads, Panics, At
<1>4. ResultOfHandle'
  BY NoneIsApart DEF Inv, TypeOK, ResultOfHandle, OneChild, Panics, At
<1>5. OnlyReader'
  BY NoneIsApart
  DEF Inv, TypeOK, OnlyReader, ResultOfHandle, MutexHeld, Locked, Threads, Panics, At
<1>6. Informed'
  BY NoneIsApart DEF Inv, TypeOK, Informed, OneChild, Threads, Panics, At
<1>. QED BY <1>1, <1>2, <1>3, <1>4, <1>5, <1>6 DEF Inv

(***************************************************************************)
(* A signal that was delivered found a child whose result is not in the    *)
(* channel, so the watchdog is not about to take it.                       *)
(***************************************************************************)
LEMMA SendTermInv ==
  ASSUME Inv, NEW t \in Threads, SendTerm(t)
  PROVE  Inv'
<1>1. TypeOK'
  <2>1. pc' \in [Threads -> Steps]
    BY DEF Inv, TypeOK, SendTerm, Fail, At, Goto, Threads, Steps
  <2>2. cancelled' \in BOOLEAN
    BY DEF Inv, TypeOK, SendTerm, Fail, At, Goto
  <2>3. /\ handle' \in Children \cup {None} /\ result' \in Children \cup {None}
        /\ child' \in [Children -> {"unborn", "running", "exited", "waited", "gone"}]
        /\ config' \in 0 .. MaxUpdates /\ knows' \in [Children -> 0 .. MaxUpdates]
        /\ mode' \in Modes /\ lock' \in Threads \cup {None}
        /\ signalled' \subseteq Children /\ faults' \in 0 .. MaxFaults
    BY ProcessAssumption, NoneIsApart DEF Inv, TypeOK, SendTerm, Fail, At, Goto
  <2>. QED BY <2>1, <2>2, <2>3 DEF TypeOK
<1>2. OneChild'
  BY NoneIsApart DEF Inv, TypeOK, OneChild, ResultOfHandle, SendTerm, Fail, At, Goto
<1>3. MutexHeld'
  BY NoneIsApart DEF Inv, TypeOK, MutexHeld, Locked, Threads, SendTerm, Fail, At, Goto
<1>4. ResultOfHandle'
  BY NoneIsApart DEF Inv, TypeOK, ResultOfHandle, OneChild, SendTerm, Fail, At, Goto
<1>5. OnlyReader'
  BY NoneIsApart
  DEF Inv, TypeOK, OnlyReader, ResultOfHandle, MutexHeld, Locked, Threads,
      SendTerm, Fail, At, Goto
<1>6. Informed'
  BY NoneIsApart
  DEF Inv, TypeOK, Informed, OneChild, Threads, SendTerm, Fail, At, Goto
<1>. QED BY <1>1, <1>2, <1>3, <1>4, <1>5, <1>6 DEF Inv

(***************************************************************************)
(* After SIGUSR1 the only child acts on the last update.                   *)
(***************************************************************************)
LEMMA SendUsr1Inv ==
  ASSUME Inv, SendUsr1
  PROVE  Inv'
<1>1. TypeOK'
  BY ProcessAssumption, NoneIsApart
  DEF Inv, TypeOK, SendUsr1, At, Goto, Threads, Steps
<1>2. OneChild'
  BY NoneIsApart DEF Inv, TypeOK, OneChild, ResultOfHandle, SendUsr1, At, Goto
<1>3. MutexHeld'
  BY NoneIsApart DEF Inv, TypeOK, MutexHeld, Locked, Threads, SendUsr1, At, Goto
<1>4. ResultOfHandle'
  BY NoneIsApart DEF Inv, TypeOK, ResultOfHandle, OneChild, SendUsr1, At, Goto
<1>5. OnlyReader'
  BY NoneIsApart
  DEF Inv, TypeOK, OnlyReader, ResultOfHandle, MutexHeld, Locked, Threads,
      SendUsr1, At, Goto
<1>6. Informed'
  BY NoneIsApart DEF Inv, TypeOK, Informed, OneChild, Threads, SendUsr1, At, Goto
<1>. QED BY <1>1, <1>2, <1>3, <1>4, <1>5, <1>6 DEF Inv

(***************************************************************************)
(* The handle is reset when its child is gone.                             *)
(***************************************************************************)
LEMMA WaitInv ==
  ASSUME Inv, NEW t \in Threads, Wait(t)
  PROVE  Inv'
<1>1. TypeOK'
  <2>1. pc' \in [Threads -> Steps]
    BY DEF Inv, TypeOK, Wait, Fail, At, Goto, Threads, Steps
  <2>2. cancelled' \in BOOLEAN
    BY DEF Inv, TypeOK, Wait, Fail, At, Goto
  <2>3. /\ handle' \in Children \cup {None} /\ result' \in Children \cup {None}
        /\ child' \in [Children -> {"unborn", "running", "exited", "waited", "gone"}]
        /\ config' \in 0 .. MaxUpdates /\ knows' \in [Children -> 0 .. MaxUpdates]
        /\ mode' \in Modes /\ lock' \in Threads \cup {None}
        /\ signalled' \subseteq Children /\ faults' \in 0 .. MaxFaults
    BY ProcessAssumption, NoneIsApart DEF Inv, TypeOK, Wait, Fail, At, Goto
  <2>. QED BY <2>1, <2>2, <2>3 DEF TypeOK
<1>2. OneChild'
  BY NoneIsApart DEF Inv, TypeOK, OneChild, ResultOfHandle, Wait, Fail, At, Goto
<1>3. MutexHeld'
  BY NoneIsApart DEF Inv, TypeOK, MutexHeld, Locked, Threads, Wait, Fail, At, Goto
<1>4. ResultOfHandle'
  BY NoneIsApart DEF Inv, TypeOK, ResultOfHandle, OneChild, Wait, Fail, At, Goto
<1>5. OnlyReader'
  <2>1. /\ pc'[t] \notin {"wait", "stopWait", "quitWait"}
        /\ \A u \in Threads \ {t} : pc'[u] = pc[u]
    BY DEF Inv, TypeOK, Wait, Fail, At, Goto
  <2>2. CASE t = "dog"
    BY <2>1, <2>2 DEF Inv, OnlyReader, At, Threads
  <2>3. CASE t = "loop"
    BY <2>1, <2>3
    DEF Inv, TypeOK, OnlyReader, ResultOfHandle, MutexHeld, Wait, At, Threads
  <2>. QED BY <2>2, <2>3 DEF Threads
<1>6. Informed'
  BY NoneIsApart DEF Inv, TypeOK, Informed, OneChild, Threads, Wait, Fail, At, Goto
<1>. QED BY <1>1, <1>2, <1>3, <1>4, <1>5, <1>6 DEF Inv

(***************************************************************************)
(* A new list.                                                             *)
(***************************************************************************)
LEMMA ReceiveUpdateInv ==
  ASSUME Inv, ReceiveUpdate
  PROVE  Inv'
<1>1. TypeOK'
  <2>1. pc' \in [Threads -> Steps]
    BY DEF Inv, TypeOK, ReceiveUpdate, Fail, At, Goto, Threads, Steps
  <2>2. cancelled' \in BOOLEAN
    BY DEF Inv, TypeOK, ReceiveUpdate, Fail, At, Goto
  <2>3. /\ handle' \in Children \cup {None} /\ result' \in Children \cup {None}
        /\ child' \in [Children -> {"unborn", "running", "exited", "waited", "gone"}]
        /\ config' \in 0 .. MaxUpdates /\ knows' \in [Children -> 0 .. MaxUpdates]
        /\ mode' \in Modes /\ lock' \in Threads \cup {None}
        /\ signalled' \subseteq Children /\ faults' \in 0 .. MaxFaults
    BY ProcessAssumption, NoneIsApart DEF Inv, TypeOK, ReceiveUpdate, Fail, At, Goto
  <2>. QED BY <2>1, <2>2, <2>3 DEF TypeOK
<1>2. OneChild'
  BY NoneIsApart
  DEF Inv, TypeOK, OneChild, ResultOfHandle, ReceiveUpdate, Fail, At, Goto
<1>3. MutexHeld'
  BY NoneIsApart
  DEF Inv, TypeOK, MutexHeld, Locked, Threads, ReceiveUpdate, Fail, At, Goto
<1>4. ResultOfHandle'
  BY NoneIsApart
  DEF Inv, TypeOK, ResultOfHandle, OneChild, ReceiveUpdate, Fail, At, Goto
<1>5. OnlyReader'
  BY NoneIsApart
  DEF Inv, TypeOK, OnlyReader, ResultOfHandle, MutexHeld, Locked, Threads,
      ReceiveUpdate, Fail, At, Goto
<1>6. Informed'
  BY NoneIsApart
  DEF Inv, TypeOK, Informed, OneChild, Threads, ReceiveUpdate, Fail, At, Goto
<1>. QED BY <1>1, <1>2, <1>3, <1>4, <1>5, <1>6 DEF Inv

(***************************************************************************)
(* The loop ends.                                                          *)
(***************************************************************************)
LEMMA LoopEndsInv ==
  ASSUME Inv, LoopEnds
  PROVE  Inv'
<1>1. TypeOK'
  BY ProcessAssumption, NoneIsApart
  DEF Inv, TypeOK, LoopEnds, At, Goto, Threads, Steps
<1>2. OneChild'
  BY NoneIsApart DEF Inv, TypeOK, OneChild, ResultOfHandle, LoopEnds, At, Goto
<1>3. MutexHeld'
  BY NoneIsApart DEF Inv, TypeOK, MutexHeld, Locked, Threads, LoopEnds, At, Goto
<1>4. ResultOfHandle'
  BY NoneIsApart DEF Inv, TypeOK, ResultOfHandle, OneChild, LoopEnds, At, Goto
<1>5. OnlyReader'
  BY NoneIsApart
  DEF Inv, TypeOK, OnlyReader, ResultOfHandle, MutexHeld, Locked, Threads,
      LoopEnds, At, Goto
<1>6. Informed'
  BY NoneIsApart DEF Inv, TypeOK, Informed, OneChild, Threads, LoopEnds, At, Goto
<1>. QED BY <1>1, <1>2, <1>3, <1>4, <1>5, <1>6 DEF Inv

(***************************************************************************)
(* lost had the mutex, so no stop is waiting, and saw a result.            *)
(***************************************************************************)
LEMMA TickInv ==
  ASSUME Inv, Tick
  PROVE  Inv'
<1>1. TypeOK'
  BY ProcessAssumption, NoneIsApart
  DEF Inv, TypeOK, Tick, Lost, At, Goto, Threads, Steps
<1>2. OneChild'
  BY NoneIsApart DEF Inv, TypeOK, OneChild, ResultOfHandle, Tick, Lost, At, Goto
<1>3. MutexHeld'
  BY NoneIsApart DEF Inv, TypeOK, MutexHeld, Locked, Threads, Tick, Lost, At, Goto
<1>4. ResultOfHandle'
  BY NoneIsApart DEF Inv, TypeOK, ResultOfHandle, OneChild, Tick, Lost, At, Goto
<1>5. OnlyReader'
  BY NoneIsApart
  DEF Inv, TypeOK, OnlyReader, ResultOfHandle, MutexHeld, Locked, Threads, Tick,
      Lost, At, Goto
<1>6. Informed'
  BY NoneIsApart DEF Inv, TypeOK, Informed, OneChild, Threads, Tick, Lost, At, Goto
<1>. QED BY <1>1, <1>2, <1>3, <1>4, <1>5, <1>6 DEF Inv

(***************************************************************************)
(* The watchdog ends.                                                      *)
(***************************************************************************)
LEMMA WatchdogEndsInv ==
  ASSUME Inv, WatchdogEnds
  PROVE  Inv'
<1>1. TypeOK'
  BY ProcessAssumption, NoneIsApart
  DEF Inv, TypeOK, WatchdogEnds, At, Goto, Threads, Steps
<1>2. OneChild'
  BY NoneIsApart DEF Inv, TypeOK, OneChild, ResultOfHandle, WatchdogEnds, At, Goto
<1>3. MutexHeld'
  BY NoneIsApart DEF Inv, TypeOK, MutexHeld, Locked, Threads, WatchdogEnds, At, Goto
<1>4. ResultOfHandle'
  BY NoneIsApart DEF Inv, TypeOK, ResultOfHandle, OneChild, WatchdogEnds, At, Goto
<1>5. OnlyReader'
  BY NoneIsApart
  DEF Inv, TypeOK, OnlyReader, ResultOfHandle, MutexHeld, Locked, Threads,
      WatchdogEnds, At, Goto
<1>6. Informed'
  BY NoneIsApart DEF Inv, TypeOK, Informed, OneChild, Threads, WatchdogEnds, At, Goto
<1>. QED BY <1>1, <1>2, <1>3, <1>4, <1>5, <1>6 DEF Inv

(***************************************************************************)
(* A child dies.                                                           *)
(***************************************************************************)
LEMMA DiesInv ==
  ASSUME Inv, NEW c \in Children, Dies(c)
  PROVE  Inv'
<1>1. TypeOK'
  BY ProcessAssumption, NoneIsApart DEF Inv, TypeOK, Dies, At, Threads, Steps
<1>2. OneChild'
  BY NoneIsApart DEF Inv, TypeOK, OneChild, ResultOfHandle, Dies, At
<1>3. MutexHeld'
  BY NoneIsApart DEF Inv, TypeOK, MutexHeld, Locked, Threads, Dies, At
<1>4. ResultOfHandle'
  BY NoneIsApart DEF Inv, TypeOK, ResultOfHandle, OneChild, Dies, At
<1>5. OnlyReader'
  BY NoneIsApart
  DEF Inv, TypeOK, OnlyReader, ResultOfHandle, MutexHeld, Locked, Threads, Dies, At
<1>6. Informed'
  BY NoneIsApart DEF Inv, TypeOK, Informed, OneChild, Threads, Dies, At
<1>. QED BY <1>1, <1>2, <1>3, <1>4, <1>5, <1>6 DEF Inv

(***************************************************************************)
(* Its Wait returns.                                                       *)
(***************************************************************************)
LEMMA WaitReturnsInv ==
  ASSUME Inv, NEW c \in Children, WaitReturns(c)
  PROVE  Inv'
<1>1. TypeOK'
  BY ProcessAssumption, NoneIsApart DEF Inv, TypeOK, WaitReturns, At, Threads, Steps
<1>2. OneChild'
  BY NoneIsApart DEF Inv, TypeOK, OneChild, ResultOfHandle, WaitReturns, At
<1>3. MutexHeld'
  BY NoneIsApart DEF Inv, TypeOK, MutexHeld, Locked, Threads, WaitReturns, At
<1>4. ResultOfHandle'
  BY NoneIsApart DEF Inv, TypeOK, ResultOfHandle, OneChild, WaitReturns, At
<1>5. OnlyReader'
  BY NoneIsApart
  DEF Inv, TypeOK, OnlyReader, ResultOfHandle, MutexHeld, Locked, Threads,
      WaitReturns, At
<1>6. Informed'
  BY NoneIsApart DEF Inv, TypeOK, Informed, OneChild, Threads, WaitReturns, At
<1>. QED BY <1>1, <1>2, <1>3, <1>4, <1>5, <1>6 DEF Inv

(***************************************************************************)
(* The result is that of the only child.                                   *)
(***************************************************************************)
LEMMA SendResultInv ==
  ASSUME Inv, NEW c \in Children, SendResult(c)
  PROVE  Inv'
<1>1. TypeOK'
  BY ProcessAssumption, NoneIsApart DEF Inv, TypeOK, SendResult, At, Threads, Steps
<1>2. OneChild'
  BY NoneIsApart DEF Inv, TypeOK, OneChild, ResultOfHandle, SendResult, At
<1>3. MutexHeld'
  BY NoneIsApart DEF Inv, TypeOK, MutexHeld, Locked, Threads, SendResult, At
<1>4. ResultOfHandle'
  BY NoneIsApart DEF Inv, TypeOK, ResultOfHandle, OneChild, SendResult, At
<1>5. OnlyReader'
  BY NoneIsApart
  DEF Inv, TypeOK, OnlyReader, ResultOfHandle, MutexHeld, Locked, Threads,
      SendResult, At
<1>6. Informed'
  BY NoneIsApart DEF Inv, TypeOK, Informed, OneChild, Threads, SendResult, At
<1>. QED BY <1>1, <1>2, <1>3, <1>4, <1>5, <1>6 DEF Inv

(***************************************************************************)
(* The context ends.                                                       *)
(***************************************************************************)
LEMMA CancelInv ==
  ASSUME Inv, Cancel
  PROVE  Inv'
<1>1. TypeOK'
  BY ProcessAssumption, NoneIsApart DEF Inv, TypeOK, Cancel, At, Threads, Steps
<1>2. OneChild'
  BY NoneIsApart DEF Inv, TypeOK, OneChild, ResultOfHandle, Cancel, At
<1>3. MutexHeld'
  BY NoneIsApart DEF Inv, TypeOK, MutexHeld, Locked, Threads, Cancel, At
<1>4. ResultOfHandle'
  BY NoneIsApart DEF Inv, TypeOK, ResultOfHandle, OneChild, Cancel, At
<1>5. OnlyReader'
  BY NoneIsApart
  DEF Inv, TypeOK, OnlyReader, ResultOfHandle, MutexHeld, Locked, Threads, Cancel, At
<1>6. Informed'
  BY NoneIsApart DEF Inv, TypeOK, Informed, OneChild, Threads, Cancel, At
<1>. QED BY <1>1, <1>2, <1>3, <1>4, <1>5, <1>6 DEF Inv

-----------------------------------------------------------------------------
(***************************************************************************)
(* Every step preserves the invariant, one lemma per action.               *)
(***************************************************************************)
LEMMA NextInv == Inv /\ [Next]_vars => Inv'
<1>. SUFFICES ASSUME Inv, [Next]_vars PROVE Inv'
  OBVIOUS
<1>1. ASSUME NEW t \in Threads, Thread(t) PROVE Inv'
  BY <1>1, RestartInv, StartInv, CheckHandleInv, PanicsInv, SendTermInv, WaitInv
  DEF Thread
<1>2. CASE Loop
  BY <1>1, <1>2, EnsureStartedInv, SendUsr1Inv, ReceiveUpdateInv, LoopEndsInv
  DEF Loop, Threads
<1>3. CASE Dog
  BY <1>1, <1>3, TickInv, WatchdogEndsInv DEF Dog, Threads
<1>4. CASE \E c \in Children : Child(c)
  BY <1>4, DiesInv, WaitReturnsInv, SendResultInv DEF Child
<1>5. CASE Cancel
  BY <1>5, CancelInv
<1>6. CASE UNCHANGED vars
  BY <1>6 DEF vars, Inv, TypeOK, OneChild, MutexHeld, ResultOfHandle, OnlyReader,
    Informed, At
<1>. QED BY <1>2, <1>3, <1>4, <1>5, <1>6 DEF Next

(***************************************************************************)
(* The invariant holds throughout.                                         *)
(***************************************************************************)
LEMMA Inductive == Spec => []Inv
BY InitInv, NextInv, PTL DEF Spec

-----------------------------------------------------------------------------
(***************************************************************************)
(* Every variable of the manager keeps its type.                           *)
(***************************************************************************)
THEOREM TypeCorrect == Spec => []TypeOK
<1>. Inv => TypeOK
  BY DEF Inv
<1>. QED BY Inductive, PTL

(***************************************************************************)
(* Update loop and watchdog may start and stop children in any order and   *)
(* look at the handle without the mutex: there is never more than one      *)
(* child, and the handle is the child that runs.                           *)
(***************************************************************************)
THEOREM OneChildAtMost == Spec => []OneChild
<1>. Inv => OneChild
  BY DEF Inv
<1>. QED BY Inductive, PTL

(***************************************************************************)
(* The wait the watchdog does without the mutex finds its result: no stop  *)
(* of the update loop takes it away between lost and wait.                 *)
(***************************************************************************)
THEOREM WaitNeverBlocks == Spec => []WaitReady
<1>. Inv => WaitReady
  BY DEF Inv, OnlyReader, WaitReady
<1>. QED BY Inductive, PTL

(***************************************************************************)
(* However updates, crashes and restarts interleave, a child that runs     *)
(* while the update loop is waiting acts on the last update.               *)
(***************************************************************************)
THEOREM ChildIsInformed == Spec => []ChildInformed
<1>. Inv => ChildInformed
  BY DEF Inv, Informed, ChildInformed, At
<1>. QED BY Inductive, PTL

-----------------------------------------------------------------------------
(* Nobody waits in vain. What is left of ShutdownCompletes is fairness.    *)

(***************************************************************************)
(* The mutex is never left behind: a goroutine that has it is within stop  *)
(* or Signal, on whatever path it gets there.                              *)
(***************************************************************************)
MutexInUse == lock # None => pc[lock] \in Locked

(***************************************************************************)
(* A stop that waits, with the mutex, waits for a result that is there, or *)
(* for a child that was told to end and whose end will be reported.        *)
(***************************************************************************)
StopAwaited ==
  \A t \in Threads : pc[t] \in {"stopWait", "quitWait"} =>
    /\ handle # None
    /\ \/ result # None
       \/ handle \in signalled /\ child[handle] \in {"running", "exited", "waited"}

NoVainWait == MutexInUse /\ StopAwaited

(***************************************************************************)
(* A goroutine's way through start, stop, Signal and wait keeps both.      *)
(***************************************************************************)
LEMMA ThreadWaits ==
  ASSUME Inv, NoVainWait, NEW t \in Threads, Thread(t)
  PROVE  NoVainWait'
<1>0. None \notin Children /\ None \notin Threads /\ Base(t) \notin Locked
  BY NoneIsApart DEF Base, Locked
<1>1. CASE Restart(t)
  BY <1>0, <1>1
  DEF Inv, TypeOK, NoVainWait, MutexInUse, StopAwaited, Locked, Restart, At, Goto
<1>2. CASE Start(t)
  <2>1. lock = None /\ lock' = None /\ UNCHANGED <<result, signalled>>
    BY <1>2 DEF Start
  <2>2. \A u \in Threads : pc'[u] \notin {"stopWait", "quitWait"}
    BY <1>0, <1>2, <2>1 DEF Inv, TypeOK, MutexHeld, Locked, Start, Fail, Goto
  <2>. QED BY <2>1, <2>2 DEF NoVainWait, MutexInUse, StopAwaited
<1>3. CASE CheckHandle(t)
  <2>1. lock = None /\ UNCHANGED <<handle, child, signalled, result>>
    BY <1>3 DEF CheckHandle
  <2>2. \A u \in Threads : pc'[u] \notin {"stopWait", "quitWait"}
    BY <1>0, <1>3, <2>1 DEF Inv, TypeOK, MutexHeld, Locked, CheckHandle, Fail, At, Goto
  <2>3. lock' # None => pc'[lock'] \in Locked
    BY <1>0, <1>3, <2>1 DEF Inv, TypeOK, Locked, CheckHandle, Fail, At, Goto
  <2>. QED BY <2>2, <2>3 DEF NoVainWait, MutexInUse, StopAwaited
<1>4. CASE Panics(t)
  BY <1>0, <1>4 DEF NoVainWait, MutexInUse, StopAwaited, Locked, Panics
<1>5. CASE SendTerm(t)
  <2>1. /\ pc[t] \in {"term", "quitTerm"} /\ handle # None /\ lock = t
        /\ UNCHANGED <<handle, child, result>>
    BY <1>5 DEF Inv, MutexHeld, Locked, SendTerm
  <2>2. \A u \in Threads \ {t} :
           pc[u] \notin Locked /\ pc'[u] = pc[u]
    BY <1>5, <2>1 DEF Inv, TypeOK, MutexHeld, SendTerm, Fail, At, Goto
  <2>3. \/ /\ pc'[t] \in {"stopWait", "quitWait"} /\ lock' = t
           /\ handle \in signalled' /\ child[handle] \in {"running", "exited"}
        \/ pc'[t] = "done" /\ lock' = None
    BY <1>5, <2>1 DEF Inv, TypeOK, SendTerm, Fail, At, Goto
  <2>. QED BY <1>0, <2>1, <2>2, <2>3 DEF NoVainWait, MutexInUse, StopAwaited, Locked
<1>6. CASE Wait(t)
  <2>1. \A u \in Threads : pc'[u] \notin {"stopWait", "quitWait"}
    <3>1. \A u \in Threads \ {t} : pc[u] \notin {"stopWait", "quitWait"}
      BY <1>0, <1>6 DEF Inv, TypeOK, MutexHeld, OnlyReader, Locked, Threads, Wait, At
    <3>2. pc'[t] \notin {"stopWait", "quitWait"} /\ \A u \in Threads \ {t} : pc'[u] = pc[u]
      BY <1>6 DEF Inv, TypeOK, Wait, Fail, At, Goto
    <3>. QED BY <3>1, <3>2
  <2>2. lock' # None => lock' = lock /\ pc[t] = "wait"
    BY <1>6 DEF Wait, At
  <2>3. MutexInUse'
    BY <1>0, <1>6, <2>2 DEF Inv, TypeOK, NoVainWait, MutexInUse, Locked, Wait, Fail, At, Goto
  <2>. QED BY <2>1, <2>3 DEF NoVainWait, StopAwaited
<1>. QED BY <1>1, <1>2, <1>3, <1>4, <1>5, <1>6 DEF Thread

(***************************************************************************)
(* Nor do the other steps leave the mutex, or a wait, behind.              *)
(***************************************************************************)
LEMMA NextWaits == Inv /\ NoVainWait /\ [Next]_vars => NoVainWait'
<1>. SUFFICES ASSUME Inv, NoVainWait, [Next]_vars PROVE NoVainWait'
  OBVIOUS
<1>0. None \notin Children /\ None \notin Threads
  BY NoneIsApart
<1>1. CASE EnsureStarted \/ ReceiveUpdate \/ LoopEnds \/ Tick \/ WatchdogEnds
  <2>1. UNCHANGED <<lock, handle, child, signalled, result>>
    BY <1>1 DEF EnsureStarted, ReceiveUpdate, LoopEnds, Tick, WatchdogEnds
  <2>2. \A u \in Threads : pc[u] \in Locked \/ pc'[u] \in Locked => pc'[u] = pc[u]
    BY <1>1 DEF Inv, TypeOK, Threads, Locked, EnsureStarted, ReceiveUpdate, LoopEnds, Tick,
      WatchdogEnds, Fail, At, Goto
  <2>. QED BY <1>0, <2>1, <2>2 DEF Inv, TypeOK, NoVainWait, MutexInUse, StopAwaited, Locked
<1>2. CASE SendUsr1
  <2>1. lock = "loop" /\ lock' = None /\ UNCHANGED <<handle, child, signalled, result>>
    BY <1>2 DEF Inv, MutexHeld, Locked, Threads, SendUsr1, At
  <2>2. \A u \in Threads : pc'[u] \notin {"stopWait", "quitWait"}
    BY <1>2, <2>1 DEF Inv, TypeOK, MutexHeld, Locked, Threads, SendUsr1, At, Goto
  <2>. QED BY <2>1, <2>2 DEF NoVainWait, MutexInUse, StopAwaited
<1>3. ASSUME NEW c \in Children, Child(c) PROVE NoVainWait'
  <2>1. UNCHANGED <<pc, lock, handle, signalled>>
    BY <1>3 DEF Child, Dies, WaitReturns, SendResult
  <2>2. MutexInUse'
    BY <2>1 DEF NoVainWait, MutexInUse
  <2>3. ASSUME handle # None, result = None, child[handle] \in {"running", "exited", "waited"}
        PROVE  result' # None \/ child'[handle] \in {"running", "exited", "waited"}
    BY <1>0, <1>3, <2>3 DEF Inv, TypeOK, Child, Dies, WaitReturns, SendResult
  <2>4. result # None => result' # None
    BY <1>0, <1>3 DEF Child, Dies, WaitReturns, SendResult
  <2>5. StopAwaited'
    BY <2>1, <2>3, <2>4 DEF NoVainWait, StopAwaited
  <2>. QED BY <2>2, <2>5 DEF NoVainWait
<1>4. CASE Cancel
  BY <1>4 DEF NoVainWait, MutexInUse, StopAwaited, Cancel
<1>5. CASE UNCHANGED vars
  BY <1>5 DEF NoVainWait, MutexInUse, StopAwaited, vars
<1>. QED BY <1>1, <1>2, <1>3, <1>4, <1>5, ThreadWaits DEF Next, Loop, Dog, Threads

(***************************************************************************)
(* Whatever fails while a child is stopped, signalled or waited for, the   *)
(* mutex is held only on the way through stop or Signal, and a stop never  *)
(* waits, with the mutex, for a child that nobody told to end or whose     *)
(* result somebody else took: the only waits of the daemon are for steps   *)
(* of the child and of its waiting goroutine.                              *)
(***************************************************************************)
THEOREM NobodyWaitsInVain == Spec => []NoVainWait
<1>1. Init => NoVainWait
  BY DEF Init, NoVainWait, MutexInUse, StopAwaited, Base
<1>. QED BY <1>1, NextWaits, Inductive, PTL DEF Spec

=============================================================================
