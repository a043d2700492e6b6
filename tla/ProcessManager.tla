---------------------------- MODULE ProcessManager ----------------------------
(***************************************************************************)
(* The compute-domain daemon's management of its IMEX child process. Two   *)
(* goroutines share the ProcessManager: the update loop, which for every   *)
(* change of the membership writes the configuration and (re)starts or     *)
(* signals the child, and the watchdog, which replaces a child that died   *)
(* and stops it at shutdown. A third goroutine per child waits for its end *)
(* and leaves the result in a channel of one element.                      *)
(*                                                                         *)
(* The mutex is held within start, stop and Signal, but not where Restart, *)
(* EnsureStarted and the watchdog's wait look at, or reset, the handle.    *)
(***************************************************************************)
EXTENDS Integers, FiniteSets

CONSTANTS
  Modes,        \* subset of {"dns", "ips"}: which of the two update loops
  MaxUpdates,   \* bound: changes of the membership
  MaxFaults,    \* bound: children that die, configurations or starts that fail
  None          \* no child

ASSUME ProcessAssumption ==
  /\ Modes \subseteq {"dns", "ips"}
  /\ MaxUpdates \in Nat /\ MaxFaults \in Nat
  /\ None \notin Nat \cup {"loop", "dog"}

Children == 1 .. MaxUpdates + 2 * MaxFaults + 1
Threads  == {"loop", "dog"}

VARIABLES
  mode,       \* the feature gate IMEXDaemonsWithDNSNames
  pc,         \* [Threads -> ...] where each goroutine is
  lock,       \* None, or the thread that holds the mutex between its steps
  handle,     \* m.handle: None or a child
  child,      \* [Children -> {"unborn", "running", "exited", "waited", "gone"}]
  signalled,  \* children that were sent SIGTERM
  result,     \* waitResChan: None or the child whose result it holds
  config,     \* how many updates have been written
  knows,      \* [Children -> 0 .. MaxUpdates] the update a child acts on
  cancelled,  \* the context is done
  faults

vars == <<mode, pc, lock, handle, child, signalled, result, config, knows, cancelled,
          faults>>

-----------------------------------------------------------------------------
(* Steps of a goroutine.                                                   *)

At(t, l)   == pc[t] = l
Goto(t, l) == pc' = [pc EXCEPT ![t] = l]

(***************************************************************************)
(* Where start, stop and Signal return to.                                 *)
(***************************************************************************)
Base(t) == IF t = "loop" THEN "select" ELSE "tick"

(***************************************************************************)
(* A goroutine returns an error: run cancels the context of all.           *)
(***************************************************************************)
Fail(t) == Goto(t, "done") /\ cancelled' = TRUE

(***************************************************************************)
(* Restart and EnsureStarted look at the handle without the mutex.         *)
(***************************************************************************)
Restart(t) ==
  /\ At(t, "restart")
  /\ Goto(t, IF handle # None THEN "stop" ELSE "start")
  /\ UNCHANGED <<mode, lock, handle, child, signalled, result, config, knows,
                 cancelled, faults>>

\* Faulty variant: a child that is there already is not told.
EnsureStartedOnly ==
  /\ pc["loop"] \in {"ensure", "recheck"}
  /\ Goto("loop", IF handle # None THEN "select" ELSE "start")
  /\ UNCHANGED <<mode, lock, handle, child, signalled, result, config, knows,
                 cancelled, faults>>

EnsureStarted ==
  /\ pc["loop"] \in {"ensure", "recheck"}
  /\ Goto("loop", IF handle = None THEN "start"
                  ELSE IF At("loop", "ensure") THEN "signal" ELSE "select")
  /\ UNCHANGED <<mode, lock, handle, child, signalled, result, config, knows,
                 cancelled, faults>>

(***************************************************************************)
(* start. The child reads the configuration.                               *)
(***************************************************************************)
NewChild(c) == child[c] = "unborn" /\ \A d \in Children : d < c => child[d] # "unborn"

\* Faulty variant: the handle is not checked again with the mutex.
StartUnchecked(t) ==
  /\ At(t, "start") /\ lock = None
  /\ \E c \in Children :
        /\ NewChild(c)
        /\ handle' = c
        /\ child' = [child EXCEPT ![c] = "running"]
        /\ knows' = [knows EXCEPT ![c] = config]
  /\ Goto(t, Base(t))
  /\ UNCHANGED <<mode, lock, signalled, result, config, cancelled, faults>>

Start(t) ==
  /\ At(t, "start") /\ lock = None
  /\ \/ /\ handle # None
        /\ Fail(t)
        /\ UNCHANGED <<handle, child, knows, faults>>
     \/ /\ handle = None
        /\ faults < MaxFaults /\ faults' = faults + 1
        /\ Fail(t)
        /\ UNCHANGED <<handle, child, knows>>
     \/ /\ handle = None
        /\ \E c \in Children :
             /\ NewChild(c)
             /\ handle' = c
             /\ child' = [child EXCEPT ![c] = "running"]
             /\ knows' = [knows EXCEPT ![c] = config]
        /\ Goto(t, Base(t))
        /\ UNCHANGED <<cancelled, faults>>
  /\ UNCHANGED <<mode, lock, signalled, result, config>>

(***************************************************************************)
(* stop, and the check of Signal: with the mutex, but the watchdog's wait  *)
(* does not take it.                                                       *)
(***************************************************************************)
CheckHandle(t) ==
  /\ pc[t] \in {"stop", "quit", "signal"} /\ lock = None
  /\ \/ /\ handle = None /\ At(t, "signal")
        /\ Goto(t, "select")
        /\ UNCHANGED <<lock, cancelled>>
     \/ /\ handle = None /\ ~ At(t, "signal")
        /\ Fail(t)
        /\ UNCHANGED lock
     \/ /\ handle # None
        /\ Goto(t, CASE At(t, "signal") -> "usr1"
                     [] At(t, "stop")   -> "term"
                     [] At(t, "quit")   -> "quitTerm")
        /\ lock' = t
        /\ UNCHANGED cancelled
  /\ UNCHANGED <<mode, handle, child, signalled, result, config, knows, faults>>

(***************************************************************************)
(* The signal is sent through the handle. If the handle was reset since    *)
(* the check, the program panics. A child whose Wait has returned cannot   *)
(* be signalled (os.ErrProcessDone), one that has exited can.              *)
(***************************************************************************)
Panics(t) ==
  /\ pc[t] \in {"usr1", "term", "quitTerm"} /\ handle = None
  /\ pc' = [u \in Threads |-> "panicked"]
  /\ child' = [c \in Children |-> IF child[c] = "unborn" THEN "unborn" ELSE "gone"]
  /\ lock' = None /\ result' = None /\ cancelled' = TRUE
  /\ UNCHANGED <<mode, handle, signalled, config, knows, faults>>

\* Faulty variant: that the child is gone already is no error.
SendTermAnyway(t) ==
  /\ pc[t] \in {"term", "quitTerm"} /\ handle # None
  /\ signalled' = signalled \cup {handle}
  /\ Goto(t, IF At(t, "term") THEN "stopWait" ELSE "quitWait")
  /\ UNCHANGED <<mode, lock, handle, child, result, config, knows, cancelled, faults>>

\* Faulty variant: the mutex is not released when the signal fails.
SendTermLocked(t) ==
  /\ pc[t] \in {"term", "quitTerm"} /\ handle # None
  /\ \/ /\ child[handle] \in {"running", "exited"}
        /\ signalled' = signalled \cup {handle}
        /\ Goto(t, IF At(t, "term") THEN "stopWait" ELSE "quitWait")
        /\ UNCHANGED cancelled
     \/ /\ child[handle] \in {"waited", "gone"}
        /\ Fail(t)
        /\ UNCHANGED signalled
  /\ UNCHANGED <<mode, lock, handle, child, result, config, knows, faults>>

SendTerm(t) ==
  /\ pc[t] \in {"term", "quitTerm"} /\ handle # None
  /\ \/ /\ child[handle] \in {"running", "exited"}
        /\ signalled' = signalled \cup {handle}
        /\ Goto(t, IF At(t, "term") THEN "stopWait" ELSE "quitWait")
        /\ UNCHANGED <<lock, cancelled>>
     \/ /\ child[handle] \in {"waited", "gone"}
        /\ Fail(t)
        /\ lock' = None
        /\ UNCHANGED signalled
  /\ UNCHANGED <<mode, handle, child, result, config, knows, faults>>

(***************************************************************************)
(* SIGUSR1: the child resolves the names again. An error is only logged.   *)
(***************************************************************************)
SendUsr1 ==
  /\ At("loop", "usr1") /\ handle # None
  /\ knows' = IF child[handle] = "running" THEN [knows EXCEPT ![handle] = config] ELSE knows
  /\ lock' = None
  /\ Goto("loop", "select")
  /\ UNCHANGED <<mode, handle, child, signalled, result, config, cancelled, faults>>

(***************************************************************************)
(* wait, from stop and from the watchdog: the result is taken from the     *)
(* channel and the handle is reset, unless the result is that the wait     *)
(* system call failed.                                                     *)
(***************************************************************************)
Wait(t) ==
  /\ pc[t] \in {"stopWait", "quitWait", "wait"}
  /\ result # None
  /\ result' = None
  /\ lock' = IF At(t, "wait") THEN lock ELSE None
  /\ \/ /\ handle' = None
        /\ Goto(t, CASE At(t, "stopWait") -> "start"
                     [] At(t, "quitWait") -> "done"
                     [] At(t, "wait")     -> "restart")
        /\ UNCHANGED <<cancelled, faults>>
     \/ /\ faults < MaxFaults /\ faults' = faults + 1
        /\ Fail(t)
        /\ UNCHANGED handle
  /\ UNCHANGED <<mode, child, signalled, config, knows>>

-----------------------------------------------------------------------------
(* The two goroutines.                                                     *)

(***************************************************************************)
(* The update loop receives a list and writes the configuration. With DNS  *)
(* names the list may leave the mapping as it was; a child is started all  *)
(* the same where there is none, but a running one is not signalled.       *)
(***************************************************************************)
ReceiveUpdate ==
  /\ At("loop", "select")
  /\ \/ /\ config < MaxUpdates /\ config' = config + 1
        /\ Goto("loop", IF mode = "dns" THEN "ensure" ELSE "restart")
        /\ UNCHANGED <<cancelled, faults>>
     \/ /\ mode = "dns"
        /\ Goto("loop", "recheck")
        /\ UNCHANGED <<config, cancelled, faults>>
     \/ /\ faults < MaxFaults /\ faults' = faults + 1
        /\ Fail("loop")
        /\ UNCHANGED config
  /\ UNCHANGED <<mode, lock, handle, child, signalled, result, knows>>

LoopEnds ==
  /\ At("loop", "select") /\ cancelled
  /\ Goto("loop", "done")
  /\ UNCHANGED <<mode, lock, handle, child, signalled, result, config, knows,
                 cancelled, faults>>

\* Faulty variant: a lost child is one whose handle was reset.
LostHandle == lock = None /\ handle = None /\ result # None

(***************************************************************************)
(* The watchdog's ticker: lost gives up when the mutex is held.            *)
(***************************************************************************)
Lost == lock = None /\ handle # None /\ result # None

Tick ==
  /\ At("dog", "tick") /\ Lost
  /\ Goto("dog", "wait")
  /\ UNCHANGED <<mode, lock, handle, child, signalled, result, config, knows,
                 cancelled, faults>>

WatchdogEnds ==
  /\ At("dog", "tick") /\ cancelled
  /\ Goto("dog", "quit")
  /\ UNCHANGED <<mode, lock, handle, child, signalled, result, config, knows,
                 cancelled, faults>>

-----------------------------------------------------------------------------
(* The children, and the goroutine that waits for each.                    *)

Dies(c) ==
  /\ child[c] = "running"
  /\ \/ c \in signalled /\ UNCHANGED faults
     \/ c \notin signalled /\ faults < MaxFaults /\ faults' = faults + 1
  /\ child' = [child EXCEPT ![c] = "exited"]
  /\ UNCHANGED <<mode, pc, lock, handle, signalled, result, config, knows, cancelled>>

WaitReturns(c) ==
  /\ child[c] = "exited"
  /\ child' = [child EXCEPT ![c] = "waited"]
  /\ UNCHANGED <<mode, pc, lock, handle, signalled, result, config, knows, cancelled,
                 faults>>

SendResult(c) ==
  /\ child[c] = "waited" /\ result = None
  /\ child' = [child EXCEPT ![c] = "gone"]
  /\ result' = c
  /\ UNCHANGED <<mode, pc, lock, handle, signalled, config, knows, cancelled, faults>>

(***************************************************************************)
(* The pod is deleted, or the controller goroutine fails.                  *)
(***************************************************************************)
Cancel ==
  /\ ~ cancelled
  /\ cancelled' = TRUE
  /\ UNCHANGED <<mode, pc, lock, handle, child, signalled, result, config, knows,
                 faults>>

-----------------------------------------------------------------------------
Init ==
  /\ mode \in Modes
  /\ pc = [t \in Threads |-> Base(t)]
  /\ lock = None /\ handle = None /\ result = None
  /\ child = [c \in Children |-> "unborn"]
  /\ signalled = {}
  /\ config = 0 /\ knows = [c \in Children |-> 0]
  /\ cancelled = FALSE /\ faults = 0

Thread(t) ==
  \/ Restart(t) \/ Start(t) \/ CheckHandle(t) \/ Panics(t) \/ SendTerm(t) \/ Wait(t)

Loop == Thread("loop") \/ EnsureStarted \/ SendUsr1 \/ ReceiveUpdate \/ LoopEnds
Dog  == Thread("dog") \/ Tick \/ WatchdogEnds

Child(c) == Dies(c) \/ WaitReturns(c) \/ SendResult(c)

Next == Loop \/ Dog \/ (\E c \in Children : Child(c)) \/ Cancel

Spec == Init /\ [][Next]_vars

(***************************************************************************)
(* Goroutines run, a child that got SIGTERM ends, and its end is noticed.  *)
(* Go's select chooses at random among what is ready, so that the end of   *)
(* the context is not passed over for ever while lists keep coming.        *)
(* Children need not die, nor updates arrive, nor the context end.         *)
(***************************************************************************)
Fairness ==
  /\ WF_vars(Thread("loop") \/ EnsureStarted \/ SendUsr1) /\ SF_vars(LoopEnds)
  /\ WF_vars(Thread("dog")) /\ WF_vars(Tick) /\ WF_vars(WatchdogEnds)
  /\ \A c \in Children :
        WF_vars(c \in signalled /\ Dies(c)) /\ WF_vars(WaitReturns(c) \/ SendResult(c))

FairSpec == Spec /\ Fairness

-----------------------------------------------------------------------------
(* Properties.                                                             *)

Steps == {"select", "tick", "restart", "ensure", "recheck", "start", "stop", "quit", "signal",
          "usr1", "term", "quitTerm", "stopWait", "quitWait", "wait", "done", "panicked"}

TypeOK ==
  /\ mode \in Modes
  /\ pc \in [Threads -> Steps]
  /\ lock \in Threads \cup {None}
  /\ handle \in Children \cup {None} /\ result \in Children \cup {None}
  /\ child \in [Children -> {"unborn", "running", "exited", "waited", "gone"}]
  /\ signalled \subseteq Children
  /\ config \in 0 .. MaxUpdates /\ knows \in [Children -> 0 .. MaxUpdates]
  /\ cancelled \in BOOLEAN /\ faults \in 0 .. MaxFaults

(***************************************************************************)
(* There is never more than one child, and a running child is never out    *)
(* of reach of the handle, although two goroutines start and stop children *)
(* and look at the handle without the mutex.                               *)
(***************************************************************************)
OneChild ==
  \A c \in Children : child[c] \in {"running", "exited", "waited"} => handle = c

(***************************************************************************)
(* "`m.wait()` is known to not block at this point" (Watchdog): nobody     *)
(* takes the result away between lost and wait.                            *)
(***************************************************************************)
WaitReady == At("dog", "wait") => result # None

(***************************************************************************)
(* When the update loop is waiting for the next list, the running child    *)
(* acts on the last one: the child was started after it was written, or    *)
(* was signalled, or restarted.                                            *)
(***************************************************************************)
ChildInformed ==
  At("loop", "select") =>
    \A c \in Children : child[c] = "running" => knows[c] = config

(***************************************************************************)
(* A child that dies is replaced, unless the daemon shuts down (Watchdog). *)
(***************************************************************************)
Running == \E c \in Children : child[c] = "running"

ChildReplaced == (handle # None /\ ~ Running) ~> (Running \/ cancelled)

(***************************************************************************)
(* Shutdown ends: both goroutines return, whatever they were doing when    *)
(* the context was cancelled, and none waits for the mutex or for a result *)
(* for ever.                                                               *)
(***************************************************************************)
ShutdownCompletes ==
  cancelled ~> (\A t \in Threads : pc[t] \in {"done", "panicked"})

=============================================================================
