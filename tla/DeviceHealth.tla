---------------------------- MODULE DeviceHealth ----------------------------
(***************************************************************************)
(* Device health of the GPU kubelet plugin (device_health.go, driver.go):  *)
(* a monitor goroutine turns NVML events into messages on a channel, and a *)
(* goroutine of the driver turns the messages into device taints and       *)
(* publishes them in the ResourceSlice.                                    *)
(*                                                                         *)
(* NewDriver fills the channel before anybody reads it, starts the two     *)
(* goroutines, and then publishes the devices itself; Shutdown waits for   *)
(* both.  The channel has a bound: the monitor blocks on it for an XID,    *)
(* and drops the message for everything else.                              *)
(***************************************************************************)
EXTENDS Naturals, Sequences, FiniteSets

CONSTANTS
  Gpus,
  Devices,      \* the allocatable devices: GPUs and static MIG devices
  GpuOf,        \* the parent GPU of each device
  Xids,
  SkippedXids,  \* XIDs that are errors of applications
  MaxEvents,    \* bound on NVML events
  MaxFaults,    \* bound on failed calls
  None

ASSUME ConstantsAssumption ==
  /\ IsFiniteSet(Devices)
  /\ GpuOf \in [Devices -> Gpus]
  /\ SkippedXids \subseteq Xids
  /\ MaxEvents \in Nat /\ MaxFaults \in Nat
  /\ None \notin Xids

VARIABLES
  boot,       \* where the goroutine of RunPlugin is
  todo,       \* GPUs it has not registered for events yet
  cancelled,  \* the context is done
  chan,       \* nvmlDeviceHealthMonitor.unhealthy
  closed,
  monitor,    \* where the monitor is
  pending,    \* the message it sends
  consumer,   \* where deviceHealthEvents is
  taints,     \* AllocatableDevice.taints
  failed,     \* its last publication failed
  published,  \* the taints of the ResourceSlice, and who published it
  reported,   \* history: the taints that follow from the events so far
  events,
  faults

bootVars == <<boot, todo, cancelled>>
chanVars == <<chan, closed>>
monitorVars == <<monitor, pending>>
consumerVars == <<consumer, taints, failed>>
bounds == <<events, faults>>
vars == <<bootVars, chanVars, monitorVars, consumerVars, published, reported, bounds>>

-----------------------------------------------------------------------------
(* Messages and taints.                                                    *)

EventTypes == {"xid", "gpu-lost", "unmonitored"}

Events == [devices : SUBSET Devices, type : EventTypes, data : Xids \cup {None}]

Event(ds, type, x) == [devices |-> ds, type |-> type, data |-> x]

\* One taint for each key, and there is one key for each type of event.
Taints == [EventTypes -> [value : Xids \cup {None}, effect : {"None", "NoSchedule"}]
                         \cup {None}]

NoTaints == [d \in Devices |-> [k \in EventTypes |-> None]]

IsEventNonFatal(e) == e.type = "xid" /\ e.data \in SkippedXids

HealthEventToTaint(e) ==
  [value  |-> e.data,
   effect |-> IF e.type = "unmonitored" \/ IsEventNonFatal(e)
                THEN "None" ELSE "NoSchedule"]

\* Faulty variant: a taint that is there is not updated.
AddTaint(ts, e) ==
  [d \in Devices |->
     IF d \in e.devices /\ ts[d][e.type] = None
       THEN [ts[d] EXCEPT ![e.type] = HealthEventToTaint(e)]
       ELSE ts[d]]

\* The latest event of a type counts.
AddOrUpdateTaint(ts, e) ==
  [d \in Devices |->
     IF d \in e.devices
       THEN [ts[d] EXCEPT ![e.type] = HealthEventToTaint(e)]
       ELSE ts[d]]

\* What the events say, message by message.
Report(ts, e) ==
  [d \in Devices |->
     [k \in EventTypes |->
        IF d \in e.devices /\ k = e.type THEN HealthEventToTaint(e) ELSE ts[d][k]]]

\* Faulty variant: the channel has room for one message.
OneMessage == 1

\* The channel is made with as many places as there are devices.
Capacity == Cardinality(Devices)

Full == Len(chan) >= Capacity

\* The GPUs of deviceByPlacement.
MonitoredGpus == {GpuOf[d] : d \in Devices}

Init ==
  /\ boot = "register" /\ todo = MonitoredGpus /\ cancelled = FALSE
  /\ chan = <<>> /\ closed = FALSE
  /\ monitor = "off" /\ pending = None
  /\ consumer = "off" /\ taints = NoTaints /\ failed = FALSE
  /\ published = [by |-> None, taints |-> NoTaints]
  /\ reported = NoTaints
  /\ events = 0 /\ faults = 0

Fault == faults < MaxFaults /\ faults' = faults + 1

\* sendBatchedHealthEvent: a message that finds the channel full is dropped.
SendBatchedHealthEvent(e) == chan' = IF Full THEN chan ELSE Append(chan, e)

-----------------------------------------------------------------------------
(* NewDriver and Shutdown.                                                 *)

\* A GPU whose events cannot be had is unmonitored.
RegisterEventsForDevices(g) ==
  LET e == Event({d \in Devices : GpuOf[d] = g}, "unmonitored", None) IN
  /\ boot = "register" /\ g \in todo
  /\ todo' = todo \ {g}
  /\ \/ UNCHANGED <<chan, reported>>
     \/ SendBatchedHealthEvent(e) /\ reported' = Report(reported, e)
  /\ UNCHANGED <<boot, cancelled, closed, monitorVars, consumerVars, published, bounds>>

StartMonitor ==
  /\ boot = "register" /\ todo = {}
  /\ boot' = "started"
  /\ monitor' = "select"
  /\ UNCHANGED <<todo, cancelled, chanVars, pending, consumerVars, published,
                 reported, bounds>>

StartConsumer ==
  /\ boot = "started"
  /\ boot' = "publish"
  /\ consumer' = "wait"
  /\ UNCHANGED <<todo, cancelled, chanVars, monitorVars, taints, failed,
                 published, reported, bounds>>

\* publishResources takes the devices without their taints.
PublishResources ==
  /\ boot = "publish"
  /\ boot' = "up"
  /\ published' = [by |-> "driver", taints |-> NoTaints]
  /\ UNCHANGED <<todo, cancelled, chanVars, monitorVars, consumerVars, reported,
                 bounds>>

\* The process ends with the error, and is started again.
PublishResourcesFails ==
  /\ boot = "publish"
  /\ \/ Fault
     \/ cancelled /\ UNCHANGED faults
  /\ IF cancelled
       THEN boot' = "stopped" /\ UNCHANGED todo
       ELSE boot' = "register" /\ todo' = MonitoredGpus
  /\ chan' = <<>> /\ monitor' = "off" /\ pending' = None
  /\ consumer' = "off" /\ taints' = NoTaints /\ failed' = FALSE
  /\ reported' = NoTaints
  /\ UNCHANGED <<cancelled, closed, published, events>>

\* nvmlDeviceHealthMonitor.Stop waits for the monitor, and Shutdown then for
\* the consumer.
StopMonitor ==
  /\ boot = "up" /\ cancelled
  /\ monitor = "ended"
  /\ closed' = TRUE
  /\ boot' = "stopping"
  /\ UNCHANGED <<todo, cancelled, chan, monitorVars, consumerVars, published,
                 reported, bounds>>

Shutdown ==
  /\ boot = "stopping" /\ consumer = "ended"
  /\ boot' = "stopped"
  /\ UNCHANGED <<todo, cancelled, chanVars, monitorVars, consumerVars, published,
                 reported, bounds>>

Cancel ==
  /\ ~ cancelled
  /\ cancelled' = TRUE
  /\ UNCHANGED <<boot, todo, chanVars, monitorVars, consumerVars, published,
                 reported, bounds>>

-----------------------------------------------------------------------------
(* The monitor: run.                                                       *)

\* Faulty variant: the context is not looked at.
MonitorWait ==
  /\ monitor = "select"
  /\ monitor' = "wait"
  /\ UNCHANGED <<bootVars, chanVars, pending, consumerVars, published, reported,
                 bounds>>

MonitorSelect ==
  /\ monitor = "select"
  /\ monitor' = IF cancelled THEN "ended" ELSE "wait"
  /\ UNCHANGED <<bootVars, chanVars, pending, consumerVars, published, reported,
                 bounds>>

\* eventSet.Wait ends with nothing to tell: a timeout, an error, an event that
\* is not an XID, or one of a placement that is no allocatable device.
WaitTimeout ==
  /\ monitor = "wait"
  /\ monitor' = "select"
  /\ UNCHANGED <<bootVars, chanVars, pending, consumerVars, published, reported,
                 bounds>>

NvmlEvent == events < MaxEvents /\ events' = events + 1

WaitXid(d, x) ==
  LET e == Event({d}, "xid", x) IN
  /\ monitor = "wait" /\ NvmlEvent
  /\ monitor' = "send"
  /\ pending' = e
  /\ reported' = Report(reported, e)
  /\ UNCHANGED <<bootVars, chanVars, consumerVars, published, faults>>

\* ERROR_GPU_IS_LOST, or a device that does not tell its UUID: all devices.
\* What is dropped here is never heard of again.
WaitGpuLost ==
  LET e == Event(Devices, "gpu-lost", None) IN
  /\ monitor = "wait" /\ NvmlEvent
  /\ monitor' = "select"
  /\ SendBatchedHealthEvent(e)
  /\ reported' = IF Full THEN reported ELSE Report(reported, e)
  /\ UNCHANGED <<bootVars, closed, pending, consumerVars, published, faults>>

\* The send of an XID blocks.
SendXid ==
  /\ monitor = "send" /\ ~ Full
  /\ chan' = Append(chan, pending)
  /\ monitor' = "select" /\ pending' = None
  /\ UNCHANGED <<bootVars, closed, consumerVars, published, reported, bounds>>

-----------------------------------------------------------------------------
(* The consumer: deviceHealthEvents.                                       *)

\* Only a change is published.
Receive ==
  /\ consumer = "wait" /\ chan # <<>>
  /\ chan' = Tail(chan)
  /\ taints' = AddOrUpdateTaint(taints, Head(chan))
  /\ consumer' = IF taints' = taints THEN "wait" ELSE "publish"
  /\ UNCHANGED <<bootVars, closed, monitorVars, failed, published, reported, bounds>>

PublishTaints ==
  /\ consumer = "publish"
  /\ consumer' = "wait"
  /\ published' = [by |-> "consumer", taints |-> taints]
  /\ failed' = FALSE
  /\ UNCHANGED <<bootVars, chanVars, monitorVars, taints, reported, bounds>>

\* A failure is only logged.
PublishTaintsFails ==
  /\ consumer = "publish"
  /\ \/ Fault
     \/ cancelled /\ UNCHANGED faults
  /\ consumer' = "wait"
  /\ failed' = TRUE
  /\ UNCHANGED <<bootVars, chanVars, monitorVars, taints, published, reported, events>>

ConsumerEnds ==
  /\ consumer = "wait"
  /\ cancelled \/ (closed /\ chan = <<>>)
  /\ consumer' = "ended"
  /\ UNCHANGED <<bootVars, chanVars, monitorVars, taints, failed, published,
                 reported, bounds>>

BootStep ==
  \/ \E g \in Gpus : RegisterEventsForDevices(g)
  \/ StartMonitor \/ StartConsumer \/ PublishResources \/ PublishResourcesFails
  \/ StopMonitor \/ Shutdown

MonitorStep == MonitorSelect \/ WaitTimeout \/ SendXid

Nvml == WaitGpuLost \/ \E d \in Devices, x \in Xids : WaitXid(d, x)

ConsumerStep == Receive \/ PublishTaints \/ PublishTaintsFails \/ ConsumerEnds

Next == BootStep \/ Cancel \/ MonitorStep \/ Nvml \/ ConsumerStep

Spec == Init /\ [][Next]_vars

\* Each goroutine runs; a wait for NVML events has a timeout.  Of events, of
\* the end of the context and of failures nothing is assumed.
Fairness == WF_vars(BootStep) /\ WF_vars(MonitorStep) /\ WF_vars(ConsumerStep)

FairSpec == Spec /\ Fairness

-----------------------------------------------------------------------------
(* Properties.                                                             *)

TypeOK ==
  /\ boot \in {"register", "started", "publish", "up", "stopping", "stopped"}
  /\ todo \subseteq Gpus
  /\ cancelled \in BOOLEAN
  /\ chan \in Seq(Events)
  /\ closed \in BOOLEAN
  /\ monitor \in {"off", "select", "wait", "send", "ended"}
  /\ pending \in Events \cup {None}
  /\ consumer \in {"off", "wait", "publish", "ended"}
  /\ taints \in [Devices -> Taints]
  /\ failed \in BOOLEAN
  /\ published \in [by : {None, "driver", "consumer"}, taints : [Devices -> Taints]]
  /\ reported \in [Devices -> Taints]
  /\ events \in 0..MaxEvents
  /\ faults \in 0..MaxFaults

\* Nothing is on its way from the monitor to the ResourceSlice.
Quiet ==
  /\ boot = "up" /\ monitor \in {"select", "wait"}
  /\ chan = <<>> /\ consumer = "wait"

(***************************************************************************)
(* HealthPublished: when nothing is on its way, the ResourceSlice carries  *)
(* for every device the taints of the latest events ("The value and effect *)
(* are always updated to the latest event received"), unless its last      *)
(* publication failed, or the slice is the first one of NewDriver, which   *)
(* may come after the first one of the consumer and has no taints.         *)
(***************************************************************************)
HealthPublished ==
  Quiet /\ ~ failed /\ published.by = "consumer" => published.taints = reported

(***************************************************************************)
(* ReportedApplied: a device that NVML told of, or could not be registered *)
(* with NVML, gets its taint: what is sent before there is a receiver fits *)
(* into the channel, and later a full channel only delays an XID.          *)
(***************************************************************************)
ReportedApplied ==
  \A d \in Devices : \A k \in EventTypes :
     (reported[d][k] # None) ~>
        (taints[d][k] # None \/ reported[d][k] = None \/ cancelled)

\* The monitor waits for a place in the channel, and nobody will make one.
BlockedForever == monitor = "send" /\ Full /\ consumer = "ended"

(***************************************************************************)
(* ShutdownEnds: after the end of the context Shutdown returns, however    *)
(* the goroutines stand, except when the consumer is gone while the        *)
(* monitor waits to send an XID on a full channel.                         *)
(***************************************************************************)
ShutdownEnds == cancelled ~> (boot = "stopped" \/ BlockedForever)
=============================================================================
