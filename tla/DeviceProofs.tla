---------------------------- MODULE DeviceProofs ----------------------------
(***************************************************************************)
(* Proofs about what the plugin does with its devices, in two parts.       *)
(*                                                                         *)
(* DeviceHealth, for any devices, events and failures: the channel has     *)
(* room for all that is sent before it has a receiver, and the             *)
(* ResourceSlice carries the taints of the latest events.                  *)
(*                                                                         *)
(* DeviceConfig, for any entries, claims, gates and devices: the config of *)
(* a device is the strongest meant for it, what the webhook admits the     *)
(* plugin prepares, and a memory limit reaches the device it names.        *)
(***************************************************************************)
EXTENDS DeviceHealth, DeviceConfig, FiniteSetTheorems, FunctionTheorems,
        WellFoundedInduction, TLAPS

-----------------------------------------------------------------------------
(* Part 1: DeviceHealth.                                                   *)

\* A message is about device d and the taint key k.
Carries(e, d, k) == d \in e.devices /\ k = e.type

\* What the taint is after the messages of a channel, if it was old before.
AfterMessages(s, d, k, old, new) ==
  \/ \E i \in 1 .. Len(s) :
        /\ Carries(s[i], d, k)
        /\ \A j \in 1 .. Len(s) : j > i => ~ Carries(s[j], d, k)
        /\ new = HealthEventToTaint(s[i])
  \/ /\ \A i \in 1 .. Len(s) : ~ Carries(s[i], d, k)
     /\ new = old

\* Where the goroutines can be.
Phases ==
  /\ boot = "register" => monitor = "off" /\ consumer = "off"
  /\ boot = "started" => consumer = "off"
  /\ monitor = "send" => pending \in Events

\* Every GPU that is not registered yet has a place in the channel.
Room ==
  boot = "register" =>
    /\ todo \subseteq MonitoredGpus
    /\ Len(chan) + Cardinality(todo) <= Capacity

\* No message is lost or overtaken: the taints that follow from the events are
\* those of the consumer after what is still on its way.
Latest ==
  \A d \in Devices : \A k \in EventTypes :
    IF monitor = "send" /\ Carries(pending, d, k)
      THEN reported[d][k] = HealthEventToTaint(pending)
      ELSE AfterMessages(chan, d, k, taints[d][k], reported[d][k])

\* The consumer's last publication has its taints.
SliceCurrent ==
  boot = "up" /\ consumer = "wait" /\ ~ failed /\ published.by = "consumer" =>
    published.taints = taints

\* The type, in two parts that suit different provers.
Flags == cancelled \in BOOLEAN /\ closed \in BOOLEAN /\ failed \in BOOLEAN

Data ==
  /\ boot \in {"register", "started", "publish", "up", "stopping", "stopped"}
  /\ todo \subseteq Gpus
  /\ chan \in Seq(Events)
  /\ monitor \in {"off", "select", "wait", "send", "ended"}
  /\ pending \in Events \cup {None}
  /\ consumer \in {"off", "wait", "publish", "ended"}
  /\ taints \in [Devices -> Taints]
  /\ published \in [by : {None, "driver", "consumer"}, taints : [Devices -> Taints]]
  /\ reported \in [Devices -> Taints]
  /\ events \in 0..MaxEvents
  /\ faults \in 0..MaxFaults

Inv == TypeOK /\ Phases /\ Room /\ Latest /\ SliceCurrent

-----------------------------------------------------------------------------
(* Operators.                                                              *)

LEMMA AppendElements ==
  ASSUME NEW S, NEW s \in Seq(S), NEW e \in S
  PROVE  /\ Append(s, e) \in Seq(S)
         /\ Len(Append(s, e)) = Len(s) + 1
         /\ Len(s) \in Nat
         /\ \A n \in 1 .. Len(s) : Append(s, e)[n] = s[n]
         /\ Append(s, e)[Len(s) + 1] = e
OBVIOUS

LEMMA TailElements ==
  ASSUME NEW S, NEW s \in Seq(S), s # <<>>
  PROVE  /\ Tail(s) \in Seq(S)
         /\ Len(Tail(s)) = Len(s) - 1
         /\ Len(s) \in Nat \ {0}
         /\ Head(s) = s[1]
         /\ s[1] \in S
         /\ \A n \in 1 .. Len(Tail(s)) : Tail(s)[n] = s[n + 1]
OBVIOUS

LEMMA TaintType ==
  ASSUME NEW e \in Events
  PROVE  /\ HealthEventToTaint(e) \in [value : Xids \cup {None}, effect : {"None", "NoSchedule"}]
         /\ e.type \in EventTypes
         /\ e.devices \subseteq Devices
BY DEF Events, HealthEventToTaint, EventTypes

LEMMA NoTaintsType == NoTaints \in [Devices -> Taints]
BY DEF NoTaints, Taints

LEMMA ReportType ==
  ASSUME NEW ts \in [Devices -> Taints], NEW e \in Events
  PROVE  /\ Report(ts, e) \in [Devices -> Taints]
         /\ \A d \in Devices : \A k \in EventTypes :
               Report(ts, e)[d][k] = IF Carries(e, d, k) THEN HealthEventToTaint(e)
                                                         ELSE ts[d][k]
<1>1. \A d \in Devices : Report(ts, e)[d] \in Taints
  <2> SUFFICES ASSUME NEW d \in Devices PROVE Report(ts, e)[d] \in Taints
    OBVIOUS
  <2>1. ts[d] \in Taints
    OBVIOUS
  <2>2. QED
    BY <2>1, TaintType DEF Report, Taints
<1>2. QED
  BY <1>1 DEF Report, Carries

\* AddOrUpdateTaint does what the events say.
LEMMA UpdateIsReport ==
  ASSUME NEW ts \in [Devices -> Taints], NEW e \in Events
  PROVE  AddOrUpdateTaint(ts, e) = Report(ts, e)
<1>1. ASSUME NEW d \in Devices
      PROVE  AddOrUpdateTaint(ts, e)[d] = Report(ts, e)[d]
  <2>1. ts[d] \in Taints
    OBVIOUS
  <2>2. CASE d \in e.devices
    <3>1. AddOrUpdateTaint(ts, e)[d] = [ts[d] EXCEPT ![e.type] = HealthEventToTaint(e)]
      BY <2>2 DEF AddOrUpdateTaint
    <3>2. Report(ts, e)[d] = [k \in EventTypes |->
             IF k = e.type THEN HealthEventToTaint(e) ELSE ts[d][k]]
      BY <2>2 DEF Report
    <3>3. QED
      BY <2>1, <3>1, <3>2, TaintType DEF Taints
  <2>3. CASE d \notin e.devices
    BY <2>1, <2>3 DEF AddOrUpdateTaint, Report, Taints
  <2>4. QED
    BY <2>2, <2>3
<1>2. QED
  BY <1>1 DEF AddOrUpdateTaint, Report

\* A message that is appended decides the taints it is about.
LEMMA AppendMessage ==
  ASSUME NEW s \in Seq(Events), NEW e \in Events, NEW d, NEW k, NEW old, NEW new
  PROVE  /\ Carries(e, d, k) => AfterMessages(Append(s, e), d, k, old, HealthEventToTaint(e))
         /\ ~ Carries(e, d, k) /\ AfterMessages(s, d, k, old, new)
               => AfterMessages(Append(s, e), d, k, old, new)
<1> DEFINE a == Append(s, e)
<1>1. /\ Len(a) = Len(s) + 1 /\ Len(s) \in Nat
      /\ \A n \in 1 .. Len(s) : a[n] = s[n]
      /\ a[Len(s) + 1] = e
  BY AppendElements
<1> HIDE DEF a
<1>2. Carries(e, d, k) => AfterMessages(a, d, k, old, HealthEventToTaint(e))
  BY <1>1 DEF AfterMessages
<1>3. ASSUME ~ Carries(e, d, k), AfterMessages(s, d, k, old, new)
      PROVE  AfterMessages(a, d, k, old, new)
  BY <1>1, <1>3 DEF AfterMessages
<1>4. QED
  BY <1>2, <1>3 DEF a

\* The message at the head of the channel is applied, and the rest remains.
LEMMA HeadMessage ==
  ASSUME NEW s \in Seq(Events), s # <<>>, NEW d, NEW k, NEW old, NEW new,
         AfterMessages(s, d, k, old, new)
  PROVE  AfterMessages(Tail(s), d, k,
           IF Carries(Head(s), d, k) THEN HealthEventToTaint(Head(s)) ELSE old, new)
<1> DEFINE r == Tail(s)
<1>1. /\ Len(r) = Len(s) - 1 /\ Len(s) \in Nat \ {0}
      /\ Head(s) = s[1]
      /\ \A n \in 1 .. Len(r) : r[n] = s[n + 1]
  BY TailElements
<1> HIDE DEF r
<1>2. \A n \in 2 .. Len(s) : n - 1 \in 1 .. Len(r) /\ r[n - 1] = s[n]
  BY <1>1
<1>3. CASE \A i \in 1 .. Len(s) : ~ Carries(s[i], d, k)
  BY <1>1, <1>3 DEF AfterMessages, r
<1>4. ASSUME NEW i \in 1 .. Len(s), Carries(s[i], d, k),
             \A j \in 1 .. Len(s) : j > i => ~ Carries(s[j], d, k),
             new = HealthEventToTaint(s[i])
      PROVE  AfterMessages(r, d, k,
               IF Carries(Head(s), d, k) THEN HealthEventToTaint(Head(s)) ELSE old, new)
  <2>1. CASE i = 1
    <3>1. \A n \in 1 .. Len(r) : ~ Carries(r[n], d, k)
      BY <1>1, <1>4, <2>1
    <3>2. QED
      BY <1>1, <1>4, <2>1, <3>1 DEF AfterMessages
  <2>2. CASE i # 1
    <3>1. /\ i - 1 \in 1 .. Len(r) /\ r[i - 1] = s[i]
          /\ \A j \in 1 .. Len(r) : j > i - 1 => ~ Carries(r[j], d, k)
      BY <1>1, <1>2, <1>4, <2>2
    <3>2. QED
      BY <1>4, <3>1 DEF AfterMessages
  <2>3. QED
    BY <2>1, <2>2
<1>5. QED
  BY <1>3, <1>4 DEF AfterMessages, r

\* There are at most as many monitored GPUs as devices.
LEMMA GpusFit ==
  IsFiniteSet(MonitoredGpus) /\ Cardinality(MonitoredGpus) <= Capacity /\ Capacity \in Nat
<1>1. GpuOf \in Surjection(Devices, MonitoredGpus)
  BY ConstantsAssumption DEF Surjection, MonitoredGpus
<1>2. QED
  BY <1>1, ConstantsAssumption, FS_Surjection, FS_CardinalityType DEF Capacity

-----------------------------------------------------------------------------
(* The invariant.                                                          *)

LEMMA InitInv == Init => Inv
<1> SUFFICES ASSUME Init PROVE Inv
  OBVIOUS
<1>1. TypeOK
  <2>1. Flags
    BY DEF Init, TypeOK, MonitoredGpus, Flags
  <2>2. Data
    BY ConstantsAssumption, NoTaintsType DEF Init, TypeOK, MonitoredGpus, Data
  <2>3. QED
    BY <2>1, <2>2 DEF TypeOK, Flags, Data
<1>2. Phases /\ SliceCurrent
  BY DEF Init, Phases, SliceCurrent
<1>3. Room
  BY GpusFit, FS_CardinalityType DEF Init, Room
<1>4. Latest
  BY DEF Init, Latest, AfterMessages
<1>5. QED
  BY <1>1, <1>2, <1>3, <1>4 DEF Inv

\* Sending a message that has room, while the monitor has none to send.
LEMMA SendKeepsLatest ==
  ASSUME TypeOK, Latest, monitor # "send", NEW e \in Events,
         chan' = Append(chan, e), reported' = Report(reported, e),
         taints' = taints, monitor' # "send"
  PROVE  Latest'
<1> SUFFICES ASSUME NEW d \in Devices, NEW k \in EventTypes
             PROVE  AfterMessages(chan', d, k, taints'[d][k], reported'[d][k])
  BY DEF Latest
<1>1. AfterMessages(chan, d, k, taints[d][k], reported[d][k])
  BY DEF Latest
<1>2. reported'[d][k] = IF Carries(e, d, k) THEN HealthEventToTaint(e) ELSE reported[d][k]
  BY ReportType DEF TypeOK
<1>3. QED
  BY <1>1, <1>2, AppendMessage DEF TypeOK

LEMMA RegisterInv ==
  ASSUME Inv, NEW g \in Gpus, RegisterEventsForDevices(g)
  PROVE  Inv'
<1> DEFINE e == Event({d \in Devices : GpuOf[d] = g}, "unmonitored", None)
<1>1. e \in Events
  BY DEF Event, Events, EventTypes
<1>2. /\ IsFiniteSet(todo) /\ g \in todo /\ todo' = todo \ {g}
      /\ Cardinality(todo') = Cardinality(todo) - 1
      /\ Cardinality(todo) \in Nat /\ Len(chan) \in Nat
      /\ Len(chan) + Cardinality(todo) <= Capacity /\ Capacity \in Nat
  BY GpusFit, FS_Subset, FS_RemoveElement, FS_CardinalityType
     DEF RegisterEventsForDevices, Inv, Room, TypeOK
<1>3. Cardinality(todo) # 0
  BY <1>2, FS_EmptySet
<1>4. ~ Full
  BY <1>2, <1>3 DEF Full
<1>5. \/ UNCHANGED <<chan, reported>>
      \/ chan' = Append(chan, e) /\ reported' = Report(reported, e)
  BY <1>4 DEF RegisterEventsForDevices, SendBatchedHealthEvent
<1> HIDE DEF e
<1>6. TypeOK'
  <2>1. Flags'
    BY <1>1, <1>5
    DEF Inv, TypeOK, RegisterEventsForDevices, monitorVars, consumerVars, bounds, Flags
  <2>2. chan' \in Seq(Events) /\ reported' \in [Devices -> Taints]
    <3>1. chan \in Seq(Events) /\ reported \in [Devices -> Taints]
      BY DEF Inv, TypeOK
    <3>2. Append(chan, e) \in Seq(Events) /\ Report(reported, e) \in [Devices -> Taints]
      BY <1>1, <3>1, AppendElements, ReportType
    <3>3. QED
      BY <1>5, <3>1, <3>2
  <2>3. Data'
    BY <2>2
    DEF Inv, TypeOK, RegisterEventsForDevices, monitorVars, consumerVars, bounds, Data
  <2>4. QED
    BY <2>1, <2>3 DEF TypeOK, Flags, Data
<1>7. Phases' /\ SliceCurrent'
  BY DEF Inv, Phases, SliceCurrent, RegisterEventsForDevices, monitorVars, consumerVars
<1>8. Room'
  <2>1. Len(chan') <= Len(chan) + 1 /\ Len(chan') \in Nat
    BY <1>1, <1>5, AppendElements, <1>2 DEF Inv, TypeOK
  <2>2. QED
    BY <1>2, <2>1 DEF Inv, Room, RegisterEventsForDevices, Capacity, MonitoredGpus
<1>9. Latest'
  <2>1. /\ monitor # "send" /\ monitor' = monitor /\ taints' = taints /\ pending' = pending
    BY DEF Inv, Phases, RegisterEventsForDevices, monitorVars, consumerVars
  <2>2. CASE UNCHANGED <<chan, reported>>
    BY <2>1, <2>2 DEF Inv, Latest
  <2>3. CASE chan' = Append(chan, e) /\ reported' = Report(reported, e)
    BY <1>1, <2>1, <2>3, SendKeepsLatest DEF Inv
  <2>4. QED
    BY <1>5, <2>2, <2>3
<1>10. QED
  BY <1>6, <1>7, <1>8, <1>9 DEF Inv

LEMMA BootInv ==
  ASSUME Inv,
         \/ StartMonitor \/ StartConsumer \/ PublishResources \/ PublishResourcesFails
         \/ StopMonitor \/ Shutdown \/ Cancel
  PROVE  Inv'
<1> USE DEF StartMonitor, StartConsumer, PublishResources, StopMonitor, Shutdown, Cancel,
        chanVars, monitorVars, consumerVars, bounds
<1>1. CASE PublishResourcesFails
  <2>1. TypeOK'
    <3>1. Flags'
      BY <1>1 DEF PublishResourcesFails, Inv, TypeOK, MonitoredGpus, Fault, Flags
    <3>2. Data'
      BY <1>1, ConstantsAssumption, NoTaintsType
      DEF PublishResourcesFails, Inv, TypeOK, MonitoredGpus, Fault, Data
    <3>3. QED
      BY <3>1, <3>2 DEF TypeOK, Flags, Data
  <2>2. Phases' /\ SliceCurrent'
    BY <1>1 DEF PublishResourcesFails, Inv, Phases, SliceCurrent
  <2>3. Room'
    <3>1. /\ boot' = "register" => todo' = MonitoredGpus
          /\ chan' = <<>>
      BY <1>1 DEF PublishResourcesFails, Inv, TypeOK
    <3>2. Cardinality(MonitoredGpus) <= Capacity /\ Cardinality(MonitoredGpus) \in Nat
      BY GpusFit, FS_CardinalityType
    <3>3. boot' = "register" => /\ todo' \subseteq MonitoredGpus
                                /\ Len(chan') + Cardinality(todo') <= Capacity
      BY <3>1, <3>2
    <3>4. QED
      BY <3>3 DEF Room
  <2>4. Latest'
    BY <1>1 DEF PublishResourcesFails, Latest, AfterMessages
  <2>5. QED
    BY <2>1, <2>2, <2>3, <2>4 DEF Inv
<1>2. CASE StartMonitor \/ StartConsumer \/ PublishResources \/ StopMonitor \/ Shutdown \/ Cancel
  <2>1. TypeOK'
    <3>1. Flags'
      BY <1>2 DEF Inv, TypeOK, Flags
    <3>2. Data'
      BY <1>2, NoTaintsType DEF Inv, TypeOK, Data
    <3>3. QED
      BY <3>1, <3>2 DEF TypeOK, Flags, Data
  <2>2. Phases' /\ SliceCurrent'
    BY <1>2 DEF Inv, Phases, SliceCurrent
  <2>3. Room'
    BY <1>2 DEF Inv, Room, Capacity, MonitoredGpus
  <2>4. Latest'
    <3>1. /\ UNCHANGED <<chan, taints, reported, pending>>
          /\ monitor' = "send" <=> monitor = "send"
      BY <1>2 DEF Inv, Phases
    <3>2. QED
      BY <3>1 DEF Inv, Latest
  <2>5. QED
    BY <2>1, <2>2, <2>3, <2>4 DEF Inv
<1>3. QED
  BY <1>1, <1>2

LEMMA MonitorInv ==
  ASSUME Inv, MonitorSelect \/ WaitTimeout \/ SendXid
  PROVE  Inv'
<1> USE DEF MonitorSelect, WaitTimeout, SendXid, bootVars, chanVars, consumerVars, bounds
<1>1. monitor = "send" => chan \in Seq(Events) /\ pending \in Events
  BY DEF Inv, Phases, TypeOK
<1>2. TypeOK'
  <2>1. Flags'
    BY <1>1 DEF Inv, TypeOK, Flags
  <2>2. Data'
    BY <1>1, AppendElements DEF Inv, TypeOK, Data
  <2>3. QED
    BY <2>1, <2>2 DEF TypeOK, Flags, Data
<1>3. Phases' /\ SliceCurrent'
  BY DEF Inv, Phases, SliceCurrent
<1>4. Room'
  BY DEF Inv, Phases, Room, Capacity, MonitoredGpus
<1>5. Latest'
  <2>1. CASE MonitorSelect \/ WaitTimeout
    BY <2>1 DEF Inv, Latest
  <2>2. CASE SendXid
    <3> SUFFICES ASSUME NEW d \in Devices, NEW k \in EventTypes
                 PROVE  AfterMessages(chan', d, k, taints'[d][k], reported'[d][k])
      BY <2>2 DEF Latest
    <3>1. /\ chan' = Append(chan, pending)
          /\ UNCHANGED <<taints, reported>> /\ monitor = "send"
      BY <2>2
    <3>2. IF Carries(pending, d, k)
            THEN reported[d][k] = HealthEventToTaint(pending)
            ELSE AfterMessages(chan, d, k, taints[d][k], reported[d][k])
      BY <3>1 DEF Inv, Latest
    <3>3. QED
      BY <1>1, <3>1, <3>2, AppendMessage
  <2>3. QED
    BY <2>1, <2>2
<1>6. QED
  BY <1>2, <1>3, <1>4, <1>5 DEF Inv

LEMMA NvmlInv ==
  ASSUME Inv, Nvml
  PROVE  Inv'
<1> USE DEF bootVars, chanVars, consumerVars, bounds, NvmlEvent
<1>1. CASE WaitGpuLost
  <2> DEFINE e == Event(Devices, "gpu-lost", None)
  <2>1. e \in Events
    BY DEF Event, Events, EventTypes
  <2>2. \/ UNCHANGED <<chan, reported>>
        \/ chan' = Append(chan, e) /\ reported' = Report(reported, e)
    BY <1>1 DEF WaitGpuLost, SendBatchedHealthEvent
  <2> HIDE DEF e
  <2>3. TypeOK'
    <3>1. Flags'
      BY <1>1, <2>1, <2>2 DEF WaitGpuLost, Inv, TypeOK, Flags
    <3>2. chan' \in Seq(Events) /\ reported' \in [Devices -> Taints]
      <4>1. chan \in Seq(Events) /\ reported \in [Devices -> Taints]
        BY DEF Inv, TypeOK
      <4>2. Append(chan, e) \in Seq(Events) /\ Report(reported, e) \in [Devices -> Taints]
        BY <2>1, <4>1, AppendElements, ReportType
      <4>3. QED
        BY <2>2, <4>1, <4>2
    <3>3. Data'
      BY <1>1, <3>2, ConstantsAssumption DEF WaitGpuLost, Inv, TypeOK, Data
    <3>4. QED
      BY <3>1, <3>3 DEF TypeOK, Flags, Data
  <2>4. Phases' /\ Room' /\ SliceCurrent'
    BY <1>1 DEF WaitGpuLost, Inv, Phases, Room, SliceCurrent
  <2>5. Latest'
    <3>1. monitor # "send" /\ monitor' # "send" /\ taints' = taints
      BY <1>1 DEF WaitGpuLost
    <3>2. CASE UNCHANGED <<chan, reported>>
      BY <3>1, <3>2 DEF Inv, Latest
    <3>3. CASE chan' = Append(chan, e) /\ reported' = Report(reported, e)
      BY <2>1, <3>1, <3>3, SendKeepsLatest DEF Inv
    <3>4. QED
      BY <2>2, <3>2, <3>3
  <2>6. QED
    BY <2>3, <2>4, <2>5 DEF Inv
<1>2. ASSUME NEW d0 \in Devices, NEW x \in Xids, WaitXid(d0, x)
      PROVE  Inv'
  <2> DEFINE e == Event({d0}, "xid", x)
  <2>1. e \in Events
    BY DEF Event, Events, EventTypes
  <2>2. /\ pending' = e /\ monitor' = "send" /\ monitor = "wait"
        /\ reported' = Report(reported, e) /\ UNCHANGED <<chan, taints>>
    BY <1>2 DEF WaitXid
  <2> HIDE DEF e
  <2>3. TypeOK'
    <3>1. Flags'
      BY <1>2, <2>1, <2>2 DEF WaitXid, Inv, TypeOK, Flags
    <3>2. reported' \in [Devices -> Taints] /\ pending' \in Events
      BY <2>1, <2>2, ReportType DEF Inv, TypeOK
    <3>3. /\ monitor' = "send" /\ events' \in 0 .. MaxEvents
          /\ UNCHANGED <<boot, todo, chan, consumer, taints, published, faults>>
      BY <1>2, ConstantsAssumption DEF WaitXid, Inv, TypeOK
    <3>4. Data'
      BY <3>2, <3>3 DEF Inv, TypeOK, Data
    <3>5. QED
      BY <3>1, <3>4 DEF TypeOK, Flags, Data
  <2>4. Phases' /\ Room' /\ SliceCurrent'
    BY <1>2, <2>1, <2>2 DEF WaitXid, Inv, Phases, Room, SliceCurrent
  <2>5. Latest'
    <3> SUFFICES ASSUME NEW d \in Devices, NEW k \in EventTypes
                 PROVE  IF Carries(e, d, k)
                          THEN reported'[d][k] = HealthEventToTaint(e)
                          ELSE AfterMessages(chan, d, k, taints[d][k], reported'[d][k])
      BY <2>2 DEF Latest
    <3>1. AfterMessages(chan, d, k, taints[d][k], reported[d][k])
      BY <2>2 DEF Inv, Latest
    <3>2. reported'[d][k] = IF Carries(e, d, k) THEN HealthEventToTaint(e)
                                                ELSE reported[d][k]
      BY <2>1, <2>2, ReportType DEF Inv, TypeOK
    <3>3. QED
      BY <3>1, <3>2
  <2>6. QED
    BY <2>3, <2>4, <2>5 DEF Inv
<1>3. QED
  BY <1>1, <1>2 DEF Nvml

LEMMA ConsumerInv ==
  ASSUME Inv, ConsumerStep
  PROVE  Inv'
<1> USE DEF bootVars, chanVars, monitorVars, bounds
<1>1. CASE Receive
  <2> DEFINE e == Head(chan)
  <2>1. /\ chan \in Seq(Events) /\ chan # <<>> /\ e \in Events /\ chan' = Tail(chan)
        /\ chan' \in Seq(Events) /\ consumer = "wait"
    BY <1>1, TailElements DEF Receive, Inv, TypeOK
  <2>2. taints' = Report(taints, e) /\ taints' \in [Devices -> Taints]
    BY <1>1, <2>1, UpdateIsReport, ReportType DEF Receive, Inv, TypeOK
  <2> HIDE DEF e
  <2>3. TypeOK'
    <3>1. Flags'
      BY <1>1, <2>1, <2>2 DEF Receive, Inv, TypeOK, Flags
    <3>2. Data'
      BY <1>1, <2>1, <2>2 DEF Receive, Inv, TypeOK, Data
    <3>3. QED
      BY <3>1, <3>2 DEF TypeOK, Flags, Data
  <2>4. Phases' /\ Room' /\ SliceCurrent'
    BY <1>1 DEF Receive, Inv, Phases, Room, SliceCurrent
  <2>5. Latest'
    <3> SUFFICES ASSUME NEW d \in Devices, NEW k \in EventTypes
                 PROVE  IF monitor = "send" /\ Carries(pending, d, k)
                          THEN reported[d][k] = HealthEventToTaint(pending)
                          ELSE AfterMessages(chan', d, k, taints'[d][k], reported[d][k])
      BY <1>1 DEF Receive, Latest
    <3>1. taints'[d][k] = IF Carries(e, d, k) THEN HealthEventToTaint(e) ELSE taints[d][k]
      BY <2>1, <2>2, ReportType DEF Inv, TypeOK
    <3>2. IF monitor = "send" /\ Carries(pending, d, k)
            THEN reported[d][k] = HealthEventToTaint(pending)
            ELSE AfterMessages(chan, d, k, taints[d][k], reported[d][k])
      BY DEF Inv, Latest
    <3>3. QED
      BY <2>1, <3>1, <3>2, HeadMessage DEF e
  <2>6. QED
    BY <2>3, <2>4, <2>5 DEF Inv
<1>2. CASE PublishTaints \/ PublishTaintsFails \/ ConsumerEnds
  <2> USE DEF PublishTaints, PublishTaintsFails, ConsumerEnds
  <2>1. TypeOK'
    <3>1. Flags'
      BY <1>2 DEF Inv, TypeOK, Fault, Flags
    <3>2. published' \in [by : {None, "driver", "consumer"}, taints : [Devices -> Taints]]
      BY <1>2 DEF Inv, TypeOK
    <3>3. Data'
      BY <1>2, <3>2, ConstantsAssumption DEF Inv, TypeOK, Fault, Data
    <3>4. QED
      BY <3>1, <3>3 DEF TypeOK, Flags, Data
  <2>2. Phases' /\ Room' /\ SliceCurrent'
    BY <1>2 DEF Inv, Phases, Room, SliceCurrent
  <2>3. Latest'
    <3>1. UNCHANGED <<monitor, pending, chan, taints, reported>>
      BY <1>2
    <3>2. QED
      BY <3>1 DEF Inv, Latest
  <2>4. QED
    BY <2>1, <2>2, <2>3 DEF Inv
<1>3. QED
  BY <1>1, <1>2 DEF ConsumerStep

LEMMA StepInv == Inv /\ [Next]_vars => Inv'
<1> SUFFICES ASSUME Inv, [Next]_vars PROVE Inv'
  OBVIOUS
<1>1. CASE UNCHANGED vars
  BY <1>1 DEF Inv, TypeOK, Phases, Room, Latest, SliceCurrent, vars, bootVars, chanVars,
     monitorVars, consumerVars, bounds
<1>2. QED
  BY <1>1, RegisterInv, BootInv, MonitorInv, NvmlInv, ConsumerInv
     DEF Next, BootStep, MonitorStep

-----------------------------------------------------------------------------
(* The theorems.                                                           *)

LEMMA Invariance == Spec => []Inv
BY InitInv, StepInv, PTL DEF Spec

(***************************************************************************)
(* Each variable has its type.                                             *)
(***************************************************************************)
THEOREM TypeCorrect == Spec => []TypeOK
BY Invariance, PTL DEF Inv

(***************************************************************************)
(* HealthPublished: when nothing is on its way from the monitor to the     *)
(* ResourceSlice, the slice that the consumer published last carries for   *)
(* every device the taints of the latest events of NVML, in the order in   *)
(* which they came (sendHealthEvent, deviceHealthEvents, AddOrUpdateTaint).*)
(***************************************************************************)
THEOREM LatestIsPublished == Spec => []HealthPublished
<1>1. Inv => HealthPublished
  <2> SUFFICES ASSUME Inv, Quiet, ~ failed, published.by = "consumer"
               PROVE  published.taints = reported
    BY DEF HealthPublished
  <2>1. published.taints = taints
    BY DEF Inv, SliceCurrent, Quiet
  <2>2. \A d \in Devices : \A k \in EventTypes : taints[d][k] = reported[d][k]
    BY DEF Inv, Latest, Quiet, AfterMessages
  <2>3. \A d \in Devices : taints[d] \in Taints /\ reported[d] \in Taints
    BY DEF Inv, TypeOK
  <2>4. \A d \in Devices : taints[d] = reported[d]
    BY <2>2, <2>3 DEF Taints
  <2>5. taints = reported
    BY <2>4 DEF Inv, TypeOK
  <2>6. QED
    BY <2>1, <2>5
<1>2. QED
  BY <1>1, Invariance, PTL

\* There is a place for the message of every GPU that NewDriver has yet to
\* register, although nobody reads the channel before it has registered all.
RegistrationFits == boot = "register" /\ todo # {} => ~ Full

(***************************************************************************)
(* The non-blocking send of registerEventsForDevices never finds the       *)
(* channel full: newNvmlDeviceHealthMonitor makes it as long as there are  *)
(* devices, and no GPU without a device is registered.                     *)
(***************************************************************************)
THEOREM NoneDroppedAtStart == Spec => []RegistrationFits
<1>1. Inv => RegistrationFits
  <2> SUFFICES ASSUME Inv, boot = "register", todo # {} PROVE ~ Full
    BY DEF RegistrationFits
  <2>1. /\ IsFiniteSet(todo) /\ Cardinality(todo) \in Nat /\ Cardinality(todo) # 0
        /\ Capacity \in Nat /\ Len(chan) \in Nat
        /\ Len(chan) + Cardinality(todo) <= Capacity
    BY GpusFit, FS_Subset, FS_EmptySet, FS_CardinalityType DEF Inv, Room, TypeOK
  <2>2. QED
    BY <2>1 DEF Full
<1>2. QED
  BY <1>1, Invariance, PTL

-----------------------------------------------------------------------------
(* Part 2: DeviceConfig.  First induction, and what the loop of Filter     *)
(* returns.                                                                *)

\* A set of numbers that is not empty has a least one.
LEMMA LeastNat ==
  ASSUME NEW T \in SUBSET Nat, T # {}
  PROVE  \E n \in T : \A m \in T : n <= m
<1>1. \E n \in T : \A m \in T : ~ (<<m, n>> \in OpToRel(<, Nat))
  BY NatLessThanWellFounded, WFMin
<1>2. OpToRel(<, Nat) = {ss \in Nat \X Nat : ss[1] < ss[2]}
  BY Zenon DEF OpToRel
<1>3. \E n \in T : \A m \in T : ~ (<<m, n>> \in {ss \in Nat \X Nat : ss[1] < ss[2]})
  BY <1>1, <1>2, Zenon
<1>4. PICK n \in T : \A m \in T : ~ (<<m, n>> \in {ss \in Nat \X Nat : ss[1] < ss[2]})
  BY <1>3
<1>5. ASSUME NEW m \in T
      PROVE  n <= m
  <2>1. <<m, n>> \in Nat \X Nat
    OBVIOUS
  <2>2. ~ (m < n)
    BY <1>4, <2>1
  <2>3. QED
    BY <2>2
<1>6. QED
  BY <1>5

\* Induction: over the set of the numbers for which something holds.
LEMMA Induct ==
  ASSUME NEW S, 0 \in S, \A n \in Nat : n \in S => n + 1 \in S
  PROVE  Nat \subseteq S
<1>1. SUFFICES ASSUME Nat \ S # {} PROVE FALSE
  OBVIOUS
<1>2. PICK n \in Nat \ S : \A m \in Nat \ S : n <= m
  <2>1. Nat \ S \in SUBSET Nat
    OBVIOUS
  <2>2. QED BY <1>1, <2>1, LeastNat
<1>3. n # 0 /\ n - 1 \in Nat /\ n - 1 < n
  BY <1>2
<1>4. n - 1 \in S
  BY <1>2, <1>3
<1>5. QED
  BY <1>3, <1>4

\* The equation of the loop of Filter, for its first n rounds.
Rounds(list, S, n, g) ==
  g = [k \in 0..n |-> IF k = 0 THEN <<>>
                      ELSE IF list[k] \in S THEN Append(g[k - 1], list[k]) ELSE g[k - 1]]

\* The recursion of Filter has a solution for every number of rounds.
LEMMA RoundsExist ==
  ASSUME NEW list, NEW S
  PROVE  \A n \in Nat : \E g : Rounds(list, S, n, g)
<1> DEFINE T == {n \in Nat : \E g : Rounds(list, S, n, g)}
<1>1. 0 \in T
  <2> DEFINE g == [k \in 0..0 |-> <<>>]
  <2>1. Rounds(list, S, 0, g)
    BY DEF Rounds
  <2>2. QED
    BY <2>1
<1>2. ASSUME NEW n \in Nat, n \in T
      PROVE  n + 1 \in T
  <2>1. PICK g : Rounds(list, S, n, g)
    BY <1>2
  <2> DEFINE next == IF list[n + 1] \in S THEN Append(g[n], list[n + 1]) ELSE g[n]
             h == [k \in 0..(n + 1) |-> IF k = n + 1 THEN next ELSE g[k]]
  <2>2. \A k \in 0..n : h[k] = g[k]
    OBVIOUS
  <2>3. ASSUME NEW k \in 0..(n + 1)
        PROVE  h[k] = IF k = 0 THEN <<>>
                      ELSE IF list[k] \in S THEN Append(h[k - 1], list[k]) ELSE h[k - 1]
    <3>1. CASE k = n + 1
      <4>1. h[k] = next /\ k # 0 /\ k - 1 = n /\ h[n] = g[n]
        BY <3>1, <2>2
      <4>2. QED
        BY <4>1, <3>1
    <3>2. CASE k # n + 1
      <4>1. k \in 0..n /\ h[k] = g[k] /\ (k # 0 => h[k - 1] = g[k - 1])
        BY <3>2, <2>2
      <4>2. g[k] = IF k = 0 THEN <<>>
                   ELSE IF list[k] \in S THEN Append(g[k - 1], list[k]) ELSE g[k - 1]
        BY <4>1, <2>1 DEF Rounds
      <4>3. QED
        BY <4>1, <4>2
    <3>3. QED
      BY <3>1, <3>2
  <2>4. h = [k \in 0..(n + 1) |-> h[k]]
    OBVIOUS
  <2>5. Rounds(list, S, n + 1, h)
    <3> HIDE DEF h
    <3>1. h = [k \in 0..(n + 1) |-> IF k = 0 THEN <<>>
                      ELSE IF list[k] \in S THEN Append(h[k - 1], list[k]) ELSE h[k - 1]]
      BY <2>3, <2>4
    <3>2. QED
      BY <3>1 DEF Rounds
  <2>6. QED
    BY <2>5
<1>3. Nat \subseteq T
  <2> HIDE DEF T
  <2>1. QED
    BY <1>1, <1>2, Induct
<1>4. QED
  BY <1>3

\* Filter returns what its last round returns.
LEMMA FilterRounds ==
  ASSUME NEW list, NEW S, Len(list) \in Nat
  PROVE  \E g : Rounds(list, S, Len(list), g) /\ Filter(list, S) = g[Len(list)]
<1> DEFINE f == CHOOSE g : Rounds(list, S, Len(list), g)
<1>1. Rounds(list, S, Len(list), f)
  BY RoundsExist
<1>2. Filter(list, S) = f[Len(list)]
  BY DEF Filter, Rounds
<1>3. QED
  BY <1>1, <1>2

\* s has the members of S among the first n of the list, and h their places.
Kept(list, S, n, s, h) ==
  /\ h \in [1..Len(s) -> 1..n]
  /\ \A k \in 1..Len(s) : s[k] = list[h[k]] /\ s[k] \in S
  /\ \A k, l \in 1..Len(s) : k < l => h[k] < h[l]
  /\ \A i \in 1..n : list[i] \in S => \E k \in 1..Len(s) : h[k] = i

\* One more round.
LEMMA KeptRound ==
  ASSUME NEW V, NEW list \in Seq(V), NEW S, NEW n \in Nat, n < Len(list),
         NEW s \in Seq(V), NEW h, Kept(list, S, n, s, h),
         NEW t, t = IF list[n + 1] \in S THEN Append(s, list[n + 1]) ELSE s
  PROVE  t \in Seq(V) /\ \E p : Kept(list, S, n + 1, t, p)
<1>0. list[n + 1] \in V
  OBVIOUS
<1>1. CASE list[n + 1] \notin S
  <2>1. t = s
    BY <1>1
  <2>2. Kept(list, S, n + 1, s, h)
    BY <1>1 DEF Kept
  <2>3. QED
    BY <2>1, <2>2
<1>2. CASE list[n + 1] \in S
  <2> DEFINE m == Len(s)
             p == [k \in 1..(m + 1) |-> IF k = m + 1 THEN n + 1 ELSE h[k]]
  <2>1. /\ t \in Seq(V) /\ Len(t) = m + 1 /\ m \in Nat
        /\ t[m + 1] = list[n + 1]
        /\ \A k \in 1..m : t[k] = s[k]
    BY <1>0, <1>2
  <2>2. h \in [1..m -> 1..n]
    BY DEF Kept
  <2>3. /\ p \in [1..(m + 1) -> 1..(n + 1)]
        /\ p[m + 1] = n + 1
        /\ \A k \in 1..m : p[k] = h[k] /\ p[k] \in 1..n
    <3> HIDE DEF m
    <3>1. \A k \in 1..m : k \in 1..(m + 1) /\ k # m + 1 /\ h[k] \in 1..n
      BY <2>1, <2>2
    <3>2. n + 1 \in 1..(n + 1) /\ m + 1 \in 1..(m + 1) /\ \A i \in 1..n : i \in 1..(n + 1)
      BY <2>1
    <3>3. \A k \in 1..(m + 1) : k = m + 1 \/ k \in 1..m
      BY <2>1
    <3>4. QED
      BY <3>1, <3>2, <3>3
  <2> HIDE DEF m, p
  <2>4. \A k \in 1..(m + 1) : t[k] = list[p[k]] /\ t[k] \in S
    <3>1. \A k \in 1..m : s[k] = list[h[k]] /\ s[k] \in S
      BY DEF Kept, m
    <3>2. \A k \in 1..(m + 1) : k = m + 1 \/ k \in 1..m
      BY <2>1
    <3>3. QED
      BY <3>1, <3>2, <2>1, <2>3, <1>2
  <2>5. \A k, l \in 1..(m + 1) : k < l => p[k] < p[l]
    <3>1. \A k, l \in 1..m : k < l => h[k] < h[l]
      BY DEF Kept, m
    <3>2. SUFFICES ASSUME NEW k \in 1..(m + 1), NEW l \in 1..(m + 1), k < l
                   PROVE  p[k] < p[l]
      OBVIOUS
    <3>3. k \in 1..m
      BY <3>2, <2>1
    <3>4. CASE l = m + 1
      BY <3>3, <3>4, <2>3
    <3>5. CASE l \in 1..m
      BY <3>1, <3>2, <3>3, <3>5, <2>3
    <3>6. QED
      BY <3>4, <3>5, <2>1
  <2>6. \A i \in 1..(n + 1) : list[i] \in S => \E k \in 1..(m + 1) : p[k] = i
    <3>1. \A i \in 1..n : list[i] \in S => \E k \in 1..m : h[k] = i
      BY DEF Kept, m
    <3>2. SUFFICES ASSUME NEW i \in 1..(n + 1), list[i] \in S
                   PROVE  \E k \in 1..(m + 1) : p[k] = i
      OBVIOUS
    <3>3. CASE i = n + 1
      BY <3>3, <2>3, <2>1
    <3>4. CASE i \in 1..n
      <4>1. PICK k \in 1..m : h[k] = i
        BY <3>1, <3>2, <3>4
      <4>2. p[k] = i
        BY <4>1, <2>3
      <4>3. k \in 1..(m + 1)
        BY <2>1
      <4>4. QED
        BY <4>2, <4>3
    <3>5. QED
      BY <3>3, <3>4
  <2>7. Kept(list, S, n + 1, t, p)
    BY <2>1, <2>3, <2>4, <2>5, <2>6 DEF Kept
  <2>8. QED
    BY <2>1, <2>7
<1>3. QED
  BY <1>1, <1>2

\* What Filter returns: the members of S in the list, in the order of the list.
LEMMA FilterKept ==
  ASSUME NEW V, NEW list \in Seq(V), NEW S
  PROVE  /\ Filter(list, S) \in Seq(V)
         /\ \E h : Kept(list, S, Len(list), Filter(list, S), h)
<1>1. PICK g : Rounds(list, S, Len(list), g) /\ Filter(list, S) = g[Len(list)]
  BY FilterRounds
<1> DEFINE Good(n) == g[n] \in Seq(V) /\ \E h : Kept(list, S, n, g[n], h)
           T == {n \in Nat : n <= Len(list) => Good(n)}
<1>2. \A k \in 0..Len(list) :
        g[k] = IF k = 0 THEN <<>>
               ELSE IF list[k] \in S THEN Append(g[k - 1], list[k]) ELSE g[k - 1]
  BY <1>1 DEF Rounds
<1>3. 0 \in T
  <2>1. g[0] = <<>>
    BY <1>2
  <2>2. Kept(list, S, 0, <<>>, <<>>)
    BY DEF Kept
  <2>3. <<>> \in Seq(V)
    OBVIOUS
  <2>4. Good(0)
    BY <2>1, <2>2, <2>3
  <2>5. QED
    BY <2>4
<1>4. ASSUME NEW n \in Nat, n \in T
      PROVE  n + 1 \in T
  <2>1. SUFFICES ASSUME n + 1 <= Len(list)
                 PROVE  Good(n + 1)
    OBVIOUS
  <2>2. n < Len(list) /\ n + 1 \in 0..Len(list) /\ n + 1 # 0 /\ (n + 1) - 1 = n
    BY <2>1
  <2>3. g[n + 1] = IF list[n + 1] \in S THEN Append(g[n], list[n + 1]) ELSE g[n]
    BY <1>2, <2>2
  <2>4. g[n] \in Seq(V)
    BY <1>4, <2>2
  <2>5. PICK h : Kept(list, S, n, g[n], h)
    BY <1>4, <2>2
  <2>6. QED
    BY <2>2, <2>3, <2>4, <2>5, KeptRound
<1>5. Nat \subseteq T
  <2> HIDE DEF T
  <2>1. QED
    BY <1>3, <1>4, Induct
<1>6. Good(Len(list))
  BY <1>5
<1>7. QED
  BY <1>1, <1>6

\* s has the members of S that are at most n, in increasing order.
Ascends(s, S, n) ==
  /\ s \in Seq(1..n)
  /\ \A k \in 1..Len(s) : s[k] \in S /\ s[k] \in 1..n
  /\ \A k, l \in 1..Len(s) : k < l => s[k] < s[l]
  /\ \A i \in 1..n : i \in S => \E k \in 1..Len(s) : s[k] = i

\* From the list of all numbers up to n, Filter makes the sorted list of S.
LEMMA FilterAscends ==
  ASSUME NEW n \in Nat, NEW S
  PROVE  Ascends(Filter(UpTo(n), S), S, n)
<1> DEFINE u == UpTo(n)
           s == Filter(u, S)
<1>1. u \in Seq(1..n) /\ Len(u) = n /\ \A i \in 1..n : u[i] = i
  BY DEF UpTo
<1> HIDE DEF u
<1>2. s \in Seq(1..n) /\ \E h : Kept(u, S, Len(u), s, h)
  BY <1>1, FilterKept
<1> HIDE DEF s
<1>3. PICK h : Kept(u, S, n, s, h)
  BY <1>1, <1>2
<1>4. h \in [1..Len(s) -> 1..n]
  BY <1>3 DEF Kept
<1>5. \A k \in 1..Len(s) : s[k] = h[k] /\ s[k] \in S /\ s[k] \in 1..n
  BY <1>1, <1>3, <1>4 DEF Kept
<1>6. \A k, l \in 1..Len(s) : k < l => s[k] < s[l]
  BY <1>3, <1>5 DEF Kept
<1>7. \A i \in 1..n : i \in S => \E k \in 1..Len(s) : s[k] = i
  BY <1>1, <1>3, <1>5 DEF Kept
<1>8. QED
  BY <1>2, <1>5, <1>6, <1>7 DEF Ascends, s, u

-----------------------------------------------------------------------------
(* The list of configs, and the config of every result.                    *)

\* s has the entries of S, a stronger one after a weaker one.
Ranked(s, S) ==
  /\ s \in Seq(1..Len(entries))
  /\ \A k \in 1..Len(s) : s[k] \in S /\ s[k] \in 1..Len(entries)
  /\ \A k, l \in 1..Len(s) : k < l => Stronger(s[l], s[k])
  /\ \A i \in 1..Len(entries) : i \in S => \E k \in 1..Len(s) : s[k] = i

\* The class before the claim, each in the API's order, is by precedence.
LEMMA CandidatesRanked ==
  ASSUME entries \in Seq(Entries)
  PROVE  Ranked(Candidates, 1..Len(entries))
<1> DEFINE n == Len(entries)
           A == {i \in DOMAIN entries : entries[i].source = "class"}
           B == {i \in DOMAIN entries : entries[i].source = "claim"}
           a == OfSource("class")
           b == OfSource("claim")
           s == Candidates
<1>1. n \in Nat /\ DOMAIN entries = 1..n /\ \A i \in 1..n : entries[i] \in Entries
  OBVIOUS
<1>2. \A i \in 1..n : entries[i].source \in {"class", "claim"}
  BY <1>1, ConfigAssumption
<1> HIDE DEF n
<1>3. Ascends(a, A, n)
  BY <1>1, FilterAscends DEF OfSource, n
<1>4. Ascends(b, B, n)
  BY <1>1, FilterAscends DEF OfSource, n
<1>5. /\ a \in Seq(1..n) /\ b \in Seq(1..n)
      /\ \A k \in 1..Len(a) : entries[a[k]].source = "class" /\ a[k] \in 1..n
      /\ \A k \in 1..Len(b) : entries[b[k]].source = "claim" /\ b[k] \in 1..n
  BY <1>3, <1>4 DEF Ascends
<1>6. /\ \A i \in 1..n : entries[i].source = "class" => \E k \in 1..Len(a) : a[k] = i
      /\ \A i \in 1..n : entries[i].source = "claim" => \E k \in 1..Len(b) : b[k] = i
  BY <1>1, <1>3, <1>4 DEF Ascends
<1>7. /\ \A k, l \in 1..Len(a) : k < l => a[k] < a[l]
      /\ \A k, l \in 1..Len(b) : k < l => b[k] < b[l]
  BY <1>3, <1>4 DEF Ascends
<1> HIDE DEF a, b
<1>8. /\ s \in Seq(1..n)
      /\ Len(s) = Len(a) + Len(b)
      /\ \A k \in 1..Len(a) : s[k] = a[k]
      /\ \A k \in 1..Len(b) : s[Len(a) + k] = b[k]
  BY <1>5 DEF Candidates, a, b
<1>9. Len(a) \in Nat /\ Len(b) \in Nat
  BY <1>5
<1> HIDE DEF s
<1>10. \A k \in 1..Len(s) : k \in 1..Len(a) \/ (k - Len(a) \in 1..Len(b) /\ s[k] = b[k - Len(a)])
  <2>1. \A k \in 1..Len(s) : k \in 1..Len(a) \/ (k - Len(a) \in 1..Len(b) /\ k = Len(a) + (k - Len(a)))
    BY <1>8, <1>9
  <2>2. QED
    BY <2>1, <1>8
<1>11. ASSUME NEW k \in 1..Len(s), NEW l \in 1..Len(s), k < l
       PROVE  Stronger(s[l], s[k])
  <2>1. CASE l \in 1..Len(a)
    <3>1. k \in 1..Len(a)
      BY <2>1, <1>9, <1>11
    <3>2. s[l] = a[l] /\ s[k] = a[k] /\ a[k] < a[l]
      BY <2>1, <3>1, <1>7, <1>8, <1>11
    <3>3. a[k] \in 1..n /\ a[l] \in 1..n /\ entries[a[k]].source = "class" /\ entries[a[l]].source = "class"
      BY <2>1, <3>1, <1>5
    <3>4. QED
      BY <3>2, <3>3 DEF Stronger
  <2>2. CASE l \notin 1..Len(a)
    <3>1. l - Len(a) \in 1..Len(b) /\ s[l] = b[l - Len(a)]
      BY <2>2, <1>10
    <3>2. CASE k \in 1..Len(a)
      BY <3>1, <3>2, <1>5, <1>8 DEF Stronger, OfClaim
    <3>3. CASE k \notin 1..Len(a)
      <4>1. k - Len(a) \in 1..Len(b) /\ s[k] = b[k - Len(a)] /\ k - Len(a) < l - Len(a)
        BY <3>3, <1>9, <1>10, <1>11
      <4>2. b[k - Len(a)] < b[l - Len(a)]
        BY <4>1, <3>1, <1>7
      <4>3. s[k] \in 1..n /\ s[l] \in 1..n /\ entries[s[k]].source = "claim" /\ entries[s[l]].source = "claim"
        BY <4>1, <3>1, <1>5
      <4>4. QED
        BY <4>1, <4>2, <4>3, <3>1 DEF Stronger
    <3>4. QED
      BY <3>2, <3>3
  <2>3. QED
    BY <2>1, <2>2
<1>12. ASSUME NEW i \in 1..n
       PROVE  \E k \in 1..Len(s) : s[k] = i
  <2>1. CASE entries[i].source = "class"
    <3>1. PICK k \in 1..Len(a) : a[k] = i
      BY <2>1, <1>6
    <3>2. QED
      BY <3>1, <1>8, <1>9
  <2>2. CASE entries[i].source = "claim"
    <3>1. PICK k \in 1..Len(b) : b[k] = i
      BY <2>2, <1>6
    <3>2. Len(a) + k \in 1..Len(s) /\ s[Len(a) + k] = i
      BY <3>1, <1>8, <1>9
    <3>3. QED
      BY <3>2
  <2>3. QED
    BY <2>1, <2>2, <1>2
<1>13. \A k \in 1..Len(s) : s[k] \in 1..n
  BY <1>5, <1>8, <1>10
<1>14. QED
  BY <1>8, <1>11, <1>12, <1>13 DEF Ranked, s, n

\* The entries of the claim's driver, as GetOpaqueDeviceConfigs lists them.
Own == {i \in DOMAIN entries : entries[i].driver = claim.driver}

OwnList == Filter(Candidates, Own)

\* Leaving out the entries of other drivers keeps the order.
LEMMA OwnListRanked ==
  ASSUME entries \in Seq(Entries)
  PROVE  Ranked(OwnList, Own)
<1> DEFINE n == Len(entries)
           c == Candidates
           s == OwnList
<1>1. n \in Nat /\ DOMAIN entries = 1..n
  OBVIOUS
<1> HIDE DEF n, c, s
<1>2. Ranked(c, 1..n)
  BY CandidatesRanked DEF n, c
<1>3. c \in Seq(1..n)
  BY <1>2 DEF Ranked, n
<1>4. s \in Seq(1..n) /\ \E h : Kept(c, Own, Len(c), s, h)
  BY <1>3, FilterKept DEF s, OwnList, c
<1>5. PICK h : Kept(c, Own, Len(c), s, h)
  BY <1>4
<1>6. h \in [1..Len(s) -> 1..Len(c)] /\ \A k \in 1..Len(s) : s[k] = c[h[k]] /\ s[k] \in Own
  BY <1>5 DEF Kept
<1>7. ASSUME NEW k \in 1..Len(s), NEW l \in 1..Len(s), k < l
      PROVE  Stronger(s[l], s[k])
  <2>1. h[k] \in 1..Len(c) /\ h[l] \in 1..Len(c) /\ h[k] < h[l]
    BY <1>5, <1>6, <1>7 DEF Kept
  <2>2. Stronger(c[h[l]], c[h[k]])
    BY <2>1, <1>2 DEF Ranked
  <2>3. QED
    BY <2>2, <1>6
<1>8. ASSUME NEW i \in 1..n, i \in Own
      PROVE  \E k \in 1..Len(s) : s[k] = i
  <2>1. PICK j \in 1..Len(c) : c[j] = i
    BY <1>2 DEF Ranked, n
  <2>2. PICK k \in 1..Len(s) : h[k] = j
    BY <2>1, <1>5, <1>8 DEF Kept
  <2>3. QED
    BY <2>1, <2>2, <1>6
<1>9. QED
  <2>1. \A k \in 1..Len(s) : s[k] \in 1..n
    BY <1>2, <1>6 DEF Ranked, n
  <2>2. QED
    BY <2>1, <1>4, <1>6, <1>7, <1>8 DEF Ranked, n, s

\* The kinds of DefaultConfigs, and the default of a kind.
DefaultKinds ==
  IF claim.driver = "gpu"
  THEN IF "PassthroughSupport" \in gates
       THEN <<"VfioDeviceConfig", "MigDeviceConfig", "GpuConfig">>
       ELSE <<"MigDeviceConfig", "GpuConfig">>
  ELSE <<"ComputeDomainDaemonConfig", "ComputeDomainChannelConfig">>

DefaultOf(kind) ==
  IF kind = "VfioDeviceConfig" THEN DefaultVfio
  ELSE IF kind \in {"MigDeviceConfig", "GpuConfig"} THEN DefaultSharing(kind)
  ELSE [kind |-> kind, domain |-> ""]

LEMMA KindOfDefault ==
  \A kind : DefaultOf(kind).kind = kind
BY DEF DefaultOf, DefaultVfio, DefaultSharing

\* The defaults, in the order in which they are put before the entries.
LEMMA DefaultList ==
  /\ DefaultConfigs \in Seq({DefaultConfigs[k] : k \in 1..Len(DefaultKinds)})
  /\ Len(DefaultConfigs) = Len(DefaultKinds)
  /\ \A k \in 1..Len(DefaultKinds) : DefaultConfigs[k] = Default(DefaultOf(DefaultKinds[k]))
<1> DEFINE D(kind) == Default(DefaultOf(kind))
<1>1. CASE claim.driver = "gpu" /\ "PassthroughSupport" \in gates
  <2>1. DefaultKinds = <<"VfioDeviceConfig", "MigDeviceConfig", "GpuConfig">>
    BY <1>1 DEF DefaultKinds
  <2>2. DefaultConfigs = <<D("VfioDeviceConfig"), D("MigDeviceConfig"), D("GpuConfig")>>
    BY <1>1 DEF DefaultConfigs, DefaultOf
  <2> HIDE DEF D
  <2>3. QED
    BY <2>1, <2>2 DEF D
<1>2. CASE claim.driver = "gpu" /\ "PassthroughSupport" \notin gates
  <2>1. DefaultKinds = <<"MigDeviceConfig", "GpuConfig">>
    BY <1>2 DEF DefaultKinds
  <2>2. DefaultConfigs = <<D("MigDeviceConfig"), D("GpuConfig")>>
    BY <1>2 DEF DefaultConfigs, DefaultOf
  <2> HIDE DEF D
  <2>3. QED
    BY <2>1, <2>2 DEF D
<1>3. CASE claim.driver # "gpu"
  <2>1. DefaultKinds = <<"ComputeDomainDaemonConfig", "ComputeDomainChannelConfig">>
    BY <1>3 DEF DefaultKinds
  <2>2. DefaultConfigs = <<D("ComputeDomainDaemonConfig"), D("ComputeDomainChannelConfig")>>
    BY <1>3 DEF DefaultConfigs, DefaultOf
  <2> HIDE DEF D
  <2>3. QED
    BY <2>1, <2>2 DEF D
<1>4. QED
  BY <1>1, <1>2, <1>3

\* They are of the driver's kinds, one for each type that is advertised.
LEMMA DefaultKindsList ==
  /\ Len(DefaultKinds) \in Nat
  /\ \A k \in 1..Len(DefaultKinds) : DefaultKinds[k] \in Recognized(claim.driver)
  /\ \A k, l \in 1..Len(DefaultKinds) : DefaultKinds[k] = DefaultKinds[l] => k = l
  /\ \A t \in TypesOf(claim.driver) : (t = "vfio" => "PassthroughSupport" \in gates) =>
       \E k \in 1..Len(DefaultKinds) : TypeOf[DefaultKinds[k]] = t
<1>1. CASE claim.driver = "gpu" /\ "PassthroughSupport" \in gates
  <2>1. DefaultKinds = <<"VfioDeviceConfig", "MigDeviceConfig", "GpuConfig">>
    BY <1>1 DEF DefaultKinds
  <2>2. TypesOf(claim.driver) = {"gpu", "mig", "vfio"}
    BY <1>1 DEF TypesOf
  <2>3. Recognized(claim.driver) = {"GpuConfig", "MigDeviceConfig", "VfioDeviceConfig"}
    BY <1>1 DEF Recognized
  <2>4. QED
    BY <2>1, <2>2, <2>3 DEF TypeOf
<1>2. CASE claim.driver = "gpu" /\ "PassthroughSupport" \notin gates
  <2>1. DefaultKinds = <<"MigDeviceConfig", "GpuConfig">>
    BY <1>2 DEF DefaultKinds
  <2>2. TypesOf(claim.driver) = {"gpu", "mig", "vfio"}
    BY <1>2 DEF TypesOf
  <2>3. Recognized(claim.driver) = {"GpuConfig", "MigDeviceConfig", "VfioDeviceConfig"}
    BY <1>2 DEF Recognized
  <2>4. QED
    BY <1>2, <2>1, <2>2, <2>3 DEF TypeOf
<1>3. CASE claim.driver # "gpu"
  <2>1. DefaultKinds = <<"ComputeDomainDaemonConfig", "ComputeDomainChannelConfig">>
    BY <1>3 DEF DefaultKinds
  <2>2. TypesOf(claim.driver) = {"channel", "daemon"}
    BY <1>3 DEF TypesOf
  <2>3. Recognized(claim.driver) = {"ComputeDomainChannelConfig", "ComputeDomainDaemonConfig"}
    BY <1>3 DEF Recognized
  <2>4. QED
    BY <2>1, <2>2, <2>3 DEF TypeOf
<1>4. QED
  BY <1>1, <1>2, <1>3

\* Concatenation, over any lists.
LEMMA ConcatList ==
  ASSUME NEW V, NEW W, NEW a \in Seq(V), NEW b \in Seq(W)
  PROVE  /\ Len(a \o b) = Len(a) + Len(b)
         /\ DOMAIN (a \o b) = 1..(Len(a) + Len(b))
         /\ \A k \in 1..Len(a) : (a \o b)[k] = a[k]
         /\ \A k \in 1..Len(b) : (a \o b)[Len(a) + k] = b[k]
<1>1. a \in Seq(V \cup W) /\ b \in Seq(V \cup W)
  OBVIOUS
<1>2. QED
  BY <1>1

\* The list that is scanned: the defaults, then the entries of the driver.
LEMMA ConfigsList ==
  ASSUME entries \in Seq(Entries)
  PROVE  LET d == Len(DefaultKinds)
             m == Len(OwnList)
         IN /\ d \in Nat /\ m \in Nat
            /\ DOMAIN Configs = 1..(d + m)
            /\ \A k \in 1..d : Configs[k] = Default(DefaultOf(DefaultKinds[k]))
            /\ \A k \in 1..m : Configs[d + k] = OpaqueConfig(OwnList[k])
<1> DEFINE s == OwnList
           m == Len(s)
           d == Len(DefaultKinds)
           g == GetOpaqueDeviceConfigs
           W == {OpaqueConfig(s[k]) : k \in 1..m}
           D == DefaultConfigs
           V == {D[k] : k \in 1..Len(DefaultKinds)}
<1>1. s \in Seq(1..Len(entries))
  BY OwnListRanked DEF Ranked
<1>2. m \in Nat /\ DOMAIN s = 1..m
  BY <1>1
<1>3. g = [k \in 1..m |-> OpaqueConfig(s[k])]
  BY <1>2 DEF GetOpaqueDeviceConfigs, OwnList, Own
<1> HIDE DEF g, s
<1>4. g \in Seq(W) /\ Len(g) = m /\ \A k \in 1..m : g[k] = OpaqueConfig(s[k])
  <2>1. g \in [1..m -> W]
    BY <1>3
  <2>2. QED
    BY <1>2, <1>3, <2>1
<1>5. D \in Seq(V) /\ Len(D) = d
  BY DefaultList
<1> HIDE DEF V, W, D, d, m
<1>6. /\ DOMAIN (D \o g) = 1..(Len(D) + Len(g))
      /\ \A k \in 1..Len(D) : (D \o g)[k] = D[k]
      /\ \A k \in 1..Len(g) : (D \o g)[Len(D) + k] = g[k]
  <2>1. g \in Seq(W)
    BY <1>4
  <2>2. D \in Seq(V)
    BY <1>5
  <2>3. QED
    BY <2>1, <2>2, ConcatList
<1>7. Configs = D \o g
  BY DEF Configs, D, g
<1>8. /\ DOMAIN Configs = 1..(d + m)
      /\ \A k \in 1..d : Configs[k] = D[k]
      /\ \A k \in 1..m : Configs[d + k] = OpaqueConfig(s[k])
  BY <1>4, <1>5, <1>6, <1>7
<1>9. QED
  BY <1>2, <1>8, DefaultList, DefaultKindsList DEF s, D, d, m

\* A set of positions that is not empty has a last one.
LEMMA MaxOfSome ==
  ASSUME NEW n \in Nat, NEW T \in SUBSET (1..n), T # {}
  PROVE  Max(T) \in T /\ \A k \in T : k <= Max(T)
<1> DEFINE U == {n - k : k \in T}
<1>1. U \in SUBSET Nat /\ U # {}
  <2>1. \A k \in T : k \in 1..n
    OBVIOUS
  <2>2. \A k \in T : n - k \in Nat
    BY <2>1
  <2>3. QED
    BY <2>2
<1>2. PICK u \in U : \A v \in U : u <= v
  <2> HIDE DEF U
  <2>1. QED
    BY <1>1, LeastNat
<1>3. PICK k \in T : u = n - k
  BY <1>2
<1>4. \A l \in T : l \in 1..n /\ n - l \in U /\ k \in 1..n
  OBVIOUS
<1>5. \A l \in T : k >= l
  <2> HIDE DEF U
  <2>1. \A l \in T : n - k <= n - l /\ l \in Int /\ k \in Int
    BY <1>2, <1>3, <1>4
  <2>2. QED
    BY <2>1
<1>6. Max(T) \in T /\ \A l \in T : Max(T) >= l
  BY <1>5, Zenon DEF Max
<1>7. QED
  BY <1>6

\* The state a claim is prepared in.
Submitted ==
  /\ entries \in Seq(Entries)
  /\ claim \in Allocations
  /\ HasVfio(claim) => "PassthroughSupport" \in gates

\* What the backward scan finds for a result is the last match of the list.
LEMMA ScanFindsLast ==
  ASSUME Submitted, NEW r \in DOMAIN Selection
  PROVE  \E k \in DOMAIN Configs :
           /\ Selection[r] = Configs[k]
           /\ Matches(Configs[k], r)
           /\ \A l \in DOMAIN Configs : Matches(Configs[l], r) => l <= k
<1> DEFINE L == Configs
           T == Hits(L, r)
           n == Len(DefaultKinds) + Len(OwnList)
<1>1. n \in Nat /\ DOMAIN L = 1..n
  BY ConfigsList DEF Submitted
<1>2. T \in SUBSET (1..n)
  BY <1>1 DEF Hits
<1>3. T # {} /\ Selection[r] = L[Max(T)]
  BY DEF Selection
<1> HIDE DEF T, n, L
<1>4. Max(T) \in T /\ \A l \in T : l <= Max(T)
  BY <1>1, <1>2, <1>3, MaxOfSome
<1>5. \A l : l \in T <=> l \in DOMAIN L /\ Matches(L[l], r)
  BY DEF T, Hits
<1>6. QED
  BY <1>3, <1>4, <1>5 DEF L

\* A default for each type: every result has a config.
LEMMA EveryResultSelected ==
  ASSUME Submitted
  PROVE  DOMAIN Selection = Results
<1>1. DOMAIN Selection = {x \in Results : Hits(Configs, x) # {}}
  BY DEF Selection
<1>2. SUFFICES ASSUME NEW r \in Results
               PROVE  Hits(Configs, r) # {}
  BY <1>1
<1>3. r \in claim.results /\ r.driver = claim.driver /\ r.type \in TypesOf(claim.driver)
  BY ConfigAssumption DEF Results, Submitted
<1>4. r.type = "vfio" => "PassthroughSupport" \in gates
  BY <1>3 DEF Submitted, HasVfio
<1>5. PICK k \in 1..Len(DefaultKinds) : TypeOf[DefaultKinds[k]] = r.type
  BY <1>3, <1>4, DefaultKindsList
<1>6. k \in DOMAIN Configs /\ Configs[k] = Default(DefaultOf(DefaultKinds[k]))
  BY ConfigsList DEF Submitted
<1>7. Configs[k].requests = {} /\ Configs[k].config.kind = DefaultKinds[k]
  BY <1>6, KindOfDefault DEF Default
<1>8. Matches(Configs[k], r)
  BY <1>5, <1>7 DEF Matches, Mismatch
<1>9. QED
  BY <1>6, <1>8 DEF Hits

\* The plugin accepts the configs of the claim.
Accepted ==
  /\ ConfigsReadable
  /\ ~ SelectionFails(Selection)
  /\ Verdicts(Selection) \subseteq {"ok"}

\* In an accepted claim each result has a config of the kind for its type.
LEMMA AcceptedKinds ==
  ASSUME Submitted, Accepted, NEW r \in DOMAIN Selection
  PROVE  /\ Prepared(Selection, Selection[r]) = "ok"
         /\ Selection[r].config.kind \in Recognized(claim.driver)
         /\ TypeOf[Selection[r].config.kind] = r.type
<1>1. Prepared(Selection, Selection[r]) = "ok"
  BY DEF Accepted, Verdicts
<1>2. Selection[r].config.kind \in Recognized(claim.driver)
  BY <1>1 DEF Prepared
<1>3. ~ Mismatch(Selection[r], r)
  BY DEF Accepted, SelectionFails
<1>4. QED
  BY <1>1, <1>2, <1>3 DEF Mismatch

\* Where a config of the list comes from.
LEMMA Origins ==
  ASSUME Submitted, NEW k \in DOMAIN Configs
  PROVE  \/ /\ k \in 1..Len(DefaultKinds)
            /\ Configs[k] = Default(DefaultOf(DefaultKinds[k]))
         \/ \E j \in 1..Len(OwnList) :
              /\ k = Len(DefaultKinds) + j
              /\ Configs[k] = OpaqueConfig(OwnList[j])
              /\ OwnList[j] \in Own
              /\ OwnList[j] \in 1..Len(entries)
<1> DEFINE d == Len(DefaultKinds)
           m == Len(OwnList)
<1>1. /\ d \in Nat /\ m \in Nat
      /\ DOMAIN Configs = 1..(d + m)
      /\ \A l \in 1..d : Configs[l] = Default(DefaultOf(DefaultKinds[l]))
      /\ \A l \in 1..m : Configs[d + l] = OpaqueConfig(OwnList[l])
  BY ConfigsList DEF Submitted
<1>2. \A j \in 1..m : OwnList[j] \in Own /\ OwnList[j] \in 1..Len(entries)
  BY OwnListRanked DEF Ranked, Submitted
<1> HIDE DEF d, m
<1>3. CASE k \in 1..d
  BY <1>1, <1>3 DEF d
<1>4. CASE k \notin 1..d
  <2>1. k - d \in 1..m /\ k = d + (k - d)
    BY <1>1, <1>4
  <2>2. QED
    BY <2>1, <1>1, <1>2 DEF d, m
<1>5. QED
  BY <1>3, <1>4

\* What is meant for a result is in the list, and matches it.
LEMMA MeantMatches ==
  ASSUME Submitted, ConfigsReadable, NEW r \in Results,
         NEW i \in DOMAIN entries, MeantFor(i, r)
  PROVE  \E j \in 1..Len(OwnList) :
           /\ OwnList[j] = i
           /\ Len(DefaultKinds) + j \in DOMAIN Configs
           /\ Matches(Configs[Len(DefaultKinds) + j], r)
<1>1. i \in 1..Len(entries) /\ i \in Own
  BY DEF MeantFor, Own, Submitted
<1>2. PICK j \in 1..Len(OwnList) : OwnList[j] = i
  BY <1>1, OwnListRanked DEF Ranked, Submitted
<1>3. /\ Len(DefaultKinds) + j \in DOMAIN Configs
      /\ Configs[Len(DefaultKinds) + j] = OpaqueConfig(i)
  BY <1>2, ConfigsList DEF Submitted
<1>4. Matches(OpaqueConfig(i), r)
  BY DEF Matches, MeantFor, Mismatch, OpaqueConfig
<1>5. QED
  BY <1>2, <1>3, <1>4

\* The order of the list is the order of precedence.
LEMMA StrongestSelected ==
  ASSUME Submitted, Accepted, NEW r \in Results
  PROVE  LET c == Selection[r]
             meant == {i \in DOMAIN entries : MeantFor(i, r)}
         IN IF meant = {} THEN c.from = 0
            ELSE c.from \in meant /\ \A i \in meant \ {c.from} : Stronger(c.from, i)
<1> DEFINE c == Selection[r]
           d == Len(DefaultKinds)
           m == Len(OwnList)
           meant == {i \in DOMAIN entries : MeantFor(i, r)}
<1>1. r \in DOMAIN Selection
  BY EveryResultSelected
<1>2. PICK k \in DOMAIN Configs :
        /\ c = Configs[k]
        /\ Matches(Configs[k], r)
        /\ \A l \in DOMAIN Configs : Matches(Configs[l], r) => l <= k
  BY <1>1, ScanFindsLast
<1>3. c.config.kind \in Recognized(claim.driver) /\ TypeOf[c.config.kind] = r.type
  BY <1>1, AcceptedKinds
<1>4. d \in Nat /\ m \in Nat /\ ConfigsReadable
  BY ConfigsList DEF Accepted, Submitted
<1> HIDE DEF c, d, m
<1>5. ASSUME NEW i \in meant
      PROVE  \E j \in 1..m : OwnList[j] = i /\ d + j <= k
  <2>1. PICK j \in 1..m : /\ OwnList[j] = i
                          /\ d + j \in DOMAIN Configs
                          /\ Matches(Configs[d + j], r)
    BY <1>4, MeantMatches DEF d, m
  <2>2. QED
    BY <2>1, <1>2
<1>6. CASE k \in 1..d /\ Configs[k] = Default(DefaultOf(DefaultKinds[k]))
  <2>1. c.from = 0
    BY <1>2, <1>6 DEF Default
  <2>2. meant = {}
    <3>1. SUFFICES ASSUME NEW i \in meant PROVE FALSE
      OBVIOUS
    <3>2. PICK j \in 1..m : d + j <= k
      BY <1>5
    <3>3. QED
      BY <3>2, <1>4, <1>6
  <2>3. QED
    BY <2>1, <2>2 DEF c
<1>7. ASSUME NEW j \in 1..m, k = d + j, Configs[k] = OpaqueConfig(OwnList[j]),
             OwnList[j] \in Own, OwnList[j] \in 1..Len(entries)
      PROVE  c.from \in meant /\ \A i \in meant \ {c.from} : Stronger(c.from, i)
  <2>1. /\ c.from = OwnList[j]
        /\ c.requests = entries[c.from].requests
        /\ c.config = entries[c.from].config
    BY <1>2, <1>7 DEF OpaqueConfig
  <2>2. c.from \in DOMAIN entries /\ entries[c.from].driver = claim.driver
    BY <2>1, <1>7 DEF Own
  <2>3. r.request \in c.requests \/ c.requests = {}
    BY <1>2 DEF Matches
  <2>4. MeantFor(c.from, r)
    BY <2>1, <2>2, <2>3, <1>3 DEF MeantFor
  <2>5. ASSUME NEW i \in meant \ {c.from}
        PROVE  Stronger(c.from, i)
    <3>1. PICK l \in 1..m : OwnList[l] = i /\ d + l <= k
      BY <1>5
    <3>2. l < j
      BY <3>1, <1>4, <1>7, <2>1
    <3>3. Stronger(OwnList[j], OwnList[l])
      BY <3>2, OwnListRanked DEF Ranked, Submitted, m
    <3>4. QED
      BY <3>1, <3>3, <2>1
  <2>6. QED
    BY <2>2, <2>4, <2>5
<1>8. QED
  <2>1. \/ k \in 1..d /\ Configs[k] = Default(DefaultOf(DefaultKinds[k]))
        \/ \E j \in 1..m : /\ k = d + j
                           /\ Configs[k] = OpaqueConfig(OwnList[j])
                           /\ OwnList[j] \in Own
                           /\ OwnList[j] \in 1..Len(entries)
    BY Origins DEF d, m
  <2>2. (c.from \in meant /\ \A i \in meant \ {c.from} : Stronger(c.from, i)) =>
          IF meant = {} THEN c.from = 0
          ELSE c.from \in meant /\ \A i \in meant \ {c.from} : Stronger(c.from, i)
    OBVIOUS
  <2>3. QED
    BY <1>6, <1>7, <2>1, <2>2 DEF c

-----------------------------------------------------------------------------
(* The review and the plugin judge alike.                                  *)

\* No component starts with both gates.
LEMMA MpsWithoutDynamicMig ==
  ASSUME ValidateFeatureGates(gates), "MPSSupport" \in gates
  PROVE  "DynamicMIG" \notin gates
<1>1. {"DynamicMIG", "MPSSupport"} \in Exclusive
  BY DEF Exclusive
<1>2. QED
  BY <1>1 DEF ValidateFeatureGates

\* Normalisation keeps the kind, and the settings of a chosen strategy.
LEMMA NormalizedSharing ==
  ASSUME NEW c, c.kind \in {"GpuConfig", "MigDeviceConfig"}, IsSharing(c)
  PROVE  LET n == Normalize(c, gates)
         IN /\ n.kind = c.kind
            /\ n.strategy = DefaultTo(c.strategy, gates)
            /\ n.mps = MpsOf(c, n.strategy, gates)
            /\ n.strategy = "MPS" => n.ts = c.ts
<1>1. c = [kind |-> c.kind, strategy |-> c.strategy, ts |-> c.ts, mps |-> c.mps]
  BY DEF IsSharing
<1>2. CASE c.kind = "GpuConfig"
  <2>1. Normalize(c, gates) = NormalizeGpu(c, gates)
    BY <1>2 DEF Normalize
  <2>2. QED
    BY <1>1, <1>2, <2>1 DEF NormalizeGpu
<1>3. CASE c.kind = "MigDeviceConfig"
  <2>1. Normalize(c, gates) = NormalizeMig(c, gates)
    BY <1>3 DEF Normalize
  <2>2. QED
    BY <1>1, <1>3, <2>1 DEF NormalizeMig
<1>4. QED
  BY <1>2, <1>3

\* What passes the review, and is plain, can be applied to any devices.
LEMMA PlainApplies ==
  ASSUME NEW c, c.kind \in {"GpuConfig", "MigDeviceConfig"}, IsSharing(c),
         PlainSharing(c), ValidateFeatureGates(gates), NEW uuids
  PROVE  ApplyConfig(Normalize(c, gates), uuids) = "ok"
<1> DEFINE n == Normalize(c, gates)
<1>1. /\ n.kind = c.kind
      /\ n.strategy = DefaultTo(c.strategy, gates)
      /\ n.mps = MpsOf(c, n.strategy, gates)
      /\ n.strategy = "MPS" => n.ts = c.ts
  BY NormalizedSharing
<1> HIDE DEF n
<1>2. ApplyConfig(n, uuids) = ApplySharing(n, uuids)
  BY <1>1 DEF ApplyConfig
<1>3. CASE n.strategy = "TimeSlicing" /\ "TimeSlicingSettings" \in gates
  <2>1. c.mps = Nil
    BY <1>1, <1>3 DEF DefaultTo, IsSharing, PlainSharing
  <2>2. n.mps = Nil
    BY <2>1, <1>1, <1>3 DEF MpsOf
  <2>3. QED
    BY <2>2, <1>2, <1>3 DEF ApplySharing, n
<1>4. CASE n.strategy = "MPS" /\ "MPSSupport" \in gates
  <2>1. c.strategy = "MPS"
    BY <1>1, <1>4 DEF DefaultTo
  <2>2. c.ts = Nil /\ n.ts = Nil
    BY <2>1, <1>1, <1>4 DEF PlainSharing
  <2>3. "DynamicMIG" \notin gates
    BY <1>4, MpsWithoutDynamicMig
  <2>4. n.mps.perDevice = <<>> /\ (n.mps.limit = Nil \/ n.mps.limit > 0)
    <3>1. CASE c.mps = Nil
      <4>1. n.mps = EmptyMps
        BY <3>1, <1>1, <1>4 DEF MpsOf
      <4>2. QED
        BY <4>1 DEF EmptyMps
    <3>2. CASE c.mps # Nil
      <4>1. n.mps = c.mps
        BY <3>2, <1>1 DEF MpsOf
      <4>2. QED
        BY <4>1, <3>2 DEF PlainSharing
    <3>3. QED
      BY <3>1, <3>2
  <2>5. LimitsValid(n.mps, uuids)
    BY <2>4 DEF LimitsValid
  <2>6. QED
    BY <2>2, <2>3, <2>5, <1>2, <1>4 DEF ApplySharing, n
<1>5. CASE /\ ~ (n.strategy = "TimeSlicing" /\ "TimeSlicingSettings" \in gates)
           /\ ~ (n.strategy = "MPS" /\ "MPSSupport" \in gates)
  BY <1>2, <1>5 DEF ApplySharing, n
<1>6. QED
  BY <1>3, <1>4, <1>5

\* The defaults of the GPU driver can always be applied.
LEMMA DefaultPrepares ==
  ASSUME claim.driver = "gpu", ValidateFeatureGates(gates),
         NEW kind \in {"GpuConfig", "MigDeviceConfig", "VfioDeviceConfig"}, NEW sel
  PROVE  Prepared(sel, Default(DefaultOf(kind))) = "ok"
<1> DEFINE c == DefaultOf(kind)
           n == Normalize(c, gates)
<1>0. Default(c).config = c /\ c.kind = kind /\ kind \in Recognized(claim.driver)
  BY KindOfDefault DEF Default, Recognized
<1>1. CASE kind = "VfioDeviceConfig"
  <2>1. c = [kind |-> "VfioDeviceConfig", policy |-> "LegacyOnly", api |-> FALSE]
    BY <1>1 DEF DefaultOf, DefaultVfio
  <2>2. n = NormalizeVfio(c)
    BY <1>1, <1>0 DEF Normalize
  <2> HIDE DEF c, n
  <2>3. n.kind = "VfioDeviceConfig" /\ n.policy = "LegacyOnly"
    <3>1. DOMAIN c = {"kind", "policy", "api"} /\ c.policy = "LegacyOnly"
      BY <2>1
    <3>2. c = [x \in {"kind", "policy", "api"} |-> c[x]]
      BY <2>1
    <3> DEFINE api == IF c.api = Nil THEN FALSE ELSE c.api
    <3>3. n = [[c EXCEPT !["policy"] = IF @ = Nil THEN "LegacyOnly" ELSE @] EXCEPT !["api"] = api]
      BY <2>2 DEF NormalizeVfio
    <3> HIDE DEF api
    <3>4. QED
      BY <3>1, <3>2, <3>3, <1>0, <1>1
  <2>4. Validate(n, gates) = "ok" /\ \A u : ApplyConfig(n, u) = "ok"
    BY <2>3 DEF Validate, ApplyConfig
  <2>5. QED
    BY <1>0, <2>4 DEF Prepared, n, c
<1>2. CASE kind # "VfioDeviceConfig"
  <2>1. c = DefaultSharing(kind)
    BY <1>2 DEF DefaultOf
  <2>2. IsSharing(c) /\ PlainSharing(c)
    <3>1. /\ c = [kind |-> c.kind, strategy |-> c.strategy, ts |-> c.ts, mps |-> c.mps]
          /\ c.mps = Nil
          /\ c.strategy = IF "TimeSlicingSettings" \in gates THEN "TimeSlicing" ELSE "none"
          /\ c.ts = IF "TimeSlicingSettings" \in gates /\ kind = "GpuConfig" THEN "Default" ELSE Nil
      BY <2>1 DEF DefaultSharing
    <3>2. c.strategy \in {"TimeSlicing", "none"} /\ (c.strategy = "none" => c.ts = Nil)
      BY <3>1
    <3> HIDE DEF c
    <3>3. IsSharing(c)
      BY <3>1, <3>2 DEF IsSharing
    <3>4. PlainSharing(c)
      BY <3>1, <3>2 DEF PlainSharing
    <3>5. QED
      BY <3>3, <3>4
  <2>3. \A u : ApplyConfig(n, u) = "ok"
    BY <1>0, <1>2, <2>2, PlainApplies
  <2>4. Validate(n, gates) = "ok"
    <3>1. n.kind = kind /\ n.strategy = DefaultTo(c.strategy, gates)
      BY <1>0, <1>2, <2>2, NormalizedSharing
    <3>2. Validate(n, gates) = ValidateSharing(n, gates)
      BY <3>1, <1>2 DEF Validate
    <3>3. CASE "TimeSlicingSettings" \notin gates
      <4>1. n.strategy = "none"
        BY <3>1, <3>3, <2>1 DEF DefaultTo, DefaultSharing
      <4>2. QED
        BY <3>2, <4>1 DEF ValidateSharing
    <3>4. CASE "TimeSlicingSettings" \in gates /\ kind = "MigDeviceConfig"
      <4>1. n.strategy = "TimeSlicing"
        BY <3>1, <3>4, <2>1 DEF DefaultTo, DefaultSharing
      <4>2. QED
        BY <3>1, <3>2, <3>4, <4>1 DEF ValidateSharing
    <3>5. CASE "TimeSlicingSettings" \in gates /\ kind = "GpuConfig"
      <4>1. n.strategy = "TimeSlicing"
        BY <3>1, <3>5, <2>1 DEF DefaultTo, DefaultSharing
      <4>2. n = NormalizeGpu(c, gates)
        BY <1>0, <3>5 DEF Normalize
      <4>3. c = [kind |-> "GpuConfig", strategy |-> "TimeSlicing", ts |-> "Default", mps |-> Nil]
        BY <2>1, <3>5 DEF DefaultSharing
      <4>4. n.ts = "Default"
        BY <4>2, <4>3 DEF NormalizeGpu
      <4>5. ValidateTimeSlicing(n.ts) = "ok"
        BY <4>4 DEF ValidateTimeSlicing, Intervals
      <4>6. QED
        BY <3>1, <3>2, <3>5, <4>1, <4>5 DEF ValidateSharing
    <3>6. QED
      BY <1>2, <3>3, <3>4, <3>5
  <2> HIDE DEF c, n
  <2>5. QED
    BY <1>0, <2>3, <2>4 DEF Prepared, n, c
<1>3. QED
  BY <1>1, <1>2

\* The webhook, or whoever wrote the class, has nothing against the entries.
Admitted ==
  /\ Consistent
  /\ \A i \in DOMAIN entries : OfClaim(entries[i]) => Verdict(entries[i]) = "ok"

\* What an admitted entry for the GPU driver can be.
LEMMA AdmittedEntry ==
  ASSUME Submitted, Admitted, claim.driver = "gpu", NEW i \in Own
  PROVE  LET c == entries[i].config
         IN /\ c.kind \in {"GpuConfig", "MigDeviceConfig"}
            /\ IsSharing(c) /\ PlainSharing(c)
            /\ Validate(Normalize(c, gates), gates) = "ok"
            /\ \A r \in Results : r.request \in entries[i].requests => TypeOf[c.kind] = r.type
<1> DEFINE e == entries[i]
           c == e.config
<1>1. i \in DOMAIN entries /\ e.driver = "gpu" /\ e \in Entries
  BY DEF Own, Submitted
<1>2. Verdict(e) = "ok"
  BY <1>1 DEF Admitted, Consistent
<1>3. /\ c.kind \in Recognized(claim.driver) \union {"undecodable"}
      /\ \A r \in Results : r.request \in e.requests => TypeOf[c.kind] = r.type
      /\ PlainSharing(c)
  BY <1>1 DEF Admitted, Consistent
<1>4. IsConfig(c)
  BY <1>1, ConfigAssumption
<1> HIDE DEF e
<1>5. c.kind \in Reviewed /\ Validate(Normalize(c, gates), gates) = "ok"
  BY <1>1, <1>2 DEF Verdict
<1>6. c.kind \in {"GpuConfig", "MigDeviceConfig"}
  BY <1>3, <1>5 DEF Recognized, Reviewed
<1>7. IsSharing(c)
  BY <1>4, <1>6 DEF IsConfig
<1>8. QED
  BY <1>3, <1>5, <1>6, <1>7 DEF e

\* The plugin accepts what is admitted.
LEMMA AdmittedAccepted ==
  ASSUME Submitted, Admitted, claim.driver = "gpu", ValidateFeatureGates(gates)
  PROVE  Accepted
<1>1. ConfigsReadable
  <2>1. SUFFICES ASSUME NEW i \in DOMAIN entries
                 PROVE  /\ entries[i].driver # Nil
                        /\ ~ (entries[i].driver = claim.driver /\ entries[i].config.kind = "undecodable")
    BY DEF ConfigsReadable
  <2>2. entries[i].driver # Nil
    BY DEF Admitted, Consistent
  <2>3. CASE entries[i].driver = claim.driver
    <3>1. i \in Own
      BY <2>3 DEF Own
    <3>2. entries[i].config.kind \in {"GpuConfig", "MigDeviceConfig"}
      BY <3>1, AdmittedEntry
    <3>3. QED
      BY <2>2, <3>2
  <2>4. QED
    BY <2>2, <2>3
<1>2. ASSUME NEW r \in DOMAIN Selection
      PROVE  ~ Mismatch(Selection[r], r) /\ Prepared(Selection, Selection[r]) = "ok"
  <2> DEFINE c == Selection[r]
  <2>1. PICK k \in DOMAIN Configs : c = Configs[k] /\ Matches(Configs[k], r)
    BY ScanFindsLast
  <2>2. CASE k \in 1..Len(DefaultKinds) /\ Configs[k] = Default(DefaultOf(DefaultKinds[k]))
    <3>1. DefaultKinds[k] \in {"GpuConfig", "MigDeviceConfig", "VfioDeviceConfig"}
      BY <2>2, DefaultKindsList DEF Recognized
    <3>2. c.requests = {}
      BY <2>1, <2>2 DEF Default
    <3>3. QED
      BY <2>1, <2>2, <3>1, <3>2, DefaultPrepares DEF Matches
  <2>3. ASSUME NEW j \in 1..Len(OwnList), Configs[k] = OpaqueConfig(OwnList[j]),
               OwnList[j] \in Own
        PROVE  ~ Mismatch(c, r) /\ Prepared(Selection, c) = "ok"
    <3> DEFINE i == OwnList[j]
               p == entries[i].config
    <3>1. /\ p.kind \in {"GpuConfig", "MigDeviceConfig"}
          /\ IsSharing(p) /\ PlainSharing(p)
          /\ Validate(Normalize(p, gates), gates) = "ok"
          /\ \A x \in Results : x.request \in entries[i].requests => TypeOf[p.kind] = x.type
      BY <2>3, AdmittedEntry
    <3>2. c.config = p /\ c.requests = entries[i].requests
      BY <2>1, <2>3 DEF OpaqueConfig
    <3>3. \A u : ApplyConfig(Normalize(p, gates), u) = "ok"
      BY <3>1, PlainApplies
    <3> HIDE DEF p, c
    <3>4. Prepared(Selection, c) = "ok"
      BY <3>1, <3>2, <3>3 DEF Prepared, Recognized
    <3>5. r \in Results
      BY DEF Selection
    <3>6. ~ Mismatch(c, r)
      BY <2>1, <3>1, <3>2, <3>5 DEF Matches, Mismatch
    <3>7. QED
      BY <3>4, <3>6
  <2>4. QED
    BY <2>2, <2>3, Origins
<1>3. ~ SelectionFails(Selection)
  BY <1>2 DEF SelectionFails
<1>4. Verdicts(Selection) \subseteq {"ok"}
  BY <1>2 DEF Verdicts
<1>5. QED
  BY <1>1, <1>3, <1>4 DEF Accepted

-----------------------------------------------------------------------------
(* Memory limits.                                                          *)

\* The members of S that are smaller than d.
Below(S, d) == {e \in S : e < d}

\* Device d is at position k of the list s, and k - 1 members of S are smaller.
At(s, S, d, k) ==
  /\ s[k] = d
  /\ \A l \in 1..Len(s) : s[l] = d => l = k
  /\ Cardinality(Below(S, d)) = k - 1

\* The index of a device in the sorted list is the number of smaller ones.
LEMMA IndexIsRank ==
  ASSUME NEW n \in Nat, NEW S \in SUBSET (1..n), NEW s, Ascends(s, S, n), NEW d \in S
  PROVE  \E k \in 1..Len(s) : At(s, S, d, k)
<1>1. /\ Len(s) \in Nat
      /\ \A k \in 1..Len(s) : s[k] \in S /\ s[k] \in 1..n
      /\ \A k, l \in 1..Len(s) : k < l => s[k] < s[l]
      /\ \A i \in 1..n : i \in S => \E k \in 1..Len(s) : s[k] = i
  BY DEF Ascends
<1>2. PICK k \in 1..Len(s) : s[k] = d
  BY <1>1
<1>3. \A i, j \in 1..Len(s) : s[i] = s[j] => i = j
  <2>1. SUFFICES ASSUME NEW i \in 1..Len(s), NEW j \in 1..Len(s), s[i] = s[j], i # j
                 PROVE  FALSE
    OBVIOUS
  <2>2. i < j \/ j < i
    BY <1>1, <2>1
  <2>3. QED
    BY <1>1, <2>1, <2>2
<1> DEFINE T == {e \in S : e < d}
           f == [i \in 1..(k - 1) |-> s[i]]
<1>4. k - 1 \in Nat /\ \A i \in 1..(k - 1) : i \in 1..Len(s) /\ i < k
  BY <1>1
<1>5. \A i \in 1..(k - 1) : s[i] \in T
  BY <1>1, <1>2, <1>4
<1>6. f \in [1..(k - 1) -> T]
  BY <1>5
<1>7. \A i, j \in 1..(k - 1) : f[i] = f[j] => i = j
  BY <1>3, <1>4
<1>8. ASSUME NEW e \in T
      PROVE  \E i \in 1..(k - 1) : f[i] = e
  <2>1. PICK i \in 1..Len(s) : s[i] = e
    BY <1>1
  <2>2. ~ (k < i) /\ i # k
    BY <1>1, <1>2, <2>1
  <2>3. i \in 1..(k - 1)
    BY <1>1, <2>2
  <2>4. QED
    BY <2>1, <2>3
<1> HIDE DEF T, f
<1>9. ExistsBijection(1..(k - 1), T)
  <2>1. f \in Bijection(1..(k - 1), T)
    BY <1>6, <1>7, <1>8, Fun_IsBij
  <2>2. QED
    BY <2>1 DEF ExistsBijection
<1>10. Cardinality(T) = k - 1
  BY <1>4, <1>9, FS_CountingElements
<1>11. QED
  BY <1>2, <1>3, <1>10 DEF T, Below, At

\* A kind is for one type only.
LEMMA TypesDiffer ==
  ASSUME NEW a \in Recognized(claim.driver), NEW b \in Recognized(claim.driver),
         TypeOf[a] = TypeOf[b]
  PROVE  a = b
<1>1. CASE claim.driver = "gpu"
  BY <1>1 DEF Recognized, TypeOf
<1>2. CASE claim.driver # "gpu"
  BY <1>2 DEF Recognized, TypeOf
<1>3. QED
  BY <1>1, <1>2

\* Results of one type that have their configs from one place share the config.
LEMMA SharedConfig ==
  ASSUME Submitted, Accepted, NEW r \in Results, NEW y \in Results
  PROVE  Selection[y] = Selection[r] <=>
           Selection[y].from = Selection[r].from /\ y.type = r.type
<1>1. r \in DOMAIN Selection /\ y \in DOMAIN Selection
  BY EveryResultSelected
<1>2. /\ Selection[r].config.kind \in Recognized(claim.driver)
      /\ TypeOf[Selection[r].config.kind] = r.type
      /\ Selection[y].config.kind \in Recognized(claim.driver)
      /\ TypeOf[Selection[y].config.kind] = y.type
  BY <1>1, AcceptedKinds
<1>3. PICK k \in DOMAIN Configs : Selection[r] = Configs[k]
  BY <1>1, ScanFindsLast
<1>4. PICK l \in DOMAIN Configs : Selection[y] = Configs[l]
  BY <1>1, ScanFindsLast
<1> DEFINE Whence(p) ==
             \/ \E kind : /\ Configs[p] = Default(DefaultOf(kind))
                          /\ Configs[p].config.kind = kind
                          /\ Configs[p].from = 0
             \/ \E i \in 1..Len(entries) :
                  Configs[p] = OpaqueConfig(i) /\ Configs[p].from = i
<1>5. \A p \in DOMAIN Configs : Whence(p)
  <2>1. SUFFICES ASSUME NEW p \in DOMAIN Configs PROVE Whence(p)
    OBVIOUS
  <2>2. CASE p \in 1..Len(DefaultKinds) /\ Configs[p] = Default(DefaultOf(DefaultKinds[p]))
    <3> DEFINE kind == DefaultKinds[p]
    <3>1. Configs[p].config = DefaultOf(kind) /\ Configs[p].from = 0
      BY <2>2 DEF Default
    <3>2. DefaultOf(kind).kind = kind
      BY KindOfDefault
    <3> HIDE DEF kind
    <3>3. Configs[p] = Default(DefaultOf(kind))
      BY <2>2 DEF kind
    <3>4. QED
      BY <3>1, <3>2, <3>3
  <2>3. CASE \E j \in 1..Len(OwnList) : /\ Configs[p] = OpaqueConfig(OwnList[j])
                                        /\ OwnList[j] \in 1..Len(entries)
    BY <2>3 DEF OpaqueConfig
  <2>4. QED
    BY <2>2, <2>3, Origins
<1>6. ASSUME Configs[l].from = Configs[k].from, y.type = r.type
      PROVE  Configs[l] = Configs[k]
  <2>1. Configs[l].config.kind = Configs[k].config.kind
    BY <1>2, <1>3, <1>4, <1>6, TypesDiffer
  <2>2. \A i \in 1..Len(entries) : i # 0
    BY DEF Submitted
  <2>3. Whence(k) /\ Whence(l)
    BY <1>5
  <2>4. QED
    BY <1>6, <2>1, <2>2, <2>3
<1>7. QED
  BY <1>2, <1>3, <1>4, <1>6

\* The devices a config is applied to.
LEMMA ServedByPlace ==
  ASSUME Submitted, Accepted, NEW r \in Results
  PROVE  ServedDevices(Selection, Selection[r]) =
           {x.device : x \in {y \in Results : Selection[y].from = Selection[r].from
                                                /\ y.type = r.type}}
<1>1. DOMAIN Selection = Results
  BY EveryResultSelected
<1>2. {y \in DOMAIN Selection : Selection[y] = Selection[r]} =
        {y \in Results : Selection[y].from = Selection[r].from /\ y.type = r.type}
  BY <1>1, SharedConfig
<1>3. QED
  BY <1>2 DEF ServedDevices

\* A key names the device d: by its UUID, or by its index among the peers.
LEMMA KeysOfDevice ==
  ASSUME NEW S \in SUBSET (1..MaxDevice), NEW d \in S,
         NEW key \in {"uuid", "index"} \X Int,
         DeviceOfKey(key, Filter(UpTo(MaxDevice), S)) # Nil
  PROVE  DeviceOfKey(key, Filter(UpTo(MaxDevice), S)) = d <=>
           key \in {<<"uuid", d>>, <<"index", Cardinality(Below(S, d))>>}
<1> DEFINE s == Filter(UpTo(MaxDevice), S)
           index == Cardinality(Below(S, d))
<1>1. MaxDevice \in Nat
  BY ConfigAssumption
<1>2. Ascends(s, S, MaxDevice)
  BY <1>1, FilterAscends
<1> HIDE DEF s
<1>3. PICK k \in 1..Len(s) : At(s, S, d, k)
  BY <1>1, <1>2, IndexIsRank
<1>4. s \in Seq(1..MaxDevice) /\ DOMAIN s = 1..Len(s) /\ Len(s) \in Nat
  BY <1>2 DEF Ascends
<1>5. index = k - 1 /\ index \in Int
  BY <1>3, <1>4 DEF At
<1> HIDE DEF index
<1>6. PICK what \in {"uuid", "index"}, v \in Int : key = <<what, v>>
  OBVIOUS
<1>7. key[1] = what /\ key[2] = v
  BY <1>6
<1>8. CASE what = "uuid"
  <2>1. DeviceOfKey(key, s) = IF v \in {s[i] : i \in DOMAIN s} THEN v ELSE Nil
    BY <1>7, <1>8 DEF DeviceOfKey
  <2>2. DeviceOfKey(key, s) = v
    BY <2>1 DEF s
  <2>3. QED
    BY <2>2, <1>6, <1>8 DEF s, index
<1>9. CASE what = "index"
  <2>1. DeviceOfKey(key, s) = IF v + 1 \in DOMAIN s THEN s[v + 1] ELSE Nil
    BY <1>7, <1>9 DEF DeviceOfKey
  <2>2. v + 1 \in 1..Len(s) /\ DeviceOfKey(key, s) = s[v + 1]
    BY <2>1, <1>4 DEF s
  <2>3. s[v + 1] = d <=> v = index
    BY <2>2, <1>3, <1>4, <1>5 DEF At
  <2>4. QED
    BY <2>2, <2>3, <1>6, <1>9 DEF s, index
<1>10. QED
  BY <1>8, <1>9

\* A device under MPS has a config entry, and the limits of the entry are valid.
LEMMA MpsSettings ==
  ASSUME Submitted, Accepted, NEW r \in Results, UnderMps(Selection[r])
  PROVE  LET m == Normalize(Selection[r].config, gates).mps
         IN /\ LimitsValid(m, UUIDs(Selection, Selection[r]))
            /\ \A key \in DOMAIN m.perDevice : key \in {"uuid", "index"} \X Int
<1> DEFINE p == Selection[r].config
           n == Normalize(p, gates)
           u == UUIDs(Selection, Selection[r])
<1>1. r \in DOMAIN Selection
  BY EveryResultSelected
<1>2. Prepared(Selection, Selection[r]) = "ok"
  BY <1>1, AcceptedKinds
<1>3. p.kind \in {"GpuConfig", "MigDeviceConfig"} /\ p.strategy = "MPS"
  BY DEF UnderMps
<1>4. PICK k \in DOMAIN Configs : Selection[r] = Configs[k]
  BY <1>1, ScanFindsLast
<1>5. IsSharing(p)
  <2>1. CASE Configs[k] = Default(DefaultOf(DefaultKinds[k]))
    <3>1. p = DefaultOf(DefaultKinds[k]) /\ p.kind = DefaultKinds[k]
      BY <2>1, <1>4, KindOfDefault DEF Default
    <3>2. p = DefaultSharing(DefaultKinds[k])
      BY <3>1, <1>3 DEF DefaultOf
    <3>3. p.strategy \in {"TimeSlicing", "none"}
      BY <3>2 DEF DefaultSharing
    <3>4. QED
      BY <3>3, <1>3
  <2>2. CASE \E j \in 1..Len(OwnList) : /\ Configs[k] = OpaqueConfig(OwnList[j])
                                        /\ OwnList[j] \in 1..Len(entries)
    <3>1. PICK i \in 1..Len(entries) : p = entries[i].config
      BY <2>2, <1>4 DEF OpaqueConfig
    <3>2. entries[i] \in Entries
      BY DEF Submitted
    <3>3. IsConfig(p)
      BY <3>1, <3>2, ConfigAssumption
    <3>4. QED
      BY <3>3, <1>3 DEF IsConfig
  <2>3. QED
    BY <2>1, <2>2, Origins
<1> HIDE DEF p
<1>6. n.kind = p.kind /\ n.strategy = "MPS" /\ n.mps = MpsOf(p, "MPS", gates)
  BY <1>3, <1>5, NormalizedSharing DEF DefaultTo
<1>7. Validate(n, gates) = "ok" /\ ApplyConfig(n, u) = "ok"
  BY <1>2, <1>3 DEF Prepared, Recognized, p
<1> HIDE DEF n, u
<1>8. "MPSSupport" \in gates
  <2>1. ValidateSharing(n, gates) = "ok"
    BY <1>3, <1>6, <1>7 DEF Validate
  <2>2. QED
    BY <2>1, <1>6 DEF ValidateSharing
<1>9. LimitsValid(n.mps, u)
  <2>1. ApplySharing(n, u) = "ok"
    BY <1>3, <1>6, <1>7 DEF ApplyConfig
  <2>2. QED
    BY <2>1, <1>6, <1>8 DEF ApplySharing
<1>10. \A key \in DOMAIN n.mps.perDevice : key \in {"uuid", "index"} \X Int
  <2>1. CASE p.mps = Nil
    <3>1. n.mps = EmptyMps
      BY <2>1, <1>6, <1>8 DEF MpsOf
    <3>2. QED
      BY <3>1 DEF EmptyMps
  <2>2. CASE p.mps # Nil
    <3>1. n.mps = p.mps /\ IsMps(p.mps)
      BY <2>2, <1>5, <1>6 DEF MpsOf, IsSharing
    <3>2. QED
      BY <3>1 DEF IsMps
  <2>3. QED
    BY <2>1, <2>2
<1>11. QED
  BY <1>9, <1>10 DEF n, u, p

\* The limits a device may get are those its config names for it.
LEMMA LimitsOfDevice ==
  ASSUME Submitted, Accepted, NEW r \in Results, UnderMps(Selection[r])
  PROVE  LET m == Normalize(Selection[r].config, gates).mps
             peers == {x.device : x \in {y \in Results : Selection[y].from = Selection[r].from
                                                           /\ y.type = r.type}}
             index == Cardinality({d \in peers : d < r.device})
             named == {m.perDevice[k] : k \in DOMAIN m.perDevice
                                                \intersect {<<"uuid", r.device>>, <<"index", index>>}}
         IN DeviceLimits(Selection, r) =
              IF named # {} THEN named ELSE IF m.limit = Nil THEN {} ELSE {m.limit}
<1> DEFINE m == Normalize(Selection[r].config, gates).mps
           peers == {x.device : x \in {y \in Results : Selection[y].from = Selection[r].from
                                                         /\ y.type = r.type}}
           index == Cardinality({d \in peers : d < r.device})
           u == UUIDs(Selection, Selection[r])
           S == ServedDevices(Selection, Selection[r])
           byKey == {k \in DOMAIN m.perDevice : DeviceOfKey(k, u) = r.device}
           byName == DOMAIN m.perDevice \intersect {<<"uuid", r.device>>, <<"index", index>>}
<1>1. S = peers
  BY ServedByPlace
<1>2. S \in SUBSET (1..MaxDevice) /\ r.device \in S
  <2>1. \A x \in Results : x.device \in 1..MaxDevice
    BY ConfigAssumption DEF Results, Submitted
  <2>2. DOMAIN Selection = Results
    BY EveryResultSelected
  <2>3. QED
    BY <2>1, <2>2 DEF ServedDevices
<1>3. /\ LimitsValid(m, u)
      /\ \A k \in DOMAIN m.perDevice : k \in {"uuid", "index"} \X Int
  BY MpsSettings
<1>4. u = Filter(UpTo(MaxDevice), S)
  BY DEF UUIDs
<1>5. DeviceLimits(Selection, r) = LimitOptions(m, u, r.device)
  BY DEF DeviceLimits
<1>6. index = Cardinality(Below(S, r.device))
  BY <1>1 DEF Below
<1> HIDE DEF m, peers, u, S, index
<1>7. ASSUME NEW k \in DOMAIN m.perDevice
      PROVE  DeviceOfKey(k, u) = r.device <=> k \in {<<"uuid", r.device>>, <<"index", index>>}
  <2>1. k \in {"uuid", "index"} \X Int /\ DeviceOfKey(k, u) # Nil
    BY <1>3 DEF LimitsValid
  <2>2. QED
    BY <2>1, <1>2, <1>4, <1>6, KeysOfDevice
<1>8. byKey = byName
  BY <1>7
<1> HIDE DEF byKey, byName
<1>9. LimitOptions(m, u, r.device) =
        IF {m.perDevice[k] : k \in byName} # {} THEN {m.perDevice[k] : k \in byName}
        ELSE IF m.limit = Nil THEN {} ELSE {m.limit}
  <2>1. LimitOptions(m, u, r.device) =
          IF {m.perDevice[k] : k \in byKey} # {} THEN {m.perDevice[k] : k \in byKey}
          ELSE IF m.limit = Nil THEN {} ELSE {m.limit}
    BY DEF LimitOptions, byKey
  <2>2. QED
    BY <2>1, <1>8
<1>10. QED
  BY <1>5, <1>9 DEF byName, index, peers, m

-----------------------------------------------------------------------------
(* The invariant.                                                          *)

\* A verdict of Prepare is none of the other outcomes.
LEMMA VerdictValues ==
  ASSUME NEW sel, NEW c
  PROVE  Prepared(sel, c) \in {"ok", "error", "panic"}
<1>1. \A n : ValidateTimeSlicing(n) \in {"ok", "error", "panic"}
  BY DEF ValidateTimeSlicing
<1>2. \A n : ValidateMps(n) \in {"ok", "error", "panic"}
  BY DEF ValidateMps
<1>3. \A n : ValidateSharing(n, gates) \in {"ok", "error", "panic"}
  BY <1>1, <1>2 DEF ValidateSharing
<1>4. \A n : Validate(n, gates) \in {"ok", "error", "panic"}
  BY <1>3 DEF Validate
<1>5. \A n, u : ApplySharing(n, u) \in {"ok", "error", "panic"}
  BY DEF ApplySharing
<1>6. \A n, u : ApplyConfig(n, u) \in {"ok", "error", "panic"}
  BY <1>5 DEF ApplyConfig
<1>7. QED
  BY <1>4, <1>6 DEF Prepared

\* What Prepare does with a claim: it takes over the selection and the limits,
\* or refuses what is not acceptable.
LEMMA PrepareEffect ==
  ASSUME PrepareDevices
  PROVE  \/ /\ outcome' = "prepared" /\ Accepted
            /\ settings' = Selection
            /\ DOMAIN limits' = {r \in DOMAIN Selection : DeviceLimits(Selection, r) # {}}
            /\ \A r \in DOMAIN limits' : limits'[r] \in DeviceLimits(Selection, r)
         \/ outcome' \in {"error", "panic"} /\ ~ Accepted
<1>1. CASE Accepted
  BY <1>1 DEF PrepareDevices, Accepted
<1>2. CASE ~ Accepted
  <2>1. outcome' \in IF ConfigsReadable /\ ~ SelectionFails(Selection)
                     THEN Verdicts(Selection) \ {"ok"} ELSE {"error"}
    BY <1>2 DEF PrepareDevices, Accepted
  <2>2. \A v \in Verdicts(Selection) : v \in {"ok", "error", "panic"}
    BY VerdictValues DEF Verdicts
  <2>3. outcome' \in {"error", "panic"}
    BY <2>1, <2>2
  <2>4. QED
    BY <1>2, <2>3
<1>3. QED
  BY <1>1, <1>2

\* A claim is prepared only after its entries are fixed, by a plugin that started.
Control ==
  /\ review \in {"unasked", "allowed", "denied", "absent"}
  /\ outcome \in {"none", "prepared", "error", "panic"}
  /\ outcome # "none" => review \in {"allowed", "absent"}

\* The webhook found nothing in the claim's entries.
Passed ==
  review = "allowed" =>
    \A i \in DOMAIN entries : OfClaim(entries[i]) => Verdict(entries[i]) = "ok"

ConfigInv ==
  /\ Submitted
  /\ Control
  /\ Passed
  /\ ConfigByPrecedence
  /\ AdmittedPrepares
  /\ LimitsOverride

LEMMA ConfigInitial ==
  ConfigInit => ConfigInv
<1>1. SUFFICES ASSUME ConfigInit PROVE ConfigInv
  OBVIOUS
<1>2. entries = <<>> /\ outcome = "none" /\ review = "unasked"
  BY <1>1 DEF ConfigInit
<1>3. Submitted
  <2>1. <<>> \in Seq(Entries)
    OBVIOUS
  <2>2. entries \in Seq(Entries)
    BY <1>2, <2>1
  <2>3. claim \in Allocations /\ (HasVfio(claim) => "PassthroughSupport" \in gates)
    BY <1>1 DEF ConfigInit
  <2>4. QED
    BY <2>2, <2>3 DEF Submitted
<1>4. Control /\ Passed
  BY <1>2 DEF Control, Passed
<1>5. ConfigByPrecedence /\ AdmittedPrepares /\ LimitsOverride
  BY <1>2 DEF ConfigByPrecedence, AdmittedPrepares, LimitsOverride
<1>6. QED
  BY <1>3, <1>4, <1>5 DEF ConfigInv

LEMMA SubmittedStep ==
  ASSUME ConfigInv, [ConfigNext]_configVars
  PROVE  Submitted'
<1>1. CASE \E e \in Entries : AddConfig(e)
  BY <1>1 DEF AddConfig, ConfigInv, Submitted, HasVfio
<1>2. CASE UNCHANGED <<gates, claim, entries>>
  BY <1>2 DEF ConfigInv, Submitted, HasVfio
<1>3. QED
  BY <1>1, <1>2 DEF ConfigNext, configVars, AdmitResourceClaimParameters, NoWebhook, PrepareDevices

LEMMA ControlStep ==
  ASSUME ConfigInv, [ConfigNext]_configVars
  PROVE  Control'
<1>1. Control
  BY DEF ConfigInv
<1>2. CASE PrepareDevices
  <2>1. outcome' \in {"prepared", "error", "panic"} /\ review \in {"allowed", "absent"} /\ review' = review
    BY <1>2, PrepareEffect DEF PrepareDevices
  <2>2. QED
    BY <2>1 DEF Control
<1>3. CASE outcome' = outcome
  BY <1>1, <1>3 DEF Control, ConfigNext, configVars, AddConfig, AdmitResourceClaimParameters, NoWebhook, PrepareDevices
<1>4. QED
  BY <1>2, <1>3 DEF ConfigNext, configVars, AddConfig, AdmitResourceClaimParameters, NoWebhook

LEMMA SameVerdicts ==
  ASSUME gates' = gates, NEW e
  PROVE  Verdict(e)' = Verdict(e)
BY DEF Verdict

LEMMA PassedStep ==
  ASSUME ConfigInv, [ConfigNext]_configVars
  PROVE  Passed'
<1>1. CASE AdmitResourceClaimParameters
  BY <1>1, SameVerdicts DEF AdmitResourceClaimParameters, Passed, OfClaim, Verdict
<1>2. CASE UNCHANGED <<gates, entries, review>>
  BY <1>2 DEF Passed, ConfigInv, OfClaim, Verdict
<1>3. CASE review' # "allowed"
  BY <1>3 DEF Passed
<1>4. QED
  BY <1>1, <1>2, <1>3 DEF ConfigNext, configVars, AddConfig, NoWebhook, PrepareDevices

\* Before Prepare there is nothing to show, and after it nothing changes.
LEMMA OnlyPrepare ==
  ASSUME ConfigInv, [ConfigNext]_configVars
  PROVE  outcome' = "none" \/ PrepareDevices \/ UNCHANGED configVars
BY DEF ConfigInv, Control, ConfigNext, configVars, AddConfig, AdmitResourceClaimParameters, NoWebhook

LEMMA PrecedenceStep ==
  ASSUME ConfigInv, [ConfigNext]_configVars
  PROVE  ConfigByPrecedence'
<1>1. CASE outcome' = "none"
  BY <1>1 DEF ConfigByPrecedence
<1>2. CASE UNCHANGED configVars
  BY <1>2 DEF configVars, ConfigInv, ConfigByPrecedence, Results, MeantFor, TypeOf, Stronger, OfClaim
<1>3. CASE PrepareDevices
  <2>1. SUFFICES ASSUME outcome' = "prepared"
                 PROVE  ConfigByPrecedence'
    BY DEF ConfigByPrecedence
  <2>2. Accepted /\ settings' = Selection
    BY <1>3, <2>1, PrepareEffect
  <2>3. Submitted /\ claim' = claim /\ entries' = entries
    BY <1>3 DEF ConfigInv, PrepareDevices
  <2>4. ASSUME NEW r \in Results
        PROVE  LET meant == {i \in DOMAIN entries : MeantFor(i, r)} IN
               /\ r \in DOMAIN Selection
               /\ TypeOf[Selection[r].config.kind] = r.type
               /\ IF meant = {} THEN Selection[r].from = 0
                  ELSE /\ Selection[r].from \in meant
                       /\ \A j \in meant \ {Selection[r].from} : Stronger(Selection[r].from, j)
    <3>1. r \in DOMAIN Selection
      BY <2>3, EveryResultSelected
    <3>2. TypeOf[Selection[r].config.kind] = r.type
      BY <2>2, <2>3, <3>1, AcceptedKinds
    <3>3. QED
      BY <2>2, <2>3, <3>1, <3>2, StrongestSelected
  <2>5. QED
    BY <2>2, <2>3, <2>4 DEF ConfigByPrecedence, Results, MeantFor, Stronger, OfClaim, TypeOf
<1>4. QED
  BY <1>1, <1>2, <1>3, OnlyPrepare

LEMMA AdmittedStep ==
  ASSUME ConfigInv, [ConfigNext]_configVars
  PROVE  AdmittedPrepares'
<1>1. CASE outcome' = "none"
  BY <1>1 DEF AdmittedPrepares
<1>2. CASE UNCHANGED configVars
  BY <1>2 DEF configVars, ConfigInv, AdmittedPrepares, Consistent, Verdict, Recognized, OfClaim,
              Results, PlainSharing, TypeOf
<1>3. CASE PrepareDevices
  <2>1. gates' = gates /\ claim' = claim /\ entries' = entries /\ review' = review
    BY <1>3 DEF PrepareDevices
  <2>2. SUFFICES ASSUME review = "allowed", claim.driver = "gpu", Consistent
                 PROVE  outcome' \in {"none", "prepared"}
    BY <2>1 DEF AdmittedPrepares, Consistent, Verdict, Recognized, OfClaim, Results, PlainSharing, TypeOf
  <2>3. Submitted /\ Admitted
    BY <2>2 DEF ConfigInv, Passed, Admitted
  <2>4. ValidateFeatureGates(gates)
    BY <1>3 DEF PrepareDevices
  <2>5. Accepted
    BY <2>2, <2>3, <2>4, AdmittedAccepted
  <2>6. QED
    BY <2>5, <1>3, PrepareEffect
<1>4. QED
  BY <1>1, <1>2, <1>3, OnlyPrepare

\* LimitsOverride of one result, with the settings and limits as arguments.
LimitOf(r, sel, lim) ==
  LET m == Normalize(sel[r].config, gates).mps
      peers == {x.device : x \in {y \in Results : sel[y].from = sel[r].from
                                                    /\ y.type = r.type}}
      index == Cardinality({d \in peers : d < r.device})
      named == {m.perDevice[k] : k \in DOMAIN m.perDevice
                                         \intersect {<<"uuid", r.device>>, <<"index", index>>}}
  IN IF named # {} THEN r \in DOMAIN lim /\ lim[r] \in named
     ELSE IF m.limit # Nil THEN r \in DOMAIN lim /\ lim[r] = m.limit
     ELSE r \notin DOMAIN lim

LEMMA LimitOfAll ==
  /\ LimitsOverride <=>
       (outcome = "prepared" => \A r \in {x \in Results : UnderMps(settings[x])} : LimitOf(r, settings, limits))
  /\ LimitsOverride' <=>
       (outcome' = "prepared" =>
          \A r \in {x \in Results' : UnderMps(settings'[x])} : LimitOf(r, settings, limits)')
BY DEF LimitsOverride, LimitOf, UnderMps

LEMMA LimitOfUnchanged ==
  ASSUME gates' = gates, claim' = claim, NEW r
  PROVE  /\ Results' = Results
         /\ LimitOf(r, settings, limits)' <=> LimitOf(r, settings', limits')
<1>1. Results' = Results
  BY DEF Results
<1>2. QED
  BY <1>1 DEF LimitOf

LEMMA LimitsStep ==
  ASSUME ConfigInv, [ConfigNext]_configVars
  PROVE  LimitsOverride'
<1>1. CASE outcome' = "none"
  BY <1>1 DEF LimitsOverride
<1>2. CASE UNCHANGED configVars
  <2>1. /\ outcome' = outcome /\ settings' = settings /\ limits' = limits
        /\ gates' = gates /\ claim' = claim
    BY <1>2 DEF configVars
  <2>2. \A r : LimitOf(r, settings, limits)' <=> LimitOf(r, settings, limits)
    BY <2>1, LimitOfUnchanged
  <2>3. Results' = Results /\ LimitsOverride
    BY <2>1, LimitOfUnchanged DEF ConfigInv
  <2>4. QED
    BY <2>1, <2>2, <2>3, LimitOfAll
<1>3. CASE PrepareDevices
  <2>1. SUFFICES ASSUME outcome' = "prepared"
                 PROVE  LimitsOverride'
    BY DEF LimitsOverride
  <2>2. /\ Accepted
        /\ settings' = Selection
        /\ DOMAIN limits' = {r \in DOMAIN Selection : DeviceLimits(Selection, r) # {}}
        /\ \A r \in DOMAIN limits' : limits'[r] \in DeviceLimits(Selection, r)
    BY <1>3, <2>1, PrepareEffect
  <2>3. Submitted /\ gates' = gates /\ claim' = claim
    BY <1>3 DEF ConfigInv, PrepareDevices
  <2>4. Results' = Results /\ \A r : LimitOf(r, settings, limits)' <=> LimitOf(r, settings', limits')
    BY <2>3, LimitOfUnchanged
  <2>5. ASSUME NEW r \in Results, UnderMps(Selection[r])
        PROVE  LimitOf(r, Selection, limits')
    <3> DEFINE m == Normalize(Selection[r].config, gates).mps
               peers == {x.device : x \in {y \in Results : Selection[y].from = Selection[r].from
                                                             /\ y.type = r.type}}
               index == Cardinality({d \in peers : d < r.device})
               named == {m.perDevice[k] : k \in DOMAIN m.perDevice
                                                  \intersect {<<"uuid", r.device>>, <<"index", index>>}}
    <3>1. DeviceLimits(Selection, r) =
            IF named # {} THEN named ELSE IF m.limit = Nil THEN {} ELSE {m.limit}
      BY <2>2, <2>3, <2>5, LimitsOfDevice
    <3>2. r \in DOMAIN Selection
      BY <2>3, EveryResultSelected
    <3>3. r \in DOMAIN limits' <=> DeviceLimits(Selection, r) # {}
      BY <2>2, <3>2
    <3>4. LimitOf(r, Selection, limits') <=>
            IF named # {} THEN r \in DOMAIN limits' /\ limits'[r] \in named
            ELSE IF m.limit # Nil THEN r \in DOMAIN limits' /\ limits'[r] = m.limit
            ELSE r \notin DOMAIN limits'
      BY DEF LimitOf
    <3> HIDE DEF named, m
    <3>5. QED
      BY <2>2, <3>1, <3>3, <3>4
  <2>6. QED
    BY <2>1, <2>2, <2>4, <2>5, LimitOfAll
<1>4. QED
  BY <1>1, <1>2, <1>3, OnlyPrepare

LEMMA ConfigInvariant ==
  ConfigSpec => []ConfigInv
<1>1. ConfigInit => ConfigInv
  BY ConfigInitial
<1>2. ConfigInv /\ [ConfigNext]_configVars => ConfigInv'
  BY SubmittedStep, ControlStep, PassedStep, PrecedenceStep, AdmittedStep, LimitsStep DEF ConfigInv
<1>3. QED
  BY <1>1, <1>2, PTL DEF ConfigSpec

(* For any entries, claims and gates: when the configs of a claim are      *)
(* accepted, each device has the strongest config that is meant for it     *)
(* (prepareDevices, getConfigResultsMap, GetOpaqueDeviceConfigs).          *)
THEOREM PrecedenceHolds ==
  ConfigSpec => []ConfigByPrecedence
<1>1. ConfigInv => ConfigByPrecedence
  BY DEF ConfigInv
<1>2. QED
  BY <1>1, ConfigInvariant, PTL

(* For any entries, claims and gates: a GPU claim that the webhook let     *)
(* through, and that is in order where the webhook does not look, is not   *)
(* refused by the plugin (admitResourceClaimParameters, prepareDevices).   *)
THEOREM AdmittedPreparesHolds ==
  ConfigSpec => []AdmittedPrepares
<1>1. ConfigInv => AdmittedPrepares
  BY DEF ConfigInv
<1>2. QED
  BY <1>1, ConfigInvariant, PTL

(* For any number of devices and any limits: a limit reaches exactly the   *)
(* device it names, by UUID or by index, and the default only a device     *)
(* that no limit names (MpsPerDevicePinnedMemoryLimit.Normalize).          *)
THEOREM LimitsOverrideHolds ==
  ConfigSpec => []LimitsOverride
<1>1. ConfigInv => LimitsOverride
  BY DEF ConfigInv
<1>2. QED
  BY <1>1, ConfigInvariant, PTL
=============================================================================
