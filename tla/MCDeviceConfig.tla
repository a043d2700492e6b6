--------------------------- MODULE MCDeviceConfig ---------------------------
(* Claims of the GPU and the compute-domain driver with up to MaxEntries   *)
(* config entries.                                                         *)
EXTENDS DeviceConfig, TLC

Gpu(strategy, ts, mps) ==
  [kind |-> "GpuConfig", strategy |-> strategy, ts |-> ts, mps |-> mps]

Mig(strategy, mps) ==
  [kind |-> "MigDeviceConfig", strategy |-> strategy, ts |-> Nil, mps |-> mps]

Mps(p, l, per) == [percentage |-> p, limit |-> l, perDevice |-> per]

(* Two keys of one device: a UUID, and the index of the same UUID.         *)
Both == (<<"uuid", 1>> :> 2) @@ (<<"index", 0>> :> 3)

Params ==
  {Gpu("none", Nil, Nil), Gpu("TimeSlicing", "Long", Nil), Gpu("TimeSlicing", "empty", Nil),
   Gpu("TimeSlicing", "Long", Mps(50, Nil, <<>>)), Gpu("MPS", Nil, Nil),
   Gpu("MPS", Nil, Mps(101, Nil, <<>>)), Gpu("MPS", Nil, Mps(50, 1, Both)),
   Gpu("MPS", Nil, Mps(Nil, Nil, <<"index", 1>> :> 2)),
   Mig("none", Nil), Mig("MPS", Mps(Nil, 0, <<>>)),
   [kind |-> "VfioDeviceConfig", policy |-> Nil, api |-> Nil],
   [kind |-> "ComputeDomainChannelConfig", domain |-> "d"]}

(* A class has no settings that only a claim's author gets wrong.          *)
OfClasses ==
  {c \in Params : c.kind \in {"GpuConfig", "MigDeviceConfig", "VfioDeviceConfig"}}
    \ {Gpu("TimeSlicing", "Long", Mps(50, Nil, <<>>)), Gpu("MPS", Nil, Mps(101, Nil, <<>>)),
       Gpu("MPS", Nil, Mps(Nil, Nil, <<"index", 1>> :> 2)), Mig("MPS", Mps(Nil, 0, <<>>)),
       Gpu("MPS", Nil, Nil)}

Entry(source, requests, config) ==
  [source |-> source, driver |-> "gpu", requests |-> requests, config |-> config]

MCEntries ==
  {Entry("claim", q, c) : q \in {{}, {"r1"}}, c \in Params}
  \union
  {Entry("class", q, c) : q \in {{}, {"r1"}}, c \in OfClasses}
  \union
  {[source |-> "claim", driver |-> "gpu", requests |-> {}, config |-> [kind |-> "undecodable"]],
   [source |-> "class", driver |-> Nil, requests |-> {}, config |-> [kind |-> "undecodable"]],
   [source |-> "claim", driver |-> "other", requests |-> {}, config |-> [kind |-> "undecodable"]],
   [source |-> "claim", driver |-> "cd", requests |-> {"r1"},
    config |-> [kind |-> "ComputeDomainChannelConfig", domain |-> "d"]],
   [source |-> "class", driver |-> "cd", requests |-> {},
    config |-> [kind |-> "ComputeDomainDaemonConfig", domain |-> "d"]]}

Result(driver, request, device, type) ==
  [driver |-> driver, request |-> request, device |-> device, type |-> type]

(* Two GPUs for one request and a MIG device; a device of another driver   *)
(* and a passthrough device; a channel and a daemon.                       *)
MCAllocations ==
  {[driver |-> "gpu", results |-> {Result("gpu", "r1", 1, "gpu"), Result("gpu", "r1", 2, "gpu"),
                                   Result("gpu", "r2", 3, "mig")}],
   [driver |-> "gpu", results |-> {Result("other", "r2", 1, "gpu"), Result("gpu", "r1", 4, "vfio")}],
   [driver |-> "cd", results |-> {Result("cd", "r1", 5, "channel"), Result("cd", "r2", 6, "daemon")}]}

MCGateSets ==
  {{"TimeSlicingSettings"}, {"TimeSlicingSettings", "MPSSupport"},
   {"DynamicMIG", "MPSSupport"}, {"PassthroughSupport", "MPSSupport"}}
=============================================================================
