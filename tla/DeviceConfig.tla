---------------------------- MODULE DeviceConfig ----------------------------
(***************************************************************************)
(* How opaque device configs travel from a claim to the devices: the       *)
(* validating webhook (cmd/webhook), the selection of a config for every   *)
(* allocated device in the GPU and the compute-domain kubelet plugins, and *)
(* Normalize and Validate of the API types (api/.../v1beta1).              *)
(*                                                                         *)
(* A config entry names the source it comes from (device class or claim),  *)
(* the driver it is addressed to, the requests it is for (none: all) and   *)
(* its decoded parameters.  What applying a config does to the node is in  *)
(* GpuLifecycle and ClaimLifecycle; here it either is refused or succeeds. *)
(***************************************************************************)
EXTENDS Integers, Sequences, FiniteSets, FiniteSetsExt

CONSTANTS
  Nil,           \* a nil pointer, an absent entry
  GateSets,      \* the sets of feature gates the driver is installed with
  Allocations,   \* a driver, and the results [driver, request, device, type]
  Entries,       \* the config entries a class or a claim may carry
  MaxEntries,    \* bound: entries per claim
  MaxDevice      \* the devices of the node, in the order of their UUIDs, are 1..MaxDevice

(* The shape of what the API server stores.                                *)
IsMps(m) ==
  /\ m = [percentage |-> m.percentage, limit |-> m.limit, perDevice |-> m.perDevice]
  /\ m.percentage \in Int \cup {Nil} /\ m.limit \in Int \cup {Nil}
  /\ \A key \in DOMAIN m.perDevice :
       key \in {"uuid", "index"} \X Int /\ m.perDevice[key] \in Int

IsSharing(c) ==
  /\ c = [kind |-> c.kind, strategy |-> c.strategy, ts |-> c.ts, mps |-> c.mps]
  /\ c.mps = Nil \/ IsMps(c.mps)
  /\ c.strategy = "none" => c.ts = Nil /\ c.mps = Nil

IsConfig(c) ==
  \/ c.kind \in {"GpuConfig", "MigDeviceConfig"} /\ IsSharing(c)
  \/ c.kind = "VfioDeviceConfig" /\ c = [kind |-> c.kind, policy |-> c.policy, api |-> c.api]
  \/ /\ c.kind \in {"ComputeDomainChannelConfig", "ComputeDomainDaemonConfig"}
     /\ c = [kind |-> c.kind, domain |-> c.domain]
  \/ c.kind = "undecodable"

TypesOf(driver) == IF driver = "gpu" THEN {"gpu", "mig", "vfio"} ELSE {"channel", "daemon"}

ASSUME ConfigAssumption ==
  /\ MaxEntries \in Nat /\ MaxDevice \in Nat
  /\ \A e \in Entries : e.source \in {"class", "claim"} /\ IsConfig(e.config)
  /\ \A a \in Allocations : \A r \in a.results :
       /\ r.device \in 1..MaxDevice
       /\ r.driver = a.driver => r.type \in TypesOf(a.driver)

VARIABLES
  gates,       \* the enabled feature gates
  claim,       \* the allocation: its driver and its results
  entries,     \* allocation.devices.config, in the API's order
  review,      \* what became of the request to the webhook
  outcome,     \* what Prepare made of the configs
  settings,    \* the config each result is prepared with: [from, config]
  limits       \* the pinned memory limits, in MB, of the devices under MPS

configVars == <<gates, claim, entries, review, outcome, settings, limits>>

(***************************************************************************)
(* Feature gates: what a component refuses to start with.                  *)
(***************************************************************************)
Exclusive ==
  {{"DynamicMIG", "PassthroughSupport"}, {"DynamicMIG", "NVMLDeviceHealthCheck"},
   {"DynamicMIG", "MPSSupport"}, {"PassthroughSupport", "NVMLDeviceHealthCheck"}}

ValidateFeatureGates(G) ==
  /\ "ComputeDomainCliques" \in G => "IMEXDaemonsWithDNSNames" \in G
  /\ \A pair \in Exclusive : ~ pair \subseteq G
  /\ "DeviceMetadata" \in G => "PassthroughSupport" \in G

(***************************************************************************)
(* The API types.  A GpuConfig or MigDeviceConfig has a sharing strategy   *)
(* ("none": no sharing given) and the settings of either strategy; "empty" *)
(* is a TimeSlicingConfig whose interval is nil.                           *)
(***************************************************************************)
Intervals == {"Default", "Short", "Medium", "Long"}

EmptyMps == [percentage |-> Nil, limit |-> Nil, perDevice |-> <<>>]

DefaultTo(strategy, G) ==
  IF strategy = "none" /\ "TimeSlicingSettings" \in G THEN "TimeSlicing" ELSE strategy

MpsOf(c, strategy, G) ==
  IF strategy = "MPS" /\ "MPSSupport" \in G /\ c.mps = Nil THEN EmptyMps ELSE c.mps

NormalizeGpu(c, G) ==
  LET s == DefaultTo(c.strategy, G) IN
  [c EXCEPT !.strategy = s,
            !.ts = IF s = "TimeSlicing" /\ "TimeSlicingSettings" \in G /\ @ = Nil
                   THEN "Default" ELSE @,
            !.mps = MpsOf(c, s, G)]

NormalizeMig(c, G) ==
  LET s == DefaultTo(c.strategy, G) IN
  [c EXCEPT !.strategy = s, !.mps = MpsOf(c, s, G)]

NormalizeVfio(c) ==
  [c EXCEPT !.policy = IF @ = Nil THEN "LegacyOnly" ELSE @,
            !.api = IF @ = Nil THEN FALSE ELSE @]

Normalize(c, G) ==
  CASE c.kind = "GpuConfig" -> NormalizeGpu(c, G)
    [] c.kind = "MigDeviceConfig" -> NormalizeMig(c, G)
    [] c.kind = "VfioDeviceConfig" -> NormalizeVfio(c)
    [] OTHER -> c

ValidateMps(m) ==
  IF m.percentage = Nil \/ m.percentage \in 0..100 THEN "ok" ELSE "error"

(* TimeSlicingConfig.Validate calls a method of *Interval: a nil one panics. *)
ValidateTimeSlicing(ts) ==
  CASE ts \in Intervals -> "ok" [] ts = "empty" -> "panic" [] OTHER -> "error"

(* GpuSharing.Validate looks at the settings of the chosen strategy only.  *)
ValidateSharing(c, G) ==
  CASE c.strategy = "none" -> "ok"
    [] c.strategy = "TimeSlicing" /\ "TimeSlicingSettings" \in G ->
         IF c.kind = "GpuConfig" THEN ValidateTimeSlicing(c.ts) ELSE "ok"
    [] c.strategy = "MPS" /\ "MPSSupport" \in G -> ValidateMps(c.mps)
    [] OTHER -> "error"

Validate(c, G) ==
  CASE c.kind \in {"GpuConfig", "MigDeviceConfig"} -> ValidateSharing(c, G)
    [] c.kind = "VfioDeviceConfig" ->
         IF c.policy \in {"LegacyOnly", "PreferIommuFD"} THEN "ok" ELSE "error"
    [] OTHER -> IF c.domain = "" THEN "error" ELSE "ok"

(***************************************************************************)
(* The webhook.  It reviews the entries of the claim (never those of the   *)
(* class) that are opaque and addressed to the GPU driver; VfioDeviceConfig *)
(* is not among the types it knows.  A panic is answered by net/http with  *)
(* a closed connection, and the chart's failurePolicy, Fail, denies.       *)
(***************************************************************************)
Reviewed == {"GpuConfig", "MigDeviceConfig",
             "ComputeDomainChannelConfig", "ComputeDomainDaemonConfig"}

(* Faulty variant: what cannot be decoded is skipped. *)
VerdictOfDecoded(e) ==
  CASE e.driver # "gpu" \/ e.config.kind = "undecodable" -> "ok"
    [] e.config.kind \notin Reviewed -> "error"
    [] OTHER -> Validate(Normalize(e.config, gates), gates)

Verdict(e) ==
  CASE e.driver # "gpu" -> "ok"
    [] e.config.kind \notin Reviewed -> "error"
    [] OTHER -> Validate(Normalize(e.config, gates), gates)

OfClaim(e) == e.source = "claim"

AdmitResourceClaimParameters ==
  /\ review = "unasked"
  /\ review' = IF \A i \in DOMAIN entries :
                    OfClaim(entries[i]) => Verdict(entries[i]) = "ok"
               THEN "allowed" ELSE "denied"
  /\ UNCHANGED <<gates, claim, entries, outcome, settings, limits>>

(***************************************************************************)
(* Selection.  GetOpaqueDeviceConfigs puts the entries of the class before *)
(* those of the claim; the defaults go to the front.  The list is scanned  *)
(* backwards.  A position is 0 for a default.                              *)
(***************************************************************************)

(* The loop that appends what belongs to S of a list, in order.            *)
Filter(list, S) ==
  LET f[k \in 0..Len(list)] ==
        IF k = 0 THEN <<>>
        ELSE IF list[k] \in S THEN Append(f[k - 1], list[k]) ELSE f[k - 1]
  IN f[Len(list)]

UpTo(n) == [i \in 1..n |-> i]

OfSource(s) == Filter(UpTo(Len(entries)), {i \in DOMAIN entries : entries[i].source = s})

(* Faulty variant: the class has the last word. *)
CandidatesClaimFirst == OfSource("claim") \o OfSource("class")

Candidates == OfSource("class") \o OfSource("claim")

(* An entry that is not opaque, or not decodable, fails the whole claim.   *)
ConfigsReadable ==
  \A i \in DOMAIN entries :
    /\ entries[i].driver # Nil
    /\ ~ (entries[i].driver = claim.driver /\ entries[i].config.kind = "undecodable")

OpaqueConfig(i) ==
  [from |-> i, requests |-> entries[i].requests, config |-> entries[i].config]

GetOpaqueDeviceConfigs ==
  LET mine == Filter(Candidates, {i \in DOMAIN entries : entries[i].driver = claim.driver}) IN
  [k \in DOMAIN mine |-> OpaqueConfig(mine[k])]

Default(c) == [from |-> 0, requests |-> {}, config |-> c]

DefaultSharing(kind) ==
  LET on == "TimeSlicingSettings" \in gates IN
  [kind |-> kind, strategy |-> IF on THEN "TimeSlicing" ELSE "none",
   ts |-> IF on /\ kind = "GpuConfig" THEN "Default" ELSE Nil, mps |-> Nil]

DefaultVfio == [kind |-> "VfioDeviceConfig", policy |-> "LegacyOnly", api |-> FALSE]

DefaultConfigs ==
  IF claim.driver = "gpu"
  THEN LET mig == Default(DefaultSharing("MigDeviceConfig"))
           gpu == Default(DefaultSharing("GpuConfig"))
       IN IF "PassthroughSupport" \in gates
          THEN <<Default(DefaultVfio), mig, gpu>> ELSE <<mig, gpu>>
  ELSE <<Default([kind |-> "ComputeDomainDaemonConfig", domain |-> ""]),
         Default([kind |-> "ComputeDomainChannelConfig", domain |-> ""])>>

Configs == DefaultConfigs \o GetOpaqueDeviceConfigs

(* The device type a driver's own config kinds are for.                    *)
TypeOf == [GpuConfig |-> "gpu", MigDeviceConfig |-> "mig", VfioDeviceConfig |-> "vfio",
           ComputeDomainChannelConfig |-> "channel", ComputeDomainDaemonConfig |-> "daemon"]

Recognized(driver) ==
  IF driver = "gpu" THEN {"GpuConfig", "MigDeviceConfig", "VfioDeviceConfig"}
                    ELSE {"ComputeDomainChannelConfig", "ComputeDomainDaemonConfig"}

Mismatch(c, result) ==
  /\ c.config.kind \in Recognized(claim.driver)
  /\ TypeOf[c.config.kind] # result.type

Matches(c, result) ==
  \/ result.request \in c.requests
  \/ c.requests = {} /\ ~ Mismatch(c, result)

Results == {r \in claim.results : r.driver = claim.driver}

Hits(list, result) == {k \in DOMAIN list : Matches(list[k], result)}

(* The config of every result; one that no config matches is left out.     *)
Selection ==
  LET list == Configs IN
  [r \in {x \in Results : Hits(list, x) # {}} |-> list[Max(Hits(list, r))]]

(***************************************************************************)
(* Applying a config to the results that share it.                         *)
(***************************************************************************)
ServedDevices(sel, c) == {r.device : r \in {x \in DOMAIN sel : sel[x] = c}}

(* The sorted UUIDs of the devices: a device is a number, its UUID's rank. *)
UUIDs(sel, c) == Filter(UpTo(MaxDevice), ServedDevices(sel, c))

(* uuidSet.Normalize: a key is a UUID or an index into the sorted list.    *)
DeviceOfKey(key, uuids) ==
  CASE key[1] = "uuid" /\ key[2] \in {uuids[i] : i \in DOMAIN uuids} -> key[2]
    [] key[1] = "index" /\ key[2] + 1 \in DOMAIN uuids -> uuids[key[2] + 1]
    [] OTHER -> Nil

LimitsValid(m, uuids) ==
  /\ m.limit = Nil \/ m.limit > 0
  /\ \A key \in DOMAIN m.perDevice :
       DeviceOfKey(key, uuids) # Nil /\ m.perDevice[key] > 0

(* Faulty variant: the default wins. *)
LimitOptionsDefaultLast(m, uuids, d) ==
  LET own == {m.perDevice[key] : key \in {k \in DOMAIN m.perDevice : DeviceOfKey(k, uuids) = d}}
  IN IF m.limit # Nil THEN {m.limit} ELSE own

(* MpsPerDevicePinnedMemoryLimit.Normalize: what device d may be limited   *)
(* to.  The map is walked in no fixed order, so two keys for one device    *)
(* leave either value.                                                     *)
LimitOptions(m, uuids, d) ==
  LET own == {m.perDevice[key] : key \in {k \in DOMAIN m.perDevice : DeviceOfKey(k, uuids) = d}}
  IN IF own # {} THEN own ELSE IF m.limit = Nil THEN {} ELSE {m.limit}

(* applySharingConfig, with GetTimeSlicingConfig and GetMpsConfig.         *)
ApplySharing(n, uuids) ==
  CASE n.strategy = "TimeSlicing" /\ "TimeSlicingSettings" \in gates ->
         IF n.kind = "GpuConfig" /\ n.mps # Nil THEN "error" ELSE "ok"
    [] n.strategy = "MPS" /\ "MPSSupport" \in gates ->
         IF "DynamicMIG" \in gates \/ n.ts # Nil \/ ~ LimitsValid(n.mps, uuids)
         THEN "error" ELSE "ok"
    [] OTHER -> "ok"

ApplyConfig(n, uuids) ==
  IF n.kind \in {"GpuConfig", "MigDeviceConfig"} THEN ApplySharing(n, uuids) ELSE "ok"

Prepared(sel, c) ==
  IF c.config.kind \notin Recognized(claim.driver) THEN "error"
  ELSE LET n == Normalize(c.config, gates)
           v == Validate(n, gates)
       IN IF v = "ok" THEN ApplyConfig(n, UUIDs(sel, c)) ELSE v

(* A named request that gets a config of another type fails the claim.     *)
SelectionFails(sel) == \E r \in DOMAIN sel : Mismatch(sel[r], r)

UnderMps(c) == c.config.kind \in {"GpuConfig", "MigDeviceConfig"} /\ c.config.strategy = "MPS"

DeviceLimits(sel, r) ==
  IF UnderMps(sel[r])
  THEN LimitOptions(Normalize(sel[r].config, gates).mps, UUIDs(sel, sel[r]), r.device)
  ELSE {}

Verdicts(sel) == {Prepared(sel, sel[r]) : r \in DOMAIN sel}

(* The configs in use are applied in no fixed order; the first that fails  *)
(* decides between an error and a panic.                                   *)
PrepareDevices ==
  LET sel == Selection
      verdicts == Verdicts(sel)
      limited == {r \in DOMAIN sel : DeviceLimits(sel, r) # {}}
  IN /\ review \in {"allowed", "absent"}
     /\ outcome = "none"
     /\ ValidateFeatureGates(gates)
     /\ IF ConfigsReadable /\ ~ SelectionFails(sel) /\ verdicts \subseteq {"ok"}
        THEN /\ outcome' = "prepared"
             /\ settings' = sel
             /\ \E f \in [limited -> UNION {DeviceLimits(sel, r) : r \in limited}] :
                  /\ \A r \in limited : f[r] \in DeviceLimits(sel, r)
                  /\ limits' = f
        ELSE /\ outcome' \in IF ConfigsReadable /\ ~ SelectionFails(sel)
                             THEN verdicts \ {"ok"} ELSE {"error"}
             /\ UNCHANGED <<settings, limits>>
     /\ UNCHANGED <<gates, claim, entries, review>>

(***************************************************************************)
(* The user and the administrator: entries are added before the claim is   *)
(* submitted, and a cluster may run without the webhook.                   *)
(***************************************************************************)
AddConfig(e) ==
  /\ review = "unasked"
  /\ Len(entries) < MaxEntries
  /\ entries' = Append(entries, e)
  /\ UNCHANGED <<gates, claim, review, outcome, settings, limits>>

NoWebhook ==
  /\ review = "unasked"
  /\ review' = "absent"
  /\ UNCHANGED <<gates, claim, entries, outcome, settings, limits>>

(* Passthrough devices are only advertised with the gate on.               *)
HasVfio(c) == \E r \in c.results : r.type = "vfio"

ConfigInit ==
  /\ gates \in GateSets
  /\ claim \in Allocations
  /\ HasVfio(claim) => "PassthroughSupport" \in gates
  /\ entries = <<>>
  /\ review = "unasked"
  /\ outcome = "none"
  /\ settings = <<>>
  /\ limits = <<>>

ConfigNext ==
  \/ \E e \in Entries : AddConfig(e)
  \/ AdmitResourceClaimParameters
  \/ NoWebhook
  \/ PrepareDevices

ConfigSpec == ConfigInit /\ [][ConfigNext]_configVars

-----------------------------------------------------------------------------
(***************************************************************************)
(* Properties.                                                             *)
(***************************************************************************)

(* An entry is meant for a result when it names the result's request, or   *)
(* names none and is for devices of its type.                              *)
MeantFor(i, r) ==
  /\ entries[i].driver = claim.driver
  /\ \/ r.request \in entries[i].requests
     \/ entries[i].requests = {} /\ TypeOf[entries[i].config.kind] = r.type

Stronger(i, j) ==
  IF entries[i].source = entries[j].source THEN i > j ELSE OfClaim(entries[i])

(* ConfigByPrecedence: when the configs of a claim are accepted, every     *)
(* device of the claim has exactly one, of the kind for its type, and it   *)
(* is the strongest meant for it: an entry of the claim before any of the  *)
(* class, a later one before an earlier one whatever the order in which    *)
(* the two sources are mixed, the default only when there is none          *)
(* (prepareDevices, getConfigResultsMap, GetOpaqueDeviceConfigs).          *)
ConfigByPrecedence ==
  outcome = "prepared" =>
    \A r \in Results :
      LET meant == {i \in DOMAIN entries : MeantFor(i, r)} IN
      /\ r \in DOMAIN settings
      /\ TypeOf[settings[r].config.kind] = r.type
      /\ IF meant = {} THEN settings[r].from = 0
         ELSE /\ settings[r].from \in meant
              /\ \A j \in meant \ {settings[r].from} : Stronger(settings[r].from, j)

(* A sharing config has settings of the chosen strategy only, and memory   *)
(* limits that any devices can have.                                       *)
PlainSharing(c) ==
  c.kind \in {"GpuConfig", "MigDeviceConfig"} =>
    /\ c.strategy = "TimeSlicing" => c.mps = Nil
    /\ c.strategy = "MPS" => c.ts = Nil
    /\ c.mps # Nil => c.mps.perDevice = <<>> /\ (c.mps.limit = Nil \/ c.mps.limit > 0)

(* Consistent: what the webhook does not see is in order.  Entries of a    *)
(* class pass the same review, and entries for the driver are of its kinds, *)
(* name requests of their type and have plain sharing settings.            *)
Consistent ==
  \A i \in DOMAIN entries :
    LET e == entries[i] IN
    /\ e.driver # Nil
    /\ ~ OfClaim(e) => Verdict(e) = "ok"
    /\ e.driver = claim.driver =>
         /\ e.config.kind \in Recognized(claim.driver) \union {"undecodable"}
         /\ \A r \in Results : r.request \in e.requests => TypeOf[e.config.kind] = r.type
         /\ PlainSharing(e.config)

(* AdmittedPrepares: a GPU claim that the webhook let through, and that is *)
(* consistent in what the webhook does not see, is not refused by the      *)
(* plugin afterwards: webhook and plugin decode, normalise and judge       *)
(* alike, and no set of gates a plugin starts with makes an admitted       *)
(* strategy unsupported (admitResourceClaimParameters, prepareDevices,     *)
(* applySharingConfig, ValidateFeatureGates).                              *)
AdmittedPrepares ==
  (review = "allowed" /\ claim.driver = "gpu" /\ Consistent) => outcome \in {"none", "prepared"}

(* LimitsOverride: the limit of a device under MPS is one that its own     *)
(* config gives for that device, by UUID or by its index among the devices *)
(* the config is applied to, whenever there is one, and the config's       *)
(* default otherwise; no other config's limit reaches it                   *)
(* (MpsPerDevicePinnedMemoryLimit.Normalize).                              *)
LimitsOverride ==
  outcome = "prepared" =>
    \A r \in {x \in Results : UnderMps(settings[x])} :
      LET m == Normalize(settings[r].config, gates).mps
          peers == {x.device : x \in {y \in Results : settings[y].from = settings[r].from
                                                        /\ y.type = r.type}}
          index == Cardinality({d \in peers : d < r.device})
          named == {m.perDevice[k] : k \in DOMAIN m.perDevice
                                             \intersect {<<"uuid", r.device>>, <<"index", index>>}}
      IN IF named # {} THEN r \in DOMAIN limits /\ limits[r] \in named
         ELSE IF m.limit # Nil THEN r \in DOMAIN limits /\ limits[r] = m.limit
         ELSE r \notin DOMAIN limits
=============================================================================
