SPECIFICATION Spec
CONSTANTS
  g1 = g1  f1 = f1  v1 = v1  m1 = m1  m2 = m2  m3 = m3
  c1 = c1  c2 = c2  c3 = c3  c4 = c4  c5 = c5  c6 = c6
  i1 = i1  i2 = i2  i3 = i3
  h1 = h1  h2 = h2  k1 = k1
  None = None
  Boot = boot
  Handlers = {h1}
  Cleaners = {k1}
  Claims = {c1, c2, c3, c4, c5, c6}
  AdminClaims = {}
  DeletedClaims = {c1, c4}
  Workloads <- MigOrSharing
  Gpus = {g1}
  Ids = {i1, i2, i3}
  Devices = {f1, v1, m1, m2, m3}
  KindOf <- Kinds
  GpuOf <- OneGpu
  SlicesOf <- Placements
  DevicesOf <- Results
  SharingOf <- Configs
  GateSets <- EachGate
  MaxFaults = 1
SYMMETRY IdSymmetry
INVARIANTS DevicesKept MigTracked
PROPERTIES SharingKept LedgerSpec
