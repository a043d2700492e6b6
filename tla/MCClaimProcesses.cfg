SPECIFICATION ClusterFairSpec
CONSTANTS
  p1 = p1  p2 = p2  h1 = h1  h2 = h2  k1 = k1
  c1 = c1  c2 = c2  c3 = c3  d1 = d1
  None = None
  Procs = {p1, p2}
  Handlers = {h1, h2}
  Cleaners = {}
  ProcOf <- TwoProcs
  Claims = {c1, c3}
  ChannelClaims = {c1}
  AdminClaims = {}
  ForeignClaims = {}
  LegacyClaims = {}
  NamelessClaims = {}
  DeletedClaims = {}
  DeletedDomains = {}
  Domains = {d1}
  DomainOf <- OneDomain
  ConfigOf <- AllValid
  MaxFaults = 1
INVARIANTS NoLostUpdate
PROPERTIES PreparedAtMostOnce CodependentPrepares
CHECK_DEADLOCK FALSE
