SPECIFICATION FairSpec
CONSTANTS
  p1 = p1  p2 = p2  h1 = h1  h2 = h2  k1 = k1
  c1 = c1  c2 = c2  c3 = c3  d1 = d1
  None = None
  Procs = {p1}
  Handlers = {h1}
  Cleaners = {k1}
  ProcOf <- OneProc
  Claims = {c1, c2, c3}
  ChannelClaims = {c1, c2, c3}
  AdminClaims = {}
  ForeignClaims = {}
  LegacyClaims = {}
  NamelessClaims = {}
  DeletedClaims = {c1, c2}
  DeletedDomains = {}
  Domains = {d1}
  DomainOf <- OneDomain
  ConfigOf <- SomeRefused
  MaxFaults = 1
PROPERTIES StaleStartedResolved
