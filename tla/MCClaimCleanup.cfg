SPECIFICATION Spec
CONSTANTS
  p1 = p1  p2 = p2  h1 = h1  h2 = h2  k1 = k1
  c1 = c1  c2 = c2  c3 = c3  d1 = d1
  None = None
  Procs = {p1}
  Handlers = {h1}
  Cleaners = {k1}
  ProcOf <- OneProc
  Claims = {c1, c2, c3}
  ChannelClaims = {c1, c2}
  AdminClaims = {c2}
  ForeignClaims = {}
  LegacyClaims = {c1}
  NamelessClaims = {c3}
  DeletedClaims = {c1, c2}
  DeletedDomains = {d1}
  Domains = {d1}
  DomainOf <- OneDomain
  ConfigOf <- AllValid
  MaxFaults = 1
INVARIANTS NothingUntracked PreparedStaysPrepared
PROPERTIES LedgerSpec
