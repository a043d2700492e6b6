SPECIFICATION FairSpec
CONSTANTS
  r1 = r1  r2 = r2  h1 = h1  c1 = c1
  n1 = n1  n2 = n2  k1 = k1  k2 = k2
  None = None
  Gone = Gone
  Replicas = {r1, r2}
  FirstLeaders = {r1}
  Handlers = {h1}
  Claims = {c1}
  Names = {n1, n2}
  Keys = {k1, k2}
  NameOf <- Hash
  SpecConfigs <- Generated
  ClassConfigs <- NoClass
  AdminPools <- Squatting
  DeletableClaims = {c1}
  DeletablePools = {n2}
  ReadyPools = {n1}
  MaxFaults = 1
INVARIANTS BoundPoolServes GeneratedPoolInjected
PROPERTIES BoundOnce NoClaimForgotten
CHECK_DEADLOCK FALSE
