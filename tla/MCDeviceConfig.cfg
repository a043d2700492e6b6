SPECIFICATION ConfigSpec
CONSTANTS
  Nil = Nil
  GateSets <- MCGateSets
  Allocations <- MCAllocations
  Entries <- MCEntries
  MaxEntries = 3
  MaxDevice = 6
INVARIANTS ConfigByPrecedence AdmittedPrepares LimitsOverride
CHECK_DEADLOCK FALSE
