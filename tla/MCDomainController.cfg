SPECIFICATION FairSpec
CONSTANTS
  None = None
  MaxFaults = 1
  MaxStops = 1
  MaxLabels = 1
INVARIANTS TeardownOrder ObjectsKept
PROPERTIES DomainRemoved NothingLeft DomainProvisioned
CHECK_DEADLOCK FALSE
