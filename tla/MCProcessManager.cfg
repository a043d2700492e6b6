SPECIFICATION FairSpec
CONSTANTS
  None = None
  Modes <- BothModes
  MaxUpdates = 3
  MaxFaults = 2
INVARIANTS OneChild WaitReady ChildInformed
PROPERTIES ChildReplaced ShutdownCompletes
CHECK_DEADLOCK FALSE
