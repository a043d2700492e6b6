SPECIFICATION FairSpec
CONSTANTS
  g1 = g1  g2 = g2  d1 = d1  d2 = d2
  None = None
  Gpus = {g1, g2}
  Devices = {d1, d2}
  GpuOf <- Parents
  Xids = {13, 48}
  SkippedXids = {13}
  MaxEvents = 3
  MaxFaults = 1
INVARIANTS HealthPublished
PROPERTIES ReportedApplied ShutdownEnds
CHECK_DEADLOCK FALSE
