CONSTANTS
  n1 = n1  n2 = n2  a = a  b = b
  None = None
  Nodes = {n1, n2}
  IPs = {a, b}
  CliqueOf <- OneClique
  Clique = "c1"
  MaxNodes = 1
  NumNodes = 1
  GateSets <- EachGate
  SharedNodes = {n1, n2}
  MaxPods = 2
  MaxStarts = 2
  MaxFaults = 1

SPECIFICATION FairSpec
CHECK_DEADLOCK FALSE

PROPERTIES
  DaemonListed
  NothingAbandoned
