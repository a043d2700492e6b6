CONSTANTS
  n1 = n1  n2 = n2  a = a  b = b
  None = None
  Nodes = {n1, n2}
  IPs = {a, b}
  CliqueOf <- OneClique
  Clique = "c1"
  MaxNodes = 2
  NumNodes = 2
  GateSets <- EachGate
  SharedNodes = {n1, n2}
  MaxPods = 2
  MaxStarts = 2
  MaxFaults = 1

SPECIFICATION Spec
CHECK_DEADLOCK FALSE
SYMMETRY Symmetry

INVARIANTS
  IndexUnique
  PeersKnown
PROPERTY
  NameStable
