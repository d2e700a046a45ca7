SPECIFICATION Spec
CONSTANTS
  NONE = NONE
  Nodes = {n1, n2}
  Leaders = {n1, n2}
  Quorums <- AllNodes
  NumWids = 2
  Window = 1
  MaxSeq = 3
  MaxFaults = 1
INVARIANTS WidConsumedOnce
