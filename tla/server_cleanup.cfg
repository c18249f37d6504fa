SPECIFICATION SteadySpec
CONSTANTS
  NoEval = NoEval
  j1 = j1
  n1 = n1
  n2 = n2
  Job = {j1}
  Node = {n1}
  Caller = {"c1"}
  Worker = {"w1"}
  Eval <- MCEval
  Priority <- MCPriority
  JobSpecs <- MCOneSpec
  NodeSpecs <- MCReadyNodes
  Text <- MCText
  Dimension = {"cpu"}
  Half = 128
  MAX_DEQUEUE = 3
  VISIBILITY = 1
  MaxSeq = 12
  MaxBlocked = 3
  MaxRequests = 3
  MaxRemote = 0
INVARIANTS
  CleanupStopsAllocs
