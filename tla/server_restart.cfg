SPECIFICATION FairSpec
CONSTANTS
  NoEval = NoEval
  j1 = j1
  n1 = n1
  n2 = n2
  Job = {j1}
  Node = {n1}
  Caller = {"c1"}
  Worker = {"w1", "w2"}
  Eval <- MCEval
  Priority <- MCPriority
  JobSpecs <- MCOneSpec
  NodeSpecs <- MCReadyNodes
  Text <- MCText
  Dimension = {"cpu"}
  Half = 128
  MAX_DEQUEUE = 3
  VISIBILITY = 1
  MaxSeq = 20
  MaxBlocked = 9
  MaxRequests = 2
  MaxRemote = 0
INVARIANTS
  PlacedOnce
PROPERTIES
  LeftoversEnd
  EveryEvalDecided
