SPECIFICATION SteadySpec
CONSTANTS
  NoEval = NoEval
  j1 = j1
  n1 = n1
  n2 = n2
  Job = {j1}
  Node = {n1, n2}
  Caller = {c1, c2}
  Worker = {"w1"}
  Eval <- MCEval
  Priority <- MCPriority
  JobSpecs <- MCJobSpecs
  NodeSpecs <- MCNodeSpecs
  Text <- MCText
  Dimension = {"cpu"}
  Half = 128
  MAX_DEQUEUE = 3
  VISIBILITY = 1
  MaxSeq = 12
  MaxBlocked = 3
  MaxRequests = 4
  MaxRemote = 1
INVARIANTS
  NoOversubscription
  NothingForgotten
PROPERTIES
  AllocsNeverMove
SYMMETRY CallerSymmetry
