SPECIFICATION HSpec
CONSTANTS
  e1 = e1
  e2 = e2
  e3 = e3
  Eval <- MCEval
  Priority <- MCPriority
  MAX_DEQUEUE = 3
  VISIBILITY = 1
  MaxSeq = 4
  MaxBlocked = 2
INVARIANTS
  DeliveryCap
  Conservation
  NoOvertaking
PROPERTY
  ImplementsBroker
