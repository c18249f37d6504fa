SPECIFICATION Spec
CONSTANTS
  Node <- MCNode
  NodeSpec <- MCNodeSpec
  AllocSpec <- MCAllocSpec
  JobSpec <- MCJobSpec
  NoJob = NoJob
  Text <- MCText
  Dimension = {"cpu", "mem"}
  Half = 128
  MaxAllocs = 2
  MaxEvals = 2
INVARIANTS
  PlanFits
  PlanMaximal
  AcceptedStaysAccepted
  ParkedIsHopeless
CHECK_DEADLOCK FALSE
