SPECIFICATION Spec
CONSTANTS
  k1 = k1
  k2 = k2
  a1 = a1
  a2 = a2
  t1 = t1
  r1 = r1
  NTasks = 3
  Unkillable = {2}
  MaxLaunches = 6
  RestartPolicies <- MCPolicies
  Connection <- MCConnection
  AllocId <- MCAllocId
  TaskName <- MCTaskName
  Rest <- MCRest
  NoDelete = NoDelete
  Node = {n1, n2, n3}
  None = None
  MaxCalls = 3
SYMMETRY NodeSymmetry
INVARIANTS
  NothingOrphaned
  CompleteIsClean
  FirstRunRollsBack
  LaunchesBounded
  StopIsFinal
  RecoversAllocs
  TaskStatesBelong
  JoinIsSeen
  LeaveIsSeen
PROPERTY
  LeftIsFinal
CHECK_DEADLOCK FALSE
