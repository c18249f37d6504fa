SPECIFICATION MemberSpec
CONSTANTS
  Node = {n1, n2}
  None = None
  MaxCalls = 4
SYMMETRY NodeSymmetry
CHECK_DEADLOCK FALSE
INVARIANT RejoinIsSeen
