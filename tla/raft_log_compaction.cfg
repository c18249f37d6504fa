SPECIFICATION Spec
CONSTANTS
  Command = {a, b}
  Faults = {"compact"}
  MaxIndex = 3
  MaxFaults = 1
INVARIANTS
  AlwaysIndexed
CHECK_DEADLOCK FALSE
