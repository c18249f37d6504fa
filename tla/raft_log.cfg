SPECIFICATION Spec
CONSTANTS
  Command = {a, b}
  Faults = {"torn", "compact", "rewrite_crash", "rewrite_fail"}
  MaxIndex = 3
  MaxFaults = 2
INVARIANTS
  IndexMatches
  AckedKept
  CatchesUp
  BrokenOnlyByTear
CHECK_DEADLOCK FALSE
