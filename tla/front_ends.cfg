SPECIFICATION Spec
CONSTANTS
  good = good
  other = other
  invalid = invalid
  c1 = c1
  b1 = b1
  b2 = b2
  None = None
  NamePart <- MCNamePart
  Prefix <- MCPrefix
  Key <- MCKey
  Body <- MCBody
  Valid <- MCValid
  MaxLog = 3
  Conn <- MCConn
  MaxCalls = 3
  Generation <- MCGeneration
  Missing = Missing
  Malformed = Malformed
  Foreign = Foreign
  Nothing = Nothing
  Failed = Failed
  Schedule <- MCSchedule
  Unparsable = Unparsable
  MaxClock = 6
  Builder <- MCBuilder
  EvalPriority = {50, 80}
  NoQueue = NoQueue
  MaxRegistered = 3
  FileText <- MCFileText
  EnvText <- Source
  CliText <- Source
  MaxRuns = 3
INVARIANTS
  Replayable
  SavedLoads
  AnswersOfOneMoment
  OwnAnswer
  BuiltIsCoherent
  FollowsSchedule
  RegisteredIsDequeued
  Precedence
  StatusOfAll
PROPERTIES
  CallEnds
  SignalEnds
CHECK_DEADLOCK FALSE
