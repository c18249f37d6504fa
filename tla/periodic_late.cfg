SPECIFICATION PeriodicSpec
CONSTANTS
  Schedule = {{2, 3, 5}}
  Unparsable = Unparsable
  MaxClock = 6
CHECK_DEADLOCK FALSE
INVARIANT NextAfterArgument
