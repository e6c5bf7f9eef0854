CONSTANTS
  Deadline <- MCDeadline
  Runtime <- MCRuntime
  MaxTime <- MCMaxTime
  MaxCycles <- MCMaxCycles
  TimeMod <- MCTimeMod
SPECIFICATION Spec
INVARIANT MinIsMinimum
CHECK_DEADLOCK FALSE
