CONSTANTS
  Deadline <- MCDeadline
  Runtime <- MCRuntime
  MaxTime <- MCMaxTime
  MaxCycles <- MCMaxCycles
  TimeMod <- MCTimeMod
SPECIFICATION Spec
INVARIANT NoNegativeLatency
INVARIANT NoDrift
INVARIANT StatsMatchSamples
CHECK_DEADLOCK FALSE
