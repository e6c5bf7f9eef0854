CONSTANTS
  N <- MCN
  MaxCycles <- MCMaxCycles
  AllCpus = FALSE
  HasDuration = TRUE
SPECIFICATION FairSpec
INVARIANT MeasureOnlyWhenAllApplied
INVARIANT PidListComplete
PROPERTY TerminationIfCreated
PROPERTY AbstractStartup
PROPERTY BarrierLockstep
CHECK_DEADLOCK FALSE
