CONSTANTS
  N <- MCN
  MaxCycles <- MCMaxCycles
  AllCpus = FALSE
  HasDuration = TRUE
SPECIFICATION FairSpec
INVARIANT CleanupOnExit
CHECK_DEADLOCK FALSE
