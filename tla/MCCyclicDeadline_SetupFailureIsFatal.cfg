CONSTANTS
  N <- MCN
  MaxCycles <- MCMaxCycles
  AllCpus = FALSE
  HasDuration = TRUE
SPECIFICATION FairSpec
INVARIANT SetupFailureIsFatal
CHECK_DEADLOCK FALSE
