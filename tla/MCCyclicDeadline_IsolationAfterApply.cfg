CONSTANTS
  N <- MCN
  MaxCycles <- MCMaxCycles
  AllCpus = FALSE
  HasDuration = TRUE
SPECIFICATION FairSpec
INVARIANT IsolationAfterApply
CHECK_DEADLOCK FALSE
