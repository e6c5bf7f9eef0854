CONSTANTS
  N <- MCN
  MaxCycles <- MCMaxCycles
  AllCpus = FALSE
  HasDuration = TRUE
SPECIFICATION FairSpec
PROPERTY Termination
CHECK_DEADLOCK FALSE
