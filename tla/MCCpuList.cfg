CONSTANTS
  MCMalformed = MCMalformed
  Malformed <- MCMalformed
  CpuCount <- MCCpuCount
  Inputs <- MCAscendingInputs
SPECIFICATION Spec
INVARIANT ListCanonical
INVARIANT ComplementExact
INVARIANT CountExact
CHECK_DEADLOCK FALSE
