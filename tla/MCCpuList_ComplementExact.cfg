CONSTANTS
  MCMalformed = MCMalformed
  Malformed <- MCMalformed
  CpuCount <- MCCpuCount
  Inputs <- MCAllInputs
SPECIFICATION Spec
INVARIANT ComplementExact
CHECK_DEADLOCK FALSE
