CONSTANTS
  Width <- MCWidth
  Intervals <- MCIntervals
  Steps <- MCSteps
  ThreadCounts <- MCThreadCounts
  CpuCounts <- MCCpuCounts
  CalibTimes <- MCCalibTimes
  Features <- MCFeatures
SPECIFICATION Spec
INVARIANT RuntimeWithinDeadline UtilizationCap
CHECK_DEADLOCK FALSE
