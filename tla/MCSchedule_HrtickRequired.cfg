CONSTANTS
  Width <- MCWidth
  Intervals <- MCIntervals
  Steps <- MCSteps
  ThreadCounts <- MCThreadCounts
  CpuCounts <- MCCpuCounts
  CalibTimes <- MCCalibTimes
  Features <- MCFeatures
SPECIFICATION Spec
INVARIANT HrtickRequired
CHECK_DEADLOCK FALSE
