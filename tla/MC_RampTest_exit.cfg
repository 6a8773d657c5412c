\* No RPC fails: the exits come from the arithmetic of lines 92, 104, 108, 109.
CONSTANTS
  BaseRates <- MCBaseRates
  TargetRates <- MCTargetRates
  StepCounts <- MCStepCounts
  Durations <- MCPositiveDurations
  Losses <- MCLosses
  InitialMult = 1
  RpcMayFail = FALSE
SPECIFICATION Spec
INVARIANT TrafficStoppedAtExit
