CONSTANTS
  BaseRates <- MCBaseRates
  TargetRates <- MCTargetRates
  StepCounts <- MCStepCounts
  Durations <- MCDurations
  Losses <- MCLosses
  InitialMult = 1
  RpcMayFail = FALSE
SPECIFICATION Spec
INVARIANT RampHasRequestedSteps
