CONSTANTS
  BaseRates <- MCBaseRates
  TargetRates <- MCTargetRates
  StepCounts <- MCStepCounts
  Durations <- MCDurations
  Losses <- MCLosses
  InitialMult = 1
  RpcMayFail = TRUE
SPECIFICATION Spec
INVARIANT PassedVerdictsSound
INVARIANT RampProgress
