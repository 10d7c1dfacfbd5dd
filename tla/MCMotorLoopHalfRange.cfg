SPECIFICATION Spec
CONSTANTS
  HAL_MAX_MOTORS = 2
  Wrap = 12
  DshotResumeDelay = 1
  OverrideTimeout = 1
  StaleTimeout = 3
  Horizon = 7
  Vectors <- MCVectors
INVARIANT OffOnlyAroundPassthrough
