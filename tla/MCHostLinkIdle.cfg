SPECIFICATION Spec
CHECK_DEADLOCK FALSE
CONSTANTS
  HAL_MAX_MOTORS = 2
  Wrap = 1
  DshotResumeDelay = 0
  RxBuf = 192
  PassthroughIdleExit = 2
  MaxItems = 1
  AfterStop = 1
  MaxFaults = 0
  UsbBuf = 1
  Signature <- MCSignature
  MspItems <- MCOpeners
  FourWayItems <- MCFourWayItems
  Openers <- MCOpeners
  Closers <- MCClosers
  Breakable <- MCBreakable
  Query <- MCQuery
PROPERTIES PassthroughLastsItsIdleTime
