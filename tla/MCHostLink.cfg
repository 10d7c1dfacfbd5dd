SPECIFICATION Spec
CHECK_DEADLOCK FALSE
CONSTANTS
  HAL_MAX_MOTORS = 2
  Wrap = 1
  DshotResumeDelay = 0
  RxBuf = 192
  PassthroughIdleExit = 1
  MaxItems = 4
  AfterStop = 1
  MaxFaults = 1
  UsbBuf = 1
  Signature <- MCSignature
  MspItems <- MCMspItems
  FourWayItems <- MCFourWayItems
  Openers <- MCOpeners
  Closers <- MCClosers
  Breakable <- MCBreakable
  Query <- MCQuery
INVARIANTS OnlyWholeFrames AsksTheConnectedEsc OkOnlyIfDone
PROPERTIES QueryIsAnswered
