SPECIFICATION MuxSpec
CONSTANTS
  Motors = 2
  WATCHDOG_LIMIT = 2
  RegValues <- MCRegValues
INVARIANTS SilenceEndsPassthrough BridgeHearsItsMotor
PROPERTIES OneOwnerAtATime PassthroughOnlyOnHeader
