SPECIFICATION MuxSpec
CONSTANTS
  Motors = 2
  WATCHDOG_LIMIT = 2
  RegValues <- MCRegValues
PROPERTY PassthroughLastsUntilSilence
