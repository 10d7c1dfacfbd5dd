SPECIFICATION FairSpec
CONSTANTS
  Byte <- MCByte
  SYNC <- MCSync
  MAX_PAYLOAD_LEN = 2
  TIMEOUT_CYCLES = 2
  Frames <- MCFrames
  Scripts <- MCScripts
INVARIANTS TypeOK OnlyHostFrames InOrderAtMostOnce
PROPERTIES EveryFrameArrives
