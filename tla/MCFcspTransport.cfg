SPECIFICATION FairSpec
CONSTANTS
  Byte <- MCByte
  SYNC <- MCSync
  MAX_PAYLOAD_LEN = 2
  TIMEOUT_CYCLES = 8
  Hosts <- MCHosts
  FrameLen = 11
INVARIANTS TagTells LockHolds
PROPERTY EveryFrameParsedInTurn
