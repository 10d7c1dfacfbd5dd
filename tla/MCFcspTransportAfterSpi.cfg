SPECIFICATION FairSpec
CONSTANTS
  Byte <- MCByte
  SYNC <- MCSync
  MAX_PAYLOAD_LEN = 2
  TIMEOUT_CYCLES = 8
  Hosts <- AfterSpiHosts
  FrameLen = 11
PROPERTY EveryFrameParsed
