SPECIFICATION Spec
CONSTANTS
  Byte <- MCByte
  SYNC <- MCSync
  MAX_PAYLOAD_LEN = 2
  TIMEOUT_CYCLES = 8
  Hosts <- UartHosts
  FrameLen = 11
INVARIANT TagIsSource
