SPECIFICATION FairSpec
CONSTANTS
  Byte <- MCByte
  SYNC <- MCSync
  MAX_PAYLOAD_LEN = 4
  CrcStep <- MCCrcStep
  MAX_LEN = 2
  TIMEOUT = 1
  Traffic <- MCTraffic
INVARIANTS FramesIntact EscBytesIntact PortsGetTheirFrames ControlWaitsForTwo
PROPERTY EverythingSent
