SPECIFICATION Spec
CONSTANTS
  BITS = 2
  baud_div = 6
  HOST_MAX = 2
  ESC_MAX = 3
  ReplyWaits = {7, 13}
  MAX_LEN = 2
  TIMEOUT = 4
  FrameClocks = {10, 36}
  AheadClocks = {0, 4}
  HostBytes <- MCHostBytes
  EscBytes <- MCEscBytes
INVARIANTS HostBytesHeard RepliesDelivered OneTalker
PROPERTIES EveryByteArrives
