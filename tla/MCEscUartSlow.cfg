SPECIFICATION Spec
CONSTANTS
  BITS = 2
  baud_div = 6
  HOST_MAX = 1
  ESC_MAX = 5
  ReplyWaits = {7}
  MAX_LEN = 2
  TIMEOUT = 6
  FrameClocks = {36}
  AheadClocks = {0}
  HostBytes <- MCHostBytes
  EscBytes <- MCEscBytes
INVARIANT RepliesDelivered
