SPECIFICATION FairSpec
CONSTANTS
  Byte <- MCByte
  Plans <- MCPlans
  WB_TIMEOUT_CYCLES = 2
  Answering <- MCAnswering
INVARIANTS ResponsesAreRight RegistersAreRight
PROPERTIES InStep EveryCommandAnswered
