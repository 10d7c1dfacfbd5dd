CONSTANTS
  Depth = 4
  Entries = {e1, e2}
SPECIFICATION FifoSpec
INVARIANTS
  PointersAgree
PROPERTIES
  ImplementsBoundedFifo
