SPECIFICATION Spec
CONSTANTS
  NULL = NULL
  Callbacks <- Variants
  Lossy <- Early
  MaxLosses = 3
  MaxRetransmit = 2
PROPERTIES
  EventuallyConnected
CHECK_DEADLOCK FALSE
