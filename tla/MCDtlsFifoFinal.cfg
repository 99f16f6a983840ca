SPECIFICATION Spec
CONSTANTS
  NULL = NULL
  Callbacks <- PskOnly
  Lossy <- Final
  MaxLosses = 1
  MaxRetransmit = 2
PROPERTIES
  HandshakeEnds
CHECK_DEADLOCK FALSE
