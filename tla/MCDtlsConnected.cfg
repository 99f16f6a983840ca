SPECIFICATION Spec
CONSTANTS
  NULL = NULL
  Uses <- RenegotiationUses
  Fates = {"crash"}
  MaxQueued = 2
  MaxRandoms = 2
INVARIANTS
  ConnectedMeansFinished
CHECK_DEADLOCK FALSE
