SPECIFICATION Spec
CONSTANTS
  NULL = NULL
  Uses <- AllUses
  Fates = {"crash", "reused"}
  MaxQueued = 2
  MaxRandoms = 2
INVARIANTS
  TypeOK
  CompleteTranscript
  DrainComplete
  ConnectedQuiet
  NodesHaveParams
  PendingParams
  Protected
PROPERTIES
  AgreementSpec
  ClosingStays
CHECK_DEADLOCK FALSE
