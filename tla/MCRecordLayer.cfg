SPECIFICATION Spec
CONSTANTS
  NULL = NULL
  InitialRseq = 1
  MaxHandshakes = 3
  MaxRecords = 3
INVARIANTS
  IInv
  NonceUnique
  CurrentParams
PROPERTIES
  EpochAdvances
  StaysProtected
