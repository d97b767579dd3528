SPECIFICATION Spec
CONSTANTS
  MaxTxs = 5
INVARIANTS
  ProofVerifies
CHECK_DEADLOCK FALSE
