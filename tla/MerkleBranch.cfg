SPECIFICATION Spec
CONSTANTS
  MaxTxs = 33
INVARIANTS
  TypeOK
  RowsExact
  BranchLeads
CHECK_DEADLOCK FALSE
