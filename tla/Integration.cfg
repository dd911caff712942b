SPECIFICATION Spec
CONSTANTS
  None = None
  MaxSubmits = 3
INVARIANTS ContractHandled SuccessIsPosted
CHECK_DEADLOCK FALSE
