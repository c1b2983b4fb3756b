SPECIFICATION Spec
CONSTANTS
  a1 = a1
  a2 = a2
  None = None
  Runs = {r1, r2}
  Accounts <- MCAccounts
  Requests <- AllRequests
  Adapters <- OnlyEvm
CHECK_DEADLOCK FALSE
INVARIANTS
  WrongViewIsGenuine
