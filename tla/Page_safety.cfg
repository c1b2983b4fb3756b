SPECIFICATION FairSpec
CONSTANTS
  a1 = a1
  a2 = a2
  None = None
  Runs = {r1, r2}
  Accounts <- MCAccounts
  Requests <- AllRequests
  Adapters <- AllAdapters
CHECK_DEADLOCK FALSE
INVARIANTS
  TypeOK
  OneSigningRun
  PinnedUnlessPicked
  SuccessIsAccepted
  SpinnerHasRun
PROPERTIES
  NeverSignsAgain
  WalletRespectsReject
  SpinnerEnds
