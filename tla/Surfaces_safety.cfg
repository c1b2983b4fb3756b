SPECIFICATION Spec
CONSTANTS
  None = None
  Bad = Bad
  U32Max = 3
  U64Max = 200
  U256Max = 300
  AddressLen = 1
  HashLen = 2
  Calls = {c1}
  Chains = {"evm", "tron", "btc"}
  Ways = {"serve", "cli", "signer"}
  Envs <- MCEnvs
  Inputs <- MCInputs
  Answers <- MCAnswers
  Codes = {None, "WRONG_WALLET_ADDRESS"}
  TimedOut = TimedOut
  Cancelled = Cancelled
INVARIANTS
  TypeOK
  BoundAccount
  SameAccountServed
  OnNetwork
  UnnamedPlaceIsDefault
  PsbtAsked
  SamePsbt
  WireInverse
  NothingToSend
  PrintedReadsBack
  HonestReply
PROPERTIES
  EventuallyTold
CHECK_DEADLOCK FALSE
