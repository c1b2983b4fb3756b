SPECIFICATION FairSpec
CONSTANTS
  s1 = s1
  s2 = s2
  i1 = i1
  i2 = i2
  None = None
  Submissions <- MCSubmissions
  Ids <- OneId
  IdOf <- ReusedId
  Handlers = {h1, h2, h3}
  Payloads <- MCPayloads
  Codes <- MCCodes
  Bodies <- TwoBodies
CHECK_DEADLOCK FALSE
INVARIANTS
  TypeOK
  AtMostOneAccepted
  OutcomeIsAccepted
  AcceptedLostOnlyToTimeout
  EndedIsUnserved
  CancelledOnlyByReuse
PROPERTIES
  ImplementsOneShot
  AwaitedEnds
