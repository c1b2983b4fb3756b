SPECIFICATION FairSpec
CONSTANTS
  s1 = s1
  s2 = s2
  i1 = i1
  i2 = i2
  None = None
  Submissions <- MCSubmissions
  Ids <- TwoIds
  IdOf <- OwnIds
  Handlers = {h1}
  Payloads <- MCPayloads
  Codes <- MCCodes
  Bodies <- ThreeBodies
CHECK_DEADLOCK FALSE
PROPERTIES
  DroppedIsUnserved
