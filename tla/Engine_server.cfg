SPECIFICATION Spec
CONSTANTS
  None = None
  e1 = e1
  e2 = e2
  c1 = c1
  c2 = c2
  c3 = c3
  c4 = c4
  Engines = {e1, e2}
  Callers = {c1, c2, c3, c4}
  Of <- MCOf
  Jobs <- MCJobs
  Assigned = {2, 3}
  PortText <- MCPortText
  DefaultPort <- MCDefaultPort
  Ephemeral = {}
  U16Max = 3
INVARIANTS
  TypeOK
  NoOrphan
  PublishedServes
  OneAddress
  UrlReachable
  ShutDownIsDown
PROPERTIES
  CallsReturn
CHECK_DEADLOCK FALSE
