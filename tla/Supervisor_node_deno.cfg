SPECIFICATION Spec
CONSTANTS
  None = None
  MaxStarts = 3
  Lines = {"port", "text", "blank"}
INVARIANTS
  TypeOK
  SharedSpawn
  NoStray
  UrlOfShared

  
CHECK_DEADLOCK FALSE
