CONSTANTS
  epc1 = epc1
  epc2 = epc2
  junk = junk
  w1 = w1
  w2 = w2
  n1 = n1
  n2 = n2
  Web = web
  Worker = {w1}
  Name = {n1}
  Data <- MCData
  Unsafe = {}
  BadMagic <- MCBadMagic
  Torn = Torn
  None = None
  MaxWrites = 3
  Exports <- Anything
  MaxRetries = 2
  Overlap = FALSE
  LateWrites = TRUE
  Troubles = {"db", "restart", "web"}
  MaxTrouble = 3
SPECIFICATION Spec
INVARIANTS
  EvidenceBehindRow
  ParsedMeansComplete
  OneCapturePerFile
PROPERTIES
  ParsedIsFinal
