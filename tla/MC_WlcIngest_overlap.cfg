CONSTANTS
  epc1 = epc1
  epc2 = epc2
  junk = junk
  w1 = w1
  w2 = w2
  n1 = n1
  n2 = n2
  Web = web
  Worker = {w1, w2}
  Name = {n1}
  Data <- MCData
  Unsafe = {}
  BadMagic <- MCBadMagic
  Torn = Torn
  None = None
  MaxWrites = 2
  Exports <- Captures
  MaxRetries = 1
  Overlap = TRUE
  LateWrites = TRUE
  Troubles = {"db", "web", "disk", "sync"}
  MaxTrouble = 1
SPECIFICATION Spec
SYMMETRY Symmetry
INVARIANTS
  OneParserRuns
  RowLinksCapture
