CONSTANTS
  epc1 = epc1
  epc2 = epc2
  junk = junk
  w1 = w1
  w2 = w2
  n1 = n1
  n2 = n2
  Web = web
  Worker = {w1}
  Name = {n1, n2}
  Data <- MCData
  Unsafe = {}
  BadMagic <- MCBadMagic
  Torn = Torn
  None = None
  MaxWrites = 2
  Exports <- Captures
  MaxRetries = 1
  Overlap = FALSE
  LateWrites = TRUE
  Troubles = {"db", "restart"}
  MaxTrouble = 2
SPECIFICATION Spec
SYMMETRY NameSymmetry
INVARIANTS
  NoContentParsedTwice
