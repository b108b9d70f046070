CONSTANTS
  epc1 = epc1
  epc2 = epc2
  junk = junk
  w1 = w1
  w2 = w2
  n1 = n1
  n2 = n2
  Web = web
  Worker = {w1}
  Name = {n1}
  Data <- MCData
  Unsafe = {}
  BadMagic <- MCBadMagic
  Torn = Torn
  None = None
  MaxWrites = 1
  Exports <- Distinct
  MaxRetries = 2
  Overlap = FALSE
  LateWrites = FALSE
  Troubles = {"db"}
  MaxTrouble = 1
SPECIFICATION Spec
INVARIANT
  FinalizedIsRetryable
