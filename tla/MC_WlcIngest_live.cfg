CONSTANTS
  epc1 = epc1
  epc2 = epc2
  junk = junk
  w1 = w1
  w2 = w2
  n1 = n1
  n2 = n2
  Web = web
  Worker = {w1}
  Name = {n1, n2}
  Data <- MCData
  Unsafe = {}
  BadMagic <- MCBadMagic
  Torn = Torn
  None = None
  MaxWrites = 2
  Exports <- Distinct
  MaxRetries = 2
  Overlap = FALSE
  LateWrites = FALSE
  Troubles = {"disk", "web"}
  MaxTrouble = 3
SPECIFICATION FairSpec
INVARIANT
  FinalizedIsRetryable
PROPERTIES
  UploadsAreSettled
