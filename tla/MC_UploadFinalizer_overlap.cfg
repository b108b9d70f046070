CONSTANTS
  epc1 = epc1
  epc2 = epc2
  link = link
  junk = junk
  Worker = {w1, w2}
  Name = {n1}
  Data <- MCData
  Unsafe <- MCUnsafe
  BadMagic <- MCBadMagic
  Torn = Torn
  None = None
  MaxWrites = 3
SPECIFICATION Spec
SYMMETRY Symmetry
INVARIANTS
  EvidenceIsOneVersion
