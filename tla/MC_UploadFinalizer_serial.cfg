CONSTANTS
  epc1 = epc1
  epc2 = epc2
  link = link
  junk = junk
  Worker = {w1}
  Name = {n1, n2}
  Data <- MCData
  Unsafe <- MCUnsafe
  BadMagic <- MCBadMagic
  Torn = Torn
  None = None
  MaxWrites = 2
SPECIFICATION Spec
SYMMETRY Symmetry
PROPERTIES
  NoUploadIsLost
  ImplementsCustody
