CONSTANTS
  Scans = {s1, s2}
  Timer = s1
  x = x
  y = y
  Attempts = {x, y}
  Scripts <- MCScripts
  Configured = 684
  MaxFaults = 1
  None = None
  NoValue = NoValue
  SequenceModulus = 8
  MaxDropout = 3
  MaxMisorder = 2
  StampModulus = 2048
  MinPackets = 3
  MinDuration = 200
  MaxGap = 300
  MaxError = 100
  MinPacketization = 150
  MaxPacketization = 250
  MaxJitter = 6
  MaxTransitDelta = 150
  KnownClocks = {1}
  ClockRequired = TRUE
SPECIFICATION MCSpec
INVARIANTS
  ParsedLogIsStored
  OnlyExplicitAttempts
  SheetsAreCutApart
  OnlyTheAskedGroupResolves
  PointsMeetTheirScans
  EveryPacketIsCounted
PROPERTY GrownLogIsParsed
CHECK_DEADLOCK FALSE
