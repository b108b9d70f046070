CONSTANTS
  s1 = s1
  a1 = a1  a2 = a2
  r1 = r1  r2 = r2
  g1 = g1  g2 = g2
  ap1 = ap1  ap2 = ap2
  Session <- MCSession
  Attempt <- MCAttempt
  Home <- MCHome
  Request <- MCRequest
  Kind <- MCKind
  SessionState <- MCSessionState
  Group <- MCGroup
  Report <- MCReport
  Nothing = Nothing
  MaxEvents = 3
  MaxSelections = 2
  MaxEvidence = 1
  Command <- MCRequest
  Id <- MCAttempt
  Result = {"heard"}
  Unset = Nothing
  MaxAppends = 2
  MaxCrashes = 1
  MaxInits = 2
  MaxWork = 4
  CaptureId <- MCAttempt
  Base = {"n"}
  Client <- MCGroup
  AP = {ap1, ap2}
  Call <- MCRequest
  MaxCalls = 3
  MaxEdits = 1
  MaxPatches = 1
SPECIFICATION MCSpec
CONSTRAINT Bounded
SYMMETRY Symmetry
INVARIANTS
  OneOpenAttempt
  TimelineAgreesWithRows
  OneOpenInIndex
  AcknowledgedStays
  CaptureNamesApart
  LegsFitTheirSession
PROPERTIES
  CompletedStaysCompleted
CHECK_DEADLOCK FALSE
