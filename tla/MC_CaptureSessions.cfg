CONSTANTS
  CaptureId = {"s1", "s2"}
  Base = {"n"}
  Client = {"m1", "m2"}
  AP = {"ap1", "ap2"}
  Call = {"q1"}
  MaxCalls = 3
  MaxEdits = 0
  MaxPatches = 0
SPECIFICATION CapturesSpec
INVARIANT CaptureNameIsNotReused
CHECK_DEADLOCK FALSE
