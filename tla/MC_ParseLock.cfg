CONSTANTS
  r1 = r1
  r2 = r2
  r3 = r3
  Run <- MCRun
  NoLock = NoLock
  Timeout <- MCTimeout
  Slack = 2
  Floor = 4
  StartDelay = 1
SPECIFICATION FairSpec
INVARIANTS
  ParserHoldsLease
  OneRunAtWork
PROPERTIES
  LiveRowEndsByItsRun
  ImplementsParseMutex
  LeftoverRowsAreCleared
