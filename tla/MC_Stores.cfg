CONSTANTS
  Last = 2
  Runner = {u, v}
  MaxVersion = 2
  Run = {"r1"}
  Input <- InputFiles
  Role <- RoleOf
  Identity = {"k1"}
  Paired <- InBoth
  Listed <- Listing
  Patched = {"complete", "deleted"}
  Request = {"q1", "q2"}
  Fragile = {"b"}
  Selected <- AtFirst
  MaxChanges = 2
  MaxExecutions = 2
  Nothing = Nothing
  Project = {"p1", "p2"}
  Study = {"s1"}
  TestRun = {"r1"}
  Sample = {"x1"}
  Sender = {"q1", "q2"}
  ActiveScope = "badge"
  Keep = Keep
  MaxRequests = 4
  Name = {"n", "nn"}
  Length <- Lengths
  Content = {"c", "d"}
  Handler = {"h1", "h2"}
  MaxUploads = 2
  MaxEdits = 2
  Capture = {1, 2}
  Sizeless = {2}
  Corrupt = {1}
  MaxBytes = 2
  Download = {"w", "x"}
  StudyOf <- Studies
  NoWebStudy = "-"
  DefaultStudy = "default"
  MaxDownloads = 2
  MaxPasses = 2
  Attempt = {"a1", "a2"}
  Audio = {"heard", "missed", "partial"}
  Transcript <- Transcripts
  Unknown = Unknown
  MaxAmendments = 2
  MaxIngests = 2
  Badge = {"b1", "b2", "b3"}
  Allowed = {"b1", "b2"}
  Seed = {"b1", "b3"}
  MaxBadges = 1
  Window = 1
  MaxTime = 3
  AP = {"ap"}
  NoCount = NoCount
  MaxEvents = 3
  MaxDumps = 3
  MaxParses = 4
SPECIFICATION MCSpec
INVARIANTS
  RecordedIsInPlace
  NoIdentityLost
  TreeIsConsistent
  ListedAsStored
  HistoryIsOfItsFiles
  LedgerIsOneReport
  CollectedIsObserved
PROPERTIES
  EntriesSurviveReload
  CompleteIsOfTheSelection
CHECK_DEADLOCK FALSE
