SPECIFICATION SuiteSpec
CONSTANTS
  N = 2
  MaxInvocations = 2
  MaxEdits = 1
  Guarded = TRUE
  Orphans = FALSE
  Stalls = FALSE
  Paths = 3
  Grid = {1, 2}
  Impl = {1, 2}
  Sessions = {1, 2}
  Walls = {0, 1, 2}
  MaxRows = 3
  AcceptAt = 2
  Tiers = {"quick", "full"}
  Grids <- TwoVersions
  MaxCalls = 2
INVARIANTS
  ExistsMeansThisWorker
  OrphansAreNotRelaunched
  SweepAccountsForEvery
  OrphansAreAccountedFor
  ReportIsLikeForLike
  PublishedIsOfThisCall
PROPERTIES
  FreshResultKept
  SweepIsFinished
  ResumeKeepsMeasured
