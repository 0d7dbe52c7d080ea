SPECIFICATION WatchdogFairSpec
CONSTANTS
  Reps = 3
  MaxFaults = 3
  Stalls = TRUE
INVARIANTS
  WholeArtifact
PROPERTIES
  BreachLeadsToExit
