SPECIFICATION Spec
CONSTANTS
  Reps = 2
  MaxFaults = 2
  Stalls = TRUE
PROPERTIES
  OnlyTheReasonIsLost
