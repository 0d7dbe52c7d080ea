SPECIFICATION FairSpec
CONSTANTS
  Reps = 3
  MaxFaults = 3
  Stalls = FALSE
INVARIANTS
  BreachIsRecorded
  BreachEndsProcess
  AckedCheckpointOnDisk
PROPERTIES
  BreachRecordStands
  KeepsContract
  WorkerEnds
