SPECIFICATION SuiteSpec
CONSTANTS
  Datasets <- SomeDatasets
  Requests <- SomeRequests
  PackLen = 5
  Pool = 2
  BatchSize = 2
  Epochs = 2
  Depth = 3
  MaxEdits = 3
  MaxCalls = 3
  Buckets = {512, 1024, 2048}
  MaxSteps = 3
INVARIANTS
  BatchesHoldTheDataset
  NeighboursFill
  EnablingIsWhole
  NoStepAboveTheCap
  WindowMeasuresTraining
PROPERTIES
  EnablingKeepsFreeze
  RunsEnd
CHECK_DEADLOCK FALSE
