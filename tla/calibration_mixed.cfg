SPECIFICATION SuiteSpec
CONSTANTS
  Arms = 2
  Start = 2
  Granularity = 2
  Ceiling = 20
  Attempts = 2
  Limits = {1, 5, 11, 13, 30}
  Flakes = 0
  Invocations = 2
  Gib = 1
  Machines <- SomeMachines
  Burst = 3
  Surge = 4
  Shapes <- Models
  Calib <- Coefficients
  Unit = 8
  Step = 4
  Tile = 6
  Cfgs <- TrainConfigs
  Budgets <- ByteBudgets
  Ceilings = {0, 14}
  MlxVersions <- Installed
  Argvs <- CommandLines
  GroupDefault = 8
  Heads = 2
  Width = 6
  Saved = 3
  LossKernel = 1
  LossChunked = 2
  Planes <- StockPlanes
  Manifests <- FitManifests
  FirstFile <- FirstCalibration
  MaxRuns = 2
  Writers = {"w1", "w2"}
  Labels = {"short", "long"}
  Bytes = {0, 5, 7, 10}
  Docs <- Documents
  Under = 5
  Over = 3
  Den = 10
  Quantities = {"marginal", "total"}
  MaxBudget = 12
INVARIANTS
  EnvelopeCoversItsAnchors
CHECK_DEADLOCK FALSE
