SPECIFICATION SuiteSpec
CONSTANTS
  Chains = 2
  Shapes <- SmallShapes
  Budget = 15
  CommitElems = 10
  CommitOps = 3
  ForeignElems = {0, 4}
  Rounding = FALSE
  TrainChains = 2
  TrainShapes <- LargeShapes
  TrainBudget = 14
  Bodies = {1, 2}
  CallLengths <- RowCounts
  CallVocabs = {3, 20}
  Speeds = {2, 4, 32}
  Powers = {1, 2, 4, 8, 16, 32, 64}
  Floor = 2
  HardCap = 8
  RateBudget = 10
  MaxTotal = 25
  FloorRate = 2
  MaxCalls = 2
  MaxRows = 5
  Block = 2
  Slabs = 2
  Heads = 2
  LossLengths = {1, 3}
  LossVocabs = {1, 5}
  Tiles = {3, 8}
  Columns = 2
  Buckets <- MeasuredRows
  Depths = {1, 8, 18}
  QuantDepths = {16, 48}
  Group = 16
  Widths = {7, 20, 32}
  Heights = {1, 8}
INVARIANTS
  RealBufferWithinBudget
