------------------------------ MODULE KernelMC ------------------------------
(***************************************************************************)
(* The kernels and what launches them, for TLC: the launch planner         *)
(* (LaunchPlan), the calibration of its rates (RateCalibration), the       *)
(* bodies it launches (KernelBlocks), the loss (CrossEntropy, MmaTile) and *)
(* the recurrent layers (GatedDelta).  One part runs in each behaviour; of *)
(* LaunchPlan also the plan of two chains, with sums that round up.        *)
(* The scale of a shape is 1:5*10^6 elements and some 10^9 MACs; what      *)
(* matters is on which side of the thresholds a chain falls.               *)
(***************************************************************************)
EXTENDS LaunchPlan, FiniteSets

CONSTANTS
  TrainChains, TrainShapes, TrainBudget,                          \* of the large chains
  Bodies, CallLengths, CallVocabs, Speeds, Powers, Floor, HardCap,
  RateBudget, MaxTotal, FloorRate, MaxCalls,                      \* of RateCalibration
  MaxRows, Block, Slabs, Heads,                                   \* of KernelBlocks
  LossLengths, LossVocabs, Tiles, Columns, Buckets,               \* of CrossEntropy
  Depths, QuantDepths, Group, Widths, Heights                     \* of MmaTile

VARIABLES
  part,                                                          \* the part that runs
  tShape, tPc, tChain, tRow, tModel, tPlan, tEncoded, tReal,     \* of the two chains
  speed, cache, call, size, stage, took, rate, last, used, calls,  \* of RateCalibration
  kernel, n, seg, cuts, range, grid, tile, out,                  \* of KernelBlocks
  ask, phase, base, at, reg, sum, tgt, dhIn, dhOut, dw,          \* of CrossEntropy
  head, d, tcols, rows, d0, hoisted, acc, sums, stored, dh,      \* of MmaTile
  step,                                                          \* pc of the last and of rates
  input, chunk, ci, st, ys                                       \* of GatedDelta

planVars == vars
chainsVars == <<tShape, tPc, tChain, tRow, tModel, tPlan, tEncoded, tReal>>
rateVars == <<speed, cache, call, size, stage, took, rate, last, used, calls>>
blocksVars == <<kernel, n, seg, cuts, range, grid, tile, out>>
lossVars == <<ask, phase, base, at, reg, sum, tgt, dhIn, dhOut, dw>>
mmaVars == <<head, d, tcols, rows, d0, hoisted, acc, sums, stored, dh>>
deltaVars == <<input, chunk, ci, st, ys>>
suiteVars == <<part, planVars, chainsVars, rateVars, blocksVars, lossVars, mmaVars,
               step, deltaVars>>

\* Every mixture of small and large footprints, outputs credited or not
\* (0: dK/dV), row and block alignment, and masks.
AllShapes == [rows : {5, 8}, pair : {1, 2}, live : {0, 4, 12}, out : {0, 1, 3},
              align : {1, 3}, causal : BOOLEAN]

\* Footprints well below the threshold: a short context, or few heads.
SmallShapes == [rows : {3}, pair : {2}, live : {2}, out : {0},
                align : {1}, causal : {TRUE}]

\* Chains whose footprints reach the threshold with one dispatch, planned with sums
\* that round up.
Training ==
  INSTANCE LaunchPlan WITH
    Chains <- TrainChains, Budget <- TrainBudget, Rounding <- TRUE, Shapes <- TrainShapes,
    shape <- tShape, pc <- tPc, chain <- tChain, row <- tRow, model <- tModel,
    plan <- tPlan, encoded <- tEncoded, real <- tReal

ASSUME ChainsAssumption ==
  /\ TrainChains \in Nat \ {0} /\ TrainBudget \in Nat
  /\ TrainShapes \subseteq Shape /\ \A s \in TrainShapes : s.live >= CommitElems

LargeShapes == [rows : {5}, pair : {1, 2}, live : {12}, out : {0, 1}, align : {1, 2},
                causal : {TRUE}]

Rate == INSTANCE RateCalibration WITH
          kind <- part, pc <- step, Lengths <- CallLengths, Vocabs <- CallVocabs,
          Budget <- RateBudget

\* A context has a row, a vocabulary at least the columns of the smallest probe, and
\* every number of rows has its power of two.
ASSUME RateAssumption ==
  /\ Bodies \subseteq Nat \ {0} /\ Speeds \subseteq Nat \ {0}
  /\ \A k \in Rate!Kinds : CallLengths[k] \subseteq Nat \ {0}
  /\ CallVocabs \subseteq Nat /\ \A v \in CallVocabs : v >= Floor
  /\ Powers \subseteq Nat \ {0} /\ IsFiniteSet(Powers) /\ {1, Floor} \subseteq Powers
  /\ HardCap \in Nat /\ Floor <= HardCap
  /\ {RateBudget, MaxTotal, FloorRate, MaxCalls} \subseteq Nat

RowCounts == [attention |-> {3, 8, 12}, ce |-> {1, 4}]

Body == INSTANCE KernelBlocks

ASSUME BodyAssumption ==
  MaxRows \in Nat /\ {Block, Slabs, Heads} \subseteq Nat \ {0}

Loss == INSTANCE CrossEntropy WITH Lengths <- LossLengths, Vocabs <- LossVocabs

ASSUME LossAssumption ==
  /\ LossLengths \subseteq Nat \ {0} /\ LossVocabs \subseteq Nat \ {0}
  /\ Tiles \subseteq Nat \ {0} /\ Columns \in Nat \ {0}
  /\ IsFiniteSet(DOMAIN Buckets) /\ DOMAIN Buckets # {} /\ DOMAIN Buckets \subseteq Nat
  /\ \A b \in DOMAIN Buckets : Buckets[b] \in Nat \ {0}

\* Two measured row counts, a factor of four apart like those of the table.
MeasuredRows == [b \in {1, 4} |-> IF b = 1 THEN 1 ELSE 2]

Lane == INSTANCE MmaTile WITH pc <- step, part <- sums

\* A scale is shared by whole fragments; a simdgroup has 32 columns and 8 rows.
ASSUME LaneAssumption ==
  /\ Depths \subseteq Nat \ {0} /\ QuantDepths \subseteq Nat \ {0}
  /\ Group \in Nat \ {0} /\ Group % 8 = 0
  /\ Widths \subseteq 1..32 /\ Heights \subseteq 1..8

\* Two tokens that write, erase and read along overlapping keys.
Delta == INSTANCE GatedDelta WITH
           Prime <- 5, Lengths <- {1, 3, 7}, ChunkSizes <- {2, 3, 7}, SubBlock <- 3,
           Tokens <- {[q |-> <<1, 2>>, k |-> <<1, 1>>, v |-> 3, g |-> 2, b |-> 1],
                      [q |-> <<0, 1>>, k |-> <<2, 1>>, v |-> 1, g |-> 3, b |-> 4]},
           Starts <- {<<1, 3>>}

-----------------------------------------------------------------------------
(* A part that does not run rests. *)

PlanRests == shape = [c \in Chain |-> CHOOSE s \in Shapes : TRUE] /\ Init
ChainsRest == /\ tShape = <<>> /\ tPc = "rests" /\ tChain = 0 /\ tRow = 0
              /\ tModel = <<>> /\ tPlan = <<>> /\ tEncoded = <<>> /\ tReal = <<>>
RatesRest == /\ speed = <<>> /\ cache = <<>> /\ call = <<>> /\ size = 0 /\ stage = 0
             /\ took = <<>> /\ rate = 0 /\ last = <<>> /\ used = <<>> /\ calls = 0
BlocksRest == /\ kernel = <<>> /\ n = 0 /\ seg = <<>> /\ cuts = {} /\ range = <<>>
              /\ grid = {} /\ tile = <<>> /\ out = <<>>
LossRests == /\ ask = <<>> /\ phase = "rests" /\ base = 0 /\ at = <<>> /\ reg = <<>>
             /\ sum = <<>> /\ tgt = <<>> /\ dhIn = <<>> /\ dhOut = <<>> /\ dw = <<>>
LaneRests == /\ head = "rests" /\ d = 0 /\ tcols = 0 /\ rows = 0 /\ d0 = 0 /\ hoisted = 0
             /\ acc = <<>> /\ sums = <<>> /\ stored = <<>> /\ dh = <<>>
DeltaRests == input = <<>> /\ chunk = 0 /\ ci = 0 /\ st = <<>> /\ ys = <<>>

Rests(parts) ==
  /\ "launch" \in parts => PlanRests
  /\ "training" \in parts => ChainsRest
  /\ "rates" \in parts => RatesRest
  /\ "body" \in parts => BlocksRest
  /\ "loss" \in parts => LossRests
  /\ "lane" \in parts => LaneRests
  /\ {"rates", "lane"} \subseteq parts => step = "rests"
  /\ "delta" \in parts => DeltaRests

Parts == {"launch", "training", "rates", "body", "loss", "lane", "delta"}

SuiteInit ==
  \/ part = "launch" /\ Init /\ Rests(Parts \ {"launch"})
  \/ part = "training" /\ Training!Init /\ Rests(Parts \ {"training"})
  \/ part \in Rate!Kinds /\ Rate!Init /\ Rests(Parts \ {"rates"})
  \/ part = "body" /\ Body!Init /\ Rests(Parts \ {"body"})
  \/ part = "loss" /\ Loss!Init /\ Rests(Parts \ {"loss"})
  \/ part = "lane" /\ Lane!Init /\ Rests(Parts \ {"lane"})
  \/ part = "delta" /\ Delta!Init /\ Rests(Parts \ {"delta"})

Still(parts) ==
  /\ "launch" \in parts => UNCHANGED planVars
  /\ "training" \in parts => UNCHANGED chainsVars
  /\ "rates" \in parts => UNCHANGED rateVars
  /\ "body" \in parts => UNCHANGED blocksVars
  /\ "loss" \in parts => UNCHANGED lossVars
  /\ "lane" \in parts => UNCHANGED mmaVars
  /\ {"rates", "lane"} \subseteq parts => UNCHANGED step
  /\ "delta" \in parts => UNCHANGED deltaVars
  /\ UNCHANGED part

Answered == part = "delta" /\ ci = Delta!Chunks /\ UNCHANGED suiteVars

SuiteNext ==
  \/ part = "launch" /\ Next /\ Still(Parts \ {"launch"})
  \/ part = "training" /\ Training!Next /\ Still(Parts \ {"training"})
  \/ part \in Rate!Kinds /\ Rate!Next /\ Still(Parts \ {"rates"})
  \/ part = "body" /\ Body!Next /\ Still(Parts \ {"body"})
  \/ part = "loss" /\ Loss!Next /\ Still(Parts \ {"loss"})
  \/ part = "lane" /\ Lane!Next /\ Still(Parts \ {"lane"})
  \/ part = "delta" /\ Delta!Next /\ Still(Parts \ {"delta"})
  \/ Answered

SuiteSpec == SuiteInit /\ [][SuiteNext]_suiteVars

-----------------------------------------------------------------------------
(* Properties. *)

\* Nothing that is dispatched is killed by the GPU's watchdog: no command buffer
\* holds more work than the budget where two large chains of a training step are
\* packed one after the other (launch.py:91-105), a probe never runs longer than a
\* dispatch may, a rate is of the body and the regime that goes on with it, and a
\* launch that is let through keeps every dispatch within the time
\* (launch.py:604-760, core/kernel/launch.py:399-520).
DispatchesSurvive ==
  /\ part = "training" => Training!TypeOK /\ Training!RealBufferWithinBudget
  /\ part \in Rate!Kinds =>
       /\ Rate!TypeOK
       /\ Rate!ProbesSurvive
       /\ IF Rate!Attention THEN Rate!RatedAsDispatched ELSE Rate!LaunchesSurvive

\* Every row holds exactly the keys its mask allows, stored once and no NaN, and
\* a split of the query range changes no bit (source.py:246-250, :1394-1402).
ResultIsTheMasks ==
  part = "body" => /\ Body!TypeOK
                   /\ Body!MaskCovered
                   /\ Body!StoredOnce
                   /\ Body!NoNaN
                   /\ Body!SplitChangesNoBit

\* Loss and gradients take every column and every row once, and the target's own
\* logit, whatever the tiles, the blocks and the interleaving of the simdgroups; a
\* simdgroup's lanes multiply each pair once, under the scale of its own group,
\* and reduce over their own row.
LossTakesEachOnce ==
  /\ part = "loss" => /\ Loss!TypeOK
                      /\ Loss!EveryColumnOnce
                      /\ Loss!TargetIsFound
                      /\ Loss!HiddenGradientComplete
                      /\ Loss!HeadGradientComplete
  /\ part = "lane" => /\ Lane!EveryProductOnce
                      /\ Lane!ScaleOfItsGroup
                      /\ Lane!RowSumComplete
                      /\ Lane!GradientComplete

\* ops.py: after every chunk the carried state and the answers are those of the
\* sequential rule, and every token has its answer in the end.
ImplementsDeltaRule ==
  /\ part = "delta" => Delta!Rule!RInit
  /\ [][part = "delta" => Delta!Rule!RNext]_deltaVars
  /\ [](part = "delta" => Delta!TypeOK /\ Delta!EveryTokenAnswered)
=============================================================================
