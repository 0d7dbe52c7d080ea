----------------------------- MODULE CapacityMC -----------------------------
(***************************************************************************)
(* What fits on the machine, for TLC: the search for the longest context   *)
(* (ContextSweep), the ceilings and the watchdog (MemoryGuard), the fit    *)
(* planner and its command (PlanCommand), the calibration of the planner   *)
(* (CalibrationFit) and its hold-out predictions (Holdout).  One part runs *)
(* in each behaviour; of ContextSweep also a sweep whose probes may fail   *)
(* although the length fits, from a start that is not aligned.             *)
(***************************************************************************)
EXTENDS ContextSweep, FiniteSets

CONSTANTS
  Gib, Machines, Burst, Surge,                              \* of MemoryGuard
  Shapes, Calib, Unit, Step, Tile, Cfgs, Budgets, Ceilings, MlxVersions, Argvs,
  GroupDefault,                                             \* of PlanCommand
  Heads, Width, Saved, LossKernel, LossChunked, Planes, Manifests, FirstFile,
  MaxRuns,                                                  \* of CalibrationFit
  Writers, Labels, Bytes, Docs, Under, Over, Den, Quantities, MaxBudget \* of Holdout

VARIABLES
  part,                                                     \* the part that runs
  fLimit, fDisk, fPc, fArm, fStep, fLow, fHigh, fSeq, fAttempt, fResults, fFlakes,
  fInvocation,                                              \* of the flaky sweep
  machine, others, phase, pre, ceiling, cautioned, used, wired, sampled, late, blind,
  surged, missed,                                           \* of MemoryGuard
  call, planPc, warned, cand, lo, hi, result,               \* of FitPlanner
  argv, stage, raised, shown, report, code,                 \* of PlanCommand
  file, old, m, fitPc, coeffs, mode, runs, scored,          \* of CalibrationFit
  path, writer, measured, outcome                           \* of Holdout

sweepVars == vars
flakyVars == <<fLimit, fDisk, fPc, fArm, fStep, fLow, fHigh, fSeq, fAttempt, fResults,
               fFlakes, fInvocation>>
guardVars == <<machine, others, phase, pre, ceiling, cautioned, used, wired, sampled, late,
               blind, surged, missed>>
planVars == <<call, planPc, warned, cand, lo, hi, result>>
commandVars == <<argv, stage, raised, shown, report, code>>
fitVars == <<file, old, m, fitPc, coeffs, mode, runs, scored>>
holdoutVars == <<path, writer, measured, outcome>>
suiteVars == <<part, sweepVars, flakyVars, guardVars, planVars, commandVars, fitVars,
               holdoutVars>>

-----------------------------------------------------------------------------
(* The instances. *)

Flaky ==
  INSTANCE ContextSweep WITH
    Arms <- 1, Start <- 5, Granularity <- 4, Ceiling <- 50, Attempts <- 3,
    Limits <- {3, 6, 9, 13, 21, 30, 39, 60}, Flakes <- 2, Invocations <- 3,
    limit <- fLimit, disk <- fDisk, pc <- fPc, arm <- fArm, step <- fStep, low <- fLow,
    high <- fHigh, seq <- fSeq, attempt <- fAttempt, results <- fResults,
    flakes <- fFlakes, invocation <- fInvocation

\* Machines of 8, 16 and 32 GiB, with the working sets Metal recommends on them.
SomeMachines == {[memory |-> 8, dev |-> 5], [memory |-> 16, dev |-> 12],
                 [memory |-> 32, dev |-> 25]}

Guard == INSTANCE MemoryGuard WITH warned <- cautioned

\* No Mac has less than 4 GiB, and the dynamic headroom is what a run may take between
\* two samples of the watchdog (guards.py:157-160).
ASSUME GuardAssumption ==
  /\ Gib \in Nat \ {0} /\ Surge \in Nat \ {0}
  /\ \A mac \in Machines : mac.memory \in Nat /\ mac.memory >= 4 * Gib /\ mac.dev \in Nat \ {0}
  /\ Burst \in Nat \ {0} /\ Burst <= Guard!Headroom + 1

\* A small dense model and its quantized twin.
Dense == [vocab |-> 16, hidden |-> 4, layers |-> 3, intermediate |-> 8, heads |-> 2,
          kv_heads |-> 1, tied |-> FALSE, quant_bits |-> 0, quant_group |-> 0]
Models == {Dense, [Dense EXCEPT !.quant_bits = 4, !.quant_group = 8, !.tied = TRUE]}

\* In eighths of a byte.
Coefficients == [base |-> 803, act_ckpt |-> 3, act_full |-> 131, attn |-> 37,
                 flash_kernel |-> 21, flash_stock |-> 67, optimizer |-> 64, naive |-> 96,
                 overhead_pct |-> 5]

\* Every combination of the meaningful fields, and of fields that are wrong.
TrainConfigs ==
  [batch : {1, 2, 5}, seq_len : {3, 9, 10}, dtype : {"bfloat16"},
   lora_rank : {0, 2}, lora_layers : {-1, 1}, grad_checkpoint : BOOLEAN,
   impl : {"kernel", "chunked", "naive"}, attention : {"stock", "flash"}]
  \cup
  [batch : {0, 2}, seq_len : {0, 9}, dtype : {"float32", "int8"},
   lora_rank : {-1, 2}, lora_layers : {-2, 1}, grad_checkpoint : {TRUE},
   impl : {"kernel", "fused"}, attention : {"stock", "other"}]

ByteBudgets == {1800, 2400, 4000}
Installed == {"calibrated", "later"}

Argv(configs, batches, lengths, ranks) ==
  [config : configs, shape : Models, quant_bits : {-1, 8}, batch : batches,
   seq_len : lengths, lora_rank : ranks, impl : {"kernel", "naive"},
   attention : {"stock", "flash"}, search : {"fit", "seq", "batch"}, budget : ByteBudgets,
   seq_ceiling : {14}, batch_ceiling : {6}, mlx : Installed]

CommandLines == Argv({"plain"}, {-1, 0, 1, 5}, {-1, 3, 10}, {-1, 0, 2})
                  \cup Argv({"unreadable", "hybrid", "field_missing"}, {1}, {3}, {2})

Plan == INSTANCE PlanCommand WITH pc <- planPc

\* The fields of a configuration and of a model, whatever they say.
TrainConfig ==
  [batch : Int, seq_len : Int, dtype : STRING, lora_rank : Int, lora_layers : Int,
   grad_checkpoint : BOOLEAN, impl : STRING, attention : STRING]
ModelShape ==
  [vocab : Nat, hidden : Nat, layers : Nat, intermediate : Nat, heads : Nat \ {0},
   kv_heads : Nat, tied : BOOLEAN, quant_bits : Nat, quant_group : Nat]

\* The calibration that is planned with has no negative coefficient, a quantized
\* model has a group size, and the command line passes the choices of its parser.  That
\* the planner's names are strings is true of TLA+; no prover here knows it.
ASSUME PlanAssumption ==
  /\ Unit \in Nat \ {0} /\ Step \in Nat \ {0} /\ Tile \in Nat /\ GroupDefault \in Nat \ {0}
  /\ Calib \in [base : Nat, act_ckpt : Nat, act_full : Nat, attn : Nat, flash_kernel : Nat,
               flash_stock : Nat, optimizer : Nat, naive : Nat, overhead_pct : Nat]
  /\ Shapes \subseteq ModelShape
  /\ \A shape \in Shapes : shape.quant_bits # 0 => shape.quant_group # 0
  /\ Cfgs \subseteq TrainConfig /\ Budgets \subseteq Int /\ Ceilings \subseteq Int
  /\ MlxVersions \subseteq STRING
  /\ Plan!Dtypes \cup Plan!Impls \cup Plan!Attentions \subseteq STRING
  /\ Argvs \subseteq
       [config : STRING, shape : Shapes, quant_bits : {-1} \cup (Nat \ {0}), batch : Int,
        seq_len : Int, lora_rank : Int, impl : {"naive", "chunked", "kernel"},
        attention : {"stock", "flash"}, search : {"fit", "seq", "batch"}, budget : Int,
        seq_ceiling : Int, batch_ceiling : Int, mlx : STRING]

\* Anchors short and long, of either arm, whose ratios agree or rise; one with
\* an empty batch.
Anchor(kind, batch, length, gc, marginal) ==
  [arm |-> kind, batch |-> batch, seq |-> length, gc |-> gc, marginal |-> marginal]
Anchors == {Anchor("kernel", 1, 2, TRUE, 90), Anchor("kernel", 1, 4, TRUE, 180),
            Anchor("kernel", 2, 3, FALSE, 300), Anchor("stock", 1, 4, TRUE, 230),
            Anchor("kernel", 0, 2, TRUE, 40)}

StockPlanes == {[base |-> 20, ckpt |-> 1, full |-> 9, quad |-> 2],
                [base |-> 60, ckpt |-> 2, full |-> 9, quad |-> 1]}

FitManifests ==
  [defect : {"none"}, stock : StockPlanes \cup {[tag |-> "none"]}, gc_off : {FALSE},
   flash : {S \in SUBSET Anchors : Cardinality(S) <= 3}]
  \cup [defect : {"none"}, stock : StockPlanes, gc_off : {TRUE},
        flash : {S \in SUBSET Anchors : Cardinality(S) <= 1}]
  \cup [defect : {"none", "not_ok", "not_kernel"}, stock : {[tag |-> "deficient"]},
        gc_off : {FALSE}, flash : {{}}]

FirstCalibration ==
  [base |-> 40, ckpt |-> 1, full |-> 8, quad |-> 3, flash_kernel |-> <<5, 1>>,
   flash_stock |-> <<9, 1>>]

Fit == INSTANCE CalibrationFit WITH pc <- fitPc

Fraction == Int \X (Nat \ {0})
Point == [arm : {"kernel", "stock"}, batch : Nat, seq : Nat, gc : BOOLEAN, marginal : Int]

\* A fit is made of finitely many points, and starts from a file with all coefficients;
\* the chunked loss keeps a tile of logits per token, the kernel a few numbers.
ASSUME FitAssumption ==
  /\ Heads \in Nat \ {0} /\ Width \in Nat /\ Saved \in Nat
  /\ LossKernel \in Nat /\ LossChunked \in Nat /\ LossKernel <= LossChunked
  /\ MaxRuns \in Nat
  /\ Planes \subseteq [base : Int, ckpt : Int, full : Int, quad : Int]
  /\ \A man \in Manifests :
       /\ man.stock \in Planes \cup {Fit!NoPlane, Fit!Deficient}
       /\ man.gc_off \in BOOLEAN /\ (man.gc_off => man.stock \in Planes)
       /\ \A p \in man.flash : p \in Point
       /\ IsFiniteSet(man.flash)
  /\ FirstFile \in [base : Int, ckpt : Int, full : Int, quad : Int,
                   flash_kernel : Fraction, flash_stock : Fraction]

\* Two labels, one label, no label, a bad count, and the other quantity.
Document(predictions, quantity) == [predictions |-> predictions, quantity |-> quantity]
Documents ==
  {Document([l \in {"short", "long"} |-> IF l = "short" THEN 6 ELSE 9], "marginal"),
   Document([l \in {"short"} |-> 10], "marginal"), Document([l \in {} |-> 0], "marginal"),
   Document([l \in {"long"} |-> 0], "marginal"), Document([l \in {"long"} |-> 5], "total")}

Predictions == INSTANCE Holdout WITH report <- outcome

\* Measured counts are bytes; predictions may be any integers until they are validated.
ASSUME HoldoutAssumption ==
  /\ Den \in Nat \ {0} /\ Under \in Nat /\ Over \in Nat /\ MaxBudget \in Nat
  /\ Bytes \subseteq Nat
  /\ \A d \in Docs : \A l \in DOMAIN d.predictions : d.predictions[l] \in Int

-----------------------------------------------------------------------------
(* A part that does not run rests. *)

SweepRests == limit = [a \in Arm |-> CHOOSE l \in Limits : TRUE] /\ Init
FlakyRests == /\ fLimit = <<>> /\ fDisk = <<>> /\ fPc = "rests" /\ fArm = 0 /\ fStep = "none"
              /\ fLow = 0 /\ fHigh = 0 /\ fSeq = 0 /\ fAttempt = 0 /\ fResults = <<>>
              /\ fFlakes = 0 /\ fInvocation = 0
GuardRests == /\ machine = <<>> /\ others = 0 /\ phase = "rests" /\ pre = "none" /\ ceiling = 0
              /\ cautioned = FALSE /\ used = 0 /\ wired = 0 /\ sampled = FALSE /\ late = FALSE
              /\ blind = FALSE /\ surged = FALSE /\ missed = FALSE
PlanRests == /\ call = <<>> /\ planPc = "rests" /\ warned = 0 /\ cand = <<>>
             /\ lo = 0 /\ hi = 0 /\ result = <<>>
CommandRests == /\ argv = <<>> /\ stage = "rests" /\ raised = 0 /\ shown = 0
                /\ report = <<>> /\ code = 0
FitRests == /\ file = <<>> /\ old = <<>> /\ m = <<>> /\ fitPc = "rests" /\ coeffs = <<>>
            /\ mode = "none" /\ runs = 0 /\ scored = <<>>
HoldoutRests == path = <<>> /\ writer = <<>> /\ measured = <<>> /\ outcome = <<>>

Parts == {"sweep", "flaky", "guard", "plan", "command", "fit", "holdout"}

RestBut(parts) ==
  /\ "sweep" \notin parts => SweepRests
  /\ "flaky" \notin parts => FlakyRests
  /\ "guard" \notin parts => GuardRests
  /\ "plan" \notin parts => PlanRests
  /\ "command" \notin parts => CommandRests
  /\ "fit" \notin parts => FitRests
  /\ "holdout" \notin parts => HoldoutRests

SuiteInit ==
  \/ part = "sweep" /\ Init /\ RestBut({"sweep"})
  \/ part = "flaky" /\ Flaky!Init /\ RestBut({"flaky"})
  \/ part = "guard" /\ Guard!Init /\ RestBut({"guard"})
  \/ part = "plan" /\ Plan!Init /\ RestBut({"plan"})
  \/ part = "command" /\ Plan!CInit /\ RestBut({"plan", "command"})
  \/ part = "fit" /\ Fit!Init /\ RestBut({"fit"})
  \/ part = "holdout" /\ Predictions!Init /\ RestBut({"holdout"})

StillBut(parts) ==
  /\ "sweep" \notin parts => UNCHANGED sweepVars
  /\ "flaky" \notin parts => UNCHANGED flakyVars
  /\ "guard" \notin parts => UNCHANGED guardVars
  /\ "plan" \notin parts => UNCHANGED planVars
  /\ "command" \notin parts => UNCHANGED commandVars
  /\ "fit" \notin parts => UNCHANGED fitVars
  /\ "holdout" \notin parts => UNCHANGED holdoutVars
  /\ UNCHANGED part

In(p, A) == part = p /\ A /\ StillBut(IF p = "command" THEN {"plan", "command"} ELSE {p})

SuiteNext ==
  \/ In("sweep", Next)
  \/ In("flaky", Flaky!Next)
  \/ In("guard", Guard!Next)
  \/ In("plan", Plan!Next)
  \/ In("command", Plan!CNext)
  \/ In("fit", Fit!Next)
  \/ In("holdout", Predictions!Next)

\* What was begun goes on: a sweep, a call of the planner, a command, a run of the
\* fit past its first fit, the writers.
GoesOn ==
  \/ In("sweep", Sweep)
  \/ In("flaky", Flaky!Sweep)
  \/ In("plan", Plan!Next)
  \/ In("command", Plan!CNext)
  \/ In("fit", Fit!Check \/ Fit!Write)
  \/ \E w \in Writers : In("holdout", Predictions!WriterGoesOn(w))

\* The watchdog's sampler may fail, but not for ever.
SuiteSpec ==
  /\ SuiteInit /\ [][SuiteNext]_suiteVars
  /\ WF_suiteVars(GoesOn) /\ SF_suiteVars(In("guard", Guard!Sample))

-----------------------------------------------------------------------------
(* Properties. *)

\* northstar_context_sweep.py:198-228: whatever fails beside it, the length that
\* is published as fitting fits and was recorded as such, and less than two
\* granules are left open; when nothing else fails the limit stays in the bracket.
SweepIsSound ==
  /\ part = "sweep" => /\ TypeOK
                       /\ Bracket!LimitInside
                       /\ PublishedBracket
                       /\ VerdictsHaveEvidence
  /\ part = "flaky" => /\ Flaky!TypeOK
                       /\ Flaky!PublishedMaxFits
                       /\ Flaky!VerdictsHaveEvidence
                       /\ Flaky!GapIsBounded
                       /\ Flaky!NoEndMeansCeiling

\* guards.py:18-21, :57-61: the watchdog fails a runaway run before the machine
\* pages, the wired class is refused inside the working set, and the ladder of
\* ceilings climbs with the memory.
NoPagingOfItsOwn ==
  part = "guard" =>
    /\ Guard!TypeOK
    /\ Guard!NoPagingOfItsOwn
    /\ Guard!WiredInsideWorkingSet
    /\ phase = "idle" /\ others = 0 => Guard!LadderClimbs

\* What was shown, recorded or written stands: the worker meets what a clear
\* preflight showed (contribute.py:514-527), a length that trained is not trained
\* again, a refit changes no coefficient it has no points for, and a prediction
\* is written once (holdout.py:8).
NothingIsTakenBack ==
  [][/\ part = "guard" => Guard!NoSurpriseAfterPreflight
     /\ part = "sweep" => FittingKept
     /\ part = "flaky" => Flaky!FittingKept
     /\ part = "fit" => Fit!NoPointsNoChange
     /\ part = "holdout" => Predictions!WrittenOnce]_suiteVars

\* Somebody waits for an answer.
Unanswered ==
  CASE part = "sweep" -> pc # "over"
    [] part = "flaky" -> fPc # "over"
    [] part = "plan" -> planPc # "done"
    [] part = "command" -> stage # "exited"
    [] part = "fit" -> fitPc \in {"check", "write"}
    [] part = "holdout" -> \E w \in DOMAIN writer :
                             writer[w].at \notin {"returned", "refused", "dead"}
    [] part = "guard" -> phase = "running" /\ late

\* Doubling, bisection, retries, the walk over suggestions and the writers' race
\* end, and a stuck run is ended by the wall budget (guards.py:90-94).
CallsReturn == Unanswered ~> ~Unanswered

\* plan/inverse.py:68-69, estimate.py:459: an inverse query answers the largest
\* value that fits, plan_fit a configuration that fits and gives up little, only
\* meaningful fields are priced, and one warning is raised per answer.
PlanAnswersTheLargest ==
  part = "plan" => /\ Plan!TypeOK
                   /\ Plan!AnswerIsTheLargest
                   /\ Plan!SuggestionIsClose
                   /\ Plan!OnlyMeaningfulIsPriced
                   /\ Plan!WarnsOncePerAnswer
                   /\ Plan!VerdictsAgree

\* cli.py:193-194: a script that trusts the exit code never trains above the
\* budget, the report of a search is about the edge it found, and each distinct
\* warning is one line whatever the outcome.
CommandTellsTheVerdict ==
  part = "command" => /\ Plan!CTypeOK
                      /\ Plan!PrintedIsTheEdge
                      /\ Plan!VerdictInTheCode
                      /\ Plan!OneWarningLine

\* fit_calibration.py:131-138, :251-259: a least-squares fit, and a refit of the
\* flash path alone, say no less than any anchor they are fitted to, and a
\* hold-out score in the file was earned by the coefficients beside it.
RefitCoversItsAnchors ==
  part = "fit" => /\ Fit!TypeOK
                  /\ Fit!FlashRefitCoversItsAnchors
                  /\ Fit!OlsCoversItsAnchors
                  /\ Fit!HoldoutIsOfTheseCoefficients

\* holdout.py:8-11, :94-96: of the writers that race for a path the one that
\* returns is the one that is scored, a score accounts for every label, and a
\* budget made by the recipe keeps its reserve.
PredictionsAreKept ==
  part = "holdout" => /\ Predictions!TypeOK
                      /\ Predictions!ReturnedMeansWritten
                      /\ Predictions!ScoreAccountsForEveryLabel
                      /\ Predictions!BudgetKeepsTheReserve

\* estimate.py:592-594: an envelope fit never says less than an anchor.
EnvelopeCoversItsAnchors == part = "fit" => Fit!EnvelopeCoversItsAnchors
=============================================================================
