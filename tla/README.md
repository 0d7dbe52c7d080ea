# TLA+ models of mlx-train-perf

mlx-train-perf trains language models on Apple silicon with memory-saving Metal
kernels, plans what fits in memory, and measures what the kernels save. These
models cover its harness (workers, sweeps, reports, contributions), its launch
guard (planner, calibration), what its kernels add up, its data pipeline, its
model rewriting and its memory planning. Paths below are relative to
`src/src/mlx_train_perf/` unless they start with `src/`, `scripts/` or `docs/`.

1. The system - 2. Modules and the code - 3. The runs - 4. Disagreements -
5. Proofs - 6. Not modelled, and the plan

## 1. The system

| Component | State it keeps | Operations | Talks to |
|---|---|---|---|
| Bench worker `bench/worker.py`, `checkpoint.py`, `artifacts.py`, watchdog of `core/guards.py` | artifact and temporary files, write lock, `_BREACH`, stop event | measure, poll, checkpoint, record, watch, hard-exit | files shared with the runner; mlx-guard's request channel; two threads |
| Bench runner `bench/runner.py` | loop position, identity, one child, artifacts | skip fresh, unlink stale, spawn, judge, envelope, resume | spawns workers, reads exits and files |
| Bench reports `cli.py`, `scripts/bench_loss_layer.py`, `report()` | condition lists, ratios, exit code | sweep, pair, exclude, exit | runner's artifacts |
| Contribution `contribute.py`, `scripts/bench_attention_op.py` | shared directory, session, crash marker | spawn, resume, collect, publish | scripts as children |
| Training conditions `bench/worker.py` | dtypes, lazy graphs, rate caches, wired limit, adapters | cast, enable, seed, freeze, train, judge | enabling, calibration, mlx-lm's `train()` |
| Launch planner `attention/kernel/launch.py` | modelled buffer, ranges | widest range, refuse, launch | mlx's encoder, whose commits it predicts |
| Rate calibration `attention/`, `core/kernel/launch.py` | rate caches | ramp, sustain, median, canary, refuse | gives the planner its rate |
| Attention kernels `attention/kernel/source.py` | per row: groups added, stores | range, block, slab | dispatched by the planner |
| Cross-entropy `core/loss.py`, `chunked.py`, `kernel/` | per tile: log-sum-exp, target, gradients | validate, choose, tile after tile | calibration |
| Gated delta rule `recurrent/ops.py` | state carried between chunks | solve a chunk, pad, mask | oracle in mlx-lm |
| Enabling `attention/wrapper.py`, `recurrent/wrapper.py` | layers replaced in place | check, wrap, refuse | users' freezes and shardings |
| Packing `data/packing.py` | open packs, epoch | place, build a row, yield | kernels rely on its segment order |
| Memory ceilings `core/guards.py`, `machine.py` | caps, one reading of the memory | ceiling, refuse, warn, sample | worker start, contribution |
| Fit planner, plan command, calibration, hold-out `plan/`, `memfit/`, `cli.py`, `scripts/fit_calibration.py` | coefficients on file, a bracket, a score | price, suggest, bisect, fit, rewrite, score | one file, read and rewritten |
| Context sweep `scripts/northstar_context_sweep.py` | bounds of a search per arm | double, bisect, retry, resume | runner |

What makes each one correct, and what is hard about it:

- **Worker.** A breach ends the process and its record survives, an acknowledged
  checkpoint is on disk, the artifact is whole; in every interleaving of two
  threads that may stall, with writes that fail and kills.
- **Runner, reports, contribution.** A finished sweep has a record of every
  condition; what it takes for a worker's record is that worker's; fresh results
  are kept; ratios compare like with like; what is published is of the call that
  publishes it. Runners, workers, scripts and clients die between any two steps, one
  without the other, and are started again over the same files while the code changes
  and what outlived the last start still writes.
- **Planner and calibration.** No real command buffer holds more work than the
  budget, although mlx counts everybody's elements and the planner only its own;
  the ranges tile the rows; no probe is itself too long; no cached rate is used
  where the kernel is slower.
- **Kernels and recurrence.** Every pair, column and product is taken once, under
  its own mask and scale, whatever the tails, tiles, splits and simdgroups.
- **Enabling and training conditions.** Check before rewriting, keep what is
  frozen, leave no model half rewritten unnoticed; never evaluate a step above the memory cap; measure
  training and nothing else. State is shared with code that does not know of it.
- **Packing.** No token lost or supervised twice, less than half of a row wasted.
- **Memory and planning.** Answers are the largest that fit, calibrations never say
  less than their anchors, no run makes the machine page. Boundaries of classes,
  rounding, stale readings and files that outlive the run that wrote them.

`PROJECT.json` lists every component with its status and every hazard at its
line.

## 2. Modules and the code

| Module | Models | Run by |
|---|---|---|
| `WorkerRecords`, `WorkerContract` | statuses and what each may replace; what a worker promises its runner (abstract) | `BenchWorker`, `BenchRunner` |
| `BenchWorker` | one worker process | `worker_*` |
| `BenchRunner` | a sweep over workers that keep `WorkerContract` | `SweepMC` |
| `BenchReport` | callers of sweeps, their ratios and exit codes | `SweepMC` |
| `Contribution` | contributors' calls over one directory | `SweepMC` |
| `LaunchPlan` | the planner and mlx's packing of what it planned | `KernelMC` |
| `RateCalibration` | ramps, canary, caches, refusals | `KernelMC` |
| `KernelBlocks` | attention bodies: pairs, groups, stores | `KernelMC` |
| `CrossEntropy`, `MmaTile` | loss and its kernels; one simdgroup's lanes | `KernelMC` |
| `DeltaRule`, `GatedDelta` | the sequential rule (abstract); the chunked one | `KernelMC` |
| `BracketSearch`, `ContextSweep` | a search (abstract); the sweep | `CapacityMC` |
| `MemoryGuard` | ceilings, preflight, a run on a shared machine | `CapacityMC` |
| `FitPlanner`, `PlanCommand` | the planner; the command around it | `CapacityMC` |
| `CalibrationFit`, `Holdout` | the fit and its file; predictions | `CapacityMC` |
| `Packing`, `Enabling`, `TrainCondition` | batches; switches; a training condition | `TrainingMC` |
| `BenchWorkerProofs`, `BenchRunnerProofs`, `LaunchPlanProofs`, `ContextSweepProofs` | theorems about one component | - |
| `SweepProofs`, `KernelProofs`, `CapacityProofs`, `TrainingProofs` | theorems about the suites | - |

**BenchWorker.** `mpc` and `wpc` are the program counters of the main and the
watchdog thread between operations that another thread or the disk can observe:
taking `_WRITE_LOCK`, opening, filling and renaming a temporary file, the fsync
of a checkpoint, setting `_BREACH`, the stop event, the join. `Release`,
`OpenTmp`, `FillTmp`, `RenameTmp` are the shared `_write_atomically`. A failing file
operation is an action of its own, as is a kill. With `Stalls` the watchdog may
give up on the lock and `stop()` on the join, the two time-outs of the code. What
is measured is left out; both breach reasons are one status.

**BenchRunner.** `rpc` walks through the loop body of `run_conditions`; the unlink,
the spawn, the wait, the look for a record and the envelope are separate steps
because a kill or a worker can fall between them. A worker takes exactly the steps
`WorkerContract` allows, which `BenchWorker` is shown to implement. `Orphans` says
whether workers can outlive whoever waits for them: a guard client that fails with its
worker alive, a runner that is killed. The sweep then goes on to the next worker, and two
may run and measure at once; nothing in the code prevents that and no property says
otherwise. What the code does promise is that such a failure never relaunches the worker
(`NeverRelaunched`; each worker remembers the start of the sweep it belongs to).

**BenchReport, Contribution.** A caller draws its condition list, one sweep leaves
an artifact per condition, and `report()` compares the pairs one at a time in its own
order. A contributor's call, its script and the script's child are three processes, each
with a program counter of its own (`pc`, and `script` and `child` of the call's `runs`), and
each may be killed or end at any step: a script that is killed while it waits in
`subprocess.run` leaves its child at work, a call that is killed leaves its script. `beside`
is the set of earlier calls of which a process still lived when the present one began; they
go on, and remove and write records in the same directory. What they do under another session
is the one exception of `CompleteCallAnswersItsGrid` (`WrittenBeside`), of `NoCleanEmptyBench`
and of `ResumeKeepsMeasured` (`beside = {}`); `MarkerIsThisCalls` has none. The package is
upgraded between calls, when no process of an earlier one runs.

**LaunchPlan.** Work is in MACs, so that `MAX_DISPATCH_SECONDS * rate` is the integer
`Budget` and the widest range is defined rather than solved for. `model` is the
planner's `buf_elems`, `buf_ops`, `buf_time`; `real` is mlx's open command buffer.
`Commit` may happen at any time and must when `Full`. `OneBlockOff`, switched on by
`Rounding`, is the only place where the float arithmetic of `_widest_within` decides.

**RateCalibration.** One action per probe; the machine is a function from body and
probe size to a speed, so that a ramp can be misled by its last probe and a key by
what it leaves out. Times are compared by cross-multiplication.

**KernelBlocks, CrossEntropy, MmaTile.** Values are replaced by what was added: a
result is the sequence of groups of pairs, a sum a bag of columns, an element of a
tile a set of products with the lanes and scales they came from. Clamped, masked,
repeated and junk reads then show, and two results agree to the bit when their
sequences do. Simdgroups of a launch interleave.

**GatedDelta** computes in the integers modulo a prime: the triangular solve, its
doublings, the decay quotients, padding and masking are exact algebra there, and
its refinement of `DeltaRule` is an identity of that algebra. Rounding is left out.

**Packing** draws every order of the dataset (the code's shuffle), one action per
sequence placed; rows are operators over the finished packs.

**Enabling.** A layer is its declared and structural kind, what is installed on it,
its frozen keys and whether it is sharded. A user freezes, shards and enables in any
order; the loop of proxies is one action per layer, since the constructor it calls can
refuse half-way, and the flash switch may raise in the calibration that follows its loop,
with every layer replaced (`uncalibrated`). So a call that raised may have enabled the
model; what holds is that layers of one kind are rewritten together unless a frozen key
stopped the loop of proxies (`OnlyAFrozenKeySplits`), and that a call whose checks refused
changed nothing. The check that every forward of a proxy repeats, of sharding and gate
precision, changes no state and is left out.

**TrainCondition** follows a worker from its load to its verdict with four pieces of
shared state: the wired limit, the rate caches, the lazy graphs and the random stream.

**MemoryGuard** keeps the classes of `memory_ceiling_bytes`, caps and floors in units
of a gibibyte and lets other processes take memory between any two samples.

**FitPlanner, PlanCommand.** All terms of the price with their integer rounding; a
suggestion walk and bisections one probe per step. `PlanCommand` extends it with the
command's one or two calls.

**CalibrationFit, Holdout.** A run of the script is one manifest against the file the
last run left; flash fits are exact fractions. The check of a candidate ends at the first
anchor of the manifest that is refused or under-predicted, so that with both in it either
may come first; its tolerance of 1e-6, there for the flooring of exact points, is an exact
comparison here. Writers of predictions race on a path.

**ContextSweep** keeps the record of every length so that a later invocation finds it;
`Flakes` bounds probes that fail for another reason than their length.

Definitions marked "Mutated" are small faults of the definition that follows. No
specification uses them; each shows that a property can be violated by a fault of the
code.

## 3. The runs

A suite module (`SweepMC`, `KernelMC`, `CapacityMC`, `TrainingMC`) puts components that
share no state side by side: `part` names the one that runs in a behaviour, and the
others rest in one initial state. The states of a suite are therefore the sum and not
the product of its parts, each part takes exactly its module's steps, and the
properties are stated per part. Where components do interact they are composed in the
modules themselves: the runner with workers' contracts, the plan command with the
planner, the worker with its watchdog, the planner with mlx's encoder.

| Run | Expect | Shows |
|---|---|---|
| `worker_races` | pass | three repetitions, three failing writes, a kill: the breach record wins and a breach ends the process, acknowledgements are true, `WorkerContract` is implemented, the worker ends |
| `worker_stalls` | pass | the same with stalls: whole artifact, a breach leads to an exit |
| `sweep_suite` | pass | two conditions, two starts, one edit, without and with orphans; callers with up to three artifacts; two contributors' calls with every survival of a script or child |
| `kernel_suite` | pass | 144 chain shapes, two large chains, calibrations, kernel bodies, loss, lanes, chunked recurrence |
| `capacity_suite` | pass | two sweeps, three machines, planner and command, refits, predictions; every call returns |
| `training_suite` | pass | packing of up to four sequences, three layers under three edits and three calls, conditions of three steps |
| `worker_stall_overwrite`, `sweep_code_edit`, `launch_small_chains`, `contribution_stale`, `calibration_mixed`, `enabling_partial` | violation | section 4 |

**Bounds.** Three repetitions give a checkpoint before, between and after others; three
faults let writes fail after others did, on both threads. Two conditions show what one does to the
next, two invocations a death and its resumption, and `Init` starts from every mixture
of fresh, stale, failed and missing results. Callers list three artifacts, enough for a
pair, a foreign session and a repetition. Of the versions contributors run, the second has
dropped a condition of the first, so that its directory holds both a foreign record of its own
condition and one that is of none of its conditions; two calls are an earlier one, any part of
which may survive, and one that repeats it or works under another session.

In `LaunchPlan` eight rows, blocks of three, a budget of 24 and footprints on both sides
of the commit threshold of ten give plans of one to several ranges, short tails, and
chains refused at the first range or later; `CommitOps = 3` lets foreign operations reach it. The
calibration has speeds a factor of sixteen apart and lengths below, at and above the
probe. Kernel bodies have five rows over blocks of two: a whole, a partial and a cut
block, two slabs, two heads. The loss has vocabularies within and beyond a tile and row
counts on both sides of the measured ones; lanes have the real 8x8 fragments and 32
lanes, with widths that are and are not multiples of eight. Chunks of 2, 3 and 7 with
sub-blocks of 3 give systems of one and of several blocks, ragged and exact.

The context sweep has limits below the start, at a doubling, between two probes and above the
ceiling, from an aligned start and, with flakes, from one that is not. Machines of 8, 16 and
32 GiB are the three classes of the ceiling. The planner's coefficients are eighths of a
byte, so that terms round. Rows of five slots with a pool of two hold one to three
sequences, exactly full or not; a dataset may shrink below a batch in one order and not in
another. Three layers are the least in which a refusal has a layer before and after it.

**Fairness.** `worker_races`: weak fairness of both threads, which the interpreter
schedules and whose file operations return. `worker_stalls`: of the watchdog alone,
which is the point of a watchdog. `sweep_suite`: the runner runs, each worker ends (its
wall budget forces it) and somebody resumes a dead sweep. `training_suite`: a pass over
an iterator and a worker that was started go on. `sweep_suite` also lets a contributor's
call that was begun go on. `capacity_suite`: a sweep, a planner's call, a command, a fit past
its first step and the writers go on, and the watchdog's sampler may fail but not for ever
(strong fairness of its sample). Nothing is assumed of the supervisor, kills, edits, users,
other processes, foreign operations or commits; `kernel_suite` checks safety and a
refinement only. Deadlock is checked in the worker runs, `sweep_suite` and `kernel_suite`; what
stops there says so by a stuttering action. The other two suites stop where a call returns.

## 4. Where the code and its descriptions disagree

Six disagreements are kept as runs, each with its counterexample:

- **An ok can replace a breach record** (`worker_stall_overwrite`); `artifacts.py:241`
  says the window of a timed-out breach write "only costs the abort reason".
- **The identity can name code the worker does not run** (`sweep_code_edit`): the hash
  is read from disk after the modules were imported.
- **Small chains of one evaluation share a command buffer but not their budget**
  (`launch_small_chains`): each plan call starts with an empty modelled buffer.
- **Earlier sessions' records are published as this call's** (`contribution_stale`): the
  script's directory is globbed whole.
- **A mixed refit may under-predict its own anchor** (`calibration_mixed`): the envelope
  measures flash anchors against coefficients that are not the ones shipped.
- **A refusal can leave a model partly enabled** (`enabling_partial`): the proxy's
  constructor refuses inside the loop that replaces the layers.

The others met while modelling are named definitions that TLC finds violated when they
are checked; no run keeps them:

| Definition | The code | The description |
|---|---|---|
| `BenchWorker!BreachNeverReachesStop` | `stop()` is reached during a breach; the join saves the exit code | `worker.py:902` says never |
| `BenchRunner!ExistsMeansThisWorker`, with orphans | a resumed sweep may find the orphan's record | `runner.py:358` "exactly THIS worker wrote it" |
| `BenchReport!RatioOfEachGridPoint` | ratios are keyed without the grid point, the last one stays | `runner.py:442` "at each shared grid point" |
| `BenchReport!MeasuredOnce` | each invocation mints a session, nothing is ever resumed | `scripts/bench_loss_layer.py:10` "resume-by-skipping" |
| `Contribution!ExistsMeansThisChild` | the child of a script that was killed may write after the next script's unlink, and is taken for that script's own | `bench_attention_op.py:359` "exactly 'this subprocess wrote it'" |
| `Contribution!BreachRecordStands` | the script's last write does not look at the breach flag | `artifacts.py:268` "the durable record of the breach" |
| `LaunchPlan!TilesEveryRow`, with `Rounding` | a range may start inside a block, for a rate within rounding of the boundary | `launch.py:1290` "never bisects a query block" |
| `RateCalibration!RatedAtTheTileInUse` | the rate is of a probe, the launch always uses 8192 columns | `core/kernel/launch.py:9` "at the tile the production dispatch will actually use" |
| `TrainCondition!LossTracesWarm` | the loss kernel's rate is measured in the first trace | `attention/wrapper.py:41` "traces with warm caches" |
| `Packing!LoopsOn` | an epoch that fills no batch raises | `packing.py:201` "iterates epochs indefinitely" |
| `ContextSweep!GapIsGranularity` | from an unaligned start the gap may be wider | `northstar_context_sweep.py:199` |
| `ContextSweep!ProbedOnce` | a length that failed is probed again by a rerun | `northstar_context_sweep.py:160` |
| `MemoryGuard!NetAboveWorkingSet` | on 8 and 16 GiB the ceiling lies below the working set | `guards.py:59` "deliberately sits ABOVE it" |
| `FitPlanner!RefusedBeforeWarning` | some fields are refused after the warning | `estimate.py:445` |
| `FitPlanner!SuggestsWhatWouldFit` | a length at or under 1024 is never shortened | `src/README.md:422` |
| `PlanCommand!ExitOneMeansDoesNotFit` | a missing config field ends in a traceback and exit 1 | `cli.py:4` "1 does not fit" |

## 5. What is proved

The proofs are checked by TLAPS and hold for every value of the constants.

**BenchWorkerProofs.** `FileInv` holds with or without stalls: which temporary file
is whole at which program counter, that they are per thread, and that a
checkpoint being fsynced is on disk. From it `TypeCorrect`, `ArtifactIsWhole`,
`AckedIsOnDisk`. `OrderInv` holds when nobody stalls: a thread between taking and
releasing the lock holds it, the flag is set exactly while the watchdog writes or
exits, and a breach record is the last one. None of the properties is inductive: that
the main thread does not overwrite a breach record rests on the lock having been held
when it checked the flag. From it `BreachRecorded`, `BreachExits`, `BreachStands` and the
refinement of `WorkerContract` (`ContractKept`).

**BenchRunnerProofs.** `TypeInv` adds to the types that the loop stands at a condition
whenever it works on one, and that process ids and starts stay within their bounds
(`RunnerTypeCorrect`). `Recorded` says that every condition before the current one has a
record; a stale one is only removed at its own turn, which gives
`EveryConditionAccounted` with or without orphans. `Behind` says that the workers of the
present start are of conditions it has launched already; no start therefore launches a
condition twice, however long its workers live (`NeverARelaunch`, with or without orphans).
Without orphans a living worker is the one the runner waits for, and `OwnRecord` says that
between the unlink and the look the artifact can only come from the worker spawned last
(`RecordIsThisWorkers`, `EnvelopeReplacesNothing`), and with it and `NamesPast`, that no
worker or identity names a version of the code newer than the present one, a fresh result survives
every step (`FreshKept`).

**LaunchPlanProofs.** `TypeCorrect` holds as it is. The others assume exact arithmetic
(`~Rounding`). `PlanInv` says that the modelled buffer is empty after a range that
fills a buffer by itself and otherwise holds the last range alone, which could
not have been wider. Hence (`RangeStartsBuffer`) the planner only ever plans into
an empty buffer: a second range would have fitted into the first, because the
work of adjacent ranges adds up exactly (`MacsAdd`) and aligned ends compose
(`SumOfMultiples`). So a chain that goes on after a range goes on because that range
reached the threshold by its own elements, and mlx commits after it wherever its own count
began. From that `Tiling`, `SmallChains`, `LargeChains`, and `BuffersWithinBudget` under
`Apart`: one chain, or chains whose inputs alone reach the threshold.
`launch_small_chains` shows that the assumption is needed. With `Rounding` a range may start
inside a block and fill less than was planned, yet `RoundedBuffersWithinBudget` still holds for
chains that are all large (`AllLarge`): the block that the closed form takes off held the
excess, so a rounded range costs no more than the exact one (`RoundedIsWithin`), and mlx commits
after each.

**ContextSweepProofs.** The invariant keeps, per program counter, which lengths the bounds
and the probe are of, and that a recorded length is on its side of the limit. It gives
`SweepTypeCorrect` and, for any number of flakes, `SweepMaxFits` (the published length fits)
and `SweepGapIsBounded`; without flakes also `SweepBrackets` and
`SweepImplementsBracket`, the refinement of `BracketSearch`. `SweepHasEvidence` adds that both
published lengths have their record, which no rerun takes away.

The theorems about a suite say of each of its parts what the part's own proofs establish; the
suite's invariant is theirs, and every other part rests. Constants of an instanced module are
constants of the suite, so that a suite's theorems hold for every value of them too.

**SweepProofs.** `OrphansLeaveNoGap` and `OrphansRunOnce` take the proofs of `BenchRunner` for
the instance with orphans. `ReportsAreLikeForLike`: the artifacts of a list are those its conditions name, since
a path belongs to one condition; the pairs taken so far are accounted for, those left are of
one group. A ratio that a later pair of the same implementations overwrites is again of one grid point and
one session. `PublishedIsTheCalls` and `MeasurementsStand`: who lives is of this
call or in `beside` (`RunOK`); every condition the present script has passed is answered under
its session, pending, or was removed or written by a process of `beside` (`AnsweredInv`,
`Settled`); without such processes whoever is about to write has no measurement before it
(`SoloInv`); and there is no marker from a call's begin to its collecting (`MarkerInv`). A step
of an earlier call's process keeps them because that call is in `beside` (`EarlierMoves`).

**CapacityProofs.** `NoRunPages`: ceilings are linear with a step at a class boundary, and the
ladder climbs over it for every memory size (`LadderAlwaysClimbs`); between two samples a run
takes at most `Burst`, which the headroom covers (`GuardAssumption`). `PredictionsStand`: of
one path at most one writer got past creating the file. `RefitsCoverTheirAnchors`: an envelope takes the
largest ratio over the anchors, so the proof is about the maximum of a fold, by least
counterexample. `SweepsAreSound` cites `ContextSweepProofs` twice, once for the instance whose
probes may fail. `WhatStandsIsNotTakenBack` is the suite's action property.

Of the planner: every term of the price, rounded as the code rounds it, is monotone in batch
and length, hence the price is; a bisection keeps an end that
fits and one that does not; so the answer is the largest that fits
(`PlannerAnswersTheLargest`), and the command's report and exit code are about it
(`ExitCodeIsTheVerdict`).

**KernelProofs.** `EachIsTakenOnce`, of the loss: `LossInv` keeps, per block of rows, the
columns that are in each register and output after the tiles and columns passed so far. The
gradient of the head is what no test could hold still: all blocks of a launch add to the same
rows of `d_w`, so the invariant says which blocks have added to a column rather than when, and
a block adds to a column once because its own position only climbs. The tile a target lies in
is the only one that writes its logit, and later launches hand it on. Of one simdgroup:
`LaneInv` keeps, per lane, the products it holds after the slices passed, with the scale they
were taken under; a lane's two elements and its eight depths address every product of a fragment
once (`Where` and its inverse), the guarded last slice adds no junk, and the exchanges of a
reduction double the columns a lane has until it has those of its own row.

`DispatchesAlwaysSurvive`, of the calibration and of the two chains of a training step:
`RateInv` says that a probe after the first is affordable on this machine: it was projected to
fit at half the rate measured before it, and the machine is at least half as fast at the next
size. Three equal readings have their median; the canary runs a fifth of
half the time at a tenth of the speed at least. A cached rate is of the body, the size
bucket and the kernel it is looked up for, and the budget of a loss launch is checked
at half the rate, which covers the widths and tiles it was not measured at. The training part is
`LargeInv` of the instanced `LaunchPlan`, whose chains reach the threshold by their inputs.

`ResultsAreTheMasks`, of the attention bodies. `AddsUp` says what a row has added up: groups in
ascending order, together exactly the kept rows, each once, every head of a group in turn, and in
an mma body each group all that is kept of one block. `BodyInv` says it of every result and slab,
for the queries below the start of the range while its simdgroup or thread has still to store it,
and below its end from then on; of every accumulator line it says it for the rows of the blocks
visited so far. A block only holds rows above those of the blocks before it, so a group joins at
the end (`GroupJoins`), and the scalar bodies are the case of groups of one row (`RowByRow`). That
no block is left out is `ForwardReach` and `BackwardReach`: segments ascend, so the first key of
the first row's segment bounds the keys of all rows of a block from below, and a query block that
starts in a later segment than the last key's ends the loop. The cuts of an mma dK/dV at
query blocks make the groups of a split the groups of one dispatch.

**TrainingProofs.** Packing: `PacksFill` because first-fit looked into the newest open pack before
it opened the next. `BatchesAlwaysHoldTheDataset` needs that every sequence is in one slot, that the room left is what
the sums of the costs leave, and that the batches yielded are a prefix; the segments of a
row then partition its positions, with sums as recursive functions and inductions by least
counterexample. `EnablingIsAlwaysWhole` and `EnablingNeverThaws`: a call under way has
replaced exactly the layers before the next, and the checks ran over all of them before; where
a loop stopped, its key stays frozen and every retry is refused; the flash switch replaces its
layers at once, whether its calibration then succeeds or not (`WrappedAsOne`).
`NoStepEverAboveTheCap`: the house cap is in force except between the entry of `train()` and
its first trace, and nothing runs there. `MeasuredWindowIsTraining`: what adapters are drawn
from and which graphs are lazy, per phase.

Assumptions on constants are named where they are declared: `RunnerAssumption`,
`SweepAssumption`, `PackingAssumption`, `DepthAssumption`, `GuardAssumption`, `PlanAssumption`,
`FitAssumption`, `HoldoutAssumption`, `ReportAssumption`, `ContributionAssumption`,
`LossAssumption`, `LaneAssumption`, `RateAssumption`, `ChainsAssumption`, `BodyAssumption`.
They are types, positivity of what the code divides by, and facts of the code: at least 4 GiB of memory,
a burst within the headroom (what a slower watchdog would not survive), a kernel loss
that saves no more than the chunked one, the 32 columns and 8 rows of a simdgroup, and scale
groups of whole fragments, and calls with a vocabulary of at least the 32 columns of the
smallest probe. The library's induction theorems
take an operator as a parameter and cannot be used; the inductions go by the least counterexample
(`LeastNat`), and recursive functions get their equations by building them up to `n`
(`UpTo`).

Only model-checked: liveness (`WorkerEnds`, `BreachLeadsToExit`, `SweepIsFinished`,
`CallsReturn`, `RunsEnd`), which is out of the prover's reach, and the refinement of the
recurrence (`ImplementsDeltaRule`).

## 6. Not modelled, and the plan

- Tensor algebra: the attention reference, the regression of `memfit/fit.py`, and
  everything floating-point inside a kernel (the online softmax's scaling, the one-sum
  pass for D, rounding). A model of it would be the algebra itself.
- The random stream that a calibration reseeds, beyond the draw of the adapters.
- The structural checks on mlx-lm models, the loader's field checks of a calibration file,
  packaged aggregation of community records, the rendering of reports and argument parsing:
  pure functions of one input.
- Most measurement scripts: they run on a GPU and print; those that keep records follow
  the runner's or the attention script's protocol, which are modelled.
- The register-pressure tool and the support modules: pure input and output.

Planned proof: the refinement of `DeltaRule`, which is algebra modulo a prime under folds.
