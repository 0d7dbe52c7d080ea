--------------------------- MODULE TrainCondition ---------------------------
(***************************************************************************)
(* What a train_step or packed_train worker does between its guardrails    *)
(* and its result (bench/worker.py): load, cast, enable flash attention,   *)
(* seed, freeze, inject adapters, build the loss, open the measurement     *)
(* window and drive mlx-lm's compiled train().  Four pieces of state are   *)
(* shared with code that does not know of each other: the wired limit,     *)
(* which train() raises at its entry; the rate caches, which a trace must  *)
(* find warm; the lazy graphs, which somebody's eval pays for; and the     *)
(* random stream the adapters are drawn from.                              *)
(*                                                                         *)
(* A step is one compiled evaluation.  A batch shape is its sequence       *)
(* bucket; the first step of a shape traces the loss again.                *)
(***************************************************************************)
EXTENDS Naturals, FiniteSets

CONSTANTS Buckets,   \* sequence buckets a batch can fall into
          MaxSteps

VARIABLES cfg,         \* the condition and the checkpoint it loads
          pc,
          dtype,       \* precision of the trunk and of the adapters
          pending,     \* lazy graphs nobody has evaluated yet
          trainable,   \* groups of parameters the optimizer updates
          drawnFrom,   \* the random stream, and what the adapters were drawn from
          warm,        \* rate keys with a measured rate
          wired,       \* the wired limit in force
          reasserted,  \* observed_before: the one-shot flag of the loss
          traced,      \* batch shapes the compiled step knows
          stalls,      \* rate keys that were measured inside a trace
          spilled,     \* lazy graphs evaluated inside the measurement window
          step, over   \* steps done, and those evaluated above the house cap

vars == <<cfg, pc, dtype, pending, trainable, drawnFrom, warm, wired, reasserted, traced,
          stalls, spilled, step, over>>

Kinds == {"train_step", "packed", "unpacked"}   \* the last two are packed_train's arms
KernelDtypes == {"f32", "bf16"}
Ends == {"ok", "error", "regression"}

Hint == CHOOSE b \in Buckets : \A c \in Buckets : c <= b

\* The three attention caches are warmed and missed together; the loss has its own.
AttentionKey(d, b, packed) == [op |-> "attention", dtype |-> d, bucket |-> b, packed |-> packed]
LossKey(d, b) == [op |-> "loss", dtype |-> d, bucket |-> b, packed |-> FALSE]

Goto(here, there) == pc = here /\ pc' = there

----------------------------------------------------------------------------
(* Setting the model up *)

Load ==
  /\ Goto("start", "loaded")
  /\ dtype' = [trunk |-> cfg.stored, adapters |-> "none"]
  /\ trainable' = {"trunk"}
  /\ UNCHANGED <<cfg, pending, drawnFrom, warm, wired, reasserted, traced, stalls, spilled, step, over>>

\* model.set_dtype: a lazy cast of whatever floating parameters there are.
Cast ==
  /\ Goto("loaded", "cast")
  /\ IF cfg.cast THEN /\ dtype' = [trunk |-> "bf16",
                                   adapters |-> IF dtype.adapters = "none" THEN "none" ELSE "bf16"]
                      /\ pending' = pending \cup {"cast"}
                 ELSE UNCHANGED <<dtype, pending>>
  /\ UNCHANGED <<cfg, trainable, drawnFrom, warm, wired, reasserted, traced, stalls, spilled, step, over>>

\* _prewarm_rate_caches at the hinted shape; the packed arm warms both kinds of keys.
Prewarmed == {AttentionKey(dtype.trunk, Hint, p) : p \in {FALSE} \cup {cfg.kind = "packed"}}

\* Evaluate the cast, wrap every layer, calibrate; a precision the kernels do not know
\* is refused by the calibration forward, after the layers were wrapped.
Enable ==
  /\ pc = "cast"
  /\ IF ~cfg.flash
     THEN pc' = "enabled" /\ UNCHANGED <<pending, warm>>
     ELSE IF dtype.trunk \in KernelDtypes
     THEN /\ pc' = "enabled"
          /\ pending' = {}
          /\ warm' = warm \cup Prewarmed
     ELSE pc' = "error" /\ pending' = {} /\ UNCHANGED warm
  /\ UNCHANGED <<cfg, dtype, trainable, drawnFrom, wired, reasserted, traced, stalls, spilled, step, over>>

Seed ==
  /\ Goto("enabled", "seeded")
  /\ drawnFrom' = [drawnFrom EXCEPT !.stream = "seed"]
  /\ UNCHANGED <<cfg, dtype, pending, trainable, warm, wired, reasserted, traced, stalls, spilled, step, over>>

FrozenTrainable == {}

Freeze ==
  /\ Goto("seeded", "frozen")
  /\ trainable' = FrozenTrainable
  /\ UNCHANGED <<cfg, dtype, pending, drawnFrom, warm, wired, reasserted, traced, stalls, spilled, step, over>>

\* linear_to_lora_layers: fresh fp32 adapters, drawn lazily from the stream.
Inject ==
  /\ Goto("frozen", "adapted")
  /\ trainable' = trainable \cup {"adapters"}
  /\ dtype' = [dtype EXCEPT !.adapters = "f32"]
  /\ pending' = pending \cup {"adapters"}
  /\ drawnFrom' = [stream |-> "drawn", adapters |-> drawnFrom.stream]
  /\ UNCHANGED <<cfg, warm, wired, reasserted, traced, stalls, spilled, step, over>>

\* Mutated: no eval between the adapters and the window.
Unsettled == pending

Settled == {}

\* mx.eval(model.parameters()), then build the loss and open the measurement window.
Open ==
  /\ Goto("adapted", "open")
  /\ pending' = Settled
  /\ UNCHANGED <<cfg, dtype, trainable, drawnFrom, warm, wired, reasserted, traced, stalls, spilled, step, over>>

----------------------------------------------------------------------------
(* train() *)

\* mlx_lm's train() raises the wired limit to the device's at its own entry.
EnterTrain ==
  /\ Goto("open", "training")
  /\ wired' = "device"
  /\ UNCHANGED <<cfg, dtype, pending, trainable, drawnFrom, warm, reasserted, traced, stalls, spilled, step, over>>

\* Batches of both compiled arms of one width have the hinted shape; stock batching
\* pads every batch to its own longest row.
ShapesOf(kind) == IF kind = "unpacked" THEN Buckets ELSE {Hint}

\* The rates the traced loss looks up.
Needed(b) ==
  (IF cfg.flash THEN {AttentionKey(dtype.trunk, b, cfg.kind = "packed")} ELSE {})
  \cup (IF cfg.ours /\ cfg.kernel THEN {LossKey(dtype.trunk, b)} ELSE {})

\* Mutated: only our own loss is wrapped.
ReassertedByOurs == IF cfg.ours /\ ~reasserted THEN "house" ELSE wired

\* The wrapped loss re-asserts the house cap when its body first runs.
CapAfterTrace == IF ~reasserted THEN "house" ELSE wired

\* A trace runs the Python body of the loss: the cap, then the rates that are cold,
\* each measured on the spot.
Trace(b) ==
  /\ wired' = CapAfterTrace
  /\ reasserted' = TRUE
  /\ traced' = traced \cup {b}
  /\ stalls' = stalls \cup (Needed(b) \ warm)
  /\ warm' = warm \cup Needed(b)

LossRefused == cfg.ours /\ cfg.kernel /\ dtype.trunk \notin KernelDtypes

Counted == step + 1

Step(b) ==
  /\ pc = "training" /\ step < cfg.steps
  /\ b \in ShapesOf(cfg.kind)
  /\ IF LossRefused
     THEN /\ pc' = "error"
          /\ wired' = CapAfterTrace /\ reasserted' = TRUE
          /\ UNCHANGED <<pending, warm, traced, stalls, spilled, step, over>>
     ELSE /\ IF b \in traced THEN UNCHANGED <<wired, reasserted, traced, stalls, warm>> ELSE Trace(b)
          /\ spilled' = spilled \cup pending
          /\ pending' = {}
          /\ over' = IF wired' = "house" THEN over ELSE over + 1
          /\ step' = Counted
          /\ UNCHANGED pc
  /\ UNCHANGED <<cfg, dtype, trainable, drawnFrom>>

\* Mutated: one step too many is waited for.
Exhausted == step > cfg.steps

TrainReturns == step = cfg.steps

Verdict == IF wired = "house" THEN "ok" ELSE "regression"

\* The final install_guardrails returns the limit it replaces; that is the verdict.
Judge ==
  /\ pc = "training" /\ TrainReturns
  /\ pc' = Verdict
  /\ wired' = "house"
  /\ UNCHANGED <<cfg, dtype, pending, trainable, drawnFrom, warm, reasserted, traced, stalls, spilled, step, over>>

----------------------------------------------------------------------------

Init ==
  /\ \E k \in Kinds, f, o, c, e \in BOOLEAN, s \in KernelDtypes \cup {"fp16"}, n \in 0..MaxSteps :
        /\ k # "train_step" => f /\ o
        /\ cfg = [kind |-> k, flash |-> f, ours |-> o, kernel |-> e, cast |-> c, stored |-> s,
                  steps |-> n]
  /\ pc = "start"
  /\ dtype = [trunk |-> "none", adapters |-> "none"]
  /\ pending = {} /\ trainable = {} /\ warm = {}
  /\ drawnFrom = [stream |-> "unseeded", adapters |-> "none"]
  /\ wired = "house"   \* worker.main installs the guardrails first
  /\ reasserted = FALSE
  /\ traced = {} /\ stalls = {} /\ spilled = {}
  /\ step = 0 /\ over = 0

Next == \/ Load \/ Cast \/ Enable \/ Seed \/ Freeze \/ Inject \/ Open
        \/ EnterTrain \/ (\E b \in Buckets : Step(b)) \/ Judge

Spec == Init /\ [][Next]_vars /\ WF_vars(Next)

----------------------------------------------------------------------------
(* Properties *)

\* Steps are counted only while training and never past the configured number.
TypeOK ==
  /\ pc \in {"start", "loaded", "cast", "enabled", "seeded", "frozen", "adapted", "open",
             "training"} \cup Ends
  /\ wired \in {"house", "device"}
  /\ stalls \subseteq warm
  /\ traced \subseteq Buckets
  /\ over <= step /\ step <= cfg.steps
  /\ pc \in {"training"} \cup Ends \/ step = 0

\* worker.py's wired-limit contract: train() overrides the cap before the first step,
\* and yet no step is ever evaluated above it, for either arm and however often new
\* shapes make the loss trace again.
NoStepAboveTheCap == over = 0

\* The verdict is about the run: a regression is only reported when a step ran above
\* the cap or none ran at all, and a result never hides one that did.
VerdictIsAboutTheRun ==
  /\ pc = "regression" => over > 0 \/ step = 0
  /\ pc = "ok" => over = 0 /\ step > 0

\* worker.py:412-415: the hinted calibration makes a compiled train() find its attention
\* rates warm, whatever the order of casting and enabling and for both kinds of masks.
\* (Stock batching has shapes nobody hinted.)
AttentionTracesWarm ==
  cfg.kind # "unpacked" => \A k \in stalls : k.op # "attention"

\* worker.py:429-434: nothing of the setup is evaluated inside the measured window.
WindowMeasuresTraining == spilled = {}

\* Exactly the adapters train, in full precision beside a trunk of the condition's
\* precision, and they start from the seed whatever was loaded, cast or calibrated.
TrainsSeededAdapters ==
  pc \in {"open", "training", "ok", "regression"} =>
     /\ trainable = {"adapters"}
     /\ dtype.adapters = "f32"
     /\ cfg.cast => dtype.trunk = "bf16"
     /\ drawnFrom.adapters = "seed"

\* attention/wrapper.py:36-43: the compiled train() traces with warm caches, "the CE
\* adapter's own 0.1.0 precedent: calibrate before the compiled train()".
LossTracesWarm == \A k \in stalls : k.op # "loss"

\* A condition that was started reaches a verdict or an error.
ReachesAVerdict == <>(pc \in Ends)
=============================================================================
