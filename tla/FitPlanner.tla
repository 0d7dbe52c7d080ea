----------------------------- MODULE FitPlanner -----------------------------
(***************************************************************************)
(* The analytic RAM-fit planner (plan/estimate.py, plan/inverse.py and the *)
(* memfit search they share).  One call at a time: plan_fit ("fit"), which *)
(* prices a training configuration and, when it is over the budget, walks  *)
(* a list of smaller ones; max_seq_len_for_budget ("seq") and              *)
(* max_batch_for_budget ("batch"), which bisect one of the two numbers.    *)
(*                                                                         *)
(* Bytes are integers.  A coefficient of the calibration is a whole number *)
(* of 1/Unit bytes, so that int(coefficient * count) keeps its rounding;   *)
(* the literals 1024 (step of the suggestions) and 8192 (chunk tile) are   *)
(* the constants Step and Tile.                                            *)
(***************************************************************************)
EXTENDS Integers

CONSTANTS
  Shapes,     \* the ModelShapes under plan; quant_bits = 0 when one is dense
  Calib,      \* the Calibration
  Unit,       \* a coefficient c of Calib stands for c / Unit bytes
  Step, Tile,
  Cfgs,       \* the TrainConfigs a caller may pass
  Budgets,    \* the byte budgets
  Ceilings,   \* the seq_ceiling / batch_ceiling arguments
  MlxVersions \* what package metadata says of the installed mlx

VARIABLES
  call,   \* the arguments of the running call
  pc,     \* where the call is
  warned, \* CalibrationWarnings raised by this call
  cand,   \* the candidate configuration priced last
  lo, hi, \* the bisection's fit_v and miss_v
  result  \* the answer: [tag |-> ..., ...]

vars == <<call, pc, warned, cand, lo, hi, result>>

Kinds == {"fit", "seq", "batch"}
Calls == [kind : Kinds, shape : Shapes, cfg : Cfgs, budget : Budgets, ceiling : Ceilings,
          mlx : MlxVersions]

Pending == [tag |-> "pending"]
Refused(why) == [tag |-> "refused", why |-> why]
DoesNotFit == [tag |-> "does_not_fit"]

---------------------------------------------------------------------------
(* Pricing one configuration. *)

Shape == call.shape

DtypeBytes(dtype) == IF dtype = "float32" THEN 4 ELSE 2
Dtypes == {"float32", "bfloat16", "float16"}
Impls == {"naive", "chunked", "kernel"}
Attentions == {"stock", "flash"}

ParamCount ==
  LET d == Shape.hidden IN
    Shape.vocab * d + (IF Shape.tied THEN 0 ELSE Shape.vocab * d)
      + Shape.layers * ((2 * d * d * (Shape.heads + Shape.kv_heads)) \div Shape.heads
                          + 3 * d * Shape.intermediate + 2 * d)
      + d

\* A quantized checkpoint is priced whole at bits / 8 + 4 / group bytes.
WeightsBytes(c) ==
  IF Shape.quant_bits = 0
  THEN ParamCount * DtypeBytes(c.dtype)
  ELSE (ParamCount * (Shape.quant_bits * Shape.quant_group + 32)) \div (8 * Shape.quant_group)

LoraParamCount(c) == c.lora_layers * 4 * c.lora_rank * Shape.hidden
LoraBytes(c) == 2 * LoraParamCount(c)
OptimizerBytes(c) == (Calib.optimizer * LoraParamCount(c)) \div Unit

ActivationBytes(c) ==
  LET a == IF c.grad_checkpoint THEN Calib.act_ckpt ELSE Calib.act_full
  IN  (a * c.batch * c.seq_len * Shape.hidden * Shape.layers) \div Unit

FlashSavedStateBytes(c) ==
  c.batch * c.seq_len * Shape.hidden * DtypeBytes(c.dtype) + c.batch * Shape.heads * c.seq_len * 4

\* The flash coefficient is the fused-loss arm's for the kernel loss, the
\* stock-loss arm's for the other two.
AttentionBytes(c) ==
  IF c.attention = "stock"
  THEN (Calib.attn * c.batch * Shape.heads * c.seq_len * c.seq_len) \div Unit
  ELSE LET a == IF c.impl = "kernel" THEN Calib.flash_kernel ELSE Calib.flash_stock
       IN  FlashSavedStateBytes(c) + (a * c.batch * Shape.heads * c.seq_len) \div Unit

LossBytes(c) ==
  LET n == c.batch * c.seq_len
      base == CASE c.impl = "naive" -> (Calib.naive * n * Shape.vocab) \div Unit
                [] c.impl = "chunked" -> n * Tile * 12
                [] OTHER -> 12 * n
  IN  base + (IF c.lora_rank = 0 THEN Shape.vocab * Shape.hidden * 8 ELSE 0)

ResolveLoraLayers(c) ==
  IF c.lora_layers = -1 THEN [c EXCEPT !.lora_layers = Shape.layers] ELSE c

\* estimate() over the one phase of _train_step_model.
Peak(c0) ==
  LET c == ResolveLoraLayers(c0)
      total == WeightsBytes(c) + Calib.base \div Unit + LoraBytes(c) + OptimizerBytes(c)
                 + ActivationBytes(c) + AttentionBytes(c) + LossBytes(c)
  IN  (total * (100 + Calib.overhead_pct)) \div 100

---------------------------------------------------------------------------
(* Refusals, in the order the code meets them. *)

Fine == "fine"

\* _validate_cfg
ValidateCfg(c) ==
  CASE c.batch < 1 -> "batch"
    [] c.seq_len < 1 -> "seq_len"
    [] c.lora_rank < 0 -> "lora_rank"
    [] OTHER -> Fine

\* _resolve_lora_layers, then the terms in component order.
TermError(c) ==
  CASE c.lora_layers < -1 -> "lora_layers"
    [] c.dtype \notin Dtypes -> "dtype"
    [] c.attention \notin Attentions -> "attention"
    [] c.impl \notin Impls -> "impl"
    [] OTHER -> Fine

\* stock_attention_calibration_note, for the version _installed_mlx_dist_version reads.
HasNote(version) == version \notin {"absent", "calibrated"}

WarnsFor(c, version) == c.attention = "stock" /\ HasNote(version)

---------------------------------------------------------------------------
(* One call. *)

\* The configuration with the searched number set to v.
Vary(v) ==
  CASE call.kind = "seq" -> [call.cfg EXCEPT !.seq_len = v]
    [] call.kind = "batch" -> [call.cfg EXCEPT !.batch = v]
    [] OTHER -> call.cfg

First == Vary(1)
FitsBudget(c) == Peak(c) <= call.budget

Init ==
  /\ call \in Calls
  /\ pc = "enter" /\ warned = 0 /\ cand = call.cfg /\ lo = 0 /\ hi = 0 /\ result = Pending

Finish(r) == result' = r /\ pc' = "done"

\* The ceiling check of an inverse query, then _validate_cfg.
Enter ==
  /\ pc = "enter"
  /\ LET why == IF call.kind # "fit" /\ call.ceiling < 1 THEN "ceiling" ELSE ValidateCfg(First)
     IN  IF why = Fine THEN pc' = "warn" /\ UNCHANGED result ELSE Finish(Refused(why))
  /\ UNCHANGED <<call, warned, cand, lo, hi>>

\* _warn_if_stock_attention_uncalibrated: the call's one warning, before any term runs.
Warn ==
  /\ pc = "warn"
  /\ warned' = IF WarnsFor(First, call.mlx) THEN warned + 1 ELSE warned
  /\ pc' = "price"
  /\ UNCHANGED <<call, cand, lo, hi, result>>

\* _estimate_peak of the configuration asked for: plan_fit's verdict, or the
\* floor of an inverse query.
Price ==
  /\ pc = "price"
  /\ CASE TermError(First) # Fine -> Finish(Refused(TermError(First)))
       [] TermError(First) = Fine /\ call.kind = "fit" /\ FitsBudget(First) ->
            Finish([tag |-> "fits"])
       [] TermError(First) = Fine /\ call.kind = "fit" /\ ~FitsBudget(First) ->
            pc' = "suggest" /\ UNCHANGED result
       [] TermError(First) = Fine /\ call.kind # "fit" /\ ~FitsBudget(First) ->
            Finish(DoesNotFit)
       [] OTHER -> pc' = "ends" /\ UNCHANGED result
  /\ UNCHANGED <<call, warned, cand, lo, hi>>

AtLeast(floor, v) == IF v < floor THEN floor ELSE v

\* _suggestion_candidates: halve the batch down to 1, then take Step off the
\* length down to Step.
NextCandidates(c) ==
  CASE c.batch > 1 -> {[c EXCEPT !.batch = AtLeast(1, c.batch \div 2)]}
    [] c.batch = 1 /\ c.seq_len > Step -> {[c EXCEPT !.seq_len = AtLeast(Step, c.seq_len - Step)]}
    [] OTHER -> {}

\* One turn of _find_fit.
Suggest ==
  /\ pc = "suggest"
  /\ \/ \E c \in NextCandidates(cand) :
          /\ cand' = c
          /\ IF FitsBudget(c) THEN Finish([tag |-> "suggests", cfg |-> c])
                              ELSE UNCHANGED <<pc, result>>
     \/ /\ NextCandidates(cand) = {}
        /\ Finish([tag |-> "over_budget"])
        /\ UNCHANGED cand
  /\ UNCHANGED <<call, warned, lo, hi>>

\* The endpoints of max_int_within_budget.
Ends ==
  /\ pc = "ends"
  /\ LET low == Peak(Vary(1))
         high == Peak(Vary(call.ceiling))
     IN  CASE high < low -> Finish(Refused("non_monotone")) /\ UNCHANGED <<lo, hi>>
           [] high >= low /\ high <= call.budget ->
                Finish([tag |-> "largest", value |-> call.ceiling]) /\ UNCHANGED <<lo, hi>>
           [] OTHER -> /\ pc' = "bisect" /\ lo' = 1 /\ hi' = call.ceiling
                       /\ UNCHANGED result
  /\ UNCHANGED <<call, warned, cand>>

\* Mutated: stops one value early.
ClosedEarly == hi - lo <= 2

\* The bisection is over: no value lies between the bracket's ends.
Closed == hi - lo <= 1

\* One turn of the bisection, or its end.
Bisect ==
  /\ pc = "bisect"
  /\ IF ~Closed
     THEN LET mid == (lo + hi) \div 2 IN
            /\ IF FitsBudget(Vary(mid)) THEN lo' = mid /\ UNCHANGED hi
                                        ELSE hi' = mid /\ UNCHANGED lo
            /\ UNCHANGED <<pc, result>>
     ELSE Finish([tag |-> "largest", value |-> lo]) /\ UNCHANGED <<lo, hi>>
  /\ UNCHANGED <<call, warned, cand>>

Return == pc = "done" /\ UNCHANGED vars

Next == Enter \/ Warn \/ Price \/ Suggest \/ Ends \/ Bisect \/ Return

Spec == Init /\ [][Next]_vars /\ WF_vars(Next)

---------------------------------------------------------------------------
TypeOK ==
  /\ call \in Calls
  /\ pc \in {"enter", "warn", "price", "suggest", "ends", "bisect", "done"}
  /\ warned \in Nat /\ lo \in Nat /\ hi \in Nat
  /\ cand.batch \in Int /\ cand.seq_len \in Int
  /\ result.tag \in {"pending", "refused", "does_not_fit", "fits", "suggests", "over_budget",
                     "largest"}

Answered == pc = "done" /\ result.tag # "refused"

\* An inverse query answers the largest value up to the ceiling that fits
\* (plan/inverse.py:68-69), and says that nothing fits only when nothing does.
AnswerIsTheLargest ==
  Answered /\ call.kind # "fit" =>
    LET fitting == {v \in 1 .. call.ceiling : FitsBudget(Vary(v))}
    IN  IF result.tag = "does_not_fit" THEN fitting = {}
        ELSE /\ result.value \in fitting
             /\ \A v \in fitting : v <= result.value

\* What a suggestion gives up.  It fits; the batch it names is at least half
\* of the largest that would have fitted, the length it names is less than one
\* step under the largest, and plan_fit ends without one only when the last
\* candidate is over the budget too.
SuggestionIsClose ==
  pc = "done" /\ call.kind = "fit" =>
    LET c == call.cfg
        alone == [c EXCEPT !.batch = 1]
    IN  CASE result.tag = "suggests" ->
               /\ FitsBudget(result.cfg)
               /\ IF result.cfg.seq_len = c.seq_len
                  THEN \A b \in 1 .. c.batch :
                         FitsBudget([c EXCEPT !.batch = b]) => b <= 2 * result.cfg.batch
                  ELSE \A s \in 1 .. c.seq_len :
                         FitsBudget([alone EXCEPT !.seq_len = s]) => s < result.cfg.seq_len + Step
          [] result.tag = "over_budget" ->
               \A s \in 1 .. c.seq_len :
                 FitsBudget([alone EXCEPT !.seq_len = s]) => s < Step
          [] OTHER -> TRUE

\* Every field of a priced configuration means something, the one a search
\* replaces apart: there is no silent fallback for an odd name or a bad number.
OnlyMeaningfulIsPriced ==
  Answered =>
    /\ call.cfg.batch >= 1 \/ call.kind = "batch"
    /\ call.cfg.seq_len >= 1 \/ call.kind = "seq"
    /\ call.cfg.lora_rank >= 0 /\ call.cfg.lora_layers >= -1
    /\ call.cfg.dtype \in Dtypes
    /\ call.cfg.attention \in Attentions
    /\ call.cfg.impl \in Impls

\* A call that answers a stock-attention question on an uncalibrated mlx
\* warns exactly once, however many configurations it prices; any other
\* call is silent.
WarnsOncePerAnswer ==
  Answered => warned = IF call.cfg.attention = "stock" /\ HasNote(call.mlx) THEN 1 ELSE 0

\* Two calls agree: a configuration plan_fit accepts is one the bisection of
\* either number reaches, whatever rounding each price takes.
VerdictsAgree ==
  Answered /\ result.tag = "largest" =>
    LET own == IF call.kind = "seq" THEN call.cfg.seq_len ELSE call.cfg.batch
    IN  own \in 1 .. call.ceiling => (FitsBudget(call.cfg) <=> own <= result.value)

\* Every call comes back: the walk over the suggestions and the bisection end.
CallReturns == <>(pc = "done")

\* What the docstrings of plan_fit and estimate_peak promise (estimate.py:445,
\* :488): an invalid configuration raises before any warning.
RefusedBeforeWarning ==
  pc = "done" /\ result.tag = "refused" => warned = 0

\* What README.md:422 promises: the planner says that a configuration fits or
\* suggests a smaller batch or sequence length that would.
SuggestsWhatWouldFit ==
  pc = "done" /\ result.tag = "over_budget" =>
    ~ \E b \in 1 .. call.cfg.batch, s \in 1 .. call.cfg.seq_len :
        FitsBudget([call.cfg EXCEPT !.batch = b, !.seq_len = s])
=============================================================================
