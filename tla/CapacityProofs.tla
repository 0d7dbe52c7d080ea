---------------------------- MODULE CapacityProofs ----------------------------
(***************************************************************************)
(* Proofs about what fits on the machine: the ceilings and the watchdog    *)
(* (MemoryGuard), the hold-out file (Holdout), the calibration of the      *)
(* planner (CalibrationFit), the fit planner (FitPlanner) and its command  *)
(* (PlanCommand), and with ContextSweepProofs what CapacityMC checks, of   *)
(* every machine, model, manifest and command.                             *)
(***************************************************************************)
EXTENDS CapacityMC, ContextSweepProofs, TLAPS, FiniteSetTheorems, WellFoundedInduction

-----------------------------------------------------------------------------
(* The planner and its command: a price grows with the batch and with the  *)
(* length, so the bisection answers the largest value that fits, the walk  *)
(* over the suggestions gives up little, and the exit code tells the       *)
(* verdict.                                                                *)

USE PlanAssumption

-----------------------------------------------------------------------------
(* Products and quotients of natural numbers grow with their parts. *)

LEMMA ProductGrows ==
  ASSUME NEW a \in Nat, NEW b \in Nat, NEW c \in Nat, NEW d \in Nat, a <= c, b <= d
  PROVE  a * b \in Nat /\ c * d \in Nat /\ a * b <= c * d
<1>1. PICK k \in Nat : c = a + k
  <2>1. c - a \in Nat /\ c = a + (c - a)
    OBVIOUS
  <2> QED BY <2>1
<1>2. PICK n \in Nat : d = b + n
  <2>1. d - b \in Nat /\ d = b + (d - b)
    OBVIOUS
  <2> QED BY <2>1
<1>3. /\ a * b \in Nat /\ a * n \in Nat /\ k * b \in Nat /\ k * n \in Nat
      /\ (a + k) * (b + n) = a * b + a * n + k * b + k * n
  OBVIOUS
<1> QED BY <1>1, <1>2, <1>3

LEMMA QuotientGrows ==
  ASSUME NEW x \in Nat, NEW y \in Nat, x <= y, NEW d \in Nat \ {0}
  PROVE  x \div d \in Nat /\ y \div d \in Nat /\ x \div d <= y \div d
  OBVIOUS

-----------------------------------------------------------------------------
(* The price. *)

\* A configuration whose numbers _validate_cfg and _resolve_lora_layers let through.
Priced(c) ==
  /\ c \in TrainConfig /\ c.batch >= 0 /\ c.seq_len >= 0
  /\ c.lora_rank >= 0 /\ c.lora_layers >= -1

\* d asks for at least as many rows and tokens as c, and for the same otherwise.
Within(c, d) ==
  /\ Priced(c) /\ Priced(d)
  /\ c.batch <= d.batch /\ c.seq_len <= d.seq_len
  /\ c.dtype = d.dtype /\ c.lora_rank = d.lora_rank /\ c.lora_layers = d.lora_layers
  /\ c.grad_checkpoint = d.grad_checkpoint /\ c.impl = d.impl /\ c.attention = d.attention

ShapeOK ==
  /\ call.shape \in ModelShape
  /\ call.shape.quant_bits # 0 => call.shape.quant_group # 0

LEMMA RowsAndTokens ==
  ASSUME NEW c, NEW d, Within(c, d), NEW a \in Nat, NEW h \in Nat, NEW l \in Nat
  PROVE  /\ a * c.batch * c.seq_len \in Nat /\ a * d.batch * d.seq_len \in Nat
         /\ a * c.batch * c.seq_len <= a * d.batch * d.seq_len
         /\ a * c.batch * c.seq_len * h * l \in Nat /\ a * d.batch * d.seq_len * h * l \in Nat
         /\ a * c.batch * c.seq_len * h * l <= a * d.batch * d.seq_len * h * l
         /\ a * c.batch * h * c.seq_len \in Nat /\ a * d.batch * h * d.seq_len \in Nat
         /\ a * c.batch * h * c.seq_len <= a * d.batch * h * d.seq_len
         /\ a * c.batch * h * c.seq_len * c.seq_len \in Nat
         /\ a * d.batch * h * d.seq_len * d.seq_len \in Nat
         /\ a * c.batch * h * c.seq_len * c.seq_len <= a * d.batch * h * d.seq_len * d.seq_len
<1> DEFINE b == c.batch
           s == c.seq_len
           e == d.batch
           t == d.seq_len
<1>1. b \in Nat /\ s \in Nat /\ e \in Nat /\ t \in Nat /\ b <= e /\ s <= t
  BY DEF Within, Priced, TrainConfig
<1> SUFFICES /\ a * b * s \in Nat /\ a * e * t \in Nat
             /\ a * b * s <= a * e * t
             /\ a * b * s * h * l \in Nat /\ a * e * t * h * l \in Nat
             /\ a * b * s * h * l <= a * e * t * h * l
             /\ a * b * h * s \in Nat /\ a * e * h * t \in Nat
             /\ a * b * h * s <= a * e * h * t
             /\ a * b * h * s * s \in Nat /\ a * e * h * t * t \in Nat
             /\ a * b * h * s * s <= a * e * h * t * t
  OBVIOUS
<1> HIDE DEF b, s, e, t
<1>2. a * b \in Nat /\ a * e \in Nat /\ a * b <= a * e
  BY <1>1, ProductGrows
<1>3. a * b * s \in Nat /\ a * e * t \in Nat /\ a * b * s <= a * e * t
  BY <1>1, <1>2, ProductGrows
<1>4. a * b * s * h \in Nat /\ a * e * t * h \in Nat /\ a * b * s * h <= a * e * t * h
  BY <1>3, ProductGrows
<1>5. /\ a * b * s * h * l \in Nat /\ a * e * t * h * l \in Nat
      /\ a * b * s * h * l <= a * e * t * h * l
  BY <1>4, ProductGrows
<1>6. a * b * h \in Nat /\ a * e * h \in Nat /\ a * b * h <= a * e * h
  BY <1>2, ProductGrows
<1>7. a * b * h * s \in Nat /\ a * e * h * t \in Nat /\ a * b * h * s <= a * e * h * t
  BY <1>1, <1>6, ProductGrows
<1>8. /\ a * b * h * s * s \in Nat /\ a * e * h * t * t \in Nat
      /\ a * b * h * s * s <= a * e * h * t * t
  BY <1>1, <1>7, ProductGrows
<1> QED BY <1>3, <1>5, <1>7, <1>8

LEMMA ActivationsGrow ==
  ASSUME ShapeOK, NEW c, NEW d, Within(c, d)
  PROVE  /\ Plan!ActivationBytes(c) \in Nat /\ Plan!ActivationBytes(d) \in Nat
         /\ Plan!ActivationBytes(c) <= Plan!ActivationBytes(d)
<1> DEFINE a == IF c.grad_checkpoint THEN Calib.act_ckpt ELSE Calib.act_full
           h == call.shape.hidden
           l == call.shape.layers
<1>1. a \in Nat /\ h \in Nat /\ l \in Nat
  BY DEF ShapeOK, ModelShape
<1>2. /\ Plan!ActivationBytes(c) = (a * c.batch * c.seq_len * h * l) \div Unit
      /\ Plan!ActivationBytes(d) = (a * d.batch * d.seq_len * h * l) \div Unit
  BY DEF Plan!ActivationBytes, Plan!Shape, Within
<1> HIDE DEF a, h, l
<1>3. /\ a * c.batch * c.seq_len * h * l \in Nat /\ a * d.batch * d.seq_len * h * l \in Nat
      /\ a * c.batch * c.seq_len * h * l <= a * d.batch * d.seq_len * h * l
  BY <1>1, RowsAndTokens
<1> QED BY <1>2, <1>3, QuotientGrows

LEMMA AttentionGrows ==
  ASSUME ShapeOK, NEW c, NEW d, Within(c, d)
  PROVE  /\ Plan!AttentionBytes(c) \in Nat /\ Plan!AttentionBytes(d) \in Nat
         /\ Plan!AttentionBytes(c) <= Plan!AttentionBytes(d)
<1> DEFINE h == call.shape.heads
           w == call.shape.hidden
           y == Plan!DtypeBytes(c.dtype)
           a == IF c.impl = "kernel" THEN Calib.flash_kernel ELSE Calib.flash_stock
<1>1. h \in Nat /\ w \in Nat /\ y \in Nat /\ a \in Nat /\ Calib.attn \in Nat
  BY DEF ShapeOK, ModelShape, Plan!DtypeBytes
<1>2. CASE c.attention = "stock"
  <2>1. /\ Plan!AttentionBytes(c) = (Calib.attn * c.batch * h * c.seq_len * c.seq_len) \div Unit
        /\ Plan!AttentionBytes(d) = (Calib.attn * d.batch * h * d.seq_len * d.seq_len) \div Unit
    BY <1>2 DEF Plan!AttentionBytes, Plan!Shape, Within
  <2> HIDE DEF h
  <2>2. /\ Calib.attn * c.batch * h * c.seq_len * c.seq_len \in Nat
        /\ Calib.attn * d.batch * h * d.seq_len * d.seq_len \in Nat
        /\ Calib.attn * c.batch * h * c.seq_len * c.seq_len
             <= Calib.attn * d.batch * h * d.seq_len * d.seq_len
    BY <1>1, RowsAndTokens
  <2> QED BY <2>1, <2>2, QuotientGrows
<1>3. CASE c.attention # "stock"
  <2>1. /\ Plan!AttentionBytes(c) = (c.batch * c.seq_len * w * y + c.batch * h * c.seq_len * 4)
                                      + (a * c.batch * h * c.seq_len) \div Unit
        /\ Plan!AttentionBytes(d) = (d.batch * d.seq_len * w * y + d.batch * h * d.seq_len * 4)
                                      + (a * d.batch * h * d.seq_len) \div Unit
    BY <1>3 DEF Plan!AttentionBytes, Plan!FlashSavedStateBytes, Plan!Shape, Within
  <2> HIDE DEF h, w, y, a
  <2>2. /\ 1 * c.batch * c.seq_len * w * y \in Nat /\ 1 * d.batch * d.seq_len * w * y \in Nat
        /\ 1 * c.batch * c.seq_len * w * y <= 1 * d.batch * d.seq_len * w * y
    BY <1>1, RowsAndTokens
  <2>3. /\ 1 * c.batch * h * c.seq_len \in Nat /\ 1 * d.batch * h * d.seq_len \in Nat
        /\ 1 * c.batch * h * c.seq_len <= 1 * d.batch * h * d.seq_len
    BY <1>1, RowsAndTokens
  <2>4. /\ (a * c.batch * h * c.seq_len) \div Unit \in Nat
        /\ (a * d.batch * h * d.seq_len) \div Unit \in Nat
        /\ (a * c.batch * h * c.seq_len) \div Unit <= (a * d.batch * h * d.seq_len) \div Unit
    <3>1. /\ a * c.batch * h * c.seq_len \in Nat /\ a * d.batch * h * d.seq_len \in Nat
          /\ a * c.batch * h * c.seq_len <= a * d.batch * h * d.seq_len
      BY <1>1, RowsAndTokens
    <3> QED BY <3>1, QuotientGrows
  <2>5. 1 * c.batch = c.batch /\ 1 * d.batch = d.batch
    BY DEF Within, Priced, TrainConfig
  <2> QED BY <2>1, <2>2, <2>3, <2>4, <2>5
<1> QED BY <1>2, <1>3

LEMMA LossGrows ==
  ASSUME ShapeOK, NEW c, NEW d, Within(c, d)
  PROVE  /\ Plan!LossBytes(c) \in Nat /\ Plan!LossBytes(d) \in Nat
         /\ Plan!LossBytes(c) <= Plan!LossBytes(d)
<1> DEFINE head == IF c.lora_rank = 0 THEN call.shape.vocab * call.shape.hidden * 8 ELSE 0
           v == call.shape.vocab
           n == c.batch * c.seq_len
           k == d.batch * d.seq_len
<1>1. v \in Nat /\ call.shape.hidden \in Nat /\ Calib.naive \in Nat
  BY DEF ShapeOK, ModelShape
<1>2. head \in Nat
  BY <1>1
<1>3. n \in Nat /\ k \in Nat /\ n <= k
  BY ProductGrows DEF Within, Priced, TrainConfig
<1>4. CASE c.impl = "naive"
  <2>1. /\ Plan!LossBytes(c) = (Calib.naive * n * v) \div Unit + head
        /\ Plan!LossBytes(d) = (Calib.naive * k * v) \div Unit + head
    BY <1>4 DEF Plan!LossBytes, Plan!Shape, Within
  <2> HIDE DEF head, n, k, v
  <2>2. Calib.naive * n \in Nat /\ Calib.naive * k \in Nat /\ Calib.naive * n <= Calib.naive * k
    BY <1>1, <1>3, ProductGrows
  <2>3. /\ Calib.naive * n * v \in Nat /\ Calib.naive * k * v \in Nat
        /\ Calib.naive * n * v <= Calib.naive * k * v
    BY <1>1, <2>2, ProductGrows
  <2>4. /\ (Calib.naive * n * v) \div Unit \in Nat /\ (Calib.naive * k * v) \div Unit \in Nat
        /\ (Calib.naive * n * v) \div Unit <= (Calib.naive * k * v) \div Unit
    BY <2>3, QuotientGrows
  <2> QED BY <1>2, <2>1, <2>4
<1>5. CASE c.impl = "chunked"
  <2>1. Plan!LossBytes(c) = n * Tile * 12 + head /\ Plan!LossBytes(d) = k * Tile * 12 + head
    BY <1>5 DEF Plan!LossBytes, Plan!Shape, Within
  <2> HIDE DEF head, n, k, v
  <2>2. n * Tile \in Nat /\ k * Tile \in Nat /\ n * Tile <= k * Tile
    BY <1>3, ProductGrows
  <2> QED BY <1>2, <2>1, <2>2
<1>6. CASE c.impl # "naive" /\ c.impl # "chunked"
  <2>1. Plan!LossBytes(c) = 12 * n + head /\ Plan!LossBytes(d) = 12 * k + head
    BY <1>6 DEF Plan!LossBytes, Plan!Shape, Within
  <2> HIDE DEF head, n, k, v
  <2> QED BY <1>2, <1>3, <2>1
<1> QED BY <1>4, <1>5, <1>6

\* What does not depend on rows or tokens.
LEMMA RestIsTheSame ==
  ASSUME ShapeOK, NEW c, NEW d, Within(c, d), c.lora_layers >= 0
  PROVE  /\ Plan!WeightsBytes(c) \in Nat /\ Plan!WeightsBytes(c) = Plan!WeightsBytes(d)
         /\ Plan!LoraBytes(c) \in Nat /\ Plan!LoraBytes(c) = Plan!LoraBytes(d)
         /\ Plan!OptimizerBytes(c) \in Nat /\ Plan!OptimizerBytes(c) = Plan!OptimizerBytes(d)
<1> DEFINE s == call.shape
           w == s.hidden
           a == s.vocab * w
           b == IF s.tied THEN 0 ELSE s.vocab * w
           q == (2 * w * w * (s.heads + s.kv_heads)) \div s.heads + 3 * w * s.intermediate + 2 * w
<1>1. /\ s.vocab \in Nat /\ w \in Nat /\ s.layers \in Nat /\ s.intermediate \in Nat
      /\ s.heads \in Nat \ {0} /\ s.kv_heads \in Nat /\ s.quant_bits \in Nat
      /\ s.quant_group \in Nat
  BY DEF ShapeOK, ModelShape
<1>2. a \in Nat /\ b \in Nat
  BY <1>1, ProductGrows
<1>3. q \in Nat
  <2>1. 2 * w * w \in Nat /\ 3 * w * s.intermediate \in Nat
    <3> HIDE DEF w, s
    <3>1. 2 * w \in Nat /\ 3 * w \in Nat
      BY <1>1
    <3> QED BY <1>1, <3>1, ProductGrows
  <2>2. 2 * w * w * (s.heads + s.kv_heads) \in Nat
    <3> DEFINE x == 2 * w * w
               y == s.heads + s.kv_heads
    <3>1. x \in Nat /\ y \in Nat
      BY <1>1, <2>1
    <3> HIDE DEF x, y
    <3>2. x * y \in Nat
      BY <3>1, ProductGrows
    <3> QED BY <3>2 DEF x, y
  <2>3. (2 * w * w * (s.heads + s.kv_heads)) \div s.heads \in Nat
    BY <1>1, <2>2, QuotientGrows
  <2> HIDE DEF w, s
  <2> QED BY <1>1, <2>1, <2>3
<1>4. Plan!ParamCount \in Nat
  <2>1. Plan!ParamCount = a + b + s.layers * q + w
    BY DEF Plan!ParamCount, Plan!Shape
  <2> HIDE DEF a, b, q, w, s
  <2>2. s.layers * q \in Nat
    BY <1>1, <1>3, ProductGrows
  <2> QED BY <1>1, <1>2, <2>1, <2>2
<1>5. Plan!WeightsBytes(c) \in Nat /\ Plan!WeightsBytes(c) = Plan!WeightsBytes(d)
  <2>1. c.dtype = d.dtype
    BY DEF Within
  <2>2. CASE s.quant_bits = 0
    <3>1. /\ Plan!WeightsBytes(c) = Plan!ParamCount * Plan!DtypeBytes(c.dtype)
          /\ Plan!WeightsBytes(d) = Plan!ParamCount * Plan!DtypeBytes(c.dtype)
      BY <2>1, <2>2 DEF Plan!WeightsBytes, Plan!Shape
    <3>2. Plan!DtypeBytes(c.dtype) \in Nat
      BY DEF Plan!DtypeBytes
    <3> QED BY <1>4, <3>1, <3>2, ProductGrows
  <2>3. CASE s.quant_bits # 0
    <3> DEFINE x == s.quant_bits * s.quant_group + 32
               y == 8 * s.quant_group
    <3>1. x \in Nat /\ y \in Nat \ {0}
      <4>1. s.quant_group # 0
        BY <2>3 DEF ShapeOK
      <4>2. s.quant_bits * s.quant_group \in Nat
        BY <1>1, ProductGrows
      <4> QED BY <1>1, <4>1, <4>2
    <3>2. /\ Plan!WeightsBytes(c) = (Plan!ParamCount * x) \div y
          /\ Plan!WeightsBytes(d) = (Plan!ParamCount * x) \div y
      BY <2>3 DEF Plan!WeightsBytes, Plan!Shape
    <3> HIDE DEF x, y
    <3>3. Plan!ParamCount * x \in Nat
      BY <1>4, <3>1, ProductGrows
    <3> QED BY <3>1, <3>2, <3>3, QuotientGrows
  <2> QED BY <2>2, <2>3
<1>6. Plan!LoraParamCount(c) \in Nat /\ Plan!LoraParamCount(c) = Plan!LoraParamCount(d)
  <2> DEFINE l == c.lora_layers
             r == c.lora_rank
  <2>1. l \in Nat /\ r \in Nat
    BY DEF Within, Priced, TrainConfig
  <2>2. Plan!LoraParamCount(c) = l * 4 * r * w /\ Plan!LoraParamCount(d) = l * 4 * r * w
    BY DEF Plan!LoraParamCount, Plan!Shape, Within
  <2> HIDE DEF l, r, w
  <2>3. l * 4 \in Nat
    BY <2>1
  <2>4. l * 4 * r \in Nat
    BY <2>1, <2>3, ProductGrows
  <2>5. l * 4 * r * w \in Nat
    BY <1>1, <2>4, ProductGrows
  <2> QED BY <2>2, <2>5
<1>7. Plan!LoraBytes(c) \in Nat /\ Plan!LoraBytes(c) = Plan!LoraBytes(d)
  BY <1>6 DEF Plan!LoraBytes
<1>8. Plan!OptimizerBytes(c) \in Nat /\ Plan!OptimizerBytes(c) = Plan!OptimizerBytes(d)
  <2>1. Calib.optimizer * Plan!LoraParamCount(c) \in Nat
    BY <1>6, ProductGrows
  <2> QED BY <1>6, <2>1, QuotientGrows DEF Plan!OptimizerBytes
<1> QED BY <1>5, <1>7, <1>8

\* More rows or tokens are never cheaper.
LEMMA PriceGrows ==
  ASSUME ShapeOK, NEW c, NEW d, Within(c, d)
  PROVE  /\ Plan!Peak(c) \in Nat /\ Plan!Peak(d) \in Nat
         /\ Plan!Peak(c) <= Plan!Peak(d)
<1> DEFINE e == Plan!ResolveLoraLayers(c)
           f == Plan!ResolveLoraLayers(d)
<1>1. Within(e, f) /\ e.lora_layers >= 0
  BY DEF Within, Priced, TrainConfig, ShapeOK, ModelShape, Plan!ResolveLoraLayers, Plan!Shape
<1> DEFINE fixed == Plan!WeightsBytes(e) + Calib.base \div Unit + Plan!LoraBytes(e)
                      + Plan!OptimizerBytes(e)
           x == fixed + Plan!ActivationBytes(e) + Plan!AttentionBytes(e) + Plan!LossBytes(e)
           y == fixed + Plan!ActivationBytes(f) + Plan!AttentionBytes(f) + Plan!LossBytes(f)
           z == 100 + Calib.overhead_pct
<1>2. Calib.base \div Unit \in Nat
  BY QuotientGrows
<1>3. fixed \in Nat
  BY <1>1, <1>2, RestIsTheSame
<1>4. Plan!Peak(c) = (x * z) \div 100 /\ Plan!Peak(d) = (y * z) \div 100
  <2>1. /\ Plan!WeightsBytes(e) = Plan!WeightsBytes(f) /\ Plan!LoraBytes(e) = Plan!LoraBytes(f)
        /\ Plan!OptimizerBytes(e) = Plan!OptimizerBytes(f)
    BY <1>1, RestIsTheSame
  <2> QED BY <2>1 DEF Plan!Peak
<1>5. x \in Nat /\ y \in Nat /\ x <= y
  <2> HIDE DEF fixed, e, f
  <2>1. /\ Plan!ActivationBytes(e) \in Nat /\ Plan!ActivationBytes(f) \in Nat
        /\ Plan!ActivationBytes(e) <= Plan!ActivationBytes(f)
    BY <1>1, ActivationsGrow
  <2>2. /\ Plan!AttentionBytes(e) \in Nat /\ Plan!AttentionBytes(f) \in Nat
        /\ Plan!AttentionBytes(e) <= Plan!AttentionBytes(f)
    BY <1>1, AttentionGrows
  <2>3. /\ Plan!LossBytes(e) \in Nat /\ Plan!LossBytes(f) \in Nat
        /\ Plan!LossBytes(e) <= Plan!LossBytes(f)
    BY <1>1, LossGrows
  <2> QED BY <1>3, <2>1, <2>2, <2>3
<1>6. z \in Nat
  OBVIOUS
<1> HIDE DEF x, y, z
<1>7. x * z \in Nat /\ y * z \in Nat /\ x * z <= y * z
  BY <1>5, <1>6, ProductGrows
<1> QED BY <1>4, <1>7, QuotientGrows

-----------------------------------------------------------------------------
(* The calls of the planner. *)

\* A call of any caller: the planner's own, or the command's.
CallOK ==
  /\ call.kind \in Plan!Kinds
  /\ ShapeOK
  /\ call.cfg \in TrainConfig
  /\ call.budget \in Int /\ call.ceiling \in Int

\* What one warning per answer means, where the call is.
WarnedBy(c) == IF Plan!WarnsFor(c, call.mlx) THEN 1 ELSE 0

\* The configuration the walk over the suggestions is at: no more rows and tokens than
\* asked for, and no fewer tokens while there are rows to give up.
OnTheWalk(c) ==
  /\ c = [call.cfg EXCEPT !.batch = c.batch, !.seq_len = c.seq_len]
  /\ c.batch \in 1 .. call.cfg.batch /\ c.seq_len \in 1 .. call.cfg.seq_len
  /\ c.seq_len # call.cfg.seq_len => c.batch = 1

\* What holds at each place of a call.
PlaceInv ==
  /\ planPc \in {"warn", "price", "suggest", "ends", "bisect"} =>
       /\ Plan!ValidateCfg(Plan!First) = "fine"
       /\ call.kind # "fit" => call.ceiling >= 1
  /\ planPc # "done" => result.tag = "pending"
  /\ planPc \in {"suggest", "ends", "bisect"} => Plan!TermError(Plan!First) = "fine"
  /\ planPc \in {"enter", "warn"} => warned = 0 /\ cand = call.cfg
  /\ planPc = "price" => cand = call.cfg
  /\ planPc \in {"price", "suggest", "ends", "bisect"} => warned = WarnedBy(Plan!First)
  /\ planPc = "suggest" => call.kind = "fit" /\ OnTheWalk(cand) /\ ~Plan!FitsBudget(cand)
  /\ planPc = "ends" => call.kind # "fit" /\ Plan!FitsBudget(Plan!Vary(1))
  /\ planPc = "bisect" =>
       /\ call.kind # "fit" /\ lo >= 1 /\ lo < hi /\ hi <= call.ceiling
       /\ Plan!FitsBudget(Plan!Vary(lo)) /\ ~Plan!FitsBudget(Plan!Vary(hi))

\* What an answer says.
AnswerInv ==
  planPc = "done" =>
    /\ result.tag # "refused" =>
         /\ Plan!ValidateCfg(Plan!First) = "fine" /\ Plan!TermError(Plan!First) = "fine"
         /\ warned = WarnedBy(Plan!First)
    /\ result.tag = "refused" =>
         \/ Plan!TermError(Plan!First) # "fine"
         \/ /\ warned = 0
            /\ \/ Plan!ValidateCfg(Plan!First) # "fine"
               \/ call.kind # "fit" /\ call.ceiling < 1
    /\ call.kind = "fit" =>
         /\ result.tag \in {"refused", "fits", "suggests", "over_budget"}
         /\ result.tag = "fits" <=> result.tag # "refused" /\ Plan!FitsBudget(call.cfg)
         /\ Plan!SuggestionIsClose
    /\ call.kind # "fit" =>
         /\ result.tag \in {"refused", "does_not_fit", "largest"}
         /\ result.tag = "does_not_fit" => ~Plan!FitsBudget(Plan!Vary(1))
         /\ result.tag = "largest" =>
              /\ call.ceiling >= 1 /\ result.value \in 1 .. call.ceiling
              /\ Plan!FitsBudget(Plan!Vary(result.value))
              /\ result.value < call.ceiling => ~Plan!FitsBudget(Plan!Vary(result.value + 1))

PlanTypes ==
  /\ CallOK
  /\ planPc \in {"enter", "warn", "price", "suggest", "ends", "bisect", "done"}
  /\ warned \in Nat /\ lo \in Nat /\ hi \in Nat
  /\ cand.batch \in Int /\ cand.seq_len \in Int
  /\ result.tag \in {"pending", "refused", "does_not_fit", "fits", "suggests", "over_budget",
                     "largest"}

PlanInv == PlanTypes /\ PlaceInv /\ AnswerInv

LEMMA PlanStarts == Plan!Init => PlanInv
<1> SUFFICES ASSUME Plan!Init PROVE PlanInv
  OBVIOUS
<1>1. CallOK
  BY DEF Plan!Init, Plan!Calls, CallOK, ShapeOK
<1>2. cand.batch \in Int /\ cand.seq_len \in Int
  BY <1>1 DEF Plan!Init, CallOK, TrainConfig
<1> QED BY <1>1, <1>2
        DEF Plan!Init, PlanInv, PlanTypes, PlaceInv, AnswerInv, Plan!Pending

\* The configuration an inverse query tries, and its price.
LEMMA Varied ==
  ASSUME CallOK, NEW v \in Int
  PROVE  /\ Plan!Vary(v) \in TrainConfig
         /\ call.kind = "seq" => Plan!Vary(v) = [call.cfg EXCEPT !.seq_len = v]
                                 /\ Plan!Vary(v).seq_len = v
                                 /\ Plan!Vary(v).batch = call.cfg.batch
         /\ call.kind = "batch" => Plan!Vary(v) = [call.cfg EXCEPT !.batch = v]
                                   /\ Plan!Vary(v).batch = v
                                   /\ Plan!Vary(v).seq_len = call.cfg.seq_len
         /\ call.kind = "fit" => Plan!Vary(v) = call.cfg
         /\ Plan!Vary(v).dtype = call.cfg.dtype
         /\ Plan!Vary(v).lora_rank = call.cfg.lora_rank
         /\ Plan!Vary(v).lora_layers = call.cfg.lora_layers
         /\ Plan!Vary(v).grad_checkpoint = call.cfg.grad_checkpoint
         /\ Plan!Vary(v).impl = call.cfg.impl
         /\ Plan!Vary(v).attention = call.cfg.attention
<1> USE DEF TrainConfig, CallOK, Plan!Kinds
<1>1. CASE call.kind = "seq"
  BY <1>1 DEF Plan!Vary
<1>2. CASE call.kind = "batch"
  BY <1>2 DEF Plan!Vary
<1>3. CASE call.kind = "fit"
  BY <1>3 DEF Plan!Vary
<1> QED BY <1>1, <1>2, <1>3

\* What validation and the terms let through.
LEMMA Meaningful ==
  ASSUME CallOK, Plan!ValidateCfg(Plan!First) = "fine", Plan!TermError(Plan!First) = "fine"
  PROVE  /\ call.kind # "batch" => call.cfg.batch >= 1
         /\ call.kind # "seq" => call.cfg.seq_len >= 1
         /\ call.cfg.lora_rank >= 0 /\ call.cfg.lora_layers >= -1
         /\ call.cfg.dtype \in Plan!Dtypes /\ call.cfg.attention \in Plan!Attentions
         /\ call.cfg.impl \in Plan!Impls
<1> DEFINE c == Plan!First
<1>1. /\ c \in TrainConfig
      /\ call.kind # "batch" => c.batch = call.cfg.batch
      /\ call.kind # "seq" => c.seq_len = call.cfg.seq_len
      /\ c.dtype = call.cfg.dtype /\ c.lora_rank = call.cfg.lora_rank
      /\ c.lora_layers = call.cfg.lora_layers
      /\ c.impl = call.cfg.impl /\ c.attention = call.cfg.attention
  BY Varied DEF Plan!First, CallOK, Plan!Kinds
<1> HIDE DEF c
<1>2. Plan!ValidateCfg(c) = "fine" /\ Plan!TermError(c) = "fine"
  BY DEF c
<1>3. c.batch \in Int /\ c.seq_len \in Int /\ c.lora_rank \in Int /\ c.lora_layers \in Int
  BY <1>1 DEF TrainConfig
<1>4. ~(c.batch < 1) /\ ~(c.seq_len < 1) /\ ~(c.lora_rank < 0)
  BY <1>2, <1>3 DEF Plan!ValidateCfg, Plan!Fine
<1>5. /\ ~(c.lora_layers < -1) /\ c.dtype \in Plan!Dtypes /\ c.attention \in Plan!Attentions
      /\ c.impl \in Plan!Impls
  BY <1>2, <1>3 DEF Plan!TermError, Plan!Fine
<1> QED BY <1>1, <1>3, <1>4, <1>5

\* Of two values the smaller fits if the larger does.
LEMMA SmallerFits ==
  ASSUME CallOK, Plan!ValidateCfg(Plan!First) = "fine", Plan!TermError(Plan!First) = "fine",
         NEW v \in Nat, NEW w \in Nat, v <= w
  PROVE  /\ Plan!Peak(Plan!Vary(v)) \in Nat /\ Plan!Peak(Plan!Vary(w)) \in Nat
         /\ Plan!Peak(Plan!Vary(v)) <= Plan!Peak(Plan!Vary(w))
         /\ Plan!FitsBudget(Plan!Vary(w)) => Plan!FitsBudget(Plan!Vary(v))
<1>1. Within(Plan!Vary(v), Plan!Vary(w))
  <2>1. call.cfg.batch \in Int /\ call.cfg.seq_len \in Int
    BY DEF CallOK, TrainConfig
  <2> QED BY <2>1, Meaningful, Varied DEF Within, Priced, CallOK, Plan!Kinds
<1>2. /\ Plan!Peak(Plan!Vary(v)) \in Nat /\ Plan!Peak(Plan!Vary(w)) \in Nat
      /\ Plan!Peak(Plan!Vary(v)) <= Plan!Peak(Plan!Vary(w))
  BY <1>1, PriceGrows DEF CallOK
<1> QED BY <1>2 DEF Plan!FitsBudget, CallOK

\* Of two configurations on the walk, or beside it, the smaller fits if the larger does.
LEMMA SmallerConfigFits ==
  ASSUME CallOK, NEW c, NEW d, Within(c, d), Plan!FitsBudget(d)
  PROVE  Plan!FitsBudget(c)
<1>1. Plan!Peak(c) \in Nat /\ Plan!Peak(d) \in Nat /\ Plan!Peak(c) <= Plan!Peak(d)
  BY PriceGrows DEF CallOK
<1> QED BY <1>1 DEF Plan!FitsBudget, CallOK

SameBut(d, g) ==
  /\ d.dtype = g.dtype /\ d.lora_rank = g.lora_rank /\ d.lora_layers = g.lora_layers
  /\ d.grad_checkpoint = g.grad_checkpoint /\ d.impl = g.impl /\ d.attention = g.attention

LEMMA Sized ==
  ASSUME NEW g \in TrainConfig, NEW x \in Int, NEW y \in Int
  PROVE  LET d == [g EXCEPT !.batch = x, !.seq_len = y]
         IN  d \in TrainConfig /\ d.batch = x /\ d.seq_len = y /\ SameBut(d, g)
<1> DEFINE e == [g EXCEPT !.batch = x]
<1>1. e \in TrainConfig /\ e.batch = x /\ SameBut(e, g)
  BY DEF TrainConfig, SameBut
<1> HIDE DEF e
<1>2. LET d == [e EXCEPT !.seq_len = y]
      IN  d \in TrainConfig /\ d.batch = x /\ d.seq_len = y /\ SameBut(d, g)
  BY <1>1 DEF TrainConfig, SameBut
<1>3. [g EXCEPT !.batch = x, !.seq_len = y] = [e EXCEPT !.seq_len = y]
  BY SMTT(30) DEF e
<1> QED BY <1>2, <1>3

\* What a suggestion gives up, for a candidate on the walk that is over the budget.
LEMMA SuggestionGivesUpLittle ==
  ASSUME PlanTypes, call.kind = "fit", OnTheWalk(cand), ~Plan!FitsBudget(cand),
         Plan!ValidateCfg(Plan!First) = "fine", Plan!TermError(Plan!First) = "fine"
  PROVE  /\ \A c \in Plan!NextCandidates(cand) :
              /\ OnTheWalk(c)
              /\ IF c.seq_len = call.cfg.seq_len
                 THEN \A b \in 1 .. call.cfg.batch :
                        Plan!FitsBudget([call.cfg EXCEPT !.batch = b]) => b <= 2 * c.batch
                 ELSE \A s \in 1 .. call.cfg.seq_len :
                        Plan!FitsBudget([[call.cfg EXCEPT !.batch = 1] EXCEPT !.seq_len = s])
                          => s < c.seq_len + Step
         /\ Plan!NextCandidates(cand) = {} =>
              \A s \in 1 .. call.cfg.seq_len :
                Plan!FitsBudget([[call.cfg EXCEPT !.batch = 1] EXCEPT !.seq_len = s]) => s < Step
<1> DEFINE g == call.cfg
           b0 == cand.batch
           s0 == cand.seq_len
<1>1. /\ g \in TrainConfig /\ g.batch \in Nat /\ g.seq_len \in Nat /\ g.batch >= 1
      /\ g.seq_len >= 1 /\ g.lora_rank >= 0 /\ g.lora_layers >= -1 /\ CallOK
  BY Meaningful DEF PlanTypes, CallOK, TrainConfig
<1>2. /\ cand = [g EXCEPT !.batch = b0, !.seq_len = s0]
      /\ b0 \in 1 .. g.batch /\ s0 \in 1 .. g.seq_len /\ (s0 # g.seq_len => b0 = 1)
  BY DEF OnTheWalk
<1>3. ASSUME NEW b \in 1 .. g.batch, NEW s \in 1 .. g.seq_len, b0 <= b, s0 <= s
      PROVE  ~Plan!FitsBudget([g EXCEPT !.batch = b, !.seq_len = s])
  <2> DEFINE d == [g EXCEPT !.batch = b, !.seq_len = s]
  <2>1. Within(cand, d)
    <3>1. /\ b \in Int /\ s \in Int /\ b0 \in Int /\ s0 \in Int
      BY <1>1, <1>2
    <3>2. /\ d \in TrainConfig /\ d.batch = b /\ d.seq_len = s /\ SameBut(d, g)
      BY <1>1, <3>1, Sized
    <3>3. cand \in TrainConfig /\ SameBut(cand, g)
      <4>1. [g EXCEPT !.batch = b0, !.seq_len = s0] \in TrainConfig
            /\ SameBut([g EXCEPT !.batch = b0, !.seq_len = s0], g)
        BY <1>1, <3>1, Sized
      <4> HIDE DEF b0, s0
      <4> QED BY <1>2, <4>1
    <3> HIDE DEF d
    <3> QED BY <1>1, <1>2, <1>3, <3>2, <3>3 DEF SameBut, Within, Priced
  <2> HIDE DEF d
  <2>2. ~Plan!FitsBudget(d)
    BY <1>1, <2>1, SmallerConfigFits
  <2> QED BY <2>2 DEF d
<1>4. \A b \in 1 .. g.batch :
        [g EXCEPT !.batch = b] = [g EXCEPT !.batch = b, !.seq_len = g.seq_len]
  BY <1>1 DEF TrainConfig
<1>5. \A s \in 1 .. g.seq_len :
        [[g EXCEPT !.batch = 1] EXCEPT !.seq_len = s] = [g EXCEPT !.batch = 1, !.seq_len = s]
  BY <1>1 DEF TrainConfig
<1>6. CASE b0 > 1
  <2> DEFINE h == b0 \div 2
             c == [cand EXCEPT !.batch = h]
  <2>1. s0 = g.seq_len
    BY <1>2, <1>6
  <2>2. h \in 1 .. g.batch /\ b0 <= 2 * h + 1 /\ h \in Nat
    BY <1>1, <1>2, <1>6
  <2>3. Plan!NextCandidates(cand) = {c}
    BY <1>2, <1>6, <2>2 DEF Plan!NextCandidates, Plan!AtLeast
  <2>4. c = [g EXCEPT !.batch = h, !.seq_len = s0] /\ c.batch = h /\ c.seq_len = s0
    BY <1>1, <1>2 DEF TrainConfig
  <2>5. OnTheWalk(c)
    BY <1>2, <2>1, <2>2, <2>4 DEF OnTheWalk
  <2> HIDE DEF h, c
  <2>6. \A b \in 1 .. g.batch : Plan!FitsBudget([g EXCEPT !.batch = b]) => b <= 2 * c.batch
    <3> SUFFICES ASSUME NEW b \in 1 .. g.batch, ~(b <= 2 * c.batch)
                 PROVE  ~Plan!FitsBudget([g EXCEPT !.batch = b])
      OBVIOUS
    <3>1. b0 <= b
      BY <1>2, <2>2, <2>4
    <3>2. g.seq_len \in 1 .. g.seq_len /\ s0 <= g.seq_len
      BY <1>1, <2>1
    <3> QED BY <1>3, <1>4, <3>1, <3>2
  <2> QED BY <2>1, <2>3, <2>4, <2>5, <2>6
<1>7. CASE b0 = 1 /\ s0 > Step
  <2> DEFINE t == Plan!AtLeast(Step, s0 - Step)
             c == [cand EXCEPT !.seq_len = t]
  <2>1. t \in 1 .. g.seq_len /\ t < s0 /\ s0 <= t + Step /\ t \in Nat
    BY <1>1, <1>2, <1>7 DEF Plan!AtLeast
  <2>2. Plan!NextCandidates(cand) = {c}
    BY <1>2, <1>7 DEF Plan!NextCandidates
  <2>3. c = [g EXCEPT !.batch = b0, !.seq_len = t] /\ c.batch = b0 /\ c.seq_len = t
    BY <1>1, <1>2 DEF TrainConfig
  <2>4. OnTheWalk(c)
    BY <1>2, <1>7, <2>1, <2>3 DEF OnTheWalk
  <2> HIDE DEF t, c
  <2>5. c.seq_len # g.seq_len
    BY <1>2, <2>1, <2>3
  <2>6. \A s \in 1 .. g.seq_len :
          Plan!FitsBudget([[g EXCEPT !.batch = 1] EXCEPT !.seq_len = s]) => s < c.seq_len + Step
    <3> SUFFICES ASSUME NEW s \in 1 .. g.seq_len, ~(s < c.seq_len + Step)
                 PROVE  ~Plan!FitsBudget([[g EXCEPT !.batch = 1] EXCEPT !.seq_len = s])
      OBVIOUS
    <3>1. s0 <= s /\ 1 \in 1 .. g.batch /\ b0 <= 1
      BY <1>1, <1>2, <1>7, <2>1, <2>3
    <3> QED BY <1>3, <1>5, <3>1
  <2> QED BY <2>2, <2>4, <2>5, <2>6
<1>8. CASE ~(b0 > 1) /\ ~(b0 = 1 /\ s0 > Step)
  <2>1. Plan!NextCandidates(cand) = {} /\ b0 = 1 /\ s0 <= Step
    BY <1>1, <1>2, <1>8 DEF Plan!NextCandidates
  <2>2. ASSUME NEW s \in 1 .. g.seq_len, ~(s < Step)
        PROVE  ~Plan!FitsBudget([[g EXCEPT !.batch = 1] EXCEPT !.seq_len = s])
    <3>1. s0 <= s /\ 1 \in 1 .. g.batch /\ b0 <= 1
      BY <1>1, <1>2, <2>1, <2>2
    <3> QED BY <1>3, <1>5, <3>1
  <2> QED BY <2>1, <2>2
<1> QED BY <1>2, <1>6, <1>7, <1>8

\* What is said of a call stays true while it runs.
LEMMA CallStands ==
  ASSUME call' = call
  PROVE  /\ CallOK' <=> CallOK
         /\ \A v : Plan!Vary(v)' = Plan!Vary(v)
         /\ Plan!First' = Plan!First
         /\ \A c : Plan!Peak(c)' = Plan!Peak(c)
         /\ \A c : Plan!FitsBudget(c)' <=> Plan!FitsBudget(c)
         /\ \A c : WarnedBy(c)' = WarnedBy(c)
         /\ \A c : OnTheWalk(c)' <=> OnTheWalk(c)
<1>1. \A c : Plan!Peak(c)' = Plan!Peak(c)
  BY DEF Plan!Peak, Plan!ResolveLoraLayers, Plan!Shape, Plan!WeightsBytes, Plan!LoraBytes,
     Plan!OptimizerBytes, Plan!LoraParamCount, Plan!ActivationBytes, Plan!AttentionBytes,
     Plan!LossBytes, Plan!FlashSavedStateBytes, Plan!ParamCount
<1>2. (\A v : Plan!Vary(v)' = Plan!Vary(v)) /\ Plan!First' = Plan!First
  BY DEF Plan!Vary, Plan!First
<1>3. \A c : Plan!FitsBudget(c)' <=> Plan!FitsBudget(c)
  BY <1>1 DEF Plan!FitsBudget
<1>4. (CallOK' <=> CallOK) /\ \A c : OnTheWalk(c)' <=> OnTheWalk(c)
  BY DEF CallOK, ShapeOK, OnTheWalk
<1>5. \A c : WarnedBy(c)' = WarnedBy(c)
  BY DEF WarnedBy
<1> QED BY <1>1, <1>2, <1>3, <1>4, <1>5

LEMMA PlanSteps ==
  ASSUME PlanInv, Plan!Next
  PROVE  PlanInv'
<1>1. PlanTypes /\ PlaceInv /\ AnswerInv /\ CallOK
  BY DEF PlanInv, PlanTypes
<1>c. call' = call
  BY DEF Plan!Next, Plan!Enter, Plan!Warn, Plan!Price, Plan!Suggest, Plan!Ends, Plan!Bisect,
     Plan!Return, Plan!vars
<1>d. /\ CallOK'
      /\ \A v : Plan!Vary(v)' = Plan!Vary(v)
      /\ Plan!First' = Plan!First /\ Plan!First = Plan!Vary(1)
      /\ \A c : Plan!FitsBudget(c)' <=> Plan!FitsBudget(c)
      /\ \A c : WarnedBy(c)' = WarnedBy(c)
      /\ \A c : OnTheWalk(c)' <=> OnTheWalk(c)
      /\ Plan!ValidateCfg(Plan!First)' = Plan!ValidateCfg(Plan!First)
      /\ Plan!TermError(Plan!First)' = Plan!TermError(Plan!First)
  <2>1. Plan!First' = Plan!First /\ Plan!First = Plan!Vary(1)
    BY <1>c, CallStands DEF Plan!First
  <2>2. /\ Plan!ValidateCfg(Plan!First)' = Plan!ValidateCfg(Plan!First')
        /\ Plan!TermError(Plan!First)' = Plan!TermError(Plan!First')
    BY DEF Plan!ValidateCfg, Plan!TermError
  <2> QED BY <1>1, <1>c, <2>1, <2>2, CallStands
\* A call that goes on, and one that ends without a suggestion.
<1>e. ASSUME planPc' # "done" PROVE AnswerInv'
  BY <1>e DEF AnswerInv
<1>f. ASSUME planPc' = "done" PROVE PlaceInv'
  BY <1>f DEF PlaceInv
<1>g. ASSUME result'.tag \notin {"suggests", "over_budget"} PROVE Plan!SuggestionIsClose'
  BY <1>g DEF Plan!SuggestionIsClose
<1>2. CASE Plan!Enter
  <2> DEFINE why == IF call.kind # "fit" /\ call.ceiling < 1 THEN "ceiling"
                    ELSE Plan!ValidateCfg(Plan!First)
  <2>1. /\ planPc = "enter" /\ UNCHANGED <<call, warned, cand, lo, hi>>
        /\ IF why = "fine" THEN planPc' = "warn" /\ UNCHANGED result
           ELSE planPc' = "done" /\ result' = [tag |-> "refused", why |-> why]
    BY <1>2 DEF Plan!Enter, Plan!Finish, Plan!Refused, Plan!Fine
  <2>2. warned = 0 /\ cand = call.cfg /\ result.tag = "pending"
    BY <1>1, <2>1 DEF PlaceInv
  <2>3. CASE why = "fine"
    <3>1. Plan!ValidateCfg(Plan!First) = "fine" /\ (call.kind # "fit" => call.ceiling >= 1)
      BY <1>1, <2>3 DEF CallOK
    <3> HIDE DEF why
    <3>2. PlanTypes'
      BY <1>1, <1>d, <2>1, <2>3 DEF PlanTypes
    <3>3. PlaceInv'
      BY <1>c, <1>d, <2>1, <2>2, <2>3, <3>1 DEF PlaceInv
    <3> QED BY <1>e, <2>1, <2>3, <3>2, <3>3 DEF PlanInv
  <2>4. CASE why # "fine"
    <3> HIDE DEF why
    <3>1. planPc' = "done" /\ result'.tag = "refused"
      BY <2>1, <2>4
    <3>2. PlanTypes'
      BY <1>1, <1>d, <2>1, <3>1 DEF PlanTypes
    <3>3. AnswerInv'
      <4>1. Plan!ValidateCfg(Plan!First) # "fine" \/ (call.kind # "fit" /\ call.ceiling < 1)
        BY <2>4 DEF why
      <4> QED BY <1>c, <1>d, <1>g, <2>1, <2>2, <3>1, <4>1 DEF AnswerInv
    <3> QED BY <1>f, <3>1, <3>2, <3>3 DEF PlanInv
  <2> QED BY <2>3, <2>4
<1>3. CASE Plan!Warn
  <2>1. /\ planPc = "warn" /\ planPc' = "price" /\ UNCHANGED <<call, cand, lo, hi, result>>
        /\ warned' = IF Plan!WarnsFor(Plan!First, call.mlx) THEN warned + 1 ELSE warned
    BY <1>3 DEF Plan!Warn
  <2>2. /\ warned = 0 /\ cand = call.cfg /\ result.tag = "pending"
        /\ Plan!ValidateCfg(Plan!First) = "fine" /\ (call.kind # "fit" => call.ceiling >= 1)
    BY <1>1, <2>1 DEF PlaceInv
  <2>3. warned' = WarnedBy(Plan!First) /\ warned' \in Nat
    BY <2>1, <2>2 DEF WarnedBy
  <2>4. PlanTypes'
    BY <1>1, <1>d, <2>1, <2>3 DEF PlanTypes
  <2>5. PlaceInv'
    BY <1>c, <1>d, <2>1, <2>2, <2>3 DEF PlaceInv
  <2> QED BY <1>e, <2>1, <2>4, <2>5 DEF PlanInv
<1>4. CASE Plan!Price
  <2> DEFINE error == Plan!TermError(Plan!First)
             fits == Plan!FitsBudget(Plan!First)
  <2>1. planPc = "price" /\ UNCHANGED <<call, warned, cand, lo, hi>>
    BY <1>4 DEF Plan!Price
  <2>2. /\ cand = call.cfg /\ result.tag = "pending" /\ warned = WarnedBy(Plan!First)
        /\ Plan!ValidateCfg(Plan!First) = "fine" /\ (call.kind # "fit" => call.ceiling >= 1)
    BY <1>1, <2>1 DEF PlaceInv
  <2>3. \/ error # "fine" /\ planPc' = "done" /\ result' = [tag |-> "refused", why |-> error]
        \/ /\ error = "fine" /\ call.kind = "fit" /\ fits
           /\ planPc' = "done" /\ result' = [tag |-> "fits"]
        \/ /\ error = "fine" /\ call.kind = "fit" /\ ~fits
           /\ planPc' = "suggest" /\ UNCHANGED result
        \/ /\ error = "fine" /\ call.kind # "fit" /\ ~fits
           /\ planPc' = "done" /\ result' = [tag |-> "does_not_fit"]
        \/ /\ error = "fine" /\ call.kind # "fit" /\ fits
           /\ planPc' = "ends" /\ UNCHANGED result
    BY <1>4 DEF Plan!Price, Plan!Finish, Plan!Refused, Plan!DoesNotFit, Plan!Fine
  <2>4. call.kind = "fit" => Plan!First = call.cfg
    BY <1>1, <1>d, Varied
  <2> HIDE DEF error, fits
  <2>5. CASE error # "fine" /\ planPc' = "done" /\ result' = [tag |-> "refused", why |-> error]
    <3>1. PlanTypes'
      BY <1>1, <1>d, <2>1, <2>5 DEF PlanTypes
    <3>2. AnswerInv'
      BY <1>c, <1>d, <1>g, <2>5 DEF AnswerInv, error
    <3> QED BY <1>f, <2>5, <3>1, <3>2 DEF PlanInv
  <2>6. CASE /\ error = "fine" /\ call.kind = "fit" /\ fits
             /\ planPc' = "done" /\ result' = [tag |-> "fits"]
    <3>1. PlanTypes'
      BY <1>1, <1>d, <2>1, <2>6 DEF PlanTypes
    <3>2. AnswerInv'
      BY <1>c, <1>d, <1>g, <2>1, <2>2, <2>4, <2>6 DEF AnswerInv, error, fits
    <3> QED BY <1>f, <2>6, <3>1, <3>2 DEF PlanInv
  <2>7. CASE /\ error = "fine" /\ call.kind = "fit" /\ ~fits
             /\ planPc' = "suggest" /\ UNCHANGED result
    <3>1. PlanTypes'
      BY <1>1, <1>d, <2>1, <2>7 DEF PlanTypes
    <3>2. OnTheWalk(cand)
      <4>1. /\ call.cfg \in TrainConfig /\ call.cfg.batch \in Int /\ call.cfg.seq_len \in Int
            /\ call.cfg.batch >= 1 /\ call.cfg.seq_len >= 1
        BY <1>1, <2>2, <2>7, Meaningful DEF CallOK, TrainConfig, error
      <4>2. call.cfg = [call.cfg EXCEPT !.batch = call.cfg.batch, !.seq_len = call.cfg.seq_len]
        BY <4>1 DEF TrainConfig
      <4> QED BY <2>2, <4>1, <4>2 DEF OnTheWalk
    <3>3. PlaceInv'
      BY <1>c, <1>d, <2>1, <2>2, <2>4, <2>7, <3>2 DEF PlaceInv, error, fits
    <3> QED BY <1>e, <2>7, <3>1, <3>3 DEF PlanInv
  <2>8. CASE /\ error = "fine" /\ call.kind # "fit" /\ ~fits
             /\ planPc' = "done" /\ result' = [tag |-> "does_not_fit"]
    <3>1. PlanTypes'
      BY <1>1, <1>d, <2>1, <2>8 DEF PlanTypes
    <3>2. AnswerInv'
      BY <1>c, <1>d, <1>g, <2>1, <2>2, <2>4, <2>8 DEF AnswerInv, error, fits
    <3> QED BY <1>f, <2>8, <3>1, <3>2 DEF PlanInv
  <2>9. CASE /\ error = "fine" /\ call.kind # "fit" /\ fits
             /\ planPc' = "ends" /\ UNCHANGED result
    <3>1. PlanTypes'
      BY <1>1, <1>d, <2>1, <2>9 DEF PlanTypes
    <3>2. PlaceInv'
      BY <1>c, <1>d, <2>1, <2>2, <2>4, <2>9 DEF PlaceInv, error, fits
    <3> QED BY <1>e, <2>9, <3>1, <3>2 DEF PlanInv
  <2> QED BY <2>3, <2>5, <2>6, <2>7, <2>8, <2>9
<1>5. CASE Plan!Suggest
  <2>1. planPc = "suggest" /\ UNCHANGED <<call, warned, lo, hi>>
    BY <1>5 DEF Plan!Suggest
  <2>2. /\ call.kind = "fit" /\ OnTheWalk(cand) /\ ~Plan!FitsBudget(cand)
        /\ Plan!ValidateCfg(Plan!First) = "fine" /\ Plan!TermError(Plan!First) = "fine"
        /\ warned = WarnedBy(Plan!First) /\ result.tag = "pending"
    BY <1>1, <2>1 DEF PlaceInv
  <2>n. ~Plan!FitsBudget(call.cfg)
    <3>1. /\ cand = [call.cfg EXCEPT !.batch = cand.batch, !.seq_len = cand.seq_len]
          /\ cand.batch \in 1 .. call.cfg.batch /\ cand.seq_len \in 1 .. call.cfg.seq_len
      BY <2>2 DEF OnTheWalk
    <3>2. /\ call.cfg \in TrainConfig /\ call.cfg.batch \in Int /\ call.cfg.seq_len \in Int
          /\ call.cfg.lora_rank >= 0 /\ call.cfg.lora_layers >= -1
          /\ call.cfg.batch >= 1 /\ call.cfg.seq_len >= 1
      BY <1>1, <2>2, Meaningful DEF CallOK, TrainConfig
    <3>3. cand \in TrainConfig /\ SameBut(cand, call.cfg)
      <4> DEFINE x == cand.batch
                 y == cand.seq_len
      <4>1. x \in Int /\ y \in Int /\ cand = [call.cfg EXCEPT !.batch = x, !.seq_len = y]
        BY <3>1, <3>2
      <4> HIDE DEF x, y
      <4> QED BY <3>2, <4>1, Sized
    <3>4. Within(cand, call.cfg)
      BY <3>1, <3>2, <3>3 DEF Within, Priced, SameBut
    <3> QED BY <1>1, <2>2, <3>4, SmallerConfigFits
  <2>3. \/ \E c \in Plan!NextCandidates(cand) :
             /\ cand' = c
             /\ IF Plan!FitsBudget(c)
                THEN planPc' = "done" /\ result' = [tag |-> "suggests", cfg |-> c]
                ELSE UNCHANGED <<planPc, result>>
        \/ /\ Plan!NextCandidates(cand) = {} /\ UNCHANGED cand
           /\ planPc' = "done" /\ result' = [tag |-> "over_budget"]
    BY <1>5 DEF Plan!Suggest, Plan!Finish
  <2>4. ASSUME NEW c \in Plan!NextCandidates(cand), cand' = c,
               IF Plan!FitsBudget(c)
               THEN planPc' = "done" /\ result' = [tag |-> "suggests", cfg |-> c]
               ELSE UNCHANGED <<planPc, result>>
        PROVE  PlanInv'
    <3>1. /\ OnTheWalk(c)
          /\ IF c.seq_len = call.cfg.seq_len
             THEN \A b \in 1 .. call.cfg.batch :
                    Plan!FitsBudget([call.cfg EXCEPT !.batch = b]) => b <= 2 * c.batch
             ELSE \A s \in 1 .. call.cfg.seq_len :
                    Plan!FitsBudget([[call.cfg EXCEPT !.batch = 1] EXCEPT !.seq_len = s])
                      => s < c.seq_len + Step
      BY <1>1, <2>2, SuggestionGivesUpLittle
    <3>2. c.batch \in Int /\ c.seq_len \in Int
      <4>1. c.batch \in 1 .. call.cfg.batch /\ c.seq_len \in 1 .. call.cfg.seq_len
        BY <3>1 DEF OnTheWalk
      <4> QED BY <4>1
    <3>3. CASE Plan!FitsBudget(c)
      <4>1. planPc' = "done" /\ result'.tag = "suggests" /\ result'.cfg = c
        BY <2>4, <3>3
      <4>2. PlanTypes'
        BY <1>1, <1>d, <2>1, <2>4, <3>2, <4>1 DEF PlanTypes
      <4>3. Plan!SuggestionIsClose'
        BY <1>c, <1>d, <3>1, <3>3, <4>1 DEF Plan!SuggestionIsClose
      <4>4. AnswerInv'
        BY <1>c, <1>d, <2>1, <2>2, <2>n, <4>1, <4>3 DEF AnswerInv
      <4> QED BY <1>f, <4>1, <4>2, <4>4 DEF PlanInv
    <3>4. CASE ~Plan!FitsBudget(c)
      <4>1. UNCHANGED <<planPc, result>>
        BY <2>4, <3>4
      <4>2. PlanTypes'
        BY <1>1, <1>d, <2>1, <2>4, <3>2, <4>1 DEF PlanTypes
      <4>3. PlaceInv'
        BY <1>c, <1>d, <2>1, <2>2, <2>4, <3>1, <3>4, <4>1 DEF PlaceInv
      <4> QED BY <1>e, <2>1, <4>1, <4>2, <4>3 DEF PlanInv
    <3> QED BY <3>3, <3>4
  <2>5. CASE /\ Plan!NextCandidates(cand) = {} /\ UNCHANGED cand
             /\ planPc' = "done" /\ result' = [tag |-> "over_budget"]
    <3>1. \A s \in 1 .. call.cfg.seq_len :
            Plan!FitsBudget([[call.cfg EXCEPT !.batch = 1] EXCEPT !.seq_len = s]) => s < Step
      BY <1>1, <2>2, <2>5, SuggestionGivesUpLittle
    <3>2. PlanTypes'
      BY <1>1, <1>d, <2>1, <2>5 DEF PlanTypes
    <3>3. Plan!SuggestionIsClose'
      BY <1>c, <1>d, <2>5, <3>1 DEF Plan!SuggestionIsClose
    <3>4. AnswerInv'
      BY <1>c, <1>d, <2>1, <2>2, <2>n, <2>5, <3>3 DEF AnswerInv
    <3> QED BY <1>f, <2>5, <3>2, <3>4 DEF PlanInv
  <2> QED BY <2>3, <2>4, <2>5
<1>6. CASE Plan!Ends
  <2> DEFINE cheap == Plan!Peak(Plan!Vary(1))
             dear == Plan!Peak(Plan!Vary(call.ceiling))
  <2>1. planPc = "ends" /\ UNCHANGED <<call, warned, cand>>
    BY <1>6 DEF Plan!Ends
  <2>2. /\ call.kind # "fit" /\ Plan!FitsBudget(Plan!Vary(1)) /\ call.ceiling >= 1
        /\ Plan!ValidateCfg(Plan!First) = "fine" /\ Plan!TermError(Plan!First) = "fine"
        /\ warned = WarnedBy(Plan!First) /\ result.tag = "pending" /\ call.ceiling \in Nat
    BY <1>1, <2>1 DEF PlaceInv, CallOK
  <2>3. cheap \in Nat /\ dear \in Nat /\ cheap <= dear
    BY <1>1, <2>2, SmallerFits
  <2>4. /\ Plan!FitsBudget(Plan!Vary(call.ceiling)) <=> dear <= call.budget
        /\ call.budget \in Int
    BY <1>1 DEF Plan!FitsBudget, CallOK
  <2>5. \/ /\ dear <= call.budget /\ planPc' = "done"
           /\ result' = [tag |-> "largest", value |-> call.ceiling] /\ UNCHANGED <<lo, hi>>
        \/ /\ ~(dear <= call.budget) /\ planPc' = "bisect" /\ lo' = 1 /\ hi' = call.ceiling
           /\ UNCHANGED result
    <3>1. ~(dear < cheap) /\ dear >= cheap
      BY <2>3
    <3> QED BY <1>6, <3>1 DEF Plan!Ends, Plan!Finish
  <2> HIDE DEF cheap, dear
  <2>6. CASE /\ dear <= call.budget /\ planPc' = "done"
             /\ result' = [tag |-> "largest", value |-> call.ceiling] /\ UNCHANGED <<lo, hi>>
    <3>1. PlanTypes'
      BY <1>1, <1>d, <2>1, <2>6 DEF PlanTypes
    <3>2. AnswerInv'
      <4>1. /\ result'.tag = "largest" /\ result'.value = call.ceiling
            /\ call.ceiling \in 1 .. call.ceiling /\ ~(call.ceiling < call.ceiling)
            /\ Plan!FitsBudget(Plan!Vary(call.ceiling))
        BY <2>2, <2>4, <2>6
      <4> QED BY <1>c, <1>d, <2>1, <2>2, <4>1 DEF AnswerInv
    <3> QED BY <1>f, <2>6, <3>1, <3>2 DEF PlanInv
  <2>7. CASE /\ ~(dear <= call.budget) /\ planPc' = "bisect" /\ lo' = 1 /\ hi' = call.ceiling
             /\ UNCHANGED result
    <3>1. PlanTypes'
      BY <1>1, <1>d, <2>1, <2>2, <2>7 DEF PlanTypes
    <3>2. ~Plan!FitsBudget(Plan!Vary(call.ceiling)) /\ 1 < call.ceiling
      <4>1. ~Plan!FitsBudget(Plan!Vary(call.ceiling))
        BY <2>4, <2>7
      <4>2. call.ceiling # 1
        BY <2>2, <4>1
      <4> QED BY <2>2, <4>1, <4>2
    <3>3. PlaceInv'
      BY <1>c, <1>d, <2>1, <2>2, <2>7, <3>2 DEF PlaceInv
    <3> QED BY <1>e, <2>7, <3>1, <3>3 DEF PlanInv
  <2> QED BY <2>5, <2>6, <2>7
<1>7. CASE Plan!Bisect
  <2> DEFINE mid == (lo + hi) \div 2
  <2>1. planPc = "bisect" /\ UNCHANGED <<call, warned, cand>>
    BY <1>7 DEF Plan!Bisect
  <2>2. /\ call.kind # "fit" /\ call.ceiling >= 1
        /\ lo >= 1 /\ lo < hi /\ hi <= call.ceiling /\ lo \in Nat /\ hi \in Nat
        /\ call.ceiling \in Nat
        /\ Plan!FitsBudget(Plan!Vary(lo)) /\ ~Plan!FitsBudget(Plan!Vary(hi))
        /\ Plan!ValidateCfg(Plan!First) = "fine" /\ Plan!TermError(Plan!First) = "fine"
        /\ warned = WarnedBy(Plan!First) /\ result.tag = "pending"
    BY <1>1, <2>1 DEF PlaceInv, PlanTypes, CallOK
  <2>3. CASE Plan!Closed
    <3>1. /\ planPc' = "done" /\ result' = [tag |-> "largest", value |-> lo]
          /\ UNCHANGED <<lo, hi>>
      BY <1>7, <2>3 DEF Plan!Bisect, Plan!Finish
    <3>2. hi = lo + 1
      BY <2>2, <2>3 DEF Plan!Closed
    <3>3. PlanTypes'
      BY <1>1, <1>d, <2>1, <3>1 DEF PlanTypes
    <3>4. AnswerInv'
      <4>1. /\ result'.tag = "largest" /\ result'.value = lo
            /\ lo \in 1 .. call.ceiling /\ ~Plan!FitsBudget(Plan!Vary(lo + 1))
        BY <2>2, <3>1, <3>2
      <4> QED BY <1>c, <1>d, <2>1, <2>2, <4>1 DEF AnswerInv
    <3> QED BY <1>f, <3>1, <3>3, <3>4 DEF PlanInv
  <2>4. CASE ~Plan!Closed
    <3>1. mid \in Nat /\ lo < mid /\ mid < hi
      BY <2>2, <2>4 DEF Plan!Closed
    <3>2. /\ UNCHANGED <<planPc, result>>
          /\ \/ Plan!FitsBudget(Plan!Vary(mid)) /\ lo' = mid /\ hi' = hi
             \/ ~Plan!FitsBudget(Plan!Vary(mid)) /\ hi' = mid /\ lo' = lo
      BY <1>7, <2>4 DEF Plan!Bisect
    <3> HIDE DEF mid
    <3>3. PlanTypes'
      BY <1>1, <1>d, <2>1, <2>2, <3>1, <3>2 DEF PlanTypes
    <3>4. /\ lo' >= 1 /\ lo' < hi' /\ hi' <= call.ceiling
          /\ Plan!FitsBudget(Plan!Vary(lo')) /\ ~Plan!FitsBudget(Plan!Vary(hi'))
      BY <2>2, <3>1, <3>2
    <3>5. PlaceInv'
      BY <1>c, <1>d, <2>1, <2>2, <3>2, <3>4, SMTT(30) DEF PlaceInv
    <3> QED BY <1>e, <2>1, <3>2, <3>3, <3>5 DEF PlanInv
  <2> QED BY <2>3, <2>4
<1>8. CASE Plan!Return
  BY <1>8, <1>1, <1>c, <1>d DEF Plan!Return, Plan!vars, PlanInv, PlanTypes, PlaceInv, AnswerInv,
     Plan!SuggestionIsClose
<1> QED BY <1>2, <1>3, <1>4, <1>5, <1>6, <1>7, <1>8 DEF Plan!Next

\* What the invariant says of an answer.
LEMMA PlanHolds ==
  ASSUME PlanInv
  PROVE  /\ Plan!AnswerIsTheLargest /\ Plan!SuggestionIsClose /\ Plan!OnlyMeaningfulIsPriced
         /\ Plan!WarnsOncePerAnswer /\ Plan!VerdictsAgree
<1>1. PlanTypes /\ AnswerInv /\ CallOK
  BY DEF PlanInv, PlanTypes
<1>2. ASSUME Plan!Answered
      PROVE  /\ Plan!ValidateCfg(Plan!First) = "fine" /\ Plan!TermError(Plan!First) = "fine"
             /\ warned = WarnedBy(Plan!First) /\ planPc = "done"
  BY <1>1, <1>2 DEF AnswerInv, Plan!Answered
\* The edge that a search answers is the last value that fits.
<1>3. ASSUME Plan!Answered, result.tag = "largest", NEW v \in 1 .. call.ceiling
      PROVE  Plan!FitsBudget(Plan!Vary(v)) <=> v <= result.value
  <2>1. /\ result.value \in 1 .. call.ceiling /\ call.ceiling \in Int
        /\ Plan!FitsBudget(Plan!Vary(result.value))
        /\ result.value < call.ceiling => ~Plan!FitsBudget(Plan!Vary(result.value + 1))
    <3>1. call.kind # "fit"
      BY <1>1, <1>2, <1>3 DEF AnswerInv
    <3> QED BY <1>1, <1>2, <1>3, <3>1 DEF AnswerInv, CallOK
  <2> DEFINE x == result.value
  <2>2. x \in Nat /\ v \in Nat /\ x + 1 \in Nat /\ (v > x => x < call.ceiling /\ x + 1 <= v)
    BY <2>1
  <2> HIDE DEF x
  <2>3. CASE v <= x
    <3>1. Plan!FitsBudget(Plan!Vary(x)) => Plan!FitsBudget(Plan!Vary(v))
      BY <1>1, <1>2, <1>3, <2>2, <2>3, SmallerFits
    <3> QED BY <2>1, <2>3, <3>1 DEF x
  <2>4. CASE v > x
    <3>1. Plan!FitsBudget(Plan!Vary(v)) => Plan!FitsBudget(Plan!Vary(x + 1))
      BY <1>1, <1>2, <1>3, <2>2, <2>4, SmallerFits
    <3> QED BY <2>1, <2>2, <2>4, <3>1 DEF x
  <2> QED BY <2>2, <2>3, <2>4
<1>4. Plan!AnswerIsTheLargest
  <2> SUFFICES ASSUME Plan!Answered, call.kind # "fit"
               PROVE  LET fitting == {v \in 1 .. call.ceiling : Plan!FitsBudget(Plan!Vary(v))}
                      IN  IF result.tag = "does_not_fit" THEN fitting = {}
                          ELSE /\ result.value \in fitting
                               /\ \A v \in fitting : v <= result.value
    BY DEF Plan!AnswerIsTheLargest
  <2>1. result.tag \in {"does_not_fit", "largest"}
    BY <1>1, <1>2 DEF AnswerInv, Plan!Answered
  <2>2. CASE result.tag = "largest"
    <3>1. result.value \in 1 .. call.ceiling /\ Plan!FitsBudget(Plan!Vary(result.value))
      BY <1>1, <1>2, <2>2 DEF AnswerInv
    <3> QED BY <1>3, <2>2, <3>1
  <2>3. CASE result.tag = "does_not_fit"
    <3>1. ~Plan!FitsBudget(Plan!Vary(1))
      BY <1>1, <1>2, <2>3 DEF AnswerInv
    <3>2. ASSUME NEW v \in 1 .. call.ceiling PROVE ~Plan!FitsBudget(Plan!Vary(v))
      <4>1. v \in Nat /\ 1 \in Nat /\ 1 <= v
        BY <1>1 DEF CallOK
      <4> QED BY <1>1, <1>2, <3>1, <4>1, SmallerFits
    <3> QED BY <2>3, <3>2
  <2> QED BY <2>1, <2>2, <2>3
<1>5. Plan!SuggestionIsClose
  BY <1>1 DEF AnswerInv, Plan!SuggestionIsClose
<1>6. Plan!OnlyMeaningfulIsPriced
  BY <1>1, <1>2, Meaningful DEF Plan!OnlyMeaningfulIsPriced
<1>7. Plan!WarnsOncePerAnswer
  <2> SUFFICES ASSUME Plan!Answered
               PROVE  warned = IF call.cfg.attention = "stock" /\ Plan!HasNote(call.mlx)
                               THEN 1 ELSE 0
    BY DEF Plan!WarnsOncePerAnswer
  <2>1. Plan!First.attention = call.cfg.attention
    BY <1>1, Varied DEF Plan!First
  <2> QED BY <1>2, <2>1 DEF WarnedBy, Plan!WarnsFor
<1>8. Plan!VerdictsAgree
  <2> SUFFICES ASSUME Plan!Answered, result.tag = "largest",
                      NEW own, own = IF call.kind = "seq" THEN call.cfg.seq_len
                                     ELSE call.cfg.batch,
                      own \in 1 .. call.ceiling
               PROVE  Plan!FitsBudget(call.cfg) <=> own <= result.value
    BY DEF Plan!VerdictsAgree
  <2>1. call.kind \in {"seq", "batch"}
    BY <1>1, <1>2 DEF AnswerInv, CallOK, Plan!Kinds
  <2>2. Plan!Vary(own) = call.cfg
    <3>1. own \in Int
      BY <1>1 DEF CallOK, TrainConfig
    <3>2. CASE call.kind = "seq"
      BY <1>1, <3>1, <3>2, Varied DEF CallOK, TrainConfig
    <3>3. CASE call.kind = "batch"
      BY <1>1, <3>1, <3>3, Varied DEF CallOK, TrainConfig
    <3> QED BY <2>1, <3>2, <3>3
  <2> QED BY <1>3, <2>2
<1> QED BY <1>4, <1>5, <1>6, <1>7, <1>8

-----------------------------------------------------------------------------
(* The plan command. *)

\* A call whose arguments come from the command line: no field of its configuration is
\* one the terms refuse.
FromArgv ==
  /\ call.budget = argv.budget /\ call.mlx = argv.mlx
  /\ call.cfg.dtype = "bfloat16" /\ call.cfg.attention = argv.attention
  /\ call.cfg.lora_layers >= 0 /\ call.cfg.impl = argv.impl

Top == IF argv.search = "seq" THEN argv.seq_ceiling ELSE argv.batch_ceiling

\* c is the largest configuration of its search that fits.
AtTheEdge(c) ==
  LET own == IF argv.search = "seq" THEN c.seq_len ELSE c.batch
      more == IF argv.search = "seq" THEN [c EXCEPT !.seq_len = own + 1]
                                     ELSE [c EXCEPT !.batch = own + 1]
  IN  Plan!FitsBudget(c) /\ (own < Top => ~Plan!FitsBudget(more))

Notes == IF argv.attention = "stock" /\ Plan!HasNote(argv.mlx) THEN 1 ELSE 0

NothingShown == shown = 0 /\ code = -1 /\ report = Plan!NoReport

CommandInv ==
  /\ argv \in Argvs
  /\ stage \in {"load", "first", "second", "exited"}
  /\ stage = "load" => raised = 0 /\ NothingShown /\ planPc = "idle"
  /\ stage \in {"first", "second"} => PlanInv /\ FromArgv /\ NothingShown
  /\ stage = "first" => call.kind = argv.search /\ call.ceiling = Top /\ raised = 0
  /\ stage = "second" =>
       /\ call.kind = "fit" /\ argv.search # "fit" /\ AtTheEdge(call.cfg)
       /\ Plan!ValidateCfg(Plan!First) = "fine" /\ raised = Notes
  /\ stage = "exited" =>
       /\ raised \in 0 .. 2 /\ shown \in 0 .. 1 /\ code \in {0, 1, 2}
       /\ report.fits \in BOOLEAN
       /\ planPc = "idle" => report = Plan!NoReport /\ shown = 0
       /\ planPc # "idle" => planPc = "done"
       /\ Plan!PrintedIsTheEdge /\ Plan!VerdictInTheCode /\ Plan!OneWarningLine

LEMMA CommandStarts == Plan!CInit => CommandInv
  BY DEF Plan!CInit, CommandInv, NothingShown, Plan!NoReport, Plan!NoExit

\* What argparse lets through.
LEMMA Arguments ==
  ASSUME argv \in Argvs
  PROVE  /\ argv.shape \in ModelShape
         /\ argv.shape.quant_bits # 0 => argv.shape.quant_group # 0
         /\ argv.quant_bits = -1 \/ argv.quant_bits \in Nat \ {0}
         /\ argv.batch \in Int /\ argv.seq_len \in Int /\ argv.lora_rank \in Int
         /\ argv.impl \in Plan!Impls /\ argv.attention \in Plan!Attentions
         /\ argv.search \in Plan!Kinds /\ argv.budget \in Int
         /\ argv.seq_ceiling \in Int /\ argv.batch_ceiling \in Int
         /\ argv.impl \in STRING /\ argv.attention \in STRING
<1>1. /\ argv.shape \in Shapes
      /\ argv.quant_bits \in {-1} \cup (Nat \ {0})
      /\ argv.batch \in Int /\ argv.seq_len \in Int /\ argv.lora_rank \in Int
      /\ argv.impl \in {"naive", "chunked", "kernel"} /\ argv.attention \in {"stock", "flash"}
      /\ argv.search \in {"fit", "seq", "batch"} /\ argv.budget \in Int
      /\ argv.seq_ceiling \in Int /\ argv.batch_ceiling \in Int
  <2>1. argv \in [config : STRING, shape : Shapes, quant_bits : {-1} \cup (Nat \ {0}),
                  batch : Int, seq_len : Int, lora_rank : Int,
                  impl : {"naive", "chunked", "kernel"}, attention : {"stock", "flash"},
                  search : {"fit", "seq", "batch"}, budget : Int, seq_ceiling : Int,
                  batch_ceiling : Int, mlx : STRING]
    OBVIOUS
  <2> QED BY <2>1
<1>i. "naive" \in STRING /\ "chunked" \in STRING /\ "kernel" \in STRING
  BY DEF Plan!Impls
<1>a. "stock" \in STRING /\ "flash" \in STRING
  BY DEF Plan!Attentions
<1>2. argv.impl \in Plan!Impls /\ argv.impl \in STRING
  <2>1. argv.impl \in Plan!Impls
    BY <1>1 DEF Plan!Impls
  <2>2. argv.impl = "naive" \/ argv.impl = "chunked" \/ argv.impl = "kernel"
    BY <1>1
  <2> QED BY <1>i, <2>1, <2>2
<1>3. argv.attention \in Plan!Attentions /\ argv.attention \in STRING
  <2>1. argv.attention \in Plan!Attentions
    BY <1>1 DEF Plan!Attentions
  <2>2. argv.attention = "stock" \/ argv.attention = "flash"
    BY <1>1
  <2> QED BY <1>a, <2>1, <2>2
<1>4. argv.search \in Plan!Kinds
  BY <1>1 DEF Plan!Kinds
<1>5. argv.shape \in ModelShape /\ (argv.shape.quant_bits # 0 => argv.shape.quant_group # 0)
  BY <1>1
<1> QED BY <1>1, <1>2, <1>3, <1>4, <1>5

\* The shape that is planned with, and the first configuration.
LEMMA FirstCall ==
  ASSUME argv \in Argvs
  PROVE  /\ Plan!QuantOverride(argv.shape, argv.quant_bits) \in ModelShape
         /\ Plan!QuantOverride(argv.shape, argv.quant_bits).quant_bits # 0
              => Plan!QuantOverride(argv.shape, argv.quant_bits).quant_group # 0
         /\ Plan!FirstCfg(argv) \in TrainConfig
         /\ Plan!FirstCfg(argv).dtype = "bfloat16"
         /\ Plan!FirstCfg(argv).attention = argv.attention
         /\ Plan!FirstCfg(argv).impl = argv.impl
         /\ Plan!FirstCfg(argv).lora_layers >= 0
<1> DEFINE s == argv.shape
           q == argv.quant_bits
<1>1. /\ s \in ModelShape /\ (s.quant_bits # 0 => s.quant_group # 0)
      /\ q = -1 \/ q \in Nat \ {0}
  BY Arguments
<1>2. /\ Plan!QuantOverride(s, q) \in ModelShape
      /\ Plan!QuantOverride(s, q).quant_bits # 0 => Plan!QuantOverride(s, q).quant_group # 0
  <2> HIDE DEF s, q
  <2>1. CASE q = -1
    BY <1>1, <2>1 DEF Plan!QuantOverride, Plan!None
  <2>2. CASE q # -1
    <3> DEFINE g == IF s.quant_group = 0 THEN GroupDefault ELSE s.quant_group
               e == [s EXCEPT !.quant_bits = q]
               d == [e EXCEPT !.quant_group = g]
    <3>1. g \in Nat \ {0} /\ q \in Nat
      BY <1>1, <2>2 DEF ModelShape
    <3>2. e \in ModelShape /\ e.quant_group = s.quant_group
      BY <1>1, <3>1 DEF ModelShape
    <3>3. Plan!QuantOverride(s, q) = d
      BY <2>2, <3>2 DEF Plan!QuantOverride, Plan!None
    <3> HIDE DEF g, e
    <3>4. d \in ModelShape /\ d.quant_group = g
      BY <3>1, <3>2 DEF ModelShape
    <3> HIDE DEF d
    <3> QED BY <3>1, <3>3, <3>4
  <2> QED BY <2>1, <2>2
<1>3. ASSUME NEW b \in Int, NEW len \in Int
      PROVE  LET c == Plan!CfgOf(argv, b, len)
             IN  /\ c \in TrainConfig /\ c.dtype = "bfloat16" /\ c.attention = argv.attention
                 /\ c.impl = argv.impl /\ c.lora_layers >= 0
  <2> DEFINE n == IF argv.lora_rank > 0 THEN argv.shape.layers ELSE 0
             c == [batch |-> b, seq_len |-> len, dtype |-> "bfloat16",
                   lora_rank |-> argv.lora_rank, lora_layers |-> n, grad_checkpoint |-> TRUE,
                   impl |-> argv.impl, attention |-> argv.attention]
  <2>1. /\ argv.shape.layers \in Nat /\ argv.lora_rank \in Int
        /\ argv.impl \in STRING /\ argv.attention \in STRING
    BY Arguments DEF ModelShape
  <2>2. n \in Nat
    BY <2>1
  <2>3. Plan!CfgOf(argv, b, len) = c
    BY DEF Plan!CfgOf
  <2>4. c \in TrainConfig
    <3>1. n \in Int /\ "bfloat16" \in STRING
      BY <2>2 DEF Plan!Dtypes
    <3> HIDE DEF n
    <3> QED BY <2>1, <3>1 DEF TrainConfig
  <2>5. c.lora_layers = n /\ c.lora_layers >= 0
    BY <2>2
  <2> QED BY <2>3, <2>4, <2>5
<1>4. /\ (IF argv.search = "batch" THEN 1 ELSE argv.batch) \in Int
      /\ (IF argv.search = "seq" THEN 1 ELSE argv.seq_len) \in Int
  BY Arguments
<1> QED BY <1>2, <1>3, <1>4, SMTT(30) DEF Plan!FirstCfg

\* A call that is entered starts as the planner's calls do.
LEMMA CallStarts ==
  ASSUME CallOK', planPc' = "enter", warned' = 0, cand' = call'.cfg, lo' = 0, hi' = 0,
         result' = Plan!Pending
  PROVE  PlanInv'
<1>1. cand'.batch \in Int /\ cand'.seq_len \in Int
  BY DEF CallOK, TrainConfig
<1> QED BY <1>1 DEF PlanInv, PlanTypes, PlaceInv, AnswerInv, Plan!Pending

\* The terms refuse nothing that comes from the command line.
LEMMA ArgvIsPriced ==
  ASSUME argv \in Argvs, CallOK, FromArgv
  PROVE  /\ Plan!TermError(Plan!First) = "fine"
         /\ WarnedBy(Plan!First) = Notes
<1>1. /\ Plan!First.dtype = "bfloat16" /\ Plan!First.lora_layers >= 0
      /\ Plan!First.lora_layers \in Int
      /\ Plan!First.impl \in Plan!Impls /\ Plan!First.attention \in Plan!Attentions
      /\ Plan!First.attention = argv.attention
  <2>1. /\ Plan!First.dtype = call.cfg.dtype /\ Plan!First.lora_layers = call.cfg.lora_layers
        /\ Plan!First.impl = call.cfg.impl /\ Plan!First.attention = call.cfg.attention
        /\ call.cfg.lora_layers \in Int
    BY Varied DEF Plan!First, CallOK, TrainConfig
  <2> QED BY <2>1, Arguments DEF FromArgv
<1>2. ~(Plan!First.lora_layers < -1) /\ "bfloat16" \in Plan!Dtypes
  BY <1>1 DEF Plan!Dtypes
<1>3. Plan!TermError(Plan!First) = "fine"
  BY <1>1, <1>2 DEF Plan!TermError, Plan!Fine
<1>4. WarnedBy(Plan!First) = Notes
  BY <1>1 DEF WarnedBy, Notes, Plan!WarnsFor, FromArgv
<1> QED BY <1>3, <1>4

\* The numbers of a call that was validated.
LEMMA ResolvedIsFine ==
  ASSUME CallOK, FromArgv, call.kind # "fit", argv \in Argvs,
         Plan!ValidateCfg(Plan!First) = "fine", NEW v \in Nat \ {0}
  PROVE  LET c == Plan!Vary(v)
         IN  /\ c \in TrainConfig /\ Plan!ValidateCfg(c) = "fine"
             /\ c.dtype = "bfloat16" /\ c.attention = argv.attention
             /\ c.lora_layers >= 0 /\ c.impl = argv.impl
<1>1. Plan!TermError(Plan!First) = "fine"
  BY ArgvIsPriced
<1>2. /\ call.kind # "batch" => call.cfg.batch >= 1
      /\ call.kind # "seq" => call.cfg.seq_len >= 1
      /\ call.cfg.lora_rank >= 0
  BY <1>1, Meaningful
<1> DEFINE c == Plan!Vary(v)
<1>3. /\ c \in TrainConfig
      /\ call.kind = "seq" => c.seq_len = v /\ c.batch = call.cfg.batch
      /\ call.kind = "batch" => c.batch = v /\ c.seq_len = call.cfg.seq_len
      /\ c.dtype = call.cfg.dtype /\ c.lora_rank = call.cfg.lora_rank
      /\ c.lora_layers = call.cfg.lora_layers
      /\ c.impl = call.cfg.impl /\ c.attention = call.cfg.attention
  BY Varied
<1> HIDE DEF c
<1>4. call.kind \in {"seq", "batch"}
  BY DEF CallOK, Plan!Kinds
<1>5. c.batch >= 1 /\ c.seq_len >= 1 /\ c.lora_rank >= 0
  BY <1>2, <1>3, <1>4
<1>6. c.batch \in Int /\ c.seq_len \in Int /\ c.lora_rank \in Int
  BY <1>3 DEF TrainConfig
<1>7. Plan!ValidateCfg(c) = "fine"
  BY <1>5, <1>6 DEF Plan!ValidateCfg, Plan!Fine
<1>8. Plan!Vary(v) = c
  BY DEF c
<1> QED BY <1>3, <1>7, <1>8 DEF FromArgv

\* A price depends on the model only: two calls of one model and one budget agree.
LEMMA SameModelSamePrice ==
  ASSUME call'.shape = call.shape, call'.budget = call.budget
  PROVE  \A c : Plan!FitsBudget(c)' <=> Plan!FitsBudget(c)
<1>1. \A c : Plan!Peak(c)' = Plan!Peak(c)
  BY DEF Plan!Peak, Plan!ResolveLoraLayers, Plan!Shape, Plan!WeightsBytes, Plan!LoraBytes,
     Plan!OptimizerBytes, Plan!LoraParamCount, Plan!ActivationBytes, Plan!AttentionBytes,
     Plan!LossBytes, Plan!FlashSavedStateBytes, Plan!ParamCount
<1> QED BY <1>1 DEF Plan!FitsBudget

\* From the config file to the first call, or to an exit.
LEMMA LoadStep ==
  ASSUME CommandInv, Plan!Load
  PROVE  CommandInv'
<1>1. /\ argv \in Argvs /\ raised = 0 /\ NothingShown /\ planPc = "idle"
      /\ argv' = argv /\ report' = report
  BY DEF CommandInv, Plan!Load
<1>2. CASE /\ Plan!Enters(argv.search, Plan!QuantOverride(argv.shape, argv.quant_bits),
                          Plan!FirstCfg(argv), argv.budget, Top, argv.mlx)
           /\ stage' = "first" /\ UNCHANGED <<raised, shown, code>>
  <2> DEFINE shape == Plan!QuantOverride(argv.shape, argv.quant_bits)
             cfg == Plan!FirstCfg(argv)
             next == [kind |-> argv.search, shape |-> shape, cfg |-> cfg,
                      budget |-> argv.budget, ceiling |-> Top, mlx |-> argv.mlx]
  <2>1. /\ call' = next /\ planPc' = "enter" /\ warned' = 0 /\ cand' = cfg
        /\ lo' = 0 /\ hi' = 0 /\ result' = Plan!Pending
    BY <1>2 DEF Plan!Enters
  <2>2. /\ shape \in ModelShape /\ (shape.quant_bits # 0 => shape.quant_group # 0)
        /\ cfg \in TrainConfig /\ cfg.dtype = "bfloat16" /\ cfg.attention = argv.attention
        /\ cfg.impl = argv.impl /\ cfg.lora_layers >= 0
    BY <1>1, FirstCall
  <2> HIDE DEF shape, cfg
  <2>3. /\ call'.kind = argv.search /\ call'.shape = shape /\ call'.cfg = cfg
        /\ call'.budget = argv.budget /\ call'.ceiling = Top /\ call'.mlx = argv.mlx
    BY <2>1
  <2>4. Top \in Int /\ argv.search \in Plan!Kinds /\ argv.budget \in Int
    BY <1>1, Arguments DEF Top
  <2>5. CallOK'
    BY <2>2, <2>3, <2>4 DEF CallOK, ShapeOK
  <2>6. PlanInv'
    BY <2>1, <2>3, <2>5, CallStarts
  <2>7. FromArgv'
    BY <1>1, <2>2, <2>3 DEF FromArgv
  <2>8. NothingShown' /\ Top' = Top
    BY <1>1, <1>2 DEF NothingShown, Top
  <2> QED BY <1>1, <1>2, <2>3, <2>6, <2>7, <2>8 DEF CommandInv
<1>3. CASE (Plan!Exits(2, 0) \/ Plan!Exits(1, 0)) /\ UNCHANGED Plan!vars
  <2>1. /\ stage' = "exited" /\ shown' = 0 /\ raised' = 0 /\ code' \in {1, 2}
        /\ planPc' = "idle" /\ report' = Plan!NoReport
    BY <1>1, <1>3 DEF Plan!Exits, Plan!Surface, Plan!vars, NothingShown
  <2>2. ~report'.fits /\ report'.fits \in BOOLEAN
    BY <2>1 DEF Plan!NoReport
  <2>3. Plan!PrintedIsTheEdge' /\ Plan!VerdictInTheCode' /\ Plan!OneWarningLine'
    BY <2>1 DEF Plan!PrintedIsTheEdge, Plan!VerdictInTheCode, Plan!OneWarningLine
  <2> QED BY <1>1, <2>1, <2>2, <2>3 DEF CommandInv
<1> QED BY <1>2, <1>3 DEF Plan!Load, Top

\* A search that found its value: the second call asks about the edge.
LEMMA ResolveStep ==
  ASSUME CommandInv, Plan!Resolve
  PROVE  CommandInv'
<1> DEFINE cfg == Plan!Vary(result.value)
           next == [kind |-> "fit", shape |-> call.shape, cfg |-> cfg, budget |-> call.budget,
                    ceiling |-> call.ceiling, mlx |-> call.mlx]
<1>1. /\ stage = "first" /\ planPc = "done" /\ result.tag = "largest"
      /\ call' = next /\ planPc' = "enter" /\ warned' = 0 /\ cand' = cfg
      /\ lo' = 0 /\ hi' = 0 /\ result' = Plan!Pending
      /\ stage' = "second" /\ raised' = raised + warned
      /\ UNCHANGED <<argv, shown, report, code>>
  BY DEF Plan!Resolve, Plan!Enters, Plan!Resolved
<1>2. /\ argv \in Argvs /\ PlanInv /\ FromArgv /\ NothingShown
      /\ call.kind = argv.search /\ call.ceiling = Top /\ raised = 0
  BY <1>1 DEF CommandInv
<1>3. AnswerInv /\ CallOK
  BY <1>2 DEF PlanInv, PlanTypes
<1>4. /\ call.kind \in {"seq", "batch"}
      /\ Plan!ValidateCfg(Plan!First) = "fine" /\ warned = WarnedBy(Plan!First)
      /\ call.ceiling >= 1 /\ result.value \in 1 .. call.ceiling
      /\ Plan!FitsBudget(cfg)
      /\ result.value < call.ceiling => ~Plan!FitsBudget(Plan!Vary(result.value + 1))
  BY <1>1, <1>3 DEF AnswerInv, CallOK, Plan!Kinds
<1>5. result.value \in Nat \ {0} /\ call.ceiling \in Int /\ result.value \in Int
      /\ result.value + 1 \in Int
  BY <1>3, <1>4 DEF CallOK
<1>6. /\ cfg \in TrainConfig /\ Plan!ValidateCfg(cfg) = "fine" /\ cfg.dtype = "bfloat16"
      /\ cfg.attention = argv.attention /\ cfg.lora_layers >= 0 /\ cfg.impl = argv.impl
  BY <1>2, <1>3, <1>4, <1>5, ResolvedIsFine
<1>7. warned = Notes
  BY <1>2, <1>3, <1>4, ArgvIsPriced
<1>8. AtTheEdge(cfg)
  <2>1. CASE call.kind = "seq"
    <3>1. /\ cfg = [call.cfg EXCEPT !.seq_len = result.value] /\ cfg.seq_len = result.value
          /\ Plan!Vary(result.value + 1) = [call.cfg EXCEPT !.seq_len = result.value + 1]
      BY <1>3, <1>5, <2>1, Varied
    <3>2. [cfg EXCEPT !.seq_len = result.value + 1]
            = [call.cfg EXCEPT !.seq_len = result.value + 1]
      BY <1>3, <3>1 DEF CallOK, TrainConfig
    <3> QED BY <1>2, <1>4, <2>1, <3>1, <3>2 DEF AtTheEdge
  <2>2. CASE call.kind = "batch"
    <3>1. /\ cfg = [call.cfg EXCEPT !.batch = result.value] /\ cfg.batch = result.value
          /\ Plan!Vary(result.value + 1) = [call.cfg EXCEPT !.batch = result.value + 1]
      BY <1>3, <1>5, <2>2, Varied
    <3>2. [cfg EXCEPT !.batch = result.value + 1]
            = [call.cfg EXCEPT !.batch = result.value + 1]
      BY <1>3, <3>1 DEF CallOK, TrainConfig
    <3> QED BY <1>2, <1>4, <2>2, <3>1, <3>2 DEF AtTheEdge
  <2> QED BY <1>4, <2>1, <2>2
<1> HIDE DEF cfg
<1>9. /\ call'.kind = "fit" /\ call'.shape = call.shape /\ call'.cfg = cfg
      /\ call'.budget = call.budget /\ call'.ceiling = call.ceiling /\ call'.mlx = call.mlx
  BY <1>1
<1>10. CallOK'
  BY <1>3, <1>6, <1>9 DEF CallOK, ShapeOK, Plan!Kinds
<1>11. PlanInv'
  BY <1>1, <1>9, <1>10, CallStarts
<1>12. FromArgv'
  BY <1>1, <1>2, <1>6, <1>9 DEF FromArgv
<1>14. AtTheEdge(call.cfg)'
  <2>1. PICK c : c = cfg
    OBVIOUS
  <2>2. AtTheEdge(c) /\ call'.cfg = c
    BY <1>8, <1>9, <2>1
  <2>3. \A d : Plan!FitsBudget(d)' <=> Plan!FitsBudget(d)
    BY <1>9, SameModelSamePrice
  <2> QED BY <1>1, <2>2, <2>3 DEF AtTheEdge, Top
<1>15. Plan!ValidateCfg(Plan!First)' = "fine"
  <2>1. Plan!First' = cfg
    BY <1>9 DEF Plan!First, Plan!Vary
  <2> QED BY <1>6, <2>1 DEF Plan!ValidateCfg
<1>16. raised' = Notes' /\ NothingShown'
  <2>1. Notes \in Int
    BY DEF Notes
  <2> QED BY <1>1, <1>2, <1>7, <2>1 DEF Notes, NothingShown
<1> QED BY <1>1, <1>2, <1>4, <1>9, <1>11, <1>12, <1>14, <1>15, <1>16 DEF CommandInv

\* The planner's steps, inside either call.
LEMMA PlansStep ==
  ASSUME CommandInv, Plan!Plans
  PROVE  CommandInv'
<1>1. /\ stage \in {"first", "second"} /\ Plan!Next
      /\ UNCHANGED <<argv, stage, raised, shown, report, code>>
  BY DEF Plan!Plans, Plan!cli
<1>2. PlanInv /\ FromArgv /\ NothingShown /\ argv \in Argvs
  BY <1>1 DEF CommandInv
<1>3. PlanInv'
  BY <1>1, <1>2, PlanSteps
<1>4. call' = call
  BY <1>1 DEF Plan!Next, Plan!Enter, Plan!Warn, Plan!Price, Plan!Suggest, Plan!Ends,
     Plan!Bisect, Plan!Return, Plan!vars
<1>5. FromArgv' /\ NothingShown' /\ Top' = Top /\ Notes' = Notes
  BY <1>1, <1>2, <1>4 DEF FromArgv, NothingShown, Top, Notes
<1>6. stage = "second" => AtTheEdge(call.cfg)'
  <2>1. \A c : Plan!FitsBudget(c)' <=> Plan!FitsBudget(c)
    BY <1>4, CallStands
  <2> QED BY <1>1, <1>4, <2>1 DEF CommandInv, AtTheEdge, Top
<1>7. Plan!ValidateCfg(Plan!First)' = Plan!ValidateCfg(Plan!First)
  <2>1. Plan!First' = Plan!First
    BY <1>4, CallStands
  <2> QED BY <2>1 DEF Plan!ValidateCfg
<1> QED BY <1>1, <1>2, <1>3, <1>4, <1>5, <1>6, <1>7 DEF CommandInv

\* The end of the command, after either call.
LEMMA EndStep ==
  ASSUME CommandInv, Plan!End
  PROVE  CommandInv'
<1>1. /\ planPc = "done" /\ stage \in {"first", "second"} /\ result.tag # "largest"
      /\ UNCHANGED <<call, planPc, warned, cand, lo, hi, result, argv>>
      /\ \/ result.tag = "refused" /\ Plan!Exits(2, raised + warned) /\ report' = report
         \/ result.tag = "does_not_fit" /\ Plan!Exits(1, raised + warned) /\ report' = report
         \/ /\ result.tag \notin {"refused", "does_not_fit"}
            /\ report' = [fits |-> result.tag = "fits", cfg |-> call.cfg]
            /\ Plan!Exits(IF result.tag = "fits" THEN 0 ELSE 1, raised + warned)
  BY DEF Plan!End, Plan!vars, Plan!RefusalCode
<1>2. PlanInv /\ FromArgv /\ NothingShown /\ argv \in Argvs
  BY <1>1 DEF CommandInv
<1>3. AnswerInv /\ CallOK
  BY <1>2 DEF PlanInv, PlanTypes
<1>4. /\ Plan!TermError(Plan!First) = "fine" /\ WarnedBy(Plan!First) = Notes
      /\ Notes \in {0, 1}
  BY <1>2, <1>3, ArgvIsPriced DEF Notes
\* The second call is never refused.
<1>5. /\ result.tag = "refused" => stage = "first" /\ warned = 0
      /\ result.tag # "refused" => warned = Notes
  <2>1. stage = "second" => call.kind = "fit" /\ Plan!ValidateCfg(Plan!First) = "fine"
    BY DEF CommandInv
  <2> QED BY <1>1, <1>3, <1>4, <2>1 DEF AnswerInv
<1>6. raised = IF stage = "second" THEN Notes ELSE 0
  BY <1>1 DEF CommandInv
<1> DEFINE total == raised + warned
<1>7. /\ total \in 0 .. 2
      /\ Plan!Surface(total) = IF result.tag # "refused" THEN Notes ELSE 0
  BY <1>1, <1>4, <1>5, <1>6 DEF Plan!Surface
<1> HIDE DEF total
<1>8. /\ stage' = "exited" /\ raised' = total /\ shown' = Plan!Surface(total)
      /\ code' = (IF result.tag = "refused" THEN 2 ELSE IF result.tag = "fits" THEN 0 ELSE 1)
      /\ report' = IF result.tag \in {"refused", "does_not_fit"} THEN Plan!NoReport
                   ELSE [fits |-> result.tag = "fits", cfg |-> call.cfg]
  BY <1>1, <1>2 DEF Plan!Exits, total, NothingShown
<1>9. /\ call.kind \in Plan!Kinds
      /\ call.kind = "fit" => result.tag \in {"refused", "fits", "suggests", "over_budget"}
      /\ call.kind # "fit" => result.tag \in {"refused", "does_not_fit"}
      /\ call.kind = "fit" /\ Plan!FitsBudget(call.cfg) /\ result.tag # "refused"
           => result.tag = "fits"
  BY <1>1, <1>3 DEF AnswerInv, CallOK
<1>10. report'.fits <=> result.tag = "fits"
  BY <1>8 DEF Plan!NoReport
<1>11. report'.fits \in BOOLEAN
  BY <1>8 DEF Plan!NoReport
<1>12. Plan!VerdictInTheCode'
  <2>1. code' = 0 <=> result.tag = "fits"
    BY <1>8
  <2>2. result.tag \in {"does_not_fit", "over_budget", "suggests"} <=> code' = 1
    BY <1>8, <1>9
  <2> QED BY <1>1, <1>10, <2>1, <2>2 DEF Plan!VerdictInTheCode
<1>13. Plan!OneWarningLine'
  BY <1>1, <1>7, <1>8 DEF Plan!OneWarningLine, Notes
<1>14. Plan!PrintedIsTheEdge'
  <2> SUFFICES ASSUME argv.search # "fit", report' # Plan!NoReport
               PROVE  /\ report'.fits /\ code' = 0 /\ report'.cfg = call.cfg
                      /\ AtTheEdge(call.cfg)'
    BY <1>1 DEF Plan!PrintedIsTheEdge, AtTheEdge, Top
  <2>1. result.tag \notin {"refused", "does_not_fit"}
    BY <1>8
  <2>2. call.kind = "fit" /\ stage = "second" /\ AtTheEdge(call.cfg)
    BY <1>1, <1>9, <2>1 DEF CommandInv
  <2>3. result.tag = "fits"
    BY <1>9, <2>1, <2>2 DEF AtTheEdge
  <2>4. \A c : Plan!FitsBudget(c)' <=> Plan!FitsBudget(c)
    BY <1>1, CallStands
  <2>5. AtTheEdge(call.cfg)'
    BY <1>1, <2>2, <2>4 DEF AtTheEdge, Top
  <2> QED BY <1>8, <1>10, <2>3, <2>5
<1>15. code' \in {0, 1, 2} /\ shown' \in 0 .. 1 /\ raised' \in 0 .. 2
  BY <1>4, <1>7, <1>8
<1> QED BY <1>1, <1>2, <1>8, <1>11, <1>12, <1>13, <1>14, <1>15 DEF CommandInv

LEMMA CommandSteps ==
  ASSUME CommandInv, Plan!CNext
  PROVE  CommandInv'
<1>1. CASE Plan!Ended
  <2>1. UNCHANGED <<call, planPc, warned, cand, lo, hi, result, argv, stage, raised, shown,
                    report, code>> /\ stage = "exited"
    BY <1>1 DEF Plan!Ended, Plan!vars, Plan!cli
  <2>2. \A c : Plan!FitsBudget(c)' <=> Plan!FitsBudget(c)
    BY <2>1, CallStands
  <2>3. Plan!PrintedIsTheEdge' <=> Plan!PrintedIsTheEdge
    BY <2>1, <2>2 DEF Plan!PrintedIsTheEdge
  <2>4. Plan!VerdictInTheCode' /\ Plan!OneWarningLine'
    BY <2>1 DEF CommandInv, Plan!VerdictInTheCode, Plan!OneWarningLine
  <2> QED BY <2>1, <2>3, <2>4 DEF CommandInv
<1> QED BY <1>1, LoadStep, ResolveStep, PlansStep, EndStep DEF Plan!CNext

LEMMA CommandHolds ==
  ASSUME CommandInv
  PROVE  Plan!CTypeOK /\ Plan!PrintedIsTheEdge /\ Plan!VerdictInTheCode /\ Plan!OneWarningLine
<1>1. CASE stage = "exited"
  BY <1>1 DEF CommandInv, Plan!CTypeOK, Plan!NoExit
<1>2. CASE stage # "exited"
  <2>1. NothingShown /\ raised \in 0 .. 2
    BY <1>2 DEF CommandInv, Notes
  <2>2. Plan!NoReport.fits \in BOOLEAN
    BY DEF Plan!NoReport
  <2>3. Plan!PrintedIsTheEdge /\ Plan!VerdictInTheCode /\ Plan!OneWarningLine
    BY <1>2 DEF Plan!PrintedIsTheEdge, Plan!VerdictInTheCode, Plan!OneWarningLine
  <2> QED BY <1>2, <2>1, <2>2, <2>3 DEF CommandInv, Plan!CTypeOK, NothingShown, Plan!NoExit
<1> QED BY <1>1, <1>2

HIDE PlanAssumption

-----------------------------------------------------------------------------
(* The ceilings, as functions of the memory of a machine. *)

\* The ceiling of a loaded machine, and what it leaves.
LEMMA CeilingBounds ==
  ASSUME NEW n \in Nat, n >= 2, NEW a \in Nat
  PROVE  /\ Guard!StaticCeiling(n) \in Nat /\ Guard!StaticCeiling(n) < n
         /\ Guard!Floor(n) \in Nat /\ Guard!Floor(n) <= Guard!StaticCeiling(n)
         /\ Guard!Granted(n, a) \in Int
         /\ Guard!Granted(n, a) <= Guard!StaticCeiling(n)
         /\ Guard!Granted(n, a) <= a - 2 * Gib
  BY GuardAssumption DEF Guard!StaticCeiling, Guard!Floor, Guard!Granted, Guard!Anchor,
     Guard!Headroom, Guard!Larger, Guard!Smaller, Guard!Percent

\* More memory is never granted less.
LEMMA CeilingClimbs ==
  ASSUME NEW n \in Nat \ {0}
  PROVE  /\ Guard!StaticCeiling(n) <= Guard!StaticCeiling(n + 1)
         /\ Guard!Granted(n, n) <= Guard!Granted(n + 1, n + 1)
  BY GuardAssumption DEF Guard!StaticCeiling, Guard!Granted, Guard!Anchor,
     Guard!Headroom, Guard!Larger, Guard!Smaller, Guard!Percent

LEMMA GrantedGrows ==
  ASSUME NEW n \in Nat, n >= 2, NEW a \in Nat, NEW b \in Nat, a <= b
  PROVE  /\ ~Guard!Read(n, a).refused => ~Guard!Read(n, b).refused
         /\ ~Guard!Read(n, a).warning => ~Guard!Read(n, b).warning
<1>1. Guard!StaticCeiling(n) \in Nat /\ Guard!Floor(n) \in Nat
  BY CeilingBounds
<1>2. /\ Guard!Granted(n, a) <= Guard!Granted(n, b)
      /\ Guard!Granted(n, a) \in Int /\ Guard!Granted(n, b) \in Int
  BY <1>1, GuardAssumption DEF Guard!Granted, Guard!Headroom, Guard!Smaller
<1>3. Guard!Granted(n, b) < Guard!Floor(n) => Guard!Granted(n, a) < Guard!Floor(n)
  BY <1>1, <1>2
<1>4. Guard!Diverges(n, b) => Guard!Diverges(n, a)
  BY <1>1 DEF Guard!Diverges
<1>5. \A x \in {a, b} : /\ Guard!Read(n, x).refused <=> Guard!Granted(n, x) < Guard!Floor(n)
                        /\ Guard!Read(n, x).warning <=> Guard!Diverges(n, x)
  BY Zenon DEF Guard!Read
<1> QED BY <1>3, <1>4, <1>5

LEMMA CapsOfADevice ==
  ASSUME NEW d \in Nat \ {0}
  PROVE  /\ Guard!WiredCap(d) \in Nat /\ Guard!SoftCap(d) \in Nat
         /\ Guard!WiredCap(d) < d /\ Guard!SoftCap(d) < d
         /\ Guard!WiredCap(d) <= Guard!SoftCap(d)
  BY GuardAssumption DEF Guard!WiredCap, Guard!SoftCap, Guard!Cap, Guard!Larger,
     Guard!Smaller, Guard!Percent

-----------------------------------------------------------------------------
(* The watchdog.  *)

\* The types, and what is wired is part of what is used.
GuardTypes ==
  /\ machine \in Machines
  /\ others \in 0..machine.memory
  /\ phase \in {"idle", "turned away", "refused_environment", "running", "out of memory",
                "memory_ceiling", "wall_budget", "finished"}
  /\ pre \in {"none", "refused", "warned", "clear"}
  /\ used \in Nat /\ wired \in 0..used
  /\ ceiling \in Int
  /\ cautioned \in BOOLEAN /\ sampled \in BOOLEAN /\ late \in BOOLEAN
  /\ blind \in BOOLEAN /\ surged \in BOOLEAN /\ missed \in BOOLEAN

\* Before a run nothing is allocated, and a clear preflight stays a true one while the
\* others do not grow.
BeforeRun ==
  /\ phase \in {"idle", "turned away", "refused_environment"} => used = 0 /\ sampled
  /\ phase = "idle" /\ pre = "clear" /\ ~surged =>
       LET now == Guard!Read(machine.memory, Guard!Available) IN ~now.refused /\ ~now.warning

Ran == phase \in {"running", "out of memory", "memory_ceiling", "wall_budget", "finished"}

\* In a run no more than one burst goes past the ceiling, and what others hold lies
\* beside it with the headroom between.
InRun ==
  Ran =>
    /\ ceiling \in Guard!Floor(machine.memory)..(machine.memory - 1)
    /\ ~missed => used <= ceiling - 1 + Burst
    /\ phase = "running" /\ sampled /\ ~missed => used <= ceiling - 1
    /\ ~blind /\ ~surged => ceiling + others <= machine.memory - 2 * Gib
    /\ blind => ceiling = Guard!StaticCeiling(machine.memory)

GuardInv == GuardTypes /\ BeforeRun /\ InRun /\ wired <= Guard!WiredCap(machine.dev)

LEMMA MachineFacts ==
  ASSUME NEW mac \in Machines
  PROVE  /\ mac.memory \in Nat /\ mac.memory >= 4 /\ mac.memory >= 2 /\ mac.dev \in Nat \ {0}
         /\ mac.memory >= 4 * Gib
         /\ Guard!StaticCeiling(mac.memory) \in Nat
         /\ Guard!StaticCeiling(mac.memory) < mac.memory
         /\ Guard!Floor(mac.memory) \in Nat /\ Guard!Floor(mac.memory) >= 1
         /\ Guard!Floor(mac.memory) <= Guard!StaticCeiling(mac.memory)
         /\ Guard!WiredCap(mac.dev) \in Nat
<1>1. mac.memory \in Nat /\ mac.memory >= 4 * Gib /\ mac.dev \in Nat \ {0} /\ mac.memory >= 4
  BY GuardAssumption
<1>2. Guard!Floor(mac.memory) >= 1
  BY <1>1 DEF Guard!Floor
<1> QED BY <1>1, <1>2, CeilingBounds, CapsOfADevice

LEMMA WhatIsAvailable ==
  ASSUME GuardTypes
  PROVE  /\ Guard!Available \in Nat
         /\ used = 0 => Guard!Available = machine.memory - others
<1>1. machine.memory \in Nat /\ others \in 0..machine.memory /\ used \in Nat
  BY MachineFacts DEF GuardTypes
<1> QED BY <1>1 DEF Guard!Available, Guard!Larger

\* A ceiling that was computed and not refused.
LEMMA EffectiveCeiling ==
  ASSUME GuardTypes, used = 0, NEW b \in BOOLEAN, ~Guard!Effective(b).refused
  PROVE  /\ Guard!Effective(b).ceiling
              \in Guard!Floor(machine.memory)..(machine.memory - 1)
         /\ ~b => Guard!Effective(b).ceiling + others <= machine.memory - 2 * Gib
         /\ b => Guard!Effective(b).ceiling = Guard!StaticCeiling(machine.memory)
<1> DEFINE n == machine.memory
<1>1. machine \in Machines /\ others \in 0..n
  BY DEF GuardTypes
<1>2. /\ n \in Nat /\ n >= 2 /\ Guard!StaticCeiling(n) \in Nat /\ Guard!StaticCeiling(n) < n
      /\ Guard!Floor(n) \in Nat /\ Guard!Floor(n) <= Guard!StaticCeiling(n)
  BY <1>1, MachineFacts
<1>3. Guard!Available \in Nat /\ Guard!Available = n - others
  BY <1>1, <1>2, WhatIsAvailable
<1>4. /\ Guard!Granted(n, Guard!Available) \in Int
      /\ Guard!Granted(n, Guard!Available) <= Guard!StaticCeiling(n)
      /\ Guard!Granted(n, Guard!Available) <= n - others - 2 * Gib
  BY <1>2, <1>3, CeilingBounds
<1>5. CASE b
  <2>1. Guard!Effective(b).ceiling = Guard!StaticCeiling(n)
    BY <1>5 DEF Guard!Effective, Guard!Unread
  <2> HIDE DEF n
  <2> QED BY <2>1, <1>2, <1>5 DEF n
<1>6. CASE ~b
  <2>1. /\ Guard!Effective(b).ceiling = Guard!Granted(n, Guard!Available)
        /\ ~(Guard!Granted(n, Guard!Available) < Guard!Floor(n))
    BY <1>6 DEF Guard!Effective, Guard!Read
  <2> QED BY <2>1, <1>1, <1>2, <1>4, <1>6, GuardAssumption
<1> QED BY <1>5, <1>6

LEMMA GuardStarts == Guard!Init => GuardInv
<1> SUFFICES ASSUME Guard!Init PROVE GuardInv
  OBVIOUS
<1>1. machine \in Machines /\ machine.memory \in Nat /\ Guard!WiredCap(machine.dev) \in Nat
  BY MachineFacts DEF Guard!Init
<1>2. GuardTypes
  <2>1. others \in 0..machine.memory
    BY DEF Guard!Init
  <2>2. ceiling \in Int /\ used \in Nat /\ wired \in 0..used
    BY DEF Guard!Init
  <2> QED BY <1>1, <2>1, <2>2 DEF Guard!Init, GuardTypes
<1> QED BY <1>1, <1>2 DEF Guard!Init, GuardInv, BeforeRun, InRun, Ran

LEMMA GuardSteps == GuardInv /\ Guard!Next => GuardInv'
<1> SUFFICES ASSUME GuardInv, Guard!Next PROVE GuardInv'
  OBVIOUS
<1> USE GuardAssumption
<1> DEFINE n == machine.memory
<1>m. /\ machine \in Machines /\ n \in Nat /\ n >= 4 /\ machine' = machine
      /\ Guard!StaticCeiling(n) \in Nat /\ Guard!StaticCeiling(n) < n
      /\ Guard!Floor(n) \in Nat /\ Guard!Floor(n) >= 1
      /\ Guard!WiredCap(machine.dev) \in Nat
  <2>1. machine \in Machines
    BY DEF GuardInv, GuardTypes
  <2>2. machine' = machine
    BY DEF Guard!Next, Guard!Preflight, Guard!StartWorker, Guard!Allocate,
       Guard!AllocateWired, Guard!ReleaseMemory, Guard!TimeIsUp, Guard!Sample,
       Guard!SampleFails, Guard!Finish, Guard!OthersGrow, Guard!OthersShrink
  <2> QED BY <2>1, <2>2, MachineFacts
<1>1. CASE Guard!Preflight
  <2>1. PICK b \in BOOLEAN, battery \in BOOLEAN, pressure \in {"normal", "warn", "red"} :
          LET v == Guard!PreflightVerdict(Guard!Effective(b), pressure, battery) IN
          /\ pre' = IF ~v.ok THEN "refused" ELSE IF v.warned THEN "warned" ELSE "clear"
          /\ phase' = IF v.ok THEN "idle" ELSE "turned away"
          /\ blind' = b
    BY <1>1 DEF Guard!Preflight
  <2>2. GuardTypes'
    BY <1>1, <1>m, <2>1 DEF GuardInv, GuardTypes, Guard!Preflight
  <2>3. pre' = "clear" => ~Guard!Effective(b).refused /\ ~Guard!Effective(b).warning
    BY <2>1 DEF Guard!PreflightVerdict
  <2>4. pre' = "clear" => ~b /\ Guard!Effective(b) = Guard!Read(n, Guard!Available)
    BY <2>3 DEF Guard!Effective, Guard!Unread
  <2>5. Guard!Available' = Guard!Available
    BY <1>1, <1>m DEF Guard!Preflight, Guard!Available
  <2>6. BeforeRun'
    BY <1>1, <1>m, <2>1, <2>3, <2>4, <2>5 DEF GuardInv, BeforeRun, Guard!Preflight
  <2>7. ~Ran'
    BY <2>1 DEF Ran
  <2> QED BY <1>1, <1>m, <2>2, <2>6, <2>7 DEF GuardInv, InRun, Guard!Preflight
<1>2. ASSUME NEW b \in BOOLEAN, Guard!StartWorker(b) PROVE GuardInv'
  <2> DEFINE e == Guard!Effective(b)
  <2>1. used = 0 /\ GuardTypes /\ sampled
    BY <1>2 DEF GuardInv, BeforeRun, Guard!StartWorker
  <2>2. e.ceiling \in Int /\ e.warning \in BOOLEAN
    <3>1. Guard!Available \in Nat
      BY <2>1, WhatIsAvailable
    <3>2. Guard!Granted(n, Guard!Available) \in Int
      BY <3>1, <1>m, CeilingBounds
    <3>3. CASE b
      BY <3>3, <1>m DEF Guard!Effective, Guard!Unread
    <3>4. CASE ~b
      <4>1. e = Guard!Read(n, Guard!Available)
        BY <3>4 DEF Guard!Effective
      <4> QED BY <4>1, <3>2 DEF Guard!Read, Guard!Diverges
    <3> QED BY <3>3, <3>4
  <2>3. GuardTypes'
    BY <1>2, <1>m, <2>1, <2>2 DEF GuardTypes, Guard!StartWorker
  <2>4. BeforeRun'
    BY <1>2, <2>1 DEF BeforeRun, Guard!StartWorker
  <2>5. CASE e.refused
    BY <1>2, <1>m, <2>3, <2>4, <2>5 DEF GuardInv, InRun, Ran, Guard!StartWorker
  <2>6. CASE ~e.refused
    <3>1. /\ ceiling' = e.ceiling /\ blind' = b /\ others' = others /\ used' = 0
          /\ wired' = wired
      BY <1>2, <2>1 DEF Guard!StartWorker
    <3>2. /\ e.ceiling \in Guard!Floor(n)..(n - 1)
          /\ ~b => e.ceiling + others <= n - 2 * Gib
          /\ b => e.ceiling = Guard!StaticCeiling(n)
      BY <2>1, <2>6, EffectiveCeiling
    <3>3. InRun'
      BY <1>m, <3>1, <3>2 DEF InRun
    <3> QED BY <1>m, <2>3, <2>4, <3>1, <3>3 DEF GuardInv
  <2> QED BY <2>5, <2>6
<1>3. CASE Guard!Allocate
  <2>1. GuardTypes'
    <3>1. used' \in Nat /\ wired' \in 0..used'
      <4>1. used \in Nat /\ wired \in 0..used
        BY DEF GuardInv, GuardTypes
      <4> QED BY <4>1, <1>3 DEF Guard!Allocate
    <3> QED BY <3>1, <1>3, <1>m DEF GuardInv, GuardTypes, Guard!Allocate
  <2>2. InRun'
    <3>1. InRun /\ ceiling \in Int /\ used \in Nat
      BY DEF GuardInv, GuardTypes
    <3> QED BY <3>1, <1>3, <1>m DEF InRun, Ran, Guard!Allocate
  <2> QED BY <1>3, <1>m, <2>1, <2>2 DEF GuardInv, BeforeRun, Guard!Allocate
<1>4. CASE Guard!AllocateWired
  <2>0. /\ GuardTypes /\ InRun /\ BeforeRun /\ ceiling \in Int /\ used \in Nat
        /\ wired \in 0..used /\ wired <= Guard!WiredCap(machine.dev)
    BY DEF GuardInv, GuardTypes
  <2>1. CASE wired + Burst > Guard!WiredCap(machine.dev)
    <3>1. GuardTypes'
      BY <1>4, <1>m, <2>0, <2>1 DEF GuardTypes, Guard!AllocateWired
    <3>2. InRun'
      BY <1>4, <1>m, <2>0, <2>1 DEF InRun, Ran, Guard!AllocateWired
    <3> QED BY <1>4, <1>m, <2>0, <2>1, <3>1, <3>2 DEF GuardInv, BeforeRun, Guard!AllocateWired
  <2>2. CASE ~(wired + Burst > Guard!WiredCap(machine.dev))
    <3>1. GuardTypes'
      <4>1. used' \in Nat /\ wired' \in 0..used'
        BY <1>4, <2>0, <2>2 DEF Guard!AllocateWired
      <4> QED BY <4>1, <1>4, <1>m, <2>0, <2>2 DEF GuardTypes, Guard!AllocateWired
    <3>2. InRun'
      BY <1>4, <1>m, <2>0, <2>2 DEF InRun, Ran, Guard!AllocateWired
    <3>3. wired' <= Guard!WiredCap(machine'.dev)
      BY <1>4, <1>m, <2>0, <2>2 DEF Guard!AllocateWired
    <3> QED BY <1>4, <1>m, <2>0, <2>2, <3>1, <3>2, <3>3 DEF GuardInv, BeforeRun, Guard!AllocateWired
  <2> QED BY <2>1, <2>2
<1>5. CASE Guard!ReleaseMemory
  BY <1>5, <1>m DEF GuardInv, GuardTypes, BeforeRun, InRun, Ran, Guard!ReleaseMemory
<1>6. CASE Guard!TimeIsUp
  BY <1>6, <1>m DEF GuardInv, GuardTypes, BeforeRun, InRun, Ran, Guard!TimeIsUp
<1>7. CASE Guard!Sample
  BY <1>7, <1>m DEF GuardInv, GuardTypes, BeforeRun, InRun, Ran, Guard!Sample, Guard!Breach
<1>8. CASE Guard!SampleFails
  BY <1>8, <1>m DEF GuardInv, GuardTypes, BeforeRun, InRun, Ran, Guard!SampleFails
<1>9. CASE Guard!Finish
  BY <1>9, <1>m DEF GuardInv, GuardTypes, BeforeRun, InRun, Ran, Guard!Finish
<1>10. CASE Guard!OthersGrow
  <2>1. GuardTypes'
    <3>1. others' \in 0..machine'.memory
      <4>1. Surge \in Nat /\ others \in 0..n
        BY DEF GuardInv, GuardTypes
      <4> QED BY <4>1, <1>10, <1>m DEF Guard!OthersGrow
    <3> QED BY <3>1, <1>10, <1>m DEF GuardInv, GuardTypes, Guard!OthersGrow
  <2> QED BY <2>1, <1>10, <1>m DEF GuardInv, BeforeRun, InRun, Ran, Guard!OthersGrow
<1>11. CASE Guard!OthersShrink
  <2>1. GuardTypes' /\ InRun' /\ wired' <= Guard!WiredCap(machine'.dev)
    BY <1>11, <1>m DEF GuardInv, GuardTypes, InRun, Ran, Guard!OthersShrink
  <2>2. /\ Guard!Available \in Nat /\ Guard!Available' \in Nat
        /\ Guard!Available <= Guard!Available'
    BY <1>11, <1>m DEF GuardInv, GuardTypes, BeforeRun, Guard!OthersShrink, Guard!Available,
       Guard!Larger
  <2>3. /\ ~Guard!Read(n, Guard!Available).refused
             => ~Guard!Read(n, Guard!Available').refused
        /\ ~Guard!Read(n, Guard!Available).warning
             => ~Guard!Read(n, Guard!Available').warning
    BY <2>2, <1>m, GrantedGrows
  <2>4. BeforeRun'
    BY <2>3, <1>11, <1>m DEF GuardInv, BeforeRun, Guard!OthersShrink
  <2> QED BY <2>1, <2>4 DEF GuardInv
<1> QED BY <1>1, <1>2, <1>3, <1>4, <1>5, <1>6, <1>7, <1>8, <1>9, <1>10, <1>11 DEF Guard!Next

\* What the invariant says of the watchdog, and of the step that starts a worker.
LEMMA GuardHolds ==
  ASSUME GuardInv
  PROVE  /\ Guard!TypeOK /\ Guard!NoPagingOfItsOwn /\ Guard!WiredInsideWorkingSet
<1> USE GuardAssumption
<1> DEFINE n == machine.memory
<1>1. /\ machine \in Machines /\ n \in Nat /\ n >= 2 /\ machine.dev \in Nat \ {0}
      /\ Guard!StaticCeiling(n) \in Nat /\ Guard!StaticCeiling(n) < n
      /\ GuardTypes /\ BeforeRun /\ InRun /\ wired <= Guard!WiredCap(machine.dev)
      /\ used \in Nat /\ others \in 0..n /\ ceiling \in Int
  BY MachineFacts DEF GuardInv, GuardTypes
<1>2. Guard!TypeOK
  <2>1. phase = "running" => ceiling \in Guard!Floor(machine.memory)..(machine.memory - 1)
    BY <1>1 DEF InRun, Ran
  <2>2. {cautioned, sampled, late, blind, surged, missed} \subseteq BOOLEAN
    BY <1>1 DEF GuardTypes
  <2> QED BY <1>1, <2>1, <2>2 DEF GuardTypes, Guard!TypeOK
<1>3. Guard!WiredInsideWorkingSet
  BY <1>1, CapsOfADevice DEF Guard!WiredInsideWorkingSet
<1>4. Guard!NoPagingOfItsOwn
  <2> SUFFICES ASSUME Guard!Paging, ~surged, ~missed
               PROVE  blind /\ others > n - Guard!StaticCeiling(n) - Burst
    BY DEF Guard!NoPagingOfItsOwn
  <2>1. used + others > n
    BY DEF Guard!Paging
  <2>2. Ran
    <3>1. used # 0
      BY <1>1, <2>1
    <3> QED BY <1>1, <3>1 DEF BeforeRun, Ran, GuardTypes
  <2>3. used <= ceiling - 1 + Burst
    BY <2>2, <1>1 DEF InRun
  <2>4. blind
    <3> SUFFICES ASSUME ~blind PROVE FALSE
      OBVIOUS
    <3>1. ceiling + others <= n - 2 * Gib
      BY <2>2, <1>1 DEF InRun
    <3>2. Burst <= 2 * Gib + 1
      BY DEF Guard!Headroom
    <3> QED BY <1>1, <2>1, <2>3, <3>1, <3>2
  <2>5. ceiling = Guard!StaticCeiling(n)
    BY <2>2, <2>4, <1>1 DEF InRun
  <2> QED BY <1>1, <2>1, <2>3, <2>4, <2>5
<1> QED BY <1>2, <1>3, <1>4

LEMMA LadderAlwaysClimbs == Guard!LadderClimbs
<1> SUFFICES ASSUME NEW n \in 1..(40 * Gib)
             PROVE  /\ Guard!StaticCeiling(n) <= Guard!StaticCeiling(n + 1)
                    /\ n >= 2 => Guard!StaticCeiling(n) < n
                    /\ Guard!Granted(n, n) <= Guard!Granted(n + 1, n + 1)
  BY DEF Guard!LadderClimbs
<1>1. n \in Nat \ {0}
  BY GuardAssumption
<1> QED BY <1>1, CeilingClimbs, CeilingBounds

LEMMA GuardKeepsItsWord ==
  ASSUME GuardInv, Guard!Next
  PROVE  Guard!NoSurpriseAfterPreflight
<1> SUFFICES ASSUME pre = "clear", phase = "idle", phase' # "idle", ~surged
             PROVE  phase' = "running" /\ (cautioned' => blind')
  BY DEF Guard!NoSurpriseAfterPreflight
<1>1. PICK b \in BOOLEAN : Guard!StartWorker(b)
  BY DEF Guard!Next, Guard!Preflight, Guard!Allocate, Guard!AllocateWired,
     Guard!ReleaseMemory, Guard!TimeIsUp, Guard!Sample, Guard!SampleFails, Guard!Finish,
     Guard!OthersGrow, Guard!OthersShrink
<1>2. LET now == Guard!Read(machine.memory, Guard!Available) IN ~now.refused /\ ~now.warning
  BY DEF GuardInv, BeforeRun
<1>3. CASE b
  <2>1. machine \in Machines
    BY DEF GuardInv, GuardTypes
  <2>2. ~(Guard!StaticCeiling(machine.memory) < Guard!Floor(machine.memory))
    BY <2>1, MachineFacts
  <2>3. ~Guard!Effective(b).refused
    BY <1>3, <2>2 DEF Guard!Effective, Guard!Unread
  <2> QED BY <1>1, <1>3, <2>3 DEF Guard!StartWorker
<1>4. CASE ~b
  <2>1. Guard!Effective(b) = Guard!Read(machine.memory, Guard!Available)
    BY <1>4 DEF Guard!Effective
  <2> QED BY <1>1, <1>2, <2>1 DEF Guard!StartWorker
<1> QED BY <1>3, <1>4

-----------------------------------------------------------------------------
(* The hold-out file. *)

WriterStates == {"start", "serialized", "opened", "returned", "refused", "dead"}

\* Of a path at most one writer got past creating the file.
Holds(w) == writer[w].at \in {"opened", "returned", "dead"}

FileInv ==
  /\ path \in {Predictions!Absent, Predictions!Torn} \cup {Predictions!Complete(d) : d \in Docs}
  /\ writer \in [Writers -> [doc : Docs, at : WriterStates]]
  /\ \A w \in Writers :
       /\ Holds(w) => path # Predictions!Absent
       /\ writer[w].at = "opened" => path = Predictions!Torn
       /\ writer[w].at = "returned" => path = Predictions!Complete(writer[w].doc)
       /\ \A v \in Writers : Holds(v) /\ Holds(w) => v = w

\* A score is of positive predictions and measurements.
ScoredInv ==
  outcome.tag = "scored" =>
    /\ \A l \in DOMAIN outcome.predictions : outcome.predictions[l] \in Nat
    /\ \A l \in DOMAIN outcome.seen : outcome.seen[l] \in Nat
    /\ outcome.points = DOMAIN outcome.predictions \cap DOMAIN outcome.seen
    /\ outcome.unscored = DOMAIN outcome.predictions \ DOMAIN outcome.seen
    /\ outcome.unpredicted = DOMAIN outcome.seen \ DOMAIN outcome.predictions
    /\ outcome.out_of_band =
         {l \in outcome.points : ~Predictions!InBand(outcome.predictions[l], outcome.seen[l])}

HoldoutInv ==
  /\ FileInv /\ ScoredInv
  /\ measured \in Predictions!PartialMaps
  /\ outcome.tag \in {"none", "error", "scored"}

LEMMA PathsDiffer ==
  /\ Predictions!Absent # Predictions!Torn
  /\ \A d : /\ Predictions!Complete(d) # Predictions!Absent
            /\ Predictions!Complete(d) # Predictions!Torn
            /\ Predictions!Complete(d).doc = d
            /\ Predictions!Complete(d).state = "complete"
  /\ Predictions!Absent.state # "complete" /\ Predictions!Torn.state # "complete"
  BY DEF Predictions!Absent, Predictions!Torn, Predictions!Complete

LEMMA PartialMapsGrow ==
  ASSUME measured \in Predictions!PartialMaps, NEW l \in Labels, NEW b \in Bytes
  PROVE  [k \in DOMAIN measured \cup {l} |-> IF k = l THEN b ELSE measured[k]]
           \in Predictions!PartialMaps
<1>1. PICK E \in SUBSET Labels : measured \in [E -> Bytes]
  BY DEF Predictions!PartialMaps
<1>2. E \cup {l} \in SUBSET Labels
  BY <1>1
<1>3. [k \in DOMAIN measured \cup {l} |-> IF k = l THEN b ELSE measured[k]]
        \in [E \cup {l} -> Bytes]
  BY <1>1
<1> QED BY <1>2, <1>3 DEF Predictions!PartialMaps

LEMMA HoldoutStarts == Predictions!Init => HoldoutInv
<1> SUFFICES ASSUME Predictions!Init PROVE HoldoutInv
  OBVIOUS
<1>1. FileInv
  BY PathsDiffer DEF Predictions!Init, FileInv, WriterStates, Holds
<1>2. outcome.tag = "none"
  BY DEF Predictions!Init, Predictions!NoReport
<1>3. measured \in Predictions!PartialMaps
  <2>1. [l \in {} |-> 0] \in [{} -> Bytes] /\ {} \in SUBSET Labels
    OBVIOUS
  <2> QED BY <2>1 DEF Predictions!Init, Predictions!PartialMaps
<1> QED BY <1>1, <1>2, <1>3 DEF HoldoutInv, ScoredInv

\* A step of a writer.
LEMMA WriterStep ==
  ASSUME FileInv, NEW w \in Writers, Predictions!WriterGoesOn(w)
  PROVE  FileInv' /\ UNCHANGED <<measured, outcome>> /\ Predictions!WrittenOnce
<1> USE DEF Predictions!Moves, FileInv, Holds, WriterStates
<1>1. CASE Predictions!Validate(w)
  <2>1. PICK to \in {"serialized", "refused"} : writer' = [writer EXCEPT ![w].at = to]
    BY <1>1 DEF Predictions!Validate
  <2> QED BY <1>1, <2>1 DEF Predictions!Validate, Predictions!WrittenOnce
<1>2. CASE Predictions!Open(w)
  <2>1. CASE path = Predictions!Absent
    BY <1>2, <2>1, PathsDiffer DEF Predictions!Open, Predictions!Takes, Predictions!WrittenOnce
  <2>2. CASE path # Predictions!Absent
    BY <1>2, <2>2 DEF Predictions!Open, Predictions!Takes, Predictions!WrittenOnce
  <2> QED BY <2>1, <2>2
<1>3. CASE Predictions!Fill(w)
  <2>1. path = Predictions!Torn /\ path' = Predictions!Complete(writer[w].doc)
    BY <1>3 DEF Predictions!Fill
  <2>2. writer[w].doc \in Docs
    OBVIOUS
  <2> QED BY <1>3, <2>1, <2>2, PathsDiffer DEF Predictions!Fill, Predictions!WrittenOnce
<1>4. CASE Predictions!Crash(w)
  BY <1>4 DEF Predictions!Crash, Predictions!WrittenOnce
<1> QED BY <1>1, <1>2, <1>3, <1>4 DEF Predictions!WriterGoesOn

\* A score is taken of what is in the file.
LEMMA ScoreStep ==
  ASSUME HoldoutInv, NEW q \in Quantities, Predictions!Score(q)
  PROVE  ScoredInv' /\ outcome'.tag \in {"none", "error", "scored"}
<1>1. outcome' = Predictions!Outcome(q)
  BY DEF Predictions!Score
<1>2. CASE path = Predictions!Absent \/ path = Predictions!Torn
  BY <1>1, <1>2, PathsDiffer DEF Predictions!Outcome, Predictions!ScoreError, ScoredInv
<1>3. CASE path # Predictions!Absent /\ path # Predictions!Torn
  <2> DEFINE P == path.doc.predictions
  <2>1. PICK d \in Docs : path = Predictions!Complete(d)
    BY <1>3 DEF HoldoutInv, FileInv
  <2>2. \A l \in DOMAIN P : P[l] \in Int
    BY <2>1, PathsDiffer, HoldoutAssumption
  <2>3. \A l \in DOMAIN measured : measured[l] \in Nat
    BY HoldoutAssumption DEF HoldoutInv, Predictions!PartialMaps
  <2>4. CASE \/ ~Predictions!AllPositive(P) \/ path.doc.quantity # q
             \/ ~Predictions!AllPositive(measured)
    BY <1>1, <1>3, <2>4 DEF Predictions!Outcome, Predictions!ScoreError, ScoredInv
  <2>5. CASE /\ Predictions!AllPositive(P) /\ path.doc.quantity = q
             /\ Predictions!AllPositive(measured)
    <3>1. outcome' =
            [tag |-> "scored", predictions |-> P, points |-> DOMAIN P \cap DOMAIN measured,
             out_of_band |-> {l \in DOMAIN P \cap DOMAIN measured :
                                ~Predictions!InBand(P[l], measured[l])},
             unscored |-> DOMAIN P \ DOMAIN measured,
             unpredicted |-> DOMAIN measured \ DOMAIN P, seen |-> measured]
      BY <1>1, <1>3, <2>5 DEF Predictions!Outcome, Predictions!Unscored
    <3>2. \A l \in DOMAIN P : P[l] \in Nat
      BY <2>2, <2>5 DEF Predictions!AllPositive
    <3> HIDE DEF P
    <3> QED BY <3>1, <3>2, <2>3 DEF ScoredInv
  <2> QED BY <2>4, <2>5
<1> QED BY <1>2, <1>3

LEMMA HoldoutSteps ==
  ASSUME HoldoutInv, Predictions!Next
  PROVE  HoldoutInv' /\ Predictions!WrittenOnce
<1>1. ASSUME NEW w \in Writers, Predictions!WriterGoesOn(w)
      PROVE  HoldoutInv' /\ Predictions!WrittenOnce
  <2>1. FileInv' /\ UNCHANGED <<measured, outcome>> /\ Predictions!WrittenOnce
    BY <1>1, WriterStep DEF HoldoutInv
  <2> QED BY <2>1 DEF HoldoutInv, ScoredInv
<1>2. ASSUME NEW l \in Labels, NEW b \in Bytes, Predictions!Measure(l, b)
      PROVE  HoldoutInv' /\ Predictions!WrittenOnce
  <2>1. measured' \in Predictions!PartialMaps
    BY <1>2, PartialMapsGrow DEF HoldoutInv, Predictions!Measure
  <2>2. UNCHANGED <<path, writer, outcome>>
    BY <1>2 DEF Predictions!Measure
  <2> QED BY <2>1, <2>2 DEF HoldoutInv, FileInv, Holds, ScoredInv, Predictions!WrittenOnce
<1>3. ASSUME NEW q \in Quantities, Predictions!Score(q)
      PROVE  HoldoutInv' /\ Predictions!WrittenOnce
  <2>1. UNCHANGED <<path, writer, measured>>
    BY <1>3 DEF Predictions!Score
  <2>2. ScoredInv' /\ outcome'.tag \in {"none", "error", "scored"}
    BY <1>3, ScoreStep
  <2> QED BY <2>1, <2>2 DEF HoldoutInv, FileInv, Holds, Predictions!WrittenOnce
<1> QED BY <1>1, <1>2, <1>3 DEF Predictions!Next

\* What fits into the quotient fits before the division.
LEMMA QuotientFits ==
  ASSUME NEW p \in Nat, NEW x \in Nat, NEW d \in Nat \ {0}, p <= x \div d
  PROVE  p * d <= x
<1> DEFINE y == x \div d
<1>1. y \in Nat /\ y * d <= x
  OBVIOUS
<1>2. \A k \in Nat : p + k = y => p * d <= y * d
  OBVIOUS
<1>3. y - p \in Nat /\ p + (y - p) = y
  BY <1>1
<1> HIDE DEF y
<1> QED BY <1>1, <1>2, <1>3

LEMMA HoldoutHolds ==
  ASSUME HoldoutInv
  PROVE  /\ Predictions!TypeOK /\ Predictions!ReturnedMeansWritten
         /\ Predictions!ScoreAccountsForEveryLabel /\ Predictions!BudgetKeepsTheReserve
<1>1. Predictions!TypeOK
  BY DEF HoldoutInv, FileInv, WriterStates, Predictions!TypeOK
<1>2. Predictions!ReturnedMeansWritten
  BY DEF HoldoutInv, FileInv, Predictions!ReturnedMeansWritten
<1>3. Predictions!ScoreAccountsForEveryLabel
  BY DEF HoldoutInv, ScoredInv, Predictions!ScoreAccountsForEveryLabel
<1>4. Predictions!BudgetKeepsTheReserve
  <2> SUFFICES ASSUME outcome.tag = "scored",
                      NEW l \in outcome.points \ outcome.out_of_band,
                      NEW B \in 0 .. MaxBudget, NEW reserve \in 0 .. B,
                      outcome.predictions[l] <= ((B - reserve) * Den) \div (Den + Under)
               PROVE  outcome.seen[l] + reserve <= B
    BY DEF Predictions!BudgetKeepsTheReserve
  <2> DEFINE p == outcome.predictions[l]
             b == outcome.seen[l]
             r == B - reserve
  <2>1. p \in Nat /\ b \in Nat /\ b * Den <= p * (Den + Under)
    BY DEF HoldoutInv, ScoredInv, Predictions!InBand
  <2>2. r \in Nat /\ B \in Nat /\ reserve \in Nat /\ B = r + reserve
    BY HoldoutAssumption
  <2>3. r * Den \in Nat /\ Den + Under \in Nat \ {0}
    BY <2>2, HoldoutAssumption
  <2>4. p * (Den + Under) <= r * Den
    BY <2>1, <2>3, QuotientFits
  <2>5. b * Den <= r * Den
    <3>1. p * (Den + Under) \in Nat /\ b * Den \in Nat
      BY <2>1, <2>3, HoldoutAssumption
    <3> HIDE DEF p, b, r
    <3> QED BY <2>1, <2>3, <2>4, <3>1
  <2>6. b <= r
    <3> HIDE DEF p, b, r
    <3> QED BY <2>1, <2>2, <2>5, HoldoutAssumption
  <2> HIDE DEF p, b, r
  <2>7. b + reserve <= B
    BY <2>1, <2>2, <2>6
  <2> QED BY <2>7 DEF b
<1> QED BY <1>1, <1>2, <1>3, <1>4

-----------------------------------------------------------------------------
(* The calibration of the planner. *)

LEMMA LeastOf ==
  ASSUME NEW T \in SUBSET Nat, T # {}
  PROVE  \E n \in T : \A k \in T : n <= k
<1>1. PICK n \in T : \A k \in T : ~(<<k, n>> \in OpToRel(<, Nat))
  BY NatLessThanWellFounded, WFMin
<1>2. \A k \in T : ~(k < n)
  BY <1>1 DEF OpToRel
<1> QED BY <1>2

\* One term of the least-squares sum, and one step of the fold that adds them.
Square(p) == Fit!XFlash(p) * Fit!XFlash(p)
FoldStep(g, s) ==
  IF s = {} THEN 0 ELSE LET x == CHOOSE t \in s : TRUE IN Square(x) + g[s \ {x}]

\* The fold's recursion has a solution.
LEMMA FoldExists ==
  ASSUME NEW points, IsFiniteSet(points)
  PROVE  \E g : g = [s \in SUBSET points |-> FoldStep(g, s)]
<1> DEFINE Upto(n, g) == \A s \in SUBSET points : Cardinality(s) <= n => g[s] = FoldStep(g, s)
           T == {n \in Nat : ~ \E g : Upto(n, g)}
<1>1. \A s \in SUBSET points : IsFiniteSet(s) /\ Cardinality(s) \in Nat
                             /\ Cardinality(s) <= Cardinality(points)
  BY FS_Subset, FS_CardinalityType
<1>2. T = {}
  <2> SUFFICES ASSUME T # {} PROVE FALSE
    OBVIOUS
  <2>1. PICK n \in T : \A k \in T : n <= k
    BY LeastOf
  <2>2. n \in Nat
    OBVIOUS
  <2>3. PICK g : n = 0 \/ Upto(n - 1, g)
    <3>1. CASE n = 0
      BY <3>1
    <3>2. CASE n # 0
      <4>1. n - 1 \in Nat /\ ~(n <= n - 1)
        BY <2>2, <3>2
      <4>2. n - 1 \notin T
        BY <2>1, <4>1
      <4> QED BY <4>1, <4>2
    <3> QED BY <3>1, <3>2
  <2> DEFINE h == [s \in SUBSET points |-> FoldStep(g, s)]
  <2>4. ASSUME NEW s \in SUBSET points, Cardinality(s) <= n
        PROVE  h[s] = FoldStep(h, s)
    <3>1. h[s] = FoldStep(g, s)
      OBVIOUS
    <3>2. CASE s = {}
      BY <3>1, <3>2 DEF FoldStep
    <3>3. CASE s # {}
      <4> DEFINE x == CHOOSE t \in s : TRUE
                 r == s \ {x}
      <4>1. x \in s /\ r \in SUBSET points
        BY <3>3
      <4>2. Cardinality(r) = Cardinality(s) - 1 /\ Cardinality(s) \in Nat
            /\ Cardinality(r) \in Nat
        BY <1>1, <4>1, FS_RemoveElement
      <4>3. n # 0 /\ Cardinality(r) <= n - 1
        BY <2>2, <2>4, <4>2
      <4>4. g[r] = FoldStep(g, r) /\ h[r] = FoldStep(g, r)
        BY <2>3, <4>1, <4>3
      <4>5. FoldStep(g, s) = Square(x) + g[r] /\ FoldStep(h, s) = Square(x) + h[r]
        BY <3>3 DEF FoldStep
      <4> QED BY <3>1, <4>4, <4>5
    <3> QED BY <3>2, <3>3
  <2>5. Upto(n, h)
    BY <2>4
  <2> HIDE DEF h, Upto
  <2> QED BY <2>5
<1> HIDE DEF T
<1>3. PICK g : Upto(Cardinality(points), g)
  <2>1. Cardinality(points) \in Nat
    BY FS_CardinalityType
  <2> QED BY <1>2, <2>1 DEF T
<1> DEFINE h == [s \in SUBSET points |-> FoldStep(g, s)]
<1>4. ASSUME NEW s \in SUBSET points
      PROVE  FoldStep(g, s) = FoldStep(h, s)
  <2>1. CASE s = {}
    BY <2>1 DEF FoldStep
  <2>2. CASE s # {}
    <3> DEFINE x == CHOOSE t \in s : TRUE
    <3>1. s \ {x} \in SUBSET points
      OBVIOUS
    <3>2. g[s \ {x}] = h[s \ {x}]
      BY <1>1, <1>3, <3>1
    <3> HIDE DEF h
    <3> QED BY <2>2, <3>2 DEF FoldStep
  <2> QED BY <2>1, <2>2
<1>5. h = [s \in SUBSET points |-> FoldStep(h, s)]
  BY <1>4
<1> QED BY <1>5

\* The least-squares line has a slope: the sum of squares over points of which one is
\* not empty is positive.
LEMMA SumOfSquares ==
  ASSUME NEW c, NEW points, IsFiniteSet(points), \A p \in points : Fit!XFlash(p) \in Nat,
         \E p \in points : Fit!XFlash(p) # 0
  PROVE  Fit!Ols(c, points)[2] \in Nat \ {0}
<1> DEFINE iter == CHOOSE g : g = [s \in SUBSET points |-> FoldStep(g, s)]
<1>1. Fit!Ols(c, points)[2] = iter[points]
  BY DEF Fit!Ols, Fit!SumOver, Fit!MapThenFoldSet, FoldStep, Square
<1>2. iter = [s \in SUBSET points |-> FoldStep(iter, s)]
  BY FoldExists
<1> HIDE DEF iter
<1>3. \A p \in points : Square(p) \in Nat /\ (Fit!XFlash(p) # 0 => Square(p) # 0)
  <2> SUFFICES ASSUME NEW p \in points
               PROVE  Square(p) \in Nat /\ (Fit!XFlash(p) # 0 => Square(p) # 0)
    OBVIOUS
  <2> DEFINE x == Fit!XFlash(p)
  <2>1. x \in Nat
    OBVIOUS
  <2> HIDE DEF x
  <2>2. x * x \in Nat /\ (x # 0 => x * x # 0)
    BY <2>1
  <2> QED BY <2>2 DEF Square, x
<1> DEFINE SumBounds(s) == iter[s] \in Nat /\ \A p \in s : Square(p) <= iter[s]
           T == {n \in Nat : \E s \in SUBSET points : Cardinality(s) = n /\ ~SumBounds(s)}
<1>4. T = {}
  <2> SUFFICES ASSUME T # {} PROVE FALSE
    OBVIOUS
  <2>1. PICK n \in T : \A k \in T : n <= k
    BY LeastOf
  <2>2. PICK s \in SUBSET points : Cardinality(s) = n /\ ~SumBounds(s)
    OBVIOUS
  <2>3. iter[s] = FoldStep(iter, s)
    BY <1>2
  <2>4. s # {}
    BY <2>2, <2>3 DEF FoldStep
  <2> DEFINE x == CHOOSE t \in s : TRUE
             r == s \ {x}
  <2>5. x \in s /\ r \in SUBSET points /\ iter[s] = Square(x) + iter[r]
    BY <2>3, <2>4 DEF FoldStep
  <2> HIDE DEF x
  <2>6. IsFiniteSet(s) /\ Cardinality(r) = n - 1 /\ n \in Nat /\ Cardinality(r) \in Nat
    BY <2>2, <2>5, FS_Subset, FS_RemoveElement, FS_CardinalityType
  <2>7. Cardinality(r) \notin T
    <3>1. ~(n <= Cardinality(r))
      BY <2>6
    <3> HIDE DEF T
    <3> QED BY <2>1, <3>1
  <2>8. SumBounds(r)
    BY <2>5, <2>6, <2>7
  <2>9. Square(x) \in Nat /\ iter[r] \in Nat
    BY <1>3, <2>5, <2>8
  <2>10. ASSUME NEW p \in s PROVE Square(p) <= iter[s]
    <3>1. CASE p = x
      BY <2>5, <2>9, <3>1
    <3>2. CASE p # x
      <4>1. Square(p) \in Nat /\ Square(p) <= iter[r]
        BY <1>3, <2>8, <3>2
      <4> QED BY <2>5, <2>9, <4>1
    <3> QED BY <3>1, <3>2
  <2>11. iter[s] \in Nat
    BY <2>5, <2>9
  <2>12. SumBounds(s)
    BY <2>10, <2>11
  <2> HIDE DEF SumBounds
  <2> QED BY <2>2, <2>12
<1> HIDE DEF T
<1>5. SumBounds(points)
  <2>1. Cardinality(points) \in Nat
    BY FS_CardinalityType
  <2> QED BY <1>4, <2>1 DEF T
<1>6. PICK p \in points : Fit!XFlash(p) # 0
  OBVIOUS
<1>7. Square(p) \in Nat \ {0} /\ Square(p) <= iter[points] /\ iter[points] \in Nat
  BY <1>3, <1>5, <1>6
<1> QED BY <1>1, <1>7

\* Fractions are compared as their cross products are.
LEMMA RatiosCompare ==
  ASSUME NEW a \in Int, NEW b \in Int, NEW c \in Int,
         NEW x \in Nat \ {0}, NEW y \in Nat \ {0}, NEW z \in Nat \ {0},
         a * y <= b * x, b * z <= c * y
  PROVE  a * z <= c * x
<1> DEFINE ay == a * y
           bx == b * x
           bz == b * z
           cy == c * y
<1>1. ay * z <= bx * z
  <2>1. ay \in Int /\ bx \in Int /\ ay <= bx
    OBVIOUS
  <2> HIDE DEF ay, bx
  <2> QED BY <2>1
<1>2. bz * x <= cy * x
  <2>1. bz \in Int /\ cy \in Int /\ bz <= cy
    OBVIOUS
  <2> HIDE DEF bz, cy
  <2> QED BY <2>1
<1>3. bx * z = bz * x
  OBVIOUS
<1>4. ay * z = (a * z) * y /\ cy * x = (c * x) * y
  OBVIOUS
<1>5. (a * z) * y <= (c * x) * y
  <2>1. ay * z \in Int /\ bx * z \in Int /\ cy * x \in Int
    OBVIOUS
  <2> HIDE DEF ay, bx, bz, cy
  <2>2. ay * z <= cy * x
    BY <1>1, <1>2, <1>3, <2>1
  <2> QED BY <1>4, <2>2
<1> DEFINE u == a * z
           v == c * x
<1>6. u \in Int /\ v \in Int /\ u * y <= v * y
  BY <1>5
<1> HIDE DEF u, v
<1>7. u <= v
  BY <1>6
<1> QED BY <1>7 DEF u, v

\* The envelope exists: of finitely many ratios one is the largest.
LEMMA LargestRatio ==
  ASSUME NEW c, NEW points, IsFiniteSet(points), points # {},
         \A p \in points : Fit!XFlash(p) \in Nat \ {0} /\ Fit!FlashResidual(c, p) \in Int
  PROVE  \E q \in points : \A r \in points :
           Fit!LessEq(<<Fit!FlashResidual(c, r), Fit!XFlash(r)>>,
                      <<Fit!FlashResidual(c, q), Fit!XFlash(q)>>)
<1> DEFINE Num(p) == Fit!FlashResidual(c, p)
           Below(r, q) == Num(r) * Fit!XFlash(q) <= Num(q) * Fit!XFlash(r)
           Top1(s) == \E q \in s : \A r \in s : Below(r, q)
           T == {n \in Nat : \E s \in SUBSET points : /\ s # {} /\ Cardinality(s) = n
                                                      /\ ~Top1(s)}
<1>1. \A p \in points : Below(p, p)
  OBVIOUS
<1>2. \A p, q, r \in points : Below(p, q) /\ Below(q, r) => Below(p, r)
  BY RatiosCompare
<1>3. \A p, q \in points : Below(p, q) \/ Below(q, p)
  <2> SUFFICES ASSUME NEW p \in points, NEW q \in points
               PROVE  Below(p, q) \/ Below(q, p)
    OBVIOUS
  <2>1. Num(p) * Fit!XFlash(q) \in Int /\ Num(q) * Fit!XFlash(p) \in Int
    OBVIOUS
  <2> QED BY <2>1
<1> HIDE DEF Below
<1>4. T = {}
  <2> SUFFICES ASSUME T # {} PROVE FALSE
    OBVIOUS
  <2>1. PICK n \in T : \A k \in T : n <= k
    BY LeastOf
  <2>2. PICK s \in SUBSET points : s # {} /\ Cardinality(s) = n /\ ~Top1(s)
    OBVIOUS
  <2>3. PICK x : x \in s
    BY <2>2
  <2> DEFINE rest == s \ {x}
  <2>4. IsFiniteSet(s) /\ Cardinality(rest) = n - 1 /\ n \in Nat /\ Cardinality(rest) \in Nat
    BY <2>2, <2>3, FS_Subset, FS_RemoveElement, FS_CardinalityType
  <2>5. Cardinality(rest) \notin T
    <3>1. ~(n <= Cardinality(rest))
      BY <2>4
    <3> HIDE DEF T
    <3> QED BY <2>1, <3>1
  <2>6. CASE rest = {}
    <3>1. \A r \in s : r = x
      BY <2>6
    <3> QED BY <1>1, <2>2, <2>3, <3>1
  <2>7. CASE rest # {}
    <3>1. PICK q \in rest : \A r \in rest : Below(r, q)
      BY <2>2, <2>4, <2>5, <2>7
    <3>2. x \in points /\ q \in points /\ q \in s
      BY <2>2, <2>3
    <3>3. CASE Below(x, q)
      <4>1. \A r \in s : Below(r, q)
        BY <3>1, <3>3
      <4> QED BY <2>2, <3>2, <4>1
    <3>4. CASE Below(q, x)
      <4>1. ASSUME NEW r \in s PROVE Below(r, x)
        <5>1. CASE r = x
          BY <1>1, <3>2, <5>1
        <5>2. CASE r # x
          BY <1>2, <3>1, <3>2, <3>4, <5>2
        <5> QED BY <5>1, <5>2
      <4> QED BY <2>2, <2>3, <4>1
    <3> QED BY <1>3, <3>2, <3>3, <3>4
  <2> QED BY <2>6, <2>7
<1> HIDE DEF T
<1>5. Top1(points)
  <2>1. Cardinality(points) \in Nat
    BY FS_CardinalityType
  <2> QED BY <1>4, <2>1 DEF T
<1> QED BY <1>5 DEF Below, Fit!LessEq

-----------------------------------------------------------------------------
(* The runs of the calibration script. *)

\* All six coefficients, and slopes that are fractions.
CoeffsOK(c) ==
  /\ DOMAIN c = Fit!Coefficients
  /\ c.base \in Int /\ c.ckpt \in Int /\ c.full \in Int /\ c.quad \in Int
  /\ c.flash_kernel[2] \in Nat \ {0} /\ c.flash_stock[2] \in Nat \ {0}

\* A fit of the flash path alone.
FlashOnly == m.stock = Fit!NoPlane /\ ~m.gc_off

RefitTypes ==
  /\ CoeffsOK(file.coeffs) /\ CoeffsOK(old) /\ CoeffsOK(coeffs)
  /\ file = [coeffs |-> file.coeffs, fit |-> file.fit, holdout |-> file.holdout]
  /\ file.holdout \in BOOLEAN /\ m \in Manifests
  /\ fitPc \in {"idle", "check", "write", "written", "stopped"}
  /\ mode \in {"ols", "envelope"} /\ runs \in 0 .. MaxRuns

\* What is in the hands of a run, and what was earned by what is in the file.
RefitInv ==
  /\ RefitTypes
  /\ fitPc \in {"check", "write"} =>
       /\ old = file.coeffs /\ ~Fit!Unsolvable(m)
       /\ coeffs = Fit!FitMemoryCoeffs(m, old, mode)
  /\ fitPc = "check" => mode = "ols"
  /\ fitPc = "write" => (mode = "ols" \/ FlashOnly => Fit!OneSided(coeffs, m.flash))
  /\ fitPc = "written" => (file.fit = "ols" \/ FlashOnly => Fit!OneSided(file.coeffs, m.flash))
  /\ file.holdout => scored = file.coeffs

\* A point of a manifest.
LEMMA PointFacts ==
  ASSUME NEW man \in Manifests, NEW c, CoeffsOK(c), NEW p \in man.flash
  PROVE  /\ p.arm \in {"kernel", "stock"}
         /\ Fit!XFlash(p) \in Nat /\ Fit!Tokens(p) \in Nat /\ p.marginal \in Int
         /\ Fit!ALin(c, p) * Fit!XLin(p) \in Int
         /\ Fit!FlashResidual(c, p) \in Int
         /\ p.batch # 0 /\ p.seq # 0 => Fit!XFlash(p) # 0
<1>1. /\ p.batch \in Nat /\ p.seq \in Nat /\ p.marginal \in Int /\ p.gc \in BOOLEAN
      /\ p.arm \in {"kernel", "stock"}
  BY FitAssumption DEF Point
<1>2. /\ Heads \in Nat \ {0} /\ Width \in Nat /\ Saved \in Nat /\ LossKernel \in Nat
  BY FitAssumption
<1> DEFINE b == p.batch
           n == p.seq
<1>3. b \in Nat /\ n \in Nat
  BY <1>1
<1> HIDE DEF b, n
<1>4. b * n \in Nat /\ b * n * Width \in Nat /\ b * Heads * n \in Nat
  BY <1>2, <1>3
<1>5. b # 0 /\ n # 0 => b * Heads * n # 0
  <2> SUFFICES ASSUME b # 0, n # 0 PROVE b * Heads * n # 0
    OBVIOUS
  <2>1. b * Heads \in Nat \ {0}
    BY <1>2, <1>3
  <2> QED BY <1>3, <2>1
<1>6. Fit!XFlash(p) = b * Heads * n /\ Fit!Tokens(p) = b * n /\ Fit!XLin(p) = b * n * Width
  BY DEF Fit!XFlash, Fit!Tokens, Fit!XLin, b, n
<1>7. Fit!ALin(c, p) \in Int /\ c.base \in Int
  BY DEF Fit!ALin, CoeffsOK
<1>8. Fit!ALin(c, p) * Fit!XLin(p) \in Int
  BY <1>4, <1>6, <1>7
<1>9. LossKernel * Fit!Tokens(p) \in Int /\ Saved * Fit!Tokens(p) \in Int
  BY <1>2, <1>4, <1>6
<1>10. Fit!FlashResidual(c, p) \in Int
  BY <1>1, <1>7, <1>8, <1>9 DEF Fit!FlashResidual
<1> QED BY <1>1, <1>4, <1>5, <1>6, <1>8, <1>10 DEF b, n

\* The points of an side.
LEMMA ArmFacts ==
  ASSUME NEW man \in Manifests, NEW side \in {"kernel", "stock"}
  PROVE  LET points == Fit!ArmPoints(man.flash, side)
         IN  /\ IsFiniteSet(points) /\ points \subseteq man.flash
             /\ ~Fit!Unsolvable(man) /\ points # {} => \E p \in points : Fit!XFlash(p) # 0
<1> DEFINE points == Fit!ArmPoints(man.flash, side)
<1>1. IsFiniteSet(man.flash) /\ points \in SUBSET man.flash
  BY FitAssumption DEF Fit!ArmPoints
<1>2. IsFiniteSet(points)
  BY <1>1, FS_Subset
<1>3. ~Fit!Unsolvable(man) /\ points # {} => \E p \in points : Fit!XFlash(p) # 0
  BY DEF Fit!Unsolvable, Fit!BothArms
<1> QED BY <1>1, <1>2, <1>3

\* The slope of an side, fitted by least squares.
LEMMA OlsSlope ==
  ASSUME NEW man \in Manifests, NEW c, CoeffsOK(c), ~Fit!Unsolvable(man),
         NEW side \in {"kernel", "stock"}, NEW prior, prior[2] \in Nat \ {0}
  PROVE  Fit!FitFlashArm(c, Fit!ArmPoints(man.flash, side), "ols", prior)[2] \in Nat \ {0}
<1> DEFINE points == Fit!ArmPoints(man.flash, side)
<1>1. CASE points = {}
  BY <1>1 DEF Fit!FitFlashArm
<1>2. CASE points # {}
  <2>1. /\ IsFiniteSet(points) /\ \A p \in points : p \in man.flash
        /\ \E p \in points : Fit!XFlash(p) # 0
    BY <1>2, ArmFacts
  <2>2. \A p \in points : Fit!XFlash(p) \in Nat
    BY <2>1, PointFacts
  <2> HIDE DEF points
  <2>3. Fit!Ols(c, points)[2] \in Nat \ {0}
    BY <2>1, <2>2, SumOfSquares
  <2>4. Fit!FitFlashArm(c, points, "ols", prior) = Fit!Ols(c, points)
    BY <1>2 DEF Fit!FitFlashArm
  <2> QED BY <2>3, <2>4 DEF points
<1> QED BY <1>1, <1>2

\* The slope of an side whose points are none of them empty, as the envelope: no point of
\* the side lies above it.
LEMMA EnvelopeSlope ==
  ASSUME NEW man \in Manifests, NEW c, CoeffsOK(c), NEW side \in {"kernel", "stock"},
         NEW prior, prior[2] \in Nat \ {0},
         \A p \in man.flash : p.batch # 0 /\ p.seq # 0
  PROVE  LET points == Fit!ArmPoints(man.flash, side)
             slope == Fit!FitFlashArm(c, points, "envelope", prior)
         IN  /\ slope[2] \in Nat \ {0}
             /\ points # {} => slope[1] \in Int
             /\ \A p \in points :
                  Fit!FlashResidual(c, p) * slope[2] <= slope[1] * Fit!XFlash(p)
<1> DEFINE points == Fit!ArmPoints(man.flash, side)
           slope == Fit!FitFlashArm(c, points, "envelope", prior)
<1>1. CASE points = {}
  BY <1>1 DEF Fit!FitFlashArm
<1>2. CASE points # {}
  <2>1. IsFiniteSet(points) /\ \A p \in points : p \in man.flash
    BY ArmFacts
  <2>2. \A p \in points : Fit!XFlash(p) \in Nat \ {0} /\ Fit!FlashResidual(c, p) \in Int
    BY <2>1, PointFacts
  <2>3. slope = Fit!Envelope(c, points)
    BY <1>2 DEF Fit!FitFlashArm
  <2> HIDE DEF points, slope
  <2> DEFINE Ratio(p) == <<Fit!FlashResidual(c, p), Fit!XFlash(p)>>
             q == CHOOSE p \in points : \A r \in points : Fit!LessEq(Ratio(r), Ratio(p))
  <2>4. Fit!Envelope(c, points) = Ratio(q)
    BY DEF Fit!Envelope
  <2>5. \E p \in points : \A r \in points : Fit!LessEq(Ratio(r), Ratio(p))
    BY <1>2, <2>1, <2>2, LargestRatio
  <2>6. q \in points /\ \A r \in points : Fit!LessEq(Ratio(r), Ratio(q))
    BY <2>5
  <2> HIDE DEF q
  <2>7. slope[1] = Fit!FlashResidual(c, q) /\ slope[2] = Fit!XFlash(q)
    BY <2>3, <2>4
  <2>8. \A p \in points : Fit!FlashResidual(c, p) * slope[2] <= slope[1] * Fit!XFlash(p)
    BY <2>6, <2>7 DEF Fit!LessEq
  <2>9. slope[1] \in Int /\ slope[2] \in Nat \ {0}
    BY <2>2, <2>6, <2>7
  <2> QED BY <2>8, <2>9 DEF points, slope
<1> QED BY <1>1, <1>2

\* The fields of a fit.
LEMMA FitFields ==
  ASSUME NEW man \in Manifests, NEW c, CoeffsOK(c), ~Fit!Unsolvable(man), NEW how
  PROVE  LET f == Fit!FitMemoryCoeffs(man, c, how)
         IN  /\ DOMAIN f = Fit!Coefficients
             /\ f.base \in Int /\ f.ckpt \in Int /\ f.full \in Int /\ f.quad \in Int
             /\ man.stock = Fit!NoPlane => f.base = c.base /\ f.ckpt = c.ckpt /\ f.quad = c.quad
             /\ ~man.gc_off => f.full = c.full
             /\ f.flash_kernel = Fit!FitFlashArm(c, Fit!ArmPoints(man.flash, "kernel"), how,
                                                 c.flash_kernel)
             /\ f.flash_stock = Fit!FitFlashArm(c, Fit!ArmPoints(man.flash, "stock"), how,
                                                c.flash_stock)
<1> DEFINE plane == IF man.stock = Fit!NoPlane THEN c ELSE man.stock
           k == Fit!FitFlashArm(c, Fit!ArmPoints(man.flash, "kernel"), how, c.flash_kernel)
           s == Fit!FitFlashArm(c, Fit!ArmPoints(man.flash, "stock"), how, c.flash_stock)
           full == IF man.gc_off THEN plane.full ELSE c.full
           f == [base |-> plane.base, ckpt |-> plane.ckpt, quad |-> plane.quad,
                 full |-> full, flash_kernel |-> k, flash_stock |-> s]
<1>1. Fit!FitMemoryCoeffs(man, c, how) = f
  BY DEF Fit!FitMemoryCoeffs
<1>2. man.stock # Fit!NoPlane => man.stock \in Planes
  BY FitAssumption DEF Fit!Unsolvable
<1>3. plane.base \in Int /\ plane.ckpt \in Int /\ plane.full \in Int /\ plane.quad \in Int
  BY <1>2, FitAssumption DEF CoeffsOK
<1>4. full \in Int /\ (~man.gc_off => full = c.full)
  BY <1>3 DEF CoeffsOK
<1>5. man.stock = Fit!NoPlane => plane = c
  OBVIOUS
<1> HIDE DEF plane, full, k, s
<1>6. DOMAIN f = Fit!Coefficients
  BY DEF Fit!Coefficients
<1>7. /\ f.base = plane.base /\ f.ckpt = plane.ckpt /\ f.quad = plane.quad
      /\ f.full = full /\ f.flash_kernel = k /\ f.flash_stock = s
  OBVIOUS
<1> HIDE DEF f
<1> QED BY <1>1, <1>3, <1>4, <1>5, <1>6, <1>7 DEF k, s

LEMMA OlsIsOK ==
  ASSUME NEW man \in Manifests, NEW c, CoeffsOK(c), ~Fit!Unsolvable(man)
  PROVE  CoeffsOK(Fit!FitMemoryCoeffs(man, c, "ols"))
<1>1. c.flash_kernel[2] \in Nat \ {0} /\ c.flash_stock[2] \in Nat \ {0}
  BY DEF CoeffsOK
<1>2. /\ Fit!FitFlashArm(c, Fit!ArmPoints(man.flash, "kernel"), "ols", c.flash_kernel)[2]
           \in Nat \ {0}
      /\ Fit!FitFlashArm(c, Fit!ArmPoints(man.flash, "stock"), "ols", c.flash_stock)[2]
           \in Nat \ {0}
  BY <1>1, OlsSlope
<1> DEFINE f == Fit!FitMemoryCoeffs(man, c, "ols")
<1>3. /\ DOMAIN f = Fit!Coefficients
      /\ f.base \in Int /\ f.ckpt \in Int /\ f.full \in Int /\ f.quad \in Int
      /\ f.flash_kernel = Fit!FitFlashArm(c, Fit!ArmPoints(man.flash, "kernel"), "ols",
                                          c.flash_kernel)
      /\ f.flash_stock = Fit!FitFlashArm(c, Fit!ArmPoints(man.flash, "stock"), "ols",
                                         c.flash_stock)
  BY FitFields
<1> HIDE DEF f
<1>4. CoeffsOK(f)
  BY <1>2, <1>3 DEF CoeffsOK
<1> QED BY <1>4 DEF f

\* An envelope over points none of which is empty covers the points of a flash-only fit.
LEMMA EnvelopeIsOK ==
  ASSUME NEW man \in Manifests, NEW c, CoeffsOK(c), ~Fit!Unsolvable(man),
         \A p \in man.flash : p.batch # 0 /\ p.seq # 0
  PROVE  LET f == Fit!FitMemoryCoeffs(man, c, "envelope")
         IN  /\ CoeffsOK(f)
             /\ man.stock = Fit!NoPlane /\ ~man.gc_off => Fit!OneSided(f, man.flash)
<1> DEFINE f == Fit!FitMemoryCoeffs(man, c, "envelope")
           Slope(side, prior) ==
             Fit!FitFlashArm(c, Fit!ArmPoints(man.flash, side), "envelope", prior)
<1>1. c.flash_kernel[2] \in Nat \ {0} /\ c.flash_stock[2] \in Nat \ {0}
  BY DEF CoeffsOK
<1>2. /\ Slope("kernel", c.flash_kernel)[2] \in Nat \ {0}
      /\ Slope("stock", c.flash_stock)[2] \in Nat \ {0}
  BY <1>1, EnvelopeSlope
<1>3. /\ DOMAIN f = Fit!Coefficients
      /\ f.base \in Int /\ f.ckpt \in Int /\ f.full \in Int /\ f.quad \in Int
      /\ man.stock = Fit!NoPlane => f.base = c.base /\ f.ckpt = c.ckpt /\ f.quad = c.quad
      /\ ~man.gc_off => f.full = c.full
      /\ f.flash_kernel = Slope("kernel", c.flash_kernel)
      /\ f.flash_stock = Slope("stock", c.flash_stock)
  BY FitFields
<1>4. ASSUME NEW p \in man.flash, man.stock = Fit!NoPlane, ~man.gc_off
      PROVE  Fit!Covers(f, p)
  <2> DEFINE prior == IF p.arm = "kernel" THEN c.flash_kernel ELSE c.flash_stock
             s == Slope(p.arm, prior)
             resid == Fit!FlashResidual(c, p)
             x == Fit!XFlash(p)
             t == Fit!Tokens(p)
             loss == IF p.arm = "kernel" THEN LossKernel ELSE LossChunked
             lin == Fit!ALin(c, p) * Fit!XLin(p)
  <2>1. /\ p.arm \in {"kernel", "stock"} /\ x \in Nat /\ t \in Nat /\ p.marginal \in Int
        /\ lin \in Int /\ resid \in Int /\ c.base \in Int
    BY PointFacts DEF CoeffsOK
  <2>2. p \in Fit!ArmPoints(man.flash, p.arm) /\ prior[2] \in Nat \ {0}
    BY <1>1 DEF Fit!ArmPoints
  <2>3. s[2] \in Nat \ {0} /\ s[1] \in Int /\ resid * s[2] <= s[1] * x
    BY <2>1, <2>2, EnvelopeSlope
  <2>4. Fit!Flash(f, p) = s
    BY <1>3, <2>1 DEF Fit!Flash
  <2>5. Fit!ALin(f, p) = Fit!ALin(c, p) /\ f.base = c.base
    BY <1>3, <1>4 DEF Fit!ALin
  <2>6. /\ Fit!Covers(f, p) <=>
             (c.base + lin + Saved * t + loss * t - p.marginal) * s[2] + s[1] * x >= 0
        /\ resid = p.marginal - LossKernel * t - c.base - lin - Saved * t
    BY <2>4, <2>5 DEF Fit!Covers, Fit!Loss, Fit!FlashResidual
  <2> HIDE DEF s, resid, x, t, loss, lin
  <2> DEFINE more == loss * t - LossKernel * t
             room == c.base + lin + Saved * t + loss * t - p.marginal
  <2>7. /\ Saved * t \in Nat /\ loss * t \in Nat /\ LossKernel * t \in Nat
        /\ LossKernel * t <= loss * t
    <3>1. /\ Saved \in Nat /\ loss \in Nat /\ LossKernel \in Nat /\ LossKernel <= loss
      BY FitAssumption DEF loss
    <3> QED BY <2>1, <3>1, ProductGrows
  <2>8. more \in Nat /\ room \in Int /\ room = more - resid
    BY <2>1, <2>6, <2>7
  <2> HIDE DEF more, room
  <2>9. room * s[2] = more * s[2] - resid * s[2] /\ more * s[2] >= 0
        /\ resid * s[2] \in Int /\ more * s[2] \in Int /\ s[1] * x \in Int
    BY <2>1, <2>3, <2>8
  <2>10. room * s[2] + s[1] * x >= 0
    <3> DEFINE u == resid * s[2]
               v == more * s[2]
               w == s[1] * x
               z == room * s[2]
    <3>1. z = v - u /\ v >= 0 /\ u \in Int /\ v \in Int /\ w \in Int /\ u <= w
      BY <2>3, <2>9
    <3> HIDE DEF u, v, w, z
    <3>2. z + w >= 0
      BY <3>1
    <3> QED BY <3>2 DEF w, z
  <2> QED BY <2>6, <2>10 DEF room
<1>5. CoeffsOK(f)
  <2> HIDE DEF f, Slope
  <2> QED BY <1>2, <1>3 DEF CoeffsOK
<1> QED BY <1>4, <1>5 DEF Fit!OneSided

LEMMA RefitStarts == Fit!Init => RefitInv
<1> SUFFICES ASSUME Fit!Init PROVE RefitInv
  OBVIOUS
<1>1. CoeffsOK(FirstFile)
  <2>1. FirstFile \in [base : Int, ckpt : Int, full : Int, quad : Int,
                       flash_kernel : Fraction, flash_stock : Fraction]
    BY FitAssumption
  <2> HIDE DEF Fraction
  <2>2. /\ DOMAIN FirstFile = Fit!Coefficients
        /\ FirstFile.flash_kernel \in Fraction /\ FirstFile.flash_stock \in Fraction
        /\ FirstFile.base \in Int /\ FirstFile.ckpt \in Int /\ FirstFile.full \in Int
        /\ FirstFile.quad \in Int
    BY <2>1 DEF Fit!Coefficients
  <2>3. \A q \in Fraction : q[2] \in Nat \ {0}
    BY DEF Fraction
  <2> QED BY <2>2, <2>3 DEF CoeffsOK
<1> QED BY <1>1, FitAssumption DEF Fit!Init, RefitInv, RefitTypes

\* A step of the script: the invariant, and that what has no points keeps its value.
LEMMA RefitSteps ==
  ASSUME RefitInv, Fit!Next
  PROVE  RefitInv' /\ Fit!NoPointsNoChange
<1>1. ASSUME NEW man \in Manifests, Fit!LoadPoints(man)
      PROVE  RefitInv' /\ Fit!NoPointsNoChange
  <2>1. /\ m' = man /\ runs' = runs + 1 /\ runs < MaxRuns /\ old' = file.coeffs
        /\ mode' = "ols" /\ UNCHANGED <<file, scored>>
        /\ \/ fitPc' = "stopped" /\ UNCHANGED coeffs
           \/ /\ fitPc' = "check" /\ ~Fit!Unsolvable(man)
              /\ coeffs' = Fit!FitMemoryCoeffs(man, file.coeffs, "ols")
    BY <1>1 DEF Fit!LoadPoints
  <2>2. RefitTypes /\ CoeffsOK(file.coeffs)
    BY DEF RefitInv, RefitTypes
  <2>3. CoeffsOK(coeffs')
    BY <2>1, <2>2, OlsIsOK DEF RefitTypes
  <2>4. RefitTypes'
    BY <2>1, <2>2, <2>3, FitAssumption DEF RefitTypes, CoeffsOK
  <2>5. Fit!Unsolvable(m)' <=> Fit!Unsolvable(man)
    BY <2>1 DEF Fit!Unsolvable
  <2>6. Fit!FitMemoryCoeffs(m, old, mode)' = Fit!FitMemoryCoeffs(man, file.coeffs, "ols")
    BY <2>1 DEF Fit!FitMemoryCoeffs
  <2> QED BY <2>1, <2>4, <2>5, <2>6 DEF RefitInv, Fit!NoPointsNoChange
<1>2. CASE Fit!Check
  <2>1. /\ fitPc = "check" /\ UNCHANGED <<file, old, m, runs, scored>>
        /\ RefitTypes /\ old = file.coeffs /\ ~Fit!Unsolvable(m) /\ mode = "ols"
        /\ coeffs = Fit!FitMemoryCoeffs(m, old, "ols")
    <3>1. fitPc = "check" /\ UNCHANGED <<old, m, runs, scored, file>>
      BY <1>2 DEF Fit!Check, Fit!Stop
    <3>2. /\ RefitTypes /\ old = file.coeffs /\ ~Fit!Unsolvable(m) /\ mode = "ols"
          /\ coeffs = Fit!FitMemoryCoeffs(m, old, mode)
      BY <3>1 DEF RefitInv
    <3> QED BY <3>1, <3>2
  <2>2. /\ Fit!Unsolvable(m)' <=> Fit!Unsolvable(m)
        /\ Fit!NoPointsNoChange
    BY <2>1 DEF Fit!NoPointsNoChange, Fit!Unsolvable
  <2>3. CASE fitPc' = "stopped" /\ UNCHANGED <<coeffs, mode>>
    BY <2>1, <2>2, <2>3 DEF RefitInv, RefitTypes, CoeffsOK
  <2>4. CASE /\ fitPc' = "write" /\ UNCHANGED <<coeffs, mode>>
             /\ Fit!OneSided(coeffs, m.flash)
    <3>1. RefitTypes'
      BY <2>1, <2>4 DEF RefitTypes, CoeffsOK
    <3>2. Fit!FitMemoryCoeffs(m, old, mode)' = coeffs'
      BY <2>1, <2>4 DEF Fit!FitMemoryCoeffs
    <3>3. Fit!OneSided(coeffs, m.flash)'
      BY <2>1, <2>4 DEF Fit!OneSided
    <3> QED BY <2>1, <2>2, <2>4, <3>1, <3>2, <3>3 DEF RefitInv
  <2>5. CASE /\ fitPc' = "write" /\ mode' = "envelope"
             /\ coeffs' = Fit!FitMemoryCoeffs(m, old, "envelope")
             /\ \A p \in m.flash : p.batch # 0 /\ p.seq # 0
    <3>1. m \in Manifests /\ CoeffsOK(old)
      BY <2>1 DEF RefitTypes
    <3>2. CoeffsOK(coeffs') /\ (FlashOnly => Fit!OneSided(coeffs', m.flash))
      BY <2>1, <2>5, <3>1, EnvelopeIsOK DEF FlashOnly
    <3>3. RefitTypes'
      BY <2>1, <2>5, <3>2 DEF RefitTypes, CoeffsOK
    <3>4. Fit!FitMemoryCoeffs(m, old, mode)' = coeffs'
      BY <2>1, <2>5 DEF Fit!FitMemoryCoeffs
    <3>5. FlashOnly' => Fit!OneSided(coeffs, m.flash)'
      BY <2>1, <3>2 DEF FlashOnly, Fit!OneSided
    <3> QED BY <2>1, <2>2, <2>5, <3>3, <3>4, <3>5 DEF RefitInv
  <2>6. ASSUME NEW p \in m.flash, Fit!XFlash(p) # 0 PROVE p.batch # 0 /\ p.seq # 0
    <3>1. p.batch \in Nat /\ p.seq \in Nat /\ Heads \in Nat
      BY <2>1, FitAssumption DEF RefitTypes, Point
    <3>2. p.batch * Heads \in Nat
      BY <3>1
    <3>3. p.batch = 0 => p.batch * Heads = 0
      BY <3>1
    <3> QED BY <2>6, <3>1, <3>2, <3>3 DEF Fit!XFlash
  <2> QED BY <1>2, <2>1, <2>3, <2>4, <2>5, <2>6 DEF Fit!Check, Fit!Stop, Fit!Candidate
<1>3. CASE Fit!Write
  <2>1. /\ fitPc = "write" /\ UNCHANGED <<old, m, coeffs, mode, runs, scored>>
        /\ RefitTypes /\ old = file.coeffs /\ ~Fit!Unsolvable(m)
        /\ coeffs = Fit!FitMemoryCoeffs(m, old, mode)
        /\ mode = "ols" \/ FlashOnly => Fit!OneSided(coeffs, m.flash)
    BY <1>3 DEF Fit!Write, RefitInv
  <2>2. CASE fitPc' = "stopped" /\ UNCHANGED file
    BY <2>1, <2>2 DEF RefitInv, RefitTypes, CoeffsOK, Fit!NoPointsNoChange
  <2>3. CASE /\ fitPc' = "written"
             /\ file' = [coeffs |-> coeffs, fit |-> mode, holdout |-> FALSE]
    <3>1. file'.coeffs = coeffs /\ file'.fit = mode /\ file'.holdout = FALSE
      BY <2>3
    <3>2. RefitTypes'
      BY <2>1, <2>3, <3>1 DEF RefitTypes, CoeffsOK
    <3>3. FlashOnly' <=> FlashOnly
      BY <2>1 DEF FlashOnly
    <3>4. file'.fit = "ols" \/ FlashOnly => Fit!OneSided(file.coeffs, m.flash)'
      BY <2>1, <3>1 DEF Fit!OneSided
    <3>5. Fit!NoPointsNoChange
      <4>1. m \in Manifests /\ CoeffsOK(old)
        BY <2>1 DEF RefitTypes
      <4> DEFINE Slope(side, prior) == Fit!FitFlashArm(old, Fit!ArmPoints(m.flash, side), mode, prior)
      <4>2. /\ m.stock = Fit!NoPlane =>
                 coeffs.base = old.base /\ coeffs.ckpt = old.ckpt /\ coeffs.quad = old.quad
            /\ ~m.gc_off => coeffs.full = old.full
            /\ coeffs.flash_kernel = Slope("kernel", old.flash_kernel)
            /\ coeffs.flash_stock = Slope("stock", old.flash_stock)
        BY <2>1, <4>1, FitFields
      <4>3. \A side, prior : (\A p \in m.flash : p.arm # side) => Slope(side, prior) = prior
        BY DEF Fit!FitFlashArm, Fit!ArmPoints
      <4> HIDE DEF Slope
      <4> QED BY <2>1, <3>1, <4>2, <4>3 DEF Fit!NoPointsNoChange, Fit!BothArms
    <3> QED BY <2>1, <2>3, <3>1, <3>2, <3>3, <3>4, <3>5 DEF RefitInv
  <2> QED BY <1>3, <2>2, <2>3 DEF Fit!Write, Fit!Written
<1>4. CASE Fit!Score
  <2>1. /\ fitPc \in {"idle", "written"} /\ file' = [file EXCEPT !.holdout = TRUE]
        /\ scored' = file.coeffs /\ UNCHANGED <<old, m, fitPc, coeffs, mode, runs>>
    BY <1>4 DEF Fit!Score
  <2>2. RefitTypes
    BY DEF RefitInv
  <2>3. /\ file'.coeffs = file.coeffs /\ file'.fit = file.fit /\ file'.holdout = TRUE
        /\ file' = [coeffs |-> file.coeffs, fit |-> file.fit, holdout |-> TRUE]
    BY <2>1, <2>2 DEF RefitTypes
  <2>4. RefitTypes'
    BY <2>1, <2>2, <2>3 DEF RefitTypes, CoeffsOK
  <2>5. Fit!OneSided(file.coeffs, m.flash)' <=> Fit!OneSided(file.coeffs, m.flash)
    BY <2>1, <2>3 DEF Fit!OneSided
  <2>6. FlashOnly' <=> FlashOnly
    BY <2>1 DEF FlashOnly
  <2> QED BY <2>1, <2>3, <2>4, <2>5, <2>6 DEF RefitInv, Fit!NoPointsNoChange
<1> QED BY <1>1, <1>2, <1>3, <1>4 DEF Fit!Next, Fit!Refit

LEMMA RefitHolds ==
  ASSUME RefitInv
  PROVE  /\ Fit!TypeOK /\ Fit!FlashRefitCoversItsAnchors /\ Fit!OlsCoversItsAnchors
         /\ Fit!HoldoutIsOfTheseCoefficients
<1>1. Fit!TypeOK
  <2>1. \A c : CoeffsOK(c) => /\ DOMAIN c = Fit!Coefficients
                              /\ \A f \in {"base", "ckpt", "full", "quad"} : c[f] \in Int
                              /\ c.flash_kernel[2] > 0 /\ c.flash_stock[2] > 0
    BY DEF CoeffsOK
  <2> QED BY <2>1 DEF RefitInv, RefitTypes, Fit!TypeOK
<1>2. Fit!FlashRefitCoversItsAnchors /\ Fit!OlsCoversItsAnchors
  BY DEF RefitInv, FlashOnly, Fit!FlashRefitCoversItsAnchors, Fit!OlsCoversItsAnchors
<1>3. Fit!HoldoutIsOfTheseCoefficients
  BY DEF RefitInv, Fit!HoldoutIsOfTheseCoefficients
<1> QED BY <1>1, <1>2, <1>3

-----------------------------------------------------------------------------
(* A part that stands still keeps its invariant. *)

LEMMA GuardStands == GuardInv /\ UNCHANGED guardVars => GuardInv'
<1> SUFFICES ASSUME GuardInv, UNCHANGED guardVars PROVE GuardInv'
  OBVIOUS
<1>1. UNCHANGED <<machine, others, phase, pre, ceiling, cautioned, used, wired, sampled, late,
                  blind, surged, missed>>
  BY DEF guardVars
<1>2. Guard!Read(machine.memory, Guard!Available)' = Guard!Read(machine.memory, Guard!Available)
  BY <1>1 DEF Guard!Read, Guard!Available
<1>3. GuardTypes'
  BY <1>1 DEF GuardInv, GuardTypes
<1>4. BeforeRun'
  BY <1>1, <1>2 DEF GuardInv, BeforeRun
<1>5. InRun'
  BY <1>1 DEF GuardInv, InRun, Ran
<1> QED BY <1>1, <1>3, <1>4, <1>5 DEF GuardInv

LEMMA HoldoutStands == HoldoutInv /\ UNCHANGED holdoutVars => HoldoutInv'
  BY DEF holdoutVars, HoldoutInv, FileInv, Holds, ScoredInv

LEMMA RefitStands == RefitInv /\ UNCHANGED fitVars => RefitInv'
<1> SUFFICES ASSUME RefitInv, UNCHANGED fitVars PROVE RefitInv'
  OBVIOUS
<1>1. UNCHANGED <<file, old, m, fitPc, coeffs, mode, runs, scored>>
  BY DEF fitVars
<1>2. RefitTypes'
  BY <1>1 DEF RefitInv, RefitTypes, CoeffsOK
<1>3. /\ Fit!Unsolvable(m)' <=> Fit!Unsolvable(m)
      /\ Fit!FitMemoryCoeffs(m, old, mode)' = Fit!FitMemoryCoeffs(m, old, mode)
      /\ Fit!OneSided(coeffs, m.flash)' <=> Fit!OneSided(coeffs, m.flash)
      /\ Fit!OneSided(file.coeffs, m.flash)' <=> Fit!OneSided(file.coeffs, m.flash)
      /\ FlashOnly' <=> FlashOnly
  BY <1>1 DEF Fit!Unsolvable, Fit!FitMemoryCoeffs, Fit!OneSided, FlashOnly
<1> QED BY <1>1, <1>2, <1>3 DEF RefitInv

LEMMA PlanStands == PlanInv /\ UNCHANGED planVars => PlanInv'
<1> SUFFICES ASSUME PlanInv, UNCHANGED planVars PROVE PlanInv'
  OBVIOUS
<1>1. UNCHANGED <<call, planPc, warned, cand, lo, hi, result>>
  BY DEF planVars
<1>2. /\ CallOK' <=> CallOK
      /\ \A v : Plan!Vary(v)' = Plan!Vary(v)
      /\ Plan!First' = Plan!First
      /\ \A c : Plan!FitsBudget(c)' <=> Plan!FitsBudget(c)
      /\ \A c : WarnedBy(c)' = WarnedBy(c)
      /\ \A c : OnTheWalk(c)' <=> OnTheWalk(c)
  BY <1>1, CallStands
<1>3. /\ Plan!ValidateCfg(Plan!First)' = Plan!ValidateCfg(Plan!First)
      /\ Plan!TermError(Plan!First)' = Plan!TermError(Plan!First)
  BY <1>2 DEF Plan!ValidateCfg, Plan!TermError
<1>4. PlanTypes'
  BY <1>1, <1>2 DEF PlanInv, PlanTypes
<1>5. PlaceInv'
  BY <1>1, <1>2, <1>3, SMTT(30) DEF PlanInv, PlaceInv
<1>6. Plan!SuggestionIsClose' <=> Plan!SuggestionIsClose
  BY <1>1, <1>2 DEF Plan!SuggestionIsClose
<1>7. AnswerInv'
  BY <1>1, <1>2, <1>3, <1>6 DEF PlanInv, AnswerInv
<1> QED BY <1>4, <1>5, <1>7 DEF PlanInv

LEMMA CommandStands == CommandInv /\ UNCHANGED <<planVars, commandVars>> => CommandInv'
<1> SUFFICES ASSUME CommandInv, UNCHANGED <<planVars, commandVars>> PROVE CommandInv'
  OBVIOUS
<1>1. UNCHANGED <<call, planPc, warned, cand, lo, hi, result, argv, stage, raised, shown,
                  report, code>>
  BY DEF planVars, commandVars
<1>2. stage \in {"first", "second"} => PlanInv'
  BY PlanStands DEF CommandInv
<1>3. \A c : Plan!FitsBudget(c)' <=> Plan!FitsBudget(c)
  BY <1>1, CallStands
<1>4. Plan!ValidateCfg(Plan!First)' = Plan!ValidateCfg(Plan!First)
  BY <1>1, CallStands DEF Plan!ValidateCfg
<1>5. /\ FromArgv' <=> FromArgv
      /\ NothingShown' <=> NothingShown
      /\ Top' = Top /\ Notes' = Notes
  BY <1>1 DEF FromArgv, NothingShown, Top, Notes
<1>6. AtTheEdge(call.cfg)' <=> AtTheEdge(call.cfg)
  BY <1>1, <1>3 DEF AtTheEdge, Top
<1>7. /\ Plan!PrintedIsTheEdge' <=> Plan!PrintedIsTheEdge
      /\ Plan!VerdictInTheCode' <=> Plan!VerdictInTheCode
      /\ Plan!OneWarningLine' <=> Plan!OneWarningLine
  BY <1>1, <1>3 DEF Plan!PrintedIsTheEdge, Plan!VerdictInTheCode, Plan!OneWarningLine
<1> QED BY <1>1, <1>2, <1>4, <1>5, <1>6, <1>7 DEF CommandInv

-----------------------------------------------------------------------------
(* The sweep whose probes may fail: the proofs about any sweep, of this one. *)

FlakyProofs ==
  INSTANCE ContextSweepProofs WITH
    Arms <- 1, Start <- 5, Granularity <- 4, Ceiling <- 50, Attempts <- 3,
    Limits <- {3, 6, 9, 13, 21, 30, 39, 60}, Flakes <- 2, Invocations <- 3,
    limit <- fLimit, disk <- fDisk, pc <- fPc, arm <- fArm, step <- fStep, low <- fLow,
    high <- fHigh, seq <- fSeq, attempt <- fAttempt, results <- fResults,
    flakes <- fFlakes, invocation <- fInvocation

FlakyInv ==
  /\ FlakyProofs!Base /\ FlakyProofs!FitInv /\ FlakyProofs!EvidenceInv
  /\ FlakyProofs!GapInv /\ FlakyProofs!PublishedMaxFits /\ FlakyProofs!NoEndMeansCeiling

LEMMA FlakyIsASweep == FlakyProofs!SweepAssumption
  BY DEF FlakyProofs!SweepAssumption

LEMMA FlakyStarts == Flaky!Init => FlakyInv
<1>1. Flaky!Init => FlakyProofs!Init
  BY DEF Flaky!Init, FlakyProofs!Init, Flaky!Arm, FlakyProofs!Arm, Flaky!Length,
     FlakyProofs!Length, Flaky!Fresh, FlakyProofs!Fresh, Flaky!Unpublished,
     FlakyProofs!Unpublished, Flaky!Result, FlakyProofs!Result
<1>2. FlakyProofs!Init => FlakyProofs!GapInv
  BY FlakyIsASweep, FlakyProofs!GapInit
<1> QED BY <1>1, <1>2, FlakyIsASweep, FlakyProofs!BaseInit, FlakyProofs!FitInit,
           FlakyProofs!EvidenceInit, FlakyProofs!MaxFitsInit, FlakyProofs!CeilingInit
        DEF FlakyInv

LEMMA FlakySteps ==
  FlakyInv /\ [FlakyProofs!Next]_(FlakyProofs!vars) => FlakyInv' /\ FlakyProofs!FittingKept
  BY FlakyIsASweep, FlakyProofs!BaseStep, FlakyProofs!FitStep, FlakyProofs!EvidenceStep,
     FlakyProofs!GapStep, FlakyProofs!MaxFitsStep, FlakyProofs!CeilingStep,
     FlakyProofs!FittingStaysKept DEF FlakyInv

\* Its steps are the steps of the instance in the suite.
LEMMA FlakyIsTheSuites ==
  [Flaky!Next]_flakyVars => [FlakyProofs!Next]_(FlakyProofs!vars)
<1>1. /\ FlakyProofs!FindRecord <=> Flaky!FindRecord
      /\ FlakyProofs!LaunchProbe <=> Flaky!LaunchProbe
  BY DEF FlakyProofs!FindRecord, Flaky!FindRecord, FlakyProofs!LaunchProbe, Flaky!LaunchProbe,
     FlakyProofs!Look, Flaky!Look, FlakyProofs!search, Flaky!search
<1>2. /\ FlakyProofs!WorkerAnswers <=> Flaky!WorkerAnswers
      /\ FlakyProofs!WorkerFlakes <=> Flaky!WorkerFlakes
      /\ FlakyProofs!RefusedAgain <=> Flaky!RefusedAgain
      /\ FlakyProofs!ArmRefused <=> Flaky!ArmRefused
  BY DEF FlakyProofs!WorkerAnswers, Flaky!WorkerAnswers, FlakyProofs!WorkerFlakes,
     Flaky!WorkerFlakes, FlakyProofs!RefusedAgain, Flaky!RefusedAgain,
     FlakyProofs!ArmRefused, Flaky!ArmRefused, FlakyProofs!Answer, Flaky!Answer,
     FlakyProofs!Publish, Flaky!Publish, FlakyProofs!Unpublished, Flaky!Unpublished,
     FlakyProofs!Result, Flaky!Result, FlakyProofs!search, Flaky!search
<1>3. /\ FlakyProofs!StartFails <=> Flaky!StartFails
      /\ FlakyProofs!DoubleFits <=> Flaky!DoubleFits
      /\ FlakyProofs!DoubleFails <=> Flaky!DoubleFails
      /\ FlakyProofs!MidFits <=> Flaky!MidFits
      /\ FlakyProofs!MidFails <=> Flaky!MidFails
  BY DEF FlakyProofs!StartFails, Flaky!StartFails, FlakyProofs!DoubleFits, Flaky!DoubleFits,
     FlakyProofs!DoubleFails, Flaky!DoubleFails, FlakyProofs!MidFits, Flaky!MidFits,
     FlakyProofs!MidFails, Flaky!MidFails, FlakyProofs!Judge, Flaky!Judge,
     FlakyProofs!Publish, Flaky!Publish, FlakyProofs!DoubleOn, Flaky!DoubleOn,
     FlakyProofs!NarrowOn, Flaky!NarrowOn, FlakyProofs!Mid, Flaky!Mid, FlakyProofs!Probe,
     Flaky!Probe, FlakyProofs!Result, Flaky!Result
<1>4. FlakyProofs!Rerun <=> Flaky!Rerun
  BY DEF FlakyProofs!Rerun, Flaky!Rerun, FlakyProofs!Fresh, Flaky!Fresh, FlakyProofs!Arm,
     Flaky!Arm, FlakyProofs!Unpublished, Flaky!Unpublished, FlakyProofs!Result,
     Flaky!Result
<1>5. UNCHANGED flakyVars => UNCHANGED FlakyProofs!vars
  BY DEF FlakyProofs!vars, FlakyProofs!search, flakyVars
<1> QED BY <1>1, <1>2, <1>3, <1>4, <1>5
        DEF FlakyProofs!Next, Flaky!Next, FlakyProofs!Sweep, Flaky!Sweep

LEMMA FlakyHolds ==
  ASSUME FlakyInv
  PROVE  /\ Flaky!TypeOK /\ Flaky!PublishedMaxFits /\ Flaky!VerdictsHaveEvidence
         /\ Flaky!GapIsBounded /\ Flaky!NoEndMeansCeiling
<1>1. FlakyProofs!TypeOK /\ FlakyProofs!VerdictsHaveEvidence /\ FlakyProofs!GapIsBounded
  BY FlakyIsASweep, FlakyProofs!GapHolds DEF FlakyInv, FlakyProofs!Base, FlakyProofs!EvidenceInv
<1>2. FlakyProofs!TypeOK <=> Flaky!TypeOK
  BY DEF FlakyProofs!TypeOK, Flaky!TypeOK, FlakyProofs!Arm, Flaky!Arm, FlakyProofs!Length,
     Flaky!Length, FlakyProofs!Status, Flaky!Status, FlakyProofs!Published, Flaky!Published
<1>3. /\ FlakyProofs!VerdictsHaveEvidence <=> Flaky!VerdictsHaveEvidence
      /\ FlakyProofs!GapIsBounded <=> Flaky!GapIsBounded
      /\ FlakyProofs!PublishedMaxFits <=> Flaky!PublishedMaxFits
      /\ FlakyProofs!NoEndMeansCeiling <=> Flaky!NoEndMeansCeiling
  BY DEF FlakyProofs!VerdictsHaveEvidence, Flaky!VerdictsHaveEvidence,
     FlakyProofs!GapIsBounded, Flaky!GapIsBounded, FlakyProofs!PublishedMaxFits,
     Flaky!PublishedMaxFits, FlakyProofs!NoEndMeansCeiling, Flaky!NoEndMeansCeiling,
     FlakyProofs!Known, Flaky!Known, FlakyProofs!Arm, Flaky!Arm
<1> QED BY <1>1, <1>2, <1>3 DEF FlakyInv

-----------------------------------------------------------------------------
(* The suite: one part runs, the others rest. *)

SweepInv == Base /\ FitInv /\ EvidenceInv /\ (Flakes = 0 => FailInv /\ PublishedBracket)

SuiteInv ==
  /\ part \in Parts
  /\ part = "sweep" => SweepInv
  /\ part = "flaky" => FlakyInv
  /\ part = "guard" => GuardInv
  /\ part = "plan" => PlanInv /\ call \in Plan!Calls
  /\ part = "command" => CommandInv
  /\ part = "fit" => RefitInv
  /\ part = "holdout" => HoldoutInv

LEMMA SweepStarts == Init => SweepInv
  BY BaseInit, FitInit, EvidenceInit, FailInit, BracketInit DEF SweepInv

LEMMA SweepSteps == SweepInv /\ [Next]_vars => SweepInv' /\ FittingKept
<1> SUFFICES ASSUME SweepInv, [Next]_vars PROVE SweepInv' /\ FittingKept
  OBVIOUS
<1>1. Base' /\ FitInv' /\ EvidenceInv' /\ FittingKept
  BY BaseStep, FitStep, EvidenceStep, FittingStaysKept DEF SweepInv
<1>2. ASSUME Flakes = 0 PROVE FailInv' /\ PublishedBracket'
  BY <1>2, FailStep, BracketKept DEF SweepInv, FlawlessInv
<1> QED BY <1>1, <1>2 DEF SweepInv

LEMMA SuiteStarts == SuiteInit => SuiteInv
<1> SUFFICES ASSUME SuiteInit PROVE SuiteInv
  OBVIOUS
<1>1. Plan!Init => call \in Plan!Calls
  BY DEF Plan!Init
<1> QED BY <1>1, SweepStarts, FlakyStarts, GuardStarts, PlanStarts, CommandStarts, RefitStarts,
           HoldoutStarts DEF SuiteInit, SuiteInv, Parts

LEMMA PartsTakeTurns ==
  ASSUME part \in Parts, [SuiteNext]_suiteVars
  PROVE  /\ part' = part
         /\ part = "sweep" => [Next]_vars
         /\ part = "flaky" => [Flaky!Next]_flakyVars
         /\ part = "guard" => [Guard!Next]_guardVars
         /\ part = "plan" => [Plan!Next]_planVars
         /\ part = "command" => [Plan!CNext]_<<planVars, commandVars>>
         /\ part = "fit" => [Fit!Next]_fitVars
         /\ part = "holdout" => [Predictions!Next]_holdoutVars
<1>1. CASE UNCHANGED suiteVars
  BY <1>1 DEF suiteVars, sweepVars
<1>2. CASE SuiteNext
  BY <1>2 DEF SuiteNext, In, StillBut
<1> QED BY <1>1, <1>2

\* A step keeps the invariant, and takes back nothing.
LEMMA SuiteSteps ==
  ASSUME SuiteInv, [SuiteNext]_suiteVars
  PROVE  /\ SuiteInv'
         /\ part = "sweep" => FittingKept
         /\ part = "flaky" => Flaky!FittingKept
<1>1. part \in Parts /\ part' = part
  BY PartsTakeTurns DEF SuiteInv
<1>2. CASE part = "sweep"
  BY <1>1, <1>2, PartsTakeTurns, SweepSteps DEF SuiteInv
<1>3. CASE part = "flaky"
  <2>1. FlakyInv' /\ FlakyProofs!FittingKept
    BY <1>1, <1>3, FlakyIsTheSuites, PartsTakeTurns, FlakySteps DEF SuiteInv
  <2>2. Flaky!FittingKept
    BY <2>1 DEF FlakyProofs!FittingKept, Flaky!FittingKept, FlakyProofs!Arm, Flaky!Arm,
       FlakyProofs!Length, Flaky!Length
  <2> QED BY <1>1, <1>3, <2>1, <2>2 DEF SuiteInv
<1>4. CASE part = "guard"
  BY <1>1, <1>4, PartsTakeTurns, GuardSteps, GuardStands DEF SuiteInv
<1>5. CASE part = "plan"
  <2>1. PlanInv'
    BY <1>1, <1>5, PartsTakeTurns, PlanSteps, PlanStands DEF SuiteInv
  <2>2. call' = call
    <3>1. Plan!Next => call' = call
      BY DEF Plan!Next, Plan!Enter, Plan!Warn, Plan!Price, Plan!Suggest, Plan!Ends,
         Plan!Bisect, Plan!Return, Plan!vars
    <3> QED BY <1>1, <1>5, <3>1, PartsTakeTurns DEF planVars
  <2>3. call' \in Plan!Calls
    BY <1>5, <2>2 DEF SuiteInv
  <2>4. (call \in Plan!Calls)'
    BY <2>3 DEF Plan!Calls
  <2> QED BY <1>1, <1>5, <2>1, <2>4 DEF SuiteInv
<1>6. CASE part = "command"
  BY <1>1, <1>6, PartsTakeTurns, CommandSteps, CommandStands DEF SuiteInv
<1>7. CASE part = "fit"
  BY <1>1, <1>7, PartsTakeTurns, RefitSteps, RefitStands DEF SuiteInv
<1>8. CASE part = "holdout"
  BY <1>1, <1>8, PartsTakeTurns, HoldoutSteps, HoldoutStands DEF SuiteInv
<1> QED BY <1>1, <1>2, <1>3, <1>4, <1>5, <1>6, <1>7, <1>8 DEF Parts

LEMMA SuiteInvariant == SuiteSpec => []SuiteInv
<1>1. SuiteInv /\ [SuiteNext]_suiteVars => SuiteInv'
  BY SuiteSteps
<1> QED BY <1>1, SuiteStarts, PTL DEF SuiteSpec

-----------------------------------------------------------------------------
(* What holds on every machine, for every model, manifest and prediction. *)

\* northstar_context_sweep.py:198-228: when nothing but the length makes a probe fail,
\* the limit of an arm stays in the bracket and between the published lengths, and
\* whatever fails beside it, what is published as fitting fits and was recorded so.
THEOREM SweepsAreSound == Flakes = 0 /\ SuiteSpec => []SweepIsSound
<1>1. SUFFICES ASSUME Flakes = 0 PROVE SuiteSpec => []SweepIsSound
  OBVIOUS
<1>2. SuiteInv => SweepIsSound
  <2> SUFFICES ASSUME SuiteInv PROVE SweepIsSound
    OBVIOUS
  <2>1. CASE part = "sweep"
    <3>1. FlawlessInv /\ PublishedBracket /\ VerdictsHaveEvidence /\ TypeOK
      BY <1>1, <2>1 DEF SuiteInv, SweepInv, FlawlessInv, EvidenceInv, Base
    <3> QED BY <2>1, <3>1, LimitStaysInside DEF SweepIsSound
  <2>2. CASE part = "flaky"
    BY <2>2, FlakyHolds DEF SuiteInv, SweepIsSound
  <2> QED BY <2>1, <2>2 DEF SweepIsSound
<1> QED BY <1>2, SuiteInvariant, PTL

\* guards.py:18-21, :57-61: on a Mac of any size the watchdog fails a runaway run before
\* the run pages, the wired class stays inside the working set, and the ladder climbs.
THEOREM NoRunPages == SuiteSpec => []NoPagingOfItsOwn
<1>1. SuiteInv => NoPagingOfItsOwn
  BY GuardHolds, LadderAlwaysClimbs DEF SuiteInv, NoPagingOfItsOwn
<1> QED BY <1>1, SuiteInvariant, PTL

\* plan/inverse.py:68-69, estimate.py:459: whatever the model, the configuration, the
\* calibration and the budget, the planner's answer is the largest that fits and its
\* suggestion gives up little, because no price falls when a batch or a length grows.
THEOREM PlannerAnswersTheLargest == SuiteSpec => []PlanAnswersTheLargest
<1>1. SuiteInv => PlanAnswersTheLargest
  <2> SUFFICES ASSUME SuiteInv, part = "plan" PROVE PlanAnswersTheLargest
    BY DEF PlanAnswersTheLargest
  <2>1. PlanInv /\ call \in Plan!Calls
    BY DEF SuiteInv
  <2>2. Plan!TypeOK
    BY <2>1 DEF PlanInv, PlanTypes, Plan!TypeOK
  <2> QED BY <2>1, <2>2, PlanHolds DEF PlanAnswersTheLargest
<1> QED BY <1>1, SuiteInvariant, PTL

\* cli.py:193-194: of any command line the exit code is the verdict, the report of a
\* search is about the edge it found, and a warning is one line.
THEOREM ExitCodeIsTheVerdict == SuiteSpec => []CommandTellsTheVerdict
<1>1. SuiteInv => CommandTellsTheVerdict
  BY CommandHolds DEF SuiteInv, CommandTellsTheVerdict
<1> QED BY <1>1, SuiteInvariant, PTL

\* fit_calibration.py:131-138, :251-259: of any anchors, a flash-only refit and a shipped
\* least-squares fit say no less than any of them, and a score is of the coefficients.
THEOREM RefitsCoverTheirAnchors == SuiteSpec => []RefitCoversItsAnchors
<1>1. SuiteInv => RefitCoversItsAnchors
  BY RefitHolds DEF SuiteInv, RefitCoversItsAnchors
<1> QED BY <1>1, SuiteInvariant, PTL

\* holdout.py:8-11, :94-96: of any number of writers the one that returns is the one that
\* is scored, a score accounts for every label, and the recipe keeps its reserve.
THEOREM PredictionsStand == SuiteSpec => []PredictionsAreKept
<1>1. SuiteInv => PredictionsAreKept
  BY HoldoutHolds DEF SuiteInv, PredictionsAreKept
<1> QED BY <1>1, SuiteInvariant, PTL

\* contribute.py:514-527, holdout.py:8, fit_calibration.py: the worker meets what a clear
\* preflight showed, a length that trained is not trained again, a refit changes nothing
\* it has no points for, and a prediction is written once.
THEOREM WhatStandsIsNotTakenBack == SuiteSpec => NothingIsTakenBack
<1>1. SuiteInv /\ [SuiteNext]_suiteVars =>
        [/\ part = "guard" => Guard!NoSurpriseAfterPreflight
         /\ part = "sweep" => FittingKept
         /\ part = "flaky" => Flaky!FittingKept
         /\ part = "fit" => Fit!NoPointsNoChange
         /\ part = "holdout" => Predictions!WrittenOnce]_suiteVars
  <2> SUFFICES ASSUME SuiteInv, SuiteNext
               PROVE  /\ part = "guard" => Guard!NoSurpriseAfterPreflight
                      /\ part = "sweep" => FittingKept
                      /\ part = "flaky" => Flaky!FittingKept
                      /\ part = "fit" => Fit!NoPointsNoChange
                      /\ part = "holdout" => Predictions!WrittenOnce
    OBVIOUS
  <2>1. /\ part = "guard" => GuardInv /\ Guard!Next
        /\ part = "fit" => RefitInv /\ Fit!Next
        /\ part = "holdout" => HoldoutInv /\ Predictions!Next
    BY DEF SuiteInv, SuiteNext, In
  <2>2. (part = "sweep" => FittingKept) /\ (part = "flaky" => Flaky!FittingKept)
    BY SuiteSteps
  <2> QED BY <2>1, <2>2, GuardKeepsItsWord, RefitSteps, HoldoutSteps
<1> QED BY <1>1, SuiteInvariant, PTL DEF SuiteSpec, NothingIsTakenBack
=============================================================================
