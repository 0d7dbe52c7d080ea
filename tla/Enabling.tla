------------------------------ MODULE Enabling ------------------------------
(***************************************************************************)
(* The two switches that rewrite a loaded mlx-lm model in place:           *)
(* enable_flash_attention (attention/wrapper.py) and                       *)
(* enable_gated_delta_training (recurrent/wrapper.py), called by a user in *)
(* any order with what else happens to a model between loading and         *)
(* training: freezing and sharding.                                        *)
(*                                                                         *)
(* A layer keeps what the switches read or must preserve: its kind, the    *)
(* module now installed as its attention, the keys frozen on that module   *)
(* and whether it is sharded.                                              *)
(***************************************************************************)
EXTENDS Naturals, FiniteSets, Sequences

CONSTANTS Depth, MaxEdits, MaxCalls

VARIABLES model,   \* what the configuration says, fixed
          layer,   \* the decoder layers
          call,    \* the layers an enabling call has still to rewrite
          last,    \* the last call that ended, and the layers it started from
          edits, calls

vars == <<model, layer, call, last, edits, calls>>

Layers == 1..Depth
Linear == {i \in Layers : layer[i].linear}

Flaws == {"none", "sliding", "mixed", "dropout", "headDim", "experts", "declared"}
Family == {"full", "qwen35", "qwen3_next"}
At == {"stock", "wrapper", "proxy"}
FrozenKeys == {"A_log", "bias"}

Quiet == [fn |-> "none", result |-> "ok", before |-> <<>>]
Idle == <<>>

----------------------------------------------------------------------------
(* What a caller does to the model *)

Edit(new) ==
  /\ call = Idle
  /\ edits < MaxEdits
  /\ edits' = edits + 1
  /\ layer' = new
  /\ last' = Quiet
  /\ UNCHANGED <<model, call, calls>>

\* model.freeze(): a linear layer's module freezes its own array leaves.
Freeze == Edit([i \in Layers |-> IF layer[i].linear
                                 THEN [layer[i] EXCEPT !.frozen = @ \cup {"A_log"}] ELSE layer[i]])

\* layer.freeze(keys=["bias"]): not strict, a key need not exist where it is frozen.
FreezeKey(i) == Edit([layer EXCEPT ![i].frozen = @ \cup {"bias"}])

\* Model.shard() assigns to whatever is installed as linear_attn.
Shard == Edit([i \in Layers |-> IF layer[i].linear
                                THEN [layer[i] EXCEPT !.sharded = TRUE] ELSE layer[i]])

----------------------------------------------------------------------------
(* enable_flash_attention *)

FlashRefused ==
  \/ model.family # "full"
  \/ model.flaw \in {"sliding", "mixed", "dropout", "headDim"}

Ended(fn, result) == last' = [fn |-> fn, result |-> result, before |-> layer]

Wrapped == [i \in Layers |-> [layer[i] EXCEPT !.at = "wrapper"]]

\* The checks come first, then every layer is replaced.  A call that names the shape
\* it will train at (hinted) then runs one forward to calibrate the kernels' rates,
\* which may refuse the dtype, the mlx version, the machine or the launch budget: the
\* call raises with every layer replaced.
EnableFlash(hinted) ==
  /\ call = Idle /\ calls < MaxCalls
  /\ calls' = calls + 1
  /\ \/ FlashRefused /\ Ended("flash", "refused") /\ UNCHANGED layer
     \/ ~FlashRefused /\ Ended("flash", "ok") /\ layer' = Wrapped
     \/ ~FlashRefused /\ hinted /\ Ended("flash", "uncalibrated") /\ layer' = Wrapped
  /\ UNCHANGED <<model, call, edits>>

----------------------------------------------------------------------------
(* enable_gated_delta_training *)

\* Mutated: a layer that is already a proxy is skipped, not refused.
SelectionSkips(i) ==
  \/ model.flaw = "declared" /\ i = Depth
  \/ layer[i].linear /\ layer[i].sharded

\* Layer i stops the selection: its declared kind disagrees with its own, it is a
\* proxy already, or it is sharded.
SelectionRefuses(i) ==
  \/ model.flaw = "declared" /\ i = Depth
  \/ layer[i].linear /\ (layer[i].at = "proxy" \/ layer[i].sharded)

DeltaRefused ==
  \/ model.family # "qwen35"
  \/ model.flaw = "experts"
  \/ \E i \in Layers : SelectionRefuses(i)
  \/ Linear = {}

Selected == [k \in 1..Cardinality(Linear) |->
               CHOOSE i \in Linear : Cardinality({j \in Linear : j < i}) = k - 1]

EnableDelta ==
  /\ call = Idle /\ calls < MaxCalls
  /\ calls' = calls + 1
  /\ IF DeltaRefused
     THEN Ended("delta", "refused") /\ UNCHANGED call
     ELSE call' = Selected /\ Ended("delta", "begun")
  /\ UNCHANGED <<model, layer, edits>>

\* The keys of the original that a proxy has an attribute for.
Carriable == {"A_log"}

\* Mutated: the freeze state of the original is not carried over.
ProxyThawed(l) == [l EXCEPT !.at = "proxy", !.frozen = {}]

Proxy(l) == [l EXCEPT !.at = "proxy"]

\* One layer of the loop that mutates the model; the proxy's constructor refuses a
\* frozen key it cannot carry, with the layers before it already replaced.
Replace ==
  /\ call # Idle
  /\ LET i == Head(call)
     IN  IF layer[i].frozen \subseteq Carriable
         THEN /\ layer' = [layer EXCEPT ![i] = Proxy(@)]
              /\ call' = Tail(call)
              /\ last' = [last EXCEPT !.result = IF Tail(call) = Idle THEN "ok" ELSE "begun"]
         ELSE /\ call' = Idle
              /\ last' = [last EXCEPT !.result = "uncarriable"]
              /\ UNCHANGED layer
  /\ UNCHANGED <<model, edits, calls>>

----------------------------------------------------------------------------

FlawsOf(family) == IF family = "full" THEN {"none", "sliding", "mixed", "dropout", "headDim"}
                   ELSE {"none", "experts", "declared"}

Init == /\ \E f \in Family : \E w \in FlawsOf(f) : model = [family |-> f, flaw |-> w]
        /\ \E kinds \in [Layers -> BOOLEAN] :
              /\ model.family = "full" => \A i \in Layers : ~kinds[i]
              /\ layer = [i \in Layers |-> [linear |-> kinds[i], at |-> "stock", frozen |-> {},
                                            sharded |-> FALSE]]
        /\ call = Idle
        /\ last = Quiet
        /\ edits = 0 /\ calls = 0

Next == \/ Freeze \/ Shard
        \/ \E i \in Layers : FreezeKey(i)
        \/ \E hinted \in BOOLEAN : EnableFlash(hinted)
        \/ EnableDelta \/ Replace

Spec == Init /\ [][Next]_vars

----------------------------------------------------------------------------
(* Properties *)

\* Types: a wrapper only replaces full attention and a proxy only a linear layer.
TypeOK ==
  /\ model.family \in Family /\ model.flaw \in Flaws
  /\ \A i \in Layers : /\ layer[i].at \in IF layer[i].linear THEN {"stock", "proxy"}
                                          ELSE {"stock", "wrapper"}
                       /\ layer[i].frozen \subseteq FrozenKeys
  /\ call = Idle \/ call \in {SubSeq(Selected, k, Len(Selected)) : k \in 1..Len(Selected)}
  /\ last.result \in {"ok", "refused", "uncalibrated", "uncarriable", "begun"}

\* The keys of layer i that the optimizer would update.
Trainable(i) == (IF layer[i].linear THEN {"A_log"} ELSE {}) \ layer[i].frozen

\* recurrent/wrapper.py:53-57: what the caller froze stays frozen, and what trained
\* goes on training, across any enabling call (a dropped freeze would land a parameter
\* in the saved adapter).
EnablingKeepsFreeze ==
  [][edits' = edits => \A i \in Layers : Trainable(i)' = Trainable(i)]_vars

\* A call whose checks refuse the model leaves every layer as it found it.  The
\* calibration after them and the proxies' constructors are no such checks.
CheckedRefusalsChangeNothing == last.result = "refused" => layer = last.before

\* Whatever calls were made, refused or cut short in any order: a model whose layers of
\* one kind run partly rewritten and partly not is one where a loop met a frozen key
\* that no proxy carries, and that key is still on a layer it did not reach.
OnlyAFrozenKeySplits ==
  call = Idle =>
    \A i, j \in Layers :
      layer[i].linear = layer[j].linear /\ layer[i].at # layer[j].at =>
        \E k \in Linear : layer[k].at = "stock" /\ ~(layer[k].frozen \subseteq Carriable)

\* recurrent/wrapper.py:324-326: the switch refuses rather than partially enabling,
\* and every refusal is raised before any layer is mutated (a second call excepted,
\* which finds the proxies of the first).
NeverPartlyEnabled ==
  (last.fn = "delta" /\ last.result \in {"refused", "uncarriable"}) => layer = last.before

\* Enabling that succeeded reached every linear layer, each exactly once.
EnabledEverywhere ==
  (last.fn = "delta" /\ last.result = "ok") =>
     \A i \in Linear : layer[i].at = "proxy" /\ last.before[i].at = "stock"
=============================================================================
