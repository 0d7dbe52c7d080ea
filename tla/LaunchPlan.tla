------------------------------ MODULE LaunchPlan ------------------------------
(***************************************************************************)
(* The attention launch planner (attention/kernel/launch.py): each kernel  *)
(* chain of a step is split into query ranges so that no Metal command     *)
(* buffer projects more work than one budget, and the dispatches are then  *)
(* encoded by mlx, which packs them, and whatever else runs between them,  *)
(* into command buffers by a rule of its own.  Work is counted in MACs:    *)
(* Budget is MAX_DISPATCH_SECONDS times the calibrated rate.               *)
(***************************************************************************)
EXTENDS Integers, Sequences

CONSTANTS
  Chains,        \* kernel chains planned for one evaluation
  Shapes,        \* the shapes a chain may have
  Budget,        \* MACs one command buffer may project
  CommitElems,   \* _PACK_COMMIT_ELEMS
  CommitOps,     \* _PACK_COMMIT_OPS
  ForeignElems,  \* elements an operation of somebody else may add to a buffer
  Rounding       \* the square root of the closed form may round up

\* One chain: query rows, MACs of a (query, key) pair, elements of the tensors
\* every dispatch reads, elements per row of the outputs the caller keeps (0:
\* none are credited), the alignment of range ends, and the mask.
Shape == [rows : Nat \ {0}, pair : Nat \ {0}, live : Nat, out : Nat,
          align : Nat \ {0}, causal : BOOLEAN]

ASSUME LaunchAssumption ==
  /\ Chains \in Nat \ {0} /\ Shapes \subseteq Shape
  /\ Budget \in Nat /\ CommitElems \in Nat \ {0} /\ CommitOps \in Nat \ {0, 1}
  /\ ForeignElems \subseteq Nat /\ Rounding \in BOOLEAN

VARIABLES
  shape,    \* the shape of each chain
  pc,       \* "plan", "encode", "refused" or "done"
  chain,    \* the chain being planned
  row,      \* its first row not planned yet
  model,    \* the planner's model of the open command buffer
  plan,     \* the ranges of each chain
  encoded,  \* dispatches of each chain encoded so far
  real      \* mlx's open command buffer

vars == <<shape, pc, chain, row, model, plan, encoded, real>>

Chain == 1..Chains
Rows == {r \in [first : Nat, end : Nat] : r.first < r.end}    \* [first, end)
Buffer == [elems : Nat, ops : Nat, time : Nat]
Empty == [elems |-> 0, ops |-> 0, time |-> 0]

TypeOK ==
  /\ shape \in [Chain -> Shapes]
  /\ pc \in {"plan", "encode", "refused", "done"}
  /\ chain \in 1..(Chains + 1)
  /\ row \in Nat
  /\ chain \in Chain => row <= shape[chain].rows
  /\ model \in Buffer
  /\ plan \in [Chain -> Seq(Rows)]
  /\ encoded \in [Chain -> Nat]
  /\ \A c \in Chain : encoded[c] <= Len(plan[c])
  /\ real \in [elems : Nat, ops : Nat, time : Nat, reads : SUBSET Chain]

Init ==
  /\ shape \in [Chain -> Shapes]
  /\ pc = "plan" /\ chain = 1 /\ row = 0 /\ model = Empty
  /\ plan = [c \in Chain |-> <<>>]
  /\ encoded = [c \in Chain |-> 0]
  /\ real = [elems |-> 0, ops |-> 0, time |-> 0, reads |-> {}]

\* causal_pairs: row i attends to the i + 1 keys up to itself.
CausalPairs(r0, r1) == ((r1 - r0) * (r0 + r1 + 1)) \div 2

\* range_macs
Macs(s, r0, r1) ==
  s.pair * (IF s.causal THEN CausalPairs(r0, r1) ELSE (r1 - r0) * s.rows)

-----------------------------------------------------------------------------
(* The planner. *)

\* Mutated: an end is any row.
AnyEnd(s, r0, r1) == TRUE

\* Mutated: the last rows, too, are a whole number of blocks.
NoTail(s, r0, r1) == (r1 - r0) % s.align = 0

\* A range ends at a multiple of the alignment, or with the rows.
MayEndAt(s, r0, r1) == r1 = s.rows \/ (r1 - r0) % s.align = 0

\* Mutated: every range gets a budget of its own.
WholeBudget(s, r0, r1, left) ==
  /\ r1 \in (r0 + 1)..s.rows /\ MayEndAt(s, r0, r1) /\ Macs(s, r0, r1) <= Budget

\* The range [r0, r1) fits into what is left of the budget.
Fits(s, r0, r1, left) ==
  /\ r1 \in (r0 + 1)..s.rows /\ MayEndAt(s, r0, r1) /\ Macs(s, r0, r1) <= left

\* r1 is the furthest end that fits.
Widest(s, r0, r1, left) ==
  /\ Fits(s, r0, r1, left)
  /\ \A e \in (r1 + 1)..s.rows : ~Fits(s, r0, e, left)

\* Arithmetic is in floats: the square root accepts all the rows that are left
\* although they exceed the budget by less than a MAC, and the check that
\* catches it takes one block off, wherever the rows end.
OneBlockOff(s, r0, r1, left) ==
  /\ Rounding /\ s.causal
  /\ Macs(s, r0, s.rows) = left + 1
  /\ r1 = s.rows - s.align

\* _widest_within
MayPlan(s, r0, r1, left) == Widest(s, r0, r1, left) \/ OneBlockOff(s, r0, r1, left)

Full(b) == b.elems >= CommitElems \/ b.ops >= CommitOps

\* The modelled buffer after a dispatch of [r0, r1).
Loaded(s, b, r0, r1) ==
  [elems |-> (IF b.ops = 0 THEN s.live ELSE b.elems) + s.out * (r1 - r0),
   ops |-> b.ops + 1,
   time |-> b.time + Macs(s, r0, r1)]

PlanRange ==
  LET s == shape[chain]
  IN  /\ pc = "plan" /\ chain \in Chain /\ row < s.rows
      /\ \E r1 \in (row + 1)..s.rows :
           LET b == Loaded(s, model, row, r1)
           IN  /\ MayPlan(s, row, r1, Budget - model.time)
               /\ plan' = [plan EXCEPT ![chain] = Append(@, [first |-> row, end |-> r1])]
               /\ row' = r1
               /\ model' = IF Full(b) THEN Empty ELSE b
      /\ UNCHANGED <<shape, pc, chain, encoded, real>>

\* The plan of a chain is complete; the next call starts with nothing modelled.
PlanReturns ==
  /\ pc = "plan" /\ chain \in Chain /\ row = shape[chain].rows
  /\ chain' = chain + 1 /\ row' = 0 /\ model' = Empty
  /\ UNCHANGED <<shape, pc, plan, encoded, real>>

\* LaunchBudgetError: nothing is launched.
Refuse ==
  LET s == shape[chain]
  IN  /\ pc = "plan" /\ chain \in Chain /\ row < s.rows
      /\ \A r1 \in (row + 1)..s.rows : ~Fits(s, row, r1, Budget - model.time)
      /\ pc' = "refused"
      /\ UNCHANGED <<shape, chain, row, model, plan, encoded, real>>

\* Every chain of the graph is built: it is evaluated.
Evaluate ==
  /\ pc = "plan" /\ chain \notin Chain
  /\ pc' = "encode"
  /\ UNCHANGED <<shape, chain, row, model, plan, encoded, real>>

-----------------------------------------------------------------------------
(* mlx encodes the dispatches.  It counts each buffer of a command buffer    *)
(* once, and commits when a count is reached (or whenever it synchronises).  *)

EncodeDispatch(c) ==
  LET s == shape[c]
      r == plan[c][encoded[c] + 1]
      reads == IF c \in real.reads THEN 0 ELSE s.live
  IN  /\ pc = "encode" /\ ~Full(real)
      /\ encoded[c] < Len(plan[c])
      /\ encoded' = [encoded EXCEPT ![c] = @ + 1]
      /\ real' = [elems |-> real.elems + reads + s.out * (r.end - r.first),
                  ops |-> real.ops + 1,
                  time |-> real.time + Macs(s, r.first, r.end),
                  reads |-> real.reads \cup {c}]
      /\ UNCHANGED <<shape, pc, chain, row, model, plan>>

\* An operation between the dispatches: what it costs is not the planner's.
EncodeForeign ==
  /\ pc = "encode" /\ ~Full(real)
  /\ \E e \in ForeignElems :
       real' = [real EXCEPT !.elems = @ + e, !.ops = @ + 1]
  /\ UNCHANGED <<shape, pc, chain, row, model, plan, encoded>>

Commit ==
  /\ pc = "encode" /\ real.ops > 0
  /\ real' = [elems |-> 0, ops |-> 0, time |-> 0, reads |-> {}]
  /\ UNCHANGED <<shape, pc, chain, row, model, plan, encoded>>

Finish ==
  /\ pc = "encode" /\ real.ops = 0
  /\ \A c \in Chain : encoded[c] = Len(plan[c])
  /\ pc' = "done"
  /\ UNCHANGED <<shape, chain, row, model, plan, encoded, real>>

Stopped == pc \in {"refused", "done"} /\ UNCHANGED vars

PlanStep == PlanRange \/ PlanReturns \/ Refuse \/ Evaluate
EncodeStep == (\E c \in Chain : EncodeDispatch(c)) \/ EncodeForeign \/ Commit \/ Finish
Next == PlanStep \/ EncodeStep \/ Stopped

Spec == Init /\ [][Next]_vars

-----------------------------------------------------------------------------
(* Properties. *)

\* The promise of the guard, and why a split helps at all: no command buffer,
\* wherever mlx cuts them, holds more of a chain's work than the budget
\* (launch.py:91-105, plan_budgeted_ranges).
RealBufferWithinBudget == real.time <= Budget

\* Nothing is launched unless the ranges of every chain tile its rows, in
\* order, and every cut is aligned (launch.py:218, :243-245: a split never
\* bisects a query block, the chained bit-identity contract).
TilesEveryRow ==
  pc = "encode" =>
    \A c \in Chain :
      /\ plan[c] # <<>> /\ plan[c][1].first = 0 /\ plan[c][Len(plan[c])].end = shape[c].rows
      /\ \A i \in 1..(Len(plan[c]) - 1) :
           /\ plan[c][i].end = plan[c][i + 1].first
           /\ plan[c][i].end % shape[c].align = 0

\* launch.py:238-241: at small-footprint shapes, whose every dispatch may end
\* in one command buffer, "the whole chain is capped at one buffer budget".
SmallChainIsCapped ==
  pc = "encode" =>
    \A c \in Chain :
      LET s == shape[c]
      IN  s.live + s.out * s.rows < CommitElems => Macs(s, 0, s.rows) <= Budget

\* launch.py:238-239: where the unique inputs alone reach the threshold every
\* dispatch owns its buffer and the chain's total is unbounded: it is refused
\* only for a minimal range that is too long by itself.
LargeChainIsLaunched ==
  pc = "refused" =>
    LET s == shape[chain]
        unit == IF s.align < s.rows - row THEN s.align ELSE s.rows - row
    IN  s.live < CommitElems \/ Macs(s, row, row + unit) > Budget
=============================================================================
