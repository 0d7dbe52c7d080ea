---------------------------- MODULE KernelBlocks ----------------------------
(***************************************************************************)
(* Which (query row, key) pairs the attention kernels add up, in which     *)
(* groups and how often (attention/kernel/source.py): the forward, dQ and  *)
(* dK/dV bodies, each as one thread per row (scalar) and as one simdgroup  *)
(* per block of rows (mma), dispatched range after range of query rows.    *)
(*                                                                         *)
(* A matrix product adds the kept pairs of one block at once: a result is  *)
(* the sequence of groups added into it, and two runs agree to the bit     *)
(* when their sequences are equal (a group with nothing kept adds zeros).  *)
(* Scores are finite; the running maximum is only -INFINITY or finite, and *)
(* exp(-INFINITY - -INFINITY) is a NaN that stays.                         *)
(***************************************************************************)
EXTENDS Integers, Sequences, FiniteSetsExt

CONSTANTS MaxRows,   \* rows of the longest sequence
          Block,     \* rows and keys of a block (32 in the source)
          Slabs,     \* slabs of head columns an mma simdgroup passes over
          Heads      \* query heads that share one key/value head

VARIABLES
  kernel,   \* the body that is built: op, variant and predicate flags
  n,        \* rows of the sequence
  seg,      \* segment of each row
  cuts,     \* rows at which the launcher cuts the query range
  range,    \* [lo, hi): the query rows of the present dispatch
  grid,     \* first rows (relative for fwd and dq) still to be started
  tile,     \* the simdgroup at work, or Idle
  out       \* results: per owner and slab, groups added, NaN, times stored

vars == <<kernel, n, seg, cuts, range, grid, tile, out>>
config == <<kernel, n, seg, cuts>>

-----------------------------------------------------------------------------
(* What is built and how it is launched *)

\* The predicate flags a builder accepts (the perturbations are for tests).
LegalKernel(k) == (k.packed => k.causal) /\ (k.bound => k.packed /\ k.mma /\ k.op = "dkv")

Kernels == {k \in [op : {"fwd", "dq", "dkv"}, mma : BOOLEAN, causal : BOOLEAN,
                   packed : BOOLEAN, bound : BOOLEAN] : LegalKernel(k)}

\* The segment numbers the packer hands over: they start at 0 and ascend by one.
Segmentations(rows) ==
  {s \in [0..(rows - 1) -> 0..(rows - 1)] :
     s[0] = 0 /\ \A i \in 1..(rows - 1) : s[i] \in {s[i - 1], s[i - 1] + 1}}

\* Mutated: the dK/dV ranges are not rounded to query blocks.
CutsAnywhere(k, rows) == SUBSET (1..(rows - 1))

\* Where a query range may be cut: the mma dK/dV only between query blocks.
LegalCuts(k, rows) ==
  IF k.op = "dkv" /\ k.mma
  THEN SUBSET {c \in 1..(rows - 1) : c % Block = 0}
  ELSE SUBSET (1..(rows - 1))

Rows == 0..(n - 1)
Lower(a, b) == IF a < b THEN a ELSE b
Upper(a, b) == IF a < b THEN b ELSE a
Clamped(r) == Lower(r, n - 1)

\* First row of the segment of row r.
SegStart(r) == Min({i \in Rows : seg[i] = seg[r]})

\* May key k reach query row q?
Keep(q, k) == (kernel.causal => k <= q)
              /\ (kernel.packed => seg[Clamped(k)] = seg[Clamped(q)])

-----------------------------------------------------------------------------
(* One simdgroup: the blocks it visits, what it adds and stores *)

\* Keys of the forward: from the block where the first row's segment starts, to
\* the diagonal of the last row.
FwdBounds(base) ==
  [first |-> IF kernel.packed
             THEN (SegStart(Clamped(range.lo + base)) \div Block) * Block ELSE 0,
   limit |-> IF kernel.causal THEN Lower(n, range.lo + base + Block) ELSE n]

\* The dQ body is built with the forward's bounds.
DqBounds(base) == FwdBounds(base)

\* Queries of dK/dV: from the key block's diagonal to the end of the range.
DkvBounds(base) ==
  [first |-> IF kernel.causal THEN Upper(range.lo, base) ELSE range.lo, limit |-> range.hi]

Bounds(base) == CASE kernel.op = "fwd" -> FwdBounds(base)
                  [] kernel.op = "dq" -> DqBounds(base)
                  [] kernel.op = "dkv" -> DkvBounds(base)

\* The query loop stops at the first block that is all later segments.
PastSegments(t) ==
  kernel.op = "dkv" /\ kernel.bound /\ seg[t.next] > seg[Clamped(t.base + Block - 1)]

Finished(t) == IF t.next < Bounds(t.base).limit THEN PastSegments(t) ELSE TRUE

\* The row (absolute) or key the accumulator line j of a tile belongs to.
Owner(base, j) == IF kernel.op = "dkv" THEN base + j ELSE range.lo + base + j

\* Over-hanging rows (of the range) and keys (of the sequence) are not stored.
Stores(base, j) ==
  IF kernel.op = "dkv" THEN base + j < n ELSE base + j < range.hi - range.lo

\* What the block at x keeps for line j: keys for fwd and dq, queries for dkv.
KeptKeys(base, j, x) == {k \in x..(Lower(x + Block, n) - 1) : Keep(Owner(base, j), k)}
KeptQueries(base, j, x) == {i \in x..(Lower(x + Block, range.hi) - 1) : Keep(i, base + j)}

\* Adding a group: one product per query head in ascending order, zeros add nothing.
Added(sums, group, heads) ==
  IF group = {} THEN sums ELSE sums \o [h \in 1..heads |-> <<h, group>>]

\* Is the rescaled line a NaN? exp(m - m_new) is one while nothing was kept, but
\* the packed body takes 1 for it then.
Rescale(line, group) == line.nan \/ (~kernel.packed /\ ~line.seen /\ group = {})

Blank == [sums |-> <<>>, seen |-> FALSE, nan |-> FALSE]
Idle == [base |-> -1, slab |-> 0, next |-> 0, acc |-> <<>>]
NotStored == [sums |-> <<>>, nan |-> FALSE, writes |-> 0]

\* The accumulators before the first block: dK/dV go on from the partial sums of
\* the dispatch before.
Seed(base, slab) ==
  [j \in 0..(Block - 1) |->
     IF kernel.op = "dkv" /\ base + j < n
     THEN [Blank EXCEPT !.sums = out[base + j][slab].sums] ELSE Blank]

Pass(base, slab) ==
  [base |-> base, slab |-> slab, next |-> Bounds(base).first, acc |-> Seed(base, slab)]

-----------------------------------------------------------------------------
Init ==
  /\ kernel \in Kernels
  /\ n \in 1..MaxRows
  /\ seg \in IF kernel.packed THEN Segmentations(n) ELSE {[i \in 0..(n - 1) |-> 0]}
  /\ cuts \in LegalCuts(kernel, n)
  /\ range = [lo |-> 0, hi |-> 0]
  /\ grid = {}
  /\ tile = Idle
  /\ out = [i \in 0..(n - 1) |-> [s \in 1..Slabs |-> NotStored]]

Barrier == grid = {} /\ tile = Idle

\* The launcher dispatches the next range, when the last one is complete.
Dispatch ==
  /\ Barrier /\ range.hi < n
  /\ LET lo == range.hi
         hi == Min({c \in cuts : lo < c} \cup {n})
         owners == IF kernel.op = "dkv" THEN n ELSE hi - lo
     IN /\ range' = [lo |-> lo, hi |-> hi]
        /\ grid' = {b \in 0..(owners - 1) : kernel.mma => b % Block = 0}
  /\ UNCHANGED <<config, tile, out>>

\* The GPU starts a simdgroup, in any order.
StartTile ==
  /\ kernel.mma /\ tile = Idle
  /\ \E base \in grid : grid' = grid \ {base} /\ tile' = Pass(base, 1)
  /\ UNCHANGED <<config, range, out>>

Working(op) == kernel.op = op /\ tile # Idle /\ ~Finished(tile)

\* One key block of the forward: scores, row maximum, rescale, sum, product.
FwdBlock ==
  /\ Working("fwd")
  /\ tile' = [tile EXCEPT !.next = @ + Block, !.acc = [j \in 0..(Block - 1) |->
       LET group == KeptKeys(tile.base, j, tile.next) line == tile.acc[j]
       IN [sums |-> Added(line.sums, group, 1), seen |-> line.seen \/ group # {},
           nan |-> Rescale(line, group)]]]
  /\ UNCHANGED <<config, range, grid, out>>

\* One key block of dQ: the saved L makes the probabilities, nothing is rescaled.
DqBlock ==
  /\ Working("dq")
  /\ tile' = [tile EXCEPT !.next = @ + Block, !.acc = [j \in 0..(Block - 1) |->
       [tile.acc[j] EXCEPT !.sums = Added(@, KeptKeys(tile.base, j, tile.next), 1)]]]
  /\ UNCHANGED <<config, range, grid, out>>

\* One query block of dK and dV, every query head of the group in turn.
DkvBlock ==
  /\ Working("dkv")
  /\ tile' = [tile EXCEPT !.next = @ + Block, !.acc = [j \in 0..(Block - 1) |->
       [tile.acc[j] EXCEPT !.sums = Added(@, KeptQueries(tile.base, j, tile.next), Heads)]]]
  /\ UNCHANGED <<config, range, grid, out>>

\* A stored line: the forward divides by the row sum, zero when nothing was kept.
Result(line, old) ==
  [sums |-> line.sums, nan |-> line.nan \/ (kernel.op = "fwd" /\ ~line.seen),
   writes |-> old.writes + 1]

\* The slab's columns are stored and the next slab recomputes the blocks.
StoreSlab ==
  /\ tile # Idle /\ Finished(tile)
  /\ LET s == tile.slab IN
     /\ out' = [r \in Rows |->
          IF \E j \in 0..(Block - 1) : Owner(tile.base, j) = r /\ Stores(tile.base, j)
          THEN LET j == r - Owner(tile.base, 0)
               IN [out[r] EXCEPT ![s] = Result(tile.acc[j], @)]
          ELSE out[r]]
     /\ tile' = IF s < Slabs THEN Pass(tile.base, s + 1) ELSE Idle
  /\ UNCHANGED <<config, range, grid>>

\* A scalar thread goes over the rows and adds each kept one as a group of its own.
OneByOne(sums, kept, heads) ==
  LET upTo[i \in 0..n] ==
        IF i = 0 THEN sums ELSE Added(upTo[i - 1], kept \cap {i - 1}, heads)
  IN upTo[n]

Stored(r, sums, dead) ==
  out' = [out EXCEPT ![r] = [s \in 1..Slabs |->
            [sums |-> sums, nan |-> dead, writes |-> out[r][s].writes + 1]]]

\* A scalar forward thread: the whole row.
FwdThread ==
  /\ kernel.op = "fwd" /\ ~kernel.mma
  /\ \E b \in grid :
       LET row == range.lo + b  kept == {k \in Rows : Keep(row, k)}
       IN /\ grid' = grid \ {b}
          /\ Stored(row, OneByOne(<<>>, kept, 1), kept = {})
  /\ UNCHANGED <<config, range, tile>>

\* A scalar dQ thread: the whole row.
DqThread ==
  /\ kernel.op = "dq" /\ ~kernel.mma
  /\ \E b \in grid :
       LET row == range.lo + b
       IN /\ grid' = grid \ {b}
          /\ Stored(row, OneByOne(<<>>, {k \in Rows : Keep(row, k)}, 1), FALSE)
  /\ UNCHANGED <<config, range, tile>>

\* A scalar dK/dV thread: the range's queries on top of the partial sums.
DkvThread ==
  /\ kernel.op = "dkv" /\ ~kernel.mma
  /\ \E key \in grid :
       LET kept == {i \in range.lo..(range.hi - 1) : Keep(i, key)}
       IN /\ grid' = grid \ {key}
          /\ Stored(key, OneByOne(out[key][1].sums, kept, Heads), FALSE)
  /\ UNCHANGED <<config, range, tile>>

Done == Barrier /\ range.hi = n /\ UNCHANGED vars

Next == Dispatch \/ StartTile \/ FwdBlock \/ DqBlock \/ DkvBlock \/ StoreSlab
        \/ FwdThread \/ DqThread \/ DkvThread \/ Done

Spec == Init /\ [][Next]_vars

-----------------------------------------------------------------------------
(* Properties *)

Lines == [sums : Seq((1..Heads) \X SUBSET Rows), seen : BOOLEAN, nan : BOOLEAN]

\* The type invariant.
TypeOK ==
  /\ kernel \in Kernels /\ n \in 1..MaxRows /\ seg \in [Rows -> Rows]
  /\ range.lo \in 0..n /\ range.hi \in 0..n /\ range.lo <= range.hi
  /\ grid \subseteq Rows
  /\ tile = Idle \/ /\ tile.base \in Rows /\ tile.slab \in 1..Slabs
                    /\ tile.next \in 0..(n + Block)
                    /\ tile.acc \in [0..(Block - 1) -> Lines]
  /\ out \in [Rows -> [1..Slabs -> [sums : Seq((1..Heads) \X SUBSET Rows),
                                    nan : BOOLEAN, writes : Nat]]]

\* Rows or keys whose results the dispatches so far have stored.
Owned == IF kernel.op = "dkv" THEN (IF range.hi = 0 THEN {} ELSE Rows) ELSE 0..(range.hi - 1)

\* What the mask lets an owner add up to now.
Due(r) == IF kernel.op = "dkv" THEN {i \in 0..(range.hi - 1) : Keep(i, r)}
                               ELSE {k \in Rows : Keep(r, k)}

\* After every dispatch each row holds exactly the keys its mask allows (each key
\* the queries, per head), none missing and none added twice, in every slab: the
\* block bounds, the early stop and the tail masks leave out zeros only.
MaskCovered ==
  Barrier => \A r \in Owned, s \in 1..Slabs : LET sums == out[r][s].sums IN
    /\ UNION {sums[i][2] : i \in 1..Len(sums)} = Due(r)
    /\ \A i, j \in 1..Len(sums) :
         i # j /\ sums[i][1] = sums[j][1] => sums[i][2] \cap sums[j][2] = {}
    /\ kernel.op = "dkv" =>
         \A h \in 1..Heads : UNION {sums[i][2] : i \in {x \in 1..Len(sums) : sums[x][1] = h}} = Due(r)

\* The groups are those of one dispatch over all rows (blocks counted from row 0,
\* in ascending order) wherever the range was cut: a split changes no bit
\* (source.py:246-250, :1394-1402).
SplitChangesNoBit ==
  Barrier /\ kernel.mma => \A r \in Owned, s \in 1..Slabs :
    LET sums == out[r][s].sums
        heads == IF kernel.op = "dkv" THEN Heads ELSE 1
        at(i) == Min(sums[i][2]) \div Block
    IN /\ \A i \in 1..Len(sums) :
            sums[i][2] = Due(r) \cap ((at(i) * Block)..(at(i) * Block + Block - 1))
       /\ \A i \in 1..(Len(sums) - 1) :
            \/ i % heads # 0 /\ at(i) = at(i + 1) /\ sums[i + 1][1] = sums[i][1] + 1
            \/ i % heads = 0 /\ at(i) < at(i + 1) /\ sums[i + 1][1] = 1

\* No stored row is a NaN, though packing leaves rows whose leading key blocks are
\* masked from end to end (source.py:553-563).
NoNaN == \A r \in Rows, s \in 1..Slabs : ~out[r][s].nan

\* A dispatch stores each of its results once: rows of one range are never touched
\* by the blocks of another that hang over its end.
StoredOnce ==
  \A r \in Rows, s \in 1..Slabs :
    IF kernel.op = "dkv"
    THEN out[r][s].writes <= Cardinality({c \in cuts : c < range.hi}) + 1
    ELSE out[r][s].writes <= IF r < range.hi THEN 1 ELSE 0
=============================================================================
