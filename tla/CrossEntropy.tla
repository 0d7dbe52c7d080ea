---------------------------- MODULE CrossEntropy ----------------------------
(***************************************************************************)
(* The linear cross-entropy loss (core/loss.py) and what computes it: the  *)
(* chunked path (core/chunked.py) and the kernels (core/kernel/source.py,  *)
(* launched tile after tile by core/kernel/launch.py). Which columns of    *)
(* the vocabulary enter a row's sum, which logit is taken for the target,  *)
(* and which (row, column) pairs enter the gradients, counted.             *)
(*                                                                         *)
(* A launch runs one simdgroup per block of rows, in any interleaving; a   *)
(* simdgroup passes over the tile in blocks of columns. A fresh output     *)
(* buffer holds Junk until it is written.                                  *)
(***************************************************************************)
EXTENDS Integers, FiniteSets

CONSTANTS Lengths,  \* numbers of rows
          Vocabs,   \* vocabulary sizes
          Tiles,    \* widths of a vocabulary tile (8192, or chunk_size)
          Columns,  \* columns of a column block (32)
          Buckets   \* row counts measured -> rows per block (8 * row_tiles)

VARIABLES
  ask,     \* the call: impl, head, engine of the backward, sizes, targets, checks
  phase,   \* "asked", "refused", "forward", "returned", "recompute", "backward", "done"
  base,    \* first column of the present tile
  at,      \* per row block: columns of the tile passed over
  reg,     \* per row: columns and target summed in the simdgroup's registers
  sum,     \* per row: how often each column entered the chained log-sum-exp
  tgt,     \* per row: the column whose logit is taken for the target, or None
  dhIn,    \* per row: how often each column entered d_hidden before this tile
  dhOut,   \* the same in the buffer this tile writes
  dw       \* per column: how often each row entered d_w

vars == <<ask, phase, base, at, reg, sum, tgt, dhIn, dhOut, dw>>

Junk == 100
None == -1
Lower(a, b) == IF a < b THEN a ELSE b

Rows == 0..(ask.n - 1)
Cols == 0..(ask.v - 1)
TileEnd == Lower(base + ask.tile, ask.v)
Tile == base..(TileEnd - 1)

-----------------------------------------------------------------------------
(* The call *)

\* The measured row count nearest to n on the logarithmic scale, the lower of two.
SelectVariant(n) ==
  Buckets[CHOOSE b \in DOMAIN Buckets :
            \A c \in DOMAIN Buckets : /\ c < b => n * n > b * c
                                      /\ c > b => n * n <= b * c]

Height == SelectVariant(ask.n)
Blocks == 0..((ask.n + Height - 1) \div Height - 1)
RowsOf(b) == {r \in Rows : r \div Height = b}

Asks ==
  UNION {{a \in [impl : {"auto", "kernel", "chunked", "naive"},
                 head : {"trainable", "frozen", "quantized"},
                 engine : {"chunked", "scalar", "mma", "atomic"},
                 n : {n}, v : {v}, tile : Tiles, target : [0..(n - 1) -> 0..v],
                 checked : BOOLEAN, fits : BOOLEAN, served : BOOLEAN] :
            /\ a.engine # "chunked" => a.impl = "kernel"
            /\ a.engine = "atomic" => a.head = "trainable"
            /\ ~a.fits \/ ~a.served => a.target = [r \in 0..(n - 1) |-> 0] /\ a.engine = "chunked"}
         : n \in Lengths, v \in Vocabs}

\* Shapes and dtypes agree and, unless the caller vouches for them, the targets
\* are columns of the head.
ValidInputs == ask.fits /\ (ask.checked => \A r \in Rows : ask.target[r] < ask.v)

\* auto asks for the kernel like kernel, and is refused where the kernel cannot
\* serve the head, the dtype or the library version: it never falls back.
Resolved ==
  IF ask.impl \in {"auto", "kernel"} THEN (IF ask.served THEN "kernel" ELSE "refused")
  ELSE ask.impl

Zero == [r \in Rows |-> [c \in Cols |-> 0]]
Fresh == [r \in Rows |-> [c \in Cols |-> Junk]]
Empty == [r \in Rows |-> [seen |-> [c \in Cols |-> 0], hit |-> None]]

Init ==
  /\ ask \in Asks /\ phase = "asked" /\ base = 0
  /\ at = [b \in Blocks |-> 0] /\ reg = Empty
  /\ sum = Zero /\ tgt = [r \in Rows |-> None]
  /\ dhIn = Zero /\ dhOut = Zero /\ dw = [c \in Cols |-> [r \in Rows |-> 0]]

\* linear_cross_entropy validates, resolves and starts.
Call ==
  /\ phase = "asked"
  /\ phase' = IF ~ValidInputs \/ Resolved = "refused" THEN "refused" ELSE "forward"
  /\ UNCHANGED <<ask, base, at, reg, sum, tgt, dhIn, dhOut, dw>>

-----------------------------------------------------------------------------
(* Forward *)

\* The whole logit matrix at once: an index past the head, which only a caller
\* who vouched for the targets can bring, gathers anything.
NaiveForward ==
  /\ phase = "forward" /\ Resolved = "naive"
  /\ sum' = [r \in Rows |-> [c \in Cols |-> 1]]
  /\ \E anything \in Cols :
       tgt' = [r \in Rows |-> IF ask.target[r] \in Cols THEN ask.target[r] ELSE anything]
  /\ phase' = "done"
  /\ UNCHANGED <<ask, base, at, reg, dhIn, dhOut, dw>>

\* The target's logit: gathered at the clipped index, kept if the chunk has it.
Taken(r, inside) == IF inside THEN ask.target[r] ELSE tgt[r]

Streamed == [r \in Rows |-> [c \in Cols |-> sum[r][c] + (IF c \in Tile THEN 1 ELSE 0)]]
Advance(from, to) ==
  /\ phase = from
  /\ base' = IF TileEnd < ask.v THEN TileEnd ELSE 0
  /\ phase' = IF TileEnd < ask.v THEN from ELSE to

\* A chunk of the streamed log-sum-exp, all rows at once.
ChunkForward ==
  /\ Resolved = "chunked" /\ Advance("forward", "returned")
  /\ sum' = Streamed /\ tgt' = [r \in Rows |-> Taken(r, ask.target[r] \in Tile)]
  /\ UNCHANGED <<ask, at, reg, dhIn, dhOut, dw>>

\* The chunked path keeps no residual: its vjp streams the log-sum-exp anew.
ChunkRecompute ==
  /\ Advance("recompute", "backward")
  /\ sum' = Streamed
  /\ UNCHANGED <<ask, at, reg, tgt, dhIn, dhOut, dw>>

\* How often a block of columns counts column c: the columns past the tile's end
\* are read from its last and masked.
Share(b, c) == IF c < TileEnd /\ c - base - at[b] \in 0..(Columns - 1) THEN 1 ELSE 0

\* A simdgroup sums one block of columns into its registers and looks out for the
\* target of each of its rows.
KernelColumns(b) ==
  /\ phase = "forward" /\ Resolved = "kernel" /\ base + at[b] < TileEnd
  /\ reg' = [r \in Rows |->
       IF r \notin RowsOf(b) THEN reg[r]
       ELSE [seen |-> [c \in Cols |-> reg[r].seen[c] + Share(b, c)],
             hit |-> IF ask.target[r] \in Cols /\ Share(b, ask.target[r]) > 0
                     THEN ask.target[r] ELSE reg[r].hit]]
  /\ at' = [at EXCEPT ![b] = @ + Columns]
  /\ UNCHANGED <<ask, phase, base, sum, tgt, dhIn, dhOut, dw>>

\* The tile's target logit if it had one, what the tile before handed on if not.
StoredTarget(r) == IF reg[r].hit # None THEN reg[r].hit ELSE tgt[r]

\* All simdgroups have passed: rows store the tile's log-sum-exp on top of what
\* came in, and the next tile is launched.
ForwardTile ==
  /\ Resolved = "kernel" /\ Advance("forward", "returned")
  /\ \A b \in Blocks : base + at[b] >= TileEnd
  /\ sum' = [r \in Rows |-> [c \in Cols |-> sum[r][c] + reg[r].seen[c]]]
  /\ tgt' = [r \in Rows |-> StoredTarget(r)]
  /\ reg' = Empty /\ at' = [b \in Blocks |-> 0]
  /\ UNCHANGED <<ask, dhIn, dhOut, dw>>

-----------------------------------------------------------------------------
(* Backward *)

\* The vjp of the path taken: chunked starts the log-sum-exp over, the kernel has
\* it from the forward, and a launched backward gets a fresh buffer.
Vjp ==
  /\ phase = "returned"
  /\ phase' = IF Resolved = "chunked" THEN "recompute" ELSE "backward"
  /\ sum' = IF Resolved = "chunked" THEN Zero ELSE sum
  /\ dhOut' = Fresh
  /\ UNCHANGED <<ask, base, at, reg, tgt, dhIn, dw>>

\* Whose vjp returns a gradient of the head: the chunked path's for every dense
\* head, the kernel's for a trainable one.
Trains == IF Resolved = "chunked" THEN ask.head # "quantized" ELSE ask.head = "trainable"

\* Rows of d_w are appended chunk after chunk.
HeadGradient(c) == [r \in Rows |-> IF c \in Tile THEN 1 ELSE dw[c][r]]

\* A chunk of the saved-lse backward: also what the kernel path is wired to.
ChunkBackward ==
  /\ ask.engine = "chunked" /\ Advance("backward", "done")
  /\ dhIn' = [r \in Rows |-> [c \in Cols |-> dhIn[r][c] + (IF c \in Tile THEN 1 ELSE 0)]]
  /\ dw' = IF Trains THEN [c \in Cols |-> HeadGradient(c)] ELSE dw
  /\ UNCHANGED <<ask, at, reg, sum, tgt, dhOut>>

\* Mutated: the running sum is read from the output buffer from the first column on.
PreviousOut(b, r, c) == dhOut[r][c]

\* What a simdgroup adds to: the launch's input at the tile's first column, its
\* own output after that.
Previous(b, r, c) == IF at[b] = 0 THEN dhIn[r][c] ELSE dhOut[r][c]

\* One pass of the d_hidden kernels: the scalar body takes a column at a time, the
\* mma body a block of columns.
HiddenColumns(b) ==
  /\ phase = "backward" /\ ask.engine \in {"scalar", "mma"} /\ base + at[b] < TileEnd
  /\ LET width == IF ask.engine = "scalar" THEN 1 ELSE Columns
         cols == {c \in Tile : c - base - at[b] \in 0..(width - 1)}
     IN /\ dhOut' = [r \in Rows |->
             IF r \notin RowsOf(b) THEN dhOut[r]
             ELSE [c \in Cols |-> Previous(b, r, c) + (IF c \in cols THEN 1 ELSE 0)]]
        /\ at' = [at EXCEPT ![b] = @ + width]
  /\ UNCHANGED <<ask, phase, base, reg, sum, tgt, dhIn, dw>>

\* One column of the d_w kernel: every row block adds to the same row of d_w, by
\* atomic additions, in any order.
HeadColumn(b) ==
  /\ phase = "backward" /\ ask.engine = "atomic" /\ base + at[b] < TileEnd
  /\ dw' = [dw EXCEPT ![base + at[b]] = [r \in Rows |-> @[r] + (IF r \in RowsOf(b) THEN 1 ELSE 0)]]
  /\ at' = [at EXCEPT ![b] = @ + 1]
  /\ UNCHANGED <<ask, phase, base, reg, sum, tgt, dhIn, dhOut>>

TilePassed ==
  /\ Advance("backward", "done") /\ \A b \in Blocks : base + at[b] >= TileEnd
  /\ at' = [b \in Blocks |-> 0]
  /\ UNCHANGED <<ask, reg, sum, tgt, dw>>

\* The tile is through: its output is the next launch's input.
HiddenTile ==
  /\ ask.engine \in {"scalar", "mma"} /\ TilePassed
  /\ dhIn' = dhOut /\ dhOut' = Fresh

\* The tile's rows of d_w are complete and appended: there is nothing to chain.
HeadTile == ask.engine = "atomic" /\ TilePassed /\ UNCHANGED <<dhIn, dhOut>>

Finished == phase \in {"done", "refused"} /\ UNCHANGED vars

Next ==
  \/ Call \/ NaiveForward \/ ChunkForward \/ ForwardTile \/ Vjp \/ ChunkRecompute
  \/ ChunkBackward \/ HiddenTile \/ HeadTile
  \/ \E b \in Blocks : KernelColumns(b) \/ HiddenColumns(b) \/ HeadColumn(b)
  \/ Finished

Spec == Init /\ [][Next]_vars

-----------------------------------------------------------------------------
(* Properties *)

\* The type invariant.
TypeOK ==
  /\ phase \in {"asked", "refused", "forward", "returned", "recompute", "backward", "done"}
  /\ base \in Cols /\ \A b \in Blocks : at[b] \in 0..(ask.tile + Columns)
  /\ \A r \in Rows : reg[r].hit \in Cols \cup {None} /\ reg[r].seen \in [Cols -> 0..Columns]
  /\ sum \in [Rows -> [Cols -> Nat]] /\ tgt \in [Rows -> Cols \cup {None}]

Returned == phase \in {"returned", "recompute", "backward", "done"}

\* Every column enters a row's log-sum-exp once, whatever the tile, the blocks and
\* the interleaving, in the forward and again where the backward recomputes it.
EveryColumnOnce == phase \in {"returned", "backward", "done"} => \A r \in Rows, c \in Cols : sum[r][c] = 1

\* A checked call never returns a loss with another logit for the target: the
\* tile that has it is kept through the tiles that have not.
TargetIsFound ==
  Returned /\ ask.checked => \A r \in Rows : tgt[r] = ask.target[r]

\* d_hidden has every column once for every row, from the launch's chain of
\* buffers: no column of an earlier tile is lost and nothing fresh is read.
HiddenGradientComplete ==
  phase = "done" /\ ask.engine # "atomic" /\ Resolved # "naive" =>
    \A r \in Rows, c \in Cols : dhIn[r][c] = 1

\* d_w has every row once for every column, whichever tile the column is in, when
\* the path returns it; a frozen head under the kernel has none.
HeadGradientComplete ==
  phase = "done" /\ Resolved # "naive" =>
    \A c \in Cols, r \in Rows :
      dw[c][r] = IF ask.engine = "atomic" \/ (Trains /\ ask.engine = "chunked") THEN 1 ELSE 0
=============================================================================
