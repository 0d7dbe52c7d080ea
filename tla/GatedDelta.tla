----------------------------- MODULE GatedDelta -----------------------------
(***************************************************************************)
(* recurrent/ops.py: the gated delta rule computed a chunk at a time.  A   *)
(* chunk is a triangular system (I - A) x = b, solved block by block, each *)
(* diagonal block by doubling a finite Neumann series; masked steps and    *)
(* the padding of the last chunk become steps that change nothing.  The    *)
(* module implements DeltaRule.                                            *)
(*                                                                         *)
(* exp(cumsum(log g)) is a running product of gates and its differences    *)
(* are quotients, so gates are nonzero.  The broadcast of key heads over   *)
(* value heads, dtypes and the clamp at 1e-12 are left out.                *)
(***************************************************************************)
EXTENDS Naturals, FiniteSets, SequencesExt

CONSTANTS Prime, Tokens, Lengths, ChunkSizes, SubBlock, Starts

VARIABLES input,   \* the caller's tokens, each with its mask bit
          chunk,   \* C, the chunk size of this call
          ci,      \* chunks done
          st,      \* the state carried between chunks
          ys       \* outputs so far, the padding's included

vars == <<input, chunk, ci, st, ys>>

Answered == IF Len(ys) < Len(input) THEN Len(ys) ELSE Len(input)

Rule == INSTANCE DeltaRule WITH
          done <- Answered, memory <- st, answers <- SubSeq(ys, 1, Answered)

Reciprocal(g) == CHOOSE x \in Rule!GF : (g * x) % Prime = 1

\* A sequence built value by value.
Table(n, f(_)) == FoldLeft(LAMBDA acc, i : Append(acc, f(i)), <<>>, [i \in 1..n |-> i])

SumOf(n, f(_)) == FoldFunction(LAMBDA a, b : (a + b) % Prime, 0, [i \in 1..n |-> f(i)])

VSum(n, f(_)) == FoldFunction(Rule!Add, <<0, 0>>, [i \in 1..n |-> f(i)])

----------------------------------------------------------------------------
(* Identity steps *)

Masked(t) == IF t.valid THEN t ELSE [t EXCEPT !.g = 1, !.b = 0]

Padding == [q |-> <<0, 0>>, k |-> <<0, 0>>, v |-> 0, g |-> 1, b |-> 0, valid |-> FALSE]

PadLength == (chunk - (Len(input) % chunk)) % chunk

Padded == [i \in 1..(Len(input) + PadLength) |->
             IF i <= Len(input) THEN Masked(input[i]) ELSE Padding]

Chunks == Len(Padded) \div chunk

----------------------------------------------------------------------------
(* One chunk *)

\* A running product of gates.
Decay(c, n) == FoldFunction(LAMBDA a, b : (a * b) % Prime, 1, [i \in 1..n |-> c[i].g])

Ratio(c, i, j) == (Decay(c, i) * Reciprocal(Decay(c, j))) % Prime

Coupling(c, i, j) ==
  IF j >= i THEN 0
  ELSE Rule!Sub(0, c[i].b * Rule!Dot(c[i].k, c[j].k) * Ratio(c, i, j))

\* Columns of the right-hand side: the value and the two key components.
Row(c, i) == LET t == c[i]
             IN  <<(t.b * t.v) % Prime,
                   (t.b * t.k[1] * Decay(c, i)) % Prime,
                   (t.b * t.k[2] * Decay(c, i)) % Prime>>

Cols == 3

Bits(n) == CHOOSE b \in 0..n : 2^b >= n /\ \A s \in 0..n : 2^s >= n => b <= s

Product(p, m, n) ==
  Table(n, LAMBDA i : Table(Len(m[1]), LAMBDA j : SumOf(n, LAMBDA h : p[i][h] * m[h][j])))

\* The block's own series: x + P x, P squared, as often as the block has bits.
Doubling(p, rhs, n) ==
  LET Double(acc, s) ==
        LET px == Product(acc.p, acc.x, n)
        IN  [x |-> Table(n, LAMBDA i : Table(Cols, LAMBDA j : (acc.x[i][j] + px[i][j]) % Prime)),
             p |-> IF s # Bits(n) THEN Product(acc.p, acc.p, n) ELSE acc.p]
  IN  FoldLeft(Double, [x |-> rhs, p |-> p], [s \in 1..Bits(n) |-> s]).x

\* Mutated: only the block just above is substituted.
SolvedAboveLast(prev) == (IF Len(prev) > SubBlock THEN Len(prev) - SubBlock + 1 ELSE 1)..Len(prev)

SolvedAbove(prev) == 1..Len(prev)

Solve(c) ==
  LET n == Len(c)
      BlockOf(prev, lo) ==
        LET hi  == IF lo + SubBlock < n THEN lo + SubBlock ELSE n
            rhs == Table(hi - lo, LAMBDA i : Table(Cols, LAMBDA j :
                      (Row(c, lo + i)[j]
                       + FoldFunction(+, 0, [h \in SolvedAbove(prev) |->
                                                Coupling(c, lo + i, h) * prev[h][j]])) % Prime))
            a   == Table(hi - lo, LAMBDA i : Table(hi - lo, LAMBDA h :
                      Coupling(c, lo + i, lo + h)))
        IN  prev \o Doubling(a, rhs, hi - lo)
  IN  FoldLeft(BlockOf, <<>>, [b \in 1..((n + SubBlock - 1) \div SubBlock) |-> (b - 1) * SubBlock])

NewValue(c, s) ==
  LET x == Solve(c)
  IN  Table(Len(c), LAMBDA i : Rule!Sub(x[i][1], Rule!Dot(<<x[i][2], x[i][3]>>, s)))

Answer(c, s, w, i) ==
  (Decay(c, i) * Rule!Dot(c[i].q, s)
   + SumOf(i, LAMBDA j : Rule!Dot(c[i].q, c[j].k) * Ratio(c, i, j) * w[j])) % Prime

Answers(c, s, w) == [i \in 1..Len(c) |-> Answer(c, s, w, i)]

Carried(c, s, w) ==
  Rule!Add(Rule!Scale(Decay(c, Len(c)), s),
           VSum(Len(c), LAMBDA j : Rule!Scale(Ratio(c, Len(c), j) * w[j], c[j].k)))

----------------------------------------------------------------------------

Init == /\ chunk \in ChunkSizes
        /\ \E n \in Lengths : \E valid \in [1..n -> BOOLEAN], ts \in [1..n -> Tokens] :
              /\ Cardinality({i \in 1..n : ~valid[i]}) <= 1
              /\ input = [i \in 1..n |-> [q |-> ts[i].q, k |-> ts[i].k, v |-> ts[i].v,
                                          g |-> ts[i].g, b |-> ts[i].b, valid |-> valid[i]]]
        /\ ci = 0
        /\ st \in Starts
        /\ ys = <<>>

\* One turn of the loop over chunks.
Chunk ==
  /\ ci < Chunks
  /\ LET c == SubSeq(Padded, ci * chunk + 1, (ci + 1) * chunk)
         w == NewValue(c, st)
     IN  /\ ys' = ys \o Answers(c, st, w)
         /\ st' = Carried(c, st, w)
  /\ ci' = ci + 1
  /\ UNCHANGED <<input, chunk>>

Next == Chunk

Spec == Init /\ [][Next]_vars

----------------------------------------------------------------------------

\* Types: the state stays in the field and outputs come a whole chunk at a time.
TypeOK == /\ chunk \in ChunkSizes
          /\ st \in Rule!GF \X Rule!GF
          /\ Len(ys) = ci * chunk
          /\ \A i \in 1..Len(ys) : ys[i] \in Rule!GF

\* ops.py's claim that the chunked form is an exact reformulation: after every
\* chunk the carried state and the answers are those of the sequential rule,
\* whatever the chunk size, its blocks, the mask and the padding.
ImplementsDeltaRule == Rule!RSpec

\* When the loop over chunks is done, every token of the caller has an answer:
\* the last, short chunk was padded, not dropped.
EveryTokenAnswered == ci = Chunks => Len(ys) >= Len(input)
=============================================================================
