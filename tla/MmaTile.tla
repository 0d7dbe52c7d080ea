------------------------------ MODULE MmaTile ------------------------------
(***************************************************************************)
(* One simdgroup on one block of 8 rows and 32 vocabulary columns          *)
(* (core/kernel/source.py): the 32 lanes' fragments of the 8x8 matrix      *)
(* unit, the walk over the hidden width with its guarded tail, the int4    *)
(* head's scales hoisted into registers, the reduction over the lanes of a *)
(* row, and the second product of the backward. Values are the indices     *)
(* they were read from; what a lane adds up is the set of its products.    *)
(***************************************************************************)
EXTENDS Integers, FiniteSets

CONSTANTS Depths,      \* hidden widths of a dense head
          QuantDepths, \* hidden widths of an int4 head, multiples of Group
          Group,       \* columns that share a scale (64)
          Widths,      \* columns of the tile left for this block, up to 32
          Heights      \* rows left for this block, up to 8

VARIABLES
  head,    \* "dense" or "quant"
  d, tcols, rows,
  pc,      \* "logits", "sum8", "sum1", "store", "gradient", "done"
  d0,      \* next column of the hidden width
  hoisted, \* group whose scales are in the registers
  acc,     \* per element of the logit tile: products, <<step, place, k of A, k of B, group>>
  part,    \* per lane: how often its partial sum has each column
  stored,  \* per row: what its storing lane stored, or Unset
  dh       \* per element of the block's d_hidden: products, <<tile, place, v of G, v of W>>

vars == <<head, d, tcols, rows, pc, d0, hoisted, acc, part, stored, dh>>

Lanes == 0..31
Eight == 0..7
Bit(l, b) == (l \div b) % 2
Flip(l, b) == IF Bit(l, b) = 0 THEN l + b ELSE l - b
Lower(a, b) == IF a < b THEN a ELSE b
Unset == [c \in {} |-> 0]
Zero == -1   \* a fragment's element that is a literal 0

-----------------------------------------------------------------------------
(* The fragments *)

\* Row of a lane's elements in an 8x8 fragment, and column of the first of the two.
Fm(l) == 4 * Bit(l, 16) + 2 * Bit(l, 4) + Bit(l, 2)
Fn(l) == 4 * Bit(l, 8) + 2 * Bit(l, 1)

\* The lane and the element at place (i, j).
At(i, j) == CHOOSE le \in Lanes \X {0, 1} : Fm(le[1]) = i /\ Fn(le[1]) + le[2] = j
Where == [ij \in Eight \X Eight |-> At(ij[1], ij[2])]

\* Columns the unguarded walk takes.
Full == d - (d % 8)

\* A read of the tail: columns past the width are literal zeros.
Guarded(k) == IF k < d THEN k ELSE Zero

Read(k) == IF d0 < Full THEN k ELSE Guarded(k)

\* A holds hidden, row Fm, two neighbouring columns; B holds the head, vocabulary
\* columns Fn and Fn + 1, hidden column Fm.
A(l, e) == Read(d0 + Fn(l) + e)
B(l, e) == Read(d0 + Fm(l))

\* A new group starts: its scales go to the registers.
Due == d0 % Group = 0

\* The scale that B's element is multiplied by: hoisted in the walk of an int4
\* head, its own in the tail; a dense head has none.
ScaleOf(k, held) == IF head = "quant" /\ d0 < Full THEN held ELSE k \div Group

\* Products of the step for the element at (i, j): row i of A with column j of B.
Products(i, j, held) ==
  {<<d0, p, A(Where[<<i, p>>][1], Where[<<i, p>>][2]), B(Where[<<p, j>>][1], Where[<<p, j>>][2]),
     ScaleOf(B(Where[<<p, j>>][1], Where[<<p, j>>][2]), held)>> : p \in Eight}

-----------------------------------------------------------------------------
Init ==
  /\ head \in {"dense", "quant"}
  /\ d \in (IF head = "dense" THEN Depths ELSE QuantDepths)
  /\ tcols \in Widths /\ rows \in Heights
  /\ pc = "logits" /\ d0 = 0 /\ hoisted = Zero
  /\ acc = [ij \in Eight \X Eight |-> {}]
  /\ part = [l \in Lanes |-> Unset] /\ stored = [i \in Eight |-> Unset]
  /\ dh = [i \in Eight |-> [k \in 0..(d - 1) |-> {}]]

\* The vocabulary columns whose logits a lane holds, one pair per column tile; those
\* past the tile are left out of maximum and sum.
Held(l) == {8 * ct + Fn(l) + e : ct \in 0..3, e \in {0, 1}}
Kept(l) == {c \in Held(l) : c < tcols}

\* One step over the hidden width, the guarded one last.
Multiply ==
  /\ pc = "logits" /\ d0 < d
  /\ hoisted' = IF head = "quant" /\ d0 < Full /\ Due THEN d0 \div Group ELSE hoisted
  /\ acc' = [ij \in Eight \X Eight |->
       acc[ij] \cup {x \in Products(ij[1], ij[2], hoisted') : x[3] # Zero /\ x[4] # Zero}]
  /\ d0' = d0 + 8
  /\ UNCHANGED <<head, d, tcols, rows, pc, part, stored, dh>>

\* The logits are there: each lane sums those it holds.
LaneSum ==
  /\ pc = "logits" /\ d0 >= d /\ pc' = "sum8"
  /\ part' = [l \in Lanes |-> [c \in 0..31 |-> IF c \in Kept(l) THEN 1 ELSE 0]]
  /\ UNCHANGED <<head, d, tcols, rows, d0, hoisted, acc, stored, dh>>

\* The lane a shuffle exchanges with.
Partner(l, b) == Flip(l, b)

\* A shuffle: all lanes at once add what their partner has.
Shuffle(b) ==
  part' = [l \in Lanes |-> [c \in 0..31 |-> part[l][c] + part[Partner(l, b)][c]]]

Shuffle8 ==
  /\ pc = "sum8" /\ pc' = "sum1" /\ Shuffle(8)
  /\ UNCHANGED <<head, d, tcols, rows, d0, hoisted, acc, stored, dh>>

Shuffle1 ==
  /\ pc = "sum1" /\ pc' = "store" /\ Shuffle(1)
  /\ UNCHANGED <<head, d, tcols, rows, d0, hoisted, acc, stored, dh>>

\* One lane of every row that exists stores the row's sum.
Store ==
  /\ pc = "store" /\ pc' = "gradient" /\ d0' = 0
  /\ stored' = [i \in Eight |->
       LET l == At(i, 0)[1]
       IN IF i < rows THEN part[l] ELSE Unset]
  /\ UNCHANGED <<head, d, tcols, rows, hoisted, acc, part, dh>>

-----------------------------------------------------------------------------
(* The backward's second product: coefficients by head *)

\* G, in place of the logits: row Fm, vocabulary column Fn; 0 past the tile.
Coefficient(ct, l, e) ==
  IF 8 * ct + Fn(l) + e < tcols THEN 8 * ct + Fn(l) + e ELSE Zero

\* W again, turned: vocabulary column Fm, clamped to the tile.
Weight(ct, l) == Lower(8 * ct + Fm(l), tcols - 1)

\* What one element of d_hidden takes of the block: row i of G with column q of the
\* slice, literal zeros left out.
Terms(i, q) ==
  {x \in {<<ct, p, Coefficient(ct, Where[<<i, p>>][1], Where[<<i, p>>][2]),
            Weight(ct, Where[<<p, q>>][1])>> : ct \in 0..3, p \in Eight} : x[3] # Zero}

\* A slice of eight hidden columns: every lane adds to its own elements, those of
\* rows and columns that exist.
Slice ==
  /\ pc = "gradient" /\ head = "dense" /\ d0 < d
  /\ dh' = [i \in Eight |-> [k \in 0..(d - 1) |->
       IF i >= rows \/ k \notin d0..(d0 + 7) THEN dh[i][k]
       ELSE dh[i][k] \cup Terms(i, k - d0)]]
  /\ d0' = d0 + 8
  /\ UNCHANGED <<head, d, tcols, rows, pc, hoisted, acc, part, stored>>

Finish ==
  /\ pc = "gradient" /\ (head = "quant" \/ d0 >= d) /\ pc' = "done"
  /\ UNCHANGED <<head, d, tcols, rows, d0, hoisted, acc, part, stored, dh>>

Done == pc = "done" /\ UNCHANGED vars

Next == Multiply \/ LaneSum \/ Shuffle8 \/ Shuffle1 \/ Store \/ Slice \/ Finish \/ Done

Spec == Init /\ [][Next]_vars

-----------------------------------------------------------------------------
(* Properties *)

\* Every logit has every column of the hidden width once, hidden and head read at
\* the same column, whatever is left over for the guarded tail.
EveryProductOnce ==
  pc # "logits" => \A ij \in Eight \X Eight :
    /\ {<<x[3], x[4]>> : x \in acc[ij]} = {<<k, k>> : k \in 0..(d - 1)}
    /\ Cardinality(acc[ij]) = d

\* An int4 weight is scaled by its own group's scale: what the registers hold never
\* goes stale across a group's end.
ScaleOfItsGroup == \A ij \in Eight \X Eight : \A x \in acc[ij] : x[5] = x[4] \div Group

\* Every row that exists has every column of the tile once in its sum, no other
\* row's and none past the tile, and no row past the end is written.
RowSumComplete ==
  pc \in {"gradient", "done"} => \A i \in Eight :
    stored[i] = IF i < rows THEN [c \in 0..31 |-> IF c < tcols THEN 1 ELSE 0] ELSE Unset

\* d_hidden of every row that exists takes every column of the tile once, the
\* coefficient and the head's row of the same column.
GradientComplete ==
  pc = "done" /\ head = "dense" => \A i \in Eight, k \in 0..(d - 1) :
    IF i < rows
    THEN /\ {<<x[3], x[4]>> : x \in dh[i][k]} = {<<c, c>> : c \in 0..(tcols - 1)}
         /\ Cardinality(dh[i][k]) = tcols
    ELSE dh[i][k] = {}
=============================================================================
