---------------------------- MODULE TrainingProofs ----------------------------
(***************************************************************************)
(* Proofs about a training run: the batches it takes (Packing), for every  *)
(* dataset, order, row length and pool; the model it rewrites (Enabling),  *)
(* of any depth, for any calls and edits; and the condition of the bench   *)
(* that drives it (TrainCondition), for any buckets and number of steps.   *)
(***************************************************************************)
EXTENDS TrainingMC, TLAPS, FiniteSetTheorems, SequenceTheorems, WellFoundedInduction

USE PackingAssumption

(***************************************************************************)
(* What packing keeps.                                                     *)
(***************************************************************************)

\* Every set of natural numbers that is not empty has a least element.
LEMMA LeastNat ==
  ASSUME NEW T \in SUBSET Nat, T # {}
  PROVE  \E n \in T : \A k \in T : n <= k
<1>1. PICK n \in T : \A k \in T : ~(<<k, n>> \in OpToRel(<, Nat))
  BY NatLessThanWellFounded, WFMin
<1>2. \A k \in T : ~(k < n)
  BY <1>1 DEF OpToRel
<1> QED BY <1>2

\* Induction up to a bound, over the members of a set.
LEMMA UpTo ==
  ASSUME NEW m \in Nat, NEW T, 0 \in T, \A n \in 0..(m - 1) : n \in T => n + 1 \in T
  PROVE  \A n \in 0..m : n \in T
<1> SUFFICES ASSUME NEW x \in 0..m, x \notin T PROVE FALSE
  OBVIOUS
<1> DEFINE U == {n \in 0..m : n \notin T}
<1>1. U \subseteq Nat /\ U # {}
  OBVIOUS
<1>2. PICK n \in U : \A k \in U : n <= k
  BY <1>1, LeastNat
<1>3. n # 0 /\ n - 1 \in 0..(m - 1) /\ n - 1 \notin U
  BY <1>2
<1> QED BY <1>2, <1>3

-----------------------------------------------------------------------------
(* Sums. *)

Totals(g, f) == g = [n \in 0..Len(f) |-> IF n = 0 THEN 0 ELSE g[n - 1] + f[n]]

LEMMA TotalsType ==
  ASSUME NEW f \in Seq(Int), NEW g, Totals(g, f)
  PROVE  g \in [0..Len(f) -> Int]
<1> DEFINE T == {n \in 0..Len(f) : g[n] \in Int}
<1>1. g = [n \in 0..Len(f) |-> IF n = 0 THEN 0 ELSE g[n - 1] + f[n]]
  BY DEF Totals
<1>2. DOMAIN g = 0..Len(f) /\ g = [n \in 0..Len(f) |-> g[n]]
  BY <1>1
<1>3. g[0] = 0 /\ \A n \in 1..Len(f) : g[n] = g[n - 1] + f[n]
  BY <1>1
<1>4. 0 \in T /\ \A n \in 0..(Len(f) - 1) : n \in T => n + 1 \in T
  BY <1>3, SMTT(30)
<1>5. Len(f) \in Nat
  OBVIOUS
<1>6. \A n \in 0..Len(f) : n \in T
  <2> HIDE DEF T
  <2> QED BY <1>4, <1>5, UpTo
<1> QED BY <1>2, <1>6

LEMMA TotalsExist ==
  ASSUME NEW f \in Seq(Int)
  PROVE  \E g : Totals(g, f)
<1> DEFINE Part(g, k) == /\ g \in [0..k -> Int] /\ g[0] = 0
                         /\ \A n \in 1..k : g[n] = g[n - 1] + f[n]
           T == {k \in 0..Len(f) : \E g : Part(g, k)}
<1>0. Len(f) \in Nat
  OBVIOUS
<1>1. 0 \in T
  <2>1. Part([n \in 0..0 |-> 0], 0)
    OBVIOUS
  <2> HIDE DEF Part
  <2> QED BY <1>0, <2>1
<1>2. ASSUME NEW k \in 0..(Len(f) - 1), k \in T PROVE k + 1 \in T
  <2>1. PICK g : Part(g, k)
    BY <1>2
  <2> DEFINE h == [n \in 0..(k + 1) |-> IF n = k + 1 THEN g[k] + f[k + 1] ELSE g[n]]
  <2>2. f[k + 1] \in Int
    OBVIOUS
  <2>3. Part(h, k + 1)
    BY <2>1, <2>2
  <2> HIDE DEF Part, h
  <2> QED BY <1>0, <2>3
<1>3. Len(f) \in T
  <2>1. \A n \in 0..Len(f) : n \in T
    <3> HIDE DEF T
    <3> QED BY <1>0, <1>1, <1>2, UpTo
  <2> HIDE DEF T
  <2> QED BY <1>0, <2>1
<1>4. PICK g : Part(g, Len(f))
  BY <1>3
<1>5. Totals(g, f)
  BY <1>4 DEF Totals
<1> QED BY <1>5

LEMMA SumOf ==
  ASSUME NEW f \in Seq(Int)
  PROVE  \E g \in [0..Len(f) -> Int] :
           /\ g[0] = 0 /\ Sum(f) = g[Len(f)]
           /\ \A n \in 1..Len(f) : g[n] = g[n - 1] + f[n]
<1> DEFINE g == CHOOSE t : t = [n \in 0..Len(f) |-> IF n = 0 THEN 0 ELSE t[n - 1] + f[n]]
<1>1. Totals(g, f)
  BY TotalsExist DEF Totals
<1>2. Sum(f) = g[Len(f)]
  BY DEF Sum
<1> HIDE DEF g
<1>3. g \in [0..Len(f) -> Int]
  BY <1>1, TotalsType
<1>6. Len(f) \in Nat
  OBVIOUS
<1>5. g = [n \in 0..Len(f) |-> IF n = 0 THEN 0 ELSE g[n - 1] + f[n]]
  BY <1>1 DEF Totals
<1>4. g[0] = 0 /\ \A n \in 1..Len(f) : g[n] = g[n - 1] + f[n]
  BY <1>5, <1>6
<1> QED BY <1>2, <1>3, <1>4

LEMMA SumType == ASSUME NEW f \in Seq(Int) PROVE Sum(f) \in Int
  BY SumOf

LEMMA SumOfNone == ASSUME NEW f \in Seq(Int), Len(f) = 0 PROVE Sum(f) = 0
  BY SumOf

\* One more summand.
LEMMA SumGrows ==
  ASSUME NEW f \in Seq(Int), NEW e \in Seq(Int), Len(e) = Len(f) + 1,
         \A n \in 1..Len(f) : e[n] = f[n]
  PROVE  Sum(e) = Sum(f) + e[Len(e)]
<1>1. PICK g \in [0..Len(f) -> Int] :
         /\ g[0] = 0 /\ Sum(f) = g[Len(f)]
         /\ \A n \in 1..Len(f) : g[n] = g[n - 1] + f[n]
  BY SumOf
<1>2. PICK h \in [0..Len(e) -> Int] :
         /\ h[0] = 0 /\ Sum(e) = h[Len(e)]
         /\ \A n \in 1..Len(e) : h[n] = h[n - 1] + e[n]
  BY SumOf
<1> DEFINE T == {n \in 0..Len(f) : h[n] = g[n]}
<1>3. Len(f) \in Nat
  OBVIOUS
<1>4. 0 \in T
  BY <1>1, <1>2, <1>3
<1>5. ASSUME NEW n \in 0..(Len(f) - 1), n \in T PROVE n + 1 \in T
  BY <1>1, <1>2, <1>3, <1>5
<1>6. \A n \in 0..Len(f) : n \in T
  <2> HIDE DEF T
  <2> QED BY <1>3, <1>4, <1>5, UpTo
<1>7. h[Len(f)] = g[Len(f)]
  BY <1>3, <1>6
<1>8. h[Len(f) + 1] = h[Len(f)] + e[Len(f) + 1]
  <2>1. Len(f) + 1 \in 1..Len(e) /\ (Len(f) + 1) - 1 = Len(f)
    BY <1>3
  <2> QED BY <1>2, <2>1
<1> QED BY <1>1, <1>2, <1>7, <1>8

\* Summands that are zero from some place on.
LEMMA SumOfHead ==
  ASSUME NEW f \in Seq(Int), NEW e \in Seq(Int), Len(e) <= Len(f),
         \A n \in 1..Len(f) : f[n] = IF n <= Len(e) THEN e[n] ELSE 0
  PROVE  Sum(f) = Sum(e)
<1>1. PICK g \in [0..Len(f) -> Int] :
         /\ g[0] = 0 /\ Sum(f) = g[Len(f)]
         /\ \A n \in 1..Len(f) : g[n] = g[n - 1] + f[n]
  BY SumOf
<1>2. PICK h \in [0..Len(e) -> Int] :
         /\ h[0] = 0 /\ Sum(e) = h[Len(e)]
         /\ \A n \in 1..Len(e) : h[n] = h[n - 1] + e[n]
  BY SumOf
<1> DEFINE T == {n \in 0..Len(f) : g[n] = IF n <= Len(e) THEN h[n] ELSE h[Len(e)]}
<1>3. Len(f) \in Nat /\ Len(e) \in Nat
  OBVIOUS
<1>4. 0 \in T
  BY <1>1, <1>2, <1>3
<1>5. ASSUME NEW n \in 0..(Len(f) - 1), n \in T PROVE n + 1 \in T
  <2>1. g[n + 1] = g[n] + f[n + 1]
    BY <1>1, <1>3
  <2>2. CASE n + 1 <= Len(e)
    BY <1>2, <1>3, <1>5, <2>1, <2>2
  <2>3. CASE ~(n + 1 <= Len(e))
    <3>1. f[n + 1] = 0 /\ g[n] = h[Len(e)]
      BY <1>3, <1>5, <2>3
    <3>2. h[Len(e)] \in Int
      BY <1>2, <1>3
    <3>3. g[n + 1] = h[Len(e)]
      BY <2>1, <3>1, <3>2
    <3> QED BY <1>3, <2>3, <3>3
  <2> QED BY <2>2, <2>3
<1>6. \A n \in 0..Len(f) : n \in T
  <2> HIDE DEF T
  <2> QED BY <1>3, <1>4, <1>5, UpTo
<1>7. g[Len(f)] = h[Len(e)]
  BY <1>3, <1>6, SMTT(30)
<1> QED BY <1>1, <1>2, <1>7

\* Summands that add up to the same everywhere.
LEMMA SumsAddUp ==
  ASSUME NEW a \in Seq(Int), NEW b \in Seq(Int), NEW c \in Seq(Int), NEW m \in Int,
         Len(b) = Len(a), Len(c) = Len(a),
         \A n \in 1..Len(a) : a[n] + b[n] + c[n] = m
  PROVE  Sum(a) + Sum(b) + Sum(c) = Len(a) * m
<1>1. PICK g \in [0..Len(a) -> Int] :
         /\ g[0] = 0 /\ Sum(a) = g[Len(a)]
         /\ \A n \in 1..Len(a) : g[n] = g[n - 1] + a[n]
  BY SumOf
<1>2. PICK h \in [0..Len(a) -> Int] :
         /\ h[0] = 0 /\ Sum(b) = h[Len(a)]
         /\ \A n \in 1..Len(a) : h[n] = h[n - 1] + b[n]
  <2>1. \E h \in [0..Len(b) -> Int] :
           /\ h[0] = 0 /\ Sum(b) = h[Len(b)]
           /\ \A n \in 1..Len(b) : h[n] = h[n - 1] + b[n]
    BY SumOf
  <2> QED BY <2>1, Zenon
<1>3. PICK k \in [0..Len(a) -> Int] :
         /\ k[0] = 0 /\ Sum(c) = k[Len(a)]
         /\ \A n \in 1..Len(a) : k[n] = k[n - 1] + c[n]
  <2>1. \E k \in [0..Len(c) -> Int] :
           /\ k[0] = 0 /\ Sum(c) = k[Len(c)]
           /\ \A n \in 1..Len(c) : k[n] = k[n - 1] + c[n]
    BY SumOf
  <2> QED BY <2>1, Zenon
<1> DEFINE T == {n \in 0..Len(a) : g[n] + h[n] + k[n] = n * m}
<1>4. Len(a) \in Nat /\ 0 * m = 0
  OBVIOUS
<1>5. 0 \in T
  BY <1>1, <1>2, <1>3, <1>4
<1>6. ASSUME NEW n \in 0..(Len(a) - 1), n \in T PROVE n + 1 \in T
  <2>1. /\ g[n + 1] = g[n] + a[n + 1] /\ h[n + 1] = h[n] + b[n + 1]
        /\ k[n + 1] = k[n] + c[n + 1] /\ a[n + 1] + b[n + 1] + c[n + 1] = m
    BY <1>1, <1>2, <1>3, <1>4, SMTT(30)
  <2>2. (n + 1) * m = n * m + m /\ n * m \in Int
    OBVIOUS
  <2>3. g[n] + h[n] + k[n] = n * m
    BY <1>6
  <2>4. /\ a[n + 1] \in Int /\ b[n + 1] \in Int /\ c[n + 1] \in Int
        /\ g[n] \in Int /\ h[n] \in Int /\ k[n] \in Int
    <3>1. n + 1 \in 1..Len(a) /\ n \in 0..Len(a)
      BY <1>4
    <3>2. a[n + 1] \in Int /\ b[n + 1] \in Int /\ c[n + 1] \in Int
      BY <3>1
    <3>3. g[n] \in Int /\ h[n] \in Int /\ k[n] \in Int
      BY <1>1, <1>2, <1>3, <3>1
    <3> QED BY <3>2, <3>3
  <2>5. g[n + 1] + h[n + 1] + k[n + 1] = (n + 1) * m
    <3>1. g[n + 1] + h[n + 1] + k[n + 1] = n * m + m
      <4>1. PICK p \in Int, q \in Int, r \in Int : p = g[n] /\ q = h[n] /\ r = k[n]
        BY <2>4
      <4>2. PICK x \in Int, y \in Int, z \in Int :
               x = a[n + 1] /\ y = b[n + 1] /\ z = c[n + 1]
        BY <2>4
      <4>3. PICK s \in Int : s = n * m
        BY <2>2
      <4>4. p + q + r = s /\ x + y + z = m
        BY <2>1, <2>3, <4>1, <4>2, <4>3
      <4>5. g[n + 1] = p + x /\ h[n + 1] = q + y /\ k[n + 1] = r + z
        BY <2>1, <4>1, <4>2
      <4>6. g[n + 1] + h[n + 1] + k[n + 1] = s + m
        BY <4>4, <4>5
      <4> QED BY <4>3, <4>6
    <3> QED BY <2>2, <3>1
  <2> QED BY <1>4, <2>5
<1>7. \A n \in 0..Len(a) : n \in T
  <2> HIDE DEF T
  <2> QED BY <1>4, <1>5, <1>6, UpTo
<1>8. Len(a) \in T
  <2> HIDE DEF T
  <2> QED BY <1>4, <1>7
<1> QED BY <1>1, <1>2, <1>3, <1>8

-----------------------------------------------------------------------------
(* Packs. *)

\* The newest pack is still scanned, or has no room for any sequence.
NewestInv ==
  Len(room) > 0 => Len(room) \in open \/ room[Len(room)] <= 1

\* Only a valid call packs and yields.
DrawsValid == pc \in {"pack", "yield"} => Valid

PackInv == TypeOK /\ DrawsValid /\ NewestInv /\ NeighboursFill

-----------------------------------------------------------------------------
(* The slots a sequence takes. *)

LEMMA CostRange ==
  ASSUME TypeOK, Valid, NEW i \in Items
  PROVE  Cost(i) \in Nat /\ 2 <= Cost(i) /\ Cost(i) <= Capacity
<1>1. data[i].len \in Nat /\ data[i].len >= 1
  <2>1. data \in Seq(Sequence)
    BY DEF TypeOK
  <2>2. data[i] \in Sequence
    BY <2>1, ElementOfSeq DEF Items
  <2> QED BY <2>2 DEF Sequence, Valid
<1>2. PackLen \in Nat /\ PackLen >= 1
  BY DEF Valid
<1> QED BY <1>1, <1>2 DEF Cost, Tokens, AtMost, Capacity

\* What a new pack leaves of the pool: at least itself.
LEMMA EvictKeepsNewest ==
  ASSUME NEW Q \in SUBSET Nat, NEW n \in Nat, \A k \in Q : k < n,
         NEW T \in Evict(Q \cup {n})
  PROVE  T \subseteq Q \cup {n} /\ n \in T
<1>1. CASE Cardinality(Q \cup {n}) > Pool
  <2>1. PICK j \in Q \cup {n} : (\A l \in Q \cup {n} : j <= l) /\ T = (Q \cup {n}) \ {j}
    BY <1>1 DEF Evict
  <2>2. j # n
    <3>1. SUFFICES ASSUME j = n PROVE FALSE
      OBVIOUS
    <3>2. Q = {}
      BY <2>1, <3>1
    <3>3. Cardinality({n}) = 1
      BY FS_Singleton
    <3> QED BY <1>1, <3>2, <3>3
  <2> QED BY <2>1, <2>2
<1>2. CASE ~(Cardinality(Q \cup {n}) > Pool)
  BY <1>2 DEF Evict
<1> QED BY <1>1, <1>2

-----------------------------------------------------------------------------
(* Placing one sequence. *)

LEMMA PlaceStep ==
  ASSUME PackInv, NEW i \in todo, Place(i)
  PROVE  PackInv'
<1> USE DEF PackInv
<1>1. PICK j \in Fitting(i) :
        /\ packs' = [packs EXCEPT ![j] = Append(@, i)]
        /\ room' = [room EXCEPT ![j] = @ - Cost(i)]
        /\ open' = IF room'[j] <= 1 THEN open \ {j} ELSE open
  BY DEF Place
<1>2. /\ todo' = todo \ {i} /\ i \in Items /\ pc = "pack"
      /\ UNCHANGED <<data, request, pc, batch, epoch>>
  BY DEF Place, Draw, TypeOK
<1>3. /\ j \in 1..Len(room) /\ j \in 1..Len(packs) /\ j \in open
      /\ room[j] >= Cost(i) /\ Len(room) \in Nat
  BY DEF Fitting, TypeOK
<1>4. Cost(i) \in Nat /\ 2 <= Cost(i)
  BY <1>2, CostRange DEF DrawsValid
<1>5. room[j] \in Nat /\ room[j] - Cost(i) \in Nat
  BY <1>3, <1>4, ElementOfSeq, SMTT(30) DEF TypeOK
<1>6. /\ room' \in Seq(Nat) /\ Len(room') = Len(room)
      /\ \A k \in 1..Len(room) : room'[k] \in Nat /\ room'[k] <= room[k]
      /\ \A k \in 1..Len(room) : k # j => room'[k] = room[k]
  <2>1. room \in Seq(Nat)
    BY DEF TypeOK
  <2>2. room' \in Seq(Nat) /\ Len(room') = Len(room)
    BY <1>1, <1>3, <1>5, <2>1, ExceptSeq
  <2>3. \A k \in 1..Len(room) : room[k] \in Nat
    BY <2>1, ElementOfSeq
  <2>4. \A k \in 1..Len(room) : room'[k] = IF k = j THEN room[j] - Cost(i) ELSE room[k]
    BY <1>1, <2>1
  <2>5. ASSUME NEW k \in 1..Len(room)
        PROVE  room'[k] \in Nat /\ room'[k] <= room[k] /\ (k # j => room'[k] = room[k])
    <3>1. CASE k = j
      BY <1>4, <1>5, <2>4, <3>1
    <3>2. CASE k # j
      BY <2>3, <2>4, <3>2
    <3> QED BY <3>1, <3>2
  <2> QED BY <2>2, <2>5
<1>7. packs' \in Seq(Seq(Items)) /\ Len(packs') = Len(packs)
  <2>1. packs \in Seq(Seq(Items)) /\ packs[j] \in Seq(Items)
    BY <1>3, ElementOfSeq DEF TypeOK
  <2>2. Append(packs[j], i) \in Seq(Items)
    BY <1>2, <2>1, AppendProperties
  <2> QED BY <1>1, <1>3, <2>1, <2>2, ExceptSeq
<1>8. TypeOK'
  <2>1. Items' = Items
    BY <1>2 DEF Items
  <2>2. open' \subseteq open /\ DOMAIN packs' = DOMAIN packs
    BY <1>1, <1>7 DEF TypeOK
  <2> QED BY <1>2, <1>6, <1>7, <2>1, <2>2 DEF TypeOK
<1>9. NewestInv'
  <2>1. CASE Len(room) = j
    BY <1>1, <1>3, <1>6, <2>1 DEF NewestInv
  <2>2. CASE Len(room) # j
    <3>1. Len(room) > 0 => Len(room) \in 1..Len(room)
      BY <1>3
    <3>2. Len(room) > 0 => room'[Len(room)] = room[Len(room)]
      BY <1>6, <2>2, <3>1
    <3>3. Len(room) \in open => Len(room) \in open'
      BY <1>1, <2>2
    <3> QED BY <1>6, <3>2, <3>3 DEF NewestInv
  <2> QED BY <2>1, <2>2
<1>10. NeighboursFill'
  <2> SUFFICES ASSUME NEW k \in 1..(Len(packs) - 1)
               PROVE  room'[k] + room'[k + 1] < Capacity
    BY <1>7 DEF NeighboursFill, Capacity
  <2>1. room[k] + room[k + 1] < Capacity
    BY DEF NeighboursFill
  <2>4. Len(packs) = Len(room) /\ Len(room) \in Nat /\ room \in Seq(Nat)
    BY <1>3 DEF TypeOK
  <2>5. k \in 1..Len(room) /\ k + 1 \in 1..Len(room)
    BY <2>4
  <2>2. /\ room[k] \in Nat /\ room[k + 1] \in Nat
    BY <2>4, <2>5, ElementOfSeq
  <2>3. room'[k] <= room[k] /\ room'[k + 1] <= room[k + 1]
        /\ room'[k] \in Nat /\ room'[k + 1] \in Nat
    BY <1>6, <2>5
  <2>6. Capacity \in Int
    BY DEF Capacity
  <2> QED BY <2>1, <2>2, <2>3, <2>6
<1>11. DrawsValid'
  BY <1>2 DEF DrawsValid, Valid, Items
<1> QED BY <1>8, <1>9, <1>10, <1>11

LEMMA OpenPackStep ==
  ASSUME PackInv, NEW i \in todo, OpenPack(i)
  PROVE  PackInv'
<1> USE DEF PackInv
<1> DEFINE n == Len(packs) + 1
<1>1. /\ packs' = Append(packs, <<i>>) /\ room' = Append(room, Capacity - Cost(i))
      /\ open' \in Evict(open \cup {n}) /\ Fitting(i) = {}
      /\ todo' = todo \ {i} /\ i \in Items /\ pc = "pack"
      /\ UNCHANGED <<data, request, pc, batch, epoch>>
  BY DEF OpenPack, Draw, TypeOK
<1>2. /\ room \in Seq(Nat) /\ Len(room) = Len(packs) /\ packs \in Seq(Seq(Items))
      /\ Len(packs) \in Nat /\ open \subseteq 1..Len(packs)
  BY DEF TypeOK
<1>3. Cost(i) \in Nat /\ 2 <= Cost(i) /\ Cost(i) <= Capacity /\ Capacity \in Nat
  BY <1>1, CostRange DEF DrawsValid, Capacity
<1>4. /\ room' \in Seq(Nat) /\ Len(room') = n /\ room'[n] = Capacity - Cost(i)
      /\ \A k \in 1..Len(room) : room'[k] = room[k]
  <2>1. Capacity - Cost(i) \in Nat
    BY <1>3
  <2> QED BY <1>1, <1>2, <2>1, AppendProperties
<1>5. packs' \in Seq(Seq(Items)) /\ Len(packs') = n
  <2>1. <<i>> \in Seq(Items)
    BY <1>1
  <2> QED BY <1>1, <1>2, <2>1, AppendProperties
<1>6. open' \subseteq 1..n /\ n \in open'
  <2>1. \A k \in open : k < n
    BY <1>2
  <2>2. open' \subseteq open \cup {n} /\ n \in open'
    <3> HIDE DEF n
    <3>1. n \in Nat /\ open \in SUBSET Nat
      BY <1>2 DEF n
    <3> QED BY <1>1, <2>1, <3>1, EvictKeepsNewest
  <2> QED BY <1>2, <2>2
<1>7. TypeOK'
  <2>1. Items' = Items
    BY <1>1 DEF Items
  <2> QED BY <1>1, <1>4, <1>5, <1>6, <2>1 DEF TypeOK
<1>8. NewestInv'
  BY <1>4, <1>6 DEF NewestInv
<1>9. NeighboursFill'
  <2> SUFFICES ASSUME NEW k \in 1..(n - 1)
               PROVE  room'[k] + room'[k + 1] < Capacity
    BY <1>5 DEF NeighboursFill, Capacity
  <2>1. CASE k \in 1..(Len(packs) - 1)
    <3>1. room[k] + room[k + 1] < Capacity
      BY <2>1 DEF NeighboursFill
    <3>2. k \in 1..Len(room) /\ k + 1 \in 1..Len(room)
      BY <1>2, <2>1
    <3> QED BY <1>4, <3>1, <3>2
  <2>2. CASE k + 1 = n
    <3>1. k = Len(room) /\ Len(room) > 0 /\ room[k] \in Nat /\ room'[k] = room[k]
      BY <1>2, <1>4, <2>2, ElementOfSeq
    <3>2. room[k] < Cost(i)
      BY <1>1, <1>2, <1>3, <3>1 DEF NewestInv, Fitting
    <3> QED BY <1>3, <1>4, <2>2, <3>1, <3>2
  <2> QED BY <1>2, <2>1, <2>2
<1>10. DrawsValid'
  BY <1>1 DEF DrawsValid, Valid, Items
<1> QED BY <1>7, <1>8, <1>9, <1>10

-----------------------------------------------------------------------------
(* The invariant. *)

LEMMA PackInit == Init => PackInv
<1> SUFFICES ASSUME Init PROVE PackInv
  OBVIOUS
<1>1. packs = <<>> /\ room = <<>> /\ Len(packs) = 0 /\ Len(room) = 0 /\ DOMAIN packs = {}
  BY DEF Init
<1>2. packs \in Seq(Seq(Items)) /\ room \in Seq(Nat)
  BY <1>1
<1> QED BY <1>1, <1>2 DEF Init, PackInv, TypeOK, DrawsValid, NewestInv, NeighboursFill

\* A new shuffle starts from no packs.
LEMMA ShuffleStep ==
  ASSUME PackInv, ShuffleAnew, Valid, data' = data, request' = request,
         epoch' \in 0..(Epochs - 1)
  PROVE  PackInv'
<1>1. /\ packs' = <<>> /\ room' = <<>> /\ open' = {} /\ todo' = Items
      /\ pc' = "pack" /\ batch' = 0
  BY DEF ShuffleAnew
<1>2. packs' \in Seq(Seq(Items')) /\ room' \in Seq(Nat) /\ Len(room') = 0 /\ Len(packs') = 0
      /\ DOMAIN packs' = {}
  BY <1>1
<1>3. Items' = Items /\ Valid'
  BY DEF Items, Valid
<1> QED BY <1>1, <1>2, <1>3
    DEF PackInv, TypeOK, DrawsValid, NewestInv, NeighboursFill

LEMMA PackStep == PackInv /\ [Next]_vars => PackInv'
<1> SUFFICES ASSUME PackInv, [Next]_vars PROVE PackInv'
  OBVIOUS
<1>1. CASE Refuse
  BY <1>1 DEF Refuse, packing, PackInv, TypeOK, DrawsValid, NewestInv, NeighboursFill,
              Valid, Items
<1>2. CASE Accept
  BY <1>2, ShuffleStep DEF Accept, PackInv, TypeOK
<1>3. CASE Packed
  BY <1>3 DEF Packed, packing, PackInv, TypeOK, DrawsValid, NewestInv, NeighboursFill,
              Valid, Items
<1>4. CASE YieldBatch
  BY <1>4 DEF YieldBatch, packing, PackInv, TypeOK, DrawsValid, NewestInv, NeighboursFill,
              Valid, Items
<1>5. CASE NextEpoch
  <2>1. Valid
    BY <1>5 DEF NextEpoch, PackInv, DrawsValid
  <2>2. epoch' \in 0..(Epochs - 1)
    BY <1>5 DEF NextEpoch, PackInv, TypeOK
  <2> QED BY <1>5, <2>1, <2>2, ShuffleStep DEF NextEpoch
<1>6. CASE Finish
  BY <1>6 DEF Finish, packing, PackInv, TypeOK, DrawsValid, NewestInv, NeighboursFill,
              Valid, Items
<1>7. ASSUME NEW i \in todo, Place(i) PROVE PackInv'
  BY <1>7, PlaceStep
<1>8. ASSUME NEW i \in todo, OpenPack(i) PROVE PackInv'
  BY <1>8, OpenPackStep
<1>9. CASE UNCHANGED vars
  BY <1>9 DEF vars, packing, PackInv, TypeOK, DrawsValid, NewestInv, NeighboursFill,
              Valid, Items
<1> QED BY <1>1, <1>2, <1>3, <1>4, <1>5, <1>6, <1>7, <1>8, <1>9 DEF Next

LEMMA PackInvariant == Spec => []PackInv
  BY PackInit, PackStep, PTL DEF Spec

\* The type invariant of packing.
THEOREM PackingTypeCorrect == Spec => []TypeOK
<1>1. PackInv => TypeOK
  BY DEF PackInv
<1> QED BY <1>1, PackInvariant, PTL

\* Two packs in a row leave less than one row free between them.
THEOREM PacksFill == Spec => []NeighboursFill
<1>1. PackInv => NeighboursFill
  BY DEF PackInv
<1> QED BY <1>1, PackInvariant, PTL

-----------------------------------------------------------------------------
(* The slots of a pack. *)

SlotsOf(q) == [s \in DOMAIN q |-> Cost(q[s])]
TokensOf(q) == [s \in DOMAIN q |-> Tokens(q[s])]

LEMMA TokensType ==
  ASSUME TypeOK, NEW i \in Items
  PROVE  Tokens(i) \in Nat /\ Cost(i) \in Nat /\ Cost(i) = Tokens(i) + 1
<1>1. data \in Seq(Sequence)
  BY DEF TypeOK
<1>2. data[i] \in Sequence
  BY <1>1, ElementOfSeq DEF Items
<1> QED BY <1>2 DEF Sequence, Cost, Tokens, AtMost

LEMMA PackType ==
  ASSUME TypeOK, NEW k \in DOMAIN packs
  PROVE  /\ packs[k] \in Seq(Items) /\ Len(packs[k]) \in Nat
         /\ DOMAIN packs[k] = 1..Len(packs[k])
         /\ \A s \in DOMAIN packs[k] : packs[k][s] \in Items
<1>1. packs[k] \in Seq(Items)
  BY ElementOfSeq DEF TypeOK
<1> QED BY <1>1

LEMMA SlotsType ==
  ASSUME TypeOK, NEW q \in Seq(Items)
  PROVE  /\ SlotsOf(q) \in Seq(Int) /\ Len(SlotsOf(q)) = Len(q)
         /\ TokensOf(q) \in Seq(Int) /\ Len(TokensOf(q)) = Len(q)
         /\ \A s \in 1..Len(q) : SlotsOf(q)[s] = Cost(q[s]) /\ TokensOf(q)[s] = Tokens(q[s])
<1>1. \A s \in 1..Len(q) : Cost(q[s]) \in Int /\ Tokens(q[s]) \in Int
  BY TokensType
<1>2. DOMAIN q = 1..Len(q) /\ Len(q) \in Nat
  OBVIOUS
<1> QED BY <1>1, <1>2 DEF SlotsOf, TokensOf

\* One more sequence takes its slots.
LEMMA SlotsGrow ==
  ASSUME TypeOK, NEW q \in Seq(Items), NEW i \in Items
  PROVE  Sum(SlotsOf(Append(q, i))) = Sum(SlotsOf(q)) + Cost(i)
<1> DEFINE r == Append(q, i)
<1>1. /\ r \in Seq(Items) /\ Len(r) = Len(q) + 1 /\ r[Len(r)] = i
      /\ \A s \in 1..Len(q) : r[s] = q[s]
  BY AppendProperties
<1>2. Len(q) \in Nat /\ Len(r) \in 1..Len(r) /\ 1..Len(q) \subseteq 1..Len(r)
  BY <1>1
<1> HIDE DEF r
<1>3. /\ SlotsOf(r) \in Seq(Int) /\ SlotsOf(q) \in Seq(Int)
      /\ Len(SlotsOf(r)) = Len(SlotsOf(q)) + 1 /\ Len(SlotsOf(q)) = Len(q)
      /\ Len(SlotsOf(r)) = Len(r)
  BY <1>1, SlotsType
<1>4. \A s \in 1..Len(SlotsOf(q)) : SlotsOf(r)[s] = SlotsOf(q)[s]
  <2>1. \A s \in 1..Len(r) : SlotsOf(r)[s] = Cost(r[s])
    BY <1>1, SlotsType
  <2>2. \A s \in 1..Len(q) : SlotsOf(q)[s] = Cost(q[s])
    BY SlotsType
  <2>3. \A s \in 1..Len(q) : SlotsOf(r)[s] = SlotsOf(q)[s]
    BY <1>1, <1>2, <2>1, <2>2
  <2> QED BY <1>3, <2>3
<1>5. SlotsOf(r)[Len(SlotsOf(r))] = Cost(i)
  <2>1. \A s \in 1..Len(r) : SlotsOf(r)[s] = Cost(r[s])
    BY <1>1, SlotsType
  <2>2. SlotsOf(r)[Len(r)] = Cost(r[Len(r)])
    BY <1>2, <2>1
  <2> QED BY <1>1, <1>3, <2>2
<1>6. Sum(SlotsOf(r)) = Sum(SlotsOf(q)) + SlotsOf(r)[Len(SlotsOf(r))]
  BY <1>3, <1>4, SumGrows
<1> QED BY <1>5, <1>6 DEF r

LEMMA SlotsOfOne ==
  ASSUME TypeOK, NEW i \in Items
  PROVE  Sum(SlotsOf(<<i>>)) = Cost(i)
<1>1. <<>> \in Seq(Items) /\ Append(<<>>, i) = <<i>> /\ Len(<<>>) = 0
  OBVIOUS
<1>2. Sum(SlotsOf(<<>>)) = 0
  <2>1. SlotsOf(<<>>) \in Seq(Int) /\ Len(SlotsOf(<<>>)) = 0
    BY <1>1, SlotsType
  <2> QED BY <2>1, SumOfNone
<1>3. Sum(SlotsOf(Append(<<>>, i))) = Sum(SlotsOf(<<>>)) + Cost(i)
  BY <1>1, SlotsGrow
<1> QED BY <1>1, <1>2, <1>3, TokensType

LEMMA UsedIs ==
  ASSUME NEW k PROVE Used(k) = Sum(SlotsOf(packs[k]))
  BY DEF Used, SlotsOf

-----------------------------------------------------------------------------
(* Every sequence in one slot, every slot counted. *)

\* What is drawn is in one slot of one pack, what is not yet drawn in none.
Once(left, q) ==
  /\ \A k \in DOMAIN q : \A s \in DOMAIN q[k] : q[k][s] \notin left
  /\ \A i \in Items \ left : \E k \in DOMAIN q : \E s \in DOMAIN q[k] : q[k][s] = i
  /\ \A k \in DOMAIN q, l \in DOMAIN q : \A s \in DOMAIN q[k], t \in DOMAIN q[l] :
       q[k][s] = q[l][t] => k = l /\ s = t

OnceInv == pc \in {"pack", "yield", "raised", "done"} => Once(todo, packs)

BatchInv == /\ pc = "pack" => batch = 0
            /\ pc \in {"yield", "done"} => batch <= Batches
            /\ pc = "done" => batch = Batches

DatasetInv == PackInv /\ RoomIsExact /\ OnceInv /\ BatchInv

LEMMA BatchesType ==
  ASSUME TypeOK
  PROVE  /\ Batches \in Nat /\ Batches * BatchSize \in Nat
         /\ Batches * BatchSize <= Len(packs) /\ Len(packs) < Batches * BatchSize + BatchSize
<1>1. PICK n \in Nat, d \in Nat \ {0} : n = Len(packs) /\ d = BatchSize
  BY DEF TypeOK
<1>2. n \div d \in Nat /\ (n \div d) * d <= n
  OBVIOUS
<1>3. n < (n \div d) * d + d /\ (n \div d) * d \in Nat
  OBVIOUS
<1> QED BY <1>1, <1>2, <1>3 DEF Batches

LEMMA PlaceKeeps ==
  ASSUME DatasetInv, NEW i \in todo, Place(i)
  PROVE  DatasetInv'
<1> USE DEF DatasetInv
<1>1. PICK j \in Fitting(i) :
        /\ packs' = [packs EXCEPT ![j] = Append(@, i)]
        /\ room' = [room EXCEPT ![j] = @ - Cost(i)]
  BY DEF Place
<1>2. /\ todo' = todo \ {i} /\ i \in Items /\ pc = "pack" /\ pc' = "pack" /\ data' = data
      /\ batch' = batch
  BY DEF Place, Draw, TypeOK, PackInv
<1>3. /\ j \in DOMAIN packs /\ room[j] >= Cost(i) /\ TypeOK /\ DOMAIN room = DOMAIN packs
      /\ DOMAIN packs' = DOMAIN packs /\ room \in Seq(Nat)
  <2>1. TypeOK /\ j \in open /\ room[j] >= Cost(i)
    BY <1>1 DEF Fitting, PackInv
  <2>2. j \in DOMAIN packs /\ room \in Seq(Nat) /\ DOMAIN room = DOMAIN packs
    BY <2>1 DEF TypeOK
  <2> QED BY <1>1, <2>1, <2>2
<1>4. PackInv'
  BY PlaceStep
<1>5. /\ packs[j] \in Seq(Items) /\ packs'[j] = Append(packs[j], i)
      /\ \A k \in DOMAIN packs : k # j => packs'[k] = packs[k] /\ room'[k] = room[k]
      /\ room'[j] = room[j] - Cost(i) /\ room[j] \in Nat
  BY <1>1, <1>3, PackType
<1>6. RoomIsExact'
  <2>1. Cost(i) \in Nat
    BY <1>2, <1>3, TokensType
  <2>2. \A k \in DOMAIN packs : room[k] >= 0 /\ room[k] = Capacity - Sum(SlotsOf(packs[k]))
    BY UsedIs DEF RoomIsExact
  <2>3. Sum(SlotsOf(packs'[j])) = Sum(SlotsOf(packs[j])) + Cost(i)
    BY <1>2, <1>3, <1>5, SlotsGrow
  <2>4. Sum(SlotsOf(packs[j])) \in Int /\ Capacity \in Int
    <3>1. SlotsOf(packs[j]) \in Seq(Int)
      BY <1>3, <1>5, SlotsType
    <3> QED BY <3>1, SumType DEF Capacity
  <2>5. \A k \in DOMAIN packs : room'[k] >= 0 /\ room'[k] = Capacity - Sum(SlotsOf(packs'[k]))
    <3> SUFFICES ASSUME NEW k \in DOMAIN packs
                 PROVE  room'[k] >= 0 /\ room'[k] = Capacity - Sum(SlotsOf(packs'[k]))
      OBVIOUS
    <3>1. CASE k = j
      <4>1. PICK a \in Int, u \in Int, c \in Nat :
              a = Capacity /\ u = Sum(SlotsOf(packs[j])) /\ c = Cost(i)
        BY <2>1, <2>4
      <4>2. room[j] = a - u /\ room[j] >= c /\ Sum(SlotsOf(packs'[j])) = u + c
        BY <1>3, <2>2, <2>3, <4>1
      <4>3. room'[j] = a - u - c /\ room'[j] >= 0
        BY <1>5, <4>1, <4>2
      <4> QED BY <3>1, <4>1, <4>2, <4>3
    <3>2. CASE k # j
      BY <1>5, <2>2, <3>2
    <3> QED BY <3>1, <3>2
  <2>6. \A k : Used(k)' = Sum(SlotsOf(packs'[k]))
    BY <1>2 DEF Used, SlotsOf, Cost, Tokens
  <2> QED BY <1>3, <2>5, <2>6 DEF RoomIsExact, Capacity
<1>7. Once(todo', packs')
  <2>1. Once(todo, packs)
    BY <1>2 DEF OnceInv
  <2>2. /\ DOMAIN packs[j] = 1..Len(packs[j]) /\ Len(packs[j]) \in Nat
        /\ DOMAIN packs'[j] = 1..(Len(packs[j]) + 1)
        /\ packs'[j][Len(packs[j]) + 1] = i
        /\ \A s \in DOMAIN packs[j] : packs'[j][s] = packs[j][s]
    BY <1>2, <1>5, AppendProperties
  <2> DEFINE n == Len(packs[j]) + 1
  <2>3. /\ n \in DOMAIN packs'[j] /\ n \notin DOMAIN packs[j] /\ packs'[j][n] = i
        /\ DOMAIN packs'[j] = DOMAIN packs[j] \cup {n}
    BY <2>2
  <2> HIDE DEF n
  <2>4. \A k \in DOMAIN packs : \A s \in DOMAIN packs'[k] :
          \/ k = j /\ s = n
          \/ s \in DOMAIN packs[k] /\ packs'[k][s] = packs[k][s]
    BY <1>5, <2>2, <2>3
  <2>5. \A k \in DOMAIN packs : \A s \in DOMAIN packs[k] :
          s \in DOMAIN packs'[k] /\ packs'[k][s] = packs[k][s]
    BY <1>5, <2>2, <2>3
  <2>6. \A k \in DOMAIN packs : \A s \in DOMAIN packs[k] : packs[k][s] # i
    BY <2>1 DEF Once
  <2>7. \A k \in DOMAIN packs' : \A s \in DOMAIN packs'[k] : packs'[k][s] \notin todo'
    BY <1>2, <1>3, <2>1, <2>3, <2>4 DEF Once
  <2>8. \A x \in Items \ todo' :
          \E k \in DOMAIN packs' : \E s \in DOMAIN packs'[k] : packs'[k][s] = x
    <3> SUFFICES ASSUME NEW x \in Items \ todo'
                 PROVE  \E k \in DOMAIN packs : \E s \in DOMAIN packs'[k] : packs'[k][s] = x
      BY <1>3
    <3>1. CASE x = i
      BY <1>3, <2>3, <3>1
    <3>2. CASE x # i
      <4>1. PICK k \in DOMAIN packs : \E s \in DOMAIN packs[k] : packs[k][s] = x
        BY <1>2, <2>1, <3>2 DEF Once
      <4> QED BY <2>5, <4>1
    <3> QED BY <3>1, <3>2
  <2>9. \A k \in DOMAIN packs', l \in DOMAIN packs' :
          \A s \in DOMAIN packs'[k], t \in DOMAIN packs'[l] :
            packs'[k][s] = packs'[l][t] => k = l /\ s = t
    BY <1>3, <2>1, <2>3, <2>4, <2>6, SMTT(30) DEF Once
  <2> QED BY <2>7, <2>8, <2>9 DEF Once
<1>8. OnceInv' /\ BatchInv'
  <2>1. Items' = Items
    BY <1>2 DEF Items
  <2> QED BY <1>2, <1>7, <2>1 DEF OnceInv, Once, BatchInv
<1> QED BY <1>4, <1>6, <1>8

LEMMA OpenPackKeeps ==
  ASSUME DatasetInv, NEW i \in todo, OpenPack(i)
  PROVE  DatasetInv'
<1> USE DEF DatasetInv
<1> DEFINE n == Len(packs) + 1
<1>1. /\ packs' = Append(packs, <<i>>) /\ room' = Append(room, Capacity - Cost(i))
      /\ todo' = todo \ {i} /\ i \in Items /\ pc = "pack" /\ pc' = "pack" /\ data' = data
      /\ batch' = batch
  BY DEF OpenPack, Draw, TypeOK, PackInv
<1>2. /\ TypeOK /\ Valid /\ packs \in Seq(Seq(Items)) /\ room \in Seq(Nat)
      /\ Len(room) = Len(packs)
      /\ Len(packs) \in Nat /\ <<i>> \in Seq(Items)
  BY <1>1 DEF TypeOK, PackInv, DrawsValid
<1>3. PackInv'
  BY OpenPackStep
<1>4. Cost(i) \in Nat /\ Cost(i) <= Capacity /\ Capacity \in Int
  BY <1>1, <1>2, CostRange DEF Capacity
<1>5. /\ DOMAIN packs = 1..Len(packs) /\ DOMAIN packs' = 1..n
      /\ packs'[n] = <<i>> /\ room'[n] = Capacity - Cost(i)
      /\ \A k \in DOMAIN packs : packs'[k] = packs[k] /\ room'[k] = room[k]
  <2>1. Capacity - Cost(i) \in Nat
    BY <1>4
  <2> QED BY <1>1, <1>2, <2>1, AppendProperties
<1>6. n \in DOMAIN packs' /\ DOMAIN packs' = DOMAIN packs \cup {n} /\ n \notin DOMAIN packs
  BY <1>2, <1>5
<1> HIDE DEF n
<1>7. RoomIsExact'
  <2>1. \A k \in DOMAIN packs : room[k] >= 0 /\ room[k] = Capacity - Sum(SlotsOf(packs[k]))
    BY UsedIs DEF RoomIsExact
  <2>2. Sum(SlotsOf(packs'[n])) = Cost(i)
    BY <1>1, <1>2, <1>5, SlotsOfOne
  <2>3. \A k \in DOMAIN packs' : room'[k] >= 0 /\ room'[k] = Capacity - Sum(SlotsOf(packs'[k]))
    <3> SUFFICES ASSUME NEW k \in DOMAIN packs'
                 PROVE  room'[k] >= 0 /\ room'[k] = Capacity - Sum(SlotsOf(packs'[k]))
      OBVIOUS
    <3>1. CASE k = n
      BY <1>4, <1>5, <2>2, <3>1
    <3>2. CASE k # n
      BY <1>5, <1>6, <2>1, <3>2
    <3> QED BY <3>1, <3>2
  <2>4. \A k : Used(k)' = Sum(SlotsOf(packs'[k]))
    BY <1>1 DEF Used, SlotsOf, Cost, Tokens
  <2> QED BY <2>3, <2>4 DEF RoomIsExact, Capacity
<1>8. Once(todo', packs')
  <2>1. Once(todo, packs)
    BY <1>1 DEF OnceInv
  <2>2. DOMAIN packs'[n] = {1} /\ packs'[n][1] = i
    BY <1>5
  <2>3. \A k \in DOMAIN packs' : \A s \in DOMAIN packs'[k] :
          \/ k = n /\ s = 1
          \/ k \in DOMAIN packs /\ s \in DOMAIN packs[k] /\ packs'[k][s] = packs[k][s]
    BY <1>5, <1>6, <2>2
  <2>4. \A k \in DOMAIN packs : \A s \in DOMAIN packs[k] : packs[k][s] # i
    BY <2>1 DEF Once
  <2>5. \A k \in DOMAIN packs' : \A s \in DOMAIN packs'[k] : packs'[k][s] \notin todo'
    BY <1>1, <2>1, <2>2, <2>3 DEF Once
  <2>6. \A x \in Items \ todo' :
          \E k \in DOMAIN packs' : \E s \in DOMAIN packs'[k] : packs'[k][s] = x
    <3> SUFFICES ASSUME NEW x \in Items \ todo'
                 PROVE  \E k \in DOMAIN packs' : \E s \in DOMAIN packs'[k] : packs'[k][s] = x
      OBVIOUS
    <3>1. CASE x = i
      BY <1>6, <2>2, <3>1
    <3>2. CASE x # i
      <4>1. PICK k \in DOMAIN packs : \E s \in DOMAIN packs[k] : packs[k][s] = x
        BY <1>1, <2>1, <3>2 DEF Once
      <4> QED BY <1>5, <1>6, <4>1
    <3> QED BY <3>1, <3>2
  <2>7. \A k \in DOMAIN packs', l \in DOMAIN packs' :
          \A s \in DOMAIN packs'[k], t \in DOMAIN packs'[l] :
            packs'[k][s] = packs'[l][t] => k = l /\ s = t
    BY <2>1, <2>2, <2>3, <2>4 DEF Once
  <2> QED BY <2>5, <2>6, <2>7 DEF Once
<1>9. OnceInv' /\ BatchInv'
  <2>1. Items' = Items
    BY <1>1 DEF Items
  <2> QED BY <1>1, <1>8, <2>1 DEF OnceInv, Once, BatchInv
<1> QED BY <1>3, <1>7, <1>9

LEMMA ShuffleKeeps ==
  ASSUME ShuffleAnew, data' = data
  PROVE  RoomIsExact' /\ OnceInv' /\ BatchInv'
<1>1. packs' = <<>> /\ todo' = Items /\ pc' = "pack" /\ Items' = Items /\ DOMAIN packs' = {}
      /\ batch' = 0
  BY DEF ShuffleAnew, Items
<1> QED BY <1>1 DEF RoomIsExact, OnceInv, Once, BatchInv

\* Nothing is packed and no batch is taken back.
LEMMA RestKeeps ==
  ASSUME DatasetInv, UNCHANGED <<data, todo, packs, room>>,
         pc' \in {"pack", "yield", "raised", "done"} =>
           pc \in {"pack", "yield", "raised", "done"},
         BatchInv'
  PROVE  RoomIsExact' /\ OnceInv' /\ BatchInv'
<1>1. Items' = Items /\ \A k : Used(k)' = Used(k)
  BY DEF Items, Used, Cost, Tokens
<1>2. RoomIsExact'
  BY <1>1 DEF DatasetInv, RoomIsExact, Capacity
<1>3. OnceInv'
  BY <1>1 DEF DatasetInv, OnceInv, Once
<1> QED BY <1>2, <1>3

LEMMA DatasetInit == Init => DatasetInv
<1> SUFFICES ASSUME Init PROVE DatasetInv
  OBVIOUS
<1>1. DOMAIN packs = {} /\ pc = "call"
  BY DEF Init
<1> QED BY <1>1, PackInit DEF DatasetInv, RoomIsExact, OnceInv, BatchInv

LEMMA DatasetStep == DatasetInv /\ [Next]_vars => DatasetInv'
<1> SUFFICES ASSUME DatasetInv, [Next]_vars PROVE DatasetInv'
  OBVIOUS
<1>0. PackInv'
  BY PackStep DEF DatasetInv
<1>1. CASE Refuse
  <2>1. BatchInv'
    BY <1>1 DEF Refuse, BatchInv
  <2> QED BY <1>0, <1>1, <2>1, RestKeeps DEF Refuse, packing, DatasetInv
<1>2. CASE Accept
  BY <1>0, <1>2, ShuffleKeeps DEF Accept, DatasetInv
<1>3. CASE Packed
  <2>1. BatchInv'
    <3>1. pc = "pack" /\ batch' = batch /\ Batches' = Batches /\ pc' \in {"raised", "yield"}
      BY <1>3 DEF Packed, packing, Batches
    <3>2. Batches \in Nat /\ batch = 0
      BY <3>1, BatchesType DEF DatasetInv, PackInv, BatchInv
    <3> QED BY <3>1, <3>2 DEF BatchInv
  <2> QED BY <1>0, <1>3, <2>1, RestKeeps DEF Packed, packing, DatasetInv
<1>4. CASE YieldBatch
  <2>1. BatchInv'
    BY <1>4 DEF YieldBatch, BatchInv, packing, Batches, DatasetInv, PackInv, TypeOK
  <2> QED BY <1>0, <1>4, <2>1, RestKeeps DEF YieldBatch, packing, DatasetInv
<1>5. CASE NextEpoch
  BY <1>0, <1>5, ShuffleKeeps DEF NextEpoch, DatasetInv
<1>6. CASE Finish
  <2>1. BatchInv'
    BY <1>6 DEF Finish, BatchInv, packing, Batches, DatasetInv, PackInv, TypeOK
  <2> QED BY <1>0, <1>6, <2>1, RestKeeps DEF Finish, packing, DatasetInv
<1>7. ASSUME NEW i \in todo, Place(i) PROVE DatasetInv'
  BY <1>7, PlaceKeeps
<1>8. ASSUME NEW i \in todo, OpenPack(i) PROVE DatasetInv'
  BY <1>8, OpenPackKeeps
<1>9. CASE UNCHANGED vars
  <2>1. BatchInv'
    BY <1>9 DEF vars, BatchInv, packing, Batches, DatasetInv
  <2> QED BY <1>0, <1>9, <2>1, RestKeeps DEF vars, packing, DatasetInv
<1> QED BY <1>1, <1>2, <1>3, <1>4, <1>5, <1>6, <1>7, <1>8, <1>9 DEF Next

-----------------------------------------------------------------------------
(* The segments of a row. *)

\* A row that is cut at ascending places.
LEMMA CutsAscend ==
  ASSUME NEW n \in Nat, NEW b \in [1..(n + 1) -> Nat],
         \A s \in 1..n : b[s] < b[s + 1],
         NEW s \in 1..(n + 1), NEW t \in 1..(n + 1), s < t
  PROVE  b[s] < b[t]
<1> DEFINE T == {m \in 0..(n - s) : b[s] < b[s + m + 1]}
<1>1. n - s \in Nat /\ t - s - 1 \in 0..(n - s)
  OBVIOUS
<1>2. 0 \in T
  BY <1>1
<1>3. ASSUME NEW m \in 0..(n - s - 1), m \in T PROVE m + 1 \in T
  <2>1. b[s] < b[s + m + 1]
    BY <1>3
  <2>2. s + m + 1 \in 1..n /\ (s + m + 1) + 1 = s + (m + 1) + 1
    BY <1>1
  <2>3. b[s + m + 1] < b[s + (m + 1) + 1] /\ s + (m + 1) + 1 \in 1..(n + 1)
    BY <2>2
  <2>4. b[s] \in Nat /\ b[s + m + 1] \in Nat /\ b[s + (m + 1) + 1] \in Nat
    BY <2>2, <2>3
  <2>5. b[s] < b[s + (m + 1) + 1]
    BY <2>1, <2>3, <2>4
  <2> QED BY <1>1, <2>5
<1>4. \A m \in 0..(n - s) : m \in T
  <2> HIDE DEF T
  <2> QED BY <1>1, <1>2, <1>3, UpTo
<1>5. t - s - 1 \in T /\ s + (t - s - 1) + 1 = t
  <2> HIDE DEF T
  <2> QED BY <1>1, <1>4
<1> QED BY <1>5

\* A place lies in one segment, or behind the last.
LEMMA PlaceIsCut ==
  ASSUME NEW n \in Nat, NEW b \in [1..(n + 1) -> Nat], b[1] = 0,
         \A s \in 1..n : b[s] < b[s + 1], NEW p \in Nat, p < b[n + 1]
  PROVE  \E s \in 1..n : b[s] <= p /\ p < b[s + 1]
<1> DEFINE U == {t \in 1..(n + 1) : p < b[t]}
<1>1. U \in SUBSET Nat /\ U # {}
  <2>1. n + 1 \in 1..(n + 1)
    OBVIOUS
  <2>2. n + 1 \in U
    BY <2>1, Zenon
  <2>3. U \subseteq Nat
    OBVIOUS
  <2> QED BY <2>2, <2>3, Zenon
<1>2. PICK t \in U : \A u \in U : t <= u
  BY <1>1, LeastNat
<1>3. t \in 1..(n + 1) /\ p < b[t] /\ t # 1
  BY <1>2
<1>4. t - 1 \in 1..n /\ (t - 1) + 1 = t /\ t - 1 \notin U
  BY <1>2, <1>3
<1>5. b[t - 1] \in Nat /\ ~(p < b[t - 1])
  BY <1>4
<1> QED BY <1>3, <1>4, <1>5

\* Where the segments of a pack begin: each behind the slots of the one before, the tail
\* behind all of them.
LEMMA RowLayout ==
  ASSUME TypeOK, NEW k \in DOMAIN packs
  PROVE  /\ Begins(k) \in [1..(Len(packs[k]) + 1) -> Nat] /\ Begins(k)[1] = 0
         /\ \A s \in 1..Len(packs[k]) :
              /\ Begins(k)[s + 1] = Begins(k)[s] + Tokens(packs[k][s]) + 1
              /\ Begins(k)[s] < Begins(k)[s + 1]
         /\ Begins(k)[Len(packs[k]) + 1] = Used(k)
<1> DEFINE q == packs[k]
           n == Len(q)
           Cut(at) == at = [s \in 1..(Len(packs[k]) + 1) |->
                              IF s = 1 THEN 0 ELSE at[s - 1] + Tokens(packs[k][s - 1]) + 1]
<1>1. /\ q \in Seq(Items) /\ n \in Nat
      /\ \A s \in 1..n : Tokens(q[s]) \in Nat /\ Cost(q[s]) = Tokens(q[s]) + 1
  BY PackType, TokensType
<1>2. PICK g \in [0..n -> Int] :
        /\ g[0] = 0 /\ Used(k) = g[n]
        /\ \A s \in 1..n : g[s] = g[s - 1] + Cost(q[s])
  <2>1. SlotsOf(q) \in Seq(Int) /\ Len(SlotsOf(q)) = n /\ \A s \in 1..n : SlotsOf(q)[s] = Cost(q[s])
    BY <1>1, SlotsType
  <2>2. PICK g \in [0..n -> Int] :
          /\ g[0] = 0 /\ Sum(SlotsOf(q)) = g[n]
          /\ \A s \in 1..n : g[s] = g[s - 1] + SlotsOf(q)[s]
    <3> HIDE DEF n, q
    <3> QED BY <2>1, SumOf
  <2> QED BY <2>1, <2>2, UsedIs
<1> DEFINE h == [s \in 1..(n + 1) |-> g[s - 1]]
<1>3. Cut(h)
  <2>1. ASSUME NEW s \in 1..(n + 1)
        PROVE  h[s] = IF s = 1 THEN 0 ELSE h[s - 1] + Tokens(q[s - 1]) + 1
    <3>1. CASE s = 1
      BY <1>1, <1>2, <3>1
    <3>2. CASE s # 1
      <4>1. s - 1 \in 1..n /\ s - 1 \in 1..(n + 1) /\ s - 2 \in 0..n
        BY <1>1, <3>2
      <4>2. g[s - 1] = g[s - 2] + Cost(q[s - 1]) /\ g[s - 2] \in Int
        BY <1>2, <4>1
      <4>3. h[s] = g[s - 1] /\ h[s - 1] = g[s - 2]
        BY <4>1
      <4> QED BY <1>1, <3>2, <4>1, <4>2, <4>3
    <3> QED BY <3>1, <3>2
  <2> QED BY <2>1
<1>4. Cut(Begins(k))
  <2> HIDE DEF h, q, n
  <2>1. Begins(k) = CHOOSE at : Cut(at)
    BY DEF Begins
  <2> QED BY <1>3, <2>1
<1> DEFINE b == Begins(k)
           T == {m \in 0..n : b[m + 1] = g[m]}
<1> HIDE DEF h
<1>5. /\ b = [s \in 1..(n + 1) |-> b[s]] /\ b[1] = 0
      /\ \A s \in 1..n : b[s + 1] = b[s] + Tokens(q[s]) + 1
  <2>1. /\ DOMAIN b = 1..(n + 1)
        /\ \A s \in 1..(n + 1) : b[s] = IF s = 1 THEN 0 ELSE b[s - 1] + Tokens(q[s - 1]) + 1
        /\ b = [s \in 1..(n + 1) |-> b[s]]
    <3> HIDE DEF b
    <3> QED BY <1>4 DEF b
  <2>2. 1 \in 1..(n + 1) /\ \A s \in 1..n : s + 1 \in 1..(n + 1) /\ s + 1 # 1 /\ (s + 1) - 1 = s
    BY <1>1
  <2> HIDE DEF b, n, q
  <2> QED BY <2>1, <2>2
<1> HIDE DEF b
<1>6. 0 \in T
  BY <1>1, <1>2, <1>5
<1>7. ASSUME NEW m \in 0..(n - 1), m \in T PROVE m + 1 \in T
  <2>1. m + 1 \in 1..n /\ (m + 1) - 1 = m
    BY <1>1
  <2>2. b[(m + 1) + 1] = g[m] + Tokens(q[m + 1]) + 1
    BY <1>5, <1>7, <2>1
  <2>3. g[m + 1] = g[m] + Cost(q[m + 1]) /\ g[m] \in Int
    BY <1>2, <2>1
  <2> QED BY <1>1, <2>1, <2>2, <2>3
<1>8. \A m \in 0..n : m \in T
  <2> HIDE DEF T, n
  <2> QED BY <1>1, <1>6, <1>7, UpTo
<1>9. \A s \in 1..(n + 1) : b[s] = g[s - 1]
  BY <1>1, <1>8
<1> DEFINE V == {m \in 0..n : g[m] \in Nat}
<1>10. \A m \in 0..n : m \in V
  <2>1. 0 \in V
    BY <1>1, <1>2
  <2>2. ASSUME NEW m \in 0..(n - 1), m \in V PROVE m + 1 \in V
    BY <1>1, <1>2, <2>2, SMTT(30)
  <2> HIDE DEF V, n
  <2> QED BY <1>1, <2>1, <2>2, UpTo
<1>11. b \in [1..(n + 1) -> Nat]
  <2>1. \A s \in 1..(n + 1) : s - 1 \in 0..n
    BY <1>1
  <2>2. \A s \in 1..(n + 1) : b[s] \in Nat
    BY <1>9, <1>10, <2>1
  <2> HIDE DEF n
  <2> QED BY <1>5, <2>2
<1>12. b[n + 1] = Used(k)
  BY <1>1, <1>2, <1>9
<1>13. \A s \in 1..n : b[s] < b[s + 1]
  <2> SUFFICES ASSUME NEW s \in 1..n PROVE b[s] < b[s + 1]
    OBVIOUS
  <2>1. b[s + 1] = b[s] + Tokens(q[s]) + 1 /\ Tokens(q[s]) \in Nat
    BY <1>1, <1>5
  <2>2. b[s] \in Nat
    <3>1. n \in Nat /\ s \in 1..n
      BY <1>1
    <3> HIDE DEF n
    <3>2. s \in 1..(n + 1)
      BY <3>1
    <3> QED BY <1>11, <3>2
  <2> QED BY <2>1, <2>2
<1> QED BY <1>5, <1>11, <1>12, <1>13 DEF b

\* The segment that owns a position: it begins there or before, the next one behind.
LEMMA SegIdIs ==
  ASSUME TypeOK, NEW k \in DOMAIN packs, NEW p \in Position
  PROVE  LET n == Len(packs[k]) IN
         /\ SegId(k, p) \in 1..(n + 1)
         /\ Begins(k)[SegId(k, p)] <= p
         /\ SegId(k, p) # n + 1 => p < Begins(k)[SegId(k, p) + 1]
<1> DEFINE n == Len(packs[k])
           b == Begins(k)
<1>1. /\ n \in Nat /\ DOMAIN packs[k] = 1..n
      /\ b \in [1..(n + 1) -> Nat] /\ b[1] = 0
      /\ \A s \in 1..n : Tokens(packs[k][s]) \in Nat /\ b[s + 1] = b[s] + Tokens(packs[k][s]) + 1
      /\ \A s \in 1..n : b[s] < b[s + 1]
  BY PackType, TokensType, RowLayout
<1>2. p \in Nat
  BY DEF Position, TypeOK
<1>3. CASE p >= b[n + 1]
  <2>1. SegId(k, p) = n + 1
    BY <1>3 DEF SegId
  <2> QED BY <1>1, <1>2, <1>3, <2>1
<1>4. CASE ~(p >= b[n + 1])
  <2>1. PICK s \in 1..n : b[s] <= p /\ p < b[s + 1]
    <3>1. p < b[n + 1]
      BY <1>1, <1>2, <1>4
    <3> HIDE DEF n, b
    <3> QED BY <1>1, <1>2, <3>1, PlaceIsCut
  <2>2. \A t \in 1..n : b[t] <= p /\ p < b[t + 1] => t = s
    <3> SUFFICES ASSUME NEW t \in 1..n, b[t] <= p, p < b[t + 1], t # s PROVE FALSE
      OBVIOUS
    <3>1. t + 1 \in 1..(n + 1) /\ s + 1 \in 1..(n + 1) /\ s \in 1..(n + 1) /\ t \in 1..(n + 1)
      BY <1>1
    <3>2. CASE t < s
      <4>1. t + 1 = s \/ t + 1 < s
        BY <1>1, <3>2
      <4>2. b[t + 1] <= b[s]
        <5> HIDE DEF n, b
        <5>1. CASE t + 1 < s
          <6>1. b[t + 1] < b[s]
            BY <1>1, <3>1, <5>1, CutsAscend
          <6> QED BY <1>1, <3>1, <6>1, SMTT(30)
        <5> QED BY <1>1, <3>1, <4>1, <5>1
      <4> HIDE DEF n, b
      <4>3. b[t + 1] \in Nat /\ b[s] \in Nat
        BY <1>1, <3>1
      <4>4. p < b[t + 1] /\ b[s] <= p
        BY <2>1
      <4> QED BY <1>2, <4>2, <4>3, <4>4
    <3>3. CASE s < t
      <4>1. s + 1 = t \/ s + 1 < t
        BY <1>1, <3>3
      <4>2. b[s + 1] <= b[t]
        <5> HIDE DEF n, b
        <5>1. CASE s + 1 < t
          <6>1. b[s + 1] < b[t]
            BY <1>1, <3>1, <5>1, CutsAscend
          <6> QED BY <1>1, <3>1, <6>1, SMTT(30)
        <5> QED BY <1>1, <3>1, <4>1, <5>1
      <4> HIDE DEF n, b
      <4>3. b[s + 1] \in Nat /\ b[t] \in Nat
        BY <1>1, <3>1
      <4>4. p < b[s + 1] /\ b[t] <= p
        BY <2>1
      <4> QED BY <1>2, <4>2, <4>3, <4>4
    <3> QED BY <1>1, <3>2, <3>3
  <2>3. \A t \in 1..n : p <= b[t] + Tokens(packs[k][t]) <=> p < b[t + 1]
    <3> SUFFICES ASSUME NEW t \in 1..n
                 PROVE  p <= b[t] + Tokens(packs[k][t]) <=> p < b[t + 1]
      OBVIOUS
    <3>1. PICK x \in Nat, y \in Nat : x = b[t] /\ y = Tokens(packs[k][t])
      BY <1>1
    <3>2. b[t + 1] = x + y + 1
      BY <1>1, <3>1
    <3> HIDE DEF n, b
    <3> QED BY <1>2, <3>1, <3>2
  <2>4. Covering(k, p) = {s}
    <3>1. Covering(k, p) = {t \in 1..n : b[t] <= p /\ p <= b[t] + Tokens(packs[k][t])}
      BY <1>1 DEF Covering
    <3> HIDE DEF n, b
    <3> QED BY <2>1, <2>2, <2>3, <3>1
  <2>5. SegId(k, p) = s
    <3>1. SegId(k, p) = CHOOSE t \in Covering(k, p) : \A u \in Covering(k, p) : u <= t
      BY <1>4, <2>4 DEF SegId
    <3> QED BY <2>4, <3>1
  <2> HIDE DEF n, b
  <2>6. s \in 1..(n + 1)
    BY <1>1
  <2> QED BY <2>1, <2>5, <2>6 DEF n, b
<1> QED BY <1>3, <1>4

\* The segments cover a row in ascending order.
LEMMA RowAscends == TypeOK => SegmentsAscend
<1> SUFFICES ASSUME TypeOK, NEW k \in DOMAIN packs, NEW p \in Position
             PROVE  /\ SegStart(k, p) <= p
                    /\ p > 0 => /\ SegId(k, p) \in {SegId(k, p - 1), SegId(k, p - 1) + 1}
                                /\ SegStart(k, p) = IF SegId(k, p) = SegId(k, p - 1)
                                                      THEN SegStart(k, p - 1) ELSE p
  BY DEF SegmentsAscend
<1> DEFINE n == Len(packs[k])
           b == Begins(k)
           s == SegId(k, p)
<1>1. /\ n \in Nat /\ b \in [1..(n + 1) -> Nat] /\ p \in Nat
      /\ \A t \in 1..n : b[t] < b[t + 1]
  <2>1. p \in Nat
    BY DEF Position, TypeOK
  <2> QED BY <2>1, PackType, RowLayout
<1>2. s \in 1..(n + 1) /\ b[s] <= p /\ (s # n + 1 => p < b[s + 1])
  BY SegIdIs
<1>3. SegStart(k, p) = b[s]
  BY DEF SegStart
<1> SUFFICES ASSUME p > 0
             PROVE  /\ s \in {SegId(k, p - 1), SegId(k, p - 1) + 1}
                    /\ b[s] = IF s = SegId(k, p - 1) THEN SegStart(k, p - 1) ELSE p
  BY <1>2, <1>3
<1> DEFINE r == SegId(k, p - 1)
<1>4. p - 1 \in Position
  BY <1>1 DEF Position
<1>5. r \in 1..(n + 1) /\ b[r] <= p - 1 /\ (r # n + 1 => p - 1 < b[r + 1])
  BY <1>4, SegIdIs
<1>6. SegStart(k, p - 1) = b[r]
  BY DEF SegStart
<1> HIDE DEF n, b, s, r
<1>7. ~(s < r)
  <2> SUFFICES ASSUME s < r PROVE FALSE
    OBVIOUS
  <2>1. s # n + 1 /\ s + 1 \in 1..(n + 1) /\ (s + 1 = r \/ s + 1 < r)
    BY <1>1, <1>2, <1>5
  <2>2. b[s + 1] <= b[r]
    <3>1. CASE s + 1 < r
      <4>1. b[s + 1] < b[r]
        BY <1>1, <1>5, <2>1, <3>1, CutsAscend
      <4> QED BY <1>1, <1>5, <2>1, <4>1
    <3> QED BY <1>1, <1>5, <2>1, <3>1
  <2>3. b[s + 1] \in Nat /\ b[r] \in Nat /\ p < b[s + 1]
    BY <1>1, <1>2, <1>5, <2>1
  <2> QED BY <1>1, <1>5, <2>2, <2>3
<1>8. CASE s = r
  BY <1>6, <1>8 DEF r
<1>9. CASE r < s
  <2>1. r # n + 1 /\ r + 1 \in 1..(n + 1) /\ (r + 1 = s \/ r + 1 < s)
    BY <1>1, <1>2, <1>5, <1>9
  <2>2. b[r + 1] \in Nat /\ b[s] \in Nat /\ p <= b[r + 1]
    BY <1>1, <1>2, <1>5, <2>1
  <2>3. ~(r + 1 < s)
    <3> SUFFICES ASSUME r + 1 < s PROVE FALSE
      OBVIOUS
    <3>1. b[r + 1] < b[s]
      BY <1>1, <1>2, <2>1, CutsAscend
    <3> QED BY <1>1, <1>2, <2>2, <3>1
  <2>4. s = r + 1 /\ b[s] = p
    BY <1>1, <1>2, <2>1, <2>2, <2>3
  <2> QED BY <1>9, <2>4 DEF r
<1> QED BY <1>2, <1>5, <1>7, <1>8, <1>9

\* Two segments that hold the same position are the same.
LEMMA OneSegment ==
  ASSUME NEW n \in Nat, NEW b \in [1..(n + 1) -> Nat],
         \A s \in 1..n : b[s] < b[s + 1], NEW p \in Nat,
         NEW s \in 1..(n + 1), b[s] <= p, s # n + 1 => p < b[s + 1],
         NEW t \in 1..n, b[t] <= p, p < b[t + 1]
  PROVE  s = t
<1>1. ~(s < t)
  <2> SUFFICES ASSUME s < t PROVE FALSE
    OBVIOUS
  <2>1. s # n + 1 /\ s + 1 \in 1..(n + 1) /\ t \in 1..(n + 1) /\ (s + 1 = t \/ s + 1 < t)
    OBVIOUS
  <2>2. b[s + 1] <= b[t]
    <3>1. CASE s + 1 < t
      <4>1. b[s + 1] < b[t]
        BY <2>1, <3>1, CutsAscend
      <4> QED BY <2>1, <4>1
    <3> QED BY <2>1, <3>1
  <2>3. b[s + 1] \in Nat /\ b[t] \in Nat /\ p < b[s + 1]
    BY <2>1
  <2> QED BY <2>2, <2>3
<1>2. ~(t < s)
  <2> SUFFICES ASSUME t < s PROVE FALSE
    OBVIOUS
  <2>1. t + 1 \in 1..(n + 1) /\ (t + 1 = s \/ t + 1 < s)
    OBVIOUS
  <2>2. b[t + 1] <= b[s]
    <3>1. CASE t + 1 < s
      <4>1. b[t + 1] < b[s]
        BY <2>1, <3>1, CutsAscend
      <4> QED BY <2>1, <4>1
    <3> QED BY <2>1, <3>1
  <2>3. b[t + 1] \in Nat /\ b[s] \in Nat
    BY <2>1
  <2> QED BY <2>2, <2>3
<1> QED BY <1>1, <1>2

\* A position is supervised iff the sequence that holds it says so.
LEMMA RowSupervises == TypeOK => SupervisedIsOwn
<1> SUFFICES ASSUME TypeOK, NEW k \in DOMAIN packs, NEW p \in Position
             PROVE  LossMask(k, p) <=>
                      /\ SegId(k, p) \in DOMAIN packs[k]
                      /\ p + 1 - SegStart(k, p) \in 1..Tokens(packs[k][SegId(k, p)])
                      /\ p + 1 - SegStart(k, p) >= data[packs[k][SegId(k, p)]].offset
  BY DEF SupervisedIsOwn
<1> DEFINE n == Len(packs[k])
           b == Begins(k)
           s == SegId(k, p)
           Off(t) == data[packs[k][t]].offset
           First(t) == IF Off(t) > 1 THEN Off(t) ELSE 1
           Own(t) == b[t] + First(t) - 1 <= p /\ p <= b[t] + Tokens(packs[k][t]) - 1
<1>1. /\ n \in Nat /\ b \in [1..(n + 1) -> Nat] /\ p \in Nat
      /\ \A t \in 1..n : /\ b[t] < b[t + 1] /\ Tokens(packs[k][t]) \in Nat
                         /\ b[t + 1] = b[t] + Tokens(packs[k][t]) + 1
  <2>1. p \in Nat
    BY DEF Position, TypeOK
  <2>2. \A t \in 1..n : Tokens(packs[k][t]) \in Nat
    BY PackType, TokensType
  <2> QED BY <2>1, <2>2, PackType, RowLayout
<1>2. s \in 1..(n + 1) /\ b[s] <= p /\ (s # n + 1 => p < b[s + 1])
  BY SegIdIs
<1>3. SegStart(k, p) = b[s] /\ DOMAIN packs[k] = 1..n
  BY PackType DEF SegStart
<1>4. \A t \in 1..n : Off(t) \in Nat
  <2> SUFFICES ASSUME NEW t \in 1..n PROVE Off(t) \in Nat
    OBVIOUS
  <2>1. packs[k][t] \in Items /\ data \in Seq(Sequence)
    BY <1>3, PackType DEF TypeOK
  <2>2. data[packs[k][t]] \in Sequence
    BY <2>1, ElementOfSeq DEF Items
  <2> QED BY <2>2 DEF Sequence
<1>5. LossMask(k, p) <=> \E t \in 1..n : Own(t)
  BY <1>3 DEF LossMask
<1> HIDE DEF n, b, s, Off
<1>6. \A t \in 1..n : First(t) \in Nat /\ First(t) >= 1 /\ First(t) >= Off(t)
                      /\ \A x \in Int : x >= First(t) <=> x >= 1 /\ x >= Off(t)
  BY <1>4
<1> HIDE DEF First
<1>7. ASSUME NEW t \in 1..n, Own(t) PROVE s = t
  <2>0. t \in 1..(n + 1) /\ b[t] \in Nat
    BY <1>1
  <2>1. PICK x \in Nat, y \in Nat, f \in Nat : x = b[t] /\ y = Tokens(packs[k][t]) /\ f = First(t)
    BY <1>1, <1>6, <2>0
  <2>2. x + f - 1 <= p /\ p <= x + y - 1 /\ f >= 1 /\ b[t + 1] = x + y + 1
    BY <1>1, <1>6, <1>7, <2>1
  <2>3. b[t] <= p /\ p < b[t + 1]
    <3>1. x <= p /\ p < x + y + 1
      BY <1>1, <2>2
    <3> QED BY <2>1, <2>2, <3>1
  <2> QED BY <1>1, <1>2, <2>3, OneSegment
<1>8. (\E t \in 1..n : Own(t)) <=> s \in 1..n /\ Own(s)
  BY <1>7
<1>9. ASSUME s \in 1..n
      PROVE  Own(s) <=> p + 1 - b[s] \in 1..Tokens(packs[k][s]) /\ p + 1 - b[s] >= Off(s)
  <2>1. PICK x \in Nat, y \in Nat, f \in Nat : x = b[s] /\ y = Tokens(packs[k][s]) /\ f = First(s)
    <3>1. b[s] \in Nat
      BY <1>1, <1>2
    <3> QED BY <1>1, <1>6, <1>9, <3>1
  <2>2. /\ f >= 1 /\ x <= p
        /\ p + 1 - x >= f <=> p + 1 - x >= 1 /\ p + 1 - x >= Off(s)
    BY <1>1, <1>2, <1>6, <1>9, <2>1, SMTT(30)
  <2>3. Own(s) <=> x + f - 1 <= p /\ p <= x + y - 1
    BY <2>1
  <2>4. Own(s) <=> p + 1 - x >= f /\ p + 1 - x <= y
    BY <1>1, <2>3
  <2>5. Own(s) <=> p + 1 - x \in 1..y /\ p + 1 - x >= Off(s)
    BY <1>1, <2>2, <2>4
  <2> QED BY <2>1, <2>5
<1> QED BY <1>3, <1>5, <1>8, <1>9 DEF s, Off

-----------------------------------------------------------------------------
(* What the statistics count. *)

\* A separator behind every sequence.
LEMMA SeparatorsCount ==
  ASSUME NEW f \in Seq(Int), NEW e \in Seq(Int), Len(e) = Len(f),
         \A n \in 1..Len(f) : e[n] = f[n] + 1
  PROVE  Sum(e) = Sum(f) + Len(f)
<1>1. PICK g \in [0..Len(f) -> Int] :
         /\ g[0] = 0 /\ Sum(f) = g[Len(f)]
         /\ \A n \in 1..Len(f) : g[n] = g[n - 1] + f[n]
  BY SumOf
<1>2. PICK h \in [0..Len(f) -> Int] :
         /\ h[0] = 0 /\ Sum(e) = h[Len(f)]
         /\ \A n \in 1..Len(f) : h[n] = h[n - 1] + e[n]
  <2>1. \E h \in [0..Len(e) -> Int] :
           /\ h[0] = 0 /\ Sum(e) = h[Len(e)]
           /\ \A n \in 1..Len(e) : h[n] = h[n - 1] + e[n]
    BY SumOf
  <2> QED BY <2>1, Zenon
<1> DEFINE T == {n \in 0..Len(f) : h[n] = g[n] + n}
<1>3. Len(f) \in Nat
  OBVIOUS
<1>4. 0 \in T
  BY <1>1, <1>2, <1>3
<1>5. ASSUME NEW n \in 0..(Len(f) - 1), n \in T PROVE n + 1 \in T
  <2>1. /\ n + 1 \in 1..Len(f) /\ n + 1 \in 0..Len(f) /\ n \in 0..Len(f)
        /\ (n + 1) - 1 = n
    BY <1>3
  <2>2. h[n + 1] = h[n] + e[n + 1] /\ g[n + 1] = g[n] + f[n + 1] /\ e[n + 1] = f[n + 1] + 1
    BY <1>1, <1>2, <2>1
  <2>3. g[n] \in Int /\ f[n + 1] \in Int
    <3>1. g[n] \in Int
      BY <1>1, <2>1
    <3>2. f[n + 1] \in Int
      BY <2>1
    <3> QED BY <3>1, <3>2
  <2>4. PICK x \in Int, y \in Int : x = g[n] /\ y = f[n + 1]
    BY <2>3
  <2>5. h[n] = x + n /\ n \in Int
    BY <1>5, <2>4
  <2>6. h[n + 1] = (x + n) + (y + 1) /\ g[n + 1] = x + y
    BY <2>2, <2>4, <2>5
  <2>7. h[n + 1] = g[n + 1] + (n + 1)
    BY <2>5, <2>6
  <2> QED BY <2>1, <2>7
<1>6. \A n \in 0..Len(f) : n \in T
  <2> HIDE DEF T
  <2> QED BY <1>3, <1>4, <1>5, UpTo
<1>7. h[Len(f)] = g[Len(f)] + Len(f)
  BY <1>3, <1>6
<1> QED BY <1>1, <1>2, <1>7

LEMMA UsedOfTokens ==
  ASSUME TypeOK, NEW k \in DOMAIN packs
  PROVE  /\ Sum(TokensOf(packs[k])) \in Int /\ Used(k) \in Int
         /\ Used(k) = Sum(TokensOf(packs[k])) + Len(packs[k])
<1> DEFINE q == packs[k]
<1>1. /\ q \in Seq(Items) /\ TokensOf(q) \in Seq(Int) /\ SlotsOf(q) \in Seq(Int)
      /\ Len(TokensOf(q)) = Len(q) /\ Len(SlotsOf(q)) = Len(q)
  BY PackType, SlotsType
<1>2. \A s \in 1..Len(q) : SlotsOf(q)[s] = TokensOf(q)[s] + 1
  <2> SUFFICES ASSUME NEW s \in 1..Len(q) PROVE SlotsOf(q)[s] = TokensOf(q)[s] + 1
    OBVIOUS
  <2>1. SlotsOf(q)[s] = Cost(q[s]) /\ TokensOf(q)[s] = Tokens(q[s])
    BY <1>1, SlotsType
  <2>2. q[s] \in Items
    BY PackType
  <2> QED BY <2>1, <2>2, TokensType
<1>3. Used(k) = Sum(SlotsOf(q))
  BY UsedIs
<1> HIDE DEF q
<1>4. Sum(SlotsOf(q)) = Sum(TokensOf(q)) + Len(q)
  BY <1>1, <1>2, SeparatorsCount
<1>5. Sum(TokensOf(q)) \in Int /\ Sum(SlotsOf(q)) \in Int
  BY <1>1, SumType
<1> QED BY <1>3, <1>4, <1>5 DEF q

\* The accounting identity, and no pack above its row.
LEMMA StatsHold == DatasetInv => StatsAddUp
<1> SUFFICES ASSUME DatasetInv PROVE StatsAddUp
  OBVIOUS
<1> DEFINE n == Len(packs)
           a == [k \in 1..n |-> Sum([s \in DOMAIN packs[k] |-> Tokens(packs[k][s])])]
           b == [k \in DOMAIN packs |-> Len(packs[k])]
           c == [k \in DOMAIN packs |-> Capacity - Used(k)]
<1>1. TypeOK /\ n \in Nat /\ DOMAIN packs = 1..n /\ Capacity \in Int
  BY DEF DatasetInv, PackInv, TypeOK, Capacity
<1>2. \A k \in DOMAIN packs : Used(k) <= Capacity
  <2> SUFFICES ASSUME NEW k \in DOMAIN packs PROVE Used(k) <= Capacity
    OBVIOUS
  <2>1. room[k] >= 0 /\ room[k] = Capacity - Used(k)
    BY DEF DatasetInv, RoomIsExact
  <2>2. Used(k) \in Int
    BY <1>1, UsedOfTokens
  <2> QED BY <1>1, <2>1, <2>2
<1>3. \A k \in 1..n : /\ a[k] = Sum(TokensOf(packs[k])) /\ b[k] = Len(packs[k])
                      /\ c[k] = Capacity - Used(k)
  BY <1>1 DEF TokensOf
<1>4. a \in Seq(Int) /\ b \in Seq(Int) /\ c \in Seq(Int) /\ Len(a) = n /\ Len(b) = n /\ Len(c) = n
  <2>1. \A k \in 1..n : a[k] \in Int /\ b[k] \in Int /\ c[k] \in Int
    BY <1>1, <1>3, PackType, UsedOfTokens
  <2>2. DOMAIN a = 1..n /\ DOMAIN b = 1..n /\ DOMAIN c = 1..n
    BY <1>1
  <2>3. a = [k \in 1..n |-> a[k]] /\ b = [k \in 1..n |-> b[k]] /\ c = [k \in 1..n |-> c[k]]
    BY <1>1
  <2> HIDE DEF a, b, c, n
  <2>4. a \in [1..n -> Int] /\ b \in [1..n -> Int] /\ c \in [1..n -> Int]
    BY <2>1, <2>3
  <2> QED BY <1>1, <2>4
<1>5. \A k \in 1..n : a[k] + b[k] + c[k] = Capacity
  <2> SUFFICES ASSUME NEW k \in 1..n PROVE a[k] + b[k] + c[k] = Capacity
    OBVIOUS
  <2>1. PICK t \in Int, l \in Int :
           t = Sum(TokensOf(packs[k])) /\ l = Len(packs[k]) /\ Used(k) = t + l
    BY <1>1, UsedOfTokens, PackType
  <2> HIDE DEF a, b, c
  <2> QED BY <1>1, <1>3, <2>1
<1>6. RealTokens(Len(packs)) = Sum(a) /\ Separators = Sum(b) /\ TailPad = Sum(c)
  BY DEF RealTokens, Separators, TailPad
<1> HIDE DEF a, b, c, n
<1>7. Sum(a) + Sum(b) + Sum(c) = n * Capacity
  <2>1. Sum(a) + Sum(b) + Sum(c) = Len(a) * Capacity
    <3>1. Len(b) = Len(a) /\ Len(c) = Len(a) /\ Capacity \in Int
      BY <1>1, <1>4
    <3>2. \A k \in 1..Len(a) : a[k] + b[k] + c[k] = Capacity
      BY <1>4, <1>5
    <3> QED BY <1>4, <3>1, <3>2, SumsAddUp, ZenonT(60)
  <2> QED BY <1>4, <2>1
<1> QED BY <1>2, <1>6, <1>7 DEF StatsAddUp, n

\* The rows of the first batches are the first rows.
LEMMA YieldedRows ==
  ASSUME TypeOK, batch <= Batches
  PROVE  Yielded = 1..(batch * BatchSize)
<1> DEFINE d == BatchSize
<1>1. batch \in Nat /\ d \in Nat \ {0} /\ Batches \in Nat /\ Len(packs) \in Nat
  BY BatchesType DEF TypeOK
<1>2. DOMAIN packs = 1..Len(packs)
  BY DEF TypeOK
<1>3. \A x \in Nat, y \in Nat : x <= y => x * d <= y * d /\ x * d \in Nat /\ y * d \in Nat
  <2> SUFFICES ASSUME NEW x \in Nat, NEW y \in Nat, x <= y
               PROVE  x * d <= y * d /\ x * d \in Nat /\ y * d \in Nat
    OBVIOUS
  <2>1. PICK z \in Nat : y = x + z
    <3>1. y - x \in Nat /\ y = x + (y - x)
      OBVIOUS
    <3> QED BY <3>1
  <2>2. y * d = x * d + z * d /\ x * d \in Nat /\ z * d \in Nat
    BY <1>1, <2>1
  <2> HIDE DEF d
  <2> QED BY <2>2
<1>4. batch * d <= Len(packs) /\ batch * d \in Nat
  <2>1. Batches * d \in Nat /\ Batches * d <= Len(packs)
    BY BatchesType
  <2>2. batch * d <= Batches * d /\ batch * d \in Nat
    BY <1>1, <1>3
  <2> HIDE DEF d
  <2> QED BY <1>1, <2>1, <2>2
<1>5. ASSUME NEW k, k \in Yielded PROVE k \in 1..(batch * d)
  <2>1. PICK r \in 1..batch : k \in DOMAIN packs /\ k <= r * d
    BY <1>5 DEF Yielded, Rows
  <2>2. r * d <= batch * d /\ r * d \in Nat
    BY <1>1, <1>3, <2>1
  <2> HIDE DEF d
  <2> QED BY <1>2, <1>4, <2>1, <2>2
<1>6. ASSUME NEW k \in 1..(batch * d) PROVE k \in Yielded
  <2> DEFINE U == {r \in Nat : k <= r * d}
  <2>1. U \in SUBSET Nat /\ batch \in U
    BY <1>1, <1>4
  <2>2. PICK r \in U : \A t \in U : r <= t
    BY <2>1, LeastNat
  <2>3. r \in Nat /\ k <= r * d /\ r <= batch
    BY <2>1, <2>2
  <2>4. r # 0
    <3>1. 0 * d = 0
      BY <1>1
    <3> QED BY <1>4, <2>3, <3>1
  <2>5. r - 1 \in Nat /\ ~(r - 1 \in U)
    BY <2>2, <2>3, <2>4
  <2>6. (r - 1) * d < k
    <3>1. (r - 1) * d \in Nat
      BY <1>3, <2>5
    <3> QED BY <1>4, <2>5, <3>1
  <2>7. k \in DOMAIN packs
    <3> HIDE DEF d
    <3> QED BY <1>1, <1>2, <1>4
  <2>8. r \in 1..batch /\ k \in Rows(r)
    BY <1>1, <2>3, <2>4, <2>6, <2>7 DEF Rows
  <2> QED BY <2>8 DEF Yielded
<1> QED BY <1>5, <1>6

LEMMA EpochCounts == DatasetInv => EpochIsCounted
<1> SUFFICES ASSUME DatasetInv, pc = "done" PROVE EpochIsCounted
  BY DEF EpochIsCounted
<1> DEFINE m == batch * BatchSize
           TokensIn(k) == Sum([s \in DOMAIN packs[k] |-> Tokens(packs[k][s])])
           f == [k \in 1..Len(packs) |-> IF k \in Yielded THEN TokensIn(k) ELSE 0]
           e == [k \in 1..m |-> TokensIn(k)]
<1>1. TypeOK /\ batch = Batches /\ batch \in Nat /\ Len(packs) \in Nat
  BY BatchesType DEF DatasetInv, PackInv, TypeOK, BatchInv
<1>2. m \in Nat /\ m <= Len(packs) /\ Len(packs) < m + BatchSize
  BY <1>1, BatchesType
<1>3. Yielded = 1..m
  BY <1>1, BatchesType, YieldedRows
<1>4. \A k \in 1..Len(packs) : TokensIn(k) \in Int
  <2> SUFFICES ASSUME NEW k \in 1..Len(packs) PROVE TokensIn(k) \in Int
    OBVIOUS
  <2>1. k \in DOMAIN packs
    BY <1>1 DEF TypeOK
  <2>2. Sum(TokensOf(packs[k])) \in Int
    BY <1>1, <2>1, UsedOfTokens
  <2> QED BY <2>2 DEF TokensOf
<1> HIDE DEF m, TokensIn
<1>5. f \in Seq(Int) /\ Len(f) = Len(packs) /\ e \in Seq(Int) /\ Len(e) = m
  <2>1. \A k \in 1..m : TokensIn(k) \in Int
    BY <1>1, <1>2, <1>4
  <2> QED BY <1>1, <1>2, <1>4, <2>1
<1>6. \A k \in 1..Len(f) : f[k] = IF k <= Len(e) THEN e[k] ELSE 0
  BY <1>1, <1>2, <1>3, <1>5
<1>7. Sum(f) = Sum(e)
  <2> HIDE DEF f, e
  <2> QED BY <1>2, <1>5, <1>6, SumOfHead
<1>8. ConsumedTokens = Sum(e)
  BY <1>1 DEF ConsumedTokens, RealTokens, m, TokensIn
<1>9. Cardinality(Yielded) = m
  BY <1>2, <1>3, FS_Interval
<1>10. BatchSize \in Nat
  OBVIOUS
<1>11. Len(packs) - Cardinality(Yielded) < BatchSize
  BY <1>1, <1>2, <1>9, <1>10
<1> QED BY <1>7, <1>8, <1>9, <1>11 DEF EpochIsCounted, m, TokensIn

LEMMA OnceCounts == DatasetInv => PackedOnce
<1> SUFFICES ASSUME DatasetInv, pc \in {"pack", "yield", "raised", "done"}, NEW i \in Items
             PROVE  Cardinality(Placements(i)) = IF i \in todo THEN 0 ELSE 1
  BY DEF PackedOnce
<1>1. Once(todo, packs)
  BY DEF DatasetInv, OnceInv
<1>2. \A at : at \in Placements(i) <=>
         \E k \in DOMAIN packs : \E s \in DOMAIN packs[k] : at = <<k, s>> /\ packs[k][s] = i
  BY DEF Placements, Slots
<1>3. CASE i \in todo
  <2>1. Placements(i) = {}
    BY <1>1, <1>2, <1>3 DEF Once
  <2> QED BY <1>3, <2>1, FS_EmptySet
<1>4. CASE i \notin todo
  <2>1. PICK k \in DOMAIN packs : \E s \in DOMAIN packs[k] : packs[k][s] = i
    BY <1>1, <1>4 DEF Once
  <2>2. PICK s \in DOMAIN packs[k] : packs[k][s] = i
    BY <2>1
  <2>3. Placements(i) = {<<k, s>>}
    BY <1>1, <1>2, <2>2 DEF Once
  <2> QED BY <1>4, <2>3, FS_Singleton
<1> QED BY <1>3, <1>4

\* What the batches hold, from the invariant.
LEMMA BatchesHold ==
  DatasetInv => /\ TypeOK /\ PackedOnce /\ RoomIsExact /\ SegmentsAscend
                /\ SupervisedIsOwn /\ StatsAddUp /\ EpochIsCounted
  BY OnceCounts, RowAscends, RowSupervises, StatsHold, EpochCounts DEF DatasetInv, PackInv


HIDE PackingAssumption
USE DepthAssumption

(***************************************************************************)
(* What a training condition keeps between its steps.                      *)
(***************************************************************************)

Setup == {"start", "loaded", "cast", "enabled", "seeded", "frozen", "adapted", "open"}

\* The condition is one that the configurations describe.
ConditionOK ==
  /\ cfg \in [kind : Condition!Kinds, flash : BOOLEAN, ours : BOOLEAN, kernel : BOOLEAN,
              cast : BOOLEAN, stored : Condition!KernelDtypes \cup {"fp16"}, steps : Nat]
  /\ step \in Nat /\ over \in Nat
  /\ Condition!TypeOK

\* The house cap is in force except between the entry of train() and its first trace;
\* nothing runs in between.
CapInv ==
  /\ phase \in Setup => ~reasserted /\ traced = {} /\ step = 0
  /\ phase # "training" => wired = "house"
  /\ phase = "training" => /\ step > 0 <=> traced # {}
                           /\ reasserted <=> traced # {}
                           /\ reasserted <=> wired = "house"
  /\ Condition!NoStepAboveTheCap
  /\ Condition!VerdictIsAboutTheRun

\* The precision of the trunk is settled before the rates are measured, and the rate
\* of the hinted shape stays where the switch put it.
HintIsWarm ==
  cfg.flash /\ phase \notin {"start", "loaded", "cast", "error"} =>
    Condition!AttentionKey(dtype.trunk, Condition!Hint, cfg.kind = "packed") \in warm

Casted == (Setup \ {"start", "loaded"}) \cup {"training", "ok", "regression"}
Injected == {"adapted", "open", "training", "ok", "regression"}

\* What the adapters are drawn from, and who pays for the graphs that are still lazy.
MeasureInv ==
  /\ dtype = [trunk |-> dtype.trunk, adapters |-> dtype.adapters]
  /\ phase \in Casted /\ cfg.cast => dtype.trunk = "bf16"
  /\ phase = "seeded" \/ phase = "frozen" => drawnFrom.stream = "seed"
  /\ drawnFrom = [stream |-> drawnFrom.stream, adapters |-> drawnFrom.adapters]
  /\ phase = "frozen" => trainable = {}
  /\ phase \in Injected => /\ trainable = {"adapters"}
                           /\ dtype.adapters = "f32"
                           /\ drawnFrom.adapters = "seed"
  /\ phase \in {"open", "training"} => pending = {}
  /\ phase \in Setup => stalls = {}
  /\ HintIsWarm
  /\ Condition!AttentionTracesWarm
  /\ Condition!WindowMeasuresTraining

ConditionInv == ConditionOK /\ CapInv /\ MeasureInv

-----------------------------------------------------------------------------

LEMMA ConditionInit == Condition!Init => ConditionInv
<1> SUFFICES ASSUME Condition!Init PROVE ConditionInv
  OBVIOUS
<1>1. ConditionOK
  BY DEF Condition!Init, ConditionOK, Condition!TypeOK, Condition!Kinds
<1>2. CapInv
  BY DEF Condition!Init, CapInv, Setup, Condition!VerdictIsAboutTheRun,
         Condition!NoStepAboveTheCap
<1>3. MeasureInv
  BY DEF Condition!Init, MeasureInv, Setup, Casted, Injected, HintIsWarm,
         Condition!AttentionTracesWarm, Condition!WindowMeasuresTraining
<1> QED BY <1>1, <1>2, <1>3 DEF ConditionInv

\* The steps that leave the wired limit and the trace alone.
LEMMA SetupStep ==
  ASSUME ConditionInv,
         \/ Condition!Load \/ Condition!Cast \/ Condition!Enable \/ Condition!Seed
         \/ Condition!Freeze \/ Condition!Inject \/ Condition!Open
  PROVE  ConditionInv'
<1> USE DEF ConditionInv, Condition!Goto
<1>1. /\ phase \in Setup /\ UNCHANGED <<cfg, wired, reasserted, traced, step, over, stalls, spilled>>
      /\ phase' \in Setup \cup {"error"} /\ warm \subseteq warm'
  BY DEF Condition!Load, Condition!Cast, Condition!Enable, Condition!Seed,
         Condition!Freeze, Condition!Inject, Condition!Open, Setup
<1>2. ConditionOK'
  BY <1>1 DEF ConditionOK, Condition!TypeOK, Condition!Ends, Setup
<1>3. CapInv'
  BY <1>1 DEF CapInv, Setup, Condition!NoStepAboveTheCap, Condition!VerdictIsAboutTheRun
<1>4. HintIsWarm'
  <2>1. CASE Condition!Enable
    BY <2>1 DEF Condition!Enable, HintIsWarm, Condition!Prewarmed, ConditionOK,
                Condition!AttentionKey, Condition!Hint
  <2>2. CASE phase \in {"enabled", "seeded", "frozen", "adapted"} /\ ~Condition!Enable
    BY <1>1, <2>2 DEF Condition!Load, Condition!Cast, Condition!Seed, MeasureInv,
         Condition!Freeze, Condition!Inject, Condition!Open, HintIsWarm,
         Condition!AttentionKey, Condition!Hint
  <2>3. CASE phase \in {"start", "loaded", "cast"} /\ ~Condition!Enable
    BY <2>3 DEF Condition!Load, Condition!Cast, Condition!Seed,
         Condition!Freeze, Condition!Inject, Condition!Open, HintIsWarm
  <2> QED BY <2>1, <2>2, <2>3 DEF Condition!Load, Condition!Cast, Condition!Seed,
         Condition!Freeze, Condition!Inject, Condition!Open
<1>5. MeasureInv'
  BY <1>1, <1>4 DEF Condition!Load, Condition!Cast, Condition!Enable, Condition!Seed,
         Condition!Freeze, Condition!Inject, Condition!Open, Condition!FrozenTrainable,
         Condition!Settled, MeasureInv, Setup, Casted, Injected,
         Condition!AttentionTracesWarm, Condition!WindowMeasuresTraining
<1> QED BY <1>2, <1>3, <1>5

LEMMA EnterStep ==
  ASSUME ConditionInv, Condition!EnterTrain
  PROVE  ConditionInv'
<1> USE DEF ConditionInv, Condition!Goto, Condition!EnterTrain
<1>2. ConditionOK'
  BY DEF ConditionOK, Condition!TypeOK
<1>3. CapInv'
  BY DEF CapInv, Setup, Condition!NoStepAboveTheCap, Condition!VerdictIsAboutTheRun
<1>4. HintIsWarm'
  BY DEF MeasureInv, HintIsWarm, Condition!AttentionKey, Condition!Hint
<1>5. MeasureInv'
  BY <1>4 DEF MeasureInv, Setup, Casted, Injected, Condition!AttentionTracesWarm,
              Condition!WindowMeasuresTraining
<1> QED BY <1>2, <1>3, <1>5

\* A step of the optimizer: the first of a shape traces the loss.
LEMMA TrainStep ==
  ASSUME ConditionInv, NEW b \in Buckets, Condition!Step(b)
  PROVE  ConditionInv'
<1> USE DEF ConditionInv
<1>1. /\ phase = "training" /\ step < cfg.steps /\ b \in Condition!ShapesOf(cfg.kind)
      /\ UNCHANGED <<cfg, dtype, trainable, drawnFrom>>
  BY DEF Condition!Step
<1>2. CASE Condition!LossRefused
  <2>1. /\ phase' = "error" /\ wired' = "house" /\ reasserted'
        /\ UNCHANGED <<pending, warm, traced, stalls, spilled, step, over>>
    BY <1>1, <1>2 DEF Condition!Step, Condition!CapAfterTrace, CapInv, ConditionOK, Condition!TypeOK
  <2>2. ConditionOK' /\ CapInv'
    BY <1>1, <2>1 DEF ConditionOK, Condition!TypeOK, Condition!Ends, CapInv, Setup,
              Condition!NoStepAboveTheCap, Condition!VerdictIsAboutTheRun
  <2>3. MeasureInv'
    BY <1>1, <2>1 DEF MeasureInv, Setup, Casted, Injected, HintIsWarm,
              Condition!AttentionTracesWarm, Condition!WindowMeasuresTraining
  <2> QED BY <2>2, <2>3
<1>3. CASE ~Condition!LossRefused
  <2>1. /\ phase' = "training" /\ pending' = {} /\ step' = step + 1
        /\ spilled' = spilled \cup pending /\ over' = IF wired' = "house" THEN over ELSE over + 1
    BY <1>1, <1>3 DEF Condition!Step, Condition!Counted
  <2>2. /\ wired' = "house" /\ reasserted' /\ traced' = traced \cup {b}
    BY <1>1, <1>3 DEF Condition!Step, Condition!Trace, Condition!CapAfterTrace, CapInv
  <2>3. /\ warm \subseteq warm' /\ stalls' \subseteq warm'
        /\ stalls' \subseteq stalls \cup (Condition!Needed(b) \ warm)
    BY <1>1, <1>3 DEF Condition!Step, Condition!Trace, ConditionOK, Condition!TypeOK
  <2>4. ConditionOK'
    BY <1>1, <2>1, <2>2, <2>3 DEF ConditionOK, Condition!TypeOK
  <2>5. CapInv'
    BY <1>1, <2>1, <2>2 DEF ConditionOK, CapInv, Setup, Condition!NoStepAboveTheCap,
              Condition!VerdictIsAboutTheRun
  <2>6. Condition!AttentionTracesWarm'
    <3> SUFFICES ASSUME cfg.kind # "unpacked", NEW k \in Condition!Needed(b) \ warm
                 PROVE  k.op # "attention"
      BY <1>1, <2>3 DEF Condition!AttentionTracesWarm, MeasureInv
    <3>1. b = Condition!Hint
      BY <1>1 DEF Condition!ShapesOf
    <3>2. cfg.flash =>
            Condition!AttentionKey(dtype.trunk, b, cfg.kind = "packed") \in warm
      BY <1>1, <3>1 DEF MeasureInv, HintIsWarm
    <3>3. k = Condition!LossKey(dtype.trunk, b)
      BY <3>2 DEF Condition!Needed
    <3> QED BY <3>3 DEF Condition!LossKey
  <2>7. HintIsWarm'
    BY <1>1, <2>1, <2>3 DEF MeasureInv, HintIsWarm, Condition!AttentionKey, Condition!Hint
  <2>8. MeasureInv'
    BY <1>1, <2>1, <2>6, <2>7 DEF MeasureInv, Setup, Casted, Injected,
              Condition!WindowMeasuresTraining
  <2> QED BY <2>4, <2>5, <2>8
<1> QED BY <1>2, <1>3

LEMMA JudgeStep ==
  ASSUME ConditionInv, Condition!Judge
  PROVE  ConditionInv'
<1> USE DEF ConditionInv
<1>1. /\ phase = "training" /\ wired' = "house"
      /\ phase' = IF wired = "house" THEN "ok" ELSE "regression"
      /\ UNCHANGED <<cfg, dtype, pending, trainable, drawnFrom, warm, reasserted, traced,
                     stalls, spilled, step, over>>
  BY DEF Condition!Judge, Condition!Verdict
<1>2. ConditionOK'
  BY <1>1 DEF ConditionOK, Condition!TypeOK, Condition!Ends
<1>3. CapInv'
  BY <1>1 DEF CapInv, Setup, Condition!NoStepAboveTheCap, Condition!VerdictIsAboutTheRun,
              ConditionOK
<1>4. HintIsWarm'
  BY <1>1 DEF MeasureInv, HintIsWarm, Condition!AttentionKey, Condition!Hint
<1>5. MeasureInv'
  BY <1>1, <1>4 DEF MeasureInv, Setup, Casted, Injected, Condition!AttentionTracesWarm,
              Condition!WindowMeasuresTraining
<1> QED BY <1>2, <1>3, <1>5

LEMMA ConditionStep == ConditionInv /\ [Condition!Next]_conditionVars => ConditionInv'
<1> SUFFICES ASSUME ConditionInv, [Condition!Next]_conditionVars PROVE ConditionInv'
  OBVIOUS
<1>1. CASE UNCHANGED conditionVars
  BY <1>1 DEF conditionVars, ConditionInv, ConditionOK, CapInv, MeasureInv, HintIsWarm,
     Condition!TypeOK, Condition!NoStepAboveTheCap, Condition!VerdictIsAboutTheRun,
     Condition!AttentionTracesWarm, Condition!WindowMeasuresTraining,
     Condition!AttentionKey, Condition!Hint
<1>2. CASE Condition!Next
  BY <1>2, SetupStep, EnterStep, TrainStep, JudgeStep DEF Condition!Next
<1> QED BY <1>1, <1>2

(***************************************************************************)
(* What the switches keep, whatever the user does between two calls.       *)
(***************************************************************************)

LayerRecord ==
  [linear : BOOLEAN, at : Switches!At, frozen : SUBSET Switches!FrozenKeys,
   sharded : BOOLEAN]

\* A call that is under way has replaced the layers before the next, and those only.
RewriteInv ==
  call # Switches!Idle =>
    /\ last.fn = "delta" /\ last.result = "begun"
    /\ \E k \in 1..Len(Switches!Selected) :
          /\ call = SubSeq(Switches!Selected, k, Len(Switches!Selected))
          /\ \A j \in 1..(k - 1) : layer[Switches!Selected[j]].at = "proxy"
          /\ \A j \in k..Len(Switches!Selected) : layer[Switches!Selected[j]].at = "stock"

\* The layers of full attention are all wrapped or none is.
WrappedAsOne ==
  \A i, j \in Switches!Layers :
    ~layer[i].linear /\ ~layer[j].linear => layer[i].at = layer[j].at

\* A call that was not refused started from layers that no proxy stood for.
StartedFromStock ==
  last.fn = "delta" /\ last.result \in {"begun", "ok"} =>
    /\ last.before \in [Switches!Layers -> LayerRecord]
    /\ \A i \in Switches!Layers : /\ last.before[i].linear = layer[i].linear
                                  /\ layer[i].linear => last.before[i].at = "stock"

ModelOK ==
  /\ layer \in [Switches!Layers -> LayerRecord]
  /\ \A i \in Switches!Layers :
        layer[i].at \in IF layer[i].linear THEN {"stock", "proxy"} ELSE {"stock", "wrapper"}
  /\ model.family = "full" => \A i \in Switches!Layers : ~layer[i].linear
  /\ model.family \in Switches!Family /\ model.flaw \in Switches!Flaws
  /\ last \in [fn : {"none", "flash", "delta"},
               result : {"ok", "refused", "uncalibrated", "uncarriable", "begun"}, before : {last.before}]
  /\ edits \in Nat

SwitchInv ==
  /\ ModelOK /\ RewriteInv /\ StartedFromStock /\ WrappedAsOne
  /\ Switches!CheckedRefusalsChangeNothing
  /\ Switches!OnlyAFrozenKeySplits
  /\ Switches!EnabledEverywhere

-----------------------------------------------------------------------------
(* The layers that are selected: every linear one, each once. *)

Below(E, n) == {j \in E : j < n}

\* One step up adds at most the element that is passed.
LEMMA BelowGrows ==
  ASSUME NEW m \in Nat, NEW E \in SUBSET (1..m), NEW n \in Nat
  PROVE  /\ IsFiniteSet(E) /\ Cardinality(E) \in Nat
         /\ IsFiniteSet(Below(E, n)) /\ Cardinality(Below(E, n)) \in Nat
         /\ Cardinality(Below(E, n + 1)) =
              Cardinality(Below(E, n)) + (IF n \in E THEN 1 ELSE 0)
<1>1. IsFiniteSet(E) /\ Cardinality(E) \in Nat
  <2>1. IsFiniteSet(1..m)
    BY FS_Interval
  <2> QED BY <2>1, FS_Subset, FS_CardinalityType
<1>2. IsFiniteSet(Below(E, n)) /\ Cardinality(Below(E, n)) \in Nat
  BY <1>1, FS_Subset, FS_CardinalityType DEF Below
<1>3. Below(E, n + 1) = IF n \in E THEN Below(E, n) \cup {n} ELSE Below(E, n)
  <2>1. \A j \in E : j < n + 1 <=> j < n \/ j = n
    <3> SUFFICES ASSUME NEW j \in E PROVE j < n + 1 <=> j < n \/ j = n
      OBVIOUS
    <3>1. j \in 1..m
      OBVIOUS
    <3> QED BY <3>1
  <2>2. CASE n \in E
    BY <2>1, <2>2, Zenon DEF Below
  <2>3. CASE n \notin E
    BY <2>1, <2>3, Zenon DEF Below
  <2> QED BY <2>2, <2>3
<1>4. n \notin Below(E, n)
  BY DEF Below
<1>5. Cardinality(Below(E, n) \cup {n}) = Cardinality(Below(E, n)) + 1
  BY <1>2, <1>4, FS_AddElement
<1> QED BY <1>1, <1>2, <1>3, <1>5

\* Every rank below the cardinality is some element's.
LEMMA RankIsTaken ==
  ASSUME NEW m \in Nat, NEW E \in SUBSET (1..m), NEW k \in 1..Cardinality(E)
  PROVE  \E i \in E : Cardinality(Below(E, i)) = k - 1
<1> DEFINE T == {n \in Nat : Cardinality(Below(E, n)) >= k}
<1>1. Cardinality(E) \in Nat
  BY BelowGrows
<1>2. Below(E, m + 1) = E /\ Below(E, 0) = {}
  <2>1. \A j \in E : j < m + 1 /\ ~(j < 0)
    <3> SUFFICES ASSUME NEW j \in E PROVE j < m + 1 /\ ~(j < 0)
      OBVIOUS
    <3>1. j \in 1..m
      OBVIOUS
    <3> QED BY <3>1
  <2> QED BY <2>1, Zenon DEF Below
<1>3. m + 1 \in T
  BY <1>1, <1>2
<1>4. PICK n \in T : \A l \in T : n <= l
  BY <1>3, LeastNat
<1>5. n # 0
  BY <1>2, <1>4, FS_EmptySet
<1>6. n - 1 \in Nat /\ n - 1 \notin T
  BY <1>4, <1>5
<1>7. /\ Cardinality(Below(E, n - 1)) \in Nat
      /\ Cardinality(Below(E, n)) =
           Cardinality(Below(E, n - 1)) + (IF n - 1 \in E THEN 1 ELSE 0)
  <2>1. n - 1 \in Nat /\ (n - 1) + 1 = n
    BY <1>4, <1>6
  <2> HIDE DEF T
  <2>2. /\ Cardinality(Below(E, n - 1)) \in Nat
        /\ Cardinality(Below(E, (n - 1) + 1)) =
             Cardinality(Below(E, n - 1)) + (IF n - 1 \in E THEN 1 ELSE 0)
    <3>1. \A l \in Nat :
            /\ Cardinality(Below(E, l)) \in Nat
            /\ Cardinality(Below(E, l + 1)) =
                 Cardinality(Below(E, l)) + (IF l \in E THEN 1 ELSE 0)
      BY BelowGrows, Zenon
    <3> QED BY <2>1, <3>1, Zenon
  <2> QED BY <2>1, <2>2
<1>8. Cardinality(Below(E, n)) >= k /\ ~(Cardinality(Below(E, n - 1)) >= k)
  BY <1>4, <1>6
<1> HIDE DEF T
<1>9. n - 1 \in E /\ Cardinality(Below(E, n - 1)) = k - 1
  BY <1>1, <1>7, <1>8
<1> QED BY <1>9

\* No two elements have the same rank, and the ranks stay below the cardinality.
LEMMA RankIsOwn ==
  ASSUME NEW m \in Nat, NEW E \in SUBSET (1..m), NEW i \in E
  PROVE  /\ Cardinality(Below(E, i)) + 1 \in 1..Cardinality(E)
         /\ \A j \in E : Cardinality(Below(E, i)) = Cardinality(Below(E, j)) => i = j
<1>0. /\ \A x \in E : x \in Nat
      /\ \A x \in E : IsFiniteSet(Below(E, x)) /\ Cardinality(Below(E, x)) \in Nat
  <2>1. ASSUME NEW x \in E PROVE x \in Nat
    <3>1. x \in 1..m
      OBVIOUS
    <3> QED BY <3>1
  <2> QED BY <2>1, BelowGrows, Zenon
<1>1. ASSUME NEW x \in E, NEW y \in E, x < y
      PROVE  Cardinality(Below(E, x)) < Cardinality(Below(E, y))
  <2>1. Below(E, x) \cup {x} \subseteq Below(E, y) /\ x \notin Below(E, x)
    <3>1. /\ ~(x < x)
          /\ \A j \in E : j < x => j < y
      <4>1. x \in Nat /\ y \in Nat /\ \A j \in E : j \in Nat
        BY <1>0
      <4> QED BY <4>1, <1>1
    <3> QED BY <1>1, <3>1, Zenon DEF Below
  <2>2. IsFiniteSet(Below(E, x)) /\ IsFiniteSet(Below(E, y))
        /\ Cardinality(Below(E, x)) \in Nat /\ Cardinality(Below(E, y)) \in Nat
    BY <1>0, Zenon
  <2>3. Cardinality(Below(E, x) \cup {x}) = Cardinality(Below(E, x)) + 1
    BY <2>1, <2>2, FS_AddElement
  <2>4. Cardinality(Below(E, x) \cup {x}) <= Cardinality(Below(E, y))
    BY <2>1, <2>2, FS_Subset
  <2> QED BY <2>2, <2>3, <2>4
<1>2. IsFiniteSet(E) /\ Cardinality(E) \in Nat
      /\ IsFiniteSet(Below(E, i)) /\ Cardinality(Below(E, i)) \in Nat
  BY <1>0, BelowGrows, Zenon
<1>3. Below(E, i) \cup {i} \subseteq E /\ i \notin Below(E, i)
  BY DEF Below
<1>4. Cardinality(Below(E, i)) + 1 <= Cardinality(E)
  BY <1>2, <1>3, FS_AddElement, FS_Subset
<1>5. ASSUME NEW j \in E, Cardinality(Below(E, i)) = Cardinality(Below(E, j)) PROVE i = j
  <2>1. Cardinality(Below(E, j)) \in Nat /\ i \in Nat /\ j \in Nat
    BY <1>0, Zenon
  <2> QED BY <1>1, <1>2, <1>5, <2>1
<1> QED BY <1>2, <1>4, <1>5

LEMMA SwitchesCardinality ==
  ASSUME NEW E
  PROVE  Switches!Cardinality(E) = Cardinality(E)
  BY DEF Switches!Cardinality, Cardinality

LEMMA SelectedIsLinear ==
  /\ Switches!Selected \in Seq(Switches!Linear)
  /\ Len(Switches!Selected) \in Nat
  /\ \A i \in Switches!Linear :
       \E k \in 1..Len(Switches!Selected) : Switches!Selected[k] = i
  /\ \A k, l \in 1..Len(Switches!Selected) :
       Switches!Selected[k] = Switches!Selected[l] => k = l
<1> DEFINE E == Switches!Linear
           n == Cardinality(E)
           Sel == Switches!Selected
<1>1. E \in SUBSET (1..Depth)
  BY DEF Switches!Linear, Switches!Layers
<1>2. n \in Nat
  BY <1>1, BelowGrows
<1>3. Switches!Cardinality(Switches!Linear) = n
  BY SwitchesCardinality
<1>4. \A k \in 1..n : Sel[k] \in E /\ Cardinality(Below(E, Sel[k])) = k - 1
  <2> SUFFICES ASSUME NEW k \in 1..n
               PROVE  Sel[k] \in E /\ Cardinality(Below(E, Sel[k])) = k - 1
    OBVIOUS
  <2>1. PICK i \in E : Cardinality(Below(E, i)) = k - 1
    BY <1>1, RankIsTaken
  <2>2. Switches!Cardinality({j \in Switches!Linear : j < i}) = k - 1
    BY <2>1, SwitchesCardinality DEF Below
  <2>3. /\ Sel[k] \in Switches!Linear
        /\ Switches!Cardinality({j \in Switches!Linear : j < Sel[k]}) = k - 1
    BY <1>3, <2>2 DEF Switches!Selected
  <2> QED BY <2>3, SwitchesCardinality DEF Below
<1>7. Sel = [k \in 1..n |-> Sel[k]]
  BY <1>3 DEF Switches!Selected
<1> HIDE DEF E, Sel
<1>5. Sel \in Seq(E) /\ Len(Sel) = n
  BY <1>2, <1>4, <1>7
<1>6. ASSUME NEW i \in E PROVE \E k \in 1..n : Sel[k] = i
  <2>1. Cardinality(Below(E, i)) + 1 \in 1..n
    BY <1>1, RankIsOwn
  <2>0. i \in Nat
    BY <1>1
  <2>2. Cardinality(Below(E, i)) \in Nat
    BY <1>1, <2>0, BelowGrows
  <2> DEFINE k == Cardinality(Below(E, i)) + 1
  <2>3. Sel[k] \in E /\ Cardinality(Below(E, Sel[k])) = k - 1
    BY <1>4, <2>1
  <2>4. Cardinality(Below(E, Sel[k])) = Cardinality(Below(E, i))
    BY <2>2, <2>3
  <2>5. Sel[k] = i
    BY <1>1, <2>3, <2>4, RankIsOwn
  <2> QED BY <2>1, <2>5
<1>8. \A k, l \in 1..n : Sel[k] = Sel[l] => k = l
  BY <1>2, <1>4
<1> QED BY <1>2, <1>5, <1>6, <1>8 DEF E, Sel

-----------------------------------------------------------------------------

LEMMA SwitchInit == Switches!Init => SwitchInv
<1> SUFFICES ASSUME Switches!Init PROVE SwitchInv
  OBVIOUS
<1>1. PICK kinds \in [Switches!Layers -> BOOLEAN] :
        layer = [i \in Switches!Layers |-> [linear |-> kinds[i], at |-> "stock", frozen |-> {},
                                           sharded |-> FALSE]]
  BY DEF Switches!Init
<1>2. last = Switches!Quiet /\ call = Switches!Idle /\ edits = 0
  BY DEF Switches!Init
<1>3. /\ model.family \in Switches!Family /\ model.flaw \in Switches!Flaws
      /\ model.family = "full" => \A i \in Switches!Layers : ~layer[i].linear
  BY DEF Switches!Init, Switches!Family, Switches!Flaws, Switches!FlawsOf
<1>4. ModelOK
  BY <1>1, <1>2, <1>3 DEF ModelOK, LayerRecord, Switches!At, Switches!Quiet
<1>5. WrappedAsOne /\ Switches!OnlyAFrozenKeySplits
  BY <1>1 DEF WrappedAsOne, Switches!OnlyAFrozenKeySplits
<1> QED BY <1>2, <1>4, <1>5 DEF SwitchInv, RewriteInv, StartedFromStock, Switches!Quiet,
         Switches!CheckedRefusalsChangeNothing, Switches!EnabledEverywhere

\* Freezing and sharding change no kind, install nothing and thaw nothing.
LEMMA EditStep ==
  ASSUME SwitchInv, NEW new, Switches!Edit(new),
         new \in [Switches!Layers -> LayerRecord],
         \A i \in Switches!Layers : /\ new[i].linear = layer[i].linear
                                    /\ new[i].at = layer[i].at
                                    /\ layer[i].frozen \subseteq new[i].frozen
  PROVE  SwitchInv'
<1>1. /\ layer' = new /\ last' = Switches!Quiet /\ call' = Switches!Idle
      /\ edits' = edits + 1 /\ UNCHANGED model
  BY DEF Switches!Edit
<1>2. ModelOK'
  BY <1>1 DEF SwitchInv, ModelOK, Switches!Quiet
<1>3. WrappedAsOne'
  BY <1>1 DEF SwitchInv, WrappedAsOne
<1>4. Switches!OnlyAFrozenKeySplits'
  <2>1. call = Switches!Idle /\ Switches!Linear' = Switches!Linear
    BY <1>1 DEF Switches!Edit, Switches!Linear
  <2> QED BY <1>1, <2>1 DEF SwitchInv, Switches!OnlyAFrozenKeySplits, Switches!Linear
<1> QED BY <1>1, <1>2, <1>3, <1>4 DEF SwitchInv, RewriteInv, StartedFromStock, Switches!Quiet,
         Switches!CheckedRefusalsChangeNothing, Switches!EnabledEverywhere

LEMMA UserStep ==
  ASSUME SwitchInv,
         \/ Switches!Freeze \/ Switches!Shard
         \/ \E i \in Switches!Layers : Switches!FreezeKey(i)
  PROVE  SwitchInv'
<1> USE DEF SwitchInv, ModelOK, LayerRecord, Switches!FrozenKeys
<1>1. CASE Switches!Freeze
  BY <1>1, EditStep DEF Switches!Freeze
<1>2. CASE Switches!Shard
  BY <1>2, EditStep, ZenonT(60) DEF Switches!Shard
<1>3. ASSUME NEW i \in Switches!Layers, Switches!FreezeKey(i) PROVE SwitchInv'
  <2> DEFINE new == [layer EXCEPT ![i].frozen = @ \cup {"bias"}]
  <2>1. Switches!Edit(new)
    BY <1>3 DEF Switches!FreezeKey
  <2>2. new \in [Switches!Layers -> LayerRecord]
    OBVIOUS
  <2>3. \A j \in Switches!Layers : /\ new[j].linear = layer[j].linear
                                   /\ new[j].at = layer[j].at
                                   /\ layer[j].frozen \subseteq new[j].frozen
    OBVIOUS
  <2> HIDE DEF new
  <2> QED BY <2>1, <2>2, <2>3, EditStep
<1> QED BY <1>1, <1>2, <1>3

LEMMA FlashStep ==
  ASSUME SwitchInv, NEW hinted \in BOOLEAN, Switches!EnableFlash(hinted)
  PROVE  SwitchInv'
<1> USE DEF SwitchInv
<1>1. call = Switches!Idle /\ call' = call /\ UNCHANGED <<model, edits>>
  BY DEF Switches!EnableFlash
<1>2. CASE UNCHANGED layer /\ Switches!Ended("flash", "refused")
  <2>1. Switches!Linear' = Switches!Linear
    BY <1>2 DEF Switches!Linear
  <2> QED BY <1>1, <1>2, <2>1 DEF Switches!Ended, ModelOK, RewriteInv, StartedFromStock,
         WrappedAsOne, Switches!OnlyAFrozenKeySplits,
         Switches!CheckedRefusalsChangeNothing, Switches!EnabledEverywhere
<1>3. ASSUME NEW result \in {"ok", "uncalibrated"}, Switches!Ended("flash", result),
             ~Switches!FlashRefused, layer' = Switches!Wrapped
      PROVE  SwitchInv'
  <2>1. /\ \A i \in Switches!Layers : ~layer[i].linear
        /\ last' = [fn |-> "flash", result |-> result, before |-> layer]
    BY <1>3 DEF Switches!FlashRefused, Switches!Ended, ModelOK
  <2>2. \A i \in Switches!Layers : layer'[i] = [layer[i] EXCEPT !.at = "wrapper"]
    BY <1>3 DEF Switches!Wrapped
  <2>3. layer' \in [Switches!Layers -> LayerRecord]
    BY <1>3, <2>2 DEF ModelOK, LayerRecord, Switches!At, Switches!Wrapped
  <2>4. \A i \in Switches!Layers : ~layer'[i].linear /\ layer'[i].at = "wrapper"
    <3> SUFFICES ASSUME NEW i \in Switches!Layers
                 PROVE  ~layer'[i].linear /\ layer'[i].at = "wrapper"
      OBVIOUS
    <3>1. layer[i] \in LayerRecord /\ ~layer[i].linear
      BY <2>1 DEF ModelOK
    <3>2. layer'[i] = [layer[i] EXCEPT !.at = "wrapper"]
      BY <2>2
    <3> QED BY <3>1, <3>2 DEF LayerRecord
  <2>5. ModelOK'
    BY <1>1, <2>1, <2>3, <2>4 DEF ModelOK
  <2> QED BY <1>1, <2>1, <2>4, <2>5 DEF RewriteInv, StartedFromStock, WrappedAsOne,
         Switches!OnlyAFrozenKeySplits,
         Switches!CheckedRefusalsChangeNothing, Switches!EnabledEverywhere
<1> QED BY <1>2, <1>3 DEF Switches!EnableFlash

LEMMA DeltaStep ==
  ASSUME SwitchInv, Switches!EnableDelta
  PROVE  SwitchInv'
<1> USE DEF SwitchInv
<1>1. /\ call = Switches!Idle /\ UNCHANGED <<model, layer, edits>>
  BY DEF Switches!EnableDelta
<1>2. CASE Switches!DeltaRefused
  <2>1. /\ call' = call
        /\ last' = [fn |-> "delta", before |-> layer, result |-> "refused"]
    BY <1>2 DEF Switches!EnableDelta, Switches!Ended
  <2>2. Switches!Linear' = Switches!Linear
    BY <1>1 DEF Switches!Linear
  <2> QED BY <1>1, <2>1, <2>2 DEF ModelOK, RewriteInv, StartedFromStock,
         WrappedAsOne, Switches!OnlyAFrozenKeySplits,
         Switches!CheckedRefusalsChangeNothing, Switches!EnabledEverywhere
<1>3. CASE ~Switches!DeltaRefused
  <2>1. /\ call' = Switches!Selected
        /\ last' = [fn |-> "delta", before |-> layer, result |-> "begun"]
    BY <1>3 DEF Switches!EnableDelta, Switches!Ended
  <2>2. \A i \in Switches!Layers : layer[i].linear => layer[i].at = "stock"
    BY <1>3 DEF Switches!DeltaRefused, Switches!SelectionRefuses, ModelOK
  <2>3. Switches!Selected' = Switches!Selected
    BY <1>1 DEF Switches!Selected, Switches!Linear
  <2>4. RewriteInv'
    <3> DEFINE Sel == Switches!Selected
    <3>1. Sel \in Seq(Switches!Linear) /\ Len(Sel) \in Nat
      BY SelectedIsLinear
    <3>2. Switches!Linear # {}
      BY <1>3 DEF Switches!DeltaRefused
    <3>3. 1 \in 1..Len(Sel)
      BY <3>1, <3>2, SelectedIsLinear
    <3>4. SubSeq(Sel, 1, Len(Sel)) = Sel
      BY <3>1
    <3>7. \A j \in 1..Len(Sel) : layer[Sel[j]].at = "stock"
      BY <2>2, <3>1 DEF Switches!Linear
    <3> HIDE DEF Sel
    <3>5. call' = SubSeq(Sel', 1, Len(Sel'))
      BY <2>1, <2>3, <3>4 DEF Sel
    <3>6. 1 \in 1..Len(Sel')
      BY <2>3, <3>3 DEF Sel
    <3>8. \A j \in 1..Len(Sel') : layer'[Sel'[j]].at = "stock"
      BY <1>1, <2>3, <3>7 DEF Sel
    <3>9. \A j \in 1..(1 - 1) : layer'[Sel'[j]].at = "proxy"
      OBVIOUS
    <3> QED BY <2>1, <3>5, <3>6, <3>8, <3>9 DEF RewriteInv, Sel
  <2>5. Switches!Linear' = Switches!Linear
    BY <1>1 DEF Switches!Linear
  <2> QED BY <1>1, <2>1, <2>2, <2>4, <2>5 DEF ModelOK, StartedFromStock,
         WrappedAsOne, Switches!OnlyAFrozenKeySplits,
         Switches!CheckedRefusalsChangeNothing, Switches!EnabledEverywhere
<1> QED BY <1>2, <1>3

\* One more layer is replaced, the last of the call or not, or its keys cannot be carried.
LEMMA ReplaceStep ==
  ASSUME SwitchInv, Switches!Replace
  PROVE  SwitchInv'
<1> USE DEF SwitchInv
<1> DEFINE Sel == Switches!Selected
           i == Head(call)
<1>1. /\ call # Switches!Idle /\ UNCHANGED <<model, edits>>
      /\ last.fn = "delta" /\ last.result = "begun"
  BY DEF Switches!Replace, RewriteInv
<1>2. PICK k \in 1..Len(Sel) : /\ call = SubSeq(Sel, k, Len(Sel))
                               /\ \A j \in 1..(k - 1) : layer[Sel[j]].at = "proxy"
                               /\ \A j \in k..Len(Sel) : layer[Sel[j]].at = "stock"
  BY <1>1 DEF RewriteInv
<1>3. /\ Sel \in Seq(Switches!Linear) /\ Len(Sel) \in Nat
      /\ \A j, l \in 1..Len(Sel) : Sel[j] = Sel[l] => j = l
  BY SelectedIsLinear
<1> HIDE DEF Sel
<1>4. i = Sel[k] /\ i \in Switches!Linear
  BY <1>2, <1>3
<1>5. i \in Switches!Layers /\ layer[i].linear /\ layer[i].at = "stock"
  <2>1. layer[Sel[k]].at = "stock"
    BY <1>2, <1>3
  <2> QED BY <1>4, <2>1 DEF Switches!Linear
<1> HIDE DEF i
<1>6. CASE layer[i].frozen \subseteq Switches!Carriable
  <2>1. /\ layer' = [layer EXCEPT ![i] = [layer[i] EXCEPT !.at = "proxy"]]
        /\ call' = Tail(call)
        /\ last' = [last EXCEPT !.result = IF Tail(call) = Switches!Idle THEN "ok" ELSE "begun"]
    BY <1>6 DEF Switches!Replace, Switches!Proxy, i
  <2>2. /\ layer' \in [Switches!Layers -> LayerRecord]
        /\ \A j \in Switches!Layers :
             /\ layer'[j].linear = layer[j].linear
             /\ layer'[j].at = IF j = i THEN "proxy" ELSE layer[j].at
    BY <1>5, <2>1 DEF ModelOK, LayerRecord, Switches!At
  <2>3. ModelOK'
    BY <1>1, <1>5, <2>1, <2>2 DEF ModelOK
  <2>4. Switches!Linear' = Switches!Linear
    BY <2>2 DEF Switches!Linear
  <2>5. Sel' = Sel
    BY <2>4 DEF Sel, Switches!Selected
  <2>6. \A j \in 1..k : layer'[Sel[j]].at = "proxy"
    <3> SUFFICES ASSUME NEW j \in 1..k PROVE layer'[Sel[j]].at = "proxy"
      OBVIOUS
    <3>1. Sel[j] \in Switches!Layers
      BY <1>3 DEF Switches!Linear
    <3>2. CASE j = k
      BY <1>4, <1>5, <2>2, <3>2
    <3>3. CASE j # k
      BY <1>2, <2>2, <3>1, <3>3
    <3> QED BY <3>2, <3>3
  <2>9. \A j \in (k + 1)..Len(Sel) : layer'[Sel[j]].at = "stock"
    <3> SUFFICES ASSUME NEW j \in (k + 1)..Len(Sel) PROVE layer'[Sel[j]].at = "stock"
      OBVIOUS
    <3>1. j \in k..Len(Sel) /\ j \in 1..Len(Sel) /\ j # k
      BY <1>3
    <3>2. Sel[j] \in Switches!Layers /\ Sel[j] # i
      BY <1>3, <1>4, <3>1 DEF Switches!Linear
    <3> QED BY <1>2, <2>2, <3>1, <3>2
  <2>10. WrappedAsOne'
    BY <1>5, <2>2 DEF WrappedAsOne
  <2>7. CASE k = Len(Sel)
    <3>1. Tail(call) = <<>>
      BY <1>2, <1>3, <2>7
    <3>2. call' = Switches!Idle /\ last' = [last EXCEPT !.result = "ok"]
      BY <2>1, <3>1 DEF Switches!Idle
    <3>3. \A j \in Switches!Linear : layer'[j].at = "proxy"
      BY <1>3, <2>6, <2>7, SelectedIsLinear DEF Sel
    <3>4. StartedFromStock'
      BY <1>1, <2>2, <3>2 DEF StartedFromStock, ModelOK
    <3>5. Switches!EnabledEverywhere'
      BY <1>1, <2>4, <3>2, <3>3, <3>4 DEF StartedFromStock, ModelOK, Switches!EnabledEverywhere, Switches!Linear
    <3>6. Switches!OnlyAFrozenKeySplits'
      <4>1. \A x, y \in Switches!Layers :
              layer'[x].linear = layer'[y].linear => layer'[x].at = layer'[y].at
        BY <2>2, <2>10, <3>3 DEF WrappedAsOne, Switches!Linear, ModelOK, LayerRecord
      <4> QED BY <4>1 DEF Switches!OnlyAFrozenKeySplits
    <3> QED BY <1>1, <2>3, <2>10, <3>2, <3>4, <3>5, <3>6 DEF RewriteInv, ModelOK,
         Switches!CheckedRefusalsChangeNothing
  <2>8. CASE k # Len(Sel)
    <3>0. k + 1 \in 1..Len(Sel)
      BY <1>3, <2>8
    <3>1. Tail(call) = SubSeq(Sel, k + 1, Len(Sel)) /\ Tail(call) # <<>>
      <4>1. Len(Sel) \in k..Len(Sel)
        BY <1>3
      <4>2. Tail(call) = SubSeq(Sel, k + 1, Len(Sel))
        BY <1>2, <1>3, <4>1, HeadTailOfSubSeq
      <4>3. Len(SubSeq(Sel, k + 1, Len(Sel))) # 0
        BY <1>3, <3>0
      <4>4. SubSeq(Sel, k + 1, Len(Sel)) # <<>>
        <5>1. ASSUME NEW t, Len(t) # 0 PROVE t # <<>>
          BY <5>1
        <5> QED BY <4>3, <5>1
      <4> QED BY <4>2, <4>4
    <3>2. call' = SubSeq(Sel, k + 1, Len(Sel)) /\ last' = [last EXCEPT !.result = "begun"]
      BY <2>1, <3>1 DEF Switches!Idle
    <3>3. RewriteInv'
      <4>1. last'.fn = "delta" /\ last'.result = "begun"
        BY <1>1, <3>2 DEF ModelOK
      <4>2. \A j \in 1..((k + 1) - 1) : layer'[Sel[j]].at = "proxy"
        BY <2>6
      <4>3. \E l \in 1..Len(Sel) : /\ call' = SubSeq(Sel, l, Len(Sel))
                                   /\ \A j \in 1..(l - 1) : layer'[Sel[j]].at = "proxy"
                                   /\ \A j \in l..Len(Sel) : layer'[Sel[j]].at = "stock"
        BY <2>9, <3>0, <3>2, <4>2
      <4>4. \E l \in 1..Len(Sel') : /\ call' = SubSeq(Sel', l, Len(Sel'))
                                    /\ \A j \in 1..(l - 1) : layer'[Sel'[j]].at = "proxy"
                                    /\ \A j \in l..Len(Sel') : layer'[Sel'[j]].at = "stock"
        BY <2>5, <4>3
      <4> QED BY <4>1, <4>4 DEF RewriteInv, Sel
    <3>4. StartedFromStock'
      BY <1>1, <2>2, <3>2 DEF StartedFromStock, ModelOK
    <3>5. call' # Switches!Idle
      BY <3>1, <3>2 DEF Switches!Idle
    <3> QED BY <1>1, <2>3, <2>10, <3>2, <3>3, <3>4, <3>5 DEF ModelOK,
         Switches!EnabledEverywhere, Switches!OnlyAFrozenKeySplits,
         Switches!CheckedRefusalsChangeNothing
  <2> QED BY <2>7, <2>8
<1>7. CASE ~(layer[i].frozen \subseteq Switches!Carriable)
  <2>1. /\ UNCHANGED layer /\ call' = Switches!Idle
        /\ last' = [last EXCEPT !.result = "uncarriable"]
    BY <1>7 DEF Switches!Replace, i
  <2>2. Switches!Linear' = Switches!Linear
    BY <2>1 DEF Switches!Linear
  <2>3. Switches!OnlyAFrozenKeySplits'
    BY <1>4, <1>5, <1>7, <2>1, <2>2 DEF Switches!OnlyAFrozenKeySplits, WrappedAsOne
  <2> QED BY <1>1, <2>1, <2>3 DEF ModelOK, RewriteInv, StartedFromStock, WrappedAsOne,
         Switches!CheckedRefusalsChangeNothing, Switches!EnabledEverywhere
<1> QED BY <1>6, <1>7

LEMMA SwitchStep == SwitchInv /\ [Switches!Next]_modelVars => SwitchInv'
<1> SUFFICES ASSUME SwitchInv, [Switches!Next]_modelVars PROVE SwitchInv'
  OBVIOUS
<1>1. CASE UNCHANGED modelVars
  <2>1. UNCHANGED <<model, layer, call, last, edits, calls>>
    BY <1>1 DEF modelVars
  <2>2. Switches!Linear' = Switches!Linear
    BY <2>1 DEF Switches!Linear
  <2>3. Switches!Selected' = Switches!Selected
    BY <2>2 DEF Switches!Selected
  <2> QED BY <2>1, <2>2, <2>3 DEF SwitchInv, ModelOK, RewriteInv, StartedFromStock,
         WrappedAsOne, Switches!OnlyAFrozenKeySplits,
         Switches!CheckedRefusalsChangeNothing, Switches!EnabledEverywhere
<1>2. CASE Switches!Next
  BY <1>2, UserStep, FlashStep, DeltaStep, ReplaceStep DEF Switches!Next
<1> QED BY <1>1, <1>2

\* Neither switch touches what the optimizer would update.
LEMMA RewritingKeepsFreeze ==
  ASSUME SwitchInv, Switches!Next, edits' = edits, NEW i \in Switches!Layers
  PROVE  Switches!Trainable(i)' = Switches!Trainable(i)
<1> SUFFICES layer'[i].linear = layer[i].linear /\ layer'[i].frozen = layer[i].frozen
  BY DEF Switches!Trainable
<1>1. layer \in [Switches!Layers -> LayerRecord] /\ edits \in Nat
  BY DEF SwitchInv, ModelOK
<1>2. \A new : ~Switches!Edit(new)
  BY <1>1 DEF Switches!Edit
<1>3. ASSUME NEW hinted \in BOOLEAN, Switches!EnableFlash(hinted)
      PROVE  layer'[i].linear = layer[i].linear /\ layer'[i].frozen = layer[i].frozen
  BY <1>1, <1>3 DEF Switches!EnableFlash, Switches!Wrapped, LayerRecord
<1>4. CASE Switches!Replace
  BY <1>1, <1>4 DEF Switches!Replace, Switches!Proxy, LayerRecord
<1>5. CASE Switches!EnableDelta
  BY <1>5 DEF Switches!EnableDelta
<1> QED BY <1>2, <1>3, <1>4, <1>5 DEF Switches!Next, Switches!Freeze, Switches!Shard,
         Switches!FreezeKey

-----------------------------------------------------------------------------
(* The suite: one part runs, the others rest. *)

SuiteInv == /\ part = "packing" => DatasetInv
            /\ part = "model" => SwitchInv
            /\ part = "condition" => ConditionInv

LEMMA SuiteInvInit == SuiteInit => SuiteInv
  BY DatasetInit, SwitchInit, ConditionInit DEF SuiteInit, SuiteInv

LEMMA SuiteInvStep == SuiteInv /\ [SuiteNext]_suiteVars => SuiteInv'
<1> SUFFICES ASSUME SuiteInv, [SuiteNext]_suiteVars PROVE SuiteInv'
  OBVIOUS
<1>1. part' = part
  BY DEF SuiteNext, InPacking, InModel, InCondition, suiteVars
<1>2. ASSUME part = "model" PROVE [Switches!Next]_modelVars
  BY <1>2 DEF SuiteNext, InPacking, InModel, InCondition, suiteVars
<1>3. ASSUME part = "condition" PROVE [Condition!Next]_conditionVars
  BY <1>3 DEF SuiteNext, InPacking, InModel, InCondition, suiteVars
<1>4. ASSUME part = "packing" PROVE [Next]_vars
  BY <1>4 DEF SuiteNext, InPacking, InModel, InCondition, suiteVars, packVars
<1> QED BY <1>1, <1>2, <1>3, <1>4, DatasetStep, SwitchStep, ConditionStep DEF SuiteInv

LEMMA SuiteInvariant == SuiteSpec => []SuiteInv
  BY SuiteInvInit, SuiteInvStep, PTL DEF SuiteSpec

\* data/packing.py: whatever the dataset, the order, the row length, the pool and the batch,
\* packing loses and repeats nothing, a position is supervised iff its own sequence says
\* so, and an epoch yields what the statistics count.
THEOREM BatchesAlwaysHoldTheDataset == SuiteSpec => []BatchesHoldTheDataset
<1>1. SuiteInv => BatchesHoldTheDataset
  BY BatchesHold DEF SuiteInv, BatchesHoldTheDataset
<1> QED BY <1>1, SuiteInvariant, PTL

\* bench/worker.py's wired-limit contract: no step of a condition is evaluated above the
\* house cap, and the verdict is about the steps that ran, for any buckets and steps.
THEOREM NoStepEverAboveTheCap == SuiteSpec => []NoStepAboveTheCap
<1>1. SuiteInv => NoStepAboveTheCap
  BY DEF SuiteInv, ConditionInv, CapInv, NoStepAboveTheCap
<1> QED BY <1>1, SuiteInvariant, PTL

\* bench/worker.py:412-434: what is measured is training, of adapters drawn from the
\* seed, with the attention rates of the hinted shape warm.
THEOREM MeasuredWindowIsTraining == SuiteSpec => []WindowMeasuresTraining
<1>1. ConditionInv => Condition!TrainsSeededAdapters
  BY DEF ConditionInv, MeasureInv, Condition!TrainsSeededAdapters, Injected, Casted, Setup
<1>2. SuiteInv => WindowMeasuresTraining
  BY <1>1 DEF SuiteInv, ConditionInv, ConditionOK, MeasureInv, WindowMeasuresTraining
<1> QED BY <1>2, SuiteInvariant, PTL

\* attention/wrapper.py, recurrent/wrapper.py: a call whose checks refuse rewrites nothing,
\* a success reached every layer it means, and only a frozen key that no proxy carries
\* leaves a model half rewritten, for a model of any depth and any calls and edits.
THEOREM EnablingIsAlwaysWhole == SuiteSpec => []EnablingIsWhole
<1>1. SwitchInv => Switches!TypeOK
  BY ZenonT(60) DEF SwitchInv, ModelOK, RewriteInv, LayerRecord, Switches!TypeOK
<1>2. SuiteInv => EnablingIsWhole
  BY <1>1 DEF SuiteInv, SwitchInv, EnablingIsWhole
<1> QED BY <1>2, SuiteInvariant, PTL

\* recurrent/wrapper.py:53-57: no enabling call freezes or thaws a parameter.
THEOREM EnablingNeverThaws == SuiteSpec => EnablingKeepsFreeze
<1>1. SuiteInv /\ [SuiteNext]_suiteVars =>
        [part = "model" /\ edits' = edits =>
           \A i \in Switches!Layers : Switches!Trainable(i)' = Switches!Trainable(i)]_suiteVars
  <2> SUFFICES ASSUME SuiteInv, SuiteNext, part = "model", edits' = edits,
                      NEW i \in Switches!Layers
               PROVE  Switches!Trainable(i)' = Switches!Trainable(i)
    OBVIOUS
  <2>1. Switches!Next
    BY DEF SuiteNext, InPacking, InModel, InCondition
  <2> QED BY <2>1, RewritingKeepsFreeze DEF SuiteInv
<1> QED BY <1>1, SuiteInvariant, PTL DEF SuiteSpec, EnablingKeepsFreeze
=============================================================================
