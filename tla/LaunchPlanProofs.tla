--------------------------- MODULE LaunchPlanProofs ---------------------------
(***************************************************************************)
(* What LaunchPlan promises for every shape, budget and threshold.  The    *)
(* argument: the planner takes the widest range that fits, so a modelled   *)
(* buffer it leaves open has no room for one more range; a chain that goes *)
(* on after a range therefore goes on because that range reached the       *)
(* commit threshold by itself, and mlx commits after it wherever its own   *)
(* count started.                                                          *)
(***************************************************************************)
EXTENDS LaunchPlan, TLAPS

USE LaunchAssumption DEF LaunchAssumption

-----------------------------------------------------------------------------
(* Arithmetic. *)

LEMMA SumOfMultiples ==
  ASSUME NEW m \in Nat \ {0}, NEW a \in Nat, NEW b \in Nat, a % m = 0, b % m = 0
  PROVE  (a + b) % m = 0
<1>1. a = m * (a \div m) /\ b = m * (b \div m)
  OBVIOUS
<1> DEFINE k == a \div m  l == b \div m
<1>2. k \in Int /\ l \in Int
  OBVIOUS
<1>3. a + b = m * (k + l)
  BY <1>1, <1>2
<1> HIDE DEF k, l
<1>4. (m * (k + l)) % m = 0
  BY <1>2
<1> QED BY <1>3, <1>4

LEMMA Half == ASSUME NEW x \in Int PROVE (2 * x) \div 2 = x
  OBVIOUS

LEMMA Even == ASSUME NEW k \in Nat PROVE \E x \in Int : k * (k + 1) = 2 * x
<1>1. CASE k % 2 = 0
  <2>1. PICK m \in Nat : k = 2 * m
    BY <1>1
  <2>2. m * (k + 1) \in Int /\ k * (k + 1) = 2 * (m * (k + 1))
    BY <2>1
  <2> QED BY <2>2
<1>2. CASE k % 2 = 1
  <2>1. PICK m \in Nat : k = 2 * m + 1
    BY <1>2
  <2>2. k * (m + 1) \in Int /\ k * (k + 1) = 2 * (k * (m + 1))
    BY <2>1
  <2> QED BY <2>2
<1> QED BY <1>1, <1>2

\* The work of adjacent ranges adds up exactly: splitting loses no work and
\* invents none.
LEMMA PairsAdd ==
  ASSUME NEW a \in Nat, NEW b \in Nat, NEW c \in Nat, a <= b, b <= c
  PROVE  /\ CausalPairs(a, c) = CausalPairs(a, b) + CausalPairs(b, c)
         /\ CausalPairs(a, b) \in Nat
<1>1. PICK x \in Int : a * (a + 1) = 2 * x
  BY Even
<1>2. PICK y \in Int : b * (b + 1) = 2 * y
  BY Even
<1>3. PICK z \in Int : c * (c + 1) = 2 * z
  BY Even
<1>4. \A r, e \in Nat : (e - r) * (r + e + 1) = e * (e + 1) - r * (r + 1)
  OBVIOUS
<1>5. CausalPairs(a, b) = y - x /\ y - x \in Nat
  <2>1. (b - a) * (a + b + 1) = 2 * (y - x)
    BY <1>1, <1>2, <1>4
  <2>2. (b - a) * (a + b + 1) >= 0
    OBVIOUS
  <2> QED BY <2>1, <2>2, Half, y - x \in Int DEF CausalPairs
<1>6. CausalPairs(b, c) = z - y
  <2>1. (c - b) * (b + c + 1) = 2 * (z - y)
    BY <1>2, <1>3, <1>4
  <2> QED BY <2>1, Half, z - y \in Int DEF CausalPairs
<1>7. CausalPairs(a, c) = z - x
  <2>1. (c - a) * (a + c + 1) = 2 * (z - x)
    BY <1>1, <1>3, <1>4
  <2> QED BY <2>1, Half, z - x \in Int DEF CausalPairs
<1> QED BY <1>5, <1>6, <1>7

LEMMA MacsAdd ==
  ASSUME NEW s \in Shape, NEW a \in Nat, NEW b \in Nat, NEW c \in Nat, a <= b, b <= c
  PROVE  /\ Macs(s, a, c) = Macs(s, a, b) + Macs(s, b, c)
         /\ Macs(s, a, b) \in Nat
<1> s.pair \in Nat /\ s.rows \in Nat
  BY DEF Shape
<1>1. CASE s.causal
  <2> DEFINE x == CausalPairs(a, b)  y == CausalPairs(b, c)  z == CausalPairs(a, c)
  <2>1. x \in Nat /\ y \in Nat /\ z = x + y
    <3>1. z = x + y /\ x \in Nat
      BY PairsAdd
    <3>2. y \in Nat
      BY PairsAdd, c <= c
    <3> QED BY <3>1, <3>2
  <2>2. Macs(s, a, b) = s.pair * x /\ Macs(s, b, c) = s.pair * y /\ Macs(s, a, c) = s.pair * z
    BY <1>1 DEF Macs
  <2> HIDE DEF x, y, z
  <2> QED BY <2>1, <2>2
<1>2. CASE ~s.causal
  <2>1. (c - a) * s.rows = (b - a) * s.rows + (c - b) * s.rows /\ (b - a) * s.rows \in Nat
        /\ (c - b) * s.rows \in Nat
    OBVIOUS
  <2> DEFINE x == (b - a) * s.rows  y == (c - b) * s.rows  z == (c - a) * s.rows
  <2>2. Macs(s, a, b) = s.pair * x /\ Macs(s, b, c) = s.pair * y /\ Macs(s, a, c) = s.pair * z
    BY <1>2 DEF Macs
  <2>3. x \in Nat /\ y \in Nat /\ z = x + y
    BY <2>1
  <2> HIDE DEF x, y, z
  <2> QED BY <2>2, <2>3
<1> QED BY <1>1, <1>2

LEMMA MacsNat ==
  ASSUME NEW s \in Shape, NEW a \in Nat, NEW b \in Nat, a <= b
  PROVE  Macs(s, a, b) \in Nat /\ s.out * (b - a) \in Nat
<1>1. Macs(s, a, b) \in Nat
  BY MacsAdd, b <= b
<1>2. s.out \in Nat /\ b - a \in Nat
  BY DEF Shape
<1>3. s.out * (b - a) \in Nat
  BY <1>2
<1> QED BY <1>1, <1>3

-----------------------------------------------------------------------------
(* Type correctness. *)

LEMMA LoadedType ==
  ASSUME NEW s \in Shape, NEW b \in Buffer, NEW r0 \in Nat, NEW r1 \in Nat, r0 <= r1
  PROVE  Loaded(s, b, r0, r1) \in Buffer
<1>1. Macs(s, r0, r1) \in Nat /\ s.out * (r1 - r0) \in Nat
  BY MacsNat
<1>2. s.live \in Nat
  BY DEF Shape
<1>3. b.elems \in Nat /\ b.ops \in Nat /\ b.time \in Nat
  BY DEF Buffer
<1>4. (IF b.ops = 0 THEN s.live ELSE b.elems) + s.out * (r1 - r0) \in Nat
  BY <1>1, <1>2, <1>3
<1>5. b.time + Macs(s, r0, r1) \in Nat /\ b.ops + 1 \in Nat
  BY <1>1, <1>3
<1> QED BY <1>4, <1>5 DEF Loaded, Buffer

LEMMA TypeInit == ASSUME Init PROVE TypeOK
<1>1. Empty \in Buffer
  BY DEF Empty, Buffer
<1>2. plan \in [Chain -> Seq(Rows)]
  BY DEF Init
<1>3. real \in [elems : Nat, ops : Nat, time : Nat, reads : SUBSET Chain]
  BY DEF Init
<1>4. shape \in [Chain -> Shapes] /\ chain \in 1..(Chains + 1) /\ row \in Nat /\ encoded \in [Chain -> Nat]
  BY DEF Init
<1>5. chain \in Chain => row <= shape[chain].rows
  BY <1>4 DEF Init, Shape
<1>6. \A c \in Chain : encoded[c] <= Len(plan[c])
  BY DEF Init
<1> QED BY <1>1, <1>2, <1>3, <1>4, <1>5, <1>6 DEF Init, TypeOK

LEMMA TypeStep == ASSUME TypeOK, [Next]_vars PROVE TypeOK'
<1> SUFFICES ASSUME Next PROVE TypeOK'
  BY DEF vars, TypeOK
<1>1. CASE PlanRange
  <2> DEFINE s == shape[chain]
  <2>1. s \in Shape /\ chain \in Chain /\ row < s.rows /\ row \in Nat /\ model \in Buffer
    BY <1>1 DEF PlanRange, TypeOK
  <2>2. PICK r1 \in (row + 1)..s.rows :
          /\ plan' = [plan EXCEPT ![chain] = Append(@, [first |-> row, end |-> r1])]
          /\ row' = r1
          /\ model' = IF Full(Loaded(s, model, row, r1)) THEN Empty ELSE Loaded(s, model, row, r1)
    BY <1>1 DEF PlanRange
  <2>3. r1 \in Nat /\ row < r1 /\ r1 <= s.rows
    BY <2>1, <2>2 DEF Shape
  <2>4. model' \in Buffer
    <3>1. Loaded(s, model, row, r1) \in Buffer
      BY <2>1, <2>3, LoadedType
    <3> QED BY <2>2, <3>1 DEF Empty, Buffer
  <2>5. plan' \in [Chain -> Seq(Rows)]
    <3>1. [first |-> row, end |-> r1] \in Rows
      BY <2>1, <2>3 DEF Rows
    <3>2. plan \in [Chain -> Seq(Rows)]
      BY DEF TypeOK
    <3> QED BY <2>1, <2>2, <3>1, <3>2
  <2>6. \A c \in Chain : encoded[c] <= Len(plan'[c])
    <3>1. plan \in [Chain -> Seq(Rows)] /\ encoded \in [Chain -> Nat]
          /\ \A c \in Chain : encoded[c] <= Len(plan[c])
      BY DEF TypeOK
    <3>2. \A c \in Chain : Len(plan[c]) <= Len(plan'[c])
      BY <2>1, <2>2, <3>1
    <3>3. \A c \in Chain : Len(plan[c]) \in Nat /\ Len(plan'[c]) \in Nat
      BY <2>5, <3>1
    <3> QED BY <3>1, <3>2, <3>3
  <2> QED BY <1>1, <2>2, <2>3, <2>4, <2>5, <2>6 DEF PlanRange, TypeOK
<1>2. CASE PlanReturns
  <2>1. Empty \in Buffer
    BY DEF Empty, Buffer
  <2>2. chain' \in Chain => row' <= shape[chain'].rows
    BY <1>2 DEF PlanReturns, TypeOK, Shape
  <2> QED BY <1>2, <2>1, <2>2 DEF PlanReturns, TypeOK, Chain
<1>3. CASE Refuse
  BY <1>3 DEF Refuse, TypeOK
<1>4. CASE Evaluate
  BY <1>4 DEF Evaluate, TypeOK
<1>5. ASSUME NEW c \in Chain, EncodeDispatch(c) PROVE TypeOK'
  <2> DEFINE s == shape[c]  r == plan[c][encoded[c] + 1]
  <2>1. s \in Shape /\ r \in Rows /\ encoded[c] < Len(plan[c]) /\ encoded[c] \in Nat
    BY <1>5 DEF EncodeDispatch, TypeOK
  <2>2. r.first \in Nat /\ r.end \in Nat /\ r.first <= r.end
    BY <2>1 DEF Rows
  <2>3. Macs(s, r.first, r.end) \in Nat /\ s.out * (r.end - r.first) \in Nat
    BY <2>1, <2>2, MacsNat
  <2>4. (IF c \in real.reads THEN 0 ELSE s.live) \in Nat
    BY <2>1 DEF Shape
  <2>5. real.elems \in Nat /\ real.ops \in Nat /\ real.time \in Nat /\ real.reads \in SUBSET Chain
    BY DEF TypeOK
  <2>6. real' = [elems |-> real.elems + (IF c \in real.reads THEN 0 ELSE s.live)
                             + s.out * (r.end - r.first),
                 ops |-> real.ops + 1,
                 time |-> real.time + Macs(s, r.first, r.end),
                 reads |-> real.reads \cup {c}]
    BY <1>5 DEF EncodeDispatch
  <2>7. real' \in [elems : Nat, ops : Nat, time : Nat, reads : SUBSET Chain]
    <3>1. real.elems + (IF c \in real.reads THEN 0 ELSE s.live) + s.out * (r.end - r.first) \in Nat
      BY <2>3, <2>4, <2>5
    <3>2. real.ops + 1 \in Nat /\ real.time + Macs(s, r.first, r.end) \in Nat
      BY <2>3, <2>5
    <3>3. real.reads \cup {c} \in SUBSET Chain
      BY <2>5
    <3> HIDE DEF s, r
    <3> QED BY <2>6, <3>1, <3>2, <3>3
  <2>8. encoded' \in [Chain -> Nat] /\ \A k \in Chain : encoded'[k] <= Len(plan[k])
    <3>1. encoded \in [Chain -> Nat] /\ \A k \in Chain : encoded[k] <= Len(plan[k])
      BY DEF TypeOK
    <3>2. Len(plan[c]) \in Nat
      BY DEF TypeOK
    <3>3. encoded' = [encoded EXCEPT ![c] = @ + 1]
      BY <1>5 DEF EncodeDispatch
    <3> QED BY <2>1, <3>1, <3>2, <3>3
  <2> QED BY <1>5, <2>7, <2>8 DEF EncodeDispatch, TypeOK
<1>6. CASE EncodeForeign
  <2>1. PICK e \in Nat : real' = [real EXCEPT !.elems = @ + e, !.ops = @ + 1]
    BY <1>6 DEF EncodeForeign
  <2>2. real' \in [elems : Nat, ops : Nat, time : Nat, reads : SUBSET Chain]
    <3>1. real \in [elems : Nat, ops : Nat, time : Nat, reads : SUBSET Chain]
      BY DEF TypeOK
    <3>2. real.elems + e \in Nat /\ real.ops + 1 \in Nat
      BY <3>1
    <3> QED BY <2>1, <3>1, <3>2
  <2> QED BY <1>6, <2>2 DEF EncodeForeign, TypeOK
<1>7. CASE Commit
  BY <1>7 DEF Commit, TypeOK
<1>8. CASE Finish
  BY <1>8 DEF Finish, TypeOK
<1>9. CASE Stopped
  BY <1>9 DEF Stopped, vars, TypeOK
<1> QED
  BY <1>1, <1>2, <1>3, <1>4, <1>5, <1>6, <1>7, <1>8, <1>9 DEF Next, PlanStep, EncodeStep

\* Every action keeps the state within the types of LaunchPlan.
THEOREM TypeCorrect == Spec => []TypeOK
<1>1. Init => TypeOK
  BY TypeInit
<1>2. TypeOK /\ [Next]_vars => TypeOK'
  BY TypeStep
<1> QED
  BY <1>1, <1>2, PTL DEF Spec

-----------------------------------------------------------------------------
(* The planner. *)

\* A dispatch of r fills a command buffer by itself.
Owns(s, r) == s.live + s.out * (r.end - r.first) >= CommitElems

\* The ranges planned so far follow one another from row 0, each within the
\* budget, and every one but the last owns its buffer.
RangesOf(s, p) ==
  /\ \A i \in 1..Len(p) :
       /\ p[i].first = (IF i = 1 THEN 0 ELSE p[i - 1].end)
       /\ p[i].end <= s.rows
       /\ p[i].end = s.rows \/ (p[i].end - p[i].first) % s.align = 0
       /\ p[i].end = s.rows \/ p[i].end % s.align = 0
       /\ Macs(s, p[i].first, p[i].end) <= Budget
  /\ \A i \in 1..(Len(p) - 1) : Owns(s, p[i])

LastEnd(p) == IF p = <<>> THEN 0 ELSE p[Len(p)].end

ProgressInv ==
  \A c \in Chain :
    /\ RangesOf(shape[c], plan[c])
    /\ c < chain => plan[c] # <<>> /\ LastEnd(plan[c]) = shape[c].rows
    /\ c = chain => row = LastEnd(plan[c])
    /\ c > chain => plan[c] = <<>>

\* The modelled buffer is empty after a range that owns its buffer; otherwise
\* it holds the last range alone, and that one could not have been wider.
ModelInv ==
  /\ model.ops = 0 => model.time = 0
  /\ chain \in Chain =>
       LET s == shape[chain]
           p == plan[chain]
           r == p[Len(p)]
       IN  /\ model.ops = 0 => p = <<>> \/ Owns(s, r)
           /\ model.ops # 0 =>
                /\ p # <<>> /\ ~Owns(s, r)
                /\ model.ops = 1 /\ model.time = Macs(s, r.first, r.end)
                /\ \A e \in (r.end + 1)..s.rows : ~Fits(s, r.first, e, Budget)
  /\ chain \notin Chain => model.ops = 0

PhaseInv ==
  /\ pc \in {"encode", "done"} => chain \notin Chain
  /\ pc = "refused" =>
       /\ chain \in Chain /\ row < shape[chain].rows
       /\ \A e \in (row + 1)..shape[chain].rows :
            ~Fits(shape[chain], row, e, Budget - model.time)

PlanInv == TypeOK /\ ProgressInv /\ ModelInv /\ PhaseInv

\* What the planner does next, if it plans a range at all: the modelled buffer
\* is empty, whatever it held before.
LEMMA RangeStartsBuffer ==
  ASSUME PlanInv, PlanRange, ~Rounding
  PROVE  model.ops = 0 /\ model.time = 0
<1> DEFINE s == shape[chain]  p == plan[chain]  r == p[Len(p)]
<1> SUFFICES ASSUME model.ops # 0 PROVE FALSE
  BY DEF PlanInv, ModelInv
<1>1. chain \in Chain /\ s \in Shape /\ row < s.rows /\ row \in Nat
  BY DEF PlanInv, TypeOK, PlanRange
<1>2. p # <<>> /\ p \in Seq(Rows) /\ model.time = Macs(s, r.first, r.end)
  BY <1>1 DEF PlanInv, ModelInv, TypeOK
<1>3. \A e \in (r.end + 1)..s.rows : ~Fits(s, r.first, e, Budget)
  BY <1>1 DEF PlanInv, ModelInv
<1>4. Len(p) \in 1..Len(p) /\ r \in Rows
  BY <1>2
<1>5. r.end = row /\ (r.end = s.rows \/ (r.end - r.first) % s.align = 0)
  BY <1>1, <1>2, <1>4 DEF PlanInv, ProgressInv, RangesOf, LastEnd
<1>6. PICK e \in (row + 1)..s.rows : Fits(s, row, e, Budget - model.time)
  BY <1>1 DEF PlanRange, MayPlan, OneBlockOff, Widest
<1> HIDE DEF s, p, r
<1>7. /\ r.first \in Nat /\ r.end \in Nat /\ r.first < r.end
      /\ s.rows \in Nat /\ s.align \in Nat \ {0} /\ e \in Nat /\ row < e
  <2>1. r.first \in Nat /\ r.end \in Nat /\ r.first < r.end
    BY <1>4 DEF Rows
  <2>2. s.rows \in Nat /\ s.align \in Nat \ {0}
    BY <1>1 DEF Shape
  <2> QED BY <1>1, <1>6, <2>1, <2>2
<1>8. r.first <= row /\ row <= e /\ row \in Nat
  BY <1>1, <1>5, <1>7
<1>9. Macs(s, r.first, e) <= Budget
  <2>1. Macs(s, r.first, e) = Macs(s, r.first, row) + Macs(s, row, e)
    <3>1. \A x, y, z \in Nat : x <= y /\ y <= z => Macs(s, x, z) = Macs(s, x, y) + Macs(s, y, z)
      BY <1>1, MacsAdd
    <3> QED BY <1>7, <1>8, <3>1
  <2>2. Macs(s, r.first, row) \in Nat /\ Macs(s, row, e) \in Nat
    BY <1>1, <1>7, <1>8, MacsNat
  <2>3. Macs(s, row, e) <= Budget - Macs(s, r.first, row)
    BY <1>2, <1>5, <1>6 DEF Fits
  <2> QED BY <2>1, <2>2, <2>3
<1>10. MayEndAt(s, r.first, e)
  <2>1. CASE e = s.rows
    BY <2>1 DEF MayEndAt
  <2>2. CASE e # s.rows
    <3>1. (e - row) % s.align = 0 /\ (row - r.first) % s.align = 0
      BY <1>1, <1>5, <1>6, <2>2 DEF Fits, MayEndAt
    <3>2. e - row \in Nat /\ row - r.first \in Nat /\ (e - row) + (row - r.first) = e - r.first
      BY <1>1, <1>5, <1>7
    <3>3. ((e - row) + (row - r.first)) % s.align = 0
      BY <1>7, <3>1, <3>2, SumOfMultiples
    <3> QED BY <3>2, <3>3 DEF MayEndAt
  <2> QED BY <2>1, <2>2
<1>11. e \in (r.first + 1)..s.rows /\ e \in (r.end + 1)..s.rows
  BY <1>5, <1>6, <1>7
<1> QED
  BY <1>3, <1>9, <1>10, <1>11 DEF Fits

LEMMA PlanInvInit == ASSUME Init, TypeOK PROVE PlanInv
<1>1. \A c \in Chain : plan[c] = <<>> /\ shape[c] \in Shape
  BY DEF Init, TypeOK
<1>2. ProgressInv
  BY <1>1 DEF Init, ProgressInv, RangesOf, LastEnd, Chain
<1>3. ModelInv
  BY <1>1 DEF Init, ModelInv, Empty, Chain
<1>4. PhaseInv
  BY DEF Init, PhaseInv
<1> QED BY <1>2, <1>3, <1>4 DEF PlanInv

LEMMA AppendFacts ==
  ASSUME NEW S, NEW p \in Seq(S), NEW e \in S
  PROVE  /\ Append(p, e) \in Seq(S) /\ Len(Append(p, e)) = Len(p) + 1
         /\ Append(p, e)[Len(Append(p, e))] = e /\ Append(p, e) # <<>>
         /\ \A i \in 1..Len(p) : Append(p, e)[i] = p[i]
  OBVIOUS

\* A range is appended: the chain goes on as RangesOf says.
LEMMA RangesAppend ==
  ASSUME NEW s \in Shape, NEW p \in Seq(Rows), RangesOf(s, p),
         p = <<>> \/ Owns(s, p[Len(p)]),
         LastEnd(p) < s.rows,
         NEW r1 \in Nat, Fits(s, LastEnd(p), r1, Budget)
  PROVE  /\ Append(p, [first |-> LastEnd(p), end |-> r1]) # <<>>
         /\ LastEnd(Append(p, [first |-> LastEnd(p), end |-> r1])) = r1
         /\ RangesOf(s, Append(p, [first |-> LastEnd(p), end |-> r1]))
<1> DEFINE a == LastEnd(p)  r == [first |-> a, end |-> r1]  q == Append(p, r)
<1>1. a \in Nat /\ s.rows \in Nat /\ s.align \in Nat \ {0} /\ Len(p) \in Nat
  <2>1. CASE p = <<>>
    BY <2>1 DEF LastEnd, Shape
  <2>2. CASE p # <<>>
    <3>1. p[Len(p)] \in Rows
      BY <2>2
    <3> QED BY <2>2, <3>1 DEF LastEnd, Shape, Rows
  <2> QED BY <2>1, <2>2
<1>2. r \in Rows
  BY <1>1 DEF Fits, Rows
<1>3. /\ q \in Seq(Rows) /\ Len(q) = Len(p) + 1 /\ q[Len(q)] = r /\ q # <<>>
      /\ \A i \in 1..Len(p) : q[i] = p[i]
  BY <1>2, AppendFacts
<1>4. a = IF Len(q) = 1 THEN 0 ELSE q[Len(q) - 1].end
  BY <1>1, <1>3 DEF LastEnd
<1>5. r1 <= s.rows /\ Macs(s, a, r1) <= Budget /\ (r1 = s.rows \/ (r1 - a) % s.align = 0)
  BY <1>1 DEF Fits, MayEndAt
<1>6. r1 = s.rows \/ r1 % s.align = 0
  <2> SUFFICES ASSUME r1 # s.rows PROVE r1 % s.align = 0
    OBVIOUS
  <2>1. (r1 - a) % s.align = 0 /\ r1 - a \in Nat
    BY <1>1, <1>5 DEF Fits
  <2>2. a % s.align = 0
    <3>1. CASE p = <<>>
      BY <1>1, <3>1 DEF LastEnd
    <3>2. CASE p # <<>>
      BY <1>1, <3>2 DEF LastEnd, RangesOf
    <3> QED BY <3>1, <3>2
  <2>3. ((r1 - a) + a) % s.align = 0
    BY <1>1, <2>1, <2>2, SumOfMultiples
  <2>4. (r1 - a) + a = r1
    BY <1>1
  <2> QED BY <2>3, <2>4
<1> HIDE DEF a, q
<1>7. ASSUME NEW i \in 1..Len(q)
      PROVE  /\ q[i].first = (IF i = 1 THEN 0 ELSE q[i - 1].end)
             /\ q[i].end <= s.rows
             /\ q[i].end = s.rows \/ (q[i].end - q[i].first) % s.align = 0
             /\ q[i].end = s.rows \/ q[i].end % s.align = 0
             /\ Macs(s, q[i].first, q[i].end) <= Budget
  <2>1. CASE i = Len(q)
    BY <1>3, <1>4, <1>5, <1>6, <2>1
  <2>2. CASE i # Len(q)
    <3>1. i \in 1..Len(p) /\ q[i] = p[i]
      BY <1>1, <1>3, <2>2
    <3>2. i # 1 => i - 1 \in 1..Len(p) /\ q[i - 1] = p[i - 1]
      BY <1>1, <1>3, <3>1
    <3> QED BY <3>1, <3>2 DEF RangesOf
  <2> QED BY <2>1, <2>2
<1>8. ASSUME NEW i \in 1..(Len(q) - 1) PROVE Owns(s, q[i])
  <2>1. i \in 1..Len(p) /\ q[i] = p[i]
    BY <1>1, <1>3
  <2>2. CASE i = Len(p)
    BY <1>1, <2>1, <2>2
  <2>3. CASE i # Len(p)
    BY <1>1, <2>1, <2>3 DEF RangesOf
  <2> QED BY <2>2, <2>3
<1>9. RangesOf(s, q)
  BY <1>7, <1>8 DEF RangesOf
<1> QED BY <1>3, <1>9 DEF a, q, LastEnd

LEMMA PlanInvPlanRange == ASSUME PlanInv, PlanRange, TypeOK', ~Rounding PROVE PlanInv'
<1> DEFINE s == shape[chain]  p == plan[chain]
<1>1. /\ chain \in Chain /\ s \in Shape /\ row < s.rows /\ row \in Nat
      /\ plan \in [Chain -> Seq(Rows)] /\ p \in Seq(Rows)
  BY DEF PlanInv, TypeOK, PlanRange
<1>2. model.ops = 0 /\ model.time = 0
  BY RangeStartsBuffer
<1>3. PICK r1 \in (row + 1)..s.rows :
        /\ Widest(s, row, r1, Budget - model.time)
        /\ plan' = [plan EXCEPT ![chain] = Append(@, [first |-> row, end |-> r1])]
        /\ row' = r1
        /\ model' = IF Full(Loaded(s, model, row, r1)) THEN Empty ELSE Loaded(s, model, row, r1)
  BY DEF PlanRange, MayPlan, OneBlockOff
<1>4. UNCHANGED <<shape, pc, chain, encoded, real>>
  BY DEF PlanRange
<1> DEFINE r == [first |-> row, end |-> r1]  q == Append(p, r)
<1>5. r1 \in Nat /\ Budget - model.time = Budget
  BY <1>1, <1>2, <1>3 DEF Shape
<1>6. plan'[chain] = q /\ \A c \in Chain : c # chain => plan'[c] = plan[c]
  BY <1>1, <1>3
<1>7. row = LastEnd(p) /\ RangesOf(s, p) /\ (p = <<>> \/ Owns(s, p[Len(p)]))
  BY <1>1, <1>2 DEF PlanInv, ProgressInv, ModelInv
<1>8. q # <<>> /\ LastEnd(q) = r1 /\ RangesOf(s, q)
  BY <1>1, <1>3, <1>5, <1>7, RangesAppend DEF Widest
<1>9. q[Len(q)] = r
  BY <1>1
<1> HIDE DEF s, p, q
<1>10. ProgressInv'
  <2> SUFFICES ASSUME NEW c \in Chain
               PROVE  /\ RangesOf(shape[c], plan'[c])
                      /\ c < chain => plan'[c] # <<>> /\ LastEnd(plan'[c]) = shape[c].rows
                      /\ c = chain => row' = LastEnd(plan'[c])
                      /\ c > chain => plan'[c] = <<>>
    BY <1>4 DEF ProgressInv
  <2>1. CASE c = chain
    <3>1. plan'[c] = q /\ shape[c] = s /\ row' = r1
      BY <1>3, <1>6, <2>1 DEF s
    <3>2. chain \in Nat
      BY <1>1 DEF Chain
    <3> QED BY <1>8, <2>1, <3>1, <3>2
  <2>2. CASE c # chain
    <3>1. plan'[c] = plan[c]
      BY <1>6, <2>2
    <3>2. /\ RangesOf(shape[c], plan[c])
          /\ c < chain => plan[c] # <<>> /\ LastEnd(plan[c]) = shape[c].rows
          /\ c > chain => plan[c] = <<>>
      BY DEF PlanInv, ProgressInv
    <3>3. chain \in Nat /\ c \in Nat
      BY <1>1 DEF Chain
    <3> HIDE DEF r
    <3> QED BY <2>2, <3>1, <3>2, <3>3
  <2> QED BY <2>1, <2>2
<1>11. ModelInv'
  <2> DEFINE b == Loaded(s, model, row, r1)
  <2>1. b.ops = 1 /\ b.time = Macs(s, row, r1) /\ b.elems = s.live + s.out * (r1 - row)
    <3>1. Macs(s, row, r1) \in Nat
      BY <1>1, <1>3, <1>5, MacsNat
    <3> QED BY <1>2, <3>1 DEF Loaded
  <2>2. Full(b) <=> Owns(s, r)
    <3>1. Full(b) <=> b.elems >= CommitElems
      BY <2>1 DEF Full
    <3> QED BY <2>1, <3>1 DEF Owns
  <2>3. \A e \in (r1 + 1)..s.rows : ~Fits(s, row, e, Budget)
    BY <1>3, <1>5 DEF Widest
  <2> HIDE DEF b
  <2>4. CASE Full(b)
    <3>1. model' = Empty
      BY <1>3, <2>4 DEF b
    <3> QED BY <1>1, <1>4, <1>6, <1>9, <2>2, <2>4, <3>1 DEF ModelInv, Empty, s
  <2>5. CASE ~Full(b)
    <3>1. model' = b
      BY <1>3, <2>5 DEF b
    <3> QED BY <1>1, <1>4, <1>6, <1>8, <1>9, <2>1, <2>2, <2>3, <2>5, <3>1 DEF ModelInv, s
  <2> QED BY <2>4, <2>5
<1>12. PhaseInv'
  BY <1>4 DEF PlanInv, PhaseInv, PlanRange
<1> QED BY <1>10, <1>11, <1>12 DEF PlanInv

\* The ranges of every chain, as the planner leaves them, are all that later
\* steps need; they change nothing of them.
LEMMA PlanInvStep == ASSUME PlanInv, [Next]_vars, TypeOK', ~Rounding PROVE PlanInv'
<1> USE DEF PlanInv
<1>1. CASE PlanRange
  BY <1>1, PlanInvPlanRange
<1>2. CASE PlanReturns
  <2>1. chain \in Chain /\ row = shape[chain].rows /\ chain \in Nat
    BY <1>2 DEF PlanReturns, Chain
  <2>2. /\ chain' = chain + 1 /\ row' = 0 /\ model' = Empty
        /\ UNCHANGED <<shape, pc, plan, encoded, real>>
    BY <1>2 DEF PlanReturns
  <2>3. LastEnd(plan[chain]) = shape[chain].rows /\ shape[chain].rows # 0
    BY <2>1 DEF ProgressInv, TypeOK, Shape
  <2>4. plan[chain] # <<>>
    BY <2>3 DEF LastEnd
  <2>5. ProgressInv'
    BY <2>1, <2>2, <2>3, <2>4 DEF ProgressInv, LastEnd, Chain
  <2>6. ModelInv'
    BY <2>1, <2>2 DEF ModelInv, ProgressInv, Empty, Chain
  <2>7. PhaseInv'
    BY <1>2, <2>2 DEF PhaseInv, PlanReturns
  <2> QED BY <2>5, <2>6, <2>7
<1>3. CASE Refuse
  BY <1>3 DEF Refuse, ProgressInv, ModelInv, PhaseInv
<1>4. CASE Evaluate
  BY <1>4 DEF Evaluate, ProgressInv, ModelInv, PhaseInv
<1>5. CASE EncodeStep
  <2>1. UNCHANGED <<shape, chain, row, model, plan>> /\ pc = "encode" /\ pc' \in {"encode", "done"}
    BY <1>5 DEF EncodeStep, EncodeDispatch, EncodeForeign, Commit, Finish
  <2> QED BY <2>1 DEF ProgressInv, ModelInv, PhaseInv
<1>6. CASE Stopped \/ UNCHANGED vars
  BY <1>6 DEF Stopped, vars, ProgressInv, ModelInv, PhaseInv
<1> QED
  BY <1>1, <1>2, <1>3, <1>4, <1>5, <1>6 DEF Next, PlanStep

THEOREM PlanCorrect == ASSUME ~Rounding PROVE Spec => []PlanInv
<1>1. Init /\ TypeOK => PlanInv
  BY PlanInvInit
<1>2. PlanInv /\ [Next]_vars /\ TypeOK' => PlanInv'
  BY PlanInvStep
<1> QED
  BY <1>1, <1>2, TypeCorrect, PTL DEF Spec

-----------------------------------------------------------------------------
(* What a plan that is launched, and one that is refused, is worth. *)

\* Before anything is encoded, every chain has a whole plan.
LEMMA Planned ==
  ASSUME PlanInv, pc = "encode", NEW c \in Chain
  PROVE  /\ shape[c] \in Shape /\ plan[c] \in Seq(Rows) /\ plan[c] # <<>>
         /\ plan[c][Len(plan[c])].end = shape[c].rows
         /\ RangesOf(shape[c], plan[c])
<1>1. shape[c] \in Shape /\ plan[c] \in Seq(Rows)
  BY DEF PlanInv, TypeOK
<1>2. c < chain
  BY DEF PlanInv, TypeOK, PhaseInv, Chain
<1> QED BY <1>1, <1>2 DEF PlanInv, ProgressInv, LastEnd

\* The ranges that are launched tile the rows in order, cut at whole blocks.
THEOREM Tiling == ASSUME ~Rounding PROVE Spec => []TilesEveryRow
<1>1. ASSUME PlanInv PROVE TilesEveryRow
  <2> SUFFICES ASSUME pc = "encode", NEW c \in Chain
      PROVE  /\ plan[c] # <<>> /\ plan[c][1].first = 0 /\ plan[c][Len(plan[c])].end = shape[c].rows
             /\ \A i \in 1..(Len(plan[c]) - 1) :
                  /\ plan[c][i].end = plan[c][i + 1].first
                  /\ plan[c][i].end % shape[c].align = 0
    BY DEF TilesEveryRow
  <2> DEFINE p == plan[c]  s == shape[c]
  <2>1. /\ s \in Shape /\ p \in Seq(Rows) /\ p # <<>>
        /\ p[Len(p)].end = s.rows /\ RangesOf(s, p)
    BY <1>1, Planned
  <2> HIDE DEF p, s
  <2>2. p[1].first = 0
    BY <2>1 DEF RangesOf
  <2>3. ASSUME NEW i \in 1..(Len(p) - 1)
        PROVE  p[i].end = p[i + 1].first /\ p[i].end % s.align = 0
    <3>1. i \in 1..Len(p) /\ i + 1 \in 1..Len(p) /\ i + 1 # 1 /\ (i + 1) - 1 = i
      BY <2>1
    <3>2. p[i + 1].first = p[i].end
      BY <3>1, <2>1 DEF RangesOf
    <3>3. p[i + 1].first < p[i + 1].end /\ p[i + 1].end <= s.rows
      BY <3>1, <2>1 DEF RangesOf, Rows
    <3>4. p[i + 1] \in Rows /\ p[i] \in Rows /\ s.rows \in Nat
      BY <3>1, <2>1 DEF Shape
    <3>5. p[i].end # s.rows
      BY <3>2, <3>3, <3>4 DEF Rows
    <3>6. p[i].end = s.rows \/ p[i].end % s.align = 0
      BY <3>1, <2>1 DEF RangesOf
    <3> QED BY <3>2, <3>5, <3>6
  <2> QED BY <2>1, <2>2, <2>3 DEF p, s
<1> QED
  BY <1>1, PlanCorrect, PTL

\* A chain too small to fill a command buffer is launched only if all of it
\* fits the budget of one.
THEOREM SmallChains == ASSUME ~Rounding PROVE Spec => []SmallChainIsCapped
<1>1. ASSUME PlanInv PROVE SmallChainIsCapped
  <2> SUFFICES ASSUME pc = "encode", NEW c \in Chain,
                      shape[c].live + shape[c].out * shape[c].rows < CommitElems
               PROVE  Macs(shape[c], 0, shape[c].rows) <= Budget
    BY DEF SmallChainIsCapped
  <2> DEFINE p == plan[c]  s == shape[c]
  <2>1. /\ s \in Shape /\ p \in Seq(Rows) /\ p # <<>>
        /\ p[Len(p)].end = s.rows /\ RangesOf(s, p)
    BY <1>1, Planned
  <2>2. s.live + s.out * s.rows < CommitElems
    OBVIOUS
  <2> HIDE DEF p, s
  <2>3. 1 \in 1..Len(p) /\ p[1].first = 0 /\ p[1].end <= s.rows /\ Macs(s, p[1].first, p[1].end) <= Budget
    BY <2>1 DEF RangesOf
  <2>4. Len(p) = 1
    <3> SUFFICES ASSUME Len(p) # 1 PROVE FALSE
      OBVIOUS
    <3>1. Owns(s, p[1])
      <4>1. \A n \in Nat : n >= 1 /\ n # 1 => 1 \in 1..(n - 1)
        OBVIOUS
      <4>2. Len(p) \in Nat /\ Len(p) >= 1
        BY <2>1, <2>3
      <4> QED BY <2>1, <4>1, <4>2 DEF RangesOf
    <3>2. s.live \in Nat /\ s.out \in Nat /\ s.rows \in Nat /\ p[1].end \in Nat
      BY <2>1, <2>3 DEF Shape, Rows
    <3>3. \A x, y, z \in Nat : x <= y => z * x <= z * y
      OBVIOUS
    <3>4. s.out * p[1].end <= s.out * s.rows
      BY <2>3, <3>2, <3>3
    <3>5. p[1].end - p[1].first = p[1].end
      BY <2>3, <3>2
    <3>6. s.live + s.out * p[1].end >= CommitElems
      BY <3>1, <3>5 DEF Owns
    <3>7. s.out * p[1].end \in Nat /\ s.out * s.rows \in Nat
      BY <3>2
    <3> QED BY <2>2, <3>2, <3>4, <3>6, <3>7
  <2> QED BY <2>1, <2>3, <2>4 DEF p, s
<1> QED
  BY <1>1, PlanCorrect, PTL

\* A chain whose inputs alone fill a command buffer is never refused for its
\* total.
THEOREM LargeChains == ASSUME ~Rounding PROVE Spec => []LargeChainIsLaunched
<1>1. ASSUME PlanInv PROVE LargeChainIsLaunched
  <2> DEFINE s == shape[chain]
             unit == IF s.align < s.rows - row THEN s.align ELSE s.rows - row
             p == plan[chain]
             r == p[Len(p)]
  <2> SUFFICES ASSUME pc = "refused", s.live >= CommitElems PROVE Macs(s, row, row + unit) > Budget
    <3>1. pc = "refused" => s.live \in Nat
      BY <1>1 DEF PlanInv, PhaseInv, TypeOK, Shape
    <3> QED BY <3>1 DEF LargeChainIsLaunched
  <2>1. /\ chain \in Chain /\ row < s.rows /\ row \in Nat /\ s \in Shape
        /\ \A e \in (row + 1)..s.rows : ~Fits(s, row, e, Budget - model.time)
    BY <1>1 DEF PlanInv, PhaseInv, TypeOK
  <2>2. model.ops = 0
    <3> SUFFICES ASSUME model.ops # 0 PROVE FALSE
      OBVIOUS
    <3>1. p # <<>> /\ ~Owns(s, r) /\ p \in Seq(Rows)
      BY <1>1, <2>1 DEF PlanInv, ModelInv, TypeOK
    <3>2. r \in Rows
      BY <3>1
    <3> HIDE DEF s, p, r
    <3>3. r.end - r.first \in Nat /\ s.out \in Nat /\ s.live \in Nat
      BY <3>2, <2>1 DEF Rows, Shape
    <3>4. s.out * (r.end - r.first) \in Nat
      BY <3>3
    <3> QED BY <3>1, <3>3, <3>4 DEF Owns
  <2>3. model.time = 0
    BY <1>1, <2>2 DEF PlanInv, ModelInv
  <2> DEFINE e == row + unit
  <2>4. s.rows \in Nat /\ s.align \in Nat \ {0}
    BY <2>1 DEF Shape
  <2> HIDE DEF s
  <2>5. e \in (row + 1)..s.rows /\ e \in Nat /\ (e = s.rows \/ e - row = s.align)
    BY <2>1, <2>4
  <2>6. MayEndAt(s, row, e)
    BY <2>4, <2>5 DEF MayEndAt
  <2> HIDE DEF e
  <2>7. ~Fits(s, row, e, Budget)
    <3>1. Budget - model.time = Budget
      BY <2>3
    <3> QED BY <2>1, <2>5, <3>1
  <2>8. Macs(s, row, e) \in Nat
    <3>1. \A x, y \in Nat : x <= y => Macs(s, x, y) \in Nat
      BY <2>1, MacsNat
    <3> QED BY <2>1, <2>5, <3>1
  <2>9. Macs(s, row, e) > Budget
    BY <2>5, <2>6, <2>7, <2>8 DEF Fits
  <2> QED BY <2>9 DEF e
<1> QED
  BY <1>1, PlanCorrect, PTL

-----------------------------------------------------------------------------
(* The command buffers. *)

\* Either one chain is planned for the evaluation, or no two dispatches fit
\* into one command buffer.
Apart == Chains = 1 \/ \A s \in Shapes : s.live >= CommitElems

\* A command buffer holds the work of one dispatch at most: once it holds one
\* it is full, or nothing is left to encode.
BufInv ==
  /\ real.time <= Budget
  /\ pc = "plan" => real.time = 0 /\ real.reads = {}
  /\ \/ real.time = 0 /\ real.reads = {}
     \/ Full(real)
     \/ \A c \in Chain : encoded[c] = Len(plan[c])

LEMMA BufInvDispatch ==
  ASSUME Apart, PlanInv, BufInv, NEW c \in Chain, EncodeDispatch(c)
  PROVE  BufInv'
<1> DEFINE s == shape[c]  p == plan[c]  i == encoded[c] + 1  r == p[i]
<1>1. pc = "encode" /\ ~Full(real) /\ encoded[c] < Len(p)
  BY DEF EncodeDispatch
<1>2. real.time = 0 /\ real.reads = {}
  BY <1>1 DEF BufInv
<1>3. real.elems \in Nat /\ real.ops \in Nat /\ encoded \in [Chain -> Nat]
  BY DEF PlanInv, TypeOK
<1>4. s \in Shape /\ p \in Seq(Rows) /\ RangesOf(s, p)
  BY <1>1, Planned
<1>5. i \in 1..Len(p) /\ r \in Rows
  BY <1>1, <1>3, <1>4
<1>6. real' = [elems |-> real.elems + s.live + s.out * (r.end - r.first),
               ops |-> real.ops + 1, time |-> 0 + Macs(s, r.first, r.end), reads |-> {c}]
  BY <1>2 DEF EncodeDispatch
<1>7. encoded' = [encoded EXCEPT ![c] = i] /\ UNCHANGED <<pc, plan>>
  BY DEF EncodeDispatch
<1> HIDE DEF s, p, i, r
<1>8. Macs(s, r.first, r.end) <= Budget /\ Macs(s, r.first, r.end) \in Nat
  <2>1. Macs(s, r.first, r.end) <= Budget
    BY <1>4, <1>5 DEF RangesOf, r
  <2>2. r.first \in Nat /\ r.end \in Nat /\ r.first <= r.end
    BY <1>5 DEF Rows
  <2> QED BY <1>4, <2>1, <2>2, MacsNat
<1>9. real'.time <= Budget
  BY <1>6, <1>8
<1>10. s.live \in Nat /\ s.out * (r.end - r.first) \in Nat
  <2>1. s.live \in Nat /\ s.out \in Nat /\ r.end - r.first \in Nat
    BY <1>4, <1>5, SMTT(30) DEF Shape, Rows
  <2> QED BY <2>1
<1>11. CASE Owns(s, r)
  <2>1. real'.elems >= CommitElems
    BY <1>3, <1>6, <1>10, <1>11 DEF Owns
  <2> QED BY <1>1, <1>7, <1>9, <2>1 DEF BufInv, Full
<1>12. CASE ~Owns(s, r)
  <2>1. i = Len(p)
    BY <1>4, <1>5, <1>12 DEF RangesOf, r
  <2>2. ~(s.live >= CommitElems)
    BY <1>10, <1>12 DEF Owns
  <2>3. s \in Shapes
    BY DEF PlanInv, TypeOK, s
  <2>4. Chain = {c}
    BY <2>2, <2>3 DEF Apart, Chain
  <2>5. encoded'[c] = i /\ plan'[c] = p
    BY <1>3, <1>7 DEF p
  <2>6. \A k \in Chain : encoded'[k] = Len(plan'[k])
    BY <2>1, <2>4, <2>5
  <2> QED BY <1>1, <1>7, <1>9, <2>6 DEF BufInv
<1> QED BY <1>11, <1>12

LEMMA BufInvStep ==
  ASSUME Apart, PlanInv, BufInv, [Next]_vars
  PROVE  BufInv'
<1>1. CASE PlanStep
  <2>1. pc = "plan" /\ UNCHANGED <<real, encoded>>
    BY <1>1 DEF PlanStep, PlanRange, PlanReturns, Refuse, Evaluate
  <2> QED BY <2>1 DEF BufInv
<1>2. ASSUME NEW c \in Chain, EncodeDispatch(c) PROVE BufInv'
  BY <1>2, BufInvDispatch
<1>3. CASE EncodeForeign
  <2>1. PICK e \in Nat : real' = [real EXCEPT !.elems = @ + e, !.ops = @ + 1]
    BY <1>3 DEF EncodeForeign
  <2>2. ~Full(real) /\ pc = "encode" /\ UNCHANGED <<pc, plan, encoded>>
    BY <1>3 DEF EncodeForeign
  <2>3. real'.time = real.time /\ real'.reads = real.reads
    BY <2>1 DEF PlanInv, TypeOK
  <2> QED BY <2>2, <2>3 DEF BufInv
<1>4. CASE Commit
  BY <1>4 DEF Commit, BufInv
<1>5. CASE Finish
  BY <1>5 DEF Finish, BufInv, Full
<1>6. CASE Stopped \/ UNCHANGED vars
  BY <1>6 DEF Stopped, vars, BufInv, Full
<1> QED
  BY <1>1, <1>2, <1>3, <1>4, <1>5, <1>6 DEF Next, EncodeStep

\* The guard's promise, wherever mlx cuts the command buffers: for one chain,
\* and for any number of chains that fill a buffer with every dispatch.
THEOREM BuffersWithinBudget ==
  ASSUME Apart, ~Rounding PROVE Spec => []RealBufferWithinBudget
<1>1. Init => BufInv
  BY DEF Init, BufInv
<1>2. PlanInv /\ BufInv /\ [Next]_vars => BufInv'
  BY BufInvStep
<1>3. BufInv => RealBufferWithinBudget
  BY DEF BufInv, RealBufferWithinBudget
<1> QED
  BY <1>1, <1>2, <1>3, PlanCorrect, PTL DEF Spec

-----------------------------------------------------------------------------
(* The same where sums round up, for chains that fill a buffer with every      *)
(* dispatch: the block that rounding takes off held the excess, and no         *)
(* dispatch meets another in a buffer.                                         *)

AllLarge == \A s \in Shapes : s.live >= CommitElems

LargeInv ==
  /\ TypeOK /\ model.ops = 0 /\ model.time = 0
  /\ \A c \in Chain : \A i \in 1..Len(plan[c]) :
       Macs(shape[c], plan[c][i].first, plan[c][i].end) <= Budget
  /\ real.time <= Budget
  /\ \/ real.time = 0 /\ real.reads = {}
     \/ Full(real)

LEMMA LargeInit == ASSUME Init PROVE LargeInv
<1>1. \A c \in Chain : Len(plan[c]) = 0
  BY DEF Init
<1>2. \A c \in Chain : \A i \in 1..Len(plan[c]) :
        Macs(shape[c], plan[c][i].first, plan[c][i].end) <= Budget
  BY <1>1
<1>3. model.ops = 0 /\ model.time = 0 /\ real.time = 0 /\ real.reads = {}
  BY DEF Init, Empty
<1> QED BY <1>2, <1>3, TypeInit DEF LargeInv

\* Whatever rounding does, a range that is planned into an empty buffer is within
\* the budget.
LEMMA RoundedIsWithin ==
  ASSUME NEW s \in Shape, NEW r0 \in Nat, NEW r1 \in (r0 + 1)..s.rows,
         MayPlan(s, r0, r1, Budget)
  PROVE  Macs(s, r0, r1) <= Budget
<1>0. s.rows \in Nat /\ s.align \in Nat \ {0} /\ s.pair \in Nat \ {0} /\ r1 \in Nat /\ r0 <= r1
      /\ r1 <= s.rows
  BY DEF Shape
<1>1. CASE Widest(s, r0, r1, Budget)
  BY <1>1 DEF Widest, Fits
<1>2. CASE OneBlockOff(s, r0, r1, Budget)
  <2>1. s.causal /\ Macs(s, r0, s.rows) = Budget + 1 /\ r1 < s.rows
    BY <1>0, <1>2 DEF OneBlockOff
  <2>2. /\ Macs(s, r0, s.rows) = Macs(s, r0, r1) + Macs(s, r1, s.rows)
        /\ Macs(s, r0, r1) \in Nat /\ Macs(s, r1, s.rows) \in Nat
    <3>1. s.rows <= s.rows
      BY <1>0
    <3>2. Macs(s, r1, s.rows) \in Nat
      BY <1>0, <3>1, MacsNat
    <3>3. \A b, c \in Nat : r0 <= b /\ b <= c =>
            Macs(s, r0, c) = Macs(s, r0, b) + Macs(s, b, c) /\ Macs(s, r0, b) \in Nat
      BY MacsAdd
    <3> QED BY <1>0, <3>2, <3>3
  <2>3. Macs(s, r1, s.rows) # 0
    <3> DEFINE q == CausalPairs(r1, s.rows)
    <3>1. (s.rows - r1) * (r1 + s.rows + 1) >= 2
      <4>1. PICK e \in Nat : s.rows = r1 + 1 + e
        <5>1. s.rows - r1 - 1 \in Nat /\ s.rows = r1 + 1 + (s.rows - r1 - 1)
          BY <1>0, <2>1
        <5> QED BY <5>1
      <4> DEFINE g == r1 + s.rows + 1
      <4>2. g \in Nat /\ g >= 2 /\ (s.rows - r1) * g = g + e * g /\ e * g \in Nat
        BY <1>0, <2>1, <4>1
      <4> QED BY <4>2
    <3>2. q \in Nat \ {0}
      <4> DEFINE x == (s.rows - r1) * (r1 + s.rows + 1)
      <4>1. x \in Int /\ x >= 2 /\ q = x \div 2
        BY <1>0, <3>1 DEF CausalPairs
      <4> HIDE DEF x, q
      <4> QED BY <4>1
    <3>3. Macs(s, r1, s.rows) = s.pair * q
      BY <2>1 DEF Macs
    <3> HIDE DEF q
    <3> QED BY <1>0, <3>2, <3>3
  <2> QED BY <2>1, <2>2, <2>3
<1> QED BY <1>1, <1>2 DEF MayPlan

LEMMA LargeStep == ASSUME AllLarge, LargeInv, [Next]_vars PROVE LargeInv'
<1>0. TypeOK /\ TypeOK'
  BY TypeStep DEF LargeInv
<1>1. CASE PlanRange
  <2> DEFINE s == shape[chain]
  <2>1. s \in Shapes /\ s \in Shape /\ chain \in Chain /\ row \in Nat /\ model \in Buffer
        /\ plan \in [Chain -> Seq(Rows)]
    BY <1>0, <1>1 DEF PlanRange, TypeOK
  <2>2. PICK r1 \in (row + 1)..s.rows :
          /\ MayPlan(s, row, r1, Budget - model.time)
          /\ plan' = [plan EXCEPT ![chain] = Append(@, [first |-> row, end |-> r1])]
          /\ model' = IF Full(Loaded(s, model, row, r1)) THEN Empty ELSE Loaded(s, model, row, r1)
    BY <1>1 DEF PlanRange
  <2>3. shape' = shape /\ real' = real
    BY <1>1 DEF PlanRange
  <2>4. r1 \in Nat /\ row <= r1 /\ s.rows \in Nat /\ s.live \in Nat /\ s.live >= CommitElems
    BY <2>1 DEF Shape, AllLarge
  <2>5. Macs(s, row, r1) <= Budget
    <3>1. Budget - model.time = Budget
      BY DEF LargeInv
    <3> QED BY <2>1, <2>2, <3>1, RoundedIsWithin
  <2>6. Full(Loaded(s, model, row, r1))
    <3>1. s.out * (r1 - row) \in Nat
      BY <2>1, <2>4, MacsNat
    <3>2. Loaded(s, model, row, r1).elems = s.live + s.out * (r1 - row)
      BY DEF LargeInv, Loaded
    <3> HIDE DEF s
    <3> QED BY <2>4, <3>1, <3>2 DEF Full
  <2>7. model'.ops = 0 /\ model'.time = 0
    BY <2>2, <2>6 DEF Empty
  <2>8. ASSUME NEW c \in Chain, NEW i \in 1..Len(plan'[c])
        PROVE  Macs(shape'[c], plan'[c][i].first, plan'[c][i].end) <= Budget
    <3>1. CASE c # chain
      <4>1. plan'[c] = plan[c]
        BY <2>1, <2>2, <3>1
      <4> QED BY <2>3, <2>8, <4>1 DEF LargeInv
    <3>2. CASE c = chain
      <4> DEFINE p == plan[c]  last == [first |-> row, end |-> r1]
      <4>1. p \in Seq(Rows) /\ plan'[c] = Append(p, last) /\ s = shape[c]
        BY <2>1, <2>2, <3>2
      <4>2. \A k \in 1..Len(p) : Macs(s, p[k].first, p[k].end) <= Budget
        BY <3>2 DEF LargeInv
      <4>3. last.first = row /\ last.end = r1
        OBVIOUS
      <4> HIDE DEF p, last, s
      <4>4. \/ i \in 1..Len(p) /\ plan'[c][i] = p[i]
            \/ plan'[c][i] = last
        BY <4>1
      <4> QED BY <2>3, <2>5, <4>1, <4>2, <4>3, <4>4
    <3> QED BY <3>1, <3>2
  <2> QED BY <1>0, <2>3, <2>7, <2>8 DEF LargeInv, Full
<1>2. CASE PlanReturns \/ Refuse \/ Evaluate
  <2>1. /\ shape' = shape /\ plan' = plan /\ real' = real
        /\ model' = model \/ model' = Empty
    BY <1>2 DEF PlanReturns, Refuse, Evaluate
  <2>2. model'.ops = 0 /\ model'.time = 0
    BY <2>1 DEF LargeInv, Empty
  <2> QED BY <1>0, <2>1, <2>2 DEF LargeInv, Full
<1>3. ASSUME NEW c \in Chain, EncodeDispatch(c) PROVE LargeInv'
  <2> DEFINE s == shape[c]  r == plan[c][encoded[c] + 1]
  <2>1. /\ ~Full(real) /\ encoded[c] < Len(plan[c])
        /\ shape' = shape /\ plan' = plan /\ model' = model
        /\ real' = [elems |-> real.elems + (IF c \in real.reads THEN 0 ELSE s.live)
                             + s.out * (r.end - r.first),
                    ops |-> real.ops + 1,
                    time |-> real.time + Macs(s, r.first, r.end),
                    reads |-> real.reads \cup {c}]
    BY <1>3 DEF EncodeDispatch
  <2>2. real.time = 0 /\ real.reads = {}
    BY <2>1 DEF LargeInv
  <2>3. /\ s \in Shape /\ s.live >= CommitElems /\ real.elems \in Nat
        /\ encoded[c] + 1 \in 1..Len(plan[c]) /\ r \in Rows
    BY <1>0, <2>1 DEF TypeOK, AllLarge
  <2>4. r.first \in Nat /\ r.end \in Nat /\ r.first <= r.end
    BY <2>3 DEF Rows
  <2>5. Macs(s, r.first, r.end) <= Budget
    BY <2>3 DEF LargeInv
  <2>6. Macs(s, r.first, r.end) \in Nat /\ s.out * (r.end - r.first) \in Nat /\ s.live \in Nat
    BY <2>3, <2>4, MacsNat DEF Shape
  <2> HIDE DEF s, r
  <2>7. real'.time <= Budget /\ real'.elems >= CommitElems
    BY <2>1, <2>2, <2>3, <2>5, <2>6
  <2>8. \A k \in Chain : \A i \in 1..Len(plan'[k]) :
          Macs(shape'[k], plan'[k][i].first, plan'[k][i].end) <= Budget
    BY <2>1 DEF LargeInv
  <2> QED BY <1>0, <2>1, <2>7, <2>8 DEF LargeInv, Full
<1>4. CASE EncodeForeign
  <2>1. PICK e \in Nat : real' = [real EXCEPT !.elems = @ + e, !.ops = @ + 1]
    BY <1>4 DEF EncodeForeign
  <2>2. ~Full(real) /\ shape' = shape /\ plan' = plan /\ model' = model
    BY <1>4 DEF EncodeForeign
  <2>3. real'.time = real.time /\ real'.reads = real.reads
    BY <1>0, <2>1 DEF TypeOK
  <2> QED BY <1>0, <2>2, <2>3 DEF LargeInv
<1>5. CASE Commit
  <2>1. /\ shape' = shape /\ plan' = plan /\ model' = model
        /\ real'.time = 0 /\ real'.reads = {}
    BY <1>5 DEF Commit
  <2> QED BY <1>0, <2>1 DEF LargeInv
<1>6. CASE Finish \/ Stopped \/ UNCHANGED vars
  <2>1. shape' = shape /\ plan' = plan /\ model' = model /\ real' = real
    BY <1>6 DEF Finish, Stopped, vars
  <2> QED BY <1>0, <2>1 DEF LargeInv, Full
<1> QED
  BY <1>1, <1>2, <1>3, <1>4, <1>5, <1>6 DEF Next, PlanStep, EncodeStep

\* The promise of the guard for chains that fill a buffer with every dispatch,
\* also where the closed form of the widest range rounds (launch.py:181-208).
THEOREM RoundedBuffersWithinBudget ==
  ASSUME AllLarge PROVE Spec => []RealBufferWithinBudget
<1>1. Init => LargeInv
  BY LargeInit
<1>2. LargeInv /\ [Next]_vars => LargeInv'
  BY LargeStep
<1>3. LargeInv => RealBufferWithinBudget
  BY DEF LargeInv, RealBufferWithinBudget
<1> QED
  BY <1>1, <1>2, <1>3, PTL DEF Spec
=============================================================================
