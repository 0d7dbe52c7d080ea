----------------------------- MODULE KernelProofs ----------------------------
(***************************************************************************)
(* Proofs about the kernels, for any constants: what the loss adds up over *)
(* its tiles (CrossEntropy), what one simdgroup's lanes multiply (MmaTile),*)
(* that nothing dispatched is killed (RateCalibration, and LaunchPlan for  *)
(* chains that each fill a command buffer), and what the attention bodies  *)
(* add up for a row (KernelBlocks).                                        *)
(***************************************************************************)
EXTENDS KernelMC, TLAPS, FiniteSetTheorems, SequenceTheorems, WellFoundedInduction

LEMMA LeastNumber ==
  ASSUME NEW T \in SUBSET Nat, T # {}
  PROVE  \E m \in T : \A k \in T : m <= k
<1>1. PICK m \in T : \A k \in T : ~(<<k, m>> \in OpToRel(<, Nat))
  BY NatLessThanWellFounded, WFMin
<1>2. \A k \in T : ~(k < m)
  BY <1>1 DEF OpToRel
<1> QED BY <1>2

\* The largest of finitely many numbers.
LEMMA GreatestNumber ==
  ASSUME NEW S \in SUBSET Nat, IsFiniteSet(S), S # {}
  PROVE  \E m \in S : \A k \in S : k <= m
<1> DEFINE Tops(Q) == \E m \in Q : \A k \in Q : k <= m
           T == {i \in Nat : \E Q \in SUBSET S : Q # {} /\ Cardinality(Q) = i /\ ~Tops(Q)}
<1>1. T = {}
  <2> SUFFICES ASSUME T # {} PROVE FALSE
    OBVIOUS
  <2>1. PICK i \in T : \A k \in T : i <= k
    BY LeastNumber
  <2>2. PICK Q \in SUBSET S : Q # {} /\ Cardinality(Q) = i /\ ~Tops(Q)
    OBVIOUS
  <2>3. PICK x : x \in Q
    BY <2>2
  <2> DEFINE rest == Q \ {x}
  <2>4. /\ IsFiniteSet(Q) /\ Cardinality(rest) = i - 1 /\ i \in Nat
        /\ Cardinality(rest) \in Nat /\ x \in Nat
    BY <2>2, <2>3, FS_Subset, FS_RemoveElement, FS_CardinalityType
  <2>5. Cardinality(rest) \notin T
    <3>1. ~(i <= Cardinality(rest))
      BY <2>4
    <3> HIDE DEF T
    <3> QED BY <2>1, <3>1
  <2>6. CASE rest = {}
    <3>1. \A k \in Q : k = x
      BY <2>6
    <3> QED BY <2>2, <2>3, <2>4, <3>1
  <2>7. CASE rest # {}
    <3>1. PICK m \in rest : \A k \in rest : k <= m
      BY <2>2, <2>4, <2>5, <2>7
    <3>2. m \in Nat /\ m \in Q /\ \A k \in Q : k \in Nat
      BY <2>2
    <3>3. CASE x <= m
      <4>1. \A k \in Q : k <= m
        BY <3>1, <3>3
      <4> QED BY <2>2, <3>2, <4>1
    <3>4. CASE m <= x
      <4>1. \A k \in Q : k <= x
        BY <2>4, <3>1, <3>2, <3>4
      <4> QED BY <2>2, <2>3, <4>1
    <3> QED BY <2>4, <3>2, <3>3, <3>4
  <2> QED BY <2>6, <2>7
<1> HIDE DEF T
<1>2. Tops(S)
  <2>1. Cardinality(S) \in Nat
    BY FS_CardinalityType
  <2> QED BY <1>1, <2>1 DEF T
<1> QED BY <1>2

(***************************************************************************)
(* The loss.                                                               *)
(***************************************************************************)

\* The rows of a launch are cut into blocks of a measured height.
LEMMA HeightIsPositive ==
  ASSUME NEW rowCount \in Nat
  PROVE  Loss!SelectVariant(rowCount) \in Nat \ {0}
<1> USE LossAssumption
<1> DEFINE D == DOMAIN Buckets
           sq == rowCount * rowCount
           Above(b) == \A c \in D : c < b => sq > b * c
           T == {b \in D : Above(b)}
<1>1. sq \in Nat /\ \A b \in D : b \in Nat
  OBVIOUS
<1>2. PICK least \in D : \A k \in D : least <= k
  BY LeastNumber
<1>3. T # {} /\ T \in SUBSET Nat /\ IsFiniteSet(T)
  <2>1. least \in T
    BY <1>1, <1>2
  <2> QED BY <2>1, FS_Subset
<1>4. PICK b \in T : \A k \in T : k <= b
  BY <1>3, GreatestNumber
<1>5. ASSUME NEW c \in D, c > b PROVE sq <= b * c
  <2> DEFINE Q == {e \in D : e > b}
  <2>1. PICK next \in Q : \A k \in Q : next <= k
    <3>1. Q \in SUBSET Nat /\ Q # {}
      BY <1>1, <1>5
    <3> QED BY <3>1, LeastNumber
  <2>2. next \in D /\ next > b /\ next \notin T /\ next <= c
    BY <1>1, <1>4, <1>5, <2>1
  <2>3. PICK e \in D : e < next /\ ~(sq > next * e)
    BY <2>2
  <2>4. e <= b
    BY <1>1, <1>4, <2>1, <2>3
  <2> DEFINE ne == next * e  nb == next * b  cb == c * b
  <2>5. ne \in Nat /\ nb \in Nat /\ cb \in Nat /\ ne <= nb /\ nb <= cb
    <3>1. next \in Nat /\ e \in Nat /\ b \in Nat /\ c \in Nat
      BY <1>1, <1>4, <2>1
    <3> HIDE DEF Q, T
    <3> QED BY <3>1, <2>2, <2>4
  <2>6. sq <= ne
    BY <1>1, <2>3, <2>5
  <2>7. cb = b * c
    BY <1>1, <1>4
  <2> HIDE DEF ne, nb, cb, sq, Q, T
  <2> QED BY <1>1, <2>5, <2>6, <2>7
<1> DEFINE Near(v) == \A c \in D : /\ c < v => rowCount * rowCount > v * c
                                   /\ c > v => rowCount * rowCount <= v * c
           nearest == CHOOSE v \in D : Near(v)
<1>6. \E v \in D : Near(v)
  BY <1>4, <1>5
<1>7. nearest \in D
  BY <1>6
<1>8. Loss!SelectVariant(rowCount) = Buckets[nearest]
  BY DEF Loss!SelectVariant
<1> HIDE DEF nearest, Near
<1> QED BY <1>7, <1>8

-----------------------------------------------------------------------------
(* What a call has added up so far. *)

AskOK ==
  /\ ask.n \in Nat \ {0} /\ ask.v \in Nat \ {0} /\ ask.tile \in Nat \ {0}
  /\ ask.target \in [Loss!Rows -> 0..ask.v]
  /\ ask.impl \in {"auto", "kernel", "chunked", "naive"}
  /\ ask.head \in {"trainable", "frozen", "quantized"}
  /\ ask.engine \in {"chunked", "scalar", "mma", "atomic"}
  /\ ask.engine # "chunked" => ask.impl = "kernel"
  /\ ask.checked \in BOOLEAN /\ ask.fits \in BOOLEAN /\ ask.served \in BOOLEAN

\* Tiles are passed over in these phases only, and only by a call that was let in.
FlowInv ==
  /\ phase \in {"asked", "refused", "forward", "returned", "recompute", "backward", "done"}
  /\ base \in Loss!Cols
  /\ phase \notin {"forward", "recompute", "backward"} => base = 0
  /\ phase \notin {"asked", "refused"} => Loss!ValidInputs /\ Loss!Resolved # "refused"
  /\ phase \in {"returned", "recompute", "backward"} => Loss!Resolved # "naive"
  /\ phase = "recompute" => Loss!Resolved = "chunked"
  /\ phase = "forward" /\ Loss!Resolved = "naive" => base = 0

Sweeps == (phase = "forward" /\ Loss!Resolved = "kernel")
            \/ (phase = "backward" /\ ask.engine # "chunked")

\* How far the simdgroup that owns row r is.
Passed(r) == base + at[r \div Loss!Height]

AtInv ==
  /\ at \in [Loss!Blocks -> Nat]
  /\ \A b \in Loss!Blocks : at[b] <= ask.tile + Columns
  /\ ~Sweeps => at = [b \in Loss!Blocks |-> 0]
  /\ Sweeps /\ ask.engine = "atomic" /\ phase = "backward" =>
       \A b \in Loss!Blocks : base + at[b] <= Loss!TileEnd

\* Every column below m once in every row.
Upto(m) == [r \in Loss!Rows |-> [c \in Loss!Cols |-> IF c < m THEN 1 ELSE 0]]

SumTo == IF phase \in {"asked", "refused"} THEN 0
         ELSE IF phase \in {"forward", "recompute"} THEN base ELSE ask.v

\* The target's logit, if its column is below m.
Found(m) == [r \in Loss!Rows |-> IF ask.target[r] < m THEN ask.target[r] ELSE Loss!None]

TgtTo == IF phase \in {"asked", "refused"} THEN 0
         ELSE IF phase = "forward" THEN base ELSE ask.v

TgtInv ==
  IF phase = "done" /\ Loss!Resolved = "naive"
  THEN /\ tgt \in [Loss!Rows -> Loss!Cols]
       /\ \A r \in Loss!Rows : ask.target[r] \in Loss!Cols => tgt[r] = ask.target[r]
  ELSE tgt = Found(TgtTo)

\* The registers of a simdgroup hold the part of the tile that it passed over.
Reached(r, c) == c \in base..(Loss!TileEnd - 1) /\ c < Passed(r)

Scanned ==
  [r \in Loss!Rows |->
    [seen |-> [c \in Loss!Cols |-> IF Reached(r, c) THEN 1 ELSE 0],
     hit |-> IF Reached(r, ask.target[r]) THEN ask.target[r] ELSE Loss!None]]

RegInv ==
  reg = IF phase = "forward" /\ Loss!Resolved = "kernel" THEN Scanned ELSE Loss!Empty

DhTo == IF ask.engine = "atomic" \/ phase \notin {"backward", "done"}
             \/ Loss!Resolved = "naive" THEN 0
        ELSE IF phase = "backward" THEN base ELSE ask.v

\* A row whose block has started holds all columns up to where the block is.
Accumulated ==
  [r \in Loss!Rows |-> [c \in Loss!Cols |->
     IF at[r \div Loss!Height] = 0 THEN Loss!Junk
     ELSE IF c < base \/ Reached(r, c) THEN 1 ELSE 0]]

DhInv ==
  /\ dhIn = Upto(DhTo)
  /\ phase = "backward" /\ ask.engine \in {"scalar", "mma"} => dhOut = Accumulated

DwTo(r) ==
  IF phase \notin {"backward", "done"} THEN 0
  ELSE IF ask.engine = "atomic" THEN (IF phase = "backward" THEN Passed(r) ELSE ask.v)
  ELSE IF Loss!Trains /\ Loss!Resolved # "naive" /\ ask.engine = "chunked"
       THEN (IF phase = "backward" THEN base ELSE ask.v)
  ELSE 0

DwInv == dw = [c \in Loss!Cols |-> [r \in Loss!Rows |-> IF c < DwTo(r) THEN 1 ELSE 0]]

LossInv ==
  /\ AskOK /\ FlowInv /\ AtInv /\ sum = Upto(SumTo) /\ TgtInv /\ RegInv /\ DhInv /\ DwInv

LEMMA BlockOfRow ==
  ASSUME NEW r \in Nat, NEW m \in Nat, NEW h \in Nat \ {0}, r < m
  PROVE  r \div h \in 0..((m + h - 1) \div h - 1)
<1> DEFINE q == r \div h  p == (m + h - 1) \div h
<1>1. q \in Nat /\ q * h <= r
  OBVIOUS
<1>2. m + h - 1 \in Nat
  OBVIOUS
<1>3. p \in Nat /\ m + h - 1 < p * h + h
  BY <1>2
<1> HIDE DEF q, p
<1>4. q * h + h < p * h + h + 1
  <2>1. q * h \in Nat /\ p * h \in Nat
    BY <1>1, <1>3
  <2> QED BY <1>1, <1>3, <2>1
<1>5. ~(p <= q)
  <2>1. SUFFICES ASSUME p <= q PROVE FALSE
    OBVIOUS
  <2>2. PICK e \in Nat : q = p + e
    BY <1>1, <1>3, <2>1
  <2>3. q * h = p * h + e * h /\ e * h \in Nat /\ p * h \in Nat
    BY <1>3, <2>2
  <2>4. r >= p * h /\ m + h - 1 < p * h + h /\ r < m
    BY <1>1, <1>3, <2>3
  <2> QED BY <2>3, <2>4
<1> QED BY <1>1, <1>3, <1>5 DEF q, p

LEMMA LossFacts ==
  ASSUME AskOK, FlowInv
  PROVE  /\ base \in Nat /\ Loss!TileEnd \in Nat /\ base < Loss!TileEnd
         /\ Loss!TileEnd <= ask.v /\ Loss!TileEnd <= base + ask.tile
         /\ Loss!Height \in Nat \ {0}
         /\ \A r \in Loss!Rows : r \in Nat /\ r \div Loss!Height \in Loss!Blocks
<1>1. Loss!Height \in Nat \ {0}
  BY HeightIsPositive DEF AskOK, Loss!Height
<1>2. ASSUME NEW r \in Loss!Rows PROVE r \in Nat /\ r \div Loss!Height \in Loss!Blocks
  <2>1. r \in Nat /\ r < ask.n /\ ask.n \in Nat
    BY DEF Loss!Rows, AskOK
  <2> QED BY <1>1, <2>1, BlockOfRow DEF Loss!Blocks
<1>3. /\ base \in Nat /\ Loss!TileEnd \in Nat /\ base < Loss!TileEnd
      /\ Loss!TileEnd <= ask.v /\ Loss!TileEnd <= base + ask.tile
  BY DEF AskOK, FlowInv, Loss!Cols, Loss!TileEnd, Loss!Lower
<1> QED BY <1>1, <1>2, <1>3

LEMMA LossInit == ASSUME Loss!Init PROVE LossInv
<1>1. AskOK
  <2> DEFINE Of(m, w) ==
        {a \in [impl : {"auto", "kernel", "chunked", "naive"},
                head : {"trainable", "frozen", "quantized"},
                engine : {"chunked", "scalar", "mma", "atomic"},
                n : {m}, v : {w}, tile : Tiles, target : [0..(m - 1) -> 0..w],
                checked : BOOLEAN, fits : BOOLEAN, served : BOOLEAN] :
           /\ a.engine # "chunked" => a.impl = "kernel"
           /\ a.engine = "atomic" => a.head = "trainable"
           /\ ~a.fits \/ ~a.served => a.target = [r \in 0..(m - 1) |-> 0] /\ a.engine = "chunked"}
  <2>1. PICK m \in LossLengths, w \in LossVocabs : ask \in Of(m, w)
    <3>1. ask \in UNION {Of(m, w) : m \in LossLengths, w \in LossVocabs}
      BY DEF Loss!Init, Loss!Asks
    <3> HIDE DEF Of
    <3> QED BY <3>1
  <2>2. m \in Nat \ {0} /\ w \in Nat \ {0} /\ Tiles \subseteq Nat \ {0}
    BY LossAssumption
  <2>3. ask.n = m /\ ask.v = w /\ ask.tile \in Tiles /\ ask.target \in [0..(m - 1) -> 0..w]
    BY <2>1
  <2>4. /\ ask.impl \in {"auto", "kernel", "chunked", "naive"}
        /\ ask.head \in {"trainable", "frozen", "quantized"}
        /\ ask.engine \in {"chunked", "scalar", "mma", "atomic"}
        /\ ask.engine # "chunked" => ask.impl = "kernel"
        /\ ask.checked \in BOOLEAN /\ ask.fits \in BOOLEAN /\ ask.served \in BOOLEAN
    BY <2>1
  <2> QED BY <2>2, <2>3, <2>4 DEF AskOK, Loss!Rows
<1>2. FlowInv
  BY <1>1 DEF Loss!Init, FlowInv, AskOK, Loss!Cols
<1>3. AtInv
  BY <1>1, LossAssumption DEF Loss!Init, AtInv, Sweeps, AskOK
<1>4. sum = Upto(SumTo) /\ DwInv /\ DhInv
  BY <1>1 DEF Loss!Init, Upto, SumTo, Loss!Zero, DwInv, DwTo, DhInv, DhTo, Loss!Cols
<1>5. TgtInv
  <2>1. \A r \in Loss!Rows : ~(ask.target[r] < 0)
    BY <1>1 DEF AskOK
  <2> QED BY <2>1 DEF Loss!Init, TgtInv, TgtTo, Found
<1>6. RegInv
  BY DEF Loss!Init, RegInv
<1> QED BY <1>1, <1>2, <1>3, <1>4, <1>5, <1>6 DEF LossInv

\* What depends on the call alone stays as it is while the call runs.
LEMMA SameCall ==
  ASSUME ask' = ask
  PROVE  /\ Loss!Rows' = Loss!Rows /\ Loss!Cols' = Loss!Cols /\ Loss!Blocks' = Loss!Blocks
         /\ Loss!Height' = Loss!Height /\ Loss!Resolved' = Loss!Resolved
         /\ (Loss!Trains' <=> Loss!Trains) /\ (Loss!ValidInputs' <=> Loss!ValidInputs)
         /\ (AskOK' <=> AskOK) /\ Loss!Empty' = Loss!Empty /\ Loss!Zero' = Loss!Zero
         /\ \A m : Upto(m)' = Upto(m) /\ Found(m)' = Found(m)
  BY DEF Loss!Rows, Loss!Cols, Loss!Blocks, Loss!Height, Loss!SelectVariant, Loss!Resolved,
     Loss!Trains, Loss!ValidInputs, AskOK, Loss!Empty, Loss!Zero, Upto, Found

\* A tile adds its own columns to those below it.
LEMMA TileAdds ==
  ASSUME AskOK, FlowInv
  PROVE  /\ [r \in Loss!Rows |-> [c \in Loss!Cols |->
              Upto(base)[r][c] + (IF c \in Loss!Tile THEN 1 ELSE 0)]] = Upto(Loss!TileEnd)
         /\ [r \in Loss!Rows |->
              IF ask.target[r] \in Loss!Tile THEN ask.target[r] ELSE Found(base)[r]]
              = Found(Loss!TileEnd)
<1> USE LossFacts
<1>1. \A c \in Loss!Cols : c \in Int
  BY DEF Loss!Cols, AskOK
<1>2. \A r \in Loss!Rows : ask.target[r] \in Nat
  BY DEF AskOK
<1>3. ASSUME NEW r \in Loss!Rows, NEW c \in Loss!Cols
      PROVE  Upto(base)[r][c] + (IF c \in Loss!Tile THEN 1 ELSE 0)
               = IF c < Loss!TileEnd THEN 1 ELSE 0
  <2>1. c \in Loss!Tile <=> base <= c /\ c < Loss!TileEnd
    BY <1>1 DEF Loss!Tile
  <2>2. Upto(base)[r][c] = IF c < base THEN 1 ELSE 0
    BY DEF Upto
  <2> QED BY <1>1, <2>1, <2>2
<1>4. ASSUME NEW r \in Loss!Rows
      PROVE  (IF ask.target[r] \in Loss!Tile THEN ask.target[r] ELSE Found(base)[r])
               = IF ask.target[r] < Loss!TileEnd THEN ask.target[r] ELSE Loss!None
  <2>1. ask.target[r] \in Loss!Tile <=> base <= ask.target[r] /\ ask.target[r] < Loss!TileEnd
    BY <1>2 DEF Loss!Tile
  <2>2. Found(base)[r] = IF ask.target[r] < base THEN ask.target[r] ELSE Loss!None
    BY DEF Found
  <2> QED BY <1>2, <2>1, <2>2
<1> QED BY <1>3, <1>4, Zenon DEF Upto, Found

\* Where no simdgroup has started, nothing is in the registers, and nothing written.
Idle == at = [b \in Loss!Blocks |-> 0]
NothingYet == /\ Scanned = Loss!Empty /\ Accumulated = Loss!Fresh
              /\ \A r \in Loss!Rows : Passed(r) = base

LEMMA NothingPassed == AskOK /\ FlowInv /\ Idle => NothingYet
<1> SUFFICES ASSUME AskOK, FlowInv, Idle PROVE NothingYet
  OBVIOUS
<1> USE DEF Idle
<1>1. \A r \in Loss!Rows : at[r \div Loss!Height] = 0 /\ Passed(r) = base
  BY LossFacts DEF Passed
<1>2. \A r \in Loss!Rows : \A c : ~Reached(r, c)
  BY <1>1, LossFacts DEF Reached
<1> QED BY <1>1, <1>2 DEF NothingYet, Scanned, Loss!Empty, Accumulated, Loss!Fresh

\* The bookkeeping of a step to another tile or out of the loop over the tiles.
LEMMA TileStep ==
  ASSUME AskOK, FlowInv, ask' = ask, NEW from, NEW to, Loss!Advance(from, to)
  PROVE  \/ phase' = from /\ base' = Loss!TileEnd /\ Loss!TileEnd < ask.v
         \/ phase' = to /\ base' = 0 /\ Loss!TileEnd = ask.v
<1>1. Loss!TileEnd \in Nat /\ Loss!TileEnd <= ask.v /\ ask.v \in Nat
  BY LossFacts DEF AskOK
<1>2. CASE Loss!TileEnd < ask.v
  BY <1>2 DEF Loss!Advance
<1>3. CASE ~(Loss!TileEnd < ask.v)
  <2>1. Loss!TileEnd = ask.v
    BY <1>1, <1>3
  <2> QED BY <1>3, <2>1 DEF Loss!Advance
<1> QED BY <1>2, <1>3

LEMMA StepOfCall == ASSUME LossInv, Loss!Call PROVE LossInv'
<1> USE SameCall DEF LossInv, Loss!Call
<1>1. AskOK' /\ FlowInv'
  BY DEF FlowInv
<1>2. AtInv' /\ at = [b \in Loss!Blocks |-> 0] /\ base = 0
  BY DEF AtInv, Sweeps, FlowInv
<1>3. sum' = Upto(SumTo)' /\ TgtInv' /\ DwInv'
  BY <1>2 DEF SumTo, TgtInv, TgtTo, DwInv, DwTo, FlowInv
<1>3a. Idle'
  BY <1>2 DEF Idle
<1>4. RegInv'
  <2>1. NothingYet'
    BY <1>1, <1>3a, NothingPassed, PTL
  <2> QED BY <1>2, <2>1 DEF RegInv, FlowInv, NothingYet
<1>5. DhInv'
  BY DEF DhInv, DhTo
<1> QED BY <1>1, <1>2, <1>3, <1>4, <1>5

LEMMA StepOfNaiveForward == ASSUME LossInv, Loss!NaiveForward PROVE LossInv'
<1> USE SameCall DEF LossInv, Loss!NaiveForward
<1>1. AskOK' /\ FlowInv' /\ ask.engine = "chunked"
  BY DEF FlowInv, AskOK, Loss!Resolved
<1>2. AtInv'
  BY <1>1 DEF AtInv, Sweeps
<1>3. sum' = Upto(SumTo)'
  <2>1. \A c \in Loss!Cols : c < ask.v
    BY DEF Loss!Cols, AskOK
  <2> QED BY <2>1 DEF SumTo, Upto
<1>4. TgtInv'
  BY DEF TgtInv
<1>5. RegInv'
  BY DEF RegInv
<1>6. DhInv' /\ DwInv'
  BY <1>1 DEF DhInv, DhTo, DwInv, DwTo
<1> QED BY <1>1, <1>2, <1>3, <1>4, <1>5, <1>6

\* The invariant on the tiles after any step to another one.
LEMMA FlowOfTileStep ==
  ASSUME AskOK, FlowInv, ask' = ask, NEW from, NEW to, Loss!Advance(from, to),
         \/ from = "forward" /\ to = "returned" /\ Loss!Resolved # "naive"
         \/ from = "recompute" /\ to = "backward"
         \/ from = "backward" /\ to = "done"
  PROVE  AskOK' /\ FlowInv'
<1> USE SameCall
<1>1. phase = from
  BY DEF Loss!Advance
<1>2. base' \in Loss!Cols
  <2>1. (base' = Loss!TileEnd /\ Loss!TileEnd < ask.v) \/ base' = 0
    BY TileStep
  <2> QED BY <2>1, LossFacts DEF Loss!Cols, AskOK
<1>3. \/ phase' = from
      \/ phase' = to /\ base' = 0
  BY TileStep
<1> QED BY <1>1, <1>2, <1>3 DEF FlowInv

LEMMA StepOfChunkForward == ASSUME LossInv, Loss!ChunkForward PROVE LossInv'
<1> USE SameCall DEF LossInv, Loss!ChunkForward
<1>0. phase = "forward"
  BY DEF Loss!Advance
<1>1. AskOK' /\ FlowInv' /\ ask.engine = "chunked"
  <2>1. AskOK' /\ FlowInv'
    BY FlowOfTileStep
  <2> QED BY <2>1 DEF AskOK, Loss!Resolved
<1>2. AtInv'
  BY <1>0, <1>1 DEF AtInv, Sweeps
<1>3. SumTo' = Loss!TileEnd /\ TgtTo' = Loss!TileEnd /\ ~(phase' = "done")
  BY TileStep, SMT DEF SumTo, TgtTo
<1>4. sum' = Upto(Loss!TileEnd)
  <2>1. sum = Upto(base)
    BY <1>0 DEF SumTo
  <2> QED BY <2>1, TileAdds, Zenon DEF Loss!Streamed
<1>5. tgt' = Found(Loss!TileEnd)
  <2>1. tgt = Found(base)
    BY <1>0 DEF TgtInv, TgtTo
  <2> QED BY <2>1, TileAdds, Zenon DEF Loss!Taken
<1>6. sum' = Upto(SumTo)' /\ TgtInv'
  BY <1>3, <1>4, <1>5 DEF TgtInv, Upto, Found
<1>7. RegInv'
  BY <1>0 DEF RegInv
<1>8. DhInv' /\ DwInv'
  <2>1. phase' \in {"forward", "returned"}
    BY TileStep
  <2> QED BY <1>0, <2>1 DEF DhInv, DhTo, DwInv, DwTo
<1> QED BY <1>1, <1>2, <1>6, <1>7, <1>8

LEMMA StepOfChunkRecompute == ASSUME LossInv, Loss!ChunkRecompute PROVE LossInv'
<1> USE SameCall DEF LossInv, Loss!ChunkRecompute
<1>0. phase = "recompute"
  BY DEF Loss!Advance
<1>1. AskOK' /\ FlowInv' /\ Loss!Resolved = "chunked" /\ ask.engine = "chunked"
  <2>1. AskOK' /\ FlowInv'
    BY FlowOfTileStep
  <2> QED BY <1>0, <2>1 DEF FlowInv, AskOK, Loss!Resolved
<1>2. AtInv'
  BY <1>0, <1>1 DEF AtInv, Sweeps
<1>3. /\ SumTo' = Loss!TileEnd /\ TgtTo' = ask.v /\ TgtTo = ask.v
      /\ phase' \in {"recompute", "backward"}
  BY <1>0, TileStep, SMT DEF SumTo, TgtTo
<1>4. sum' = Upto(Loss!TileEnd)
  <2>1. sum = Upto(base)
    BY <1>0 DEF SumTo
  <2> QED BY <2>1, TileAdds, Zenon DEF Loss!Streamed
<1>5. sum' = Upto(SumTo)'
  BY <1>3, <1>4 DEF Upto
<1>6. TgtInv'
  BY <1>0, <1>3 DEF TgtInv, Found
<1>7. RegInv'
  BY <1>0, <1>3 DEF RegInv
<1>8. DhInv' /\ DwInv'
  <2>1. phase' = "backward" => base' = 0
    BY TileStep
  <2>2. DhTo = 0 /\ DhTo' = 0
    BY <1>0, <1>1, <1>3, <2>1 DEF DhTo
  <2>3. \A r \in Loss!Rows : DwTo(r) = 0 /\ DwTo(r)' = 0
    BY <1>0, <1>1, <1>3, <2>1 DEF DwTo
  <2> QED BY <1>1, <2>2, <2>3 DEF DhInv, DwInv, Upto
<1> QED BY <1>1, <1>2, <1>5, <1>6, <1>7, <1>8

LEMMA StepOfVjp == ASSUME LossInv, Loss!Vjp PROVE LossInv'
<1> USE SameCall DEF LossInv, Loss!Vjp
<1>1. AskOK' /\ FlowInv' /\ base = 0
  BY DEF FlowInv
<1>2. Idle /\ Idle'
  BY DEF AtInv, Sweeps, Idle
<1>3. NothingYet'
  BY <1>1, <1>2, NothingPassed, PTL
<1>4. AtInv'
  <2>1. \A b \in Loss!Blocks : base + at[b] <= Loss!TileEnd
    BY <1>2, LossFacts DEF Idle
  <2>2. Loss!TileEnd' = Loss!TileEnd
    BY DEF Loss!TileEnd
  <2> QED BY <1>2, <2>1, <2>2 DEF AtInv, Idle
<1>5. sum' = Upto(SumTo)' /\ TgtInv'
  <2>1. sum' = Upto(SumTo)'
    <3>1. CASE Loss!Resolved = "chunked"
      <4>1. SumTo' = 0
        BY <1>1, <3>1 DEF SumTo
      <4>2. \A c \in Loss!Cols : ~(c < 0)
        BY DEF Loss!Cols, AskOK
      <4> QED BY <3>1, <4>1, <4>2 DEF Loss!Zero, Upto
    <3>2. CASE Loss!Resolved # "chunked"
      BY <3>2 DEF SumTo, Upto
    <3> QED BY <3>1, <3>2
  <2>2. TgtInv'
    BY DEF TgtInv, TgtTo, Found
  <2> QED BY <2>1, <2>2
<1>6. RegInv'
  BY DEF RegInv
<1>7. DhInv'
  <2>1. dhOut' = Accumulated'
    BY <1>3 DEF NothingYet, Loss!Fresh
  <2> QED BY <1>1, <2>1 DEF DhInv, DhTo, Upto
<1>8. DwInv'
  <2>1. \A r \in Loss!Rows : DwTo(r) = 0 /\ DwTo(r)' = 0
    BY <1>1, <1>3 DEF DwTo, NothingYet
  <2> QED BY <2>1 DEF DwInv
<1> QED BY <1>1, <1>4, <1>5, <1>6, <1>7, <1>8

LEMMA StepOfChunkBackward == ASSUME LossInv, Loss!ChunkBackward PROVE LossInv'
<1> USE SameCall DEF LossInv, Loss!ChunkBackward
<1>0. phase = "backward" /\ Loss!Resolved # "naive"
  BY DEF Loss!Advance, FlowInv
<1>1. AskOK' /\ FlowInv'
  BY FlowOfTileStep
<1>2. AtInv'
  BY <1>0 DEF AtInv, Sweeps, Loss!Advance
<1>3. phase' \in {"backward", "done"}
  BY TileStep
<1>4. sum' = Upto(SumTo)' /\ TgtInv' /\ RegInv'
  <2>1. sum' = Upto(SumTo)'
    BY <1>0, <1>3 DEF SumTo, Upto
  <2>2. TgtInv'
    BY <1>0, <1>3 DEF TgtInv, TgtTo, Found
  <2>3. RegInv'
    BY <1>0, <1>3 DEF RegInv
  <2> QED BY <2>1, <2>2, <2>3
<1>5. DhTo = base /\ DhTo' = Loss!TileEnd
  BY <1>0, TileStep, SMT DEF DhTo
<1>6. DhInv'
  <2>1. dhIn' = Upto(Loss!TileEnd)
    <3>1. dhIn = Upto(base)
      BY <1>5 DEF DhInv
    <3> QED BY <3>1, TileAdds, Zenon
  <2> QED BY <1>3, <1>5, <2>1 DEF DhInv, Upto
<1>7. DwInv'
  <2>1. CASE Loss!Trains
    <3>1. \A r \in Loss!Rows : DwTo(r) = base /\ DwTo(r)' = Loss!TileEnd
      BY <1>0, <2>1, TileStep, SMT DEF DwTo
    <3>2. dw' = [c \in Loss!Cols |-> [r \in Loss!Rows |-> IF c \in Loss!Tile THEN 1 ELSE dw[c][r]]]
      BY <2>1 DEF Loss!HeadGradient
    <3>3. ASSUME NEW c \in Loss!Cols, NEW r \in Loss!Rows
          PROVE  (IF c \in Loss!Tile THEN 1 ELSE dw[c][r])
                   = IF c < Loss!TileEnd THEN 1 ELSE 0
      <4>1. c \in Nat /\ (c \in Loss!Tile <=> base <= c /\ c < Loss!TileEnd)
        BY LossFacts DEF Loss!Tile, Loss!Cols, AskOK
      <4>2. dw[c][r] = IF c < base THEN 1 ELSE 0
        BY <3>1 DEF DwInv
      <4> QED BY <4>1, <4>2, LossFacts
    <3>4. dw' = [c \in Loss!Cols |-> [r \in Loss!Rows |->
                   IF c < Loss!TileEnd THEN 1 ELSE 0]]
      BY <3>2, <3>3, ZenonT(60)
    <3>5. dw' = [c \in Loss!Cols' |-> [r \in Loss!Rows' |->
                   IF c < Loss!TileEnd THEN 1 ELSE 0]]
      BY <3>4
    <3>6. \A r \in Loss!Rows' : DwTo(r)' = Loss!TileEnd
      BY <3>1
    <3> QED BY <3>5, <3>6, ZenonT(60) DEF DwInv
  <2>2. CASE ~Loss!Trains
    <3>1. \A r \in Loss!Rows : DwTo(r) = 0 /\ DwTo(r)' = 0
      BY <1>0, <2>2 DEF DwTo
    <3> QED BY <2>2, <3>1 DEF DwInv
  <2> QED BY <2>1, <2>2
<1> QED BY <1>1, <1>2, <1>4, <1>6, <1>7

LEMMA StepOfForwardTile == ASSUME LossInv, Loss!ForwardTile PROVE LossInv'
<1> USE SameCall DEF LossInv, Loss!ForwardTile
<1>0. phase = "forward"
  BY DEF Loss!Advance
<1>1. AskOK' /\ FlowInv'
  BY FlowOfTileStep
<1>2. Idle' /\ AtInv'
  BY <1>1, LossAssumption, SMT DEF Idle, AtInv, Sweeps, AskOK, Loss!Advance
<1>3. NothingYet'
  BY <1>1, <1>2, NothingPassed, PTL
<1>4. phase' \in {"forward", "returned"} /\ SumTo' = Loss!TileEnd /\ TgtTo' = Loss!TileEnd
  BY TileStep, SMT DEF SumTo, TgtTo
<1>5. \A r \in Loss!Rows : \A c : Reached(r, c) <=> c \in Loss!Tile
  <2> SUFFICES ASSUME NEW r \in Loss!Rows, NEW c PROVE Reached(r, c) <=> c \in Loss!Tile
    OBVIOUS
  <2>1. Passed(r) >= Loss!TileEnd /\ Passed(r) \in Nat
    BY LossFacts DEF Passed, AtInv
  <2> QED BY <2>1, LossFacts DEF Reached, Loss!Tile
<1>6. reg = Scanned /\ sum = Upto(base) /\ tgt = Found(base)
  BY <1>0 DEF RegInv, SumTo, TgtInv, TgtTo
<1>7. sum' = Upto(Loss!TileEnd)
  <2>1. \A r \in Loss!Rows, c \in Loss!Cols :
          reg[r].seen[c] = IF c \in Loss!Tile THEN 1 ELSE 0
    BY <1>5, <1>6 DEF Scanned
  <2>2. sum' = [r \in Loss!Rows |-> [c \in Loss!Cols |->
                  Upto(base)[r][c] + (IF c \in Loss!Tile THEN 1 ELSE 0)]]
    BY <1>6, <2>1
  <2> QED BY <2>2, TileAdds, Zenon
<1>8. tgt' = Found(Loss!TileEnd)
  <2>1. \A r \in Loss!Rows :
          Loss!StoredTarget(r) = IF ask.target[r] \in Loss!Tile THEN ask.target[r]
                                 ELSE Found(base)[r]
    <3> SUFFICES ASSUME NEW r \in Loss!Rows
                 PROVE  Loss!StoredTarget(r) = IF ask.target[r] \in Loss!Tile
                                               THEN ask.target[r] ELSE Found(base)[r]
      OBVIOUS
    <3>1. reg[r].hit = IF ask.target[r] \in Loss!Tile THEN ask.target[r] ELSE Loss!None
      BY <1>5, <1>6 DEF Scanned
    <3>2. ask.target[r] # Loss!None
      BY DEF AskOK, Loss!None
    <3> QED BY <1>6, <3>1, <3>2 DEF Loss!StoredTarget
  <2> QED BY <2>1, TileAdds, Zenon
<1>9. sum' = Upto(SumTo)' /\ TgtInv'
  BY <1>4, <1>7, <1>8 DEF Upto, Found, TgtInv
<1>10. RegInv'
  BY <1>3 DEF RegInv, NothingYet
<1>11. DhInv' /\ DwInv'
  BY <1>0, <1>4 DEF DhInv, DhTo, DwInv, DwTo, Upto
<1> QED BY <1>1, <1>2, <1>9, <1>10, <1>11

\* A block's own step moves that block on and no other.
Moved(b, w) ==
  /\ at' \in [Loss!Blocks -> Nat]
  /\ \A e \in Loss!Blocks : at'[e] <= ask.tile + Columns
  /\ \A e \in Loss!Blocks : at'[e] = IF e = b THEN at[b] + w ELSE at[e]
  /\ Loss!TileEnd' = Loss!TileEnd
  /\ \A r \in Loss!Rows :
       /\ r \in Loss!RowsOf(b) <=> r \div Loss!Height = b
       /\ at[r \div Loss!Height] \in Nat /\ Passed(r) = base + at[r \div Loss!Height]
       /\ at'[r \div Loss!Height] =
            IF r \in Loss!RowsOf(b) THEN at[b] + w ELSE at[r \div Loss!Height]
       /\ Passed(r)' = IF r \in Loss!RowsOf(b) THEN base + at[b] + w ELSE Passed(r)
       /\ r \in Loss!RowsOf(b) => Passed(r) = base + at[b]

LEMMA BlockMoves ==
  ASSUME AskOK, FlowInv, AtInv, ask' = ask, base' = base, NEW b \in Loss!Blocks, NEW w \in Nat,
         base + at[b] < Loss!TileEnd, w <= Columns, at' = [at EXCEPT ![b] = @ + w]
  PROVE  Moved(b, w)
<1> USE SameCall
<1>1. Columns \in Nat
  BY LossAssumption
<1>2. /\ at' \in [Loss!Blocks -> Nat]
      /\ \A e \in Loss!Blocks : at'[e] = IF e = b THEN at[b] + w ELSE at[e]
  BY DEF AtInv
<1>3. Loss!TileEnd' = Loss!TileEnd
  BY DEF Loss!TileEnd
<1>4. \A e \in Loss!Blocks : at'[e] <= ask.tile + Columns
  <2>1. at[b] < ask.tile /\ at[b] \in Nat /\ ask.tile \in Nat
    BY LossFacts DEF AtInv, AskOK
  <2>2. \A e \in Loss!Blocks : at[e] <= ask.tile + Columns
    BY DEF AtInv
  <2> QED BY <1>1, <1>2, <2>1, <2>2
<1>5. ASSUME NEW r \in Loss!Rows
      PROVE  /\ (r \in Loss!RowsOf(b) <=> r \div Loss!Height = b)
             /\ at[r \div Loss!Height] \in Nat /\ Passed(r) = base + at[r \div Loss!Height]
             /\ at'[r \div Loss!Height] =
                  IF r \in Loss!RowsOf(b) THEN at[b] + w ELSE at[r \div Loss!Height]
             /\ Passed(r)' = IF r \in Loss!RowsOf(b) THEN base + at[b] + w ELSE Passed(r)
             /\ r \in Loss!RowsOf(b) => Passed(r) = base + at[b]
  <2> DEFINE q == r \div Loss!Height
  <2>1. q \in Loss!Blocks
    BY LossFacts
  <2>2. r \in Loss!RowsOf(b) <=> q = b
    BY DEF Loss!RowsOf
  <2>3. Passed(r) = base + at[q] /\ Passed(r)' = base + at'[q]
    BY DEF Passed
  <2> HIDE DEF q
  <2>4. at[q] \in Nat /\ at'[q] = (IF q = b THEN at[b] + w ELSE at[q]) /\ at[b] \in Nat
    BY <1>2, <2>1 DEF AtInv
  <2>5. Passed(r)' = IF q = b THEN base + at[b] + w ELSE Passed(r)
    BY <2>3, <2>4, LossFacts
  <2> QED BY <2>2, <2>3, <2>4, <2>5 DEF q
<1> QED BY <1>2, <1>3, <1>4, <1>5, Zenon DEF Moved

LEMMA StepOfKernelColumns ==
  ASSUME LossInv, NEW b \in Loss!Blocks, Loss!KernelColumns(b) PROVE LossInv'
<1> USE SameCall DEF LossInv, Loss!KernelColumns
<1>1. AskOK' /\ FlowInv' /\ Columns \in Nat \ {0}
  BY LossAssumption DEF FlowInv
<1>2a. Moved(b, Columns)
  <2>1. Columns <= Columns
    BY <1>1
  <2> QED BY <1>1, <2>1, BlockMoves, Zenon
<1>2. /\ at' \in [Loss!Blocks -> Nat]
      /\ \A e \in Loss!Blocks : at'[e] <= ask.tile + Columns
      /\ Loss!TileEnd' = Loss!TileEnd
  BY <1>2a, Zenon DEF Moved
<1>3. AtInv'
  BY <1>2 DEF AtInv, Sweeps
<1>4. sum' = Upto(SumTo)' /\ TgtInv' /\ DhInv' /\ DwInv'
  <2>1. sum' = Upto(SumTo)'
    BY DEF SumTo, Upto
  <2>2. TgtInv'
    BY DEF TgtInv, TgtTo, Found
  <2>3. DhInv'
    BY DEF DhInv, DhTo, Upto
  <2>4. DwInv'
    BY DEF DwInv, DwTo
  <2> QED BY <2>1, <2>2, <2>3, <2>4
<1>5. reg = Scanned
  BY DEF RegInv
<1>6. ASSUME NEW r \in Loss!Rows, NEW c \in Loss!Cols
      PROVE  /\ r \notin Loss!RowsOf(b) => (Reached(r, c)' <=> Reached(r, c))
             /\ r \in Loss!RowsOf(b) =>
                  /\ Reached(r, c)' <=> Reached(r, c) \/ Loss!Share(b, c) > 0
                  /\ Loss!Share(b, c) = IF Reached(r, c)' /\ ~Reached(r, c) THEN 1 ELSE 0
  <2>1. c \in Nat
    BY DEF Loss!Cols, AskOK
  <2>2. Reached(r, c)' <=> base <= c /\ c < Loss!TileEnd /\ c < Passed(r)'
    BY <1>2, <2>1, LossFacts DEF Reached
  <2>3. Reached(r, c) <=> base <= c /\ c < Loss!TileEnd /\ c < Passed(r)
    BY <2>1, LossFacts DEF Reached
  <2>4. Passed(r)' = IF r \in Loss!RowsOf(b) THEN base + at[b] + Columns ELSE Passed(r)
    BY <1>2a, Zenon DEF Moved
  <2>5. r \in Loss!RowsOf(b) => Passed(r) = base + at[b]
    BY <1>2a, Zenon DEF Moved
  <2>6. at[b] \in Nat
    BY DEF AtInv
  <2>7. Loss!Share(b, c) =
          IF c < Loss!TileEnd /\ base + at[b] <= c /\ c < base + at[b] + Columns THEN 1 ELSE 0
    BY <1>1, <2>1, <2>6, LossFacts DEF Loss!Share
  <2>8. CASE r \notin Loss!RowsOf(b)
    BY <2>2, <2>3, <2>4, <2>8
  <2>9. CASE r \in Loss!RowsOf(b)
    <3>1. /\ Reached(r, c)' <=> base <= c /\ c < Loss!TileEnd /\ c < base + at[b] + Columns
          /\ Reached(r, c) <=> base <= c /\ c < Loss!TileEnd /\ c < base + at[b]
      BY <2>2, <2>3, <2>4, <2>5, <2>9, Zenon
    <3> QED BY <1>1, <2>1, <2>6, <2>7, <2>9, <3>1, LossFacts
  <2> QED BY <2>8, <2>9
<1>7. \A r \in Loss!Rows : \A c : Reached(r, c) \/ Reached(r, c)' => c \in Loss!Cols
  BY <1>2, LossFacts, SMTT(30) DEF Reached, Loss!Cols, AskOK
<1>8. ASSUME NEW r \in Loss!Rows
      PROVE  reg'[r] = [seen |-> [c \in Loss!Cols |-> IF Reached(r, c)' THEN 1 ELSE 0],
                        hit |-> IF Reached(r, ask.target[r])' THEN ask.target[r] ELSE Loss!None]
  <2> DEFINE t == ask.target[r]
  <2>1. reg[r] = [seen |-> [c \in Loss!Cols |-> IF Reached(r, c) THEN 1 ELSE 0],
                  hit |-> IF Reached(r, t) THEN t ELSE Loss!None]
    BY <1>5, Zenon DEF Scanned
  <2>2. CASE r \notin Loss!RowsOf(b)
    <3>1. \A c \in Loss!Cols : Reached(r, c)' <=> Reached(r, c)
      BY <1>6, <2>2, Zenon
    <3>2. Reached(r, t)' <=> Reached(r, t)
      BY <1>7, <3>1, Zenon
    <3>3. reg'[r] = reg[r]
      BY <2>2, Zenon
    <3> HIDE DEF t
    <3> QED BY <2>1, <3>1, <3>2, <3>3, Zenon DEF t
  <2>3. CASE r \in Loss!RowsOf(b)
    <3>1. \A c \in Loss!Cols : reg[r].seen[c] + Loss!Share(b, c) = IF Reached(r, c)' THEN 1 ELSE 0
      <4> SUFFICES ASSUME NEW c \in Loss!Cols
                   PROVE  reg[r].seen[c] + Loss!Share(b, c) = IF Reached(r, c)' THEN 1 ELSE 0
        OBVIOUS
      <4>1. reg[r].seen[c] = IF Reached(r, c) THEN 1 ELSE 0
        BY <2>1
      <4>2. /\ Reached(r, c) => Reached(r, c)'
            /\ Loss!Share(b, c) = IF Reached(r, c)' /\ ~Reached(r, c) THEN 1 ELSE 0
        BY <1>6, <2>3, Zenon
      <4> QED BY <4>1, <4>2
    <3>2. Reached(r, t)' <=> Reached(r, t) \/ (t \in Loss!Cols /\ Loss!Share(b, t) > 0)
      BY <1>6, <1>7, <2>3, Zenon
    <3>3. reg'[r] = [seen |-> [c \in Loss!Cols |-> reg[r].seen[c] + Loss!Share(b, c)],
                     hit |-> IF t \in Loss!Cols /\ Loss!Share(b, t) > 0
                             THEN t ELSE reg[r].hit]
      BY <2>3, Zenon
    <3>4. (IF t \in Loss!Cols /\ Loss!Share(b, t) > 0 THEN t ELSE reg[r].hit)
            = IF Reached(r, t)' THEN t ELSE Loss!None
      <4>1. reg[r].hit = IF Reached(r, t) THEN t ELSE Loss!None
        BY <2>1
      <4> QED BY <3>2, <4>1, Zenon
    <3> HIDE DEF t
    <3> QED BY <3>1, <3>3, <3>4, Zenon DEF t
  <2> QED BY <2>2, <2>3, Zenon
<1>9. reg' = [r \in Loss!Rows |-> reg'[r]]
  OBVIOUS
<1>10. reg' = Scanned'
  BY <1>8, <1>9, ZenonT(60) DEF Scanned
<1>11. RegInv'
  BY <1>10 DEF RegInv
<1> QED BY <1>1, <1>3, <1>4, <1>11

\* A backward launched in tiles is of a call that the kernel serves.
LEMMA LaunchedByKernel ==
  ASSUME AskOK, FlowInv, phase = "backward", ask.engine # "chunked"
  PROVE  Loss!Resolved = "kernel"
  BY DEF AskOK, FlowInv, Loss!Resolved

LEMMA StepOfHiddenColumns ==
  ASSUME LossInv, NEW b \in Loss!Blocks, Loss!HiddenColumns(b) PROVE LossInv'
<1> USE SameCall DEF LossInv, Loss!HiddenColumns
<1> DEFINE width == IF ask.engine = "scalar" THEN 1 ELSE Columns
           cols == {c \in Loss!Tile : c - base - at[b] \in 0..(width - 1)}
<1>1. AskOK' /\ FlowInv'
  BY DEF FlowInv
<1>2. Columns \in Nat \ {0} /\ width \in Nat \ {0} /\ width <= Columns
  BY LossAssumption
<1>3. /\ dhOut' = [r \in Loss!Rows |->
             IF r \notin Loss!RowsOf(b) THEN dhOut[r]
             ELSE [c \in Loss!Cols |-> Loss!Previous(b, r, c) + (IF c \in cols THEN 1 ELSE 0)]]
      /\ at' = [at EXCEPT ![b] = @ + width]
  OBVIOUS
<1> HIDE DEF width, cols
<1>4. Moved(b, width)
  BY <1>2, <1>3, BlockMoves, Zenon
<1>5. Loss!Resolved = "kernel"
  BY LaunchedByKernel
<1>6. AtInv'
  <2>1. /\ at' \in [Loss!Blocks -> Nat]
        /\ \A e \in Loss!Blocks : at'[e] <= ask.tile + Columns
    BY <1>4, Zenon DEF Moved
  <2> QED BY <1>5, <2>1 DEF AtInv, Sweeps
<1>7. sum' = Upto(SumTo)' /\ TgtInv' /\ RegInv' /\ DwInv'
  <2>1. sum' = Upto(SumTo)'
    BY DEF SumTo, Upto
  <2>2. TgtInv'
    BY DEF TgtInv, TgtTo, Found
  <2>3. RegInv'
    BY DEF RegInv
  <2>4. DwInv'
    BY DEF DwInv, DwTo
  <2> QED BY <2>1, <2>2, <2>3, <2>4
<1>8. dhIn = Upto(base) /\ dhIn' = Upto(DhTo)' /\ dhOut = Accumulated
  BY <1>5 DEF DhInv, DhTo, Upto
<1>9. ASSUME NEW r \in Loss!Rows
      PROVE  dhOut'[r] = [c \in Loss!Cols |->
                 IF at'[r \div Loss!Height] = 0 THEN Loss!Junk
                 ELSE IF c < base \/ Reached(r, c)' THEN 1 ELSE 0]
  <2> DEFINE e == r \div Loss!Height
  <2>1. /\ r \in Loss!RowsOf(b) <=> e = b
        /\ at[e] \in Nat /\ Passed(r) = base + at[e]
        /\ at'[e] = IF r \in Loss!RowsOf(b) THEN at[b] + width ELSE at[e]
        /\ Passed(r)' = IF r \in Loss!RowsOf(b) THEN base + at[b] + width ELSE Passed(r)
        /\ r \in Loss!RowsOf(b) => Passed(r) = base + at[b]
    BY <1>4, Zenon DEF Moved
  <2>2. Loss!TileEnd' = Loss!TileEnd
    BY <1>4, Zenon DEF Moved
  <2>3. dhOut[r] = [c \in Loss!Cols |->
                      IF at[e] = 0 THEN Loss!Junk
                      ELSE IF c < base \/ Reached(r, c) THEN 1 ELSE 0]
    BY <1>8, Zenon DEF Accumulated
  <2> HIDE DEF e
  <2>4. ASSUME NEW c \in Loss!Cols
        PROVE  /\ c \in Nat
               /\ Reached(r, c)' <=> base <= c /\ c < Loss!TileEnd /\ c < Passed(r)'
               /\ Reached(r, c) <=> base <= c /\ c < Loss!TileEnd /\ c < Passed(r)
    <3>1. c \in Nat
      BY DEF Loss!Cols, AskOK
    <3> QED BY <2>2, <3>1, LossFacts DEF Reached
  <2>5. CASE r \notin Loss!RowsOf(b)
    <3>1. dhOut'[r] = dhOut[r]
      BY <1>3, <2>5, Zenon
    <3>2. \A c \in Loss!Cols : Reached(r, c)' <=> Reached(r, c)
      BY <2>1, <2>4, <2>5, Zenon
    <3>3. at'[e] = at[e]
      BY <2>1, <2>5
    <3> QED BY <2>3, <3>1, <3>2, <3>3, Zenon DEF e
  <2>6. CASE r \in Loss!RowsOf(b)
    <3>1. dhOut'[r] = [c \in Loss!Cols |->
                         Loss!Previous(b, r, c) + (IF c \in cols THEN 1 ELSE 0)]
      BY <1>3, <2>6, Zenon
    <3>2. at'[e] # 0 /\ e = b
      BY <1>2, <2>1, <2>6
    <3>3. ASSUME NEW c \in Loss!Cols
          PROVE  Loss!Previous(b, r, c) + (IF c \in cols THEN 1 ELSE 0)
                   = IF c < base \/ Reached(r, c)' THEN 1 ELSE 0
      <4>1. c \in Nat /\ at[b] \in Nat /\ base \in Nat /\ width \in Nat \ {0}
        BY <1>2, <2>1, <2>4, <3>2, LossFacts
      <4>2. c \in cols <=> /\ base <= c /\ c < Loss!TileEnd
                           /\ base + at[b] <= c /\ c < base + at[b] + width
        BY <4>1, LossFacts DEF cols, Loss!Tile
      <4>3. Reached(r, c)' <=> base <= c /\ c < Loss!TileEnd /\ c < base + at[b] + width
        BY <2>1, <2>4, <2>6, Zenon
      <4>4. Loss!Previous(b, r, c) =
              IF c < base \/ (base <= c /\ c < Loss!TileEnd /\ c < base + at[b]) THEN 1 ELSE 0
        <5>1. CASE at[b] = 0
          <6>1. dhIn[r][c] = IF c < base THEN 1 ELSE 0
            BY <1>8, Zenon DEF Upto
          <6> QED BY <4>1, <5>1, <6>1, LossFacts DEF Loss!Previous
        <5>2. CASE at[b] # 0
          <6>1. dhOut[r][c] = IF c < base \/ Reached(r, c) THEN 1 ELSE 0
            BY <2>3, <3>2, <5>2
          <6>2. Reached(r, c) <=> base <= c /\ c < Loss!TileEnd /\ c < base + at[b]
            BY <2>1, <2>4, <2>6, Zenon
          <6> QED BY <5>2, <6>1, <6>2 DEF Loss!Previous
        <5> QED BY <5>1, <5>2
      <4> QED BY <4>1, <4>2, <4>3, <4>4, LossFacts
    <3> QED BY <3>1, <3>2, <3>3, ZenonT(60) DEF e
  <2> QED BY <2>5, <2>6, Zenon
<1>10. dhOut' = Accumulated'
  <2>1. dhOut' = [r \in Loss!Rows |-> dhOut'[r]]
    BY <1>3
  <2>2. dhOut' = [r \in Loss!Rows |-> [c \in Loss!Cols |->
                     IF at'[r \div Loss!Height] = 0 THEN Loss!Junk
                     ELSE IF c < base \/ Reached(r, c)' THEN 1 ELSE 0]]
    BY <1>9, <2>1, Zenon
  <2>3. base' = base
    OBVIOUS
  <2>4. dhOut' = [r \in Loss!Rows' |-> [c \in Loss!Cols' |-> dhOut'[r][c]]]
    BY <2>2
  <2> DEFINE Val(r, c) == IF at'[r \div Loss!Height'] = 0 THEN Loss!Junk
                          ELSE IF c < base' \/ Reached(r, c)' THEN 1 ELSE 0
  <2>5. \A r \in Loss!Rows', c \in Loss!Cols' : dhOut'[r][c] = Val(r, c)
    BY <2>2, <2>3
  <2>6. Accumulated' = [r \in Loss!Rows' |-> [c \in Loss!Cols' |-> Val(r, c)]]
    BY Zenon DEF Accumulated
  <2> HIDE DEF Val
  <2>7. \A r \in Loss!Rows' : [c \in Loss!Cols' |-> dhOut'[r][c]] = [c \in Loss!Cols' |-> Val(r, c)]
    BY <2>5, Zenon
  <2>8. [r \in Loss!Rows' |-> [c \in Loss!Cols' |-> dhOut'[r][c]]]
          = [r \in Loss!Rows' |-> [c \in Loss!Cols' |-> Val(r, c)]]
    BY <2>7, Zenon
  <2> QED BY <2>4, <2>6, <2>8, Zenon
<1>11. DhInv'
  BY <1>8, <1>10 DEF DhInv
<1> QED BY <1>1, <1>6, <1>7, <1>11

LEMMA StepOfHeadColumn ==
  ASSUME LossInv, NEW b \in Loss!Blocks, Loss!HeadColumn(b) PROVE LossInv'
<1> USE SameCall DEF LossInv, Loss!HeadColumn
<1>1. AskOK' /\ FlowInv'
  BY DEF FlowInv
<1>2. Columns \in Nat \ {0} /\ 1 \in Nat /\ 1 <= Columns
  BY LossAssumption
<1>3. Moved(b, 1)
  BY <1>2, BlockMoves, Zenon
<1>4. Loss!Resolved = "kernel"
  BY LaunchedByKernel
<1>5. AtInv'
  <2>1. /\ at' \in [Loss!Blocks -> Nat]
        /\ \A e \in Loss!Blocks : at'[e] <= ask.tile + Columns
        /\ \A e \in Loss!Blocks : at'[e] = IF e = b THEN at[b] + 1 ELSE at[e]
        /\ Loss!TileEnd' = Loss!TileEnd
    BY <1>3, Zenon DEF Moved
  <2>2. ASSUME NEW e \in Loss!Blocks PROVE base + at'[e] <= Loss!TileEnd
    <3>1. base + at[e] <= Loss!TileEnd /\ at[e] \in Nat /\ at[b] \in Nat
      BY <1>4 DEF AtInv, Sweeps
    <3>2. at'[e] = IF e = b THEN at[b] + 1 ELSE at[e]
      BY <2>1
    <3> QED BY <3>1, <3>2, LossFacts
  <2> QED BY <1>4, <2>1, <2>2 DEF AtInv, Sweeps
<1>6. sum' = Upto(SumTo)' /\ TgtInv' /\ RegInv' /\ DhInv'
  <2>1. sum' = Upto(SumTo)'
    BY DEF SumTo, Upto
  <2>2. TgtInv'
    BY DEF TgtInv, TgtTo, Found
  <2>3. RegInv'
    BY DEF RegInv
  <2>4. DhInv'
    BY DEF DhInv, DhTo, Upto
  <2> QED BY <2>1, <2>2, <2>3, <2>4
<1>7. dw = [c \in Loss!Cols |-> [r \in Loss!Rows |-> IF c < Passed(r) THEN 1 ELSE 0]]
  BY DEF DwInv, DwTo
<1>8. ASSUME NEW c \in Loss!Cols, NEW r \in Loss!Rows
      PROVE  dw'[c][r] = IF c < Passed(r)' THEN 1 ELSE 0
  <2>1. c \in Nat /\ base \in Nat /\ at[b] \in Nat
    BY LossFacts DEF Loss!Cols, AskOK, AtInv
  <2>2. /\ Passed(r)' = IF r \in Loss!RowsOf(b) THEN base + at[b] + 1 ELSE Passed(r)
        /\ r \in Loss!RowsOf(b) => Passed(r) = base + at[b]
    BY <1>3, Zenon DEF Moved
  <2>3. dw[c][r] = IF c < Passed(r) THEN 1 ELSE 0
    BY <1>7
  <2>4. CASE c = base + at[b]
    <3>1. dw'[c][r] = dw[c][r] + (IF r \in Loss!RowsOf(b) THEN 1 ELSE 0)
      BY <1>7, <2>4
    <3> QED BY <2>1, <2>2, <2>3, <2>4, <3>1
  <2>5. CASE c # base + at[b]
    <3>1. dw'[c][r] = dw[c][r]
      BY <1>7, <2>5
    <3> QED BY <2>1, <2>2, <2>3, <2>5, <3>1
  <2> QED BY <2>4, <2>5
<1>9. DwInv'
  <2>1. dw' = [c \in Loss!Cols |-> [r \in Loss!Rows |-> dw'[c][r]]]
    BY <1>7
  <2>2. dw' = [c \in Loss!Cols' |-> [r \in Loss!Rows' |-> IF c < Passed(r)' THEN 1 ELSE 0]]
    BY <1>8, <2>1
  <2>3. \A r : DwTo(r)' = Passed(r)'
    BY DEF DwTo
  <2> QED BY <2>2, <2>3, ZenonT(60) DEF DwInv
<1> QED BY <1>1, <1>5, <1>6, <1>9

BaseInTile == base <= Loss!TileEnd /\ base + 0 = base

LEMMA InTile == AskOK /\ FlowInv => BaseInTile
  BY LossFacts DEF BaseInTile

LEMMA StepOfTilePassed ==
  ASSUME LossInv, Loss!TilePassed, ask.engine # "chunked"
  PROVE  /\ phase = "backward" /\ phase' \in {"backward", "done"} /\ Loss!Resolved = "kernel"
         /\ AskOK' /\ FlowInv' /\ AtInv' /\ NothingYet'
         /\ sum' = Upto(SumTo)' /\ TgtInv' /\ RegInv'
         /\ \A r \in Loss!Rows : /\ at[r \div Loss!Height] # 0
                                 /\ Passed(r) >= Loss!TileEnd /\ Passed(r) \in Nat
<1> USE SameCall DEF LossInv, Loss!TilePassed
<1>1. phase = "backward"
  BY DEF Loss!Advance
<1>2. phase' \in {"backward", "done"} /\ Loss!Resolved = "kernel"
  BY <1>1, TileStep, LaunchedByKernel
<1>3. AskOK' /\ FlowInv'
  BY FlowOfTileStep
<1>4. Idle'
  BY DEF Idle
<1>5. NothingYet'
  BY <1>3, <1>4, NothingPassed, PTL
<1>6. AtInv'
  <2>1. base' <= Loss!TileEnd' /\ base' + 0 = base'
    <3>1. BaseInTile'
      BY <1>3, InTile, PTL
    <3> QED BY <3>1, Zenon DEF BaseInTile
  <2>2. Columns \in Nat /\ ask.tile \in Nat
    BY LossAssumption DEF AskOK
  <2> QED BY <1>2, <1>4, <2>1, <2>2 DEF AtInv, Idle
<1>7. sum' = Upto(SumTo)' /\ TgtInv' /\ RegInv'
  <2>1. sum' = Upto(SumTo)'
    BY <1>1, <1>2 DEF SumTo, Upto
  <2>2. TgtInv'
    BY <1>1, <1>2 DEF TgtInv, TgtTo, Found
  <2>3. RegInv'
    BY <1>1, <1>2 DEF RegInv
  <2> QED BY <2>1, <2>2, <2>3
<1>8. ASSUME NEW r \in Loss!Rows
      PROVE  /\ at[r \div Loss!Height] # 0
             /\ Passed(r) >= Loss!TileEnd /\ Passed(r) \in Nat
  <2>1. at[r \div Loss!Height] \in Nat /\ base + at[r \div Loss!Height] >= Loss!TileEnd
    BY LossFacts DEF AtInv
  <2> QED BY <2>1, LossFacts DEF Passed
<1> QED BY <1>1, <1>2, <1>3, <1>5, <1>6, <1>7, <1>8

LEMMA StepOfHiddenTile == ASSUME LossInv, Loss!HiddenTile PROVE LossInv'
<1> USE SameCall DEF LossInv, Loss!HiddenTile
<1>1. /\ phase = "backward" /\ phase' \in {"backward", "done"} /\ Loss!Resolved = "kernel"
      /\ AskOK' /\ FlowInv' /\ AtInv' /\ NothingYet'
      /\ sum' = Upto(SumTo)' /\ TgtInv' /\ RegInv'
      /\ \A r \in Loss!Rows : /\ at[r \div Loss!Height] # 0
                              /\ Passed(r) >= Loss!TileEnd /\ Passed(r) \in Nat
  BY StepOfTilePassed
<1>2. dhOut = Upto(Loss!TileEnd)
  <2>1. dhOut = Accumulated
    BY <1>1 DEF DhInv
  <2>2. ASSUME NEW r \in Loss!Rows, NEW c \in Loss!Cols
        PROVE  (c < base \/ Reached(r, c)) <=> c < Loss!TileEnd
    <3>1. c \in Nat /\ Passed(r) >= Loss!TileEnd /\ Passed(r) \in Nat
      BY <1>1 DEF Loss!Cols, AskOK
    <3> QED BY <3>1, LossFacts DEF Reached
  <2> QED BY <1>1, <2>1, <2>2, Zenon DEF Accumulated, Upto
<1>3. DhInv'
  <2>1. DhTo' = Loss!TileEnd
    <3>1. Loss!Advance("backward", "done")
      BY DEF Loss!TilePassed
    <3> QED BY <1>1, <3>1, TileStep, SMT DEF DhTo, Loss!TilePassed
  <2>2. dhIn' = Upto(DhTo)'
    BY <1>2, <2>1 DEF Upto, Loss!TilePassed
  <2>3. dhOut' = Accumulated'
    <3>1. Loss!Fresh' = Loss!Fresh
      BY DEF Loss!Fresh, Loss!Junk, Loss!TilePassed
    <3> QED BY <1>1, <3>1 DEF NothingYet
  <2> QED BY <2>2, <2>3 DEF DhInv
<1>4. DwInv'
  BY <1>1 DEF DwInv, DwTo, Loss!TilePassed
<1> QED BY <1>1, <1>3, <1>4

LEMMA StepOfHeadTile == ASSUME LossInv, Loss!HeadTile PROVE LossInv'
<1> USE SameCall DEF LossInv, Loss!HeadTile
<1>1. /\ phase = "backward" /\ phase' \in {"backward", "done"} /\ Loss!Resolved = "kernel"
      /\ AskOK' /\ FlowInv' /\ AtInv' /\ NothingYet'
      /\ sum' = Upto(SumTo)' /\ TgtInv' /\ RegInv'
      /\ \A r \in Loss!Rows : /\ at[r \div Loss!Height] # 0
                              /\ Passed(r) >= Loss!TileEnd /\ Passed(r) \in Nat
  BY StepOfTilePassed
<1>2. DhInv'
  BY <1>1 DEF DhInv, DhTo, Upto, Loss!TilePassed
<1>3. \A r \in Loss!Rows : DwTo(r) = Loss!TileEnd /\ DwTo(r)' = Loss!TileEnd
  <2> SUFFICES ASSUME NEW r \in Loss!Rows
               PROVE  DwTo(r) = Loss!TileEnd /\ DwTo(r)' = Loss!TileEnd
    OBVIOUS
  <2>1. Passed(r) = Loss!TileEnd
    <3>1. Passed(r) <= Loss!TileEnd
      BY <1>1, LossFacts DEF Passed, AtInv, Sweeps
    <3> QED BY <1>1, <3>1, LossFacts
  <2>2. Passed(r)' = base'
    BY <1>1 DEF NothingYet, Loss!TilePassed
  <2>3. /\ phase' = "backward" => base' = Loss!TileEnd
        /\ phase' = "done" => Loss!TileEnd = ask.v
    <3>1. Loss!Advance("backward", "done") /\ ask' = ask
      BY DEF Loss!TilePassed
    <3> QED BY <3>1, TileStep, SMT
  <2> QED BY <1>1, <2>1, <2>2, <2>3 DEF DwTo, Loss!TilePassed
<1>4. DwInv'
  <2>1. dw' = [c \in Loss!Cols |-> [r \in Loss!Rows |-> IF c < Loss!TileEnd THEN 1 ELSE 0]]
    BY <1>3 DEF DwInv, Loss!TilePassed
  <2>2. ask' = ask
    BY DEF Loss!TilePassed
  <2>3. dw' = [c \in Loss!Cols' |-> [r \in Loss!Rows' |-> IF c < Loss!TileEnd THEN 1 ELSE 0]]
    BY <2>1, <2>2
  <2>4. \A r \in Loss!Rows' : DwTo(r)' = Loss!TileEnd
    BY <1>3, <2>2
  <2> QED BY <2>3, <2>4, Zenon DEF DwInv
<1> QED BY <1>1, <1>2, <1>4

LEMMA LossStays == ASSUME LossInv, UNCHANGED lossVars PROVE LossInv'
<1> USE DEF lossVars, LossInv
<1>1. ask' = ask /\ phase' = phase /\ base' = base /\ at' = at /\ reg' = reg /\ sum' = sum
      /\ tgt' = tgt /\ dhIn' = dhIn /\ dhOut' = dhOut /\ dw' = dw
  OBVIOUS
<1>2. Loss!TileEnd' = Loss!TileEnd /\ \A r : Passed(r)' = Passed(r)
  BY <1>1, SameCall DEF Loss!TileEnd, Passed
<1>3. AskOK' /\ FlowInv' /\ AtInv'
  BY <1>1, <1>2, SameCall DEF FlowInv, AtInv, Sweeps
<1>4. sum' = Upto(SumTo)' /\ TgtInv'
  <2>1. SumTo' = SumTo /\ TgtTo' = TgtTo
    BY <1>1 DEF SumTo, TgtTo
  <2> QED BY <1>1, <2>1, SameCall DEF TgtInv, Upto, Found
<1>5. \A r : \A c : Reached(r, c)' <=> Reached(r, c)
  BY <1>1, <1>2 DEF Reached
<1>6. RegInv'
  <2>1. Scanned' = Scanned
    BY <1>1, <1>5, SameCall DEF Scanned
  <2> QED BY <1>1, <2>1, SameCall DEF RegInv
<1>7. DhInv'
  <2>1. Accumulated' = Accumulated
    BY <1>1, <1>5, SameCall DEF Accumulated
  <2>2. DhTo' = DhTo
    BY <1>1, SameCall DEF DhTo
  <2> QED BY <1>1, <2>1, <2>2, SameCall DEF DhInv, Upto
<1>8. DwInv'
  <2>1. \A r : DwTo(r)' = DwTo(r)
    BY <1>1, <1>2, SameCall DEF DwTo
  <2> QED BY <1>1, <2>1, SameCall DEF DwInv
<1> QED BY <1>3, <1>4, <1>6, <1>7, <1>8

LEMMA LossStep == ASSUME LossInv, Loss!Next PROVE LossInv'
<1>1. CASE Loss!Call
  BY <1>1, StepOfCall
<1>2. CASE Loss!NaiveForward
  BY <1>2, StepOfNaiveForward
<1>3. CASE Loss!ChunkForward
  BY <1>3, StepOfChunkForward
<1>4. CASE Loss!ForwardTile
  BY <1>4, StepOfForwardTile
<1>5. CASE Loss!Vjp
  BY <1>5, StepOfVjp
<1>6. CASE Loss!ChunkRecompute
  BY <1>6, StepOfChunkRecompute
<1>7. CASE Loss!ChunkBackward
  BY <1>7, StepOfChunkBackward
<1>8. CASE Loss!HiddenTile
  BY <1>8, StepOfHiddenTile
<1>9. CASE Loss!HeadTile
  BY <1>9, StepOfHeadTile
<1>10. ASSUME NEW b \in Loss!Blocks, Loss!KernelColumns(b) PROVE LossInv'
  BY <1>10, StepOfKernelColumns
<1>11. ASSUME NEW b \in Loss!Blocks, Loss!HiddenColumns(b) PROVE LossInv'
  BY <1>11, StepOfHiddenColumns
<1>12. ASSUME NEW b \in Loss!Blocks, Loss!HeadColumn(b) PROVE LossInv'
  BY <1>12, StepOfHeadColumn
<1>13. CASE Loss!Finished
  BY <1>13, LossStays DEF Loss!Finished, Loss!vars, lossVars
<1> QED BY <1>1, <1>2, <1>3, <1>4, <1>5, <1>6, <1>7, <1>8, <1>9, <1>10, <1>11, <1>12, <1>13
        DEF Loss!Next

\* What the invariant says of a loss and of gradients that are returned.
LEMMA LossIsRight ==
  ASSUME LossInv
  PROVE  /\ Loss!TypeOK /\ Loss!EveryColumnOnce /\ Loss!TargetIsFound
         /\ Loss!HiddenGradientComplete /\ Loss!HeadGradientComplete
<1> USE DEF LossInv
<1>0. \A c \in Loss!Cols : c \in Nat /\ c < ask.v
  BY DEF Loss!Cols, AskOK
<1>1. Loss!TypeOK
  <2>1. \A b \in Loss!Blocks : at[b] \in 0..(ask.tile + Columns)
    BY LossAssumption DEF AtInv, AskOK
  <2>2. ASSUME NEW r \in Loss!Rows
        PROVE  reg[r].hit \in Loss!Cols \cup {Loss!None} /\ reg[r].seen \in [Loss!Cols -> 0..Columns]
    <3>1. 0 \in 0..Columns /\ 1 \in 0..Columns
      BY LossAssumption
    <3>2. CASE reg = Loss!Empty
      BY <3>1, <3>2 DEF Loss!Empty
    <3>3. CASE reg = Scanned
      <4>1. Reached(r, ask.target[r]) => ask.target[r] \in Loss!Cols
        BY LossFacts, SMT DEF Reached, Loss!Cols, AskOK
      <4> QED BY <3>1, <3>3, <4>1 DEF Scanned
    <3> QED BY <3>2, <3>3 DEF RegInv
  <2>3. sum \in [Loss!Rows -> [Loss!Cols -> Nat]]
    BY DEF Upto
  <2>4. tgt \in [Loss!Rows -> Loss!Cols \cup {Loss!None}]
    <3>1. CASE tgt = Found(TgtTo)
      <4>1. TgtTo \in Nat /\ TgtTo <= ask.v
        BY LossFacts, SMT DEF TgtTo, AskOK
      <4>2. \A r \in Loss!Rows : ask.target[r] < TgtTo => ask.target[r] \in Loss!Cols
        BY <4>1 DEF AskOK, Loss!Cols
      <4> QED BY <3>1, <4>2 DEF Found
    <3> QED BY <3>1 DEF TgtInv
  <2> QED BY <2>1, <2>2, <2>3, <2>4 DEF Loss!TypeOK, FlowInv
<1>2. Loss!EveryColumnOnce
  BY <1>0 DEF Loss!EveryColumnOnce, SumTo, Upto
<1>3. Loss!TargetIsFound
  <2> SUFFICES ASSUME Loss!Returned, ask.checked, NEW r \in Loss!Rows
               PROVE  tgt[r] = ask.target[r]
    BY DEF Loss!TargetIsFound
  <2>1. ask.target[r] < ask.v /\ ask.target[r] \in Loss!Cols
    BY DEF FlowInv, Loss!ValidInputs, Loss!Returned, AskOK, Loss!Cols
  <2>2. TgtTo = ask.v
    BY DEF TgtTo, Loss!Returned
  <2> QED BY <2>1, <2>2 DEF TgtInv, Found
<1>4. Loss!HiddenGradientComplete
  BY <1>0 DEF Loss!HiddenGradientComplete, DhInv, DhTo, Upto
<1>5. Loss!HeadGradientComplete
  <2> SUFFICES ASSUME phase = "done", Loss!Resolved # "naive",
                      NEW c \in Loss!Cols, NEW r \in Loss!Rows
               PROVE  dw[c][r] = IF ask.engine = "atomic" \/ (Loss!Trains /\ ask.engine = "chunked")
                                 THEN 1 ELSE 0
    BY DEF Loss!HeadGradientComplete
  <2>1. dw[c][r] = IF c < DwTo(r) THEN 1 ELSE 0
    BY DEF DwInv
  <2> QED BY <1>0, <2>1 DEF DwTo
<1> QED BY <1>1, <1>2, <1>3, <1>4, <1>5

(***************************************************************************)
(* The lanes of a simdgroup.                                               *)
(***************************************************************************)

\* Where a lane's elements are, and what a shuffle changes of it.
LEMMA LaneBits ==
  ASSUME NEW l \in Lane!Lanes
  PROVE  /\ Lane!Fm(l) \in 0..7 /\ Lane!Fn(l) \in {0, 2, 4, 6}
         /\ Lane!Bit(l, 8) \in {0, 1} /\ Lane!Bit(l, 1) \in {0, 1}
         /\ Lane!Flip(l, 8) \in Lane!Lanes /\ Lane!Flip(l, 1) \in Lane!Lanes
         /\ Lane!Bit(Lane!Flip(l, 8), 8) = 1 - Lane!Bit(l, 8)
         /\ Lane!Bit(Lane!Flip(l, 8), 1) = Lane!Bit(l, 1)
         /\ Lane!Bit(Lane!Flip(l, 1), 1) = 1 - Lane!Bit(l, 1)
         /\ Lane!Bit(Lane!Flip(l, 1), 8) = Lane!Bit(l, 8)
<1>1. l \in 0..31
  BY DEF Lane!Lanes
<1>2. Lane!Fm(l) \in 0..7 /\ Lane!Fn(l) \in {0, 2, 4, 6}
  BY <1>1 DEF Lane!Fm, Lane!Fn, Lane!Bit
<1>3. /\ Lane!Bit(l, 8) \in {0, 1} /\ Lane!Bit(l, 1) \in {0, 1}
  BY <1>1 DEF Lane!Bit
<1>4. /\ Lane!Flip(l, 8) \in Lane!Lanes
      /\ Lane!Bit(Lane!Flip(l, 8), 8) = 1 - Lane!Bit(l, 8)
      /\ Lane!Bit(Lane!Flip(l, 8), 1) = Lane!Bit(l, 1)
  BY <1>1, SMTT(30) DEF Lane!Bit, Lane!Flip, Lane!Lanes
<1>5. /\ Lane!Flip(l, 1) \in Lane!Lanes
      /\ Lane!Bit(Lane!Flip(l, 1), 1) = 1 - Lane!Bit(l, 1)
      /\ Lane!Bit(Lane!Flip(l, 1), 8) = Lane!Bit(l, 8)
  BY <1>1, SMTT(30) DEF Lane!Bit, Lane!Flip, Lane!Lanes
<1> QED BY <1>2, <1>3, <1>4, <1>5

LEMMA Bits ==
  ASSUME NEW i \in 0..7
  PROVE  \E x \in {0, 1}, y \in {0, 1}, z \in {0, 1} : i = 4 * x + 2 * y + z
<1> DEFINE x == i \div 4  y == (i \div 2) % 2  z == i % 2
<1>1. x \in {0, 1} /\ y \in {0, 1} /\ z \in {0, 1} /\ i = 4 * x + 2 * y + z
  OBVIOUS
<1> HIDE DEF x, y, z
<1> QED BY <1>1

\* Every place of a fragment is one lane's, as its first or its second element.
LEMMA Fragments ==
  ASSUME NEW i \in Lane!Eight, NEW j \in Lane!Eight
  PROVE  /\ Lane!Where[<<i, j>>] \in Lane!Lanes \X {0, 1} /\ Lane!Where[<<i, j>>] = Lane!At(i, j)
         /\ Lane!Fm(Lane!Where[<<i, j>>][1]) = i
         /\ Lane!Fn(Lane!Where[<<i, j>>][1]) + Lane!Where[<<i, j>>][2] = j
<1> DEFINE There(le) == Lane!Fm(le[1]) = i /\ Lane!Fn(le[1]) + le[2] = j
<1>1. PICK a \in {0, 1}, b \in {0, 1}, c \in {0, 1} : i = 4 * a + 2 * b + c
  BY Bits DEF Lane!Eight
<1>2. PICK f \in {0, 1}, g \in {0, 1}, e \in {0, 1} : j = 4 * f + 2 * g + e
  BY Bits DEF Lane!Eight
<1> DEFINE l == 16 * a + 8 * f + 4 * b + 2 * c + g
<1>3. l \in 0..31
  BY <1>1, <1>2
<1>4. /\ Lane!Bit(l, 16) = a /\ Lane!Bit(l, 8) = f /\ Lane!Bit(l, 4) = b
      /\ Lane!Bit(l, 2) = c /\ Lane!Bit(l, 1) = g
  BY <1>1, <1>2, SMTT(30) DEF Lane!Bit
<1> HIDE DEF l
<1>5. Lane!Fm(l) = i /\ Lane!Fn(l) + e = j
  BY <1>1, <1>2, <1>4 DEF Lane!Fm, Lane!Fn
<1>6. <<l, e>> \in Lane!Lanes \X {0, 1} /\ There(<<l, e>>)
  BY <1>2, <1>3, <1>5 DEF Lane!Lanes
<1> HIDE DEF There
<1> DEFINE at0 == CHOOSE le \in Lane!Lanes \X {0, 1} : There(le)
<1>7. at0 \in Lane!Lanes \X {0, 1} /\ There(at0)
  BY <1>6, Zenon
<1>8. Lane!At(i, j) = at0
  BY DEF Lane!At, There
<1>9. Lane!Where[<<i, j>>] = Lane!At(i, j)
  <2>1. \A ij \in Lane!Eight \X Lane!Eight : Lane!Where[ij] = Lane!At(ij[1], ij[2])
    BY Zenon DEF Lane!Where
  <2>2. <<i, j>> \in Lane!Eight \X Lane!Eight
    OBVIOUS
  <2> QED BY <2>1, <2>2, Zenon
<1> HIDE DEF at0
<1> QED BY <1>7, <1>8, <1>9, Zenon DEF There

-----------------------------------------------------------------------------
(* What a simdgroup has multiplied so far. *)

LaneTypes ==
  /\ head \in {"dense", "quant"}
  /\ d \in Nat \ {0} /\ tcols \in 1..32 /\ rows \in 1..8
  /\ step \in {"logits", "sum8", "sum1", "store", "gradient", "done"}
  /\ d0 \in Nat /\ d0 % 8 = 0

\* The products of one logit whose hidden columns are below m.
Product(k) == <<k - (k % 8), k % 8, k, k, k \div Group>>
ProductsBelow(m) == {Product(k) : k \in 0..(m - 1)}

AccInv ==
  acc = [ij \in Lane!Eight \X Lane!Eight |->
          ProductsBelow(IF step = "logits" THEN Lane!Lower(d0, d) ELSE d)]

\* The registers hold the scales of the step before.
HoistInv == step = "logits" /\ head = "quant" /\ 0 < d0 /\ d0 <= Lane!Full =>
              hoisted = (d0 - 8) \div Group

\* What a lane has of the tile's columns before, between and after the shuffles.
SumsInv ==
  /\ step = "sum8" => sums = [l \in Lane!Lanes |-> [c \in 0..31 |->
        IF c < tcols /\ Lane!Fn(l) = (c % 8) - (c % 2) THEN 1 ELSE 0]]
  /\ step = "sum1" => sums = [l \in Lane!Lanes |-> [c \in 0..31 |->
        IF c < tcols /\ 2 * Lane!Bit(l, 1) = (c % 4) - (c % 2) THEN 1 ELSE 0]]
  /\ step = "store" => sums = [l \in Lane!Lanes |-> [c \in 0..31 |->
        IF c < tcols THEN 1 ELSE 0]]

\* d_hidden of one row and column: every column of the tile.
TileProducts == {<<c \div 8, c % 8, c, c>> : c \in 0..(tcols - 1)}

GradientInv ==
  /\ dh = [i \in Lane!Eight |-> [k \in 0..(d - 1) |->
             IF step \in {"gradient", "done"} /\ head = "dense" /\ i < rows /\ k < d0
             THEN TileProducts ELSE {}]]
  /\ step = "done" /\ head = "dense" => d0 >= d

LaneInv ==
  LaneTypes /\ AccInv /\ HoistInv /\ SumsInv /\ Lane!RowSumComplete /\ GradientInv

LEMMA EightsApart ==
  ASSUME NEW a \in Nat, NEW b \in Nat, a % 8 = 0, b % 8 = 0, a < b
  PROVE  a + 8 <= b
  OBVIOUS

\* A place within the eight columns of a step, and the column at it.
LEMMA ColumnOfStep ==
  ASSUME NEW a \in Nat, a % 8 = 0, NEW p \in 0..7
  PROVE  (a + p) - ((a + p) % 8) = a /\ (a + p) % 8 = p
  OBVIOUS

LEMMA QuotientBounds ==
  ASSUME NEW y \in Nat, NEW g \in Nat \ {0}
  PROVE  y \div g \in Nat /\ (y \div g) * g <= y /\ y < (y \div g) * g + g
  OBVIOUS

LEMMA QuotientIs ==
  ASSUME NEW q \in Nat, NEW g \in Nat \ {0}, NEW x \in 0..(g - 1)
  PROVE  (q * g + x) \div g = q
<1> DEFINE y == q * g + x  z == y \div g
<1>1. y \in Nat /\ q * g \in Nat
  OBVIOUS
<1>2. z \in Nat /\ z * g <= y /\ y < z * g + g
  <2> HIDE DEF y
  <2> QED BY <1>1, QuotientBounds
<1> HIDE DEF z
<1>3. ~(z < q)
  <2> SUFFICES ASSUME z < q PROVE FALSE
    OBVIOUS
  <2>1. PICK f \in Nat : q = z + 1 + f
    BY <1>2
  <2>2. q * g = z * g + g + f * g /\ f * g \in Nat /\ z * g \in Nat
    BY <1>2, <2>1
  <2> QED BY <1>2, <2>2
<1>4. ~(q < z)
  <2> SUFFICES ASSUME q < z PROVE FALSE
    OBVIOUS
  <2>1. PICK f \in Nat : z = q + 1 + f
    BY <1>2
  <2>2. z * g = q * g + g + f * g /\ f * g \in Nat /\ q * g \in Nat
    BY <2>1
  <2> QED BY <1>2, <2>2
<1> QED BY <1>2, <1>3, <1>4 DEF z

\* The scale groups are whole fragments.
LEMMA GroupOfStep ==
  ASSUME NEW a \in Nat, a % 8 = 0, NEW p \in 0..7
  PROVE  /\ (a + p) \div Group = a \div Group
         /\ a > 0 /\ a % Group # 0 => a >= 8 /\ (a - 8) \div Group = a \div Group
<1> DEFINE q == a \div Group  r == a % Group  g == Group \div 8  e == a \div 8
<1>1. Group \in Nat \ {0} /\ Group = 8 * g /\ g \in Nat \ {0}
  BY LaneAssumption
<1>2. a = q * Group + r /\ q \in Nat /\ r \in 0..(Group - 1) /\ a = 8 * e /\ e \in Nat
  BY <1>1
<1> DEFINE qg == q * g
<1>3. qg \in Nat /\ q * Group = 8 * qg
  <2> HIDE DEF q, g
  <2> QED BY <1>1, <1>2
<1> HIDE DEF q, r, g, e, qg
<1>4. r = 8 * (e - qg)
  BY <1>2, <1>3
<1>5. r + 8 <= Group
  BY <1>1, <1>2, <1>3, <1>4
<1>6. a + p = q * Group + (r + p) /\ r + p \in 0..(Group - 1) /\ q * Group \in Nat
  BY <1>1, <1>2, <1>3, <1>5
<1>7. (a + p) \div Group = q
  BY <1>1, <1>2, <1>6, QuotientIs
<1>8. ASSUME a > 0, a % Group # 0 PROVE a >= 8 /\ (a - 8) \div Group = q
  <2>1. r # 0 /\ r >= 8 /\ a >= 8
    <3>1. r # 0
      BY <1>8 DEF r
    <3>2. r >= 8
      BY <1>2, <1>3, <1>4, <3>1
    <3> QED BY <1>2, <1>6, <3>1, <3>2
  <2>2. a - 8 = q * Group + (r - 8) /\ r - 8 \in 0..(Group - 1)
    BY <1>1, <1>2, <1>6, <2>1
  <2> QED BY <1>1, <1>2, <2>1, <2>2, QuotientIs
<1> QED BY <1>7, <1>8 DEF q

\* The columns of a step, literal zeros past the width; a column has its own scale.
LEMMA ReadsOfStep ==
  ASSUME LaneTypes, d0 < d, NEW held, head = "quant" /\ d0 < Lane!Full => held = d0 \div Group,
         NEW p \in 0..7
  PROVE  /\ d0 + p < d => /\ Lane!Read(d0 + p) = d0 + p
                          /\ Lane!ScaleOf(Lane!Read(d0 + p), held) = (d0 + p) \div Group
         /\ ~(d0 + p < d) => Lane!Read(d0 + p) = Lane!Zero
<1>1. d0 \in Nat /\ d \in Nat \ {0} /\ d0 % 8 = 0
  BY DEF LaneTypes
<1>2. Lane!Full \in Nat /\ Lane!Full % 8 = 0 /\ Lane!Full <= d
  BY <1>1 DEF Lane!Full
<1>3. d0 < Lane!Full => d0 + p < d
  BY <1>1, <1>2, EightsApart
<1>4. (d0 + p) \div Group = d0 \div Group
  BY <1>1, GroupOfStep
<1>5. d0 + p < d => Lane!Read(d0 + p) = d0 + p
  BY DEF Lane!Read, Lane!Guarded
<1>6. ~(d0 + p < d) => Lane!Read(d0 + p) = Lane!Zero
  BY <1>3 DEF Lane!Read, Lane!Guarded
<1>7. d0 + p < d => Lane!ScaleOf(Lane!Read(d0 + p), held) = (d0 + p) \div Group
  BY <1>4, <1>5 DEF Lane!ScaleOf
<1> QED BY <1>5, <1>6, <1>7

LEMMA ProductsOfStep ==
  ASSUME LaneTypes, d0 < d, NEW held, head = "quant" /\ d0 < Lane!Full => held = d0 \div Group,
         NEW i \in Lane!Eight, NEW j \in Lane!Eight
  PROVE  {x \in Lane!Products(i, j, held) : x[3] # Lane!Zero /\ x[4] # Lane!Zero}
           = {Product(d0 + p) : p \in {p \in 0..7 : d0 + p < d}}
<1> DEFINE R(p) == Lane!Read(d0 + p)
           Raw(p) == <<d0, p, R(p), R(p), Lane!ScaleOf(R(p), held)>>
<1>0. d0 \in Nat /\ d0 % 8 = 0 /\ d \in Nat /\ Lane!Eight = 0..7
  BY DEF LaneTypes, Lane!Eight
<1>1. Lane!Products(i, j, held) = {Raw(p) : p \in 0..7}
  <2>1. ASSUME NEW p \in Lane!Eight
        PROVE  /\ Lane!A(Lane!Where[<<i, p>>][1], Lane!Where[<<i, p>>][2]) = R(p)
               /\ Lane!B(Lane!Where[<<p, j>>][1], Lane!Where[<<p, j>>][2]) = R(p)
    <3> DEFINE w == Lane!Where[<<i, p>>]
    <3>0. Lane!Fm(Lane!Where[<<p, j>>][1]) = p
      BY Fragments, Zenon
    <3>1. w \in Lane!Lanes \X {0, 1} /\ Lane!Fn(w[1]) + w[2] = p
      BY Fragments, Zenon
    <3>2. Lane!A(w[1], w[2]) = R(p)
      <4> HIDE DEF w
      <4>1. w[1] \in Lane!Lanes /\ w[2] \in {0, 1}
        BY <3>1
      <4>2. Lane!Fn(w[1]) \in Int /\ w[2] \in Int
        BY <4>1, LaneBits
      <4>3. d0 + Lane!Fn(w[1]) + w[2] = d0 + p
        BY <1>0, <3>1, <4>2
      <4> QED BY <4>3, Zenon DEF Lane!A
    <3>3. Lane!B(Lane!Where[<<p, j>>][1], Lane!Where[<<p, j>>][2]) = R(p)
      BY <3>0, Zenon DEF Lane!B
    <3> QED BY <3>2, <3>3, Zenon
  <2> HIDE DEF R
  <2>2. \A p \in Lane!Eight :
          <<d0, p, Lane!A(Lane!Where[<<i, p>>][1], Lane!Where[<<i, p>>][2]),
            Lane!B(Lane!Where[<<p, j>>][1], Lane!Where[<<p, j>>][2]),
            Lane!ScaleOf(Lane!B(Lane!Where[<<p, j>>][1], Lane!Where[<<p, j>>][2]), held)>> = Raw(p)
    BY <2>1, Zenon
  <2> HIDE DEF Raw
  <2>3. Lane!Products(i, j, held) = {Raw(p) : p \in Lane!Eight}
    BY <2>2, Zenon DEF Lane!Products
  <2> QED BY <1>0, <2>3, Zenon
<1>2. ASSUME NEW p \in 0..7
      PROVE  /\ d0 + p < d => Raw(p) = Product(d0 + p)
             /\ (Raw(p)[3] # Lane!Zero /\ Raw(p)[4] # Lane!Zero) <=> d0 + p < d
  <2>1. /\ d0 + p < d => /\ R(p) = d0 + p
                         /\ Lane!ScaleOf(R(p), held) = (d0 + p) \div Group
        /\ ~(d0 + p < d) => R(p) = Lane!Zero
    BY ReadsOfStep
  <2>2. (d0 + p) - ((d0 + p) % 8) = d0 /\ (d0 + p) % 8 = p
    BY <1>0, ColumnOfStep
  <2>3. d0 + p # Lane!Zero
    BY <1>0 DEF Lane!Zero
  <2>4. Raw(p)[3] = R(p) /\ Raw(p)[4] = R(p)
    <3> HIDE DEF R
    <3> QED OBVIOUS
  <2>5. d0 + p < d => Raw(p) = Product(d0 + p)
    <3> HIDE DEF R
    <3> QED BY <2>1, <2>2, Zenon DEF Product
  <2> QED BY <2>1, <2>3, <2>4, <2>5, Zenon
<1> HIDE DEF Raw
<1> QED BY <1>1, <1>2, Zenon

LEMMA StepOfMultiply == ASSUME LaneInv, Lane!Multiply PROVE LaneInv'
<1> USE DEF Lane!Multiply
<1>0. /\ LaneTypes /\ AccInv /\ HoistInv /\ SumsInv /\ Lane!RowSumComplete /\ GradientInv
      /\ d0 \in Nat /\ d0 % 8 = 0 /\ d \in Nat \ {0}
  BY DEF LaneInv, LaneTypes
<1>1. LaneTypes'
  <2>1. d0' \in Nat /\ d0' % 8 = 0
    BY <1>0
  <2> QED BY <1>0, <2>1 DEF LaneTypes
<1>2. head = "quant" /\ d0 < Lane!Full => hoisted' = d0 \div Group
  <2> SUFFICES ASSUME head = "quant", d0 < Lane!Full PROVE hoisted' = d0 \div Group
    OBVIOUS
  <2>1. CASE d0 % Group = 0
    BY <2>1 DEF Lane!Due
  <2>2. CASE d0 % Group # 0
    <3>1. d0 > 0
      <4> SUFFICES ASSUME d0 = 0 PROVE FALSE
        BY <1>0
      <4>1. Group \in Nat \ {0}
        BY LaneAssumption
      <4> QED BY <2>2, <4>1
    <3>2. hoisted' = hoisted
      BY <2>2 DEF Lane!Due
    <3>3. hoisted = (d0 - 8) \div Group
      <4>1. d0 <= Lane!Full
        BY <1>0 DEF Lane!Full
      <4> QED BY <1>0, <3>1, <4>1 DEF HoistInv
    <3>4. (d0 - 8) \div Group = d0 \div Group
      <4>1. 0 \in 0..7
        OBVIOUS
      <4> QED BY <1>0, <2>2, <3>1, <4>1, GroupOfStep
    <3> QED BY <3>2, <3>3, <3>4
  <2> QED BY <2>1, <2>2
<1>3. HoistInv'
  <2>1. Lane!Full' = Lane!Full /\ Lane!Full \in Nat /\ (d0 + 8) - 8 = d0
    BY <1>0 DEF Lane!Full
  <2>2. d0 + 8 <= Lane!Full => d0 < Lane!Full
    BY <1>0, <2>1
  <2> QED BY <1>2, <2>1, <2>2 DEF HoistInv
<1>4. AccInv'
  <2> DEFINE m == Lane!Lower(d0, d)  mm == Lane!Lower(d0 + 8, d)
  <2>1. /\ m = d0 /\ mm \in Nat /\ d0 < mm
        /\ \A k \in Nat : k < mm <=> k < d /\ k < d0 + 8
    BY <1>0 DEF Lane!Lower
  <2>2. ProductsBelow(mm) = ProductsBelow(m)
          \cup {Product(d0 + p) : p \in {p \in 0..7 : d0 + p < d}}
    <3>1. ASSUME NEW k \in 0..(mm - 1)
          PROVE  k \in 0..(m - 1) \/ \E p \in {p \in 0..7 : d0 + p < d} : k = d0 + p
      <4>1. k \in Nat /\ k < d /\ k < d0 + 8
        BY <2>1, <3>1
      <4>2. CASE k < d0
        BY <1>0, <2>1, <4>1, <4>2
      <4>3. CASE d0 <= k
        <5>1. k - d0 \in {p \in 0..7 : d0 + p < d} /\ k = d0 + (k - d0)
          BY <1>0, <4>1, <4>3
        <5> QED BY <5>1, Zenon
      <4> QED BY <1>0, <4>1, <4>2, <4>3
    <3>2. ASSUME NEW k \in 0..(m - 1) PROVE k \in 0..(mm - 1)
      BY <1>0, <2>1
    <3>3. ASSUME NEW p \in {p \in 0..7 : d0 + p < d} PROVE d0 + p \in 0..(mm - 1)
      BY <1>0, <2>1
    <3> HIDE DEF m, mm
    <3> QED BY <3>1, <3>2, <3>3, ZenonT(60) DEF ProductsBelow
  <2>3. ASSUME NEW ij \in Lane!Eight \X Lane!Eight
        PROVE  acc'[ij] = ProductsBelow(mm)
    <3>1. acc[ij] = ProductsBelow(m)
      BY <1>0 DEF AccInv
    <3>2. acc'[ij] = acc[ij] \cup
            {x \in Lane!Products(ij[1], ij[2], hoisted') : x[3] # Lane!Zero /\ x[4] # Lane!Zero}
      BY Zenon
    <3>3. ij[1] \in Lane!Eight /\ ij[2] \in Lane!Eight
      OBVIOUS
    <3>4. {x \in Lane!Products(ij[1], ij[2], hoisted') : x[3] # Lane!Zero /\ x[4] # Lane!Zero}
            = {Product(d0 + p) : p \in {p \in 0..7 : d0 + p < d}}
      BY <1>0, <1>2, <3>3, ProductsOfStep, Zenon
    <3> HIDE DEF m, mm
    <3> QED BY <2>2, <3>1, <3>2, <3>4, Zenon
  <2>4. acc' = [ij \in Lane!Eight \X Lane!Eight |-> ProductsBelow(mm)]
    <3>1. acc' = [ij \in Lane!Eight \X Lane!Eight |-> acc'[ij]]
      BY Zenon
    <3> HIDE DEF mm
    <3> QED BY <2>3, <3>1, Zenon
  <2>5. Lane!Lower(d0, d)' = mm
    BY DEF Lane!Lower
  <2> HIDE DEF mm
  <2>6. step' = "logits"
    OBVIOUS
  <2> QED BY <2>4, <2>5, <2>6 DEF AccInv, ProductsBelow, Product
<1>5. SumsInv' /\ Lane!RowSumComplete' /\ GradientInv'
  BY <1>0 DEF SumsInv, Lane!RowSumComplete, GradientInv
<1> QED BY <1>1, <1>3, <1>4, <1>5 DEF LaneInv

LEMMA ColumnBits ==
  ASSUME NEW c \in 0..31
  PROVE  \E x \in {0, 1}, y \in {0, 1} : (c % 8) - (c % 2) = 4 * x + 2 * y /\ (c % 4) - (c % 2) = 2 * y
<1> DEFINE x == (c \div 4) % 2  y == (c \div 2) % 2
<1>1. x \in {0, 1} /\ y \in {0, 1}
  OBVIOUS
<1>2. (c % 8) - (c % 2) = 4 * x + 2 * y /\ (c % 4) - (c % 2) = 2 * y
  OBVIOUS
<1> HIDE DEF x, y
<1> QED BY <1>1, <1>2

\* A lane's pairs are two neighbours in every eight columns.
LEMMA HeldColumns ==
  ASSUME NEW l \in Lane!Lanes, NEW c \in 0..31
  PROVE  c \in Lane!Held(l) <=> Lane!Fn(l) = (c % 8) - (c % 2)
<1> DEFINE f == Lane!Fn(l)
<1>1. f \in {0, 2, 4, 6}
  BY LaneBits
<1>2. c \in Lane!Held(l) <=> \E ct \in 0..3, e \in {0, 1} : c = 8 * ct + f + e
  BY DEF Lane!Held
<1> HIDE DEF f
<1>3. ASSUME NEW ct \in 0..3, NEW e \in {0, 1}, c = 8 * ct + f + e
      PROVE  f = (c % 8) - (c % 2)
  BY <1>1, <1>3
<1>4. ASSUME f = (c % 8) - (c % 2) PROVE \E ct \in 0..3, e \in {0, 1} : c = 8 * ct + f + e
  <2>1. c \div 8 \in 0..3 /\ c % 2 \in {0, 1} /\ c = 8 * (c \div 8) + f + (c % 2)
    BY <1>4
  <2> QED BY <2>1
<1> QED BY <1>2, <1>3, <1>4 DEF f

LEMMA StepOfLaneSum == ASSUME LaneInv, Lane!LaneSum PROVE LaneInv'
<1> USE DEF Lane!LaneSum
<1>0. /\ LaneTypes /\ AccInv /\ HoistInv /\ Lane!RowSumComplete /\ GradientInv
      /\ d0 \in Nat /\ d \in Nat
  BY DEF LaneInv, LaneTypes
<1>1. LaneTypes' /\ HoistInv' /\ Lane!RowSumComplete' /\ GradientInv'
  BY <1>0 DEF LaneTypes, HoistInv, Lane!RowSumComplete, GradientInv
<1>2. AccInv'
  <2>1. Lane!Lower(d0, d) = d
    BY <1>0 DEF Lane!Lower
  <2> QED BY <1>0, <2>1 DEF AccInv, ProductsBelow
<1>3. SumsInv'
  <2>1. ASSUME NEW l \in Lane!Lanes, NEW c \in 0..31
        PROVE  (c \in Lane!Kept(l)) <=> (c < tcols /\ Lane!Fn(l) = (c % 8) - (c % 2))
    BY HeldColumns, Zenon DEF Lane!Kept
  <2>2. step' = "sum8" /\ tcols' = tcols
    OBVIOUS
  <2>3. sums' = [l \in Lane!Lanes |-> [c \in 0..31 |->
                  IF c < tcols /\ Lane!Fn(l) = (c % 8) - (c % 2) THEN 1 ELSE 0]]
    BY <2>1, Zenon
  <2> QED BY <2>2, <2>3 DEF SumsInv
<1> QED BY <1>1, <1>2, <1>3 DEF LaneInv

LEMMA StepOfShuffle8 == ASSUME LaneInv, Lane!Shuffle8 PROVE LaneInv'
<1> USE DEF Lane!Shuffle8
<1>0. /\ LaneTypes /\ AccInv /\ Lane!RowSumComplete /\ GradientInv /\ SumsInv
      /\ tcols \in Nat
  BY DEF LaneInv, LaneTypes
<1>1. LaneTypes' /\ HoistInv' /\ Lane!RowSumComplete' /\ GradientInv' /\ AccInv'
  BY <1>0 DEF LaneTypes, HoistInv, Lane!RowSumComplete, GradientInv, AccInv, ProductsBelow
<1>2. ASSUME NEW l \in Lane!Lanes, NEW c \in 0..31
      PROVE  sums[l][c] + sums[Lane!Partner(l, 8)][c]
               = IF c < tcols /\ 2 * Lane!Bit(l, 1) = (c % 4) - (c % 2) THEN 1 ELSE 0
  <2> DEFINE k == Lane!Flip(l, 8)  bl == Lane!Bit(l, 8)  sl == Lane!Bit(l, 1)
  <2>1. /\ k \in Lane!Lanes /\ bl \in {0, 1} /\ sl \in {0, 1}
        /\ Lane!Bit(k, 8) = 1 - bl /\ Lane!Bit(k, 1) = sl
    BY LaneBits
  <2>2. Lane!Fn(l) = 4 * bl + 2 * sl /\ Lane!Fn(k) = 4 * (1 - bl) + 2 * sl
    BY <2>1 DEF Lane!Fn
  <2>3. /\ sums[l][c] = IF c < tcols /\ Lane!Fn(l) = (c % 8) - (c % 2) THEN 1 ELSE 0
        /\ sums[k][c] = IF c < tcols /\ Lane!Fn(k) = (c % 8) - (c % 2) THEN 1 ELSE 0
    BY <1>0, <2>1 DEF SumsInv
  <2>4. PICK x \in {0, 1}, y \in {0, 1} :
          (c % 8) - (c % 2) = 4 * x + 2 * y /\ (c % 4) - (c % 2) = 2 * y
    BY ColumnBits
  <2>5. Lane!Partner(l, 8) = k
    BY DEF Lane!Partner
  <2> HIDE DEF k, bl
  <2>6. /\ sums[l][c] = IF c < tcols /\ 4 * bl + 2 * sl = 4 * x + 2 * y THEN 1 ELSE 0
        /\ sums[k][c] = IF c < tcols /\ 4 * (1 - bl) + 2 * sl = 4 * x + 2 * y THEN 1 ELSE 0
    BY <2>2, <2>3, <2>4
  <2>7. 2 * sl = (c % 4) - (c % 2) <=> sl = y
    <3> HIDE DEF sl
    <3> QED BY <2>1, <2>4
  <2> HIDE DEF sl
  <2>8. sums[l][c] + sums[k][c] = IF c < tcols /\ sl = y THEN 1 ELSE 0
    BY <1>0, <2>1, <2>4, <2>6
  <2> QED BY <2>5, <2>7, <2>8, Zenon DEF sl
<1>3. SumsInv'
  <2>1. step' = "sum1" /\ tcols' = tcols
    OBVIOUS
  <2>2. sums' = [l \in Lane!Lanes |-> [c \in 0..31 |->
                  IF c < tcols /\ 2 * Lane!Bit(l, 1) = (c % 4) - (c % 2) THEN 1 ELSE 0]]
    BY <1>2, Zenon DEF Lane!Shuffle
  <2> QED BY <2>1, <2>2 DEF SumsInv
<1> QED BY <1>1, <1>3 DEF LaneInv

LEMMA StepOfShuffle1 == ASSUME LaneInv, Lane!Shuffle1 PROVE LaneInv'
<1> USE DEF Lane!Shuffle1
<1>0. /\ LaneTypes /\ AccInv /\ Lane!RowSumComplete /\ GradientInv /\ SumsInv
      /\ tcols \in Nat
  BY DEF LaneInv, LaneTypes
<1>1. LaneTypes' /\ HoistInv' /\ Lane!RowSumComplete' /\ GradientInv' /\ AccInv'
  BY <1>0 DEF LaneTypes, HoistInv, Lane!RowSumComplete, GradientInv, AccInv, ProductsBelow
<1>2. ASSUME NEW l \in Lane!Lanes, NEW c \in 0..31
      PROVE  sums[l][c] + sums[Lane!Partner(l, 1)][c] = IF c < tcols THEN 1 ELSE 0
  <2> DEFINE k == Lane!Flip(l, 1)  sl == Lane!Bit(l, 1)
  <2>1. k \in Lane!Lanes /\ sl \in {0, 1} /\ Lane!Bit(k, 1) = 1 - sl
    BY LaneBits
  <2>2. /\ sums[l][c] = IF c < tcols /\ 2 * sl = (c % 4) - (c % 2) THEN 1 ELSE 0
        /\ sums[k][c] = IF c < tcols /\ 2 * Lane!Bit(k, 1) = (c % 4) - (c % 2) THEN 1 ELSE 0
    <3>1. sums = [x \in Lane!Lanes |-> [y \in 0..31 |->
            IF y < tcols /\ 2 * Lane!Bit(x, 1) = (y % 4) - (y % 2) THEN 1 ELSE 0]]
      BY <1>0 DEF SumsInv
    <3> QED BY <2>1, <3>1, Zenon
  <2>3. PICK y \in {0, 1} : (c % 4) - (c % 2) = 2 * y
    BY ColumnBits
  <2>4. Lane!Partner(l, 1) = k
    BY DEF Lane!Partner
  <2> HIDE DEF k, sl
  <2>5. sums[l][c] + sums[k][c] = IF c < tcols THEN 1 ELSE 0
    BY <1>0, <2>1, <2>2, <2>3
  <2> QED BY <2>4, <2>5
<1>3. SumsInv'
  <2>1. step' = "store" /\ tcols' = tcols
    OBVIOUS
  <2>2. sums' = [l \in Lane!Lanes |-> [c \in 0..31 |-> IF c < tcols THEN 1 ELSE 0]]
    BY <1>2, Zenon DEF Lane!Shuffle
  <2> QED BY <2>1, <2>2 DEF SumsInv
<1> QED BY <1>1, <1>3 DEF LaneInv

LEMMA StepOfStore == ASSUME LaneInv, Lane!Store PROVE LaneInv'
<1> USE DEF Lane!Store
<1>0. LaneTypes /\ AccInv /\ GradientInv /\ SumsInv
  BY DEF LaneInv
<1>1. LaneTypes' /\ HoistInv' /\ AccInv' /\ SumsInv'
  BY <1>0 DEF LaneTypes, HoistInv, AccInv, SumsInv, ProductsBelow
<1>2. GradientInv'
  <2>1. \A k \in 0..(d - 1) : ~(k < 0)
    BY <1>0 DEF LaneTypes
  <2> QED BY <1>0, <2>1 DEF GradientInv, TileProducts
<1>3. ASSUME NEW i \in Lane!Eight
      PROVE  stored'[i] = IF i < rows THEN [c \in 0..31 |-> IF c < tcols THEN 1 ELSE 0]
                          ELSE Lane!Unset
  <2> DEFINE l == Lane!At(i, 0)[1]
  <2>1. l \in Lane!Lanes
    <3>1. 0 \in Lane!Eight
      BY DEF Lane!Eight
    <3>2. Lane!At(i, 0) \in Lane!Lanes \X {0, 1}
      BY <3>1, Fragments, Zenon
    <3> QED BY <3>2
  <2>2. stored'[i] = IF i < rows THEN sums[l] ELSE Lane!Unset
    BY Zenon
  <2> HIDE DEF l
  <2>3. sums[l] = [c \in 0..31 |-> IF c < tcols THEN 1 ELSE 0]
    BY <1>0, <2>1 DEF SumsInv
  <2> QED BY <2>2, <2>3, Zenon
<1>4. Lane!RowSumComplete'
  <2>1. rows' = rows /\ tcols' = tcols
    OBVIOUS
  <2> QED BY <1>3, <2>1 DEF Lane!RowSumComplete, Lane!Unset
<1> QED BY <1>1, <1>2, <1>4 DEF LaneInv

\* One element of d_hidden in one slice: every column of the tile, the coefficient
\* and the head's row of the same column.
LEMMA TileOnce ==
  ASSUME LaneTypes, NEW i \in Lane!Eight, NEW q \in Lane!Eight
  PROVE  Lane!Terms(i, q) = TileProducts
<1> DEFINE C(ct, p) == IF 8 * ct + p < tcols THEN 8 * ct + p ELSE Lane!Zero
           W(ct, p) == Lane!Lower(8 * ct + p, tcols - 1)
           Raw(ct, p) == <<ct, p, C(ct, p), W(ct, p)>>
<1>0. tcols \in 1..32 /\ Lane!Eight = 0..7
  BY DEF LaneTypes, Lane!Eight
<1>1. ASSUME NEW ct \in 0..3, NEW p \in Lane!Eight
      PROVE  /\ Lane!Coefficient(ct, Lane!Where[<<i, p>>][1], Lane!Where[<<i, p>>][2]) = C(ct, p)
             /\ Lane!Weight(ct, Lane!Where[<<p, q>>][1]) = W(ct, p)
  <2> DEFINE w == Lane!Where[<<i, p>>]
  <2>1. Lane!Fm(Lane!Where[<<p, q>>][1]) = p
    BY Fragments, Zenon
  <2>2. w \in Lane!Lanes \X {0, 1} /\ Lane!Fn(w[1]) + w[2] = p
    BY Fragments, Zenon
  <2>3. Lane!Coefficient(ct, w[1], w[2]) = C(ct, p)
    <3> HIDE DEF w
    <3>1. w[1] \in Lane!Lanes /\ w[2] \in {0, 1}
      BY <2>2
    <3>2. Lane!Fn(w[1]) \in Int /\ w[2] \in Int
      BY <3>1, LaneBits
    <3>3. 8 * ct + Lane!Fn(w[1]) + w[2] = 8 * ct + p
      BY <2>2, <3>2
    <3> QED BY <3>3, Zenon DEF Lane!Coefficient
  <2>4. Lane!Weight(ct, Lane!Where[<<p, q>>][1]) = W(ct, p)
    BY <2>1, Zenon DEF Lane!Weight
  <2> QED BY <2>3, <2>4, Zenon
<1>2. ASSUME NEW ct \in 0..3, NEW p \in Lane!Eight, Raw(ct, p)[3] # Lane!Zero
      PROVE  \E c \in 0..(tcols - 1) : Raw(ct, p) = <<c \div 8, c % 8, c, c>>
  <2>1. p \in 0..7 /\ Raw(ct, p)[3] = C(ct, p)
    BY <1>0
  <2>2. 8 * ct + p < tcols
    BY <1>2, <2>1
  <2>3. 8 * ct + p \in 0..(tcols - 1) /\ C(ct, p) = 8 * ct + p
    BY <1>0, <2>1, <2>2
  <2>4. W(ct, p) = 8 * ct + p
    BY <1>0, <2>1, <2>2 DEF Lane!Lower
  <2>5. (8 * ct + p) \div 8 = ct /\ (8 * ct + p) % 8 = p
    BY <2>1
  <2> HIDE DEF C, W
  <2> QED BY <2>3, <2>4, <2>5
<1>3. ASSUME NEW c \in 0..(tcols - 1)
      PROVE  \E ct \in 0..3, p \in Lane!Eight :
               Raw(ct, p) = <<c \div 8, c % 8, c, c>> /\ Raw(ct, p)[3] # Lane!Zero
  <2> DEFINE ct == c \div 8  p == c % 8
  <2>1. c \in 0..31 /\ c < tcols
    BY <1>0
  <2>2. ct \in 0..3 /\ p \in 0..7 /\ 8 * ct + p = c
    BY <2>1
  <2> HIDE DEF ct, p
  <2>3. C(ct, p) = c /\ W(ct, p) = c /\ c # Lane!Zero
    BY <1>0, <2>1, <2>2 DEF Lane!Lower, Lane!Zero
  <2>4. Raw(ct, p) = <<ct, p, c, c>> /\ Raw(ct, p)[3] # Lane!Zero
    <3> HIDE DEF C, W
    <3> QED BY <2>3
  <2> HIDE DEF Raw
  <2> QED BY <1>0, <2>2, <2>4 DEF ct, p
<1> HIDE DEF C, W
<1>4. ASSUME NEW x
      PROVE  x \in Lane!Terms(i, q) <=>
               \E ct \in 0..3 : \E p \in Lane!Eight : x = Raw(ct, p) /\ x[3] # Lane!Zero
  <2>1. x \in Lane!Terms(i, q) <=>
          \E ct \in 0..3, p \in Lane!Eight :
            /\ x = <<ct, p, Lane!Coefficient(ct, Lane!Where[<<i, p>>][1], Lane!Where[<<i, p>>][2]),
                     Lane!Weight(ct, Lane!Where[<<p, q>>][1])>>
            /\ x[3] # Lane!Zero
    <3> DEFINE Q(ct, p) ==
          <<ct, p, Lane!Coefficient(ct, Lane!Where[<<i, p>>][1], Lane!Where[<<i, p>>][2]),
            Lane!Weight(ct, Lane!Where[<<p, q>>][1])>>
    <3>1. Lane!Terms(i, q) =
            {y \in {Q(ct, p) : ct \in 0..3, p \in Lane!Eight} : y[3] # Lane!Zero}
      BY DEF Lane!Terms
    <3>2. x \in Lane!Terms(i, q) <=>
            \E ct \in 0..3, p \in Lane!Eight : x = Q(ct, p) /\ x[3] # Lane!Zero
      <4> HIDE DEF Q
      <4> QED BY <3>1
    <3> QED BY <3>2, Zenon
  <2>2. \A ct \in 0..3, p \in Lane!Eight :
          <<ct, p, Lane!Coefficient(ct, Lane!Where[<<i, p>>][1], Lane!Where[<<i, p>>][2]),
            Lane!Weight(ct, Lane!Where[<<p, q>>][1])>> = Raw(ct, p)
    BY <1>1, Zenon
  <2> HIDE DEF Raw
  <2> QED BY <2>1, <2>2, Zenon
<1> HIDE DEF Raw
<1>5. ASSUME NEW x
      PROVE  x \in TileProducts <=>
               \E ct \in 0..3 : \E p \in Lane!Eight : x = Raw(ct, p) /\ x[3] # Lane!Zero
  BY <1>2, <1>3, SMTT(30) DEF TileProducts
<1> QED BY <1>4, <1>5, Zenon

LEMMA SliceColumn ==
  ASSUME NEW a \in Nat, NEW k \in a..(a + 7)
  PROVE  k - a \in 0..7
  OBVIOUS

LEMMA StepOfSlice == ASSUME LaneInv, Lane!Slice PROVE LaneInv'
<1> USE DEF Lane!Slice
<1>0. /\ LaneTypes /\ AccInv /\ GradientInv /\ SumsInv /\ Lane!RowSumComplete
      /\ d0 \in Nat /\ d0 % 8 = 0 /\ d \in Nat /\ rows \in Nat
  BY DEF LaneInv, LaneTypes
<1>1. LaneTypes' /\ HoistInv' /\ AccInv' /\ SumsInv' /\ Lane!RowSumComplete'
  <2>1. d0' \in Nat /\ d0' % 8 = 0
    BY <1>0
  <2> QED BY <1>0, <2>1 DEF LaneTypes, HoistInv, AccInv, SumsInv, Lane!RowSumComplete, ProductsBelow
<1>2. ASSUME NEW i \in Lane!Eight, NEW k \in 0..(d - 1)
      PROVE  dh'[i][k] = IF i < rows /\ k < d0 + 8 THEN TileProducts ELSE {}
  <2> DEFINE new == Lane!Terms(i, k - d0)
  <2>1. dh'[i][k] = IF i >= rows \/ k \notin d0..(d0 + 7) THEN dh[i][k] ELSE dh[i][k] \cup new
    BY Zenon
  <2>2. k \in d0..(d0 + 7) => new = TileProducts
    <3>1. k \in d0..(d0 + 7) => k - d0 \in Lane!Eight
      BY <1>0, SliceColumn DEF Lane!Eight
    <3> QED BY <1>0, <3>1, TileOnce, Zenon
  <2> HIDE DEF new
  <2>3. dh[i][k] = IF i < rows /\ k < d0 THEN TileProducts ELSE {}
    BY <1>0 DEF GradientInv
  <2>4. i \in Nat /\ k \in Nat
    BY <1>0 DEF Lane!Eight
  <2>5. CASE i >= rows \/ k \notin d0..(d0 + 7)
    <3>1. (i < rows /\ k < d0 + 8) <=> (i < rows /\ k < d0)
      BY <1>0, <2>4, <2>5
    <3> QED BY <2>1, <2>3, <2>5, <3>1, Zenon
  <2>6. CASE ~(i >= rows \/ k \notin d0..(d0 + 7))
    <3>1. i < rows /\ k < d0 + 8 /\ ~(k < d0) /\ k \in d0..(d0 + 7)
      BY <1>0, <2>4, <2>6
    <3> QED BY <2>1, <2>2, <2>3, <2>6, <3>1, Zenon
  <2> QED BY <2>5, <2>6
<1>3. dh' = [i \in Lane!Eight |-> [k \in 0..(d - 1) |-> dh'[i][k]]]
  BY Zenon
<1>4. dh' = [i \in Lane!Eight |-> [k \in 0..(d - 1) |->
               IF i < rows /\ k < d0 + 8 THEN TileProducts ELSE {}]]
  BY <1>2, <1>3, ZenonT(60)
<1>5. GradientInv'
  <2>1. d' = d /\ rows' = rows /\ tcols' = tcols /\ step' = "gradient" /\ head' = "dense"
        /\ d0' = d0 + 8
    OBVIOUS
  <2>2. TileProducts' = TileProducts
    BY <2>1 DEF TileProducts
  <2>3. dh' = [i \in Lane!Eight |-> [k \in 0..(d' - 1) |->
                 IF i < rows' /\ k < d0' THEN TileProducts' ELSE {}]]
    <3> HIDE DEF Lane!Slice
    <3> QED BY <1>4, <2>1, <2>2
  <2> HIDE DEF Lane!Slice
  <2> QED BY <2>1, <2>3, SMT DEF GradientInv
<1> QED BY <1>1, <1>5 DEF LaneInv

LEMMA StepOfFinish == ASSUME LaneInv, Lane!Finish PROVE LaneInv'
<1> USE DEF Lane!Finish
<1>0. /\ LaneTypes /\ AccInv /\ GradientInv /\ SumsInv /\ Lane!RowSumComplete
  BY DEF LaneInv
<1>1. LaneTypes' /\ HoistInv' /\ AccInv' /\ SumsInv' /\ Lane!RowSumComplete'
  BY <1>0 DEF LaneTypes, HoistInv, AccInv, SumsInv, Lane!RowSumComplete, ProductsBelow
<1>2. GradientInv'
  BY <1>0 DEF LaneTypes, GradientInv, TileProducts
<1> QED BY <1>1, <1>2 DEF LaneInv

LEMMA LaneStays == ASSUME LaneInv, UNCHANGED mmaVars, UNCHANGED step PROVE LaneInv'
<1>0. /\ head' = head /\ d' = d /\ tcols' = tcols /\ rows' = rows /\ d0' = d0
      /\ hoisted' = hoisted /\ acc' = acc /\ sums' = sums /\ stored' = stored /\ dh' = dh
      /\ step' = step
  BY DEF mmaVars
<1>1. LaneTypes /\ AccInv /\ HoistInv /\ GradientInv /\ SumsInv /\ Lane!RowSumComplete
  BY DEF LaneInv
<1>2. LaneTypes' /\ HoistInv' /\ AccInv'
  BY <1>0, <1>1 DEF LaneTypes, HoistInv, AccInv, Lane!Lower, Lane!Full, ProductsBelow
<1>3. SumsInv'
  BY <1>0, <1>1 DEF SumsInv
<1>4. Lane!RowSumComplete'
  BY <1>0, <1>1 DEF Lane!RowSumComplete
<1>5. GradientInv'
  BY <1>0, <1>1 DEF GradientInv, TileProducts
<1> QED BY <1>2, <1>3, <1>4, <1>5 DEF LaneInv

LEMMA LaneInit == ASSUME Lane!Init PROVE LaneInv
<1> USE DEF Lane!Init
<1>1. LaneTypes
  BY LaneAssumption DEF LaneTypes
<1>2. AccInv
  <2>1. Lane!Lower(d0, d) = 0 /\ ProductsBelow(0) = {}
    BY <1>1 DEF LaneTypes, Lane!Lower, ProductsBelow
  <2> QED BY <2>1 DEF AccInv
<1>3. HoistInv /\ SumsInv /\ Lane!RowSumComplete
  BY DEF HoistInv, SumsInv, Lane!RowSumComplete
<1>4. GradientInv
  BY DEF GradientInv
<1> QED BY <1>1, <1>2, <1>3, <1>4 DEF LaneInv

LEMMA LaneStep == ASSUME LaneInv, Lane!Next PROVE LaneInv'
<1>1. CASE Lane!Multiply
  BY <1>1, StepOfMultiply
<1>2. CASE Lane!LaneSum
  BY <1>2, StepOfLaneSum
<1>3. CASE Lane!Shuffle8
  BY <1>3, StepOfShuffle8
<1>4. CASE Lane!Shuffle1
  BY <1>4, StepOfShuffle1
<1>5. CASE Lane!Store
  BY <1>5, StepOfStore
<1>6. CASE Lane!Slice
  BY <1>6, StepOfSlice
<1>7. CASE Lane!Finish
  BY <1>7, StepOfFinish
<1>8. CASE Lane!Done
  BY <1>8, LaneStays DEF Lane!Done, Lane!vars, mmaVars
<1> QED BY <1>1, <1>2, <1>3, <1>4, <1>5, <1>6, <1>7, <1>8 DEF Lane!Next

LEMMA SameCardinality ==
  ASSUME NEW S
  PROVE  Lane!Cardinality(S) = Cardinality(S)
  BY DEF Lane!Cardinality, Cardinality

\* Counting what is indexed by its own third component.
LEMMA CountByThird ==
  ASSUME NEW m, m \in Nat, NEW f, NEW S,
         f = [k \in 0..(m - 1) |-> f[k]],
         S = {f[k] : k \in 0..(m - 1)},
         \A k \in 0..(m - 1) : f[k][3] = k /\ f[k][4] = k
  PROVE  /\ Cardinality(S) = m
         /\ {<<x[3], x[4]>> : x \in S} = {<<k, k>> : k \in 0..(m - 1)}
<1> DEFINE D == 0..(m - 1)
<1>1. ExistsBijection(D, S)
  <2>1. f \in Bijection(D, S)
    BY DEF Bijection, Injection, Surjection, IsInjective
  <2> HIDE DEF D
  <2> QED BY <2>1 DEF ExistsBijection
<1>2. IsFiniteSet(D) /\ Cardinality(D) = m
  <2>1. 0 \in Int /\ m - 1 \in Int
    OBVIOUS
  <2>2. /\ IsFiniteSet(0..(m - 1))
        /\ Cardinality(0..(m - 1)) = IF 0 > m - 1 THEN 0 ELSE (m - 1) - 0 + 1
    BY <2>1, FS_Interval
  <2> QED BY <2>2
<1>3. Cardinality(S) = m
  BY <1>1, <1>2, FS_Bijection
<1>4. {<<x[3], x[4]>> : x \in S} = {<<k, k>> : k \in D}
  <2>1. \A x \in S : \E k \in D : x = f[k] /\ x[3] = k /\ x[4] = k
    OBVIOUS
  <2>2. \A k \in D : f[k] \in S /\ f[k][3] = k /\ f[k][4] = k
    OBVIOUS
  <2>3. ASSUME NEW y \in {<<x[3], x[4]>> : x \in S} PROVE y \in {<<k, k>> : k \in D}
    BY <2>1
  <2>4. ASSUME NEW k \in D PROVE <<k, k>> \in {<<x[3], x[4]>> : x \in S}
    <3>1. <<f[k][3], f[k][4]>> = <<k, k>> /\ f[k] \in S
      BY <2>2
    <3>2. <<f[k][3], f[k][4]>> \in {<<x[3], x[4]>> : x \in S}
      BY <3>1, Zenon
    <3> QED BY <3>1, <3>2, Zenon
  <2> HIDE DEF D
  <2> QED BY <2>3, <2>4, Zenon
<1> QED BY <1>3, <1>4

LEMMA LaneIsRight ==
  ASSUME LaneInv
  PROVE  /\ Lane!EveryProductOnce /\ Lane!ScaleOfItsGroup
         /\ Lane!RowSumComplete /\ Lane!GradientComplete
<1>0. /\ LaneTypes /\ AccInv /\ GradientInv /\ Lane!RowSumComplete
      /\ d \in Nat /\ tcols \in Nat /\ d0 \in Nat
  BY DEF LaneInv, LaneTypes
<1>1. Lane!EveryProductOnce
  <2> SUFFICES ASSUME step # "logits", NEW ij \in Lane!Eight \X Lane!Eight
               PROVE  /\ {<<x[3], x[4]>> : x \in acc[ij]} = {<<k, k>> : k \in 0..(d - 1)}
                      /\ Cardinality(acc[ij]) = d
    BY SameCardinality, Zenon DEF Lane!EveryProductOnce
  <2> DEFINE f == [k \in 0..(d - 1) |-> Product(k)]
  <2>1. acc[ij] = {Product(k) : k \in 0..(d - 1)}
    BY <1>0 DEF AccInv, ProductsBelow
  <2>2. /\ \A k \in 0..(d - 1) : f[k] = Product(k) /\ f[k][3] = k /\ f[k][4] = k
        /\ f = [k \in 0..(d - 1) |-> f[k]]
    BY DEF Product
  <2> HIDE DEF f
  <2>3. acc[ij] = {f[k] : k \in 0..(d - 1)}
    BY <2>1, <2>2
  <2>4. d \in Nat /\ f = [k \in 0..(d - 1) |-> f[k]]
        /\ \A k \in 0..(d - 1) : f[k][3] = k /\ f[k][4] = k
    BY <1>0, <2>2, Zenon
  <2> QED BY <2>3, <2>4, CountByThird, Zenon
<1>2. Lane!ScaleOfItsGroup
  <2> SUFFICES ASSUME NEW ij \in Lane!Eight \X Lane!Eight, NEW x \in acc[ij]
               PROVE  x[5] = x[4] \div Group
    BY Zenon DEF Lane!ScaleOfItsGroup
  <2> DEFINE m == IF step = "logits" THEN Lane!Lower(d0, d) ELSE d
  <2>1. acc[ij] = ProductsBelow(m)
    BY <1>0, Zenon DEF AccInv
  <2> HIDE DEF m
  <2>2. PICK k \in 0..(m - 1) : x = Product(k)
    BY <2>1, Zenon DEF ProductsBelow
  <2> QED BY <2>2 DEF Product
<1>3. Lane!GradientComplete
  <2> SUFFICES ASSUME step = "done", head = "dense", NEW i \in Lane!Eight, NEW k \in 0..(d - 1)
               PROVE  IF i < rows
                      THEN /\ {<<x[3], x[4]>> : x \in dh[i][k]} = {<<c, c>> : c \in 0..(tcols - 1)}
                           /\ Cardinality(dh[i][k]) = tcols
                      ELSE dh[i][k] = {}
    BY SameCardinality, Zenon DEF Lane!GradientComplete
  <2>1. k < d0
    BY <1>0 DEF GradientInv
  <2>2. dh[i][k] = IF i < rows THEN TileProducts ELSE {}
    BY <1>0, <2>1 DEF GradientInv
  <2> DEFINE f == [c \in 0..(tcols - 1) |-> <<c \div 8, c % 8, c, c>>]
  <2>3a. \A c \in 0..(tcols - 1) : f[c] = <<c \div 8, c % 8, c, c>>
    OBVIOUS
  <2>3. /\ \A c \in 0..(tcols - 1) : f[c][3] = c /\ f[c][4] = c
        /\ f = [c \in 0..(tcols - 1) |-> f[c]]
    OBVIOUS
  <2> HIDE DEF f
  <2>4. TileProducts = {f[c] : c \in 0..(tcols - 1)}
    BY <2>3a, Zenon DEF TileProducts
  <2>5. /\ {<<x[3], x[4]>> : x \in TileProducts} = {<<c, c>> : c \in 0..(tcols - 1)}
        /\ Cardinality(TileProducts) = tcols
    <3>1. tcols \in Nat
      BY <1>0, Zenon
    <3> QED BY <3>1, <2>3, <2>4, CountByThird, Zenon
  <2> QED BY <2>2, <2>5, Zenon
<1> QED BY <1>0, <1>1, <1>2, <1>3

-----------------------------------------------------------------------------
(* The calibration: how fast the machine is at the size of a probe. *)

LEMMA RateFacts ==
  /\ Bodies \subseteq Nat \ {0} /\ Speeds \subseteq Nat \ {0} /\ CallVocabs \subseteq Nat
  /\ Powers \subseteq Nat \ {0} /\ IsFiniteSet(Powers) /\ 1 \in Powers /\ Floor \in Powers
  /\ Floor \in Nat \ {0} /\ HardCap \in Nat /\ Floor <= HardCap
  /\ RateBudget \in Nat /\ MaxCalls \in Nat /\ MaxTotal \in Nat /\ FloorRate \in Nat
  BY RateAssumption DEF RateAssumption

LEMMA LargestOf ==
  ASSUME NEW S \in SUBSET Powers, S # {}
  PROVE  Rate!Max(S) \in S /\ \A p \in S : p <= Rate!Max(S)
<1>1. S \in SUBSET Nat /\ IsFiniteSet(S)
  BY RateFacts, FS_Subset
<1>2. \E m \in S : \A k \in S : m >= k
  BY <1>1, GreatestNumber
<1>3. Rate!Max(S) \in S /\ \A p \in S : Rate!Max(S) >= p
  BY <1>2, Zenon DEF Rate!Max
<1> QED BY <1>1, <1>3

Power(s) == Rate!Max({p \in Powers : p <= s})

LEMMA PowerBelow ==
  ASSUME NEW s \in Nat \ {0}
  PROVE  /\ Power(s) \in Powers /\ Power(s) <= s /\ Power(s) \in Nat \ {0}
         /\ \A p \in Powers : p <= s => p <= Power(s)
<1> DEFINE S == {p \in Powers : p <= s}
<1>1. 1 \in S
  BY RateFacts
<1>2. Rate!Max(S) \in S /\ \A p \in S : p <= Rate!Max(S)
  <2> HIDE DEF S
  <2>1. S \in SUBSET Powers
    BY DEF S
  <2> QED BY <1>1, <2>1, LargestOf
<1> QED BY <1>2, RateFacts DEF Power

LEMMA PowersClimb ==
  ASSUME NEW s \in Nat \ {0}, NEW t \in Nat \ {0}, s <= t
  PROVE  Power(s) <= Power(t)
<1>1. Power(s) \in Powers /\ Power(s) <= s /\ Power(s) \in Nat
  BY PowerBelow
<1>2. Power(s) <= t
  BY <1>1
<1> QED BY <1>1, <1>2, PowerBelow

LEMMA ProbedSizes ==
  ASSUME NEW s \in 1..HardCap
  PROVE  Power(s) \in Rate!Probed \ {0} /\ s \in Nat \ {0}
<1>1. s \in Nat \ {0} /\ s <= HardCap
  BY RateFacts
<1>2. Power(s) \in Powers /\ Power(s) <= s /\ Power(s) \in Nat \ {0}
  BY <1>1, PowerBelow
<1>3. Power(s) <= HardCap
  BY <1>1, <1>2, RateFacts
<1> QED BY <1>1, <1>2, <1>3 DEF Rate!Probed

LEMMA SpeedOfSize ==
  ASSUME NEW b, NEW s \in 1..HardCap
  PROVE  Rate!SpeedAt(b, s) = speed[b][Power(s)]
<1>1. s # 0
  BY RateFacts
<1> QED BY <1>1 DEF Rate!SpeedAt, Power

LEMMA SpeedOfShape ==
  ASSUME NEW b
  PROVE  Rate!SpeedAt(b, 0) = speed[b][0]
  BY DEF Rate!SpeedAt

LEMMA SpeedsAre ==
  ASSUME speed \in Rate!Machines, NEW b \in Bodies, NEW s \in 0..HardCap
  PROVE  Rate!SpeedAt(b, s) \in Nat \ {0}
<1>0. speed[b] \in [Rate!Probed -> Speeds]
  BY DEF Rate!Machines, Rate!Profiles
<1>1. CASE s = 0
  <2>1. 0 \in Rate!Probed
    BY DEF Rate!Probed
  <2>2. Rate!SpeedAt(b, 0) \in Speeds
    BY <1>0, <2>1, SpeedOfShape
  <2> QED BY <1>1, <2>2, RateFacts
<1>2. CASE s # 0
  <2>1. s \in 1..HardCap
    BY <1>2, RateFacts
  <2>2. Rate!SpeedAt(b, s) \in Speeds
    BY <1>0, <2>1, ProbedSizes, SpeedOfSize
  <2> QED BY <2>2, RateFacts
<1> QED BY <1>1, <1>2

\* A larger probe runs at half the speed of a smaller one at least.
LEMMA LargerAtHalf ==
  ASSUME speed \in Rate!Machines, NEW b \in Bodies,
         NEW s \in 1..HardCap, NEW t \in 1..HardCap, s <= t
  PROVE  Rate!SpeedAt(b, s) <= 2 * Rate!SpeedAt(b, t)
<1>1. /\ Power(s) \in Rate!Probed \ {0} /\ Power(t) \in Rate!Probed \ {0}
      /\ s \in Nat \ {0} /\ t \in Nat \ {0}
  BY ProbedSizes
<1>2. Power(s) <= Power(t) /\ Power(s) \in Nat /\ Power(t) \in Nat
  BY <1>1, PowersClimb, PowerBelow
<1>3. /\ Rate!SpeedAt(b, s) = speed[b][Power(s)] /\ Rate!SpeedAt(b, t) = speed[b][Power(t)]
      /\ Rate!SpeedAt(b, s) \in Nat /\ Rate!SpeedAt(b, t) \in Nat
  <2>1. s \in 0..HardCap /\ t \in 0..HardCap
    BY RateFacts
  <2> QED BY <2>1, SpeedOfSize, SpeedsAre
<1>4. CASE Power(s) = Power(t)
  BY <1>3, <1>4
<1>5. CASE Power(s) < Power(t)
  <2>1. \A p, q \in Rate!Probed \ {0} : p < q => 2 * speed[b][q] >= speed[b][p]
    BY DEF Rate!Machines, Rate!Profiles
  <2>2. 2 * speed[b][Power(t)] >= speed[b][Power(s)]
    BY <1>1, <1>5, <2>1
  <2> QED BY <1>3, <2>2
<1> QED BY <1>2, <1>4, <1>5

\* Attention: the production shape is no faster than a probe, and a tenth at least.
LEMMA ShapeAtATenth ==
  ASSUME speed \in Rate!Machines, Rate!Attention, NEW b \in Bodies, NEW s \in 1..HardCap
  PROVE  Rate!SpeedAt(b, 0) <= Rate!SpeedAt(b, s)
         /\ Rate!SpeedAt(b, s) <= 10 * Rate!SpeedAt(b, 0)
<1>1. Power(s) \in Rate!Probed \ {0}
  BY ProbedSizes
<1>2. \A q \in Rate!Probed \ {0} : speed[b][0] <= speed[b][q] /\ speed[b][q] <= 10 * speed[b][0]
  BY DEF Rate!Machines, Rate!Profiles
<1> QED BY <1>1, <1>2, SpeedOfSize, SpeedOfShape

\* Cross-entropy: another width, another tile: half at least.
LEMMA OthersAtHalf ==
  ASSUME speed \in Rate!Machines, ~Rate!Attention, NEW b \in Bodies, NEW c \in Bodies,
         NEW s \in 0..HardCap, NEW t \in 0..HardCap
  PROVE  Rate!SpeedAt(c, s) <= 2 * Rate!SpeedAt(b, t)
<1> DEFINE At(x) == IF x = 0 THEN 0 ELSE Power(x)
<1>1. ASSUME NEW x \in 0..HardCap
      PROVE  At(x) \in Rate!Probed /\ \A y : Rate!SpeedAt(y, x) = speed[y][At(x)]
  <2>1. CASE x = 0
    BY <2>1, SpeedOfShape DEF Rate!Probed
  <2>2. CASE x # 0
    <3>1. x \in 1..HardCap
      BY <2>2, RateFacts
    <3> QED BY <2>2, <3>1, ProbedSizes, SpeedOfSize
  <2> QED BY <2>1, <2>2
<1>2. \A x, y \in Rate!Probed : 2 * speed[b][y] >= speed[c][x]
  BY DEF Rate!Machines
<1>3. 2 * speed[b][At(t)] >= speed[c][At(s)]
  <2> HIDE DEF At
  <2> QED BY <1>1, <1>2
<1>4. Rate!SpeedAt(c, s) = speed[c][At(s)] /\ Rate!SpeedAt(b, t) = speed[b][At(t)]
  <2> HIDE DEF At
  <2> QED BY <1>1
<1>5. Rate!SpeedAt(c, s) \in Nat /\ Rate!SpeedAt(b, t) \in Nat
  BY SpeedsAre
<1> HIDE DEF At
<1> QED BY <1>3, <1>4, <1>5

-----------------------------------------------------------------------------
(* The sizes of the probes. *)

LEMMA CallsAre ==
  ASSUME part \in Rate!Kinds, NEW c \in Rate!Calls
  PROVE  /\ c.body \in Bodies /\ c.body \in Nat \ {0} /\ c.n \in Nat \ {0} /\ c.v \in Nat
         /\ ~Rate!Attention => c.v >= Floor
<1>1. c.body \in Bodies /\ c.n \in CallLengths[part]
      /\ c.v \in IF Rate!Attention THEN {0} ELSE CallVocabs
  BY DEF Rate!Calls
<1>2. CallLengths[part] \subseteq Nat \ {0} /\ \A v \in CallVocabs : v >= Floor
  BY RateAssumption DEF RateAssumption
<1>3. c.v \in Nat /\ (~Rate!Attention => c.v >= Floor)
  <2>1. CASE Rate!Attention
    BY <1>1, <2>1
  <2>2. CASE ~Rate!Attention
    BY <1>1, <1>2, <2>2, RateFacts
  <2> QED BY <2>1, <2>2
<1>4. c.body \in Bodies /\ c.body \in Nat \ {0} /\ c.n \in Nat \ {0}
  BY <1>1, <1>2, RateFacts
<1> QED BY <1>3, <1>4

LEMMA StartFits ==
  ASSUME part \in Rate!Kinds, NEW c \in Rate!Calls
  PROVE  /\ Rate!StartProbe(c) \in 1..HardCap
         /\ Rate!Attention => Rate!StartProbe(c) = Rate!Lower(Floor, c.n)
         /\ ~Rate!Attention => Rate!StartProbe(c) >= Floor
<1>0. c.n \in Nat \ {0} /\ c.v \in Nat /\ (~Rate!Attention => c.v >= Floor)
  BY CallsAre
<1>1. CASE Rate!Attention
  <2>1. Rate!StartProbe(c) = Rate!Lower(Floor, c.n)
    BY <1>1 DEF Rate!StartProbe
  <2> QED BY <1>0, <1>1, <2>1, RateFacts DEF Rate!Lower
<1>2. CASE ~Rate!Attention
  <2> DEFINE S == {Floor} \cup {p \in Powers :
                      p <= HardCap /\ 2 * c.n * p * c.body <= FloorRate * RateBudget}
             m == Rate!Max(S)
  <2>1. Rate!StartProbe(c) = Rate!Lower(c.v, m)
    BY <1>2 DEF Rate!StartProbe
  <2>2. S \in SUBSET Powers /\ Floor \in S /\ \A p \in S : p <= HardCap
    BY RateFacts
  <2>3. m \in S /\ \A p \in S : p <= m
    <3> HIDE DEF S
    <3> QED BY <2>2, LargestOf
  <2>4. m \in Nat /\ m <= HardCap /\ Floor <= m
    <3> HIDE DEF S, m
    <3> QED BY <2>2, <2>3, RateFacts
  <2> HIDE DEF S, m
  <2> QED BY <1>0, <1>2, <2>1, <2>4, RateFacts DEF Rate!Lower
<1> QED BY <1>1, <1>2

\* A probe only grows to a size that fits at the rate measured last.
LEMMA GrowsToFit ==
  ASSUME part \in Rate!Kinds, NEW c \in Rate!Calls, NEW raw,
         NEW s \in Nat, Rate!StartProbe(c) <= s, Rate!NextProbe(c, raw) > s
  PROVE  /\ Rate!NextProbe(c, raw) \in 1..HardCap
         /\ Rate!Fits(c, Rate!NextProbe(c, raw), raw)
<1> DEFINE next == Rate!NextProbe(c, raw)
<1>0. /\ c.n \in Nat \ {0} /\ c.v \in Nat
      /\ Rate!StartProbe(c) \in 1..HardCap
      /\ Rate!Attention => Rate!StartProbe(c) = Rate!Lower(Floor, c.n)
      /\ ~Rate!Attention => Rate!StartProbe(c) >= Floor
  BY CallsAre, StartFits
<1>1. Rate!Largest(c) \in Nat /\ Rate!Largest(c) <= HardCap
  BY <1>0, RateFacts DEF Rate!Largest, Rate!Lower
<1>2. ~(Rate!Attention /\ Rate!Largest(c) <= Floor)
  <2> SUFFICES ASSUME Rate!Attention, Rate!Largest(c) <= Floor PROVE FALSE
    OBVIOUS
  <2>1. Rate!NextProbe(c, raw) = Rate!Largest(c)
    BY Zenon DEF Rate!NextProbe
  <2>2. Rate!Largest(c) = Rate!Lower(c.n, HardCap)
    BY DEF Rate!Largest
  <2> QED BY <1>0, <1>1, <2>1, <2>2, RateFacts DEF Rate!Lower
<1>3. Floor <= Rate!StartProbe(c)
  <2>1. CASE ~Rate!Attention
    BY <1>0, <2>1
  <2>2. CASE Rate!Attention
    <3>1. Floor < Rate!Lower(c.n, HardCap)
      BY <1>1, <1>2, <2>2, RateFacts DEF Rate!Largest
    <3> QED BY <1>0, <2>2, <3>1, RateFacts DEF Rate!Lower
  <2> QED BY <2>1, <2>2
<1> DEFINE S == {p \in Powers : p = Floor
                  \/ (p > Floor /\ p <= Rate!Largest(c) /\ Rate!Fits(c, p, raw))}
<1>4. next = Rate!Max(S)
  BY <1>2, Zenon DEF Rate!NextProbe
<1>5. S \in SUBSET Powers /\ Floor \in S
  BY RateFacts
<1>6. next \in S
  <2> HIDE DEF S, next
  <2> QED BY <1>4, <1>5, LargestOf
<1>7. next \in Powers /\ (next = Floor \/ (next > Floor /\ next <= Rate!Largest(c) /\ Rate!Fits(c, next, raw)))
  <2> HIDE DEF next
  <2> QED BY <1>6
<1> HIDE DEF S
<1>8. next \in Nat \ {0} /\ next > Floor
  <2>1. next \in Nat \ {0}
    <3> HIDE DEF next
    <3> QED BY <1>7, RateFacts
  <2>2. next > s
    OBVIOUS
  <2> HIDE DEF next
  <2> QED BY <1>0, <1>3, <2>1, <2>2, RateFacts
<1> HIDE DEF next
<1>9. next <= Rate!Largest(c) /\ Rate!Fits(c, next, raw)
  BY <1>7, <1>8, RateFacts
<1>10. next \in 1..HardCap
  BY <1>1, <1>8, <1>9, RateFacts
<1> QED BY <1>9, <1>10 DEF next

-----------------------------------------------------------------------------
(* The work of a probe. *)

\* Half of a product of a number and what is at most twice as large as another.
LEMMA TriangleInSquare ==
  ASSUME NEW r \in Nat \ {0}, NEW k \in Nat, r <= k
  PROVE  Rate!Pairs(r, k) \in Nat /\ Rate!Pairs(r, k) <= r * k
<1> DEFINE x == r * (2 * k - r + 1)  y == r * k
<1>1. PICK e \in Nat : k = r + e
  <2>1. k - r \in Nat /\ k = r + (k - r)
    OBVIOUS
  <2> QED BY <2>1
<1>2. 2 * k - r + 1 = r + 2 * e + 1
  BY <1>1
<1>3. x = r * r + 2 * (r * e) + r /\ y = r * r + r * e
  BY <1>1, <1>2
<1>4. r * r \in Nat /\ r * e \in Nat /\ r <= r * r
  OBVIOUS
<1>5. x \in Nat /\ y \in Nat /\ x <= 2 * y
  BY <1>3, <1>4
<1>6. Rate!Pairs(r, k) = x \div 2
  BY DEF Rate!Pairs
<1> HIDE DEF x
<1>7. x \div 2 \in Nat /\ x \div 2 <= y
  <2> HIDE DEF y
  <2> QED BY <1>5
<1> QED BY <1>6, <1>7

LEMMA CreditIsCovered ==
  ASSUME part \in Rate!Kinds, NEW c \in Rate!Calls, NEW s \in Nat \ {0}
  PROVE  /\ Rate!Credit(c, s) \in Nat /\ Rate!Nominal(c, s) \in Nat
         /\ Rate!Credit(c, s) <= Rate!Nominal(c, s)
<1>0. c.body \in Nat \ {0} /\ c.n \in Nat \ {0}
  BY CallsAre
<1>1. CASE ~Rate!Attention
  <2>1. Rate!Credit(c, s) = c.n * s * c.body /\ Rate!Nominal(c, s) = c.n * s * c.body
    BY <1>1 DEF Rate!Credit, Rate!Nominal
  <2>2. c.n * s \in Nat
    BY <1>0
  <2>3. c.n * s * c.body \in Nat
    BY <1>0, <2>2
  <2> QED BY <2>1, <2>3
<1>2. CASE Rate!Attention
  <2> DEFINE q == Rate!Pairs(s, s)  w == 2 * c.body
  <2>1. q \in Nat /\ q <= s * s
    BY TriangleInSquare
  <2>2. w \in Nat
    BY <1>0
  <2>3. Rate!Credit(c, s) = w * q /\ Rate!Nominal(c, s) = w * (s * s)
    <3>1. Rate!Credit(c, s) = 2 * c.body * Rate!Pairs(s, s)
      BY <1>2 DEF Rate!Credit
    <3>2. Rate!Nominal(c, s) = 2 * c.body * s * s
      BY <1>2 DEF Rate!Nominal
    <3>3. 2 * c.body * s * s = (2 * c.body) * (s * s)
      BY <1>0
    <3> QED BY <3>1, <3>2, <3>3
  <2> HIDE DEF q, w
  <2>4. w * q \in Nat /\ w * (s * s) \in Nat /\ w * q <= w * (s * s)
    <3>1. s * s \in Nat
      OBVIOUS
    <3> DEFINE z == s * s
    <3> HIDE DEF z
    <3>2. PICK e \in Nat : z = q + e
      <4>1. z \in Nat /\ q <= z
        BY <2>1, <3>1 DEF z
      <4>2. z - q \in Nat /\ z = q + (z - q)
        BY <2>1, <4>1
      <4> QED BY <4>2
    <3>3. w * z = w * q + w * e /\ w * q \in Nat /\ w * e \in Nat
      BY <2>1, <2>2, <3>2
    <3> QED BY <3>3 DEF z
  <2> QED BY <2>3, <2>4
<1> QED BY <1>1, <1>2

Affordable(c, s) == Rate!Credit(c, s) <= Rate!SpeedAt(c.body, s) * RateBudget

\* What fits at half the rate of a smaller probe is within the time, though the
\* larger probe may run at half the speed of the smaller.
LEMMA GrownIsAffordable ==
  ASSUME part \in Rate!Kinds, speed \in Rate!Machines, NEW c \in Rate!Calls,
         NEW s \in 1..HardCap, NEW t \in 1..HardCap, s <= t,
         NEW raw \in Nat, raw <= Rate!SpeedAt(c.body, s), Rate!Fits(c, t, raw)
  PROVE  Affordable(c, t)
<1> DEFINE a == Rate!SpeedAt(c.body, s)  b == Rate!SpeedAt(c.body, t)
<1>0. c.body \in Bodies /\ t \in Nat \ {0} /\ RateBudget \in Nat
  BY CallsAre, ProbedSizes, RateFacts
<1>1. a \in Nat /\ b \in Nat /\ a <= 2 * b
  <2>1. s \in 0..HardCap /\ t \in 0..HardCap
    BY RateFacts
  <2> QED BY <1>0, <2>1, LargerAtHalf, SpeedsAre
<1>2. /\ Rate!Credit(c, t) \in Nat /\ Rate!Nominal(c, t) \in Nat
      /\ Rate!Credit(c, t) <= Rate!Nominal(c, t)
  BY <1>0, CreditIsCovered
<1>3. 2 * Rate!Nominal(c, t) <= raw * RateBudget
  BY DEF Rate!Fits
<1> HIDE DEF a, b
<1>4. raw <= 2 * b
  BY <1>1 DEF a
<1>5. raw * RateBudget <= 2 * (b * RateBudget) /\ b * RateBudget \in Nat
  <2>1. PICK e \in Nat : 2 * b = raw + e
    <3>1. 2 * b - raw \in Nat /\ 2 * b = raw + (2 * b - raw)
      BY <1>1, <1>4
    <3> QED BY <3>1
  <2>2. (2 * b) * RateBudget = raw * RateBudget + e * RateBudget
    BY <1>0, <2>1
  <2>3. e * RateBudget \in Nat /\ raw * RateBudget \in Nat /\ b * RateBudget \in Nat
    BY <1>0, <1>1
  <2>4. (2 * b) * RateBudget = 2 * (b * RateBudget)
    BY <1>0, <1>1
  <2> QED BY <2>2, <2>3, <2>4
<1>6. raw * RateBudget \in Nat
  BY <1>0
<1>7. Rate!Credit(c, t) <= b * RateBudget
  BY <1>2, <1>3, <1>5, <1>6
<1> QED BY <1>7 DEF Affordable, b

\* A disturbed reading of three changes nothing.
LEMMA MedianIsTheSpeed ==
  ASSUME NEW sp \in Nat \ {0}, NEW t \in Rate!Readings(sp)
  PROVE  Rate!Median(t[1], t[2], t[3]) = sp
<1>1. \/ t = <<sp, sp, 2 * sp>> \/ t = <<2 * sp, sp, sp>>
      \/ t = <<1, sp, sp>> \/ t = <<sp, sp, 1>>
  BY DEF Rate!Readings
<1>2. \/ t[1] = sp /\ t[2] = sp /\ t[3] = 2 * sp
      \/ t[1] = 2 * sp /\ t[2] = sp /\ t[3] = sp
      \/ t[1] = 1 /\ t[2] = sp /\ t[3] = sp
      \/ t[1] = sp /\ t[2] = sp /\ t[3] = 1
  BY <1>1
<1> QED BY <1>2 DEF Rate!Median, Rate!Lower, Rate!Upper

\* A canary of more than one row takes a fifth of half the time at the rate of the
\* ramp, so that it is within the time at a tenth of that rate.
LEMMA CanaryIsAffordable ==
  ASSUME part \in Rate!Kinds, NEW c \in Rate!Calls, NEW raw \in Nat, NEW sp \in Nat,
         raw <= 10 * sp, Rate!CanaryRows(c, raw) # 1
  PROVE  2 * c.body * Rate!Pairs(Rate!CanaryRows(c, raw), c.n) <= sp * RateBudget
<1> DEFINE r == Rate!CanaryRows(c, raw)  w == 2 * c.body * c.n
           q == (RateBudget * raw) \div (10 * 2 * c.body * c.n)
           p == Rate!Pairs(r, c.n)
<1>0. c.body \in Nat \ {0} /\ c.n \in Nat \ {0} /\ RateBudget \in Nat
  BY CallsAre, RateFacts
<1>1. w \in Nat \ {0} /\ 10 * 2 * c.body * c.n = 10 * w
  <2>1. c.body * c.n \in Nat \ {0}
    BY <1>0
  <2>2. w = 2 * (c.body * c.n) /\ 10 * 2 * c.body * c.n = 20 * (c.body * c.n)
    BY <1>0
  <2> QED BY <2>1, <2>2
<1>2. RateBudget * raw \in Nat /\ RateBudget * sp \in Nat
      /\ RateBudget * raw <= 10 * (RateBudget * sp) /\ RateBudget * sp = sp * RateBudget
  <2>1. PICK e \in Nat : 10 * sp = raw + e
    <3>1. 10 * sp - raw \in Nat /\ 10 * sp = raw + (10 * sp - raw)
      OBVIOUS
    <3> QED BY <3>1
  <2>2. RateBudget * (10 * sp) = RateBudget * raw + RateBudget * e
    BY <1>0, <2>1
  <2>3. RateBudget * (10 * sp) = 10 * (RateBudget * sp)
    BY <1>0
  <2>4. RateBudget * e \in Nat /\ RateBudget * raw \in Nat /\ RateBudget * sp \in Nat
    BY <1>0
  <2> QED BY <1>0, <2>2, <2>3, <2>4
<1>3. q \in Nat /\ q * (10 * w) <= RateBudget * raw
  <2> DEFINE x == RateBudget * raw  y == 10 * w
  <2>1. x \in Nat /\ y \in Nat \ {0} /\ q = x \div y
    BY <1>1, <1>2
  <2> HIDE DEF x, y, q
  <2>2. q \in Nat /\ q * y <= x
    BY <2>1
  <2> QED BY <2>2 DEF x, y
<1>4. r \in Nat \ {0} /\ r <= q /\ r <= c.n
  <2>1. r = Rate!Upper(1, Rate!Lower(c.n, q))
    BY DEF Rate!CanaryRows
  <2>2. r # 1
    OBVIOUS
  <2> HIDE DEF r, q
  <2> QED BY <1>0, <1>3, <2>1, <2>2 DEF Rate!Upper, Rate!Lower
<1> HIDE DEF r, q
<1>5. p \in Nat /\ p <= r * c.n
  BY <1>0, <1>4, TriangleInSquare
<1> HIDE DEF p
<1>6. 2 * c.body * p <= w * r /\ 2 * c.body * p \in Nat
  <2> DEFINE g == 2 * c.body  z == r * c.n
  <2>1. g \in Nat /\ z \in Nat
    BY <1>0, <1>4
  <2>2. w * r = g * z
    BY <1>0, <1>4
  <2>3. p <= z
    BY <1>5
  <2> HIDE DEF g, z, w
  <2>4. PICK e \in Nat : z = p + e
    <3>1. z - p \in Nat /\ z = p + (z - p)
      BY <1>5, <2>1, <2>3
    <3> QED BY <3>1
  <2>5. g * z = g * p + g * e /\ g * p \in Nat /\ g * e \in Nat
    BY <1>5, <2>1, <2>4
  <2>6. g * p = 2 * c.body * p
    BY DEF g
  <2> QED BY <2>2, <2>5, <2>6
<1> HIDE DEF w
<1>7. 10 * (w * r) <= RateBudget * raw /\ w * r \in Nat
  <2>1. PICK e \in Nat : q = r + e
    <3>1. q - r \in Nat /\ q = r + (q - r)
      BY <1>3, <1>4
    <3> QED BY <3>1
  <2>2. q * (10 * w) = 10 * (w * r) + 10 * (w * e)
    BY <1>1, <1>4, <2>1
  <2>3. w * r \in Nat /\ w * e \in Nat
    BY <1>1, <1>4, <2>1
  <2> QED BY <1>2, <1>3, <2>2, <2>3
<1> DEFINE u == 2 * c.body * p  x == RateBudget * raw  y == RateBudget * sp  z == w * r
<1>8. u <= y
  <2>1. u \in Nat /\ x \in Nat /\ y \in Nat /\ z \in Nat /\ u <= z /\ 10 * z <= x /\ x <= 10 * y
    BY <1>2, <1>6, <1>7
  <2> HIDE DEF u, x, y, z
  <2> QED BY <2>1
<1> QED BY <1>2, <1>8 DEF p, r

-----------------------------------------------------------------------------
(* The calibration step by step. *)

RateTypes ==
  /\ step \in {"idle", "ramp", "sustain", "median", "canary"}
  /\ call \in Rate!Calls \cup {Rate!Nothing} /\ size \in 0..HardCap /\ stage \in 0..3
  /\ calls \in 0..MaxCalls /\ speed \in Rate!Machines

\* Only the first probe of a ramp may be too large; the canary is sized by the speed
\* of the ramp's last.
RampInv ==
  /\ step # "idle" => call \in Rate!Calls /\ size \in 1..HardCap
  /\ step = "ramp" => /\ stage \in 0..2 /\ Rate!StartProbe(call) <= size
                      /\ stage = 0 => size = Rate!StartProbe(call)
                      /\ stage # 0 => Affordable(call, size)
  /\ step = "sustain" => size = Rate!StartProbe(call) \/ Affordable(call, size)
  /\ step = "canary" => Rate!Attention /\ rate = Rate!SpeedAt(call.body, size)

\* A rate is the speed of its body at its size, which for attention is the whole
\* working set.
Rated(e) ==
  /\ e.from \in Rate!Calls /\ e.size \in 0..HardCap
  /\ e.rate = Rate!SpeedAt(e.from.body, e.size)
  /\ Rate!Attention => e.size = 0 \/ e.size >= e.from.n

CacheInv == \A k \in DOMAIN cache : Rated(cache[k]) /\ Rate!Key(cache[k].from) = k

UsedInv == IF Rate!Attention THEN Rate!RatedAsDispatched ELSE Rate!LaunchesSurvive

RateInv == RateTypes /\ RampInv /\ CacheInv /\ Rate!ProbesSurvive /\ UsedInv

SameMachine == part' = part /\ speed' = speed

LEMMA NothingElseMoves ==
  ASSUME SameMachine
  PROVE  /\ Rate!Calls' = Rate!Calls
         /\ Rate!Attention' <=> Rate!Attention
         /\ Rate!Machines' = Rate!Machines
         /\ \A b, s : Rate!SpeedAt(b, s)' = Rate!SpeedAt(b, s)
         /\ \A c : Rate!StartProbe(c)' = Rate!StartProbe(c) /\ Rate!Key(c)' = Rate!Key(c)
         /\ \A c, s : Affordable(c, s)' <=> Affordable(c, s)
         /\ \A e : Rated(e)' <=> Rated(e)
<1>0. part' = part /\ speed' = speed
  BY DEF SameMachine
<1>1. Rate!Attention' <=> Rate!Attention
  BY <1>0 DEF Rate!Attention
<1>2. Rate!Calls' = Rate!Calls
  BY <1>0, <1>1 DEF Rate!Calls
<1>3. Rate!Machines' = Rate!Machines
  <2>1. Rate!Profiles' = Rate!Profiles
    BY <1>1, Zenon DEF Rate!Profiles
  <2> QED BY <1>1, <2>1, Zenon DEF Rate!Machines
<1>4. \A b, s : Rate!SpeedAt(b, s)' = Rate!SpeedAt(b, s)
  BY <1>0, Zenon DEF Rate!SpeedAt
<1>5. \A c : Rate!StartProbe(c)' = Rate!StartProbe(c) /\ Rate!Key(c)' = Rate!Key(c)
  BY <1>1, Zenon DEF Rate!StartProbe, Rate!Key
<1>6. \A c, s : Affordable(c, s)' <=> Affordable(c, s)
  <2>1. \A c, s : Rate!Credit(c, s)' = Rate!Credit(c, s)
    BY <1>1, Zenon DEF Rate!Credit
  <2> QED BY <1>4, <2>1 DEF Affordable
<1>7. \A e : Rated(e)' <=> Rated(e)
  BY <1>1, <1>2, <1>4 DEF Rated
<1> QED BY <1>1, <1>2, <1>3, <1>4, <1>5, <1>6, <1>7

LEMMA TypesFollow ==
  ASSUME SameMachine, RateTypes,
         step' \in {"idle", "ramp", "sustain", "median", "canary"},
         call' \in Rate!Calls \cup {Rate!Nothing}, size' \in 0..HardCap, stage' \in 0..3,
         calls' \in 0..MaxCalls
  PROVE  RateTypes'
<1>1. speed' \in Rate!Machines'
  BY NothingElseMoves DEF SameMachine, RateTypes
<1>2. call' \in Rate!Calls' \cup {Rate!Nothing}
  BY NothingElseMoves
<1> QED BY <1>1, <1>2 DEF RateTypes

LEMMA CacheStays ==
  ASSUME SameMachine, CacheInv, cache' = cache
  PROVE  CacheInv'
  BY NothingElseMoves DEF CacheInv

LEMMA LastStays ==
  ASSUME Rate!ProbesSurvive, last' = last
  PROVE  Rate!ProbesSurvive'
  BY DEF Rate!ProbesSurvive

LEMMA UsedStays ==
  ASSUME SameMachine, UsedInv, used' = used
  PROVE  UsedInv'
<1>1. Rate!RatedAsDispatched' <=> Rate!RatedAsDispatched
  BY NothingElseMoves DEF Rate!RatedAsDispatched
<1>2. Rate!LaunchesSurvive' <=> Rate!LaunchesSurvive
  BY NothingElseMoves DEF Rate!LaunchesSurvive
<1> QED BY <1>1, <1>2, NothingElseMoves DEF UsedInv

\* A call goes on with a rate that was kept under its key.
LEMMA ProceedsSafely ==
  ASSUME part \in Rate!Kinds, SameMachine, speed \in Rate!Machines, NEW c \in Rate!Calls,
         NEW e, Rated(e), Rate!Key(e.from) = Rate!Key(c), Rate!Proceed(c, e)
  PROVE  UsedInv'
<1>1. /\ used'.call = c /\ used'.rate = e.rate /\ used'.from = e.from /\ used'.size = e.size
      /\ used'.launched = (~Rate!Attention /\ Rate!WithinBudget(c, e.rate))
  BY DEF Rate!Proceed
<1>2. /\ e.from \in Rate!Calls /\ e.size \in 0..HardCap
      /\ e.rate = Rate!SpeedAt(e.from.body, e.size)
      /\ Rate!Attention => e.size = 0 \/ e.size >= e.from.n
  BY DEF Rated
<1>3. /\ e.from.body \in Bodies /\ c.body \in Bodies /\ c.body \in Nat \ {0}
      /\ c.n \in Nat \ {0} /\ c.v \in Nat /\ (~Rate!Attention => c.v >= Floor)
  BY <1>2, CallsAre
<1>4. e.rate \in Nat
  BY <1>2, <1>3, SpeedsAre
<1>5. CASE Rate!Attention
  <2>1. e.from.body = c.body /\ Rate!Bucket(e.from.n) = Rate!Bucket(c.n)
    BY <1>5 DEF Rate!Key
  <2>2. e.rate <= Rate!SpeedAt(e.from.body, e.size)
    BY <1>2, <1>4
  <2>3. Rate!RatedAsDispatched'
    BY <1>1, <1>2, <1>5, <2>1, <2>2, NothingElseMoves DEF Rate!RatedAsDispatched
  <2> QED BY <1>5, <2>3, NothingElseMoves DEF UsedInv
<1>6. CASE ~Rate!Attention
  <2> DEFINE L == Rate!Lower(c.v, HardCap)  b == Rate!SpeedAt(c.body, L)
  <2>1. L \in 1..HardCap /\ L \in 0..HardCap
    BY <1>3, <1>6, RateFacts DEF Rate!Lower
  <2>2. b \in Nat /\ e.rate <= 2 * b
    BY <1>2, <1>3, <1>6, <2>1, OthersAtHalf, SpeedsAre
  <2>3. ASSUME Rate!WithinBudget(c, e.rate)
        PROVE  c.n * L * c.body <= b * RateBudget
    <3>1. 2 * c.n * HardCap * c.body <= e.rate * RateBudget
      BY <2>3 DEF Rate!WithinBudget
    <3> HIDE DEF b
    <3>2. L \in Nat /\ L <= HardCap /\ HardCap \in Nat /\ RateBudget \in Nat
      BY <2>1, RateFacts
    <3> HIDE DEF L
    <3> DEFINE g == c.n * c.body
    <3>3. g \in Nat /\ c.n * L * c.body = g * L /\ 2 * c.n * HardCap * c.body = 2 * (g * HardCap)
      BY <1>3, <3>2
    <3> HIDE DEF g
    <3>4. g * L <= g * HardCap /\ g * L \in Nat /\ g * HardCap \in Nat
      <4>1. PICK x \in Nat : HardCap = L + x
        <5>1. HardCap - L \in Nat /\ HardCap = L + (HardCap - L)
          BY <3>2
        <5> QED BY <5>1
      <4>2. g * HardCap = g * L + g * x /\ g * L \in Nat /\ g * x \in Nat
        BY <3>2, <3>3, <4>1
      <4> QED BY <4>2
    <3>5. e.rate * RateBudget <= 2 * (b * RateBudget) /\ e.rate * RateBudget \in Nat
          /\ b * RateBudget \in Nat
      <4>1. PICK x \in Nat : 2 * b = e.rate + x
        <5>1. 2 * b - e.rate \in Nat /\ 2 * b = e.rate + (2 * b - e.rate)
          BY <1>4, <2>2
        <5> QED BY <5>1
      <4> DEFINE q == e.rate
      <4>2. q \in Nat /\ 2 * b = q + x
        BY <1>4, <4>1
      <4> HIDE DEF q
      <4>3. (2 * b) * RateBudget = q * RateBudget + x * RateBudget
        BY <3>2, <4>2
      <4>4. (2 * b) * RateBudget = 2 * (b * RateBudget)
        BY <2>2, <3>2
      <4>5. q * RateBudget \in Nat /\ x * RateBudget \in Nat /\ b * RateBudget \in Nat
        BY <2>2, <3>2, <4>2
      <4> QED BY <4>3, <4>4, <4>5 DEF q
    <3> DEFINE gl == g * L  gh == g * HardCap  eb == e.rate * RateBudget  bb == b * RateBudget
    <3>6. gl <= bb
      <4>1. gl \in Nat /\ gh \in Nat /\ eb \in Nat /\ bb \in Nat
            /\ gl <= gh /\ 2 * gh <= eb /\ eb <= 2 * bb
        BY <3>1, <3>3, <3>4, <3>5
      <4> HIDE DEF gl, gh, eb, bb
      <4> QED BY <4>1
    <3> QED BY <3>3, <3>6
  <2>4. Rate!LaunchesSurvive'
    BY <1>1, <2>3, NothingElseMoves DEF Rate!LaunchesSurvive
  <2> QED BY <1>6, <2>4, NothingElseMoves DEF UsedInv
<1> QED BY <1>5, <1>6

LEMMA KeepsSafely ==
  ASSUME part \in Rate!Kinds, SameMachine, speed \in Rate!Machines, CacheInv,
         call \in Rate!Calls, NEW r, NEW s,
         Rated([rate |-> r, from |-> call, size |-> s]), Rate!Keep(r, s)
  PROVE  CacheInv' /\ UsedInv'
<1> DEFINE e == [rate |-> r, from |-> call, size |-> s]
<1>1. /\ cache' = [k \in DOMAIN cache \cup {Rate!Key(call)} |->
                     IF k = Rate!Key(call) THEN e ELSE cache[k]]
      /\ Rate!Proceed(call, e)
  BY Zenon DEF Rate!Keep
<1>2. Rated(e) /\ e.from = call
  OBVIOUS
<1> HIDE DEF e
<1>3. UsedInv'
  BY <1>1, <1>2, ProceedsSafely
<1>4. \A k \in DOMAIN cache' : Rated(cache'[k]) /\ Rate!Key(cache'[k].from) = k
  BY <1>1, <1>2 DEF CacheInv
<1>5. CacheInv'
  BY <1>4, NothingElseMoves DEF CacheInv
<1> QED BY <1>3, <1>5

LEMMA StepOfCallCached ==
  ASSUME part \in Rate!Kinds, RateInv, part' = part, Rate!CallCached
  PROVE  RateInv'
<1>1. /\ step = "idle" /\ step' = "idle" /\ calls < MaxCalls /\ calls' = calls + 1
      /\ size' = size /\ stage' = stage /\ rate' = rate
      /\ cache' = cache /\ last' = last /\ SameMachine
  BY DEF Rate!CallCached, SameMachine
<1>2. PICK c \in Rate!Calls : /\ Rate!Key(c) \in DOMAIN cache /\ call' = c
                             /\ Rate!Proceed(c, cache[Rate!Key(c)])
  BY Zenon DEF Rate!CallCached
<1>3. RateTypes /\ CacheInv /\ Rate!ProbesSurvive
  BY DEF RateInv
<1>4. RateTypes'
  <2>1. calls' \in 0..MaxCalls
    BY <1>1, <1>3, RateFacts DEF RateTypes
  <2> QED BY <1>1, <1>2, <1>3, <2>1, TypesFollow DEF RateTypes
<1>5. RampInv'
  BY <1>1 DEF RampInv
<1>6. CacheInv' /\ Rate!ProbesSurvive'
  BY <1>1, <1>3, CacheStays, LastStays
<1>7. UsedInv'
  <2>1. Rated(cache[Rate!Key(c)]) /\ Rate!Key(cache[Rate!Key(c)].from) = Rate!Key(c)
    BY <1>2, <1>3 DEF CacheInv
  <2> QED BY <1>1, <1>2, <1>3, <2>1, ProceedsSafely DEF RateTypes
<1> QED BY <1>4, <1>5, <1>6, <1>7 DEF RateInv

LEMMA StepOfCallAnew ==
  ASSUME part \in Rate!Kinds, RateInv, part' = part, Rate!CallAnew
  PROVE  RateInv'
<1>1. /\ step' = "ramp" /\ stage' = 0 /\ calls < MaxCalls /\ calls' = calls + 1
      /\ cache' = cache /\ last' = last /\ used' = used /\ SameMachine
  BY DEF Rate!CallAnew, SameMachine
<1>2. PICK c \in Rate!Calls : call' = c /\ size' = Rate!StartProbe(c)
  BY Zenon DEF Rate!CallAnew
<1>3. RateTypes /\ CacheInv /\ Rate!ProbesSurvive /\ UsedInv
  BY DEF RateInv
<1>4. size' \in 1..HardCap /\ size' \in 0..HardCap /\ size' \in Nat
  BY <1>2, StartFits, RateFacts
<1>5. RateTypes'
  <2>1. calls' \in 0..MaxCalls
    BY <1>1, <1>3, RateFacts DEF RateTypes
  <2>2. stage' \in 0..3
    BY <1>1
  <2> QED BY <1>1, <1>2, <1>3, <1>4, <2>1, <2>2, TypesFollow
<1>6. RampInv'
  BY <1>1, <1>2, <1>4, NothingElseMoves DEF RampInv
<1>7. CacheInv' /\ Rate!ProbesSurvive' /\ UsedInv'
  BY <1>1, <1>3, CacheStays, LastStays, UsedStays
<1> QED BY <1>5, <1>6, <1>7 DEF RateInv

LEMMA StepOfRampProbe ==
  ASSUME part \in Rate!Kinds, RateInv, part' = part, Rate!RampProbe
  PROVE  RateInv'
<1>1. /\ step = "ramp" /\ stage' = stage + 1 /\ call' = call /\ calls' = calls
      /\ cache' = cache /\ used' = used /\ SameMachine
  BY DEF Rate!RampProbe, SameMachine
<1>2. RateTypes /\ RampInv /\ CacheInv /\ UsedInv
  BY DEF RateInv
<1>3. /\ call \in Rate!Calls /\ size \in 1..HardCap /\ size \in 0..HardCap /\ size \in Nat
      /\ stage \in 0..2 /\ Rate!StartProbe(call) <= size
      /\ stage = 0 => size = Rate!StartProbe(call)
      /\ stage # 0 => Affordable(call, size)
  BY <1>1, <1>2, RateFacts DEF RampInv
<1> DEFINE sp == Rate!SpeedAt(call.body, size)
<1>4. PICK cold \in IF stage = 0 THEN {1, 2} ELSE {1} :
        LET raw == sp \div cold
            next == Rate!NextProbe(call, raw)
            grows == next > size
        IN  /\ last' = [work |-> Rate!Credit(call, size) * cold, speed |-> sp,
                        what |-> IF stage = 0 THEN "first" ELSE "probe"]
            /\ size' = IF grows THEN next ELSE size
            /\ step' = IF grows /\ stage < 2 THEN "ramp" ELSE "sustain"
  BY Zenon DEF Rate!RampProbe
<1> DEFINE raw == sp \div cold  next == Rate!NextProbe(call, raw)
<1>5. sp \in Nat \ {0} /\ raw \in Nat /\ raw <= sp
  <2>1. sp \in Nat \ {0}
    BY <1>2, <1>3, CallsAre, SpeedsAre DEF RateTypes
  <2>2. cold \in {1, 2}
    OBVIOUS
  <2> HIDE DEF sp
  <2> QED BY <2>1, <2>2
<1>6. /\ last'.what \in {"probe", "canary"} => stage # 0 /\ cold = 1
      /\ last'.work = Rate!Credit(call, size) * cold /\ last'.speed = sp
  BY <1>4, Zenon
<1>7. /\ size' = IF next > size THEN next ELSE size
      /\ step' = IF next > size /\ stage < 2 THEN "ramp" ELSE "sustain"
  BY <1>4, Zenon
<1> HIDE DEF raw
<1>8. next > size => next \in 1..HardCap /\ Affordable(call, next)
  <2> SUFFICES ASSUME next > size PROVE next \in 1..HardCap /\ Affordable(call, next)
    OBVIOUS
  <2>1. next \in 1..HardCap /\ Rate!Fits(call, next, raw)
    BY <1>3, GrowsToFit
  <2>2. size <= next
    <3> HIDE DEF next
    <3> QED BY <1>3, <2>1, RateFacts
  <2> HIDE DEF next
  <2>3. Affordable(call, next)
    BY <1>2, <1>3, <1>5, <2>1, <2>2, GrownIsAffordable DEF RateTypes, sp
  <2> QED BY <2>1, <2>3
<1> HIDE DEF next, sp
<1>9. /\ size' \in 1..HardCap /\ size' \in 0..HardCap
      /\ size' = Rate!StartProbe(call) \/ Affordable(call, size')
      /\ step' = "ramp" => Affordable(call, size') /\ stage < 2 /\ Rate!StartProbe(call) <= size'
  <2>1. CASE next > size
    <3>1. next \in Nat /\ next \in 0..HardCap
      BY <1>8, <2>1, RateFacts
    <3>2. Rate!StartProbe(call) \in Nat
      BY <1>3, StartFits, RateFacts
    <3> QED BY <1>3, <1>7, <1>8, <2>1, <3>1, <3>2
  <2>2. CASE ~(next > size)
    BY <1>3, <1>7, <2>2
  <2> QED BY <2>1, <2>2
<1>10. step' \in {"ramp", "sustain"} /\ stage' \in 0..3 /\ (stage < 2 => stage' \in 1..2)
  BY <1>1, <1>3, <1>7
<1>11. RateTypes'
  <2>1. calls' \in 0..MaxCalls
    BY <1>1, <1>2 DEF RateTypes
  <2> QED BY <1>1, <1>2, <1>3, <1>9, <1>10, <2>1, TypesFollow
<1>12. RampInv'
  <2>1. /\ step' # "idle" => call' \in Rate!Calls' /\ size' \in 1..HardCap
        /\ step' = "sustain" => size' = Rate!StartProbe(call)' \/ Affordable(call, size)'
        /\ step' # "canary"
    BY <1>1, <1>3, <1>9, <1>10, NothingElseMoves
  <2>2. step' = "ramp" => /\ stage' \in 0..2 /\ Rate!StartProbe(call)' <= size'
                         /\ stage' # 0 /\ Affordable(call, size)'
    <3>1. step' = "ramp" => stage' \in 0..2 /\ stage' # 0
      BY <1>9, <1>10
    <3> QED BY <1>1, <1>9, <3>1, NothingElseMoves
  <2> QED BY <2>1, <2>2 DEF RampInv
<1>13. Rate!ProbesSurvive'
  <2>1. ASSUME last'.what \in {"probe", "canary"} PROVE last'.work <= last'.speed * RateBudget
    <3>1. Affordable(call, size) /\ last'.work = Rate!Credit(call, size) * 1
      BY <1>3, <1>6, <2>1
    <3>2. Rate!Credit(call, size) \in Nat
      BY <1>3, CreditIsCovered, RateFacts
    <3> QED BY <1>6, <3>1, <3>2 DEF Affordable, sp
  <2> QED BY <2>1 DEF Rate!ProbesSurvive
<1>14. CacheInv' /\ UsedInv'
  BY <1>1, <1>2, CacheStays, UsedStays
<1> QED BY <1>11, <1>12, <1>13, <1>14 DEF RateInv

LEMMA StepOfSustain ==
  ASSUME part \in Rate!Kinds, RateInv, part' = part, Rate!Sustain
  PROVE  RateInv'
<1>1. /\ step = "sustain" /\ step' = "median" /\ call' = call /\ calls' = calls
      /\ size' = size /\ stage' = stage /\ cache' = cache /\ used' = used /\ SameMachine
      /\ last' = [work |-> Rate!Credit(call, size), speed |-> Rate!SpeedAt(call.body, size),
                  what |-> IF size = Rate!StartProbe(call) THEN "first" ELSE "probe"]
  BY DEF Rate!Sustain, SameMachine
<1>2. RateTypes /\ RampInv /\ CacheInv /\ UsedInv
  BY DEF RateInv
<1>3. RateTypes'
  <2>1. call \in Rate!Calls \cup {Rate!Nothing} /\ size \in 0..HardCap /\ stage \in 0..3
        /\ calls \in 0..MaxCalls
    BY <1>2 DEF RateTypes
  <2> QED BY <1>1, <1>2, <2>1, TypesFollow
<1>4. RampInv'
  BY <1>1, <1>2, NothingElseMoves DEF RampInv
<1>5. Rate!ProbesSurvive'
  <2>1. last'.what \in {"probe", "canary"} => Affordable(call, size)
    BY <1>1, <1>2 DEF RampInv
  <2> QED BY <1>1, <2>1 DEF Rate!ProbesSurvive, Affordable
<1>6. CacheInv' /\ UsedInv'
  BY <1>1, <1>2, CacheStays, UsedStays
<1> QED BY <1>3, <1>4, <1>5, <1>6 DEF RateInv

LEMMA StepOfMedian ==
  ASSUME part \in Rate!Kinds, RateInv, part' = part, Rate!MedianOfThree
  PROVE  RateInv'
<1>1. /\ step = "median" /\ call' = call /\ calls' = calls /\ size' = size
      /\ stage' = stage /\ last' = last /\ SameMachine
  BY DEF Rate!MedianOfThree, SameMachine
<1>2. RateTypes /\ RampInv /\ CacheInv /\ UsedInv /\ Rate!ProbesSurvive
  BY DEF RateInv
<1>3. call \in Rate!Calls /\ size \in 1..HardCap /\ size \in 0..HardCap
  BY <1>1, <1>2, RateFacts DEF RampInv
<1> DEFINE sp == Rate!SpeedAt(call.body, size)
<1>4. sp \in Nat \ {0}
  BY <1>2, <1>3, CallsAre, SpeedsAre DEF RateTypes
<1>5. /\ rate' = sp
      /\ IF ~Rate!Attention \/ Rate!SawAll(call)
         THEN Rate!Keep(sp, size) /\ step' = "idle"
         ELSE step' = "canary" /\ UNCHANGED <<cache, used>>
  <2>1. PICK t \in Rate!Readings(sp) :
          LET raw == Rate!Median(t[1], t[2], t[3])
          IN  /\ rate' = raw
              /\ IF ~Rate!Attention \/ Rate!SawAll(call)
                 THEN Rate!Keep(raw, size) /\ step' = "idle"
                 ELSE step' = "canary" /\ UNCHANGED <<cache, used>>
    BY Zenon DEF Rate!MedianOfThree
  <2>2. Rate!Median(t[1], t[2], t[3]) = sp
    <3> HIDE DEF sp
    <3> QED BY <1>4, MedianIsTheSpeed
  <2> HIDE DEF sp
  <2> QED BY <2>1, <2>2, Zenon
<1>6. step' \in {"idle", "canary"} /\ (step' = "canary" => Rate!Attention)
  BY <1>5
<1>7. RateTypes'
  <2>1. size \in 0..HardCap /\ stage \in 0..3 /\ calls \in 0..MaxCalls
    BY <1>2 DEF RateTypes
  <2> QED BY <1>1, <1>2, <1>3, <1>6, <2>1, TypesFollow
<1>8. RampInv'
  BY <1>1, <1>3, <1>5, <1>6, NothingElseMoves DEF RampInv
<1>9. Rate!ProbesSurvive'
  BY <1>1, <1>2, LastStays
<1>10. CacheInv' /\ UsedInv'
  <2>1. CASE ~Rate!Attention \/ Rate!SawAll(call)
    <3>1. Rate!Attention => size >= call.n
      BY <2>1 DEF Rate!SawAll
    <3>2. Rated([rate |-> sp, from |-> call, size |-> size])
      BY <1>3, <3>1 DEF Rated
    <3>3. Rate!Keep(sp, size)
      BY <1>5, <2>1
    <3> HIDE DEF sp
    <3> QED BY <1>1, <1>2, <1>3, <3>2, <3>3, KeepsSafely DEF RateTypes
  <2>2. CASE ~(~Rate!Attention \/ Rate!SawAll(call))
    <3>1. cache' = cache /\ used' = used
      BY <1>5, <2>2
    <3> QED BY <1>1, <1>2, <3>1, CacheStays, UsedStays
  <2> QED BY <2>1, <2>2
<1> QED BY <1>7, <1>8, <1>9, <1>10 DEF RateInv

LEMMA StepOfCanary ==
  ASSUME part \in Rate!Kinds, RateInv, part' = part, Rate!Canary
  PROVE  RateInv'
<1> DEFINE r == Rate!CanaryRows(call, rate)  sp == Rate!SpeedAt(call.body, 0)
<1>1. /\ step = "canary" /\ step' = "idle" /\ call' = call /\ calls' = calls /\ size' = size
      /\ stage' = stage /\ SameMachine
      /\ last' = [work |-> 2 * call.body * Rate!Pairs(r, call.n), speed |-> sp,
                  what |-> IF r = 1 THEN "row" ELSE "canary"]
      /\ \E t \in Rate!Readings(sp) : Rate!Keep(Rate!Median(t[1], t[2], t[3]), 0)
  BY Zenon DEF Rate!Canary, SameMachine
<1>2. RateTypes /\ RampInv /\ CacheInv
  BY DEF RateInv
<1>3. /\ call \in Rate!Calls /\ size \in 1..HardCap /\ size \in 0..HardCap /\ 0 \in 0..HardCap
      /\ Rate!Attention /\ rate = Rate!SpeedAt(call.body, size)
  BY <1>1, <1>2, RateFacts DEF RampInv
<1>4. sp \in Nat \ {0} /\ rate \in Nat /\ rate <= 10 * sp
  <2>1. speed \in Rate!Machines /\ call.body \in Bodies
    BY <1>2, <1>3, CallsAre DEF RateTypes
  <2> QED BY <1>3, <2>1, SpeedsAre, ShapeAtATenth
<1>5. Rate!Keep(sp, 0)
  <2> HIDE DEF sp
  <2> QED BY <1>1, <1>4, MedianIsTheSpeed
<1>6. Rated([rate |-> sp, from |-> call, size |-> 0])
  BY <1>3 DEF Rated
<1>7. Rate!ProbesSurvive'
  <2>1. ASSUME last'.what \in {"probe", "canary"} PROVE last'.work <= last'.speed * RateBudget
    <3>1. r # 1 /\ last'.work = 2 * call.body * Rate!Pairs(r, call.n) /\ last'.speed = sp
      <4> HIDE DEF r, sp
      <4> QED BY <1>1, <2>1
    <3> HIDE DEF sp
    <3>2. 2 * call.body * Rate!Pairs(r, call.n) <= sp * RateBudget
      BY <1>3, <1>4, <3>1, CanaryIsAffordable
    <3> HIDE DEF r
    <3> QED BY <3>1, <3>2
  <2> QED BY <2>1 DEF Rate!ProbesSurvive
<1> HIDE DEF r, sp
<1>8. RateTypes' /\ RampInv'
  <2>1. stage \in 0..3 /\ calls \in 0..MaxCalls
    BY <1>2 DEF RateTypes
  <2>2. RateTypes'
    BY <1>1, <1>2, <1>3, <2>1, TypesFollow
  <2>3. RampInv'
    BY <1>1 DEF RampInv
  <2> QED BY <2>2, <2>3
<1>9. CacheInv' /\ UsedInv'
  BY <1>1, <1>2, <1>3, <1>5, <1>6, KeepsSafely DEF RateTypes
<1> QED BY <1>7, <1>8, <1>9 DEF RateInv

LEMMA RateStays ==
  ASSUME part \in Rate!Kinds, RateInv, part' = part, UNCHANGED rateVars, UNCHANGED step
  PROVE  RateInv'
<1>1. /\ speed' = speed /\ cache' = cache /\ call' = call /\ size' = size /\ stage' = stage
      /\ rate' = rate /\ last' = last /\ used' = used /\ calls' = calls /\ step' = step
      /\ SameMachine
  BY DEF rateVars, SameMachine
<1>2. RateTypes'
  BY <1>1, NothingElseMoves DEF RateInv, RateTypes
<1>3. RampInv'
  BY <1>1, NothingElseMoves DEF RateInv, RampInv
<1> QED BY <1>1, <1>2, <1>3, CacheStays, LastStays, UsedStays DEF RateInv

LEMMA RateInit == ASSUME part \in Rate!Kinds, Rate!Init PROVE RateInv
<1>1. /\ speed \in Rate!Machines /\ cache = <<>> /\ step = "idle" /\ call = Rate!Nothing
      /\ size = 0 /\ stage = 0 /\ calls = 0 /\ last.what = "none"
      /\ used.call = Rate!Nothing /\ used.launched = FALSE
  BY DEF Rate!Init
<1>2. RateTypes
  BY <1>1, RateFacts DEF RateTypes
<1>3. RampInv /\ Rate!ProbesSurvive /\ UsedInv
  BY <1>1 DEF RampInv, Rate!ProbesSurvive, UsedInv, Rate!RatedAsDispatched, Rate!LaunchesSurvive
<1>4. CacheInv
  BY <1>1 DEF CacheInv
<1> QED BY <1>2, <1>3, <1>4 DEF RateInv

LEMMA RateStep == ASSUME part \in Rate!Kinds, RateInv, Rate!Next PROVE RateInv'
<1>1. part' = part
  BY DEF Rate!Next
<1>2. CASE Rate!CallCached
  BY <1>1, <1>2, StepOfCallCached
<1>3. CASE Rate!CallAnew
  BY <1>1, <1>3, StepOfCallAnew
<1>4. CASE Rate!RampProbe
  BY <1>1, <1>4, StepOfRampProbe
<1>5. CASE Rate!Sustain
  BY <1>1, <1>5, StepOfSustain
<1>6. CASE Rate!MedianOfThree
  BY <1>1, <1>6, StepOfMedian
<1>7. CASE Rate!Canary
  BY <1>1, <1>7, StepOfCanary
<1>8. CASE Rate!Finished
  <2>1. UNCHANGED rateVars /\ UNCHANGED step
    BY <1>8 DEF Rate!Finished, Rate!vars, rateVars
  <2> QED BY <1>1, <2>1, RateStays
<1> QED BY <1>2, <1>3, <1>4, <1>5, <1>6, <1>7, <1>8 DEF Rate!Next

LEMMA RateHolds ==
  ASSUME part \in Rate!Kinds, RateInv
  PROVE  /\ Rate!TypeOK /\ Rate!ProbesSurvive
         /\ IF Rate!Attention THEN Rate!RatedAsDispatched ELSE Rate!LaunchesSurvive
<1>1. \A k \in DOMAIN cache : cache[k].rate \in Nat \ {0} /\ cache[k].from \in Rate!Calls
  <2> SUFFICES ASSUME NEW k \in DOMAIN cache
               PROVE  cache[k].rate \in Nat \ {0} /\ cache[k].from \in Rate!Calls
    OBVIOUS
  <2> DEFINE e == cache[k]
  <2>1. Rated(e)
    BY DEF RateInv, CacheInv
  <2> HIDE DEF e
  <2>2. /\ e.from \in Rate!Calls /\ e.size \in 0..HardCap
        /\ e.rate = Rate!SpeedAt(e.from.body, e.size)
    BY <2>1 DEF Rated
  <2>3. e.rate \in Nat \ {0}
    BY <2>2, CallsAre, SpeedsAre DEF RateInv, RateTypes
  <2> QED BY <2>2, <2>3 DEF e
<1>2. Rate!TypeOK
  BY <1>1 DEF RateInv, RateTypes, Rate!TypeOK, Rate!Sizes
<1> QED BY <1>2 DEF RateInv, UsedInv

-----------------------------------------------------------------------------
(* The two large chains: the proofs about the planner, of this instance. *)

TrainingProof ==
  INSTANCE LaunchPlanProofs WITH
    Chains <- TrainChains, Budget <- TrainBudget, Rounding <- TRUE, Shapes <- TrainShapes,
    shape <- tShape, pc <- tPc, chain <- tChain, row <- tRow, model <- tModel,
    plan <- tPlan, encoded <- tEncoded, real <- tReal

TrainingInv == TrainingProof!LargeInv

LEMMA TrainingAssumed ==
  TrainingProof!LaunchAssumption /\ TrainingProof!AllLarge
<1>1. TrainingProof!Shape = Shape
  BY DEF TrainingProof!Shape, Shape
<1>2. TrainingProof!LaunchAssumption
  BY <1>1, LaunchAssumption, ChainsAssumption
     DEF TrainingProof!LaunchAssumption, LaunchAssumption, ChainsAssumption
<1>3. TrainingProof!AllLarge
  BY ChainsAssumption DEF ChainsAssumption, TrainingProof!AllLarge
<1> QED BY <1>2, <1>3

LEMMA TrainingInit == Training!Init => TrainingInv
<1>1. Training!Init => TrainingProof!Init
  BY DEF Training!Init, TrainingProof!Init, Training!Chain, TrainingProof!Chain,
     Training!Empty, TrainingProof!Empty
<1> QED BY <1>1, TrainingAssumed, TrainingProof!LargeInit DEF TrainingInv

LEMMA TrainingStep ==
  ASSUME TrainingInv, Training!Next \/ UNCHANGED chainsVars
  PROVE  TrainingInv'
<1>0. /\ TrainingProof!Chain = Training!Chain /\ TrainingProof!Empty = Training!Empty
      /\ \A b : TrainingProof!Full(b) <=> Training!Full(b)
      /\ \A s, r0, r1 : TrainingProof!Macs(s, r0, r1) = Training!Macs(s, r0, r1)
  BY DEF TrainingProof!Chain, Training!Chain, TrainingProof!Empty, Training!Empty,
     TrainingProof!Full, Training!Full, TrainingProof!Macs, Training!Macs,
     TrainingProof!CausalPairs, Training!CausalPairs
<1>1. /\ \A s, r0, r1, left : TrainingProof!Fits(s, r0, r1, left) <=> Training!Fits(s, r0, r1, left)
      /\ \A s, b, r0, r1 : TrainingProof!Loaded(s, b, r0, r1) = Training!Loaded(s, b, r0, r1)
  BY <1>0, ZenonT(60) DEF TrainingProof!Fits, Training!Fits, TrainingProof!MayEndAt,
     Training!MayEndAt, TrainingProof!Loaded, Training!Loaded
<1>2. \A s, r0, r1, left : TrainingProof!MayPlan(s, r0, r1, left)
                            <=> Training!MayPlan(s, r0, r1, left)
  <2>1. \A s, r0, r1, left : TrainingProof!Widest(s, r0, r1, left)
                             <=> Training!Widest(s, r0, r1, left)
    BY <1>1, Zenon DEF TrainingProof!Widest, Training!Widest
  <2>2. \A s, r0, r1, left : TrainingProof!OneBlockOff(s, r0, r1, left)
                             <=> Training!OneBlockOff(s, r0, r1, left)
    BY <1>0 DEF TrainingProof!OneBlockOff, Training!OneBlockOff
  <2> QED BY <2>1, <2>2, Zenon DEF TrainingProof!MayPlan, Training!MayPlan
<1>3. TrainingProof!PlanStep <=> Training!PlanStep
  <2>1. TrainingProof!PlanRange <=> Training!PlanRange
    BY <1>0, <1>1, <1>2, Zenon DEF TrainingProof!PlanRange, Training!PlanRange
  <2>2. TrainingProof!PlanReturns <=> Training!PlanReturns
    BY <1>0 DEF TrainingProof!PlanReturns, Training!PlanReturns
  <2>3. TrainingProof!Refuse <=> Training!Refuse
    BY <1>0, <1>1, Zenon DEF TrainingProof!Refuse, Training!Refuse
  <2>4. TrainingProof!Evaluate <=> Training!Evaluate
    BY <1>0, Zenon DEF TrainingProof!Evaluate, Training!Evaluate
  <2> QED BY <2>1, <2>2, <2>3, <2>4 DEF TrainingProof!PlanStep, Training!PlanStep
<1>4. TrainingProof!EncodeStep <=> Training!EncodeStep
  <2>1. \A c : TrainingProof!EncodeDispatch(c) <=> Training!EncodeDispatch(c)
    BY <1>0, Zenon DEF TrainingProof!EncodeDispatch, Training!EncodeDispatch
  <2>2. TrainingProof!EncodeForeign <=> Training!EncodeForeign
    BY <1>0, Zenon DEF TrainingProof!EncodeForeign, Training!EncodeForeign
  <2>3. TrainingProof!Commit <=> Training!Commit
    BY Zenon DEF TrainingProof!Commit, Training!Commit
  <2>4. TrainingProof!Finish <=> Training!Finish
    BY <1>0, Zenon DEF TrainingProof!Finish, Training!Finish
  <2> QED BY <1>0, <2>1, <2>2, <2>3, <2>4 DEF TrainingProof!EncodeStep, Training!EncodeStep
<1>5. (UNCHANGED chainsVars <=> UNCHANGED TrainingProof!vars)
      /\ (UNCHANGED Training!vars <=> UNCHANGED TrainingProof!vars)
  BY DEF chainsVars, TrainingProof!vars, Training!vars
<1>6. [TrainingProof!Next]_(TrainingProof!vars)
  BY <1>3, <1>4, <1>5 DEF TrainingProof!Next, Training!Next, TrainingProof!Stopped,
     Training!Stopped
<1> QED BY <1>6, TrainingAssumed, TrainingProof!LargeStep DEF TrainingInv

LEMMA TrainingHolds ==
  ASSUME TrainingInv
  PROVE  Training!TypeOK /\ Training!RealBufferWithinBudget
<1>1. TrainingProof!TypeOK /\ tReal.time <= TrainBudget
  BY DEF TrainingInv, TrainingProof!LargeInv
<1>2. TrainingProof!TypeOK <=> Training!TypeOK
  BY DEF TrainingProof!TypeOK, Training!TypeOK, TrainingProof!Chain, Training!Chain,
     TrainingProof!Rows, Training!Rows, TrainingProof!Buffer, Training!Buffer
<1> QED BY <1>1, <1>2 DEF Training!RealBufferWithinBudget

-----------------------------------------------------------------------------
(* The attention bodies: the groups a row adds up, and in which order. *)

LEMMA RemainderIs ==
  ASSUME NEW q \in Nat, NEW g \in Nat \ {0}, NEW x \in 0..(g - 1)
  PROVE  (q * g + x) % g = x
<1> DEFINE y == q * g + x
<1>1. y \in Nat /\ y \div g = q
  BY QuotientIs
<1>2. y = g * (y \div g) + (y % g)
  <2> HIDE DEF y
  <2> QED BY <1>1
<1> QED BY <1>1, <1>2

\* The place i - 1 of a sequence of m rows of h.
LEMMA PlaceOf ==
  ASSUME NEW h \in Nat \ {0}, NEW m \in Nat, NEW i \in 1..(m * h)
  PROVE  /\ (i - 1) \div h \in 0..(m - 1) /\ (i - 1) % h \in 0..(h - 1)
         /\ i = ((i - 1) \div h) * h + ((i - 1) % h) + 1
<1> DEFINE y == i - 1  q == y \div h
<1>1. y \in Nat /\ m * h \in Nat
  OBVIOUS
<1>2. q \in Nat /\ q * h <= y /\ y < q * h + h /\ q * h \in Nat
  <2> HIDE DEF y
  <2> QED BY <1>1, QuotientBounds
<1>3. y % h \in 0..(h - 1) /\ y = h * q + (y % h)
  <2> HIDE DEF y
  <2> QED BY <1>1
<1> HIDE DEF q
<1>4. q < m
  <2> SUFFICES ASSUME ~(q < m) PROVE FALSE
    OBVIOUS
  <2>1. PICK f \in Nat : q = m + f
    BY <1>2
  <2>2. q * h = m * h + f * h /\ f * h \in Nat
    BY <2>1
  <2> QED BY <1>1, <1>2, <2>2
<1> QED BY <1>2, <1>3, <1>4 DEF q

LEMMA PlaceIs ==
  ASSUME NEW h \in Nat \ {0}, NEW m \in Nat, NEW k \in 0..(m - 1), NEW x \in 0..(h - 1)
  PROVE  k * h + x + 1 \in 1..(m * h)
<1>1. PICK f \in Nat : m = k + 1 + f
  OBVIOUS
<1>2. m * h = k * h + h + f * h /\ f * h \in Nat /\ k * h \in Nat /\ m * h \in Nat
  BY <1>1
<1> QED BY <1>2

LEMMA RowsBefore ==
  ASSUME NEW a \in Nat, NEW b \in Nat, a <= b, NEW g \in Nat \ {0}
  PROVE  a \div g <= b \div g
<1> DEFINE p == a \div g  q == b \div g
<1>1. p \in Nat /\ q \in Nat /\ p * g <= a /\ b < q * g + g
  BY QuotientBounds
<1> HIDE DEF p, q
<1>2. ~(q < p)
  <2> SUFFICES ASSUME q < p PROVE FALSE
    OBVIOUS
  <2>1. PICK f \in Nat : p = q + 1 + f
    BY <1>1
  <2>2. p * g = q * g + g + f * g /\ f * g \in Nat /\ q * g \in Nat
    BY <1>1, <2>1
  <2> QED BY <1>1, <2>2
<1> QED BY <1>1, <1>2 DEF p, q

\* A block starts at a multiple of g and ends before the next.
LEMMA BlocksAreDisjoint ==
  ASSUME NEW g \in Nat \ {0}, NEW a \in Nat, a % g = 0
  PROVE  /\ \A x \in a..(a + g - 1) : x \div g = a \div g
         /\ \A x \in Nat : x < a => x \div g < a \div g
         /\ \A x \in Nat : a <= x /\ x \div g = a \div g => x < a + g
         /\ (a + g) % g = 0
         /\ a = (a \div g) * g
<1> DEFINE q == a \div g
<1>1. q \in Nat /\ a = q * g
  BY QuotientBounds
<1> HIDE DEF q
<1>2. \A x \in a..(a + g - 1) : x \div g = q
  <2> SUFFICES ASSUME NEW x \in a..(a + g - 1) PROVE x \div g = q
    OBVIOUS
  <2>1. PICK f \in 0..(g - 1) : x = q * g + f
    <3>1. x - a \in 0..(g - 1) /\ x = a + (x - a)
      OBVIOUS
    <3> QED BY <1>1, <3>1
  <2> QED BY <1>1, <2>1, QuotientIs
<1>3. \A x \in Nat : x < a => x \div g < q
  <2> SUFFICES ASSUME NEW x \in Nat, x < a, NEW y, y = x \div g PROVE y < q
    OBVIOUS
  <2>1. y \in Nat /\ y * g <= x
    BY QuotientBounds
  <2> SUFFICES ASSUME ~(y < q) PROVE FALSE
    BY <2>1, <1>1
  <2>2. PICK f \in Nat : y = q + f
    BY <1>1, <2>1
  <2>3. y * g = q * g + f * g /\ f * g \in Nat /\ q * g \in Nat
    BY <1>1, <2>2
  <2> QED BY <1>1, <2>1, <2>3
<1>4. \A x \in Nat : a <= x /\ x \div g = q => x < a + g
  <2> SUFFICES ASSUME NEW x \in Nat, x \div g = q PROVE x < a + g
    OBVIOUS
  <2> QED BY <1>1, QuotientBounds
<1>5. (a + g) % g = 0
  <2>1. a + g = (q + 1) * g + 0 /\ q + 1 \in Nat /\ 0 \in 0..(g - 1)
    BY <1>1
  <2> QED BY <2>1, RemainderIs, ZenonT(60)
<1> QED BY <1>1, <1>2, <1>3, <1>4, <1>5 DEF q

\* Every group of gs, once for each of h heads.
Spread(gs, h) == [i \in 1..(Len(gs) * h) |-> <<((i - 1) % h) + 1, gs[((i - 1) \div h) + 1]>>]

LEMMA SpreadFacts ==
  ASSUME NEW S, NEW gs \in Seq(S), NEW h \in Nat \ {0}
  PROVE  /\ Spread(gs, h) \in Seq((1..h) \X S)
         /\ Len(Spread(gs, h)) = Len(gs) * h
         /\ Len(gs) \in Nat /\ Len(gs) * h \in Nat
         /\ \A i \in 1..(Len(gs) * h) :
              /\ ((i - 1) \div h) + 1 \in 1..Len(gs)
              /\ Spread(gs, h)[i] = <<((i - 1) % h) + 1, gs[((i - 1) \div h) + 1]>>
<1> DEFINE m == Len(gs)
<1>1. m \in Nat /\ m * h \in Nat
  OBVIOUS
<1>2. ASSUME NEW i \in 1..(m * h)
      PROVE  ((i - 1) \div h) + 1 \in 1..m /\ ((i - 1) % h) + 1 \in 1..h
  <2> DEFINE q == (i - 1) \div h  x == (i - 1) % h
  <2> HIDE DEF m
  <2>1. q \in 0..(m - 1) /\ x \in 0..(h - 1)
    BY <1>1, PlaceOf
  <2> HIDE DEF q, x
  <2>2. q + 1 \in 1..m /\ x + 1 \in 1..h
    BY <1>1, <2>1
  <2> QED BY <2>2 DEF q, x
<1>3. \A k \in 1..m : gs[k] \in S
  OBVIOUS
<1>4. \A i \in 1..(m * h) : <<((i - 1) % h) + 1, gs[((i - 1) \div h) + 1]>> \in (1..h) \X S
  <2> HIDE DEF m
  <2> QED BY <1>2, <1>3
<1>5. Spread(gs, h) = [i \in 1..(m * h) |-> <<((i - 1) % h) + 1, gs[((i - 1) \div h) + 1]>>]
  BY DEF Spread
<1>6. Spread(gs, h) \in [1..(m * h) -> (1..h) \X S]
  <2> HIDE DEF m
  <2> QED BY <1>4, <1>5
<1>7. Spread(gs, h) \in Seq((1..h) \X S) /\ Len(Spread(gs, h)) = m * h
  <2> DEFINE p == Spread(gs, h)  T == (1..h) \X S  z == m * h
  <2>1. p \in [1..z -> T] /\ z \in Nat
    BY <1>1, <1>6
  <2> HIDE DEF p, T, z
  <2>2. p \in Seq(T) /\ Len(p) = z
    BY <2>1
  <2> QED BY <2>2 DEF p, T, z
<1> QED BY <1>1, <1>2, <1>5, <1>7

LEMMA AddedSpreads ==
  ASSUME NEW S, NEW gs \in Seq(S), NEW h \in Nat \ {0}, NEW g \in S, g # {}
  PROVE  Body!Added(Spread(gs, h), g, h) = Spread(Append(gs, g), h)
<1> DEFINE m == Len(gs)  new == [x \in 1..h |-> <<x, g>>]  more == Append(gs, g)
           T == (1..h) \X S
<1>1. Body!Added(Spread(gs, h), g, h) = Spread(gs, h) \o new
  BY DEF Body!Added
<1>2. /\ m \in Nat /\ more \in Seq(S) /\ Len(more) = m + 1
      /\ (\A k \in 1..m : more[k] = gs[k]) /\ more[m + 1] = g
  OBVIOUS
<1>3. /\ m * h \in Nat /\ (m + 1) * h = m * h + h /\ (m + 1) * h \in Nat
  <2> HIDE DEF m
  <2> QED BY <1>2
<1>4. new \in Seq(T) /\ Len(new) = h /\ \A x \in 1..h : new[x] = <<x, g>>
  <2>1. new \in [1..h -> T] /\ \A x \in 1..h : new[x] = <<x, g>>
    OBVIOUS
  <2> HIDE DEF new, T
  <2> QED BY <2>1
<1>5. /\ Spread(gs, h) \in Seq(T) /\ Len(Spread(gs, h)) = m * h
      /\ \A i \in 1..(m * h) : Spread(gs, h)[i] = <<((i - 1) % h) + 1, gs[((i - 1) \div h) + 1]>>
      /\ \A i \in 1..(m * h) : ((i - 1) \div h) + 1 \in 1..m
  BY SpreadFacts, Zenon
<1>6. /\ Spread(more, h) \in Seq(T) /\ Len(Spread(more, h)) = (m + 1) * h
      /\ \A i \in 1..((m + 1) * h) :
            Spread(more, h)[i] = <<((i - 1) % h) + 1, more[((i - 1) \div h) + 1]>>
  <2> HIDE DEF more
  <2> QED BY <1>2, SpreadFacts, ZenonT(60)
<1>7. ASSUME NEW i \in 1..(m * h) PROVE Spread(more, h)[i] = Spread(gs, h)[i]
  <2>1. i \in 1..((m + 1) * h)
    <3> HIDE DEF m
    <3> QED BY <1>3
  <2>2. more[((i - 1) \div h) + 1] = gs[((i - 1) \div h) + 1]
    BY <1>2, <1>5, Zenon
  <2> QED BY <1>5, <1>6, <2>1, <2>2, Zenon
<1>8. ASSUME NEW i \in 1..((m + 1) * h), ~(i <= m * h) PROVE Spread(more, h)[i] = new[i - m * h]
  <2> DEFINE x == i - m * h - 1
  <2>1. x \in 0..(h - 1) /\ i - 1 = m * h + x /\ i - m * h = x + 1
    <3> HIDE DEF m
    <3> QED BY <1>3, <1>8
  <2> HIDE DEF x
  <2>2. (m * h + x) \div h = m /\ (m * h + x) % h = x
    BY <1>2, <2>1, QuotientIs, RemainderIs
  <2>3. (i - 1) \div h = m /\ (i - 1) % h = x
    BY <2>1, <2>2, Zenon
  <2>4. Spread(more, h)[i] = <<x + 1, more[m + 1]>>
    BY <1>6, <2>3, Zenon
  <2>5. new[x + 1] = <<x + 1, g>>
    BY <1>4, <2>1
  <2> QED BY <1>2, <2>1, <2>4, <2>5, Zenon
<1> HIDE DEF m, new, more, T
<1>9. /\ Spread(gs, h) \o new \in Seq(T) /\ Len(Spread(gs, h) \o new) = (m + 1) * h
      /\ \A i \in 1..((m + 1) * h) : (Spread(gs, h) \o new)[i] =
           IF i <= m * h THEN Spread(gs, h)[i] ELSE new[i - m * h]
  <2> DEFINE p == Spread(gs, h)
  <2>1. p \in Seq(T) /\ Len(p) = m * h
    BY <1>5
  <2> HIDE DEF p
  <2>2. /\ p \o new \in Seq(T) /\ Len(p \o new) = m * h + h
        /\ \A i \in 1..(m * h + h) : (p \o new)[i] =
             IF i <= m * h THEN p[i] ELSE new[i - m * h]
    <3>1. /\ p \o new \in Seq(T) /\ Len(p \o new) = Len(p) + Len(new)
          /\ \A i \in 1..(Len(p) + Len(new)) : (p \o new)[i] =
               IF i <= Len(p) THEN p[i] ELSE new[i - Len(p)]
      BY <1>4, <2>1, ConcatProperties
    <3> QED BY <1>4, <2>1, <3>1
  <2> QED BY <1>3, <2>2 DEF p
<1>10. \A i \in 1..((m + 1) * h) : (Spread(gs, h) \o new)[i] = Spread(more, h)[i]
  <2> SUFFICES ASSUME NEW i \in 1..((m + 1) * h)
               PROVE  (Spread(gs, h) \o new)[i] = Spread(more, h)[i]
    OBVIOUS
  <2>1. CASE i <= m * h
    <3>1. i \in 1..(m * h)
      BY <1>3, <2>1
    <3> QED BY <1>7, <1>9, <2>1, <3>1, Zenon
  <2>2. CASE ~(i <= m * h)
    BY <1>8, <1>9, <2>2, Zenon
  <2> QED BY <2>1, <2>2, Zenon
<1>11. Spread(gs, h) \o new = Spread(more, h)
  <2> DEFINE p == Spread(gs, h) \o new  q == Spread(more, h)
  <2>1. p \in Seq(T) /\ q \in Seq(T) /\ Len(p) = Len(q) /\ \A i \in 1..Len(p) : p[i] = q[i]
    BY <1>6, <1>9, <1>10
  <2> HIDE DEF p, q
  <2>2. p = q
    BY <2>1, SeqEqual, Zenon
  <2> QED BY <2>2 DEF p, q
<1> QED BY <1>1, <1>11 DEF more

PerGroup == IF kernel.op = "dkv" THEN Heads ELSE 1

\* The groups gs hold each kept row once, in ascending order; `whole`: everything
\* kept of a block is one group.
Groups(gs, kept, whole) ==
  /\ \A k \in 1..Len(gs) : gs[k] # {} /\ gs[k] \subseteq kept
  /\ \A x \in kept : \E k \in 1..Len(gs) : x \in gs[k]
  /\ \A j, k \in 1..Len(gs) : j < k => \A x \in gs[j], y \in gs[k] : x < y
  /\ whole => \A k \in 1..Len(gs) : \A x \in gs[k] :
                gs[k] = {y \in kept : y \div Block = x \div Block}

AddsUp(p, kept) ==
  \E gs \in Seq(SUBSET Nat) : p = Spread(gs, PerGroup) /\ Groups(gs, kept, kernel.mma)

LEMMA PerGroupType == PerGroup \in Nat \ {0} /\ PerGroup <= Heads
  BY BodyAssumption DEF BodyAssumption, PerGroup

LEMMA NothingAdded == AddsUp(<<>>, {})
<1> DEFINE none == <<>>
<1>1. none \in Seq(SUBSET Nat) /\ Len(none) = 0
  OBVIOUS
<1>2. Groups(none, {}, kernel.mma)
  BY <1>1 DEF Groups
<1>3. Spread(none, PerGroup) = <<>>
  <2>1. /\ Spread(none, PerGroup) \in Seq((1..PerGroup) \X SUBSET Nat)
        /\ Len(Spread(none, PerGroup)) = Len(none) * PerGroup
    BY <1>1, PerGroupType, SpreadFacts, ZenonT(60)
  <2>2. Len(none) * PerGroup = 0
    BY <1>1, PerGroupType
  <2> DEFINE p == Spread(none, PerGroup)
  <2>3. p \in Seq((1..PerGroup) \X SUBSET Nat) /\ Len(p) = 0
    BY <2>1, <2>2
  <2> HIDE DEF p
  <2>4. p = <<>>
    BY <2>3
  <2> QED BY <2>4 DEF p
<1> HIDE DEF none
<1> QED BY <1>1, <1>2, <1>3, Zenon DEF AddsUp

LEMMA GroupJoins ==
  ASSUME NEW gs \in Seq(SUBSET Nat), NEW kept \in SUBSET Nat, NEW g \in SUBSET Nat, g # {},
         NEW whole \in BOOLEAN, Groups(gs, kept, whole),
         \A x \in kept, y \in g : x < y,
         whole => /\ \A x \in kept, y \in g : x \div Block # y \div Block
                  /\ \A x, y \in g : x \div Block = y \div Block
  PROVE  Groups(Append(gs, g), kept \cup g, whole)
<1> DEFINE m == Len(gs)  more == Append(gs, g)  all == kept \cup g
<1>1. /\ m \in Nat /\ Len(more) = m + 1
      /\ (\A k \in 1..m : more[k] = gs[k]) /\ more[m + 1] = g
  OBVIOUS
<1>2. /\ \A k \in 1..m : gs[k] # {} /\ gs[k] \subseteq kept
      /\ \A x \in kept : \E k \in 1..m : x \in gs[k]
      /\ \A j, k \in 1..m : j < k => \A x \in gs[j], y \in gs[k] : x < y
      /\ whole => \A k \in 1..m : \A x \in gs[k] :
                gs[k] = {y \in kept : y \div Block = x \div Block}
  BY Zenon DEF Groups
<1> HIDE DEF m, more
<1>3. \A k \in 1..(m + 1) : k \in 1..m \/ k = m + 1
  BY <1>1
<1>4. \A k \in 1..(m + 1) : more[k] # {} /\ more[k] \subseteq all
  BY <1>1, <1>2, <1>3
<1>5. \A x \in all : \E k \in 1..(m + 1) : x \in more[k]
  <2>1. 1..m \subseteq 1..(m + 1) /\ m + 1 \in 1..(m + 1)
    BY <1>1
  <2> QED BY <1>1, <1>2, <2>1, Zenon
<1>6. ASSUME NEW j \in 1..(m + 1), NEW k \in 1..(m + 1), j < k, NEW x \in more[j], NEW y \in more[k]
      PROVE  x < y
  <2>1. j \in 1..m
    BY <1>1, <1>6
  <2>2. CASE k \in 1..m
    BY <1>1, <1>2, <1>6, <2>1, <2>2, Zenon
  <2>3. CASE k = m + 1
    BY <1>1, <1>2, <1>6, <2>1, <2>3, Zenon
  <2> QED BY <1>3, <2>2, <2>3
<1>7. ASSUME whole, NEW k \in 1..(m + 1), NEW x \in more[k]
      PROVE  more[k] = {y \in all : y \div Block = x \div Block}
  <2>1. CASE k \in 1..m
    <3>1. gs[k] = {y \in kept : y \div Block = x \div Block} /\ x \in kept
      BY <1>1, <1>2, <1>7, <2>1, Zenon
    <3>2. \A y \in g : y \div Block # x \div Block
      BY <1>7, <3>1, Zenon
    <3>3. {y \in all : y \div Block = x \div Block} = {y \in kept : y \div Block = x \div Block}
      BY <3>2, Zenon
    <3> QED BY <1>1, <2>1, <3>1, <3>3, Zenon
  <2>2. CASE k = m + 1
    <3>1. x \in g /\ more[k] = g
      BY <1>1, <1>7, <2>2, Zenon
    <3>2. (\A y \in kept : y \div Block # x \div Block) /\ \A y \in g : y \div Block = x \div Block
      BY <1>7, <3>1, Zenon
    <3>3. {y \in all : y \div Block = x \div Block} = g
      BY <3>2, Zenon
    <3> QED BY <3>1, <3>3, Zenon
  <2> QED BY <1>3, <2>1, <2>2
<1> QED BY <1>1, <1>4, <1>5, <1>6, <1>7 DEF Groups, more

\* What a block or a row adds joins what was added before it.
LEMMA GroupAdded ==
  ASSUME NEW p, NEW kept \in SUBSET Nat, NEW g \in SUBSET Nat, kernel.mma \in BOOLEAN,
         AddsUp(p, kept), \A x \in kept, y \in g : x < y,
         kernel.mma => /\ \A x \in kept, y \in g : x \div Block # y \div Block
                       /\ \A x, y \in g : x \div Block = y \div Block
  PROVE  AddsUp(Body!Added(p, g, PerGroup), kept \cup g)
<1>1. CASE g = {}
  <2>1. Body!Added(p, g, PerGroup) = p /\ kept \cup g = kept
    BY <1>1 DEF Body!Added
  <2> QED BY <2>1, Zenon
<1>2. CASE g # {}
  <2>1. PICK gs \in Seq(SUBSET Nat) :
          p = Spread(gs, PerGroup) /\ Groups(gs, kept, kernel.mma)
    BY DEF AddsUp
  <2>2. Body!Added(p, g, PerGroup) = Spread(Append(gs, g), PerGroup)
    BY <1>2, <2>1, PerGroupType, AddedSpreads, ZenonT(60)
  <2>3. Groups(Append(gs, g), kept \cup g, kernel.mma)
    BY <1>2, <2>1, GroupJoins, Zenon
  <2>4. Append(gs, g) \in Seq(SUBSET Nat)
    OBVIOUS
  <2> QED BY <2>2, <2>3, <2>4, Zenon DEF AddsUp
<1> QED BY <1>1, <1>2

LEMMA AddedType ==
  ASSUME NEW p, NEW m \in Nat, NEW kept \in SUBSET (0..(m - 1)), AddsUp(p, kept)
  PROVE  p \in Seq((1..Heads) \X SUBSET (0..(m - 1)))
<1>1. PICK gs \in Seq(SUBSET Nat) : p = Spread(gs, PerGroup) /\ Groups(gs, kept, kernel.mma)
  BY DEF AddsUp
<1>2. gs \in Seq(SUBSET (0..(m - 1)))
  BY <1>1 DEF Groups
<1>3. p \in Seq((1..PerGroup) \X SUBSET (0..(m - 1)))
  BY <1>1, <1>2, PerGroupType, SpreadFacts, Zenon
<1>4. (1..PerGroup) \X SUBSET (0..(m - 1)) \subseteq (1..Heads) \X SUBSET (0..(m - 1))
  BY PerGroupType, BodyAssumption DEF BodyAssumption
<1> QED BY <1>3, <1>4, SeqMonotonic, Zenon

\* Induction up to a bound, over the members of a set.
LEMMA ByRows ==
  ASSUME NEW m \in Nat, NEW T, 0 \in T, \A i \in 0..(m - 1) : i \in T => i + 1 \in T
  PROVE  \A i \in 0..m : i \in T
<1> SUFFICES ASSUME NEW x \in 0..m, x \notin T PROVE FALSE
  OBVIOUS
<1> DEFINE U == {i \in 0..m : i \notin T}
<1>1. U \subseteq Nat /\ U # {}
  OBVIOUS
<1>2. PICK i \in U : \A k \in U : i <= k
  BY <1>1, LeastNumber
<1>3. i # 0 /\ i - 1 \in 0..(m - 1) /\ i - 1 \notin U
  BY <1>2
<1> QED BY <1>2, <1>3

LEMMA RowByRow ==
  ASSUME NEW p, NEW kept \in SUBSET Nat, NEW more \in SUBSET (0..(n - 1)), n \in Nat,
         kernel.mma = FALSE, AddsUp(p, kept), \A x \in kept, y \in more : x < y
  PROVE  AddsUp(Body!OneByOne(p, more, PerGroup), kept \cup more)
<1> DEFINE Plus(q, i) == Body!Added(q, more \cap {i - 1}, PerGroup)
           Part(f, k) == /\ f = [i \in 0..k |-> f[i]] /\ f[0] = p
                         /\ \A i \in 1..k : f[i] = Plus(f[i - 1], i)
           T == {k \in 0..n : \E f : Part(f, k)}
           Below(i) == kept \cup {y \in more : y < i}
<1>0. /\ 0 \in 0..n /\ \A i \in 1..n : i \in 0..n /\ i # 0
      /\ \A i \in 0..n : i = 0 \/ i \in 1..n
      /\ Below(n) = kept \cup more /\ Below(0) = kept
  <2>1. 0 \in 0..n /\ \A i \in 1..n : i \in 0..n /\ i # 0
    OBVIOUS
  <2>2. \A i \in 0..n : i = 0 \/ i \in 1..n
    OBVIOUS
  <2>3. \A y \in more : y < n /\ ~(y < 0)
    OBVIOUS
  <2> QED BY <2>1, <2>2, <2>3, Zenon
<1>1. 0 \in T
  <2>1. Part([i \in 0..0 |-> p], 0)
    OBVIOUS
  <2>2. 0 \in 0..n
    OBVIOUS
  <2> HIDE DEF Part
  <2> QED BY <2>1, <2>2
<1>2. ASSUME NEW k \in 0..(n - 1), k \in T PROVE k + 1 \in T
  <2>1. PICK f : Part(f, k)
    BY <1>2
  <2> DEFINE h == [i \in 0..(k + 1) |-> IF i = k + 1 THEN Plus(f[k], k + 1) ELSE f[i]]
  <2> HIDE DEF Plus
  <2>2. h = [i \in 0..(k + 1) |-> h[i]] /\ h[0] = p
    BY <2>1
  <2>3. \A i \in 1..(k + 1) : h[i] = Plus(h[i - 1], i)
    <3> SUFFICES ASSUME NEW i \in 1..(k + 1) PROVE h[i] = Plus(h[i - 1], i)
      OBVIOUS
    <3>1. i - 1 \in 0..(k + 1) /\ i - 1 # k + 1 /\ i \in 0..(k + 1)
      OBVIOUS
    <3>2. h[i - 1] = f[i - 1]
      BY <3>1
    <3>3. CASE i = k + 1
      <4>1. i - 1 = k /\ h[i] = Plus(f[k], i)
        BY <3>1, <3>3
      <4> QED BY <3>2, <4>1
    <3>4. CASE i # k + 1
      <4>1. i \in 1..k /\ h[i] = f[i]
        BY <3>1, <3>4
      <4> QED BY <2>1, <3>2, <4>1
    <3> QED BY <3>3, <3>4
  <2> HIDE DEF h
  <2>4. Part(h, k + 1)
    BY <2>2, <2>3
  <2>5. k + 1 \in 0..n
    OBVIOUS
  <2> HIDE DEF Part
  <2> QED BY <2>4, <2>5
<1>3. PICK f : Part(f, n)
  <2>1. \A k \in 0..n : k \in T
    <3> HIDE DEF T
    <3> QED BY <1>1, <1>2, ByRows
  <2> HIDE DEF Part
  <2> QED BY <2>1
<1> DEFINE Rec(f_) == f_ = [i \in 0..n |-> IF i = 0 THEN p ELSE Plus(f_[i - 1], i)]
           whole == CHOOSE f_ : Rec(f_)
<1>4. Rec(whole)
  <2>1. Rec(f)
    <3> HIDE DEF Plus
    <3>1. [i \in 0..n |-> f[i]] = [i \in 0..n |-> IF i = 0 THEN p ELSE Plus(f[i - 1], i)]
      <4>1. \A i \in 0..n : f[i] = IF i = 0 THEN p ELSE Plus(f[i - 1], i)
        BY <1>0, <1>3, Zenon
      <4> QED BY <4>1, Zenon
    <3> QED BY <1>3, <3>1, Zenon
  <2> HIDE DEF Rec
  <2> QED BY <2>1
<1>5. Body!OneByOne(p, more, PerGroup) = whole[n]
  BY Zenon DEF Body!OneByOne
<1> HIDE DEF whole
<1>6. whole[0] = p /\ \A i \in 1..n : whole[i] = Plus(whole[i - 1], i)
  <2> HIDE DEF Plus
  <2> QED BY <1>0, <1>4, Zenon
<1> DEFINE V == {i \in 0..n : AddsUp(whole[i], Below(i))}
<1>7. 0 \in V
  <2> HIDE DEF Below
  <2>1. AddsUp(whole[0], Below(0))
    BY <1>0, <1>6, Zenon
  <2> QED BY <1>0, <2>1
<1>8. ASSUME NEW k \in 0..(n - 1), k \in V PROVE k + 1 \in V
  <2> DEFINE g == more \cap {k}
  <2>1. k + 1 \in 1..n /\ k + 1 \in 0..n /\ (k + 1) - 1 = k
    OBVIOUS
  <2>2. whole[k + 1] = Body!Added(whole[k], g, PerGroup)
    BY <1>6, <2>1, Zenon
  <2>3. /\ Below(k) \in SUBSET Nat /\ g \in SUBSET Nat /\ \A x \in Below(k), y \in g : x < y
        /\ Below(k + 1) = Below(k) \cup g
    <3>1. \A y \in more : y \in Nat /\ (y < k + 1 <=> y < k \/ y = k)
      OBVIOUS
    <3>2. Below(k) \in SUBSET Nat /\ g \in SUBSET Nat
      BY <3>1, Zenon
    <3>3. \A x \in Below(k), y \in g : x < y
      BY <3>1
    <3> QED BY <3>1, <3>2, <3>3, Zenon
  <2>4. AddsUp(whole[k], Below(k))
    BY <1>8
  <2> HIDE DEF Below, g
  <2>5. kernel.mma \in BOOLEAN /\ ~kernel.mma
    OBVIOUS
  <2>6. AddsUp(Body!Added(whole[k], g, PerGroup), Below(k) \cup g)
    BY <2>3, <2>4, <2>5, GroupAdded, Zenon
  <2> QED BY <2>1, <2>2, <2>3, <2>6, Zenon
<1>9. n \in V
  <2>1. \A i \in 0..n : i \in V
    <3> HIDE DEF V
    <3> QED BY <1>7, <1>8, ByRows
  <2> HIDE DEF V
  <2> QED BY <2>1
<1> HIDE DEF Below
<1> QED BY <1>0, <1>5, <1>9, Zenon

\* What a sum of groups is made of: one group per place, heads in turn.
LEMMA PlacesOf ==
  ASSUME NEW p, NEW kept \in SUBSET Nat, AddsUp(p, kept)
  PROVE  \E gs \in Seq(SUBSET Nat) :
           /\ Groups(gs, kept, kernel.mma)
           /\ Len(p) = Len(gs) * PerGroup /\ Len(p) \in Nat
           /\ \A i \in 1..Len(p) :
                /\ ((i - 1) \div PerGroup) + 1 \in 1..Len(gs)
                /\ p[i][1] = ((i - 1) % PerGroup) + 1
                /\ p[i][2] = gs[((i - 1) \div PerGroup) + 1]
<1>1. PICK gs \in Seq(SUBSET Nat) : p = Spread(gs, PerGroup) /\ Groups(gs, kept, kernel.mma)
  BY DEF AddsUp
<1>2. /\ Len(p) = Len(gs) * PerGroup /\ Len(p) \in Nat
      /\ \A i \in 1..Len(p) :
              /\ ((i - 1) \div PerGroup) + 1 \in 1..Len(gs)
              /\ p[i] = <<((i - 1) % PerGroup) + 1, gs[((i - 1) \div PerGroup) + 1]>>
  BY <1>1, PerGroupType, SpreadFacts, Zenon
<1>3. \A i \in 1..Len(p) : p[i][1] = ((i - 1) % PerGroup) + 1
                           /\ p[i][2] = gs[((i - 1) \div PerGroup) + 1]
  BY <1>2
<1> QED BY <1>1, <1>2, <1>3, Zenon

LEMMA EachRowOnce ==
  ASSUME NEW p, NEW kept \in SUBSET Nat, AddsUp(p, kept)
  PROVE  /\ UNION {p[i][2] : i \in 1..Len(p)} = kept
         /\ \A i, j \in 1..Len(p) : i # j /\ p[i][1] = p[j][1] => p[i][2] \cap p[j][2] = {}
         /\ \A h \in 1..PerGroup :
              UNION {p[i][2] : i \in {x \in 1..Len(p) : p[x][1] = h}} = kept
<1>1. PICK gs \in Seq(SUBSET Nat) :
        /\ Groups(gs, kept, kernel.mma)
        /\ Len(p) = Len(gs) * PerGroup /\ Len(p) \in Nat
        /\ \A i \in 1..Len(p) :
             /\ ((i - 1) \div PerGroup) + 1 \in 1..Len(gs)
             /\ p[i][1] = ((i - 1) % PerGroup) + 1
             /\ p[i][2] = gs[((i - 1) \div PerGroup) + 1]
  BY PlacesOf
<1>2. /\ \A k \in 1..Len(gs) : gs[k] # {} /\ gs[k] \subseteq kept
      /\ \A x \in kept : \E k \in 1..Len(gs) : x \in gs[k]
      /\ \A j, k \in 1..Len(gs) : j < k => \A x \in gs[j], y \in gs[k] : x < y
  BY <1>1 DEF Groups
<1>3. PerGroup \in Nat \ {0} /\ Len(gs) \in Nat
  BY PerGroupType
<1>4. \A i \in 1..Len(p) : p[i][2] \subseteq kept
  BY <1>1, <1>2, Zenon
<1>5. ASSUME NEW h \in 1..PerGroup, NEW x \in kept
      PROVE  \E i \in 1..Len(p) : p[i][1] = h /\ x \in p[i][2]
  <2>1. PICK k \in 1..Len(gs) : x \in gs[k]
    BY <1>2
  <2> DEFINE a == k - 1  b == h - 1  i == a * PerGroup + b + 1
  <2>2. /\ a \in 0..(Len(gs) - 1) /\ b \in 0..(PerGroup - 1) /\ a \in Nat
        /\ a + 1 = k /\ b + 1 = h
    BY <1>3
  <2> HIDE DEF a, b
  <2>3. i \in 1..Len(p) /\ i - 1 = a * PerGroup + b
    <3>1. a * PerGroup \in Nat
      BY <1>3, <2>2
    <3>2. i \in 1..(Len(gs) * PerGroup)
      BY <1>3, <2>2, PlaceIs
    <3> QED BY <1>1, <2>2, <3>1, <3>2
  <2>4. (i - 1) \div PerGroup = a /\ (i - 1) % PerGroup = b
    <3>1. (a * PerGroup + b) \div PerGroup = a /\ (a * PerGroup + b) % PerGroup = b
      BY <1>3, <2>2, QuotientIs, RemainderIs
    <3> QED BY <2>3, <3>1, Zenon
  <2> HIDE DEF i
  <2>5. p[i][1] = b + 1 /\ p[i][2] = gs[a + 1]
    BY <1>1, <2>3, <2>4, Zenon
  <2> QED BY <2>1, <2>2, <2>3, <2>5, Zenon
<1>6. ASSUME NEW h \in 1..PerGroup
      PROVE  UNION {p[i][2] : i \in {x \in 1..Len(p) : p[x][1] = h}} = kept
  <2> DEFINE I == {x \in 1..Len(p) : p[x][1] = h}
  <2>1. \A i \in I : p[i][2] \subseteq kept
    BY <1>4, Zenon
  <2>2. \A x \in kept : \E i \in I : x \in p[i][2]
    BY <1>5, ZenonT(60)
  <2> HIDE DEF I
  <2>3. UNION {p[i][2] : i \in I} = kept
    BY <2>1, <2>2
  <2> QED BY <2>3 DEF I
<1>7. UNION {p[i][2] : i \in 1..Len(p)} = kept
  <2>1. 1 \in 1..PerGroup
    BY <1>3
  <2>2. \A x \in kept : \E i \in 1..Len(p) : x \in p[i][2]
    BY <1>5, <2>1, Zenon
  <2> QED BY <1>4, <2>2
<1>8. ASSUME NEW i \in 1..Len(p), NEW j \in 1..Len(p), i # j, p[i][1] = p[j][1]
      PROVE  p[i][2] \cap p[j][2] = {}
  <2> DEFINE a == ((i - 1) \div PerGroup) + 1  b == ((j - 1) \div PerGroup) + 1
             r == (i - 1) % PerGroup  s == (j - 1) % PerGroup
  <2>1. /\ a \in 1..Len(gs) /\ b \in 1..Len(gs) /\ p[i][2] = gs[a] /\ p[j][2] = gs[b]
        /\ p[i][1] = r + 1 /\ p[j][1] = s + 1
    BY <1>1, Zenon
  <2>2. /\ i = (a - 1) * PerGroup + r + 1 /\ j = (b - 1) * PerGroup + s + 1
        /\ r \in 0..(PerGroup - 1) /\ s \in 0..(PerGroup - 1)
    <3>1. \A m \in 1..Len(p) : /\ (m - 1) \div PerGroup \in 0..(Len(gs) - 1)
                               /\ (m - 1) % PerGroup \in 0..(PerGroup - 1)
                               /\ m = ((m - 1) \div PerGroup) * PerGroup + ((m - 1) % PerGroup) + 1
      BY <1>1, <1>3, PlaceOf, Zenon
    <3> DEFINE u == (i - 1) \div PerGroup  v == (j - 1) \div PerGroup
    <3>2. /\ u \in Nat /\ v \in Nat /\ r \in 0..(PerGroup - 1) /\ s \in 0..(PerGroup - 1)
          /\ i = u * PerGroup + r + 1 /\ j = v * PerGroup + s + 1
      BY <3>1
    <3> HIDE DEF u, v, r, s
    <3>3. (u + 1) - 1 = u /\ (v + 1) - 1 = v
      BY <3>2
    <3> QED BY <3>2, <3>3 DEF u, v
  <2> HIDE DEF a, b, r, s
  <2>3. r = s
    <3>1. r + 1 = s + 1
      BY <1>8, <2>1, Zenon
    <3> QED BY <1>3, <2>2, <3>1
  <2>4. a # b
    BY <1>8, <2>2, <2>3, Zenon
  <2>5. a < b \/ b < a
    BY <1>3, <2>1, <2>4
  <2>6. \A x \in gs[a], y \in gs[b] : x # y
    <3>1. \A x \in gs[a] : x \in Nat /\ ~(x < x)
      BY <1>2, <2>1
    <3> QED BY <1>2, <2>1, <2>5, <3>1, ZenonT(60)
  <2> QED BY <2>1, <2>6, Zenon
<1> QED BY <1>6, <1>7, <1>8, Zenon

LEMMA LeastIn ==
  ASSUME NEW S \in SUBSET Nat, S # {}
  PROVE  Body!Min(S) \in S /\ \A y \in S : Body!Min(S) <= y
<1>1. \E m \in S : \A k \in S : m <= k
  BY LeastNumber
<1> QED BY <1>1, Zenon DEF Body!Min

LEMMA InBlock ==
  ASSUME NEW g \in Nat \ {0}, NEW q \in Nat, NEW y \in Nat
  PROVE  y \div g = q <=> y \in (q * g)..(q * g + g - 1)
<1>1. q * g \in Nat
  OBVIOUS
<1>2. ASSUME y \div g = q PROVE y \in (q * g)..(q * g + g - 1)
  BY <1>1, <1>2, QuotientBounds
<1>3. ASSUME y \in (q * g)..(q * g + g - 1) PROVE y \div g = q
  <2>1. y - q * g \in 0..(g - 1) /\ q * g + (y - q * g) = y
    BY <1>1, <1>3
  <2> QED BY <2>1, QuotientIs
<1> QED BY <1>2, <1>3

LEMMA NextPlace ==
  ASSUME NEW h \in Nat \ {0}, NEW q \in Nat, NEW r \in 0..(h - 1), NEW i, i = q * h + r + 1
  PROVE  IF r + 1 < h THEN i \div h = q /\ i % h = r + 1
                      ELSE i \div h = q + 1 /\ i % h = 0
<1>1. CASE r + 1 < h
  <2>1. r + 1 \in 0..(h - 1) /\ i = q * h + (r + 1)
    <3>1. q * h \in Nat
      OBVIOUS
    <3> QED BY <1>1, <3>1
  <2>2. (q * h + (r + 1)) \div h = q /\ (q * h + (r + 1)) % h = r + 1
    <3> DEFINE x == r + 1
    <3>1. x \in 0..(h - 1)
      BY <2>1
    <3> HIDE DEF x
    <3>2. (q * h + x) \div h = q /\ (q * h + x) % h = x
      BY <3>1, QuotientIs, RemainderIs
    <3> QED BY <3>2 DEF x
  <2> QED BY <1>1, <2>1, <2>2, Zenon
<1>2. CASE ~(r + 1 < h)
  <2>1. i = (q + 1) * h + 0
    <3>1. q * h \in Nat /\ (q + 1) * h = q * h + h
      OBVIOUS
    <3> QED BY <1>2, <3>1
  <2>2. ((q + 1) * h + 0) \div h = q + 1 /\ ((q + 1) * h + 0) % h = 0
    <3> DEFINE m == q + 1
    <3>1. m \in Nat /\ 0 \in 0..(h - 1)
      OBVIOUS
    <3> HIDE DEF m
    <3>2. (m * h + 0) \div h = m /\ (m * h + 0) % h = 0
      BY <3>1, QuotientIs, RemainderIs
    <3> QED BY <3>2 DEF m
  <2> QED BY <1>2, <2>1, <2>2, Zenon
<1> QED BY <1>1, <1>2

BlockAt(p, i) == Body!Min(p[i][2]) \div Block

LEMMA BlocksInOrder ==
  ASSUME NEW p, NEW kept \in SUBSET Nat, AddsUp(p, kept), kernel.mma
  PROVE  /\ \A i \in 1..Len(p) :
              p[i][2] = kept \cap ((BlockAt(p, i) * Block)..(BlockAt(p, i) * Block + Block - 1))
         /\ \A i \in 1..(Len(p) - 1) :
              \/ /\ i % PerGroup # 0 /\ BlockAt(p, i) = BlockAt(p, i + 1)
                 /\ p[i + 1][1] = p[i][1] + 1
              \/ i % PerGroup = 0 /\ BlockAt(p, i) < BlockAt(p, i + 1) /\ p[i + 1][1] = 1
<1>1. PICK gs \in Seq(SUBSET Nat) :
        /\ Groups(gs, kept, kernel.mma)
        /\ Len(p) = Len(gs) * PerGroup /\ Len(p) \in Nat
        /\ \A i \in 1..Len(p) :
             /\ ((i - 1) \div PerGroup) + 1 \in 1..Len(gs)
             /\ p[i][1] = ((i - 1) % PerGroup) + 1
             /\ p[i][2] = gs[((i - 1) \div PerGroup) + 1]
  BY PlacesOf
<1> DEFINE At(k) == Body!Min(gs[k]) \div Block
<1>2. /\ \A k \in 1..Len(gs) : gs[k] # {} /\ gs[k] \subseteq kept
      /\ \A j, k \in 1..Len(gs) : j < k => \A x \in gs[j], y \in gs[k] : x < y
      /\ \A k \in 1..Len(gs) : \A x \in gs[k] : gs[k] = {y \in kept : y \div Block = x \div Block}
  BY <1>1, Zenon DEF Groups
<1>3. PerGroup \in Nat \ {0} /\ Len(gs) \in Nat /\ Block \in Nat \ {0}
  BY PerGroupType, BodyAssumption DEF BodyAssumption
<1>4. \A k \in 1..Len(gs) : /\ Body!Min(gs[k]) \in gs[k] /\ At(k) \in Nat
                            /\ gs[k] = {y \in kept : y \div Block = At(k)}
  <2> SUFFICES ASSUME NEW k \in 1..Len(gs)
               PROVE  /\ Body!Min(gs[k]) \in gs[k] /\ At(k) \in Nat
                      /\ gs[k] = {y \in kept : y \div Block = At(k)}
    OBVIOUS
  <2>1. Body!Min(gs[k]) \in gs[k]
    <3>1. gs[k] \in SUBSET Nat /\ gs[k] # {}
      BY <1>2
    <3> QED BY <3>1, LeastIn, Zenon
  <2>2. gs[k] = {y \in kept : y \div Block = At(k)}
    BY <1>2, <2>1, Zenon
  <2>3. Body!Min(gs[k]) \in Nat
    BY <1>2, <2>1
  <2>4. At(k) \in Nat
    BY <1>3, <2>3, QuotientBounds
  <2> QED BY <2>1, <2>2, <2>4
<1>5. \A k \in 1..Len(gs) : gs[k] = kept \cap ((At(k) * Block)..(At(k) * Block + Block - 1))
  <2> SUFFICES ASSUME NEW k \in 1..Len(gs), NEW q, q = At(k)
               PROVE  gs[k] = kept \cap ((q * Block)..(q * Block + Block - 1))
    BY Zenon
  <2>1. q \in Nat /\ gs[k] = {y \in kept : y \div Block = q}
    BY <1>4, Zenon
  <2>2. \A y \in kept : y \div Block = q <=> y \in (q * Block)..(q * Block + Block - 1)
    BY <1>3, <2>1, InBlock
  <2> QED BY <2>1, <2>2, Zenon
<1>6. \A j, k \in 1..Len(gs) : j < k => At(j) < At(k)
  <2> SUFFICES ASSUME NEW j \in 1..Len(gs), NEW k \in 1..Len(gs), j < k PROVE At(j) < At(k)
    OBVIOUS
  <2> DEFINE x == Body!Min(gs[j])  y == Body!Min(gs[k])
  <2>1. x \in gs[j] /\ y \in gs[k] /\ x \in Nat /\ y \in Nat /\ At(j) \in Nat /\ At(k) \in Nat
    BY <1>2, <1>4
  <2>2. x < y
    BY <1>2, <2>1, Zenon
  <2>3. At(j) <= At(k)
    <3> HIDE DEF x, y, At
    <3>0. x \in Nat /\ y \in Nat /\ x <= y
      BY <2>1, <2>2
    <3>1. x \div Block <= y \div Block
      BY <1>3, <3>0, RowsBefore, Zenon
    <3> QED BY <3>1, Zenon DEF x, y, At
  <2>4. At(j) # At(k)
    <3> SUFFICES ASSUME At(j) = At(k) PROVE FALSE
      OBVIOUS
    <3>1. gs[j] = gs[k]
      BY <1>4, Zenon
    <3>2. x < x
      BY <1>2, <2>1, <3>1, Zenon
    <3> QED BY <2>1, <3>2
  <2> QED BY <2>1, <2>3, <2>4
<1> HIDE DEF At
<1>7. \A i \in 1..Len(p) : BlockAt(p, i) = At(((i - 1) \div PerGroup) + 1)
  BY <1>1, Zenon DEF BlockAt, At
<1>8. \A i \in 1..Len(p) :
        p[i][2] = kept \cap ((BlockAt(p, i) * Block)..(BlockAt(p, i) * Block + Block - 1))
  BY <1>1, <1>5, <1>7, Zenon
<1>9. ASSUME NEW i \in 1..(Len(p) - 1)
      PROVE  \/ /\ i % PerGroup # 0 /\ BlockAt(p, i) = BlockAt(p, i + 1)
                /\ p[i + 1][1] = p[i][1] + 1
             \/ i % PerGroup = 0 /\ BlockAt(p, i) < BlockAt(p, i + 1) /\ p[i + 1][1] = 1
  <2> DEFINE q == (i - 1) \div PerGroup  r == (i - 1) % PerGroup
  <2>1. i \in 1..Len(p) /\ i + 1 \in 1..Len(p) /\ (i + 1) - 1 = i
    BY <1>1
  <2>2. /\ q \in 0..(Len(gs) - 1) /\ r \in 0..(PerGroup - 1) /\ i = q * PerGroup + r + 1
    <3>1. i \in 1..(Len(gs) * PerGroup)
      BY <1>1, <2>1, Zenon
    <3> QED BY <1>3, <3>1, PlaceOf, Zenon
  <2>3. /\ q + 1 \in 1..Len(gs) /\ (i \div PerGroup) + 1 \in 1..Len(gs)
        /\ p[i][1] = r + 1 /\ p[i + 1][1] = (i % PerGroup) + 1
        /\ BlockAt(p, i) = At(q + 1) /\ BlockAt(p, i + 1) = At((i \div PerGroup) + 1)
    BY <1>1, <1>7, <2>1, Zenon
  <2> HIDE DEF q, r
  <2>4. q \in Nat
    BY <1>3, <2>2
  <2>5. IF r + 1 < PerGroup THEN i \div PerGroup = q /\ i % PerGroup = r + 1
                            ELSE i \div PerGroup = q + 1 /\ i % PerGroup = 0
    BY <1>3, <2>2, <2>4, NextPlace, ZenonT(60)
  <2>6. CASE r + 1 < PerGroup
    <3>1. r + 1 # 0
      BY <1>3, <2>2
    <3> QED BY <2>3, <2>5, <2>6, <3>1, Zenon
  <2>7. CASE ~(r + 1 < PerGroup)
    <3>1. q + 1 < (q + 1) + 1 /\ 0 + 1 = 1
      BY <2>4
    <3> QED BY <1>6, <2>3, <2>5, <2>7, <3>1, Zenon
  <2> QED BY <2>6, <2>7
<1> QED BY <1>8, <1>9

(* Per row and slab, what is stored; per simdgroup, what its lines hold. *)

ConfigOK ==
  /\ kernel \in Body!Kernels /\ n \in Nat \ {0} /\ n <= MaxRows
  /\ seg \in [Body!Rows -> Body!Rows]
  /\ \A i, j \in Body!Rows : i <= j => seg[i] <= seg[j]
  /\ cuts \subseteq 1..(n - 1)
  /\ kernel.op = "dkv" /\ kernel.mma => \A c \in cuts : c % Block = 0

\* Dispatches that have ended when the queries up to r are served.
Dispatches(r) == IF r = 0 THEN 0 ELSE Cardinality({c \in cuts : c < r}) + 1

Owners == IF kernel.op = "dkv" THEN n ELSE range.hi - range.lo

RangeInv ==
  /\ range.lo \in Nat /\ range.hi \in Nat /\ range.lo <= range.hi /\ range.hi <= n
  /\ range.lo \in cuts \cup {0} /\ range.hi \in cuts \cup {0, n}
  /\ range.hi = 0 => grid = {} /\ tile = Body!Idle
  /\ range.hi # 0 => range.lo < range.hi /\ Dispatches(range.hi) = Dispatches(range.lo) + 1
  /\ grid \subseteq 0..(Owners - 1)
  /\ kernel.mma => \A b \in grid : b % Block = 0

\* The first row of the simdgroup (or the thread) that serves r in this dispatch.
Home(r) ==
  LET x == IF kernel.op = "dkv" THEN r ELSE r - range.lo
  IN  IF kernel.mma THEN (x \div Block) * Block ELSE x

Pending(r, s) ==
  Home(r) \in grid \/ (tile # Body!Idle /\ tile.base = Home(r) /\ tile.slab <= s)

ServedTo(r, s) == IF Pending(r, s) THEN range.lo ELSE range.hi

\* What r has to hold when the queries below m are served, and how often it was stored.
Sought(r, m) ==
  IF kernel.op = "dkv" THEN {i \in 0..(m - 1) : Body!Keep(i, r)}
  ELSE IF r < m THEN {k \in Body!Rows : Body!Keep(r, k)} ELSE {}

Writes(r, m) == IF kernel.op = "dkv" THEN Dispatches(m) ELSE IF r < m THEN 1 ELSE 0

Holds(o, r, m) == ~o.nan /\ AddsUp(o.sums, Sought(r, m)) /\ o.writes = Writes(r, m)

Results == [sums : Seq((1..Heads) \X SUBSET Body!Rows), nan : BOOLEAN, writes : Nat]

OutInv ==
  /\ out \in [Body!Rows -> [1..Slabs -> Results]]
  /\ \A r \in Body!Rows, s \in 1..Slabs : Holds(out[r][s], r, ServedTo(r, s))

\* What line j of the simdgroup at b holds when the rows below m are visited.
LineDue(b, j, m) ==
  IF kernel.op = "dkv"
  THEN {i \in 0..(range.hi - 1) : /\ IF i < range.lo THEN b + j < n ELSE Body!Bounds(b).first <= i
                                  /\ i < m /\ Body!Keep(i, b + j)}
  ELSE {k \in Body!Rows : /\ Body!Bounds(b).first <= k /\ k < m
                          /\ Body!Keep(range.lo + b + j, k)}

LineHolds(line, b, j, m) ==
  /\ AddsUp(line.sums, LineDue(b, j, m)) /\ ~line.nan
  /\ kernel.op = "fwd" => (line.seen <=> LineDue(b, j, m) # {})

AtWork(t) ==
  /\ t \in [base : Body!Rows, slab : 1..Slabs, next : 0..(n + Block),
            acc : [0..(Block - 1) -> Body!Lines]]
  /\ t.base % Block = 0 /\ t.base < Owners
  /\ t.next % Block = 0 /\ Body!Bounds(t.base).first <= t.next
  /\ \A j \in 0..(Block - 1) : LineHolds(t.acc[j], t.base, j, t.next)

TileInv == tile = Body!Idle \/ (kernel.mma /\ tile.base \notin grid /\ AtWork(tile))

BodyInv == ConfigOK /\ RangeInv /\ OutInv /\ TileInv

LEMMA KernelFacts ==
  ASSUME ConfigOK
  PROVE  /\ kernel.op \in {"fwd", "dq", "dkv"} /\ kernel.mma \in BOOLEAN
         /\ kernel.causal \in BOOLEAN /\ kernel.packed \in BOOLEAN /\ kernel.bound \in BOOLEAN
         /\ (kernel.packed => kernel.causal) /\ (kernel.bound => kernel.packed)
         /\ Block \in Nat \ {0} /\ Slabs \in Nat \ {0} /\ Heads \in Nat \ {0} /\ MaxRows \in Nat
         /\ n \in Nat \ {0} /\ 0 \in Body!Rows /\ Body!Rows \subseteq Nat
  BY BodyAssumption DEF BodyAssumption, ConfigOK, Body!Kernels, Body!LegalKernel, Body!Rows

LEMMA SegmentsAscend ==
  ASSUME n \in Nat \ {0}, seg \in Body!Segmentations(n)
  PROVE  /\ seg \in [Body!Rows -> Body!Rows]
         /\ \A i, j \in Body!Rows : i <= j => seg[i] <= seg[j]
<1>1. /\ seg \in [0..(n - 1) -> 0..(n - 1)]
      /\ \A i \in 1..(n - 1) : seg[i] \in {seg[i - 1], seg[i - 1] + 1}
  BY DEF Body!Segmentations
<1>2. ASSUME NEW i \in 0..(n - 1) PROVE \A j \in 0..(n - 1) : i <= j => seg[i] <= seg[j]
  <2> DEFINE T == {m \in 0..(n - 1) : m < i \/ seg[i] <= seg[m]}
  <2>1. n - 1 \in Nat /\ 0 \in T
    BY <1>1
  <2>2. \A m \in 0..((n - 1) - 1) : m \in T => m + 1 \in T
    <3> SUFFICES ASSUME NEW m \in 0..((n - 1) - 1), m \in T PROVE m + 1 \in T
      OBVIOUS
    <3>1. m + 1 \in 1..(n - 1) /\ m + 1 \in 0..(n - 1) /\ (m + 1) - 1 = m /\ m \in 0..(n - 1)
      OBVIOUS
    <3>2. seg[m + 1] \in {seg[m], seg[m] + 1} /\ seg[m] \in Nat /\ seg[i] \in Nat /\ seg[m + 1] \in Nat
      <4>1. seg[m + 1] \in {seg[m], seg[m] + 1}
        BY <1>1, <3>1, Zenon
      <4> QED BY <1>1, <3>1, <4>1
    <3>3. m < i \/ seg[i] <= seg[m]
      OBVIOUS
    <3>4. m + 1 < i \/ seg[i] <= seg[m + 1]
      <4>1. CASE m < i
        <5>1. m + 1 < i \/ m + 1 = i
          BY <3>1, <4>1
        <5>2. seg[i] <= seg[i]
          BY <3>2
        <5> QED BY <5>1, <5>2
      <4>2. CASE seg[i] <= seg[m]
        BY <3>2, <4>2
      <4> QED BY <3>3, <4>1, <4>2
    <3> QED BY <3>1, <3>4
  <2>3. \A m \in 0..(n - 1) : m \in T
    <3> HIDE DEF T
    <3> QED BY <2>1, <2>2, ByRows
  <2> QED BY <2>3
<1> QED BY <1>1, <1>2 DEF Body!Rows

LEMMA BodyInit == ASSUME Body!Init PROVE BodyInv
<1>0. /\ kernel \in Body!Kernels /\ n \in 1..MaxRows /\ range = [lo |-> 0, hi |-> 0]
      /\ grid = {} /\ tile = Body!Idle /\ cuts \in Body!LegalCuts(kernel, n)
      /\ seg \in IF kernel.packed THEN Body!Segmentations(n) ELSE {[i \in 0..(n - 1) |-> 0]}
      /\ out = [i \in 0..(n - 1) |-> [s \in 1..Slabs |-> Body!NotStored]]
  BY Zenon DEF Body!Init
<1>1. n \in Nat \ {0} /\ n <= MaxRows
  BY <1>0, BodyAssumption DEF BodyAssumption
<1>2. seg \in [Body!Rows -> Body!Rows] /\ \A i, j \in Body!Rows : i <= j => seg[i] <= seg[j]
  <2>1. CASE kernel.packed
    BY <1>0, <1>1, <2>1, SegmentsAscend
  <2>2. CASE ~kernel.packed
    <3>1. seg = [i \in 0..(n - 1) |-> 0]
      BY <1>0, <2>2
    <3> QED BY <1>1, <3>1 DEF Body!Rows
  <2> QED BY <2>1, <2>2
<1>3. /\ cuts \subseteq 1..(n - 1)
      /\ kernel.op = "dkv" /\ kernel.mma => \A c \in cuts : c % Block = 0
  BY <1>0, Zenon DEF Body!LegalCuts
<1>4. ConfigOK
  BY <1>0, <1>1, <1>2, <1>3 DEF ConfigOK
<1>5. range.lo = 0 /\ range.hi = 0
  BY <1>0
<1>6. RangeInv
  BY <1>0, <1>1, <1>5 DEF RangeInv
<1>7. OutInv
  <2>1. out \in [Body!Rows -> [1..Slabs -> Results]]
    <3>1. Body!NotStored \in Results
      BY DEF Body!NotStored, Results
    <3> QED BY <1>0, <3>1, Zenon DEF Body!Rows
  <2>2. ASSUME NEW r \in Body!Rows, NEW s \in 1..Slabs PROVE Holds(out[r][s], r, ServedTo(r, s))
    <3>1. out[r][s] = Body!NotStored
      BY <1>0, Zenon DEF Body!Rows
    <3>2. ServedTo(r, s) = 0
      BY <1>5, Zenon DEF ServedTo
    <3>3. Sought(r, 0) = {} /\ Writes(r, 0) = 0
      <4>1. r \in Nat /\ ~(r < 0) /\ 0..(0 - 1) = {}
        BY <1>1 DEF Body!Rows
      <4> QED BY <4>1, Zenon DEF Sought, Writes, Dispatches
    <3>4. Body!NotStored.sums = <<>> /\ ~Body!NotStored.nan /\ Body!NotStored.writes = 0
      BY DEF Body!NotStored
    <3> QED BY <3>1, <3>2, <3>3, <3>4, NothingAdded, Zenon DEF Holds
  <2> QED BY <2>1, <2>2 DEF OutInv
<1> QED BY <1>0, <1>4, <1>6, <1>7 DEF BodyInv, TileInv

LEMMA BoundsAre ==
  /\ \A b : kernel.op \in {"fwd", "dq"} => Body!Bounds(b) = Body!FwdBounds(b)
  /\ \A b : kernel.op = "dkv" => Body!Bounds(b) = Body!DkvBounds(b)
  BY DEF Body!Bounds, Body!DqBounds

LEMMA ClampedIs ==
  ASSUME ConfigOK
  PROVE  /\ \A r \in Nat : Body!Clamped(r) \in Body!Rows
         /\ \A r \in Body!Rows : Body!Clamped(r) = r
         /\ \A r \in Nat, k \in Body!Rows : k <= r => k <= Body!Clamped(r)
  BY DEF ConfigOK, Body!Clamped, Body!Lower, Body!Rows

LEMMA SegStartIs ==
  ASSUME ConfigOK, NEW c \in Body!Rows
  PROVE  /\ Body!SegStart(c) \in Body!Rows /\ Body!SegStart(c) <= c
         /\ \A k \in Body!Rows : seg[k] = seg[c] => Body!SegStart(c) <= k
<1> DEFINE S == {i \in Body!Rows : seg[i] = seg[c]}
<1>1. S \in SUBSET Nat /\ S # {} /\ c \in S
  BY KernelFacts
<1>2. Body!SegStart(c) = Body!Min(S)
  BY Zenon DEF Body!SegStart
<1> HIDE DEF S
<1>3. Body!SegStart(c) \in S /\ \A y \in S : Body!SegStart(c) <= y
  <2>1. Body!Min(S) \in S /\ \A y \in S : Body!Min(S) <= y
    BY <1>1, LeastIn
  <2> QED BY <1>2, <2>1
<1> QED BY <1>1, <1>3, Zenon DEF S

\* A simdgroup starts at a block, at or before the segment of its first row.
LEMMA ForwardStart ==
  ASSUME ConfigOK, kernel.op \in {"fwd", "dq"}, range.lo \in Nat, NEW b \in Nat
  PROVE  /\ Body!Bounds(b).first \in Nat /\ Body!Bounds(b).first % Block = 0
         /\ Body!Bounds(b).first < n
         /\ kernel.packed => Body!Bounds(b).first <= Body!SegStart(Body!Clamped(range.lo + b))
         /\ ~kernel.packed => Body!Bounds(b).first = 0
         /\ Body!Bounds(b).limit = IF kernel.causal THEN Body!Lower(n, range.lo + b + Block) ELSE n
<1>1. Body!Bounds(b) = Body!FwdBounds(b)
  BY BoundsAre
<1>2. /\ Body!Bounds(b).first =
           IF kernel.packed
           THEN (Body!SegStart(Body!Clamped(range.lo + b)) \div Block) * Block ELSE 0
      /\ Body!Bounds(b).limit = IF kernel.causal THEN Body!Lower(n, range.lo + b + Block) ELSE n
  BY <1>1 DEF Body!FwdBounds
<1>3. range.lo + b \in Nat /\ Block \in Nat \ {0} /\ n \in Nat \ {0}
  BY KernelFacts
<1>4. CASE kernel.packed
  <2> DEFINE x == Body!SegStart(Body!Clamped(range.lo + b))  q == x \div Block
  <2>1. x \in Body!Rows
    BY <1>3, ClampedIs, SegStartIs, Zenon
  <2>2. x \in Nat /\ x < n
    BY <1>3, <2>1 DEF Body!Rows
  <2> HIDE DEF x
  <2>3. q \in Nat /\ q * Block <= x
    BY <1>3, <2>2, QuotientBounds
  <2> HIDE DEF q
  <2>4. q * Block \in Nat /\ q * Block < n
    BY <1>3, <2>2, <2>3
  <2>5. (q * Block) % Block = 0
    <3>1. 0 \in 0..(Block - 1) /\ q * Block + 0 = q * Block
      BY <1>3, <2>4
    <3> QED BY <1>3, <2>3, <3>1, RemainderIs
  <2>6. Body!Bounds(b).first = q * Block
    BY <1>2, <1>4, Zenon DEF x, q
  <2> QED BY <1>2, <1>4, <2>3, <2>4, <2>5, <2>6, Zenon DEF x
<1>5. CASE ~kernel.packed
  <2>1. Body!Bounds(b).first = 0 /\ 0 % Block = 0 /\ 0 \in Nat /\ 0 < n
    BY <1>2, <1>3, <1>5
  <2> QED BY <1>2, <1>5, <2>1, Zenon
<1> QED BY <1>4, <1>5

\* Every key that the mask lets a row reach is in the blocks its simdgroup visits.
LEMMA ForwardReach ==
  ASSUME ConfigOK, kernel.op \in {"fwd", "dq"}, range.lo \in Nat, NEW b \in Nat,
         NEW r \in Body!Rows, NEW k \in Body!Rows, range.lo + b <= r, r < range.lo + b + Block,
         Body!Keep(r, k)
  PROVE  Body!Bounds(b).first <= k /\ k < Body!Bounds(b).limit
<1>1. /\ n \in Nat \ {0} /\ Block \in Nat \ {0} /\ r \in Nat /\ k \in Nat /\ r < n /\ k < n
      /\ range.lo + b \in Body!Rows
  BY KernelFacts DEF Body!Rows
<1>2. /\ Body!Bounds(b).first \in Nat
      /\ kernel.packed => Body!Bounds(b).first <= Body!SegStart(Body!Clamped(range.lo + b))
      /\ ~kernel.packed => Body!Bounds(b).first = 0
      /\ Body!Bounds(b).limit = IF kernel.causal THEN Body!Lower(n, range.lo + b + Block) ELSE n
  BY ForwardStart, Zenon
<1>3. /\ kernel.causal => k <= r
      /\ kernel.packed => seg[k] = seg[r]
  BY ClampedIs, Zenon DEF Body!Keep
<1>4. k < Body!Bounds(b).limit
  <2>1. kernel.causal => k < range.lo + b + Block
    BY <1>1, <1>3
  <2> QED BY <1>1, <1>2, <2>1 DEF Body!Lower
<1>5. Body!Bounds(b).first <= k
  <2>1. CASE ~kernel.packed
    BY <1>1, <1>2, <2>1
  <2>2. CASE kernel.packed
    <3> DEFINE c == range.lo + b
    <3>1. Body!Clamped(c) = c /\ c \in Body!Rows /\ c <= r /\ c \in Nat
      BY <1>1, ClampedIs
    <3>2. /\ Body!SegStart(c) \in Body!Rows /\ Body!SegStart(c) <= c
          /\ seg[k] = seg[c] => Body!SegStart(c) <= k
      BY <3>1, SegStartIs, Zenon
    <3>3. Body!SegStart(c) \in Nat
      BY <3>2, KernelFacts
    <3>4. Body!SegStart(c) <= k
      <4>1. CASE c <= k
        BY <1>1, <3>1, <3>2, <3>3, <4>1
      <4>2. CASE ~(c <= k)
        <5>1. k <= c
          BY <1>1, <3>1, <4>2
        <5>2. seg[k] <= seg[c] /\ seg[c] <= seg[r]
          BY <3>1, <5>1 DEF ConfigOK
        <5>3. seg[k] \in Nat /\ seg[c] \in Nat
          BY <3>1, KernelFacts DEF ConfigOK
        <5>4. seg[k] = seg[c]
          BY <1>3, <2>2, <5>2, <5>3
        <5> QED BY <3>2, <5>4
      <4> QED BY <4>1, <4>2
    <3>5. Body!Bounds(b).first <= Body!SegStart(c)
      BY <1>2, <2>2, <3>1, Zenon
    <3> QED BY <1>1, <1>2, <3>3, <3>4, <3>5
  <2> QED BY <2>1, <2>2
<1> QED BY <1>4, <1>5

LEMMA BackwardStart ==
  ASSUME ConfigOK, RangeInv, kernel.op = "dkv", NEW b \in Nat, b < n
  PROVE  /\ Body!Bounds(b).first \in Nat /\ Body!Bounds(b).first <= n
         /\ range.lo <= Body!Bounds(b).first
         /\ Body!Bounds(b).limit = range.hi
         /\ kernel.mma /\ b % Block = 0 => Body!Bounds(b).first % Block = 0
         /\ kernel.causal => Body!Bounds(b).first = Body!Upper(range.lo, b)
         /\ ~kernel.causal => Body!Bounds(b).first = range.lo
<1>1. Body!Bounds(b) = Body!DkvBounds(b)
  BY BoundsAre
<1>2. /\ Body!Bounds(b).first = IF kernel.causal THEN Body!Upper(range.lo, b) ELSE range.lo
      /\ Body!Bounds(b).limit = range.hi
  BY <1>1 DEF Body!DkvBounds
<1>3. n \in Nat \ {0} /\ range.lo \in Nat /\ range.hi \in Nat /\ range.lo <= range.hi /\ range.hi <= n
  BY KernelFacts DEF RangeInv
<1>4. kernel.mma => range.lo % Block = 0
  <2>1. 0 % Block = 0
    BY KernelFacts
  <2> QED BY <2>1, Zenon DEF ConfigOK, RangeInv
<1>5. Body!Upper(range.lo, b) = range.lo \/ Body!Upper(range.lo, b) = b
  BY DEF Body!Upper
<1>6. range.lo <= Body!Upper(range.lo, b)
  BY <1>3 DEF Body!Upper
<1>7. Body!Bounds(b).first = range.lo \/ Body!Bounds(b).first = b
  BY <1>2, <1>5
<1>8. Body!Bounds(b).first \in Nat /\ Body!Bounds(b).first <= n /\ range.lo <= Body!Bounds(b).first
  BY <1>2, <1>3, <1>6, <1>7
<1> QED BY <1>2, <1>4, <1>7, <1>8

\* Every query of the range that may reach a key is in the blocks that are visited
\* before the loop ends or stops.
LEMMA BackwardReach ==
  ASSUME ConfigOK, RangeInv, kernel.op = "dkv", NEW t, t.base \in Nat, t.base < n, t.next \in Nat,
         NEW k \in Body!Rows, NEW i \in Body!Rows, t.base <= k, k < t.base + Block,
         range.lo <= i, i < range.hi, Body!Keep(i, k)
  PROVE  /\ Body!Bounds(t.base).first <= i
         /\ Body!Finished(t) => i < t.next
<1> DEFINE b == t.base
<1>1. /\ n \in Nat \ {0} /\ Block \in Nat \ {0} /\ i \in Nat /\ k \in Nat /\ i < n /\ k < n
      /\ range.lo \in Nat /\ range.hi \in Nat /\ range.hi <= n
  BY KernelFacts DEF Body!Rows, RangeInv
<1>2. /\ Body!Bounds(b).limit = range.hi
      /\ kernel.causal => Body!Bounds(b).first = Body!Upper(range.lo, b)
      /\ ~kernel.causal => Body!Bounds(b).first = range.lo
  BY BackwardStart, Zenon
<1>3. /\ kernel.causal => k <= i
      /\ kernel.packed => seg[k] = seg[i]
  BY ClampedIs, Zenon DEF Body!Keep
<1>4. Body!Bounds(b).first <= i
  <2>1. CASE kernel.causal
    <3>1. Body!Upper(range.lo, b) <= i
      BY <1>1, <1>3, <2>1 DEF Body!Upper
    <3> QED BY <1>2, <2>1, <3>1
  <2> QED BY <1>2, <2>1
<1>5. ASSUME Body!Finished(t) PROVE i < t.next
  <2>1. CASE ~(t.next < range.hi)
    BY <1>1, <2>1
  <2>2. CASE t.next < range.hi
    <3>1. kernel.bound /\ seg[t.next] > seg[Body!Clamped(b + Block - 1)]
      BY <1>2, <1>5, <2>2, Zenon DEF Body!Finished, Body!PastSegments
    <3>2. kernel.packed
      BY <3>1, KernelFacts
    <3> DEFINE e == Body!Clamped(b + Block - 1)
    <3>3. e \in Body!Rows /\ k <= e
      <4>1. b + Block - 1 \in Nat /\ k <= b + Block - 1
        BY <1>1
      <4> QED BY <4>1, ClampedIs, Zenon
    <3>4. t.next \in Body!Rows
      BY <1>1, <2>2 DEF Body!Rows
    <3>5. seg[k] <= seg[e]
      BY <3>3, Zenon DEF ConfigOK
    <3>6. seg[k] \in Nat /\ seg[e] \in Nat /\ seg[t.next] \in Nat /\ seg[i] \in Nat
      BY <3>3, <3>4, KernelFacts DEF ConfigOK
    <3> HIDE DEF e
    <3>7. seg[i] < seg[t.next]
      <4>1. seg[t.next] > seg[e]
        BY <3>1, Zenon DEF e
      <4> QED BY <1>3, <3>2, <3>5, <3>6, <4>1
    <3>8. ~(t.next <= i)
      <4> SUFFICES ASSUME t.next <= i PROVE FALSE
        OBVIOUS
      <4>1. seg[t.next] <= seg[i]
        BY <3>4, Zenon DEF ConfigOK
      <4> QED BY <3>6, <3>7, <4>1
    <3> QED BY <1>1, <3>8
  <2> QED BY <2>1, <2>2
<1> QED BY <1>4, <1>5

LEMMA DueIsRows ==
  ASSUME ConfigOK, RangeInv, NEW b, NEW j, NEW m
  PROVE  LineDue(b, j, m) \subseteq Body!Rows
<1>1. 0..(range.hi - 1) \subseteq Body!Rows
  BY DEF ConfigOK, RangeInv, Body!Rows
<1> QED BY <1>1, Zenon DEF LineDue

\* Before the first block a line holds what the dispatches before left.
LEMMA LineStarts ==
  ASSUME ConfigOK, RangeInv, NEW b \in Nat, b < Owners, NEW j \in 0..(Block - 1)
  PROVE  LineDue(b, j, Body!Bounds(b).first) =
           IF kernel.op = "dkv" /\ b + j < n THEN Sought(b + j, range.lo) ELSE {}
<1> DEFINE first == Body!Bounds(b).first
<1>1. CASE kernel.op = "dkv"
  <2>1. /\ first \in Nat /\ range.lo <= first /\ range.lo \in Nat /\ range.hi \in Nat
        /\ range.lo <= range.hi
    BY <1>1, BackwardStart DEF Owners, RangeInv
  <2> HIDE DEF first
  <2>2. \A i \in 0..(range.hi - 1) :
          (IF i < range.lo THEN b + j < n ELSE first <= i) /\ i < first
            <=> i < range.lo /\ b + j < n
    BY <2>1
  <2>3. \A i : i \in 0..(range.hi - 1) /\ i < range.lo <=> i \in 0..(range.lo - 1)
    BY <2>1
  <2>4. LineDue(b, j, first) = {i \in 0..(range.lo - 1) : b + j < n /\ Body!Keep(i, b + j)}
    <3>1. LineDue(b, j, first) = {i \in 0..(range.hi - 1) :
                      /\ IF i < range.lo THEN b + j < n ELSE first <= i
                      /\ i < first /\ Body!Keep(i, b + j)}
      BY <1>1, Zenon DEF LineDue, first
    <3> QED BY <2>2, <2>3, <3>1, Zenon
  <2>5. CASE b + j < n
    BY <1>1, <2>4, <2>5, Zenon DEF Sought, first
  <2>6. CASE ~(b + j < n)
    BY <1>1, <2>4, <2>6, Zenon DEF first
  <2> QED BY <2>5, <2>6
<1>2. CASE kernel.op # "dkv"
  <2>1. first \in Nat
    BY <1>2, ForwardStart, KernelFacts DEF RangeInv
  <2>2. \A k \in Body!Rows : ~(first <= k /\ k < first)
    BY <2>1, KernelFacts
  <2> QED BY <1>2, <2>2, Zenon DEF LineDue
<1> QED BY <1>1, <1>2

\* A line whose blocks are all visited holds all that its row needs.
LEMMA LineEnds ==
  ASSUME ConfigOK, RangeInv, NEW t, AtWork(t), Body!Finished(t), NEW j \in 0..(Block - 1),
         Body!Stores(t.base, j)
  PROVE  /\ Body!Owner(t.base, j) \in Body!Rows /\ Body!Owner(t.base, j) < n
         /\ kernel.op # "dkv" => Body!Owner(t.base, j) < range.hi
         /\ LineDue(t.base, j, t.next) = Sought(Body!Owner(t.base, j), range.hi)
<1> DEFINE b == t.base  r == Body!Owner(b, j)
<1>0. /\ b \in Nat /\ b < Owners /\ t.next \in Nat /\ Body!Bounds(b).first <= t.next /\ b \in Body!Rows
      /\ range.lo \in Nat /\ range.hi \in Nat /\ range.lo <= range.hi /\ range.hi <= n
      /\ n \in Nat \ {0} /\ Block \in Nat \ {0}
  BY KernelFacts DEF AtWork, RangeInv
<1>1. CASE kernel.op = "dkv"
  <2>1. r = b + j /\ b + j < n /\ b < n
    BY <1>1 DEF Body!Owner, Body!Stores, AtWork, Owners
  <2>2. r \in Body!Rows
    BY <1>0, <2>1 DEF Body!Rows
  <2>3. ASSUME NEW i \in 0..(range.hi - 1), Body!Keep(i, b + j)
        PROVE  (IF i < range.lo THEN b + j < n ELSE Body!Bounds(b).first <= i) /\ i < t.next
    <3>1. CASE i < range.lo
      <4>1. range.lo <= Body!Bounds(b).first /\ Body!Bounds(b).first \in Nat
        BY <1>0, <1>1, <2>1, BackwardStart
      <4> QED BY <1>0, <2>1, <3>1, <4>1
    <3>2. CASE ~(i < range.lo)
      <4>1. i \in Body!Rows /\ range.lo <= i /\ i < range.hi /\ b <= b + j /\ b + j < b + Block
            /\ b + j \in Body!Rows
        BY <1>0, <2>1, <3>2 DEF Body!Rows
      <4>2. Body!Bounds(b).first <= i /\ i < t.next
        BY <1>0, <1>1, <2>1, <2>3, <4>1, BackwardReach, Zenon
      <4> QED BY <3>2, <4>2
    <3> QED BY <3>1, <3>2
  <2>4. LineDue(b, j, t.next) = {i \in 0..(range.hi - 1) : Body!Keep(i, b + j)}
    BY <1>1, <2>3, Zenon DEF LineDue
  <2>5. r < n
    BY <2>1
  <2> HIDE DEF r
  <2>6. LineDue(b, j, t.next) = Sought(r, range.hi)
    BY <1>1, <2>1, <2>4, Zenon DEF Sought
  <2> QED BY <1>1, <2>2, <2>5, <2>6, Zenon DEF r
<1>2. CASE kernel.op # "dkv"
  <2>1. r = range.lo + b + j /\ b + j < range.hi - range.lo /\ kernel.op \in {"fwd", "dq"}
    BY <1>2, KernelFacts DEF Body!Owner, Body!Stores
  <2>2. r \in Body!Rows /\ r < n /\ r < range.hi /\ range.lo + b <= r /\ r < range.lo + b + Block
    BY <1>0, <2>1 DEF Body!Rows
  <2>3. Body!Bounds(b).limit <= t.next
    <3>1. ~(t.next < Body!Bounds(b).limit)
      BY <1>2, Zenon DEF Body!Finished, Body!PastSegments
    <3>2. Body!Bounds(b).limit \in Nat
      <4>1. Body!Bounds(b).limit =
              IF kernel.causal THEN Body!Lower(n, range.lo + b + Block) ELSE n
        BY <1>0, <2>1, ForwardStart
      <4> QED BY <1>0, <4>1 DEF Body!Lower
    <3> QED BY <1>0, <3>1, <3>2
  <2>4. Body!Bounds(b).limit \in Nat
    <3>1. Body!Bounds(b).limit =
            IF kernel.causal THEN Body!Lower(n, range.lo + b + Block) ELSE n
      BY <1>0, <2>1, ForwardStart
    <3> QED BY <1>0, <3>1 DEF Body!Lower
  <2>5. ASSUME NEW k \in Body!Rows, Body!Keep(r, k)
        PROVE  Body!Bounds(b).first <= k /\ k < t.next
    <3>1. Body!Bounds(b).first <= k /\ k < Body!Bounds(b).limit
      BY <1>0, <2>1, <2>2, <2>5, ForwardReach, Zenon
    <3>2. k \in Nat
      BY KernelFacts
    <3> HIDE DEF b, r
    <3> QED BY <1>0, <2>3, <2>4, <3>1, <3>2
  <2>6. LineDue(b, j, t.next) = {k \in Body!Rows : Body!Keep(r, k)}
    BY <1>2, <2>1, <2>5, Zenon DEF LineDue
  <2> HIDE DEF r
  <2>7. LineDue(b, j, t.next) = Sought(r, range.hi)
    BY <1>2, <2>2, <2>6, Zenon DEF Sought
  <2> QED BY <2>2, <2>7, Zenon DEF r
<1> QED BY <1>1, <1>2

Added(b, j, m) ==
  IF kernel.op = "dkv" THEN Body!KeptQueries(b, j, m) ELSE Body!KeptKeys(b, j, m)

\* The block at m adds the rows from m to the next block.
LEMMA LineGrows ==
  ASSUME ConfigOK, RangeInv, NEW b \in Nat, b < Owners, NEW j \in 0..(Block - 1),
         NEW m \in Nat, m % Block = 0, Body!Bounds(b).first <= m
  PROVE  /\ LineDue(b, j, m + Block) = LineDue(b, j, m) \cup Added(b, j, m)
         /\ LineDue(b, j, m) \in SUBSET Nat /\ Added(b, j, m) \in SUBSET Nat
         /\ Added(b, j, m) \subseteq Body!Rows
         /\ \A x \in LineDue(b, j, m), y \in Added(b, j, m) :
              x < y /\ x \div Block # y \div Block
         /\ \A x, y \in Added(b, j, m) : x \div Block = y \div Block
<1>0. /\ n \in Nat \ {0} /\ Block \in Nat \ {0} /\ range.lo \in Nat /\ range.hi \in Nat
      /\ range.lo <= range.hi /\ range.hi <= n
  BY KernelFacts DEF RangeInv
<1>1. LineDue(b, j, m) \subseteq Body!Rows /\ Body!Rows \subseteq Nat
  BY DueIsRows, KernelFacts
<1>2. /\ Added(b, j, m) \subseteq m..(m + Block - 1) /\ Added(b, j, m) \subseteq Body!Rows
      /\ \A x \in LineDue(b, j, m) : x < m
      /\ LineDue(b, j, m + Block) = LineDue(b, j, m) \cup Added(b, j, m)
  <2>1. CASE kernel.op = "dkv"
    <3>1. Added(b, j, m) = {i \in m..(Body!Lower(m + Block, range.hi) - 1) : Body!Keep(i, b + j)}
      BY <2>1 DEF Added, Body!KeptQueries
    <3>2. Body!Bounds(b).first \in Nat /\ range.lo <= Body!Bounds(b).first
      BY <2>1, BackwardStart DEF Owners
    <3>3. \A i : i \in m..(Body!Lower(m + Block, range.hi) - 1)
                 <=> i \in 0..(range.hi - 1) /\ m <= i /\ i < m + Block
      BY <1>0 DEF Body!Lower
    <3>4. Added(b, j, m) = {i \in 0..(range.hi - 1) : m <= i /\ i < m + Block /\ Body!Keep(i, b + j)}
      BY <3>1, <3>3, Zenon
    <3> DEFINE start == Body!Bounds(b).first
               In(i) == IF i < range.lo THEN b + j < n ELSE start <= i
    <3>5. \A i \in 0..(range.hi - 1) : /\ m <= i => In(i)
                                       /\ i < m + Block <=> i < m \/ (m <= i /\ i < m + Block)
      BY <1>0, <3>2
    <3>6. /\ LineDue(b, j, m) = {i \in 0..(range.hi - 1) : In(i) /\ i < m /\ Body!Keep(i, b + j)}
          /\ LineDue(b, j, m + Block) =
               {i \in 0..(range.hi - 1) : In(i) /\ i < m + Block /\ Body!Keep(i, b + j)}
      BY <2>1, Zenon DEF LineDue
    <3> HIDE DEF In
    <3>7. LineDue(b, j, m + Block) = LineDue(b, j, m) \cup Added(b, j, m)
      BY <3>4, <3>5, <3>6, Zenon
    <3>8. Added(b, j, m) \subseteq m..(m + Block - 1) /\ Added(b, j, m) \subseteq Body!Rows
      BY <1>0, <3>4 DEF Body!Rows
    <3> QED BY <3>6, <3>7, <3>8, Zenon
  <2>2. CASE kernel.op # "dkv"
    <3>1. Added(b, j, m) =
            {k \in m..(Body!Lower(m + Block, n) - 1) : Body!Keep(range.lo + b + j, k)}
      BY <2>2 DEF Added, Body!KeptKeys, Body!Owner
    <3>2. Body!Bounds(b).first \in Nat
      BY <1>0, <2>2, ForwardStart, KernelFacts
    <3>3. \A k : k \in m..(Body!Lower(m + Block, n) - 1)
                 <=> k \in Body!Rows /\ m <= k /\ k < m + Block
      BY <1>0 DEF Body!Lower, Body!Rows
    <3>4. Added(b, j, m) =
            {k \in Body!Rows : m <= k /\ k < m + Block /\ Body!Keep(range.lo + b + j, k)}
      BY <3>1, <3>3, Zenon
    <3> DEFINE start == Body!Bounds(b).first
    <3>5. \A k \in Body!Rows : /\ m <= k => start <= k
                               /\ k < m + Block <=> k < m \/ (m <= k /\ k < m + Block)
      BY <1>0, <1>1, <3>2
    <3>6. /\ LineDue(b, j, m) =
               {k \in Body!Rows : start <= k /\ k < m /\ Body!Keep(range.lo + b + j, k)}
          /\ LineDue(b, j, m + Block) =
               {k \in Body!Rows : start <= k /\ k < m + Block /\ Body!Keep(range.lo + b + j, k)}
      BY <2>2, Zenon DEF LineDue
    <3> HIDE DEF start
    <3>7. LineDue(b, j, m + Block) = LineDue(b, j, m) \cup Added(b, j, m)
      BY <3>4, <3>5, <3>6, Zenon
    <3>8. Added(b, j, m) \subseteq m..(m + Block - 1) /\ Added(b, j, m) \subseteq Body!Rows
      <4>1. \A k \in Body!Rows : m <= k /\ k < m + Block => k \in m..(m + Block - 1)
        BY <1>0, <1>1
      <4> QED BY <3>4, <4>1, Zenon
    <3> QED BY <3>6, <3>7, <3>8, Zenon
  <2> QED BY <2>1, <2>2
<1>3. /\ \A x \in m..(m + Block - 1) : x \div Block = m \div Block /\ x >= m
      /\ \A x \in Nat : x < m => x \div Block < m \div Block
      /\ m \div Block \in Nat /\ \A x \in Nat : x \div Block \in Nat
  <2>1. /\ \A x \in m..(m + Block - 1) : x \div Block = m \div Block
        /\ \A x \in Nat : x < m => x \div Block < m \div Block
    BY <1>0, BlocksAreDisjoint
  <2>2. m \div Block \in Nat /\ \A x \in Nat : x \div Block \in Nat
    BY <1>0, QuotientBounds
  <2> QED BY <2>1, <2>2
<1>4. \A x, y \in Added(b, j, m) : x \div Block = y \div Block
  BY <1>2, <1>3, Zenon
<1>5. ASSUME NEW x \in LineDue(b, j, m), NEW y \in Added(b, j, m)
      PROVE  x < y /\ x \div Block # y \div Block
  <2>1. x \in Nat /\ y \in Nat /\ x < m /\ y >= m
    BY <1>1, <1>2, <1>3
  <2>2. x \div Block < m \div Block /\ y \div Block = m \div Block /\ x \div Block \in Nat
    BY <1>2, <1>3, <2>1, Zenon
  <2>3. x < y
    BY <2>1
  <2>4. x \div Block # y \div Block
    BY <1>3, <2>2
  <2> QED BY <2>3, <2>4
<1> QED BY <1>1, <1>2, <1>4, <1>5, Zenon

-----------------------------------------------------------------------------

\* What the configuration fixes does not move.
Fixed == UNCHANGED <<kernel, n, seg, cuts>>

LEMMA FixedMeans ==
  ASSUME Fixed
  PROVE  /\ kernel' = kernel /\ n' = n /\ seg' = seg /\ cuts' = cuts
         /\ Body!Rows' = Body!Rows /\ (ConfigOK => ConfigOK') /\ PerGroup' = PerGroup
         /\ Body!Lines' = Body!Lines /\ Results' = Results /\ Body!Idle' = Body!Idle
         /\ \A q, k : Body!Keep(q, k)' <=> Body!Keep(q, k)
         /\ \A p, kept : AddsUp(p, kept)' <=> AddsUp(p, kept)
         /\ \A r : Dispatches(r)' = Dispatches(r)
         /\ \A r, m : Sought(r, m)' = Sought(r, m)
         /\ \A r, m : Writes(r, m)' = Writes(r, m)
         /\ \A o, r, m : Holds(o, r, m)' <=> Holds(o, r, m)
<1>1. kernel' = kernel /\ n' = n /\ seg' = seg /\ cuts' = cuts
  BY DEF Fixed
<1>2. Body!Rows' = Body!Rows /\ PerGroup' = PerGroup /\ Body!Idle' = Body!Idle
  BY <1>1, Zenon DEF Body!Rows, PerGroup, Body!Idle
<1>3. Body!Kernels' = Body!Kernels
  BY Zenon DEF Body!Kernels, Body!LegalKernel
<1>4. ConfigOK => ConfigOK'
  BY <1>1, <1>2, <1>3, Zenon DEF ConfigOK
<1>5. Body!Lines' = Body!Lines /\ Results' = Results
  BY <1>2, Zenon DEF Body!Lines, Results
<1>6. \A q, k : Body!Keep(q, k)' <=> Body!Keep(q, k)
  BY <1>1, Zenon DEF Body!Keep, Body!Clamped, Body!Lower
<1>7. \A p, kept : AddsUp(p, kept)' <=> AddsUp(p, kept)
  <2>1. \A gs, kept, whole : Groups(gs, kept, whole)' <=> Groups(gs, kept, whole)
    BY Zenon DEF Groups
  <2>2. \A gs, h : Spread(gs, h)' = Spread(gs, h)
    BY Zenon DEF Spread
  <2> QED BY <1>1, <1>2, <2>1, <2>2, Zenon DEF AddsUp
<1>8. \A r : Dispatches(r)' = Dispatches(r)
  BY <1>1, Zenon DEF Dispatches
<1>9. \A r, m : Sought(r, m)' = Sought(r, m)
  BY <1>1, <1>2, <1>6, Zenon DEF Sought
<1>10. \A r, m : Writes(r, m)' = Writes(r, m)
  BY <1>1, <1>8, Zenon DEF Writes
<1>11. \A o, r, m : Holds(o, r, m)' <=> Holds(o, r, m)
  BY <1>7, <1>9, <1>10, Zenon DEF Holds
<1> QED BY <1>1, <1>2, <1>4, <1>5, <1>6, <1>7, <1>8, <1>9, <1>10, <1>11

\* Within one dispatch the bounds and what is due stay.
LEMMA RangeFixed ==
  ASSUME Fixed, range' = range
  PROVE  /\ Owners' = Owners /\ (\A b : Body!Bounds(b)' = Body!Bounds(b))
         /\ \A b, j, m : LineDue(b, j, m)' = LineDue(b, j, m)
         /\ \A line, b, j, m : LineHolds(line, b, j, m)' <=> LineHolds(line, b, j, m)
         /\ \A t : AtWork(t)' <=> AtWork(t)
         /\ \A r : Home(r)' = Home(r)
<1>1. /\ kernel' = kernel /\ n' = n /\ seg' = seg /\ cuts' = cuts /\ range' = range
      /\ Body!Rows' = Body!Rows /\ Body!Lines' = Body!Lines
      /\ \A q, k : Body!Keep(q, k)' <=> Body!Keep(q, k)
      /\ \A p, kept : AddsUp(p, kept)' <=> AddsUp(p, kept)
  BY FixedMeans
<1>2. Owners' = Owners /\ \A r : Home(r)' = Home(r)
  BY <1>1, Zenon DEF Owners, Home
<1>3. \A b : Body!Bounds(b)' = Body!Bounds(b)
  <2>1. \A b : Body!FwdBounds(b)' = Body!FwdBounds(b)
    <3>1. \A r : Body!Clamped(r)' = Body!Clamped(r)
      BY <1>1, Zenon DEF Body!Clamped, Body!Lower
    <3>2. \A r : Body!SegStart(r)' = Body!SegStart(r)
      BY <1>1, Zenon DEF Body!SegStart, Body!Min
    <3> QED BY <1>1, <3>1, <3>2, Zenon DEF Body!FwdBounds, Body!Lower
  <2>2. \A b : Body!DkvBounds(b)' = Body!DkvBounds(b)
    BY <1>1, Zenon DEF Body!DkvBounds, Body!Upper
  <2> QED BY <1>1, <2>1, <2>2, Zenon DEF Body!Bounds, Body!DqBounds
<1>4. \A b, j, m : LineDue(b, j, m)' = LineDue(b, j, m)
  <2> SUFFICES ASSUME NEW b, NEW j, NEW m PROVE LineDue(b, j, m)' = LineDue(b, j, m)
    OBVIOUS
  <2>1. Body!Bounds(b)'.first = Body!Bounds(b).first
    BY <1>3, Zenon
  <2>2. CASE kernel.op = "dkv"
    <3>1. LineDue(b, j, m)' =
            {i \in 0..(range.hi - 1) :
               /\ IF i < range.lo THEN b + j < n ELSE Body!Bounds(b)'.first <= i
               /\ i < m /\ Body!Keep(i, b + j)'}
      BY <1>1, <2>2, Zenon DEF LineDue
    <3> QED BY <1>1, <2>1, <2>2, <3>1, Zenon DEF LineDue
  <2>3. CASE kernel.op # "dkv"
    <3>1. LineDue(b, j, m)' = {k \in Body!Rows : /\ Body!Bounds(b)'.first <= k /\ k < m
                                                /\ Body!Keep(range.lo + b + j, k)'}
      BY <1>1, <2>3, Zenon DEF LineDue
    <3> QED BY <1>1, <2>1, <2>3, <3>1, Zenon DEF LineDue
  <2> QED BY <2>2, <2>3
<1>5. \A line, b, j, m : LineHolds(line, b, j, m)' <=> LineHolds(line, b, j, m)
  BY <1>1, <1>4, Zenon DEF LineHolds
<1>6. \A t : AtWork(t)' <=> AtWork(t)
  BY <1>1, <1>2, <1>3, <1>5, Zenon DEF AtWork
<1> QED BY <1>2, <1>3, <1>4, <1>5, <1>6

LEMMA StartIs ==
  ASSUME ConfigOK, RangeInv, NEW b \in Nat, b < Owners
  PROVE  /\ Body!Bounds(b).first \in Nat /\ Body!Bounds(b).first <= n
         /\ Body!Bounds(b).limit \in Nat /\ Body!Bounds(b).limit <= n
         /\ kernel.mma /\ b % Block = 0 => Body!Bounds(b).first % Block = 0
<1>0. /\ n \in Nat \ {0} /\ Block \in Nat \ {0} /\ range.lo \in Nat /\ range.hi \in Nat
      /\ range.hi <= n /\ kernel.op \in {"fwd", "dq", "dkv"}
  BY KernelFacts DEF RangeInv
<1>1. CASE kernel.op = "dkv"
  <2>1. b < n
    BY <1>1 DEF Owners
  <2> QED BY <1>0, <1>1, <2>1, BackwardStart
<1>2. CASE kernel.op # "dkv"
  <2>1. kernel.op \in {"fwd", "dq"}
    BY <1>0, <1>2
  <2>2. /\ Body!Bounds(b).first \in Nat /\ Body!Bounds(b).first % Block = 0
        /\ Body!Bounds(b).first < n
        /\ Body!Bounds(b).limit = IF kernel.causal THEN Body!Lower(n, range.lo + b + Block) ELSE n
    BY <1>0, <2>1, ForwardStart
  <2>3. Body!Bounds(b).limit \in Nat /\ Body!Bounds(b).limit <= n
    BY <1>0, <2>2 DEF Body!Lower
  <2> QED BY <1>0, <2>2, <2>3
<1> QED BY <1>1, <1>2

LEMMA LineTyped ==
  ASSUME ConfigOK, RangeInv, NEW line, NEW b, NEW j, NEW m, LineHolds(line, b, j, m)
  PROVE  line.sums \in Seq((1..Heads) \X SUBSET Body!Rows)
<1>1. AddsUp(line.sums, LineDue(b, j, m)) /\ LineDue(b, j, m) \in SUBSET (0..(n - 1))
  BY DueIsRows DEF LineHolds, Body!Rows
<1>2. n \in Nat
  BY KernelFacts
<1> QED BY <1>1, <1>2, AddedType, Zenon DEF Body!Rows

LEMMA WorksMeans ==
  ASSUME ConfigOK, RangeInv, NEW t, AtWork(t)
  PROVE  /\ t.base \in Nat /\ t.base < Owners /\ t.base < n /\ t.slab \in 1..Slabs /\ t.next \in Nat
         /\ t.next % Block = 0 /\ Body!Bounds(t.base).first <= t.next
         /\ \A j \in 0..(Block - 1) : t.acc[j] \in Body!Lines /\ LineHolds(t.acc[j], t.base, j, t.next)
         /\ t # Body!Idle
<1>1. /\ t \in [base : Body!Rows, slab : 1..Slabs, next : 0..(n + Block),
                acc : [0..(Block - 1) -> Body!Lines]]
      /\ t.base < Owners /\ t.next % Block = 0 /\ Body!Bounds(t.base).first <= t.next
      /\ \A j \in 0..(Block - 1) : LineHolds(t.acc[j], t.base, j, t.next)
  BY DEF AtWork
<1>2. n \in Nat /\ Block \in Nat /\ Body!Rows = 0..(n - 1)
  BY KernelFacts DEF Body!Rows
<1>3. t.base \in Nat /\ t.base < n /\ t.next \in Nat /\ t.slab \in 1..Slabs
  BY <1>1, <1>2
<1>4. \A j \in 0..(Block - 1) : t.acc[j] \in Body!Lines
  BY <1>1
<1>5. t # Body!Idle
  BY <1>3 DEF Body!Idle
<1> QED BY <1>1, <1>3, <1>4, <1>5

\* A simdgroup that works on belongs to a range that has started.
LEMMA WorkIsOfARange ==
  ASSUME BodyInv, tile # Body!Idle
  PROVE  /\ kernel.mma /\ tile.base \notin grid /\ AtWork(tile)
         /\ range.hi # 0 /\ range.lo < range.hi
  BY DEF BodyInv, TileInv, RangeInv

\* The next block, when every line takes what it has to.
LEMMA BlockStep ==
  ASSUME BodyInv, Fixed, tile # Body!Idle, ~Body!Finished(tile),
         UNCHANGED <<range, grid, out>>,
         NEW f \in [0..(Block - 1) -> Body!Lines],
         tile' = [tile EXCEPT !.next = tile.next + Block, !.acc = f],
         \A j \in 0..(Block - 1) : LineHolds(f[j], tile.base, j, tile.next + Block)
  PROVE  BodyInv'
<1>0. /\ ConfigOK /\ RangeInv /\ OutInv /\ AtWork(tile) /\ kernel.mma
      /\ tile.base \notin grid /\ range.hi # 0
  BY WorkIsOfARange DEF BodyInv
<1>1. /\ tile.base \in Nat /\ tile.base < Owners /\ tile.next \in Nat /\ tile.next % Block = 0
      /\ tile.base < n /\ tile.slab \in 1..Slabs
      /\ Body!Bounds(tile.base).first <= tile.next /\ Body!Bounds(tile.base).first \in Nat
      /\ n \in Nat /\ Block \in Nat \ {0} /\ tile.base % Block = 0
  BY <1>0, WorksMeans, StartIs, KernelFacts DEF AtWork
<1>2. tile.next < n
  <2>1. tile.next < Body!Bounds(tile.base).limit
    BY Zenon DEF Body!Finished
  <2>2. Body!Bounds(tile.base).limit \in Nat /\ Body!Bounds(tile.base).limit <= n
    BY <1>0, <1>1, StartIs
  <2> QED BY <1>1, <2>1, <2>2
<1>3. /\ tile' \in [base : Body!Rows, slab : 1..Slabs, next : 0..(n + Block),
                    acc : [0..(Block - 1) -> Body!Lines]]
      /\ tile'.base = tile.base /\ tile'.slab = tile.slab /\ tile'.next = tile.next + Block
      /\ tile'.acc = f
  <2>1. tile \in [base : Body!Rows, slab : 1..Slabs, next : 0..(n + Block),
                  acc : [0..(Block - 1) -> Body!Lines]]
    BY <1>0 DEF AtWork
  <2>2. tile.next + Block \in 0..(n + Block)
    BY <1>1, <1>2
  <2> QED BY <2>1, <2>2
<1>4. AtWork(tile')
  <2>1. (tile.next + Block) % Block = 0
    BY <1>1, BlocksAreDisjoint
  <2>2. Body!Bounds(tile.base).first <= tile.next + Block
    BY <1>1
  <2> QED BY <1>1, <1>3, <2>1, <2>2, Zenon DEF AtWork
<1>5. tile' # Body!Idle
  BY <1>1, <1>3 DEF Body!Idle
<1>6. range' = range /\ grid' = grid /\ out' = out
  OBVIOUS
<1>7. ConfigOK' /\ Body!Idle' = Body!Idle /\ kernel' = kernel /\ n' = n /\ cuts' = cuts
      /\ Body!Rows' = Body!Rows /\ Results' = Results
  BY <1>0, FixedMeans, Zenon
<1>8. RangeInv'
  BY <1>0, <1>1, <1>6, <1>7, FixedMeans, RangeFixed, Zenon DEF RangeInv
<1>9. \A r, s : ServedTo(r, s)' = ServedTo(r, s)
  <2>1. \A r : Home(r)' = Home(r)
    BY <1>6, RangeFixed, Zenon
  <2>2. \A r, s : Pending(r, s)' <=> Pending(r, s)
    BY <1>3, <1>5, <1>6, <1>7, <2>1, Zenon DEF Pending
  <2> QED BY <1>6, <2>2, Zenon DEF ServedTo
<1>10. OutInv'
  BY <1>0, <1>6, <1>7, <1>9, FixedMeans, Zenon DEF OutInv
<1>11. TileInv'
  <2>1. \A t : AtWork(t)' <=> AtWork(t)
    BY <1>6, RangeFixed, Zenon
  <2> QED BY <1>0, <1>3, <1>4, <1>6, <1>7, <2>1, Zenon DEF TileInv
<1> QED BY <1>7, <1>8, <1>10, <1>11 DEF BodyInv

\* A line of a simdgroup after one more block.
LEMMA LineStep ==
  ASSUME ConfigOK, RangeInv, AtWork(tile), kernel.mma, NEW j \in 0..(Block - 1)
  PROVE  LET line == tile.acc[j]  more == Added(tile.base, j, tile.next)
             due == LineDue(tile.base, j, tile.next + Block)
             total == Body!Added(line.sums, more, PerGroup)
         IN  /\ AddsUp(total, due)
             /\ total \in Seq((1..Heads) \X SUBSET Body!Rows)
             /\ line \in Body!Lines /\ ~line.nan
             /\ kernel.op = "fwd" => (line.seen <=> LineDue(tile.base, j, tile.next) # {})
             /\ due = LineDue(tile.base, j, tile.next) \cup more
<1> DEFINE line == tile.acc[j]  more == Added(tile.base, j, tile.next)
           old == LineDue(tile.base, j, tile.next)
           due == LineDue(tile.base, j, tile.next + Block)
           total == Body!Added(line.sums, more, PerGroup)
<1>0. /\ tile.base \in Nat /\ tile.base < Owners /\ tile.next \in Nat
      /\ tile.next % Block = 0 /\ Body!Bounds(tile.base).first <= tile.next
      /\ line \in Body!Lines /\ LineHolds(line, tile.base, j, tile.next)
  BY WorksMeans, Zenon
<1>1. /\ AddsUp(line.sums, old) /\ ~line.nan
      /\ kernel.op = "fwd" => (line.seen <=> old # {})
  BY <1>0, Zenon DEF LineHolds
<1>2. /\ due = old \cup more /\ old \in SUBSET Nat /\ more \in SUBSET Nat
      /\ \A x \in old, y \in more : x < y /\ x \div Block # y \div Block
      /\ \A x, y \in more : x \div Block = y \div Block
  <2> HIDE DEF line, total
  <2>1. \A b_ \in Nat, m_ \in Nat :
          b_ < Owners /\ m_ % Block = 0 /\ Body!Bounds(b_).first <= m_ =>
            /\ LineDue(b_, j, m_ + Block) = LineDue(b_, j, m_) \cup Added(b_, j, m_)
            /\ LineDue(b_, j, m_) \in SUBSET Nat /\ Added(b_, j, m_) \in SUBSET Nat
            /\ \A x \in LineDue(b_, j, m_), y \in Added(b_, j, m_) :
                 x < y /\ x \div Block # y \div Block
            /\ \A x, y \in Added(b_, j, m_) : x \div Block = y \div Block
    <3> SUFFICES ASSUME NEW b_ \in Nat, NEW m_ \in Nat, b_ < Owners, m_ % Block = 0,
                        Body!Bounds(b_).first <= m_
                 PROVE  /\ LineDue(b_, j, m_ + Block) = LineDue(b_, j, m_) \cup Added(b_, j, m_)
                        /\ LineDue(b_, j, m_) \in SUBSET Nat /\ Added(b_, j, m_) \in SUBSET Nat
                        /\ \A x \in LineDue(b_, j, m_), y \in Added(b_, j, m_) :
                             x < y /\ x \div Block # y \div Block
                        /\ \A x, y \in Added(b_, j, m_) : x \div Block = y \div Block
      BY Zenon
    <3> QED BY LineGrows
  <2> QED BY <1>0, <2>1, Zenon
<1> HIDE DEF line, more, old, due
<1>3. AddsUp(total, due)
  <2>1. AddsUp(total, old \cup more)
    BY <1>1, <1>2, KernelFacts, GroupAdded, Zenon
  <2> QED BY <1>2, <2>1, Zenon
<1>4. total \in Seq((1..Heads) \X SUBSET Body!Rows)
  <2>1. due \in SUBSET (0..(n - 1)) /\ n \in Nat
    BY DueIsRows, KernelFacts DEF Body!Rows, due
  <2> HIDE DEF total
  <2> QED BY <1>3, <2>1, AddedType, Zenon DEF Body!Rows
<1> QED BY <1>0, <1>1, <1>2, <1>3, <1>4, Zenon DEF line, more, old, due

LEMMA StepOfFwdBlock == ASSUME BodyInv, Body!FwdBlock PROVE BodyInv'
<1> DEFINE f == [j \in 0..(Block - 1) |->
                   LET group == Body!KeptKeys(tile.base, j, tile.next)  line == tile.acc[j]
                   IN  [sums |-> Body!Added(line.sums, group, 1),
                        seen |-> line.seen \/ group # {}, nan |-> Body!Rescale(line, group)]]
<1>1. /\ kernel.op = "fwd" /\ tile # Body!Idle /\ ~Body!Finished(tile)
      /\ tile' = [tile EXCEPT !.next = tile.next + Block, !.acc = f]
      /\ UNCHANGED <<range, grid, out>> /\ Fixed
  BY DEF Body!FwdBlock, Body!Working, Body!config, Fixed
<1>2. ConfigOK /\ RangeInv /\ AtWork(tile) /\ kernel.mma
  BY <1>1, WorkIsOfARange DEF BodyInv
<1>3. ASSUME NEW j \in 0..(Block - 1)
      PROVE  f[j] \in Body!Lines /\ LineHolds(f[j], tile.base, j, tile.next + Block)
  <2> DEFINE group == Body!KeptKeys(tile.base, j, tile.next)  line == tile.acc[j]
             old == LineDue(tile.base, j, tile.next)
             due == LineDue(tile.base, j, tile.next + Block)
             total == Body!Added(line.sums, group, 1)
  <2>1. PerGroup = 1 /\ group = Added(tile.base, j, tile.next)
    BY <1>1 DEF PerGroup, Added
  <2>2. /\ AddsUp(total, due) /\ total \in Seq((1..Heads) \X SUBSET Body!Rows)
        /\ line \in Body!Lines /\ ~line.nan /\ (line.seen <=> old # {})
        /\ due = old \cup group
    BY <1>1, <1>2, <2>1, LineStep, Zenon
  <2>3. ~Body!Rescale(line, group)
    <3> SUFFICES ASSUME ~kernel.packed, old = {} PROVE group # {}
      BY <2>2, Zenon DEF Body!Rescale
    <3>0. /\ range.lo \in Nat /\ tile.base \in Nat /\ tile.next \in Nat /\ n \in Nat \ {0}
          /\ Block \in Nat \ {0} /\ j \in Nat /\ 0 \in Body!Rows
      BY <1>2, WorksMeans, KernelFacts DEF RangeInv
    <3>1. Body!Bounds(tile.base).first = 0
      BY <1>1, <1>2, <3>0, ForwardStart
    <3>2. Body!Keep(range.lo + tile.base + j, 0)
      <4>1. 0 <= range.lo + tile.base + j
        BY <3>0
      <4> QED BY <4>1, Zenon DEF Body!Keep
    <3>3. tile.next = 0
      <4> SUFFICES ASSUME tile.next # 0 PROVE FALSE
        OBVIOUS
      <4>1. 0 < tile.next /\ 0 <= 0
        BY <3>0
      <4>2. 0 \in old
        BY <1>1, <3>0, <3>1, <3>2, <4>1, Zenon DEF LineDue
      <4> QED BY <4>2
    <3>4. 0 \in 0..(Body!Lower(0 + Block, n) - 1)
      BY <3>0 DEF Body!Lower
    <3>5. group = {k \in 0..(Body!Lower(0 + Block, n) - 1) : Body!Keep(range.lo + tile.base + j, k)}
      BY <1>1, <3>3 DEF Body!KeptKeys, Body!Owner
    <3> QED BY <3>2, <3>4, <3>5, Zenon
  <2>4. /\ f[j].sums = total /\ (f[j].seen <=> line.seen \/ group # {})
        /\ (f[j].nan <=> Body!Rescale(line, group))
        /\ f[j] = [sums |-> total, seen |-> line.seen \/ group # {},
                   nan |-> Body!Rescale(line, group)]
    OBVIOUS
  <2>5. LineHolds(f[j], tile.base, j, tile.next + Block)
    <3> HIDE DEF f, group, line, old, total
    <3>1. f[j].seen <=> due # {}
      BY <2>2, <2>4, Zenon
    <3> QED BY <2>2, <2>3, <2>4, <3>1, Zenon DEF LineHolds
  <2>6. f[j] \in Body!Lines
    <3>1. line.seen \in BOOLEAN
      BY <2>2 DEF Body!Lines
    <3>2. (line.seen \/ group # {}) \in BOOLEAN /\ Body!Rescale(line, group) \in BOOLEAN
      BY DEF Body!Rescale
    <3> DEFINE seen_ == line.seen \/ group # {}  nan_ == Body!Rescale(line, group)
    <3>3. f[j] = [sums |-> total, seen |-> seen_, nan |-> nan_]
      BY <2>4
    <3>4. seen_ \in BOOLEAN /\ nan_ \in BOOLEAN
      BY <3>2
    <3> HIDE DEF f, group, line, old, total, seen_, nan_
    <3> QED BY <2>2, <3>3, <3>4 DEF Body!Lines
  <2> QED BY <2>5, <2>6
<1>4. f \in [0..(Block - 1) -> Body!Lines]
  <2> DEFINE g == f
  <2>1. f = [j \in 0..(Block - 1) |-> f[j]]
    OBVIOUS
  <2> HIDE DEF f
  <2> QED BY <1>3, <2>1
<1> HIDE DEF f
<1> QED BY <1>1, <1>3, <1>4, BlockStep, Zenon

LEMMA StepOfOtherBlock ==
  ASSUME BodyInv, kernel.op # "fwd", Fixed, tile # Body!Idle, ~Body!Finished(tile),
         UNCHANGED <<range, grid, out>>,
         tile' = [tile EXCEPT !.next = tile.next + Block, !.acc =
                    [j \in 0..(Block - 1) |->
                       [tile.acc[j] EXCEPT !.sums =
                          Body!Added(tile.acc[j].sums, Added(tile.base, j, tile.next), PerGroup)]]]
  PROVE  BodyInv'
<1> DEFINE f == [j \in 0..(Block - 1) |->
                   [tile.acc[j] EXCEPT !.sums =
                      Body!Added(tile.acc[j].sums, Added(tile.base, j, tile.next), PerGroup)]]
<1>1. ConfigOK /\ RangeInv /\ AtWork(tile) /\ kernel.mma
  BY WorkIsOfARange DEF BodyInv
<1>2. ASSUME NEW j \in 0..(Block - 1)
      PROVE  f[j] \in Body!Lines /\ LineHolds(f[j], tile.base, j, tile.next + Block)
  <2> DEFINE line == tile.acc[j]  due == LineDue(tile.base, j, tile.next + Block)
             total == Body!Added(line.sums, Added(tile.base, j, tile.next), PerGroup)
  <2>1. /\ AddsUp(total, due) /\ total \in Seq((1..Heads) \X SUBSET Body!Rows)
        /\ line \in Body!Lines /\ ~line.nan
    BY <1>1, LineStep, Zenon
  <2>2. f[j] = [line EXCEPT !.sums = total]
    OBVIOUS
  <2> HIDE DEF f, line, total
  <2>3. f[j] \in Body!Lines /\ f[j].sums = total /\ (f[j].nan <=> line.nan)
    BY <2>1, <2>2 DEF Body!Lines
  <2> QED BY <2>1, <2>3, Zenon DEF LineHolds
<1>3. f \in [0..(Block - 1) -> Body!Lines]
  <2>1. f = [j \in 0..(Block - 1) |-> f[j]]
    OBVIOUS
  <2> HIDE DEF f
  <2> QED BY <1>2, <2>1
<1>4. tile' = [tile EXCEPT !.next = tile.next + Block, !.acc = f]
  OBVIOUS
<1> HIDE DEF f
<1> QED BY <1>2, <1>3, <1>4, BlockStep, Zenon

LEMMA StepOfDqBlock == ASSUME BodyInv, Body!DqBlock PROVE BodyInv'
<1>1. /\ kernel.op = "dq" /\ tile # Body!Idle /\ ~Body!Finished(tile)
      /\ UNCHANGED <<range, grid, out>> /\ Fixed
      /\ tile' = [tile EXCEPT !.next = tile.next + Block, !.acc = [j \in 0..(Block - 1) |->
           [tile.acc[j] EXCEPT !.sums =
              Body!Added(tile.acc[j].sums, Body!KeptKeys(tile.base, j, tile.next), 1)]]]
  BY DEF Body!DqBlock, Body!Working, Body!config, Fixed
<1>2. PerGroup = 1 /\ \A j : Body!KeptKeys(tile.base, j, tile.next) = Added(tile.base, j, tile.next)
  BY <1>1 DEF PerGroup, Added
<1>3. kernel.op # "fwd"
  BY <1>1
<1> QED BY <1>1, <1>2, <1>3, StepOfOtherBlock

LEMMA StepOfDkvBlock == ASSUME BodyInv, Body!DkvBlock PROVE BodyInv'
<1>1. /\ kernel.op = "dkv" /\ tile # Body!Idle /\ ~Body!Finished(tile)
      /\ UNCHANGED <<range, grid, out>> /\ Fixed
      /\ tile' = [tile EXCEPT !.next = tile.next + Block, !.acc = [j \in 0..(Block - 1) |->
           [tile.acc[j] EXCEPT !.sums =
              Body!Added(tile.acc[j].sums, Body!KeptQueries(tile.base, j, tile.next), Heads)]]]
  BY DEF Body!DkvBlock, Body!Working, Body!config, Fixed
<1>2. PerGroup = Heads
      /\ \A j : Body!KeptQueries(tile.base, j, tile.next) = Added(tile.base, j, tile.next)
  BY <1>1 DEF PerGroup, Added
<1>3. kernel.op # "fwd"
  BY <1>1
<1> QED BY <1>1, <1>2, <1>3, StepOfOtherBlock

\* The rows of a simdgroup.
LEMMA HomeIs ==
  ASSUME ConfigOK, RangeInv, kernel.mma, NEW b \in Nat, b % Block = 0, NEW j \in 0..(Block - 1)
  PROVE  Home(Body!Owner(b, j)) = b /\ Body!Owner(b, j) \in Nat
<1>0. Block \in Nat \ {0} /\ range.lo \in Nat /\ range.hi \in Nat /\ j \in Nat
  BY KernelFacts DEF RangeInv
<1>1. ((b + j) \div Block) * Block = b
  <2>1. b + j \in b..(b + Block - 1)
    BY <1>0
  <2>2. (b + j) \div Block = b \div Block /\ b = (b \div Block) * Block
    BY <1>0, <2>1, BlocksAreDisjoint
  <2> QED BY <2>2, Zenon
<1>2. CASE kernel.op = "dkv"
  <2>1. Body!Owner(b, j) = b + j
    BY <1>2 DEF Body!Owner
  <2> QED BY <1>0, <1>1, <1>2, <2>1 DEF Home
<1>3. CASE kernel.op # "dkv"
  <2>1. Body!Owner(b, j) = range.lo + b + j
    BY <1>3 DEF Body!Owner
  <2>2. (range.lo + b + j) - range.lo = b + j
    BY <1>0
  <2>3. Home(range.lo + b + j) = b
    BY <1>1, <1>3, <2>2, Zenon DEF Home
  <2> QED BY <1>0, <2>1, <2>3
<1> QED BY <1>2, <1>3

LEMMA RowOfHome ==
  ASSUME ConfigOK, RangeInv, kernel.mma, NEW r \in Body!Rows, Home(r) \in Nat
  PROVE  \E j \in 0..(Block - 1) : Body!Owner(Home(r), j) = r
<1>0. Block \in Nat \ {0} /\ range.lo \in Nat /\ range.hi \in Nat /\ r \in Nat
  BY KernelFacts DEF RangeInv
<1> DEFINE x == IF kernel.op = "dkv" THEN r ELSE r - range.lo  q == x \div Block
<1>1. Home(r) = q * Block
  BY DEF Home
<1>2. x \in Int
  BY <1>0
<1>3. q \in Int /\ q * Block <= x /\ x < q * Block + Block /\ q * Block \in Int
  <2> HIDE DEF x
  <2> QED BY <1>0, <1>2
<1> HIDE DEF q
<1>4. x - Home(r) \in 0..(Block - 1)
  <2> HIDE DEF x
  <2> QED BY <1>0, <1>1, <1>2, <1>3
<1>5. Body!Owner(Home(r), x - Home(r)) = r
  BY <1>0, <1>2 DEF Body!Owner
<1> QED BY <1>4, <1>5, Zenon

\* A simdgroup starts a slab with what the dispatches before left of its rows.
LEMMA PassIs ==
  ASSUME ConfigOK, RangeInv, OutInv, NEW b \in Nat, b < Owners, b % Block = 0, kernel.mma,
         NEW s \in 1..Slabs,
         kernel.op = "dkv" =>
           \A j \in 0..(Block - 1) : b + j < n => ServedTo(b + j, s) = range.lo
  PROVE  /\ AtWork(Body!Pass(b, s)) /\ Body!Pass(b, s).base = b /\ Body!Pass(b, s).slab = s
         /\ Body!Pass(b, s) # Body!Idle
<1> DEFINE t == Body!Pass(b, s)  first == Body!Bounds(b).first
<1>0. /\ n \in Nat \ {0} /\ Block \in Nat \ {0} /\ first \in Nat /\ first <= n
      /\ first % Block = 0 /\ first <= first
  BY KernelFacts, StartIs
<1>1. t.base = b /\ t.slab = s /\ t.next = first /\ t.acc = Body!Seed(b, s)
      /\ t = [base |-> b, slab |-> s, next |-> first, acc |-> Body!Seed(b, s)]
  BY DEF Body!Pass
<1>2. b \in Body!Rows
  BY <1>0 DEF Body!Rows, RangeInv, Owners
<1> HIDE DEF first
<1>3. ASSUME NEW j \in 0..(Block - 1)
      PROVE  Body!Seed(b, s)[j] \in Body!Lines /\ LineHolds(Body!Seed(b, s)[j], b, j, first)
  <2>1. Body!Seed(b, s)[j] = IF kernel.op = "dkv" /\ b + j < n
                             THEN [Body!Blank EXCEPT !.sums = out[b + j][s].sums] ELSE Body!Blank
    BY DEF Body!Seed
  <2>2. LineDue(b, j, first) =
          IF kernel.op = "dkv" /\ b + j < n THEN Sought(b + j, range.lo) ELSE {}
    BY LineStarts, Zenon DEF first
  <2>3. Body!Blank = [sums |-> <<>>, seen |-> FALSE, nan |-> FALSE]
    BY DEF Body!Blank
  <2>4. CASE kernel.op = "dkv" /\ b + j < n
    <3> DEFINE p == out[b + j][s].sums
    <3>1. b + j \in Body!Rows
      BY <1>0, <2>4 DEF Body!Rows
    <3>2. p \in Seq((1..Heads) \X SUBSET Body!Rows) /\ AddsUp(p, Sought(b + j, range.lo))
      <4>1. out[b + j][s] \in Results
        BY <3>1, Zenon DEF OutInv
      <4>2. AddsUp(p, Sought(b + j, range.lo))
        BY <2>4, <3>1, Zenon DEF OutInv, Holds
      <4> QED BY <4>1, <4>2 DEF Results
    <3> HIDE DEF p
    <3>3. Body!Seed(b, s)[j] = [sums |-> p, seen |-> FALSE, nan |-> FALSE]
      BY <2>1, <2>3, <2>4 DEF p
    <3>4. Body!Seed(b, s)[j] \in Body!Lines
      BY <3>2, <3>3 DEF Body!Lines
    <3>5. Body!Seed(b, s)[j].sums = p /\ ~Body!Seed(b, s)[j].nan /\ kernel.op # "fwd"
      BY <2>4, <3>3
    <3> QED BY <2>2, <2>4, <3>2, <3>4, <3>5, Zenon DEF LineHolds
  <2>5. CASE ~(kernel.op = "dkv" /\ b + j < n)
    <3>1. Body!Seed(b, s)[j] = [sums |-> <<>>, seen |-> FALSE, nan |-> FALSE]
      BY <2>1, <2>3, <2>5
    <3>2. Body!Seed(b, s)[j] \in Body!Lines
      BY <3>1 DEF Body!Lines
    <3>3. /\ Body!Seed(b, s)[j].sums = <<>> /\ ~Body!Seed(b, s)[j].nan
          /\ ~Body!Seed(b, s)[j].seen
      BY <3>1
    <3> QED BY <2>2, <2>5, <3>2, <3>3, NothingAdded, Zenon DEF LineHolds
  <2> QED BY <2>4, <2>5
<1>4. Body!Seed(b, s) \in [0..(Block - 1) -> Body!Lines]
  <2>1. Body!Seed(b, s) = [j \in 0..(Block - 1) |-> Body!Seed(b, s)[j]]
    BY DEF Body!Seed
  <2> QED BY <1>3, <2>1, Zenon
<1>5. t \in [base : Body!Rows, slab : 1..Slabs, next : 0..(n + Block),
             acc : [0..(Block - 1) -> Body!Lines]]
  <2>1. first \in 0..(n + Block)
    BY <1>0
  <2> HIDE DEF t
  <2> QED BY <1>1, <1>2, <1>4, <2>1
<1> HIDE DEF t
<1>6. AtWork(t)
  <2>1. Body!Bounds(t.base).first <= t.next
    BY <1>0, <1>1, Zenon DEF first
  <2> QED BY <1>0, <1>1, <1>3, <1>5, <2>1, Zenon DEF AtWork
<1>7. t # Body!Idle
  BY <1>1 DEF Body!Idle
<1> QED BY <1>1, <1>6, <1>7, Zenon DEF t

LEMMA StepOfStartTile == ASSUME BodyInv, Body!StartTile PROVE BodyInv'
<1>1. kernel.mma /\ tile = Body!Idle /\ Fixed /\ range' = range /\ out' = out
  BY DEF Body!StartTile, Body!config, Fixed
<1>2. PICK b \in grid : grid' = grid \ {b} /\ tile' = Body!Pass(b, 1)
  BY DEF Body!StartTile
<1>3. ConfigOK /\ RangeInv /\ OutInv
  BY DEF BodyInv
<1>4. b \in Nat /\ b < Owners /\ b % Block = 0 /\ 1 \in 1..Slabs /\ range.hi # 0
  <2>1. b \in 0..(Owners - 1) /\ b % Block = 0 /\ range.hi # 0
    BY <1>1, <1>2, <1>3, Zenon DEF RangeInv
  <2>2. Owners \in Int
    BY <1>3, KernelFacts DEF Owners, RangeInv
  <2> QED BY <1>3, <2>1, <2>2, KernelFacts
<1>5. kernel.op = "dkv" =>
        \A j \in 0..(Block - 1) : b + j < n => ServedTo(b + j, 1) = range.lo
  <2> SUFFICES ASSUME kernel.op = "dkv", NEW j \in 0..(Block - 1)
               PROVE  ServedTo(b + j, 1) = range.lo
    OBVIOUS
  <2>1. Body!Owner(b, j) = b + j
    BY DEF Body!Owner
  <2>2. Home(b + j) = b
    BY <1>1, <1>3, <1>4, <2>1, HomeIs, Zenon
  <2> QED BY <1>2, <2>2, Zenon DEF ServedTo, Pending
<1>6. /\ AtWork(tile') /\ tile'.base = b /\ tile'.slab = 1 /\ tile' # Body!Idle
  BY <1>1, <1>2, <1>3, <1>4, <1>5, PassIs, ZenonT(60)
<1>7. ConfigOK' /\ Body!Idle' = Body!Idle /\ kernel' = kernel /\ n' = n /\ cuts' = cuts
      /\ Body!Rows' = Body!Rows /\ Results' = Results
  BY <1>1, <1>3, FixedMeans, Zenon
<1>8. RangeInv'
  <2>1. grid' \subseteq grid
    BY <1>2
  <2> QED BY <1>1, <1>3, <1>4, <1>7, <2>1, FixedMeans, RangeFixed, Zenon DEF RangeInv
<1>9. \A r, s : s \in 1..Slabs => ServedTo(r, s)' = ServedTo(r, s)
  <2>1. \A r : Home(r)' = Home(r)
    BY <1>1, RangeFixed, Zenon
  <2>2. \A s \in 1..Slabs : 1 <= s
    OBVIOUS
  <2>3. \A r, s : s \in 1..Slabs => (Pending(r, s)' <=> Pending(r, s))
    BY <1>1, <1>2, <1>6, <1>7, <2>1, <2>2, Zenon DEF Pending
  <2> QED BY <1>1, <2>3, Zenon DEF ServedTo
<1>10. OutInv'
  BY <1>1, <1>3, <1>7, <1>9, FixedMeans, Zenon DEF OutInv
<1>11. TileInv'
  <2>1. \A t : AtWork(t)' <=> AtWork(t)
    BY <1>1, RangeFixed, Zenon
  <2> QED BY <1>1, <1>2, <1>6, <1>7, <2>1, Zenon DEF TileInv
<1> QED BY <1>7, <1>8, <1>10, <1>11 DEF BodyInv

\* Nothing of the rows past the range is sought or stored before its dispatch.
LEMMA BeyondTheRange ==
  ASSUME ConfigOK, RangeInv, kernel.op # "dkv", NEW r \in Body!Rows, ~(r < range.hi)
  PROVE  /\ Sought(r, range.lo) = Sought(r, range.hi)
         /\ Writes(r, range.lo) = Writes(r, range.hi)
<1>1. ~(r < range.lo)
  BY KernelFacts DEF RangeInv
<1> QED BY <1>1, Zenon DEF Sought, Writes

\* A result of a dispatch over what the dispatches before left.
LEMMA OneMoreWrite ==
  ASSUME ConfigOK, RangeInv, range.hi # 0, NEW r \in Body!Rows,
         kernel.op # "dkv" => ~(r < range.lo) /\ r < range.hi
  PROVE  Writes(r, range.lo) + 1 = Writes(r, range.hi)
<1>1. CASE kernel.op = "dkv"
  BY <1>1, Zenon DEF Writes, RangeInv
<1>2. CASE kernel.op # "dkv"
  <2>1. Writes(r, range.lo) = 0 /\ Writes(r, range.hi) = 1
    BY <1>2, Zenon DEF Writes
  <2> QED BY <2>1
<1> QED BY <1>1, <1>2

LEMMA RowsReachThemselves ==
  ASSUME ConfigOK, NEW r \in Body!Rows
  PROVE  Body!Keep(r, r)
<1>1. r <= r
  BY KernelFacts
<1> QED BY <1>1, Zenon DEF Body!Keep

LEMMA StoredLine ==
  ASSUME BodyInv, tile # Body!Idle, Body!Finished(tile), NEW j \in 0..(Block - 1),
         Body!Stores(tile.base, j)
  PROVE  LET r == Body!Owner(tile.base, j)
             o == Body!Result(tile.acc[j], out[r][tile.slab])
         IN  r \in Body!Rows /\ o \in Results /\ Holds(o, r, range.hi)
<1> DEFINE r == Body!Owner(tile.base, j)  s == tile.slab  line == tile.acc[j]  old == out[r][s]
           o == Body!Result(line, old)
<1>0. /\ ConfigOK /\ RangeInv /\ OutInv /\ AtWork(tile) /\ kernel.mma
      /\ tile.base \notin grid /\ range.hi # 0
  BY WorkIsOfARange DEF BodyInv
<1>1. /\ tile.base \in Nat /\ tile.base % Block = 0 /\ s \in 1..Slabs
      /\ line \in Body!Lines /\ LineHolds(line, tile.base, j, tile.next)
  BY <1>0, WorksMeans, Zenon DEF AtWork
<1>2. /\ r \in Body!Rows /\ (kernel.op # "dkv" => r < range.hi)
      /\ LineDue(tile.base, j, tile.next) = Sought(r, range.hi)
  BY <1>0, LineEnds, Zenon
<1>3. Home(r) = tile.base
  BY <1>0, <1>1, HomeIs, Zenon
<1>4. ServedTo(r, s) = range.lo
  <2>1. s <= s
    BY <1>1
  <2> HIDE DEF r
  <2> QED BY <1>3, <2>1, Zenon DEF ServedTo, Pending, s
<1>5. old \in Results /\ Holds(old, r, range.lo)
  <2> HIDE DEF r, s
  <2>1. Holds(out[r][s], r, ServedTo(r, s)) /\ out[r][s] \in Results
    BY <1>0, <1>1, <1>2, Zenon DEF OutInv
  <2> QED BY <1>4, <2>1, Zenon
<1>6. o = [sums |-> line.sums, nan |-> line.nan \/ (kernel.op = "fwd" /\ ~line.seen),
           writes |-> old.writes + 1]
  BY DEF Body!Result
<1>7. /\ ~line.nan /\ AddsUp(line.sums, Sought(r, range.hi))
      /\ kernel.op = "fwd" => (line.seen <=> Sought(r, range.hi) # {})
  <2> HIDE DEF r, line
  <2> QED BY <1>1, <1>2, Zenon DEF LineHolds
<1>8. kernel.op = "fwd" => line.seen
  <2>1. Body!Keep(r, r)
    <3> HIDE DEF r
    <3> QED BY <1>0, <1>2, RowsReachThemselves, Zenon
  <2>2. kernel.op = "fwd" => kernel.op # "dkv"
    OBVIOUS
  <2> HIDE DEF r, line
  <2>3. kernel.op = "fwd" => Sought(r, range.hi) # {}
    BY <1>2, <2>1, <2>2, Zenon DEF Sought
  <2> QED BY <1>7, <2>3, Zenon
<1>9. old.writes \in Nat /\ old.writes + 1 = Writes(r, range.hi)
  <2>1. kernel.op # "dkv" => ~(r < range.lo)
    <3> SUFFICES ASSUME kernel.op # "dkv" PROVE ~(r < range.lo)
      OBVIOUS
    <3>1. r = range.lo + tile.base + j /\ range.lo \in Nat /\ j \in Nat
      BY <1>0, KernelFacts DEF Body!Owner, RangeInv
    <3> HIDE DEF r
    <3> QED BY <1>1, <3>1
  <2> HIDE DEF r, old
  <2>2. old.writes = Writes(r, range.lo)
    BY <1>5, Zenon DEF Holds
  <2>3. old.writes \in Nat
    BY <1>5 DEF Results
  <2>4. Writes(r, range.lo) + 1 = Writes(r, range.hi)
    BY <1>0, <1>2, <2>1, OneMoreWrite, Zenon
  <2> QED BY <2>2, <2>3, <2>4, Zenon
<1>10. o \in Results
  <2>1. line.sums \in Seq((1..Heads) \X SUBSET Body!Rows) /\ line.nan \in BOOLEAN
    BY <1>1 DEF Body!Lines
  <2>2. (line.nan \/ (kernel.op = "fwd" /\ ~line.seen)) \in BOOLEAN
    OBVIOUS
  <2> DEFINE nan_ == line.nan \/ (kernel.op = "fwd" /\ ~line.seen)
  <2>3. o = [sums |-> line.sums, nan |-> nan_, writes |-> old.writes + 1]
    BY <1>6
  <2>4. nan_ \in BOOLEAN /\ old.writes + 1 \in Nat
    BY <1>9, <2>2
  <2> HIDE DEF o, line, old, nan_
  <2> QED BY <2>1, <2>3, <2>4 DEF Results
<1>11. Holds(o, r, range.hi)
  <2> DEFINE nan_ == line.nan \/ (kernel.op = "fwd" /\ ~line.seen)
  <2>1. o = [sums |-> line.sums, nan |-> nan_, writes |-> old.writes + 1]
    BY <1>6
  <2>2. ~nan_
    <3> HIDE DEF line
    <3> QED BY <1>7, <1>8, Zenon
  <2> HIDE DEF o, line, old, r, nan_
  <2>3. o.sums = line.sums /\ o.writes = old.writes + 1 /\ o.nan = nan_
    BY <2>1
  <2> QED BY <1>7, <1>9, <2>2, <2>3, Zenon DEF Holds
<1> QED BY <1>2, <1>10, <1>11, Zenon

LEMMA StepOfStoreSlab == ASSUME BodyInv, Body!StoreSlab PROVE BodyInv'
<1> DEFINE b == tile.base  s == tile.slab
           Mine(r) == \E j \in 0..(Block - 1) : Body!Owner(b, j) = r /\ Body!Stores(b, j)
<1>1. /\ tile # Body!Idle /\ Body!Finished(tile) /\ Fixed /\ range' = range /\ grid' = grid
      /\ tile' = IF s < Slabs THEN Body!Pass(b, s + 1) ELSE Body!Idle
      /\ out' = [r \in Body!Rows |->
                   IF Mine(r)
                   THEN [out[r] EXCEPT ![s] =
                           Body!Result(tile.acc[r - Body!Owner(b, 0)], out[r][s])]
                   ELSE out[r]]
  BY DEF Body!StoreSlab, Body!config, Fixed
<1>2. /\ ConfigOK /\ RangeInv /\ OutInv /\ AtWork(tile) /\ kernel.mma
      /\ b \notin grid /\ range.hi # 0
  BY <1>1, WorkIsOfARange DEF BodyInv
<1>3. /\ b \in Nat /\ b < Owners /\ b % Block = 0 /\ s \in 1..Slabs /\ Slabs \in Nat
      /\ Block \in Nat \ {0}
  BY <1>2, WorksMeans, KernelFacts DEF AtWork
<1> HIDE DEF s
<1>4. ConfigOK' /\ Body!Idle' = Body!Idle /\ kernel' = kernel /\ n' = n /\ cuts' = cuts
      /\ Body!Rows' = Body!Rows /\ Results' = Results
  BY <1>1, <1>2, FixedMeans, Zenon
<1>5. /\ s < Slabs => /\ AtWork(tile') /\ tile'.base = b /\ tile'.slab = s + 1
                      /\ tile' # Body!Idle
      /\ ~(s < Slabs) => tile' = Body!Idle
  <2> SUFFICES ASSUME s < Slabs
               PROVE  /\ AtWork(tile') /\ tile'.base = b /\ tile'.slab = s + 1
                      /\ tile' # Body!Idle
    BY <1>1, Zenon
  <2>1. s + 1 \in 1..Slabs /\ s <= s + 1
    BY <1>3
  <2>2. kernel.op = "dkv" =>
          \A j \in 0..(Block - 1) : b + j < n => ServedTo(b + j, s + 1) = range.lo
    <3> SUFFICES ASSUME kernel.op = "dkv", NEW j \in 0..(Block - 1)
                 PROVE  ServedTo(b + j, s + 1) = range.lo
      OBVIOUS
    <3>1. Body!Owner(b, j) = b + j
      BY DEF Body!Owner
    <3> HIDE DEF b
    <3>2. Home(b + j) = b
      BY <1>2, <1>3, <3>1, HomeIs, Zenon
    <3> QED BY <1>1, <2>1, <3>2, Zenon DEF ServedTo, Pending, b, s
  <2>3. tile' = Body!Pass(b, s + 1)
    BY <1>1, Zenon
  <2> HIDE DEF b
  <2> QED BY <1>2, <1>3, <2>1, <2>2, <2>3, PassIs, ZenonT(60)
<1>6. ASSUME NEW r \in Body!Rows, NEW t \in 1..Slabs
      PROVE  /\ (t = s /\ Home(r) = b) => ServedTo(r, t) = range.lo /\ ServedTo(r, t)' = range.hi
             /\ ~(t = s /\ Home(r) = b) => ServedTo(r, t)' = ServedTo(r, t)
  <2>1. Home(r)' = Home(r)
    BY <1>1, RangeFixed, Zenon
  <2>2. Pending(r, t) <=> Home(r) \in grid \/ (b = Home(r) /\ s <= t)
    BY <1>1, Zenon DEF Pending, s
  <2>3. Pending(r, t)' <=> Home(r) \in grid \/ (b = Home(r) /\ s < t)
    <3>1. CASE s < Slabs
      <4>1. Pending(r, t)' <=> Home(r) \in grid \/ (b = Home(r) /\ s + 1 <= t)
        BY <1>1, <1>4, <1>5, <2>1, <3>1, Zenon DEF Pending
      <4>2. s + 1 <= t <=> s < t
        BY <1>3
      <4> QED BY <4>1, <4>2, Zenon
    <3>2. CASE ~(s < Slabs)
      <4>1. Pending(r, t)' <=> Home(r) \in grid
        BY <1>1, <1>4, <1>5, <2>1, <3>2, Zenon DEF Pending
      <4>2. ~(s < t)
        BY <1>3, <3>2
      <4> QED BY <4>1, <4>2, Zenon
    <3> QED BY <3>1, <3>2
  <2>4. (s <= t <=> s < t) \/ t = s
    BY <1>3
  <2>5. s <= s /\ ~(s < s)
    BY <1>3
  <2> HIDE DEF b
  <2> QED BY <1>1, <1>2, <2>2, <2>3, <2>4, <2>5, Zenon DEF ServedTo
<1>7. ASSUME NEW r \in Body!Rows, Mine(r)
      PROVE  /\ Home(r) = b
             /\ Body!Result(tile.acc[r - Body!Owner(b, 0)], out[r][s]) \in Results
             /\ Holds(Body!Result(tile.acc[r - Body!Owner(b, 0)], out[r][s]), r, range.hi)
  <2>1. PICK j \in 0..(Block - 1) : Body!Owner(b, j) = r /\ Body!Stores(b, j)
    BY <1>7
  <2>2. r - Body!Owner(b, 0) = j
    BY <1>2, <1>3, <2>1 DEF Body!Owner, RangeInv
  <2>3. Home(r) = b
    <3> HIDE DEF b
    <3> QED BY <1>2, <1>3, <2>1, HomeIs, Zenon
  <2>4. /\ Body!Result(tile.acc[j], out[r][s]) \in Results
        /\ Holds(Body!Result(tile.acc[j], out[r][s]), r, range.hi)
    BY <1>1, <2>1, StoredLine, Zenon DEF s
  <2> QED BY <2>2, <2>3, <2>4, Zenon
<1>8. ASSUME NEW r \in Body!Rows, NEW t \in 1..Slabs
      PROVE  out'[r][t] \in Results /\ Holds(out'[r][t], r, ServedTo(r, t)')
  <2>0. out[r][t] \in Results /\ Holds(out[r][t], r, ServedTo(r, t))
        /\ out[r] \in [1..Slabs -> Results]
    BY <1>2, Zenon DEF OutInv
  <2>1. CASE Mine(r)
    <3>1. out'[r] = [out[r] EXCEPT ![s] =
                       Body!Result(tile.acc[r - Body!Owner(b, 0)], out[r][s])]
      BY <1>1, <2>1, Zenon
    <3> DEFINE o == Body!Result(tile.acc[r - Body!Owner(b, 0)], out[r][s])
    <3>2. Home(r) = b /\ o \in Results /\ Holds(o, r, range.hi)
      BY <1>7, <2>1, Zenon
    <3> HIDE DEF o
    <3>3. out'[r] = [out[r] EXCEPT ![s] = o]
      BY <3>1 DEF o
    <3>4. out'[r][t] = IF t = s THEN o ELSE out[r][t]
      BY <2>0, <3>3
    <3> HIDE DEF b
    <3>5. CASE t = s
      BY <1>6, <3>2, <3>4, <3>5, Zenon
    <3>6. CASE t # s
      BY <1>6, <2>0, <3>4, <3>6, Zenon
    <3> QED BY <3>5, <3>6
  <2>2. CASE ~Mine(r)
    <3>1. out'[r] = out[r]
      BY <1>1, <2>2, Zenon
    <3>2. CASE t = s /\ Home(r) = b
      <4>1. PICK j \in 0..(Block - 1) : Body!Owner(b, j) = r
        BY <1>2, <1>3, <3>2, RowOfHome
      <4>2. ~Body!Stores(b, j)
        BY <2>2, <4>1
      <4>3. kernel.op # "dkv" /\ ~(r < range.hi)
        <5>1. r < n /\ range.lo \in Nat /\ range.hi \in Nat /\ n \in Nat
          BY <1>2, KernelFacts DEF RangeInv, Body!Rows
        <5> HIDE DEF b
        <5>2. kernel.op # "dkv"
          BY <1>3, <4>1, <4>2, <5>1 DEF Body!Stores, Body!Owner
        <5>3. range.lo + b + j = r /\ ~(b + j < range.hi - range.lo)
          BY <4>1, <4>2, <5>2 DEF Body!Stores, Body!Owner
        <5> QED BY <1>3, <5>1, <5>2, <5>3
      <4>4. Sought(r, range.lo) = Sought(r, range.hi) /\ Writes(r, range.lo) = Writes(r, range.hi)
        BY <1>2, <4>3, BeyondTheRange, Zenon
      <4>5. ServedTo(r, t) = range.lo /\ ServedTo(r, t)' = range.hi
        BY <1>6, <3>2, Zenon
      <4> QED BY <2>0, <3>1, <4>4, <4>5, Zenon DEF Holds
    <3>3. CASE ~(t = s /\ Home(r) = b)
      BY <1>6, <2>0, <3>1, <3>3, Zenon
    <3> QED BY <3>2, <3>3
  <2> QED BY <2>1, <2>2
<1>9. OutInv'
  <2>1. out' \in [Body!Rows -> [1..Slabs -> Results]]
    <3> SUFFICES ASSUME NEW r \in Body!Rows PROVE out'[r] \in [1..Slabs -> Results]
      BY <1>1, Zenon
    <3>1. out[r] \in [1..Slabs -> Results]
      BY <1>2, Zenon DEF OutInv
    <3>2. DOMAIN out'[r] = 1..Slabs /\ out'[r] = [t \in 1..Slabs |-> out'[r][t]]
      <4>1. CASE Mine(r)
        <5> DEFINE o == Body!Result(tile.acc[r - Body!Owner(b, 0)], out[r][s])
        <5>1. out'[r] = [out[r] EXCEPT ![s] = o]
          BY <1>1, <4>1, Zenon
        <5> HIDE DEF o
        <5> QED BY <3>1, <5>1
      <4>2. CASE ~Mine(r)
        <5>1. out'[r] = out[r]
          BY <1>1, <4>2, Zenon
        <5> QED BY <3>1, <5>1
      <4> QED BY <4>1, <4>2
    <3> QED BY <1>8, <3>2, Zenon
  <2> QED BY <1>1, <1>4, <1>8, <2>1, FixedMeans, Zenon DEF OutInv
<1>10. RangeInv'
  BY <1>1, <1>2, <1>4, FixedMeans, RangeFixed, Zenon DEF RangeInv
<1>11. TileInv'
  <2>1. \A t : AtWork(t)' <=> AtWork(t)
    BY <1>1, RangeFixed, Zenon
  <2>2. CASE s < Slabs
    BY <1>1, <1>2, <1>4, <1>5, <2>1, <2>2, Zenon DEF TileInv
  <2>3. CASE ~(s < Slabs)
    BY <1>4, <1>5, <2>3, Zenon DEF TileInv
  <2> QED BY <2>2, <2>3
<1> QED BY <1>4, <1>9, <1>10, <1>11 DEF BodyInv

LEMMA CutsAreFinite ==
  ASSUME ConfigOK, NEW T \in SUBSET cuts
  PROVE  IsFiniteSet(T) /\ Cardinality(T) \in Nat
<1>1. n - 1 \in Int /\ 1 \in Int
  BY KernelFacts
<1>2. IsFiniteSet(1..(n - 1))
  BY <1>1, FS_Interval, Zenon
<1>3. T \in SUBSET (1..(n - 1))
  BY Zenon DEF ConfigOK
<1>4. IsFiniteSet(T)
  BY <1>2, <1>3, FS_Subset, Zenon
<1> QED BY <1>4, FS_CardinalityType, Zenon

\* The range after lo ends at the next cut: it is one dispatch more.
LEMMA NextRange ==
  ASSUME ConfigOK, NEW lo \in cuts \cup {0}, NEW hi,
         hi = Body!Min({c \in cuts : lo < c} \cup {n})
  PROVE  /\ lo \in Nat /\ lo < n /\ hi \in Nat /\ lo < hi /\ hi <= n /\ hi \in cuts \cup {n}
         /\ Dispatches(hi) = Dispatches(lo) + 1
<1>0. /\ n \in Nat \ {0} /\ cuts \subseteq Nat /\ \A c \in cuts : 0 < c /\ c < n
      /\ lo \in Nat /\ lo < n
  BY DEF ConfigOK
<1> DEFINE S == {c \in cuts : lo < c} \cup {n}
<1>1. hi \in S /\ \A y \in S : hi <= y
  <2>1. S \in SUBSET Nat /\ S # {}
    BY <1>0
  <2> HIDE DEF S
  <2>2. Body!Min(S) \in S /\ \A y \in S : Body!Min(S) <= y
    BY <2>1, LeastIn
  <2> QED BY <2>2, Zenon DEF S
<1>2. /\ hi \in Nat /\ lo < hi /\ hi <= n /\ hi \in cuts \cup {n} /\ hi # 0
      /\ \A c \in cuts : lo < c => hi <= c
  BY <1>0, <1>1
<1> HIDE DEF S
<1>3. Dispatches(hi) = Cardinality({c \in cuts : c < hi}) + 1
  BY <1>2, Zenon DEF Dispatches
<1>4. Dispatches(hi) = Dispatches(lo) + 1
  <2>1. CASE lo = 0
    <3>1. \A c \in cuts : ~(c < hi)
      BY <1>0, <1>2, <2>1
    <3>2. {c \in cuts : c < hi} = {}
      BY <3>1, Zenon
    <3>3. Cardinality({c \in cuts : c < hi}) = 0
      BY <3>2, FS_EmptySet, Zenon
    <3>4. Dispatches(lo) = 0
      BY <2>1, Zenon DEF Dispatches
    <3> QED BY <1>3, <3>3, <3>4, Zenon
  <2>2. CASE lo # 0
    <3> DEFINE T == {c \in cuts : c < lo}
    <3>1. lo \in cuts
      BY <2>2
    <3>2. \A c \in cuts : c < hi <=> (c < lo \/ c = lo)
      BY <1>0, <1>2
    <3>3. {c \in cuts : c < hi} = T \cup {lo}
      BY <3>1, <3>2, Zenon
    <3>4. IsFiniteSet(T) /\ Cardinality(T) \in Nat
      BY CutsAreFinite, Zenon
    <3>5. lo \notin T
      BY <1>0
    <3>6. Dispatches(lo) = Cardinality(T) + 1
      BY <2>2, Zenon DEF Dispatches
    <3> HIDE DEF T
    <3>7. Cardinality(T \cup {lo}) = Cardinality(T) + 1
      BY <3>4, <3>5, FS_AddElement, Zenon
    <3> QED BY <1>3, <3>3, <3>6, <3>7, Zenon
  <2> QED BY <2>1, <2>2
<1> QED BY <1>0, <1>2, <1>4

LEMMA StepOfDispatch == ASSUME BodyInv, Body!Dispatch PROVE BodyInv'
<1> DEFINE lo == range.hi
           hi == Body!Min({c \in cuts : lo < c} \cup {n})
           owners == IF kernel.op = "dkv" THEN n ELSE hi - lo
<1>1. /\ grid = {} /\ tile = Body!Idle /\ range.hi < n /\ Fixed /\ tile' = tile /\ out' = out
      /\ range' = [lo |-> lo, hi |-> hi]
      /\ grid' = {b \in 0..(owners - 1) : kernel.mma => b % Block = 0}
  BY DEF Body!Dispatch, Body!Barrier, Body!config, Fixed
<1>2. ConfigOK /\ RangeInv /\ OutInv
  BY DEF BodyInv
<1>3. lo \in cuts \cup {0}
  <2>1. n \in Nat /\ lo \in Nat /\ lo \in cuts \cup {0, n}
    BY <1>2, KernelFacts DEF RangeInv
  <2> QED BY <1>1, <2>1
<1>4. /\ lo \in Nat /\ lo < n /\ hi \in Nat /\ lo < hi /\ hi <= n /\ hi \in cuts \cup {n}
      /\ Dispatches(hi) = Dispatches(lo) + 1
  <2> HIDE DEF lo
  <2> QED BY <1>2, <1>3, NextRange
<1> HIDE DEF hi
<1>5. /\ ConfigOK' /\ kernel' = kernel /\ n' = n /\ cuts' = cuts /\ Body!Rows' = Body!Rows
      /\ Results' = Results /\ Body!Idle' = Body!Idle
      /\ range'.lo = lo /\ range'.hi = hi
  BY <1>1, <1>2, FixedMeans
<1>6. Owners' = owners
  BY <1>5, Zenon DEF Owners
<1>7. RangeInv'
  <2>1. hi # 0 /\ hi \in cuts \cup {0, n} /\ lo <= hi
    BY <1>4
  <2>3. (Dispatches(range.hi))' = Dispatches(hi) /\ (Dispatches(range.lo))' = Dispatches(lo)
    BY <1>5, Zenon DEF Dispatches
  <2>4. grid' \subseteq 0..(owners - 1) /\ (kernel.mma => \A b \in grid' : b % Block = 0)
    BY <1>1
  <2> HIDE DEF lo, owners
  <2> QED BY <1>3, <1>4, <1>5, <1>6, <2>1, <2>3, <2>4, Zenon DEF RangeInv
<1>8. ASSUME NEW r \in Body!Rows, kernel.op = "dkv" \/ (~(r < lo) /\ r < hi)
      PROVE  Home(r)' \in grid'
  <2> DEFINE x == IF kernel.op = "dkv" THEN r ELSE r - lo  q == x \div Block
  <2>0. r \in Nat /\ r < n /\ Block \in Nat \ {0} /\ n \in Nat
    BY <1>2, KernelFacts DEF Body!Rows
  <2>1. x \in Nat /\ x < owners /\ owners \in Nat
    BY <1>4, <1>8, <2>0
  <2>2. Home(r)' = IF kernel.mma THEN q * Block ELSE x
    BY <1>5, Zenon DEF Home
  <2> HIDE DEF x, owners
  <2>3. q \in Nat /\ q * Block <= x
    BY <2>0, <2>1, QuotientBounds
  <2> HIDE DEF q
  <2>4. q * Block \in Nat /\ (q * Block) % Block = 0
    <3>1. q * Block \in Nat /\ q * Block + 0 = q * Block /\ 0 \in 0..(Block - 1)
      BY <2>0, <2>3
    <3> QED BY <2>0, <2>3, <3>1, RemainderIs
  <2>5. q * Block \in 0..(owners - 1) /\ x \in 0..(owners - 1)
    <3> DEFINE y == q * Block
    <3>1. y \in Nat /\ y <= x
      BY <2>3, <2>4
    <3> HIDE DEF y
    <3>2. y \in 0..(owners - 1) /\ x \in 0..(owners - 1)
      BY <2>1, <3>1
    <3> QED BY <3>2 DEF y
  <2> QED BY <1>1, <2>2, <2>4, <2>5, Zenon
<1>9. ASSUME NEW r \in Body!Rows, NEW s \in 1..Slabs
      PROVE  Holds(out[r][s], r, ServedTo(r, s)')
  <2>1. ~Pending(r, s)
    BY <1>1, Zenon DEF Pending
  <2>2. Holds(out[r][s], r, lo)
    BY <1>2, <2>1, Zenon DEF OutInv, ServedTo
  <2>3. ServedTo(r, s)' = lo \/ (ServedTo(r, s)' = hi /\ Home(r)' \notin grid')
    BY <1>5, Zenon DEF ServedTo, Pending
  <2>4. CASE Home(r)' \notin grid'
    <3>1. kernel.op # "dkv" /\ (r < lo \/ ~(r < hi))
      BY <1>8, <2>4, Zenon
    <3>2. r < lo <=> r < hi
      <4>1. r \in Nat
        BY <1>2, KernelFacts
      <4> HIDE DEF lo
      <4> QED BY <1>4, <3>1, <4>1
    <3> HIDE DEF lo
    <3>3. Sought(r, lo) = Sought(r, hi) /\ Writes(r, lo) = Writes(r, hi)
      BY <3>1, <3>2, Zenon DEF Sought, Writes
    <3> QED BY <2>2, <2>3, <3>3, Zenon DEF Holds
  <2>5. CASE Home(r)' \in grid'
    BY <2>2, <2>3, <2>5, Zenon
  <2> QED BY <2>4, <2>5
<1>10. OutInv'
  BY <1>1, <1>2, <1>5, <1>9, FixedMeans, Zenon DEF OutInv
<1>11. TileInv'
  BY <1>1, <1>5, Zenon DEF TileInv
<1> QED BY <1>5, <1>7, <1>10, <1>11 DEF BodyInv

\* A scalar thread stores the whole of what its row has to hold.
LEMMA ThreadStores ==
  ASSUME BodyInv, ~kernel.mma, Fixed, range' = range, tile' = tile,
         NEW b \in grid, grid' = grid \ {b}, NEW r, r = IF kernel.op = "dkv" THEN b ELSE range.lo + b,
         NEW p, AddsUp(p, Sought(r, range.hi)), NEW dead, dead = FALSE, Body!Stored(r, p, dead)
  PROVE  BodyInv'
<1>1. ConfigOK /\ RangeInv /\ OutInv /\ tile = Body!Idle /\ range.hi # 0
  BY DEF BodyInv, TileInv, RangeInv
<1>2. /\ b \in Nat /\ b < Owners /\ range.lo \in Nat /\ range.hi \in Nat /\ range.hi <= n
      /\ n \in Nat
  BY <1>1, KernelFacts DEF RangeInv, Owners
<1>3. /\ r \in Body!Rows /\ Home(r) = b
      /\ kernel.op # "dkv" => ~(r < range.lo) /\ r < range.hi
      /\ \A q \in Body!Rows : Home(q) = b => q = r
  <2>1. CASE kernel.op = "dkv"
    <3>1. \A q : Home(q) = q
      BY <2>1, Zenon DEF Home
    <3>2. r = b /\ r \in Body!Rows
      BY <1>2, <2>1 DEF Owners, Body!Rows
    <3> QED BY <2>1, <3>1, <3>2, Zenon
  <2>2. CASE kernel.op # "dkv"
    <3>1. \A q : Home(q) = q - range.lo
      BY <2>2, Zenon DEF Home
    <3>2. r = range.lo + b /\ r \in Body!Rows /\ r < range.hi /\ ~(r < range.lo)
      BY <1>2, <2>2 DEF Owners, Body!Rows
    <3>3. \A q \in Body!Rows : q \in Int
      BY DEF Body!Rows
    <3>4. \A q \in Body!Rows : q - range.lo = b => q = r
      BY <1>2, <3>2, <3>3
    <3>5. r - range.lo = b
      BY <1>2, <3>2
    <3> QED BY <2>2, <3>1, <3>2, <3>4, <3>5, Zenon
  <2> QED BY <2>1, <2>2
<1>4. /\ ConfigOK' /\ kernel' = kernel /\ n' = n /\ cuts' = cuts /\ Body!Rows' = Body!Rows
      /\ Results' = Results /\ Body!Idle' = Body!Idle
  BY <1>1, FixedMeans
<1>5. out' = [out EXCEPT ![r] = [s \in 1..Slabs |->
                [sums |-> p, nan |-> dead, writes |-> out[r][s].writes + 1]]]
  BY DEF Body!Stored
<1>6. /\ \A q \in Body!Rows : q # r => out'[q] = out[q]
      /\ \A s \in 1..Slabs :
           out'[r][s] = [sums |-> p, nan |-> dead, writes |-> out[r][s].writes + 1]
      /\ DOMAIN out' = Body!Rows /\ out' = [q \in Body!Rows |-> out'[q]]
      /\ out'[r] = [s \in 1..Slabs |-> out'[r][s]]
  <2>1. out \in [Body!Rows -> [1..Slabs -> Results]]
    BY <1>1, Zenon DEF OutInv
  <2> QED BY <1>3, <1>5, <2>1
<1>7. ASSUME NEW s \in 1..Slabs
      PROVE  /\ ServedTo(r, s) = range.lo /\ ServedTo(r, s)' = range.hi
             /\ out'[r][s] \in Results /\ Holds(out'[r][s], r, range.hi)
  <2>1. ServedTo(r, s) = range.lo
    BY <1>3, Zenon DEF ServedTo, Pending
  <2>2. Home(r)' = b
    BY <1>3, RangeFixed, Zenon
  <2>3. ServedTo(r, s)' = range.hi
    BY <1>1, <1>4, <2>2, Zenon DEF ServedTo, Pending
  <2>4. out[r][s] \in Results /\ Holds(out[r][s], r, range.lo)
    BY <1>1, <1>3, <2>1, Zenon DEF OutInv
  <2>5. out[r][s].writes \in Nat /\ out[r][s].writes = Writes(r, range.lo)
    BY <2>4 DEF Results, Holds
  <2>6. Writes(r, range.lo) + 1 = Writes(r, range.hi)
    BY <1>1, <1>3, OneMoreWrite, Zenon
  <2>7. p \in Seq((1..Heads) \X SUBSET Body!Rows)
    <3>1. 0..(range.hi - 1) \subseteq 0..(n - 1)
      BY <1>2
    <3>2. Sought(r, range.hi) \in SUBSET (0..(n - 1))
      BY <3>1, Zenon DEF Sought, Body!Rows
    <3> QED BY <1>2, <3>2, AddedType, Zenon DEF Body!Rows
  <2> DEFINE o == out'[r][s]  w == out[r][s].writes
  <2>8. o = [sums |-> p, nan |-> dead, writes |-> w + 1] /\ w \in Nat /\ dead \in BOOLEAN
    BY <1>6, <2>5
  <2>9. w + 1 = Writes(r, range.hi)
    BY <2>5, <2>6, Zenon
  <2> HIDE DEF o, w
  <2>10. o \in Results
    BY <2>7, <2>8 DEF Results
  <2>11. o.sums = p /\ ~o.nan /\ o.writes = w + 1
    BY <2>8
  <2>12. Holds(o, r, range.hi)
    BY <2>9, <2>11, Zenon DEF Holds
  <2> QED BY <2>1, <2>3, <2>10, <2>12, Zenon DEF o
<1>8. ASSUME NEW q \in Body!Rows, q # r, NEW s \in 1..Slabs
      PROVE  ServedTo(q, s)' = ServedTo(q, s)
  <2>1. Home(q)' = Home(q) /\ Home(q) # b
    BY <1>3, <1>8, RangeFixed, Zenon
  <2>2. Home(q) \in grid' <=> Home(q) \in grid
    BY <2>1
  <2> QED BY <1>1, <1>4, <2>1, <2>2, Zenon DEF ServedTo, Pending
<1>9. OutInv'
  <2>1. ASSUME NEW q \in Body!Rows PROVE out'[q] \in [1..Slabs -> Results]
    <3>1. CASE q = r
      BY <1>6, <1>7, <3>1, Zenon
    <3>2. CASE q # r
      BY <1>1, <1>6, <3>2, Zenon DEF OutInv
    <3> QED BY <3>1, <3>2
  <2>2. out' \in [Body!Rows -> [1..Slabs -> Results]]
    BY <1>6, <2>1, Zenon
  <2>3. ASSUME NEW q \in Body!Rows, NEW s \in 1..Slabs
        PROVE  Holds(out'[q][s], q, ServedTo(q, s)')
    <3>1. CASE q = r
      BY <1>7, <3>1, Zenon
    <3>2. CASE q # r
      BY <1>1, <1>6, <1>8, <3>2, Zenon DEF OutInv
    <3> QED BY <3>1, <3>2
  <2> QED BY <1>4, <2>2, <2>3, FixedMeans, Zenon DEF OutInv
<1>10. RangeInv'
  <2>1. grid' \subseteq grid
    OBVIOUS
  <2> QED BY <1>1, <1>4, <2>1, FixedMeans, RangeFixed, Zenon DEF RangeInv
<1>11. TileInv'
  BY <1>1, <1>4, Zenon DEF TileInv
<1> QED BY <1>4, <1>9, <1>10, <1>11 DEF BodyInv

LEMMA ThreadsRow ==
  ASSUME ConfigOK, RangeInv, kernel.op # "dkv", NEW b \in grid
  PROVE  range.lo + b \in Body!Rows /\ range.lo + b < range.hi
<1>1. b \in 0..(range.hi - range.lo - 1)
  BY DEF RangeInv, Owners
<1> QED BY <1>1, KernelFacts DEF RangeInv, Body!Rows

LEMMA WholeRow ==
  ASSUME ConfigOK, RangeInv, kernel.op # "dkv", ~kernel.mma, NEW b \in grid
  PROVE  AddsUp(Body!OneByOne(<<>>, {k \in Body!Rows : Body!Keep(range.lo + b, k)}, 1),
                Sought(range.lo + b, range.hi))
<1> DEFINE r == range.lo + b  kept == {k \in Body!Rows : Body!Keep(r, k)}
<1>1. n \in Nat /\ kernel.mma = FALSE /\ PerGroup = 1
  BY KernelFacts DEF PerGroup
<1>2. kept \in SUBSET (0..(n - 1))
  BY DEF Body!Rows
<1>3. {} \in SUBSET Nat /\ \A x \in {}, y \in kept : x < y
  OBVIOUS
<1>4. Sought(r, range.hi) = kept
  BY ThreadsRow, Zenon DEF Sought
<1> HIDE DEF kept
<1>5. AddsUp(Body!OneByOne(<<>>, kept, PerGroup), {} \cup kept)
  BY <1>1, <1>2, <1>3, NothingAdded, RowByRow, Zenon
<1>6. {} \cup kept = kept
  OBVIOUS
<1> QED BY <1>1, <1>4, <1>5, <1>6, Zenon DEF kept

LEMMA StepOfFwdThread == ASSUME BodyInv, Body!FwdThread PROVE BodyInv'
<1>1. /\ kernel.op # "dkv" /\ ~kernel.mma /\ Fixed /\ range' = range /\ tile' = tile
      /\ ConfigOK /\ RangeInv
  BY DEF Body!FwdThread, Body!config, Fixed, BodyInv
<1>2. PICK b \in grid :
        /\ grid' = grid \ {b}
        /\ Body!Stored(range.lo + b,
                       Body!OneByOne(<<>>, {k \in Body!Rows : Body!Keep(range.lo + b, k)}, 1),
                       {k \in Body!Rows : Body!Keep(range.lo + b, k)} = {})
  BY Zenon DEF Body!FwdThread
<1> DEFINE r == range.lo + b  kept == {k \in Body!Rows : Body!Keep(r, k)}
           p == Body!OneByOne(<<>>, kept, 1)  dead == kept = {}
<1>3. dead = FALSE
  <2>1. r \in Body!Rows
    BY <1>1, ThreadsRow, Zenon
  <2> HIDE DEF r
  <2>2. r \in kept
    BY <1>1, <2>1, RowsReachThemselves, Zenon
  <2> QED BY <2>2
<1>4. AddsUp(p, Sought(r, range.hi))
  BY <1>1, WholeRow, Zenon
<1>5. Body!Stored(r, p, dead) /\ r = IF kernel.op = "dkv" THEN b ELSE range.lo + b
  BY <1>1, <1>2, Zenon
<1> HIDE DEF r, p, dead
<1> QED BY <1>1, <1>2, <1>3, <1>4, <1>5, ThreadStores, Zenon

LEMMA StepOfDqThread == ASSUME BodyInv, Body!DqThread PROVE BodyInv'
<1>1. /\ kernel.op # "dkv" /\ ~kernel.mma /\ Fixed /\ range' = range /\ tile' = tile
      /\ ConfigOK /\ RangeInv
  BY DEF Body!DqThread, Body!config, Fixed, BodyInv
<1>2. PICK b \in grid :
        /\ grid' = grid \ {b}
        /\ Body!Stored(range.lo + b,
                       Body!OneByOne(<<>>, {k \in Body!Rows : Body!Keep(range.lo + b, k)}, 1),
                       FALSE)
  BY Zenon DEF Body!DqThread
<1> DEFINE r == range.lo + b
           p == Body!OneByOne(<<>>, {k \in Body!Rows : Body!Keep(r, k)}, 1)
<1>3. AddsUp(p, Sought(r, range.hi))
  BY <1>1, WholeRow, Zenon
<1>4. Body!Stored(r, p, FALSE) /\ r = IF kernel.op = "dkv" THEN b ELSE range.lo + b
  BY <1>1, <1>2, Zenon
<1> HIDE DEF r, p
<1> QED BY <1>1, <1>2, <1>3, <1>4, ThreadStores, Zenon

LEMMA StepOfDkvThread == ASSUME BodyInv, Body!DkvThread PROVE BodyInv'
<1>1. /\ kernel.op = "dkv" /\ ~kernel.mma /\ Fixed /\ range' = range /\ tile' = tile
      /\ ConfigOK /\ RangeInv /\ OutInv
  BY DEF Body!DkvThread, Body!config, Fixed, BodyInv
<1>2. PICK key \in grid :
        /\ grid' = grid \ {key}
        /\ Body!Stored(key,
             Body!OneByOne(out[key][1].sums,
                           {i \in range.lo..(range.hi - 1) : Body!Keep(i, key)}, Heads),
             FALSE)
  BY Zenon DEF Body!DkvThread
<1> DEFINE old == out[key][1].sums
           more == {i \in range.lo..(range.hi - 1) : Body!Keep(i, key)}
           p == Body!OneByOne(old, more, Heads)
<1>3. /\ n \in Nat /\ kernel.mma = FALSE /\ PerGroup = Heads /\ 1 \in 1..Slabs
      /\ range.lo \in Nat /\ range.hi \in Nat /\ range.lo <= range.hi /\ range.hi <= n
  BY <1>1, KernelFacts DEF PerGroup, RangeInv
<1>4. key \in Body!Rows /\ Home(key) = key
  <2>1. key \in 0..(n - 1)
    BY <1>1 DEF RangeInv, Owners
  <2> QED BY <1>1, <2>1, Zenon DEF Home, Body!Rows
<1>5. AddsUp(old, Sought(key, range.lo))
  <2>1. ServedTo(key, 1) = range.lo
    BY <1>4, Zenon DEF ServedTo, Pending
  <2> QED BY <1>1, <1>3, <1>4, <2>1, Zenon DEF OutInv, Holds
<1>6. /\ Sought(key, range.lo) \in SUBSET Nat /\ more \in SUBSET (0..(n - 1))
      /\ \A x \in Sought(key, range.lo), y \in more : x < y
      /\ Sought(key, range.lo) \cup more = Sought(key, range.hi)
  <2>1. /\ \A x : x \in 0..(range.hi - 1) <=> x \in 0..(range.lo - 1) \/ x \in range.lo..(range.hi - 1)
        /\ \A x : x \in 0..(range.lo - 1) => x \in Nat
        /\ \A x : x \in range.lo..(range.hi - 1) => x \in 0..(n - 1)
        /\ \A x \in 0..(range.lo - 1), y \in range.lo..(range.hi - 1) : x < y
    BY <1>3
  <2>2. /\ Sought(key, range.lo) = {i \in 0..(range.lo - 1) : Body!Keep(i, key)}
        /\ Sought(key, range.hi) = {i \in 0..(range.hi - 1) : Body!Keep(i, key)}
    BY <1>1, Zenon DEF Sought
  <2>3. \A x : x \in Sought(key, range.lo) \cup more <=> x \in Sought(key, range.hi)
    BY <2>1, <2>2, Zenon
  <2>4. Sought(key, range.lo) \cup more = Sought(key, range.hi)
    <3> HIDE DEF more
    <3> QED BY <2>3, Zenon
  <2>5. \A x \in Sought(key, range.lo), y \in more : x < y
    BY <2>1, <2>2, Zenon
  <2> QED BY <2>1, <2>2, <2>4, <2>5, Zenon
<1>7. AddsUp(p, Sought(key, range.hi))
  <2> HIDE DEF old, more
  <2>1. AddsUp(Body!OneByOne(old, more, PerGroup), Sought(key, range.lo) \cup more)
    BY <1>3, <1>5, <1>6, RowByRow, Zenon
  <2> QED BY <1>3, <1>6, <2>1, Zenon
<1>8. Body!Stored(key, p, FALSE) /\ key = IF kernel.op = "dkv" THEN key ELSE range.lo + key
  BY <1>1, <1>2, Zenon
<1> HIDE DEF p
<1> QED BY <1>1, <1>2, <1>7, <1>8, ThreadStores, Zenon

LEMMA BodyStays == ASSUME BodyInv, UNCHANGED blocksVars PROVE BodyInv'
<1>1. /\ Fixed /\ range' = range /\ grid' = grid /\ tile' = tile /\ out' = out
      /\ ConfigOK /\ RangeInv /\ OutInv /\ TileInv
  BY DEF Fixed, blocksVars, BodyInv
<1>2. /\ ConfigOK' /\ kernel' = kernel /\ n' = n /\ cuts' = cuts /\ Body!Rows' = Body!Rows
      /\ Results' = Results /\ Body!Idle' = Body!Idle
  BY <1>1, FixedMeans
<1>3. RangeInv'
  BY <1>1, <1>2, FixedMeans, RangeFixed, Zenon DEF RangeInv
<1>4. \A r, s : ServedTo(r, s)' = ServedTo(r, s)
  <2>1. \A r : Home(r)' = Home(r)
    BY <1>1, RangeFixed, Zenon
  <2> QED BY <1>1, <1>2, <2>1, Zenon DEF ServedTo, Pending
<1>5. OutInv'
  BY <1>1, <1>2, <1>4, FixedMeans, Zenon DEF OutInv
<1>6. TileInv'
  <2>1. \A t : AtWork(t)' <=> AtWork(t)
    BY <1>1, RangeFixed, Zenon
  <2> QED BY <1>1, <1>2, <2>1, Zenon DEF TileInv
<1> QED BY <1>2, <1>3, <1>5, <1>6 DEF BodyInv

LEMMA BodyStep == ASSUME BodyInv, Body!Next PROVE BodyInv'
<1>1. CASE Body!Dispatch
  BY <1>1, StepOfDispatch
<1>2. CASE Body!StartTile
  BY <1>2, StepOfStartTile
<1>3. CASE Body!FwdBlock
  BY <1>3, StepOfFwdBlock
<1>4. CASE Body!DqBlock
  BY <1>4, StepOfDqBlock
<1>5. CASE Body!DkvBlock
  BY <1>5, StepOfDkvBlock
<1>6. CASE Body!StoreSlab
  BY <1>6, StepOfStoreSlab
<1>7. CASE Body!FwdThread
  BY <1>7, StepOfFwdThread
<1>8. CASE Body!DqThread
  BY <1>8, StepOfDqThread
<1>9. CASE Body!DkvThread
  BY <1>9, StepOfDkvThread
<1>10. CASE Body!Done
  <2>1. UNCHANGED blocksVars
    BY <1>10 DEF Body!Done, Body!vars, blocksVars
  <2> QED BY <2>1, BodyStays
<1> QED BY <1>1, <1>2, <1>3, <1>4, <1>5, <1>6, <1>7, <1>8, <1>9, <1>10 DEF Body!Next

LEMMA BodyIsTyped == ASSUME BodyInv PROVE Body!TypeOK
<1>1. ConfigOK /\ RangeInv /\ OutInv /\ TileInv
  BY DEF BodyInv
<1>2. /\ kernel \in Body!Kernels /\ n \in 1..MaxRows /\ seg \in [Body!Rows -> Body!Rows]
      /\ n \in Nat \ {0}
  <2>1. n \in Nat \ {0} /\ n <= MaxRows /\ MaxRows \in Nat
    BY <1>1, KernelFacts DEF ConfigOK
  <2> QED BY <1>1, <2>1 DEF ConfigOK
<1>3. range.lo \in 0..n /\ range.hi \in 0..n /\ range.lo <= range.hi
  BY <1>1, <1>2 DEF RangeInv
<1>4. grid \subseteq Body!Rows
  <2>1. 0..(Owners - 1) \subseteq Body!Rows
    BY <1>2, <1>3 DEF Owners, Body!Rows
  <2> QED BY <1>1, <2>1 DEF RangeInv
<1>5. tile = Body!Idle \/ /\ tile.base \in Body!Rows /\ tile.slab \in 1..Slabs
                          /\ tile.next \in 0..(n + Block)
                          /\ tile.acc \in [0..(Block - 1) -> Body!Lines]
  <2> SUFFICES ASSUME tile # Body!Idle
               PROVE  /\ tile.base \in Body!Rows /\ tile.slab \in 1..Slabs
                      /\ tile.next \in 0..(n + Block)
                      /\ tile.acc \in [0..(Block - 1) -> Body!Lines]
    OBVIOUS
  <2>1. tile \in [base : Body!Rows, slab : 1..Slabs, next : 0..(n + Block),
                  acc : [0..(Block - 1) -> Body!Lines]]
    BY <1>1, Zenon DEF TileInv, AtWork
  <2> QED BY <2>1
<1>6. out \in [Body!Rows -> [1..Slabs -> [sums : Seq((1..Heads) \X SUBSET Body!Rows),
                                          nan : BOOLEAN, writes : Nat]]]
  BY <1>1, Zenon DEF OutInv, Results
<1> QED BY <1>2, <1>3, <1>4, <1>5, <1>6, Zenon DEF Body!TypeOK

\* Between two dispatches every row that is served holds what is due to it.
LEMMA AtBarrier ==
  ASSUME BodyInv, Body!Barrier, NEW r \in Body!Owned, NEW s \in 1..Slabs
  PROVE  Body!Due(r) \in SUBSET Nat /\ AddsUp(out[r][s].sums, Body!Due(r))
<1>1. /\ ConfigOK /\ RangeInv /\ OutInv /\ grid = {} /\ tile = Body!Idle
      /\ n \in Nat /\ range.hi \in Nat /\ range.hi <= n
  BY KernelFacts DEF BodyInv, Body!Barrier, RangeInv
<1>2. r \in Body!Rows /\ (kernel.op # "dkv" => r < range.hi)
  <2>1. CASE kernel.op = "dkv"
    BY <2>1, Zenon DEF Body!Owned
  <2>2. CASE kernel.op # "dkv"
    <3>1. r \in 0..(range.hi - 1)
      BY <2>2, Zenon DEF Body!Owned
    <3> QED BY <1>1, <2>2, <3>1 DEF Body!Rows
  <2> QED BY <2>1, <2>2
<1>3. ServedTo(r, s) = range.hi
  BY <1>1, Zenon DEF ServedTo, Pending
<1>4. Sought(r, range.hi) = Body!Due(r)
  BY <1>2, Zenon DEF Sought, Body!Due
<1>5. Body!Due(r) \in SUBSET Nat
  <2>1. 0..(range.hi - 1) \subseteq Nat /\ Body!Rows \subseteq Nat
    BY DEF Body!Rows
  <2> QED BY <2>1, Zenon DEF Body!Due
<1> QED BY <1>1, <1>2, <1>3, <1>4, <1>5, Zenon DEF OutInv, Holds

LEMMA MaskIsCovered == ASSUME BodyInv PROVE Body!MaskCovered
<1> SUFFICES ASSUME Body!Barrier, NEW r \in Body!Owned, NEW s \in 1..Slabs
             PROVE  LET sums_ == out[r][s].sums IN
               /\ UNION {sums_[i][2] : i \in 1..Len(sums_)} = Body!Due(r)
               /\ \A i, j \in 1..Len(sums_) :
                    i # j /\ sums_[i][1] = sums_[j][1] => sums_[i][2] \cap sums_[j][2] = {}
               /\ kernel.op = "dkv" => \A h \in 1..Heads :
                    UNION {sums_[i][2] : i \in {x \in 1..Len(sums_) : sums_[x][1] = h}} = Body!Due(r)
  BY Zenon DEF Body!MaskCovered
<1> DEFINE p == out[r][s].sums
<1>1. Body!Due(r) \in SUBSET Nat /\ AddsUp(p, Body!Due(r))
  BY AtBarrier, Zenon
<1> HIDE DEF p
<1>2. /\ UNION {p[i][2] : i \in 1..Len(p)} = Body!Due(r)
      /\ \A i, j \in 1..Len(p) : i # j /\ p[i][1] = p[j][1] => p[i][2] \cap p[j][2] = {}
      /\ \A h \in 1..PerGroup :
           UNION {p[i][2] : i \in {x \in 1..Len(p) : p[x][1] = h}} = Body!Due(r)
  BY <1>1, EachRowOnce, Zenon
<1>3. kernel.op = "dkv" => PerGroup = Heads
  BY DEF PerGroup
<1> QED BY <1>2, <1>3, Zenon DEF p

LEMMA SplitIsTheSame == ASSUME BodyInv PROVE Body!SplitChangesNoBit
<1> SUFFICES ASSUME Body!Barrier, kernel.mma, NEW r \in Body!Owned, NEW s \in 1..Slabs
             PROVE  LET p == out[r][s].sums
                        heads == IF kernel.op = "dkv" THEN Heads ELSE 1
                        place(i) == Body!Min(p[i][2]) \div Block
                    IN /\ \A i \in 1..Len(p) :
                            p[i][2] = Body!Due(r) \cap
                                        ((place(i) * Block)..(place(i) * Block + Block - 1))
                       /\ \A i \in 1..(Len(p) - 1) :
                            \/ /\ i % heads # 0 /\ place(i) = place(i + 1)
                               /\ p[i + 1][1] = p[i][1] + 1
                            \/ i % heads = 0 /\ place(i) < place(i + 1) /\ p[i + 1][1] = 1
  BY Zenon DEF Body!SplitChangesNoBit
<1> DEFINE p == out[r][s].sums
<1>1. Body!Due(r) \in SUBSET Nat /\ AddsUp(p, Body!Due(r))
  BY AtBarrier, Zenon
<1> HIDE DEF p
<1>2. /\ \A i \in 1..Len(p) :
           p[i][2] = Body!Due(r) \cap
                       ((BlockAt(p, i) * Block)..(BlockAt(p, i) * Block + Block - 1))
      /\ \A i \in 1..(Len(p) - 1) :
           \/ /\ i % PerGroup # 0 /\ BlockAt(p, i) = BlockAt(p, i + 1)
              /\ p[i + 1][1] = p[i][1] + 1
           \/ i % PerGroup = 0 /\ BlockAt(p, i) < BlockAt(p, i + 1) /\ p[i + 1][1] = 1
  BY <1>1, BlocksInOrder, Zenon
<1> QED BY <1>2, Zenon DEF p, BlockAt, PerGroup

LEMMA BodyCounts == ASSUME NEW S PROVE Body!Cardinality(S) = Cardinality(S)
  BY Zenon DEF Body!Cardinality, Cardinality

LEMMA StoredIsOnce == ASSUME BodyInv PROVE Body!StoredOnce /\ Body!NoNaN
<1>1. ConfigOK /\ RangeInv /\ OutInv
  BY DEF BodyInv
<1>2. /\ range.lo \in Nat /\ range.hi \in Nat /\ range.lo <= range.hi
      /\ range.hi # 0 => Dispatches(range.hi) = Dispatches(range.lo) + 1
  BY <1>1 DEF RangeInv
<1>3. \A m : Dispatches(m) \in Nat
  <2>1. \A m : Cardinality({c \in cuts : c < m}) \in Nat
    <3> SUFFICES ASSUME NEW m PROVE Cardinality({c \in cuts : c < m}) \in Nat
      OBVIOUS
    <3>1. {c \in cuts : c < m} \in SUBSET cuts
      OBVIOUS
    <3> QED BY <1>1, <3>1, CutsAreFinite, Zenon
  <2> QED BY <2>1 DEF Dispatches
<1>4. Dispatches(range.hi) <= Cardinality({c \in cuts : c < range.hi}) + 1
  <2>1. Cardinality({c \in cuts : c < range.hi}) \in Nat
    <3>1. {c \in cuts : c < range.hi} \in SUBSET cuts
      OBVIOUS
    <3> QED BY <1>1, <3>1, CutsAreFinite, Zenon
  <2> DEFINE k == Cardinality({c \in cuts : c < range.hi})
  <2>2. Dispatches(range.hi) = IF range.hi = 0 THEN 0 ELSE k + 1
    BY Zenon DEF Dispatches
  <2> HIDE DEF k
  <2>3. Dispatches(range.hi) <= k + 1
    BY <2>1, <2>2 DEF k
  <2> QED BY <2>3, Zenon DEF k
<1>5. Dispatches(range.lo) <= Dispatches(range.hi)
  <2>1. CASE range.hi = 0
    <3>1. range.lo = range.hi
      BY <1>2, <2>1
    <3> QED BY <1>3, <3>1
  <2>2. CASE range.hi # 0
    BY <1>2, <1>3, <2>2
  <2> QED BY <2>1, <2>2
<1>6. ASSUME NEW r \in Body!Rows, NEW s \in 1..Slabs
      PROVE  /\ ~out[r][s].nan
             /\ IF kernel.op = "dkv"
                THEN out[r][s].writes <= Cardinality({c \in cuts : c < range.hi}) + 1
                ELSE out[r][s].writes <= IF r < range.hi THEN 1 ELSE 0
  <2>1. Holds(out[r][s], r, range.lo) \/ Holds(out[r][s], r, range.hi)
    BY <1>1, Zenon DEF OutInv, ServedTo
  <2> DEFINE w == out[r][s].writes  k == Cardinality({c \in cuts : c < range.hi})
  <2>2. ~out[r][s].nan /\ (w = Writes(r, range.lo) \/ w = Writes(r, range.hi))
    BY <2>1, Zenon DEF Holds
  <2>3. CASE kernel.op = "dkv"
    <3>1. w = Dispatches(range.lo) \/ w = Dispatches(range.hi)
      BY <2>2, <2>3, Zenon DEF Writes
    <3>2. k \in Nat
      <4>1. {c \in cuts : c < range.hi} \in SUBSET cuts
        OBVIOUS
      <4> QED BY <1>1, <4>1, CutsAreFinite, Zenon
    <3>3. Dispatches(range.hi) <= k + 1
      BY <1>4
    <3> HIDE DEF w, k
    <3>4. w <= k + 1
      BY <1>3, <1>5, <3>1, <3>2, <3>3
    <3> QED BY <2>2, <2>3, <3>4, Zenon DEF w, k
  <2>4. CASE kernel.op # "dkv"
    <3>1. w = (IF r < range.lo THEN 1 ELSE 0) \/ w = (IF r < range.hi THEN 1 ELSE 0)
      BY <2>2, <2>4, Zenon DEF Writes
    <3>2. r < range.lo => r < range.hi
      BY <1>1, <1>2, KernelFacts
    <3> HIDE DEF w
    <3>3. w <= IF r < range.hi THEN 1 ELSE 0
      BY <3>1, <3>2
    <3> QED BY <2>2, <2>4, <3>3, Zenon DEF w
  <2> QED BY <2>3, <2>4
<1>7. Body!NoNaN
  BY <1>6, Zenon DEF Body!NoNaN
<1>8. Body!StoredOnce
  <2>1. Body!Cardinality({c \in cuts : c < range.hi}) = Cardinality({c \in cuts : c < range.hi})
    BY BodyCounts, Zenon
  <2> SUFFICES ASSUME NEW r \in Body!Rows, NEW s \in 1..Slabs
               PROVE  IF kernel.op = "dkv"
                      THEN out[r][s].writes <= Body!Cardinality({c \in cuts : c < range.hi}) + 1
                      ELSE out[r][s].writes <= IF r < range.hi THEN 1 ELSE 0
    BY Zenon DEF Body!StoredOnce
  <2> QED BY <1>6, <2>1, Zenon
<1> QED BY <1>7, <1>8

-----------------------------------------------------------------------------
(* In the suite, whatever other part runs. *)

OnceInv == (part = "loss" => LossInv) /\ (part = "lane" => LaneInv)

LEMMA OnceInit == SuiteInit => OnceInv
<1> SUFFICES ASSUME SuiteInit PROVE OnceInv
  OBVIOUS
<1>1. part = "loss" => Loss!Init
  BY DEF SuiteInit, Rate!Kinds
<1>2. part = "lane" => Lane!Init
  BY DEF SuiteInit, Rate!Kinds
<1> QED BY <1>1, <1>2, LossInit, LaneInit DEF OnceInv

\* Each part takes its own steps, and no step makes one part another.
LEMMA SuiteStep ==
  ASSUME [SuiteNext]_suiteVars
  PROVE  /\ part' = part
         /\ part = "training" => Training!Next \/ UNCHANGED chainsVars
         /\ part \in Rate!Kinds => Rate!Next \/ (UNCHANGED rateVars /\ UNCHANGED step)
         /\ part = "body" => Body!Next \/ UNCHANGED blocksVars
         /\ part = "loss" => Loss!Next \/ UNCHANGED lossVars
         /\ part = "lane" => Lane!Next \/ (UNCHANGED mmaVars /\ UNCHANGED step)
<1>1. CASE UNCHANGED suiteVars
  BY <1>1 DEF suiteVars
<1>2. CASE SuiteNext
  <2>1. part' = part
    BY <1>2 DEF SuiteNext, Still, Answered, suiteVars
  <2>2. part = "loss" => Loss!Next
    BY <1>2 DEF SuiteNext, Answered, Rate!Kinds
  <2>3. part = "lane" => Lane!Next
    BY <1>2 DEF SuiteNext, Answered, Rate!Kinds
  <2>4. part = "training" => Training!Next
    BY <1>2 DEF SuiteNext, Answered, Rate!Kinds
  <2>5. part \in Rate!Kinds => Rate!Next
    BY <1>2 DEF SuiteNext, Answered, Rate!Kinds
  <2>6. part = "body" => Body!Next
    BY <1>2 DEF SuiteNext, Answered, Rate!Kinds
  <2> QED BY <2>1, <2>2, <2>3, <2>4, <2>5, <2>6
<1> QED BY <1>1, <1>2

LEMMA OnceStep == OnceInv /\ [SuiteNext]_suiteVars => OnceInv'
<1> SUFFICES ASSUME OnceInv, [SuiteNext]_suiteVars PROVE OnceInv'
  OBVIOUS
<1>1. part' = part
  BY SuiteStep
<1>2. CASE part = "loss"
  <2>1. LossInv /\ (Loss!Next \/ UNCHANGED lossVars)
    BY <1>2, SuiteStep DEF OnceInv
  <2> QED BY <1>1, <1>2, <2>1, LossStep, LossStays DEF OnceInv
<1>3. CASE part = "lane"
  <2>1. LaneInv /\ (Lane!Next \/ (UNCHANGED mmaVars /\ UNCHANGED step))
    BY <1>3, SuiteStep DEF OnceInv
  <2> QED BY <1>1, <1>3, <2>1, LaneStep, LaneStays DEF OnceInv
<1>4. CASE part # "loss" /\ part # "lane"
  BY <1>1, <1>4 DEF OnceInv
<1> QED BY <1>2, <1>3, <1>4

\* Whatever the sizes, the tiles, the blocks and the interleaving: a loss and its
\* gradients take every column and every row once and the target's own logit, and a
\* simdgroup's lanes multiply each pair once, under the scale of its own group
\* (core/kernel/source.py, core/kernel/launch.py, core/chunked.py, core/loss.py).
THEOREM EachIsTakenOnce == SuiteSpec => []LossTakesEachOnce
<1>1. OnceInv => LossTakesEachOnce
  BY LossIsRight, LaneIsRight DEF OnceInv, LossTakesEachOnce
<1> QED BY <1>1, OnceInit, OnceStep, PTL DEF SuiteSpec

SurviveInv ==
  (part = "training" => TrainingInv) /\ (part \in Rate!Kinds => RateInv)

LEMMA SurviveInit == SuiteInit => SurviveInv
<1> SUFFICES ASSUME SuiteInit PROVE SurviveInv
  OBVIOUS
<1>1. part = "training" => Training!Init
  BY DEF SuiteInit, Rate!Kinds
<1>2. part \in Rate!Kinds => Rate!Init
  BY DEF SuiteInit, Rate!Kinds
<1> QED BY <1>1, <1>2, TrainingInit, RateInit DEF SurviveInv

LEMMA SurviveStep == SurviveInv /\ [SuiteNext]_suiteVars => SurviveInv'
<1> SUFFICES ASSUME SurviveInv, [SuiteNext]_suiteVars PROVE SurviveInv'
  OBVIOUS
<1>1. part' = part /\ Rate!Kinds' = Rate!Kinds
  BY SuiteStep DEF Rate!Kinds
<1>2. CASE part = "training"
  <2>1. TrainingInv'
    BY <1>2, SuiteStep, TrainingStep DEF SurviveInv
  <2>2. part \notin Rate!Kinds
    BY <1>2 DEF Rate!Kinds
  <2> QED BY <1>1, <1>2, <2>1, <2>2 DEF SurviveInv
<1>3. CASE part \in Rate!Kinds
  <2>1. RateInv /\ (Rate!Next \/ (UNCHANGED rateVars /\ UNCHANGED step))
    BY <1>3, SuiteStep DEF SurviveInv
  <2>2. RateInv'
    BY <1>1, <1>3, <2>1, RateStep, RateStays
  <2>3. part # "training"
    BY <1>3 DEF Rate!Kinds
  <2> QED BY <1>1, <1>3, <2>2, <2>3 DEF SurviveInv
<1>4. CASE part # "training" /\ part \notin Rate!Kinds
  BY <1>1, <1>4 DEF SurviveInv
<1> QED BY <1>2, <1>3, <1>4

\* Nothing that is dispatched is killed by the GPU's watchdog: whatever the shapes of
\* large chains, the lengths and widths, and any machine within the factors the code
\* allows for (attention/kernel/launch.py, core/kernel/launch.py).
THEOREM DispatchesAlwaysSurvive == SuiteSpec => []DispatchesSurvive
<1>1. SurviveInv => DispatchesSurvive
  BY TrainingHolds, RateHolds DEF SurviveInv, DispatchesSurvive
<1> QED BY <1>1, SurviveInit, SurviveStep, PTL DEF SuiteSpec

MasksInv == part = "body" => BodyInv

LEMMA MasksHold == MasksInv => ResultIsTheMasks
<1> SUFFICES ASSUME MasksInv, part = "body" PROVE ResultIsTheMasks
  BY DEF ResultIsTheMasks
<1>1. BodyInv
  BY DEF MasksInv
<1> QED BY <1>1, BodyIsTyped, MaskIsCovered, StoredIsOnce, SplitIsTheSame, Zenon
        DEF ResultIsTheMasks

LEMMA MasksInit == SuiteInit => MasksInv
<1> SUFFICES ASSUME SuiteInit, part = "body" PROVE BodyInv
  BY DEF MasksInv
<1>1. Body!Init
  BY DEF SuiteInit, Rate!Kinds
<1> QED BY <1>1, BodyInit

LEMMA MasksStep == MasksInv /\ [SuiteNext]_suiteVars => MasksInv'
<1> SUFFICES ASSUME MasksInv, [SuiteNext]_suiteVars PROVE MasksInv'
  OBVIOUS
<1>1. part' = part
  BY SuiteStep
<1>2. CASE part = "body"
  <2>1. BodyInv /\ (Body!Next \/ UNCHANGED blocksVars)
    BY <1>2, SuiteStep DEF MasksInv
  <2> QED BY <2>1, BodyStep, BodyStays DEF MasksInv
<1>3. CASE part # "body"
  BY <1>1, <1>3 DEF MasksInv
<1> QED BY <1>2, <1>3

\* Whatever the mask, the segments, the rows, the block and slab sizes, wherever the
\* query range is cut and in whatever order the simdgroups run: a row adds up exactly
\* the keys its mask allows (a key its queries, per head), once and in the blocks of
\* one dispatch over all rows, is stored once by each dispatch and is never a NaN
\* (attention/kernel/source.py).
THEOREM ResultsAreTheMasks == SuiteSpec => []ResultIsTheMasks
<1> QED BY MasksInit, MasksStep, MasksHold, PTL DEF SuiteSpec

=============================================================================
