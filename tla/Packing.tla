-------------------------------- MODULE Packing --------------------------------
(***************************************************************************)
(* Sequence packing (data/packing.py): every epoch the sequences, in some  *)
(* shuffled order, are put first-fit into packs of one row each, with a    *)
(* bounded pool of open packs; the packs are laid out as rows of segments  *)
(* and yielded in batches.                                                 *)
(***************************************************************************)
EXTENDS Integers, Sequences, FiniteSets

CONSTANTS
  Datasets,   \* the datasets considered: sequences of [len, offset]
  Requests,   \* the calls considered: [loop, world, positions]
  PackLen,    \* max_seq_length
  Pool,       \* _OPEN_POOL
  BatchSize,  \* rows of a batch
  Epochs      \* bound on the epochs of a loop

Sequence == [len : Nat, offset : Nat]

\* positions is max_position_embeddings, 0 when it is not given.
ASSUME PackingAssumption ==
  /\ \A d \in Datasets : d \in Seq(Sequence)
  /\ Requests \subseteq [loop : BOOLEAN, world : Nat \ {0}, positions : Nat]
  /\ PackLen \in Nat /\ Pool \in Nat \ {0} /\ BatchSize \in Nat \ {0}
  /\ Epochs \in Nat \ {0}

VARIABLES
  data,     \* the dataset
  request,  \* the call
  pc,       \* "call", "pack", "yield", "refused", "raised" or "done"
  todo,     \* sequences this epoch's shuffle has still to place
  packs,    \* the sequences of each pack
  room,     \* the slots left in each pack
  open,     \* the packs first-fit scans, oldest first (pack numbers ascend)
  batch,    \* batches yielded in this epoch
  epoch

packing == <<todo, packs, room, open>>
vars == <<data, request, pc, packing, batch, epoch>>

Items == DOMAIN data
Capacity == PackLen + 1
AtMost(a, b) == IF a < b THEN a ELSE b

\* A truncated sequence, and the slots it takes with its separator.
Tokens(i) == AtMost(data[i].len, PackLen)
Cost(i) == Tokens(i) + 1

TypeOK ==
  /\ data \in Datasets /\ request \in Requests
  /\ pc \in {"call", "pack", "yield", "refused", "raised", "done"}
  /\ todo \subseteq Items
  /\ packs \in Seq(Seq(Items)) /\ room \in Seq(Nat) /\ Len(room) = Len(packs)
  /\ open \subseteq DOMAIN packs
  /\ batch \in Nat /\ epoch \in 0..(Epochs - 1)

Init ==
  /\ data \in Datasets /\ request \in Requests
  /\ pc = "call" /\ todo = {} /\ packs = <<>> /\ room = <<>> /\ open = {}
  /\ batch = 0 /\ epoch = 0

-----------------------------------------------------------------------------
(* One call of packed_iterate_batches. *)

Valid ==
  /\ request.world = 1
  /\ request.positions = 0 \/ PackLen <= request.positions
  /\ PackLen >= 1 /\ data # <<>> /\ \A i \in Items : data[i].len >= 1

Refuse ==
  /\ pc = "call" /\ ~Valid
  /\ pc' = "refused"
  /\ UNCHANGED <<data, request, packing, batch, epoch>>

ShuffleAnew ==
  /\ todo' = Items /\ packs' = <<>> /\ room' = <<>> /\ open' = {}
  /\ pc' = "pack" /\ batch' = 0

Accept ==
  /\ pc = "call" /\ Valid
  /\ ShuffleAnew
  /\ UNCHANGED <<data, request, epoch>>

Draw(i) == pc = "pack" /\ i \in todo /\ todo' = todo \ {i}

\* Mutated: the separator does not count.
FittingTokens(i) == {j \in open : room[j] + 1 >= Cost(i)}

Fitting(i) == {j \in open : room[j] >= Cost(i)}

\* Mutated: a pack is closed when it is half full.
PlaceAndClose(i) ==
  /\ Draw(i)
  /\ \E j \in Fitting(i) :
       /\ \A k \in Fitting(i) : j <= k
       /\ packs' = [packs EXCEPT ![j] = Append(@, i)]
       /\ room' = [room EXCEPT ![j] = @ - Cost(i)]
       /\ open' = IF 2 * room'[j] <= Capacity THEN open \ {j} ELSE open
  /\ UNCHANGED <<data, request, pc, batch, epoch>>

\* The first open pack with room takes the sequence; one slot is no room.
Place(i) ==
  /\ Draw(i)
  /\ \E j \in Fitting(i) :
       /\ \A k \in Fitting(i) : j <= k
       /\ packs' = [packs EXCEPT ![j] = Append(@, i)]
       /\ room' = [room EXCEPT ![j] = @ - Cost(i)]
       /\ open' = IF room'[j] <= 1 THEN open \ {j} ELSE open
  /\ UNCHANGED <<data, request, pc, batch, epoch>>

\* The pool without its oldest pack once it is too large.
Evict(opened) ==
  IF Cardinality(opened) > Pool
    THEN {opened \ {j} : j \in {k \in opened : \A l \in opened : k <= l}}
    ELSE {opened}

\* A new pack; when the pool is full the oldest open one is closed.
OpenPack(i) ==
  /\ Draw(i) /\ Fitting(i) = {}
  /\ packs' = Append(packs, <<i>>)
  /\ room' = Append(room, Capacity - Cost(i))
  /\ open' \in Evict(open \cup {Len(packs) + 1})
  /\ UNCHANGED <<data, request, pc, batch, epoch>>

Batches == Len(packs) \div BatchSize

Packed ==
  /\ pc = "pack" /\ todo = {}
  /\ pc' = IF Batches = 0 THEN "raised" ELSE "yield"
  /\ UNCHANGED <<data, request, packing, batch, epoch>>

\* The rows of batch b.
Rows(b) == {k \in DOMAIN packs : (b - 1) * BatchSize < k /\ k <= b * BatchSize}

YieldBatch ==
  /\ pc = "yield" /\ batch < Batches
  /\ batch' = batch + 1
  /\ UNCHANGED <<data, request, pc, packing, epoch>>

NextEpoch ==
  /\ pc = "yield" /\ batch = Batches /\ request.loop
  /\ epoch + 1 < Epochs
  /\ epoch' = epoch + 1
  /\ ShuffleAnew
  /\ UNCHANGED <<data, request>>

Finish ==
  /\ pc = "yield" /\ batch = Batches /\ ~request.loop
  /\ pc' = "done"
  /\ UNCHANGED <<data, request, packing, batch, epoch>>

Next ==
  \/ Refuse \/ Accept \/ Packed \/ YieldBatch \/ NextEpoch \/ Finish
  \/ \E i \in todo : Place(i) \/ OpenPack(i)

Spec == Init /\ [][Next]_vars

\* A for loop over the batches takes every one of them.
FairSpec == Spec /\ WF_vars(Next)

-----------------------------------------------------------------------------
(* A row (build_row), on its inputs axis. *)

Position == 0..(PackLen - 1)

\* Where each segment of pack k begins, and where the tail does.
Begins(k) ==
  LET at[s \in 1..(Len(packs[k]) + 1)] ==
        IF s = 1 THEN 0 ELSE at[s - 1] + Tokens(packs[k][s - 1]) + 1
  IN  at

\* The segments that write position p, the separator's included.
Covering(k, p) ==
  {s \in DOMAIN packs[k] :
     Begins(k)[s] <= p /\ p <= Begins(k)[s] + Tokens(packs[k][s])}

\* seg_id: the last writer, the tail after the cursor, else the initial zero.
SegId(k, p) ==
  LET tail == Len(packs[k]) + 1 IN
  IF p >= Begins(k)[tail] THEN tail
  ELSE IF Covering(k, p) = {} THEN 1
  ELSE CHOOSE s \in Covering(k, p) : \A t \in Covering(k, p) : t <= s

SegStart(k, p) == Begins(k)[SegId(k, p)]

\* loss_mask: the window of each segment, shifted by its place in the row.
LossMask(k, p) ==
  \E s \in DOMAIN packs[k] :
    LET i == packs[k][s]
        first == IF data[i].offset > 1 THEN data[i].offset ELSE 1
    IN  Begins(k)[s] + first - 1 <= p /\ p <= Begins(k)[s] + Tokens(i) - 1

-----------------------------------------------------------------------------
(* Statistics. *)

Sum(f) ==
  LET total[n \in 0..Len(f)] == IF n = 0 THEN 0 ELSE total[n - 1] + f[n] IN total[Len(f)]

Used(k) == Sum([s \in DOMAIN packs[k] |-> Cost(packs[k][s])])

\* pack_stats
RealTokens(n) ==
  Sum([k \in 1..n |-> Sum([s \in DOMAIN packs[k] |-> Tokens(packs[k][s])])])
Separators == Sum([k \in DOMAIN packs |-> Len(packs[k])])
TailPad == Sum([k \in DOMAIN packs |-> Capacity - Used(k)])

\* packed_batching_stats: the real tokens of the packs in whole batches.
ConsumedTokens == RealTokens(Batches * BatchSize)

-----------------------------------------------------------------------------
(* Properties. *)

Slots == UNION {{k} \X DOMAIN packs[k] : k \in DOMAIN packs}
Placements(i) == {at \in Slots : packs[at[1]][at[2]] = i}

\* Packing loses nothing and repeats nothing: a sequence already drawn is in
\* one place, the others in none, through every eviction.
PackedOnce ==
  pc \in {"pack", "yield", "raised", "done"} =>
    \A i \in Items : Cardinality(Placements(i)) = IF i \in todo THEN 0 ELSE 1

\* The room of a pack is what its sequences leave of a row.
RoomIsExact == \A k \in DOMAIN packs : room[k] >= 0 /\ room[k] = Capacity - Used(k)

\* Two packs in a row are together more than one row full: less than half of
\* what is trained is padding, whatever the order and however small the pool.
NeighboursFill ==
  \A k \in 1..(Len(packs) - 1) : room[k] + room[k + 1] < Capacity

\* The segments of a row cover it without a gap, in ascending order, and each
\* begins where its first position is: what _assert_pack_time_monotone tests
\* and the packed kernels' block bounds rely on.
SegmentsAscend ==
  \A k \in DOMAIN packs : \A p \in Position :
    /\ SegStart(k, p) <= p
    /\ p > 0 => /\ SegId(k, p) \in {SegId(k, p - 1), SegId(k, p - 1) + 1}
                /\ SegStart(k, p) = IF SegId(k, p) = SegId(k, p - 1)
                                      THEN SegStart(k, p - 1) ELSE p

\* A supervised position predicts a token of its own sequence that the mask of
\* the dataset supervises, or the separator behind it: never a token of the
\* next sequence, and every such token once.
SupervisedIsOwn ==
  \A k \in DOMAIN packs : \A p \in Position :
    LET s == SegId(k, p)
        i == packs[k][s]
        next == p + 1 - SegStart(k, p)
    IN  LossMask(k, p) <=> /\ s \in DOMAIN packs[k]
                           /\ next \in 1..Tokens(i) /\ next >= data[i].offset

\* pack_stats' accounting identity, with no negative tail.
StatsAddUp ==
  /\ \A k \in DOMAIN packs : Used(k) <= Capacity
  /\ RealTokens(Len(packs)) + Separators + TailPad = Len(packs) * Capacity

Yielded == UNION {Rows(b) : b \in 1..batch}

\* An epoch yields whole batches and what the statistics count: the rows left
\* out when it ends are fewer than a batch, and no row is yielded twice.
EpochIsCounted ==
  pc = "done" =>
    /\ Cardinality(Yielded) = batch * BatchSize
    /\ Len(packs) - Cardinality(Yielded) < BatchSize
    /\ Sum([k \in 1..Len(packs) |->
              IF k \in Yielded THEN Sum([s \in DOMAIN packs[k] |-> Tokens(packs[k][s])])
                               ELSE 0]) = ConsumedTokens

\* An iterator that has yielded an epoch goes on: it "iterates epochs
\* indefinitely" (lines 201-203).
LoopsOn == [][epoch > 0 => pc' # "raised"]_vars

\* One pass ends.
PassEnds == ~request.loop => <>(pc \in {"refused", "raised", "done"})

=============================================================================
