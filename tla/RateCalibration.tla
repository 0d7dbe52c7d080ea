-------------------------- MODULE RateCalibration --------------------------
(***************************************************************************)
(* How a kernel's throughput is measured, cached and used to refuse a      *)
(* launch: the attention kernels (attention/kernel/launch.py) and the      *)
(* cross-entropy kernel (core/kernel/launch.py, called by core/loss.py).   *)
(* Probes of growing size, sustained load, the median of three and, for    *)
(* attention, a canary on the full working set; the rate is halved, kept   *)
(* per key, and read again by later calls.                                 *)
(*                                                                         *)
(* Time is work over speed and only compared, by cross-multiplication.     *)
(* The machine is external: `speed` gives its throughput per body and      *)
(* probe size (size 0: a range of rows against all n keys, the production  *)
(* shape), cold clocks halve what the ramp reads first.                    *)
(***************************************************************************)
EXTENDS Integers, FiniteSets, FiniteSetsExt, Sequences

CONSTANTS Bodies,    \* kernel bodies (attention) or hidden widths (ce), numbers
          Lengths,   \* row counts n of the calls, per kind
          Vocabs,    \* vocabulary sizes of the calls (ce)
          Speeds,    \* throughputs the machine may have
          Powers,    \* the powers of two in reach: sizes of a probe, regimes of n
          Floor,     \* smallest ramp probe: 128 keys, 32 columns
          HardCap,   \* largest probe, and the production tile (8192)
          Budget,    \* time a dispatch may take
          MaxTotal,  \* time all tiles of a launch may take (ce)
          FloorRate, \* slowest throughput ever measured (ce start probe)
          MaxCalls   \* bound on the number of calls

VARIABLES
  kind,    \* whose rates: "attention" or "ce"
  speed,   \* the machine: throughput per body and probe size (a power)
  cache,   \* rates kept: key -> [rate, from, size]; a rate counts half
  pc,      \* "idle", "ramp", "sustain", "median" or "canary"
  call,    \* the call being served
  size,    \* probe size of the ramp
  stage,   \* stages of the ramp measured
  took,    \* the ramp's last measurement: [work, speed]
  rate,    \* raw rate of the median
  last,    \* the last dispatch: [work, speed, what, limit]
  used,    \* the rate the last finished call went on with, and its verdict
  calls    \* calls so far (bound)

vars == <<kind, speed, cache, pc, call, size, stage, took, rate, last, used, calls>>

-----------------------------------------------------------------------------
Kinds == {"attention", "ce"}
Attention == kind = "attention"
Lower(a, b) == IF a < b THEN a ELSE b
Upper(a, b) == IF a < b THEN b ELSE a
Sizes == 0..HardCap
Probed == {0} \cup {p \in Powers : p <= HardCap}

Calls == [body : Bodies, n : Lengths[kind], v : IF Attention THEN {0} ELSE Vocabs]

\* Occupancy regime of n: the next power of two.
Bucket(n) == Min({p \in Powers : p >= n /\ p >= Floor})

\* The key of a rate: attention's names the body and batch, that of ce does not
\* name the hidden width or the vocabulary.
Key(c) == IF Attention THEN <<c.body, Bucket(c.n)>> ELSE <<Bucket(c.n)>>

\* Work credited to a probe of `rows` rows against `keys` keys: the causal
\* triangle for attention, all columns of the tile for ce.
Pairs(rows, keys) == (rows * (2 * keys - rows + 1)) \div 2
Credit(c, s) == IF Attention THEN 2 * c.body * Pairs(s, s) ELSE c.n * s * c.body

\* Work the sizing assumes: the full rectangle (more than the causal truth).
Nominal(c, s) == IF Attention THEN 2 * c.body * s * s ELSE c.n * s * c.body

\* Columns (rows) a probe may have at most.
Largest(c) == IF Attention THEN Lower(c.n, HardCap) ELSE Lower(c.v, HardCap)

\* A probe of size s is projected within the budget at half the rate measured.
Fits(c, s, raw) == 2 * Nominal(c, s) <= raw * Budget

\* The next probe: the largest power of two that fits, never below the floor;
\* attention takes a context below the floor as it is.
NextProbe(c, raw) ==
  IF Attention /\ Largest(c) <= Floor THEN Largest(c)
  ELSE Max({p \in Powers : p = Floor \/ (p > Floor /\ p <= Largest(c) /\ Fits(c, p, raw))})

\* The ramp's first probe: small enough at the slowest rate ever measured (ce).
StartProbe(c) ==
  IF Attention THEN Lower(Floor, c.n)
  ELSE Lower(c.v, Max({Floor} \cup {p \in Powers :
         p <= HardCap /\ 2 * c.n * p * c.body <= FloorRate * Budget}))

\* Rows of the canary against all n keys: a fifth of the budget at half the rate.
CanaryRows(c, raw) ==
  Upper(1, Lower(c.n, (Budget * raw) \div (10 * 2 * c.body * c.n)))

\* Extra dispatches to reach ramped clocks, at most eight: target 3/4 of a unit.
SustainReps(work, sp) == Lower(8, Upper(1, (3 * sp + 4 * work - 1) \div (4 * work)))

Median(a, b, c) == Upper(Lower(a, b), Lower(Upper(a, b), c))

\* The ramp has measured the whole production shape.
SawAll(c) == size >= c.n

-----------------------------------------------------------------------------
\* The machine at a probe size.
SpeedAt(b, s) == speed[b][IF s = 0 THEN 0 ELSE Max({p \in Powers : p <= s})]

Nothing == [body |-> 0, n |-> 0, v |-> 0]

\* What the safety factors are for: a larger probe may run at half the speed of a
\* smaller one, the full working set at a tenth, and (ce) another width at half.
Profiles ==
  {p \in [Probed -> Speeds] :
     /\ \A s, t \in Probed \ {0} : s < t => 2 * p[t] >= p[s]
     /\ \A s \in Probed \ {0} : IF Attention THEN p[0] <= p[s] /\ p[s] <= 10 * p[0]
                                              ELSE p[0] = p[1]}

Machines ==
  {m \in [Bodies -> Profiles] :
     ~Attention => \A b, d \in Bodies, s, t \in Probed : 2 * m[b][t] >= m[d][s]}

Init ==
  /\ kind \in Kinds /\ speed \in Machines
  /\ cache = <<>> /\ pc = "idle" /\ call = Nothing /\ size = 0 /\ stage = 0
  /\ took = [work |-> 0, speed |-> 1] /\ rate = 0
  /\ last = [work |-> 0, speed |-> 1, what |-> "none"]
  /\ used = [call |-> Nothing, rate |-> 0, from |-> Nothing, size |-> 0, launched |-> FALSE]
  /\ calls = 0

\* Mutated: the budget is checked at the rate as measured.
WithinBudgetRaw(c, raw) == c.n * HardCap * c.body <= raw * Budget

\* The budget check of ce, at half the rate: the fixed tile is charged whole,
\* however small the vocabulary, and all tiles together have a limit as well.
WithinBudget(c, raw) == /\ 2 * c.n * HardCap * c.body <= raw * Budget
                        /\ 2 * c.n * c.v * c.body <= raw * MaxTotal

\* A call goes on with its rate: attention plans ranges, ce launches or refuses.
Proceed(c, entry) ==
  used' = [call |-> c, rate |-> entry.rate, from |-> entry.from, size |-> entry.size,
           launched |-> ~Attention /\ WithinBudget(c, entry.rate)]

\* The rate is kept already, and read without a dispatch.
CallCached ==
  /\ pc = "idle" /\ calls < MaxCalls
  /\ \E c \in Calls :
       /\ Key(c) \in DOMAIN cache
       /\ call' = c /\ Proceed(c, cache[Key(c)])
  /\ calls' = calls + 1
  /\ UNCHANGED <<speed, cache, pc, size, stage, took, rate, last>>

\* A call that has to calibrate starts the ramp.
CallAnew ==
  /\ pc = "idle" /\ calls < MaxCalls
  /\ \E c \in Calls :
       /\ Key(c) \notin DOMAIN cache
       /\ call' = c /\ size' = StartProbe(c)
  /\ pc' = "ramp" /\ stage' = 0 /\ calls' = calls + 1
  /\ UNCHANGED <<speed, cache, took, rate, last, used>>

\* One stage of the ramp: a probe, timed once (the first perhaps on cold clocks),
\* and the next size; at most three stages.
RampProbe ==
  /\ pc = "ramp"
  /\ \E cold \in IF stage = 0 THEN {1, 2} ELSE {1} :
       LET sp == SpeedAt(call.body, size)
           raw == sp \div cold
           next == NextProbe(call, raw)
           grows == next > size
       IN /\ raw > 0
          /\ last' = [work |-> Credit(call, size) * cold, speed |-> sp,
                      what |-> IF stage = 0 THEN "first" ELSE "probe"]
          /\ took' = [work |-> Credit(call, size) * cold, speed |-> sp]
          /\ size' = IF grows THEN next ELSE size
          /\ pc' = IF grows /\ stage < 2 THEN "ramp" ELSE "sustain"
  /\ stage' = stage + 1
  /\ UNCHANGED <<speed, cache, call, rate, used, calls>>

\* Dispatches at the final size until the clocks are up, from the ramp's last time.
Sustain ==
  /\ pc = "sustain"
  /\ SustainReps(took.work, took.speed) \in 1..8
  /\ last' = [work |-> Credit(call, size), speed |-> SpeedAt(call.body, size),
              what |-> IF size = StartProbe(call) THEN "first" ELSE "probe"]
  /\ pc' = "median"
  /\ UNCHANGED <<speed, cache, call, size, stage, took, rate, used, calls>>

\* Three readings of a speed, of which the session may disturb one either way.
Readings(sp) == {<<sp, sp, 2 * sp>>, <<2 * sp, sp, sp>>, <<1, sp, sp>>, <<sp, sp, 1>>}

Keep(r, s) ==
  LET entry == [rate |-> r, from |-> call, size |-> s]
  IN /\ cache' = [k \in DOMAIN cache \cup {Key(call)} |-> IF k = Key(call) THEN entry ELSE cache[k]]
     /\ Proceed(call, entry)

\* The median of three: the rate, for ce and when the whole shape was measured.
MedianOfThree ==
  /\ pc = "median"
  /\ \E t \in Readings(SpeedAt(call.body, size)) :
       LET raw == Median(t[1], t[2], t[3]) IN
       /\ rate' = raw
       /\ IF ~Attention \/ SawAll(call)
          THEN Keep(raw, size) /\ pc' = "idle"
          ELSE pc' = "canary" /\ UNCHANGED <<cache, used>>
  /\ UNCHANGED <<speed, call, size, stage, took, last, calls>>

\* A few of the last rows against all keys: the only probe of the production shape.
Canary ==
  /\ pc = "canary"
  /\ LET rows == CanaryRows(call, rate) sp == SpeedAt(call.body, 0) IN
     /\ last' = [work |-> 2 * call.body * Pairs(rows, call.n), speed |-> sp,
                 what |-> IF rows = 1 THEN "row" ELSE "canary"]
     /\ \E t \in Readings(sp) : Keep(Median(t[1], t[2], t[3]), 0)
  /\ pc' = "idle"
  /\ UNCHANGED <<speed, call, size, stage, took, rate, calls>>

Finished == pc = "idle" /\ calls = MaxCalls /\ UNCHANGED vars

Next ==
  /\ UNCHANGED kind
  /\ CallCached \/ CallAnew \/ RampProbe \/ Sustain \/ MedianOfThree \/ Canary \/ Finished

Spec == Init /\ [][Next]_vars

-----------------------------------------------------------------------------
(* Properties *)

\* The type invariant.
TypeOK ==
  /\ pc \in {"idle", "ramp", "sustain", "median", "canary"}
  /\ call \in Calls \cup {Nothing} /\ size \in Sizes /\ stage \in 0..3
  /\ \A k \in DOMAIN cache : cache[k].rate \in Nat \ {0} /\ cache[k].from \in Calls
  /\ calls \in 0..MaxCalls

\* No probe takes longer than a dispatch may, beyond the ramp's first and a single
\* row: half the rate covers what growing the probe or taking the whole working
\* set may cost, though the rate that sizes it is the one before it.
ProbesSurvive == last.what \in {"probe", "canary"} => last.work <= last.speed * Budget

\* A rate is of the very body that goes on with it and of its occupancy regime,
\* measured on the whole working set and no faster than that runs: one disturbed reading of three
\* changes nothing (attention: probe what you rate).
RatedAsDispatched ==
  used.call # Nothing =>
    /\ used.from.body = used.call.body /\ Bucket(used.from.n) = Bucket(used.call.n)
    /\ used.size = 0 \/ used.size >= used.from.n
    /\ used.rate <= SpeedAt(used.from.body, used.size)

\* A launch the budget check lets through keeps every dispatch within the time,
\* although the rate may be another width's and vocabulary's.
LaunchesSurvive ==
  used.launched => used.call.n * Lower(used.call.v, HardCap) * used.call.body
                     <= SpeedAt(used.call.body, Lower(used.call.v, HardCap)) * Budget

\* The rate of a launch was measured at the tile the launch uses.
RatedAtTheTileInUse == used.launched => used.size = Lower(used.call.v, HardCap)
=============================================================================
