---------------------------- MODULE MemoryGuard ----------------------------
(***************************************************************************)
(* The memory guardrails of one run (core/guards.py) on a machine that     *)
(* other processes use too: the preflight of a contribution, the ceiling a *)
(* worker computes at its start, the wired cap, and the watchdog that      *)
(* samples the run while it allocates.                                     *)
(*                                                                         *)
(* Memory is counted in units of Gib to the gibibyte.  Between two samples *)
(* of the watchdog the run allocates at most Burst.                        *)
(***************************************************************************)
EXTENDS Integers, FiniteSets

CONSTANTS Gib,        \* units in a gibibyte
          Machines,   \* [memory, dev]: physical memory and recommended working set
          Burst,      \* what the run allocates between two samples
          Surge       \* what other processes take or give back at a time

VARIABLES machine,
          others,     \* memory of all other processes
          phase, pre, \* of the run; of the preflight before it
          ceiling, warned,
          used, wired,
          sampled,    \* the watchdog has looked since the last allocation
          late,       \* the wall budget has elapsed
          blind,      \* vm_stat could not be read when the ceiling was computed
          surged,     \* other processes grew since the last read of vm_stat
          missed      \* a sample of the watchdog failed

vars == <<machine, others, phase, pre, ceiling, warned, used, wired, sampled, late, blind,
          surged, missed>>

Smaller(a, b) == IF a <= b THEN a ELSE b
Larger(a, b) == IF a >= b THEN a ELSE b
Percent(p, x) == (p * x) \div 100

----------------------------------------------------------------------------
(* Caps and ceilings *)

Cap(dev, base, share) ==
  Smaller(base * Gib + Percent(share, Larger(0, dev - 25 * Gib)), Percent(share, dev))

WiredCap(dev) == Cap(dev, 20, 85)
SoftCap(dev) == Cap(dev, 22, 92)

Headroom == 2 * Gib
Anchor == 32 * Gib

StaticCeiling(memory) ==
  IF memory <= Anchor THEN Larger(memory - 4 * Gib, memory \div 2)
  ELSE (Anchor - 4 * Gib) + Percent(95, memory - Anchor)

\* Mutated: what is available may be used up.
GrantedWhole(memory, available) == Smaller(StaticCeiling(memory), available)

Granted(memory, available) == Smaller(StaticCeiling(memory), available - Headroom)

Diverges(memory, available) == 4 * available < 3 * StaticCeiling(memory)

Floor(memory) == memory \div 4

\* effective_memory_ceiling, of a measured availability.
Read(memory, available) ==
  [ceiling |-> Granted(memory, available), warning |-> Diverges(memory, available),
   refused |-> Granted(memory, available) < Floor(memory)]

\* ... and of one that cannot be measured: the static rule, with a warning.
Unread(memory) ==
  [ceiling |-> StaticCeiling(memory), warning |-> TRUE,
   refused |-> StaticCeiling(memory) < Floor(memory)]

Paging == used + others > machine.memory

Available == Larger(0, machine.memory - others - used)

Effective(b) == IF b THEN Unread(machine.memory) ELSE Read(machine.memory, Available)

----------------------------------------------------------------------------
(* The contributor's preflight *)

\* Mutated: a refusal of the ceiling is taken for a reader that failed.
PreflightLenient(e, pressure, battery) ==
  [ok |-> pressure # "red", warned |-> e.warning /\ ~e.refused]

\* run_preflight and evaluate_preflight; battery only warns, of something else.
PreflightVerdict(e, pressure, battery) ==
  [ok |-> ~e.refused /\ pressure # "red", warned |-> e.warning]

Preflight ==
  /\ phase = "idle" /\ pre = "none"
  /\ \E b, battery \in BOOLEAN, pressure \in {"normal", "warn", "red"} :
       LET v == PreflightVerdict(Effective(b), pressure, battery) IN
       /\ pre' = IF ~v.ok THEN "refused" ELSE IF v.warned THEN "warned" ELSE "clear"
       /\ phase' = IF v.ok THEN "idle" ELSE "turned away"
       /\ blind' = b
  /\ surged' = FALSE
  /\ UNCHANGED <<machine, others, ceiling, warned, used, wired, sampled, late, missed>>

----------------------------------------------------------------------------
(* The worker *)

\* install_guardrails, then the ceiling and the watchdog.
StartWorker(b) ==
  /\ phase = "idle"
  /\ LET e == Effective(b) IN
       /\ phase' = IF e.refused THEN "refused_environment" ELSE "running"
       /\ ceiling' = e.ceiling
       /\ warned' = e.warning
  /\ blind' = b
  /\ surged' = FALSE
  /\ UNCHANGED <<machine, others, pre, used, wired, sampled, late, missed>>

\* A pageable allocation never fails; beyond the physical memory it pages,
\* and how it goes on from there is not followed.
Allocate ==
  /\ phase = "running" /\ sampled /\ ~Paging
  /\ used' = used + Burst
  /\ sampled' = FALSE
  /\ UNCHANGED <<machine, others, phase, pre, ceiling, warned, wired, late, blind, surged, missed>>

\* A wired one fails cleanly at the cap.
AllocateWired ==
  /\ phase = "running" /\ sampled /\ ~Paging
  /\ IF wired + Burst > WiredCap(machine.dev)
     THEN phase' = "out of memory" /\ UNCHANGED <<used, wired, sampled>>
     ELSE /\ used' = used + Burst /\ wired' = wired + Burst
          /\ sampled' = FALSE
          /\ UNCHANGED phase
  /\ UNCHANGED <<machine, others, pre, ceiling, warned, late, blind, surged, missed>>

ReleaseMemory ==
  /\ phase = "running" /\ used > wired
  /\ used' = wired
  /\ UNCHANGED <<machine, others, phase, pre, ceiling, warned, wired, sampled, late, blind, surged, missed>>

TimeIsUp ==
  /\ phase = "running" /\ ~late
  /\ late' = TRUE
  /\ UNCHANGED <<machine, others, phase, pre, ceiling, warned, used, wired, sampled, blind, surged, missed>>

Breach(u, l) ==
  IF u >= ceiling THEN "memory_ceiling" ELSE IF l THEN "wall_budget" ELSE "none"

\* A tick of the watchdog; a breach ends the process.
Sample ==
  /\ phase = "running"
  /\ phase' = IF Breach(used, late) = "none" THEN "running" ELSE Breach(used, late)
  /\ sampled' = TRUE
  /\ UNCHANGED <<machine, others, pre, ceiling, warned, used, wired, late, blind, surged, missed>>

\* The sampler raises: no breach this tick.
SampleFails ==
  /\ phase = "running"
  /\ sampled' = TRUE /\ missed' = TRUE
  /\ UNCHANGED <<machine, others, phase, pre, ceiling, warned, used, wired, late, blind, surged>>

Finish ==
  /\ phase = "running"
  /\ phase' = "finished"
  /\ UNCHANGED <<machine, others, pre, ceiling, warned, used, wired, sampled, late, blind, surged, missed>>

----------------------------------------------------------------------------
(* The rest of the machine *)

OthersGrow ==
  /\ phase \in {"idle", "running"} /\ others + Surge <= machine.memory
  /\ others' = others + Surge
  /\ surged' = TRUE
  /\ UNCHANGED <<machine, phase, pre, ceiling, warned, used, wired, sampled, late, blind, missed>>

\* While a run lasts, the worst that others can do is grow.
OthersShrink ==
  /\ phase = "idle" /\ others >= Surge
  /\ others' = others - Surge
  /\ UNCHANGED <<machine, phase, pre, ceiling, warned, used, wired, sampled, late, blind, surged, missed>>

Init ==
  /\ machine \in Machines
  /\ others \in {n \in 0..machine.memory : n % Surge = 0}
  /\ phase = "idle" /\ pre = "none"
  /\ ceiling = 0 /\ warned = FALSE
  /\ used = 0 /\ wired = 0
  /\ sampled = TRUE /\ late = FALSE
  /\ blind = FALSE /\ surged = FALSE /\ missed = FALSE

Next ==
  \/ Preflight \/ (\E b \in BOOLEAN : StartWorker(b))
  \/ Allocate \/ AllocateWired \/ ReleaseMemory \/ TimeIsUp
  \/ Sample \/ SampleFails \/ Finish
  \/ OthersGrow \/ OthersShrink

\* The watchdog thread keeps ticking, and its sampler does not fail for ever.
Spec == Init /\ [][Next]_vars /\ SF_vars(Sample)

----------------------------------------------------------------------------
(* Properties *)

\* A run has a ceiling of at least a quarter of the machine, below its physical memory.
TypeOK ==
  /\ machine \in Machines
  /\ others \in 0..machine.memory
  /\ phase \in {"idle", "turned away", "refused_environment", "running", "out of memory",
                "memory_ceiling", "wall_budget", "finished"}
  /\ pre \in {"none", "refused", "warned", "clear"}
  /\ used \in Nat /\ wired \in 0..used
  /\ phase = "running" => ceiling \in Floor(machine.memory)..(machine.memory - 1)
  /\ {warned, sampled, late, blind, surged, missed} \subseteq BOOLEAN

\* guards.py:18-21: the watchdog fails a runaway before the machine pages.  With the
\* availability measured, no growth of others and no sample lost, the run cannot make
\* the machine page however it allocates; without a measurement it still cannot on a
\* machine as quiet as its class should be.
NoPagingOfItsOwn ==
  Paging =>
    \/ surged \/ missed
    \/ blind /\ others > machine.memory - StaticCeiling(machine.memory) - Burst

\* The wired class ends in a clean refusal inside the working set: what is wired stays
\* under the device's recommendation, and the advisory limit lies between the two.
WiredInsideWorkingSet ==
  /\ wired <= WiredCap(machine.dev)
  /\ WiredCap(machine.dev) < machine.dev
  /\ WiredCap(machine.dev) <= SoftCap(machine.dev) /\ SoftCap(machine.dev) < machine.dev

\* contribute.py:514-527: what the preflight shows is what the worker meets.  After a
\* clear preflight a worker is refused, or warned of a loaded machine, only if the machine
\* changed or could not be measured in between.
NoSurpriseAfterPreflight ==
  pre = "clear" /\ phase = "idle" /\ phase' # "idle" /\ ~surged
    => phase' = "running" /\ (warned' => blind')

\* The ladder of ceilings has no step down and never reaches the physical memory,
\* at the anchor where its two rules meet as elsewhere.
LadderClimbs ==
  \A n \in 1..(40 * Gib) :
     /\ StaticCeiling(n) <= StaticCeiling(n + 1)
     /\ n >= 2 => StaticCeiling(n) < n
     /\ Granted(n, n) <= Granted(n + 1, n + 1)

\* guards.py:57-61: Apple's recommended working set "is the conservative sibling the WIRED
\* caps respect, and this net deliberately sits ABOVE it".
NetAboveWorkingSet == machine.dev < StaticCeiling(machine.memory)

\* guards.py:90-94: a stuck run is eventually failed by the wall budget.
StuckRunFails == (phase = "running" /\ late) ~> phase # "running"
=============================================================================
