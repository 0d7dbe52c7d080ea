----------------------------- MODULE ContextSweep -----------------------------
(***************************************************************************)
(* The context sweep (scripts/northstar_context_sweep.py): for each arm,   *)
(* double the sequence length while a training step fits, then bisect.  A  *)
(* probe is a condition of the bench runner, so the record of a length     *)
(* that fitted is found again by a later invocation; a probe the machine   *)
(* is too crowded to start is retried and then fails the arm.              *)
(***************************************************************************)
EXTENDS Integers

CONSTANTS
  Arms,         \* the arms are 1..Arms, swept in this order
  Start,        \* --start-seq-len
  Granularity,  \* --granularity
  Ceiling,      \* MAX_CONTEXT_CEILING
  Attempts,     \* _ENV_REFUSAL_ATTEMPTS
  Limits,       \* what the largest trainable length of an arm may be
  Flakes,       \* bound on the probes that fail although the length fits
  Invocations   \* bound on the times the sweep is started

ASSUME SweepAssumption ==
  /\ Arms \in Nat \ {0} /\ Start \in Nat \ {0} /\ Granularity \in Nat \ {0}
  /\ Ceiling \in Nat /\ Attempts \in Nat \ {0} /\ Limits \subseteq Nat
  /\ Flakes \in Nat /\ Invocations \in Nat \ {0}

VARIABLES
  limit,       \* the largest length that trains, by arm
  disk,        \* the status recorded for each length, by arm
  pc,          \* where the probe is: "look", "wait", "judge" or "over"
  arm,         \* the arm being swept
  step,        \* what the probe is for: "start", "double" or "bisect"
  low,         \* last length that fitted (0: none)
  high,        \* the next doubling, then the first length that failed
  seq,         \* the length being probed
  attempt,     \* refused attempts of this probe
  results,     \* what was published, by arm
  flakes,      \* probes that failed for another reason
  invocation   \* times the sweep was started

search == <<arm, step, low, high, seq, attempt>>
vars == <<limit, disk, pc, search, results, flakes, invocation>>

Arm == 1..Arms
Length == 1..(Start + Ceiling)
Status == {"absent", "ok", "error", "refused_environment"}

\* A published ceiling; min is 0 for None.  An arm that gave up has no numbers.
Result(max, min, converged) == [max |-> max, min |-> min, converged |-> converged]
Unpublished == Result(0, 0, FALSE)
Published == [max : {0} \cup Length, min : {0} \cup Length, converged : BOOLEAN]

TypeOK ==
  /\ limit \in [Arm -> Limits]
  /\ disk \in [Arm -> [Length -> Status]]
  /\ pc \in {"look", "wait", "judge", "over"}
  /\ arm \in 1..(Arms + 1) /\ (arm = Arms + 1 <=> pc = "over")
  /\ step \in {"start", "double", "bisect"}
  /\ low \in {0} \cup Length /\ high \in Nat /\ seq \in Length
  /\ attempt \in 0..(Attempts - 1)
  /\ results \in [Arm -> Published]
  /\ flakes \in 0..Flakes /\ invocation \in 1..Invocations

Fresh == [a \in Arm |-> Unpublished]

Init ==
  /\ limit \in [Arm -> Limits]
  /\ disk = [a \in Arm |-> [n \in Length |-> "absent"]]
  /\ pc = "look" /\ arm = 1 /\ step = "start" /\ low = 0 /\ high = 0
  /\ seq = Start /\ attempt = 0 /\ results = Fresh
  /\ flakes = 0 /\ invocation = 1

-----------------------------------------------------------------------------
(* One probe (make_probe). *)

Look == pc = "look"

\* run_conditions skips a length whose record is ok.
FindRecord ==
  /\ Look /\ disk[arm][seq] = "ok"
  /\ pc' = "judge"
  /\ UNCHANGED <<limit, disk, search, results, flakes, invocation>>

\* Otherwise it removes the stale record and starts a worker.
LaunchProbe ==
  /\ Look /\ disk[arm][seq] # "ok"
  /\ disk' = [disk EXCEPT ![arm][seq] = "absent"]
  /\ pc' = "wait"
  /\ UNCHANGED <<limit, search, results, flakes, invocation>>

Answer(status) ==
  /\ pc = "wait"
  /\ disk' = [disk EXCEPT ![arm][seq] = status]

\* The worker trained, or ran out of memory.
WorkerAnswers ==
  /\ Answer(IF seq <= limit[arm] THEN "ok" ELSE "error")
  /\ pc' = "judge"
  /\ UNCHANGED <<limit, search, results, flakes, invocation>>

\* It failed for a reason that has nothing to do with the length.
WorkerFlakes ==
  /\ flakes < Flakes
  /\ Answer("error")
  /\ pc' = "judge" /\ flakes' = flakes + 1
  /\ UNCHANGED <<limit, search, results, invocation>>

\* Mutated: a refused probe is tried for as long as it takes.
RetryForever ==
  /\ Answer("refused_environment")
  /\ pc' = "look"
  /\ UNCHANGED <<limit, search, results, flakes, invocation>>

\* Too crowded to start: wait and try again ...
RefusedAgain ==
  /\ attempt + 1 < Attempts
  /\ Answer("refused_environment")
  /\ pc' = "look" /\ attempt' = attempt + 1
  /\ UNCHANGED <<limit, arm, step, low, high, seq, results, flakes, invocation>>

-----------------------------------------------------------------------------
(* The search (find_max_context, sweep_arm, main). *)

Probe(purpose, n) ==
  /\ pc' = "look" /\ step' = purpose /\ seq' = n /\ attempt' = 0
  /\ UNCHANGED <<arm, results>>

\* The next arm, which starts from nothing.
Publish(r) ==
  /\ results' = [results EXCEPT ![arm] = r]
  /\ arm' = arm + 1
  /\ pc' = IF arm = Arms THEN "over" ELSE "look"
  /\ step' = "start" /\ seq' = Start /\ attempt' = 0
  /\ low' = 0 /\ high' = 0

\* ... until the arm fails without a number.
ArmRefused ==
  /\ attempt + 1 = Attempts
  /\ Answer("refused_environment")
  /\ Publish(Unpublished)
  /\ UNCHANGED <<limit, flakes, invocation>>

Judge(fits) ==
  /\ pc = "judge" /\ (disk[arm][seq] = "ok") = fits
  /\ UNCHANGED <<limit, disk, flakes, invocation>>

StartFails ==
  /\ step = "start" /\ Judge(FALSE)
  /\ Publish(Result(0, Start, TRUE))

\* n fits: double it unless that passes the ceiling.
DoubleOn(n) ==
  IF 2 * n > Ceiling
    THEN Publish(Result(n, 0, FALSE))
    ELSE low' = n /\ high' = 2 * n /\ Probe("double", 2 * n)

DoubleFits ==
  /\ step \in {"start", "double"} /\ Judge(TRUE)
  /\ DoubleOn(seq)

\* Probes are aligned to the granularity.
Mid(l, h) ==
  LET m == l + (h - l) \div 2 IN m - (m % Granularity)

\* l fits and h does not: probe between them down to the granularity.
NarrowOn(l, h) ==
  IF h - l > Granularity /\ Mid(l, h) > l
    THEN low' = l /\ high' = h /\ Probe("bisect", Mid(l, h))
    ELSE Publish(Result(l, h, TRUE))

DoubleFails ==
  /\ step = "double" /\ Judge(FALSE)
  /\ NarrowOn(low, seq)

\* Mutated: a fitting middle lowers the upper end.
MidFitsLowers ==
  /\ step = "bisect" /\ Judge(TRUE)
  /\ NarrowOn(low, seq)

MidFits ==
  /\ step = "bisect" /\ Judge(TRUE)
  /\ NarrowOn(seq, high)

\* Mutated: a failing middle raises the lower end.
MidFailsRaises ==
  /\ step = "bisect" /\ Judge(FALSE)
  /\ NarrowOn(seq, high)

MidFails ==
  /\ step = "bisect" /\ Judge(FALSE)
  /\ NarrowOn(low, seq)

\* The sweep is killed, or over, and the same recipe is run again: the session
\* id is derived from the recipe, so the records are found.
Rerun ==
  /\ invocation < Invocations
  /\ invocation' = invocation + 1
  /\ pc' = "look" /\ arm' = 1 /\ step' = "start" /\ low' = 0 /\ high' = 0
  /\ seq' = Start /\ attempt' = 0 /\ results' = Fresh
  /\ UNCHANGED <<limit, disk, flakes>>

Sweep ==
  \/ FindRecord \/ LaunchProbe \/ WorkerAnswers \/ WorkerFlakes
  \/ RefusedAgain \/ ArmRefused
  \/ StartFails \/ DoubleFits \/ DoubleFails \/ MidFits \/ MidFails

Next == Sweep \/ Rerun

Spec == Init /\ [][Next]_vars

\* The script runs to its end unless it is killed.
FairSpec == Spec /\ WF_vars(Sweep)

-----------------------------------------------------------------------------
(* Properties. *)

Known == {a \in Arm : results[a].converged}

\* A ceiling that is published was trained, and the length published as the
\* first to fail was not: both have a record, and neither is a refusal
\* (lines 46-52: a crowded machine is not a fit verdict).
VerdictsHaveEvidence ==
  \A a \in Arm :
    /\ results[a].max # 0 => disk[a][results[a].max] = "ok"
    /\ results[a].min # 0 => disk[a][results[a].min] = "error"

\* Whatever fails beside it, the length published as fitting fits.
PublishedMaxFits == \A a \in Arm : results[a].max <= limit[a]

\* Without such failures the limit lies between the two published lengths.
PublishedBracket ==
  \A a \in Known : results[a].max <= limit[a] /\ limit[a] < results[a].min

\* The gap that is left when the start is itself aligned (lines 198-199).
GapIsGranularity ==
  \A a \in Known : results[a].max # 0 => results[a].min - results[a].max <= Granularity

\* The gap that is left whatever the start: less than two granules, because
\* aligning the middle may put it on the lower end.
GapIsBounded ==
  \A a \in Known : results[a].max # 0 => results[a].min - results[a].max < 2 * Granularity

\* No upper end is published only for an arm that gave up or whose next
\* doubling passes the ceiling.
NoEndMeansCeiling ==
  \A a \in Arm :
    results[a].min = 0 => results[a].max = 0 \/ 2 * results[a].max > Ceiling

\* "A context length already probed under this EXACT session_id is recognized
\* as fresh and never re-launched" (lines 160-161).
ProbedOnce ==
  [][\A a \in Arm, n \in Length : disk[a][n] = "error" => disk'[a][n] = "error"]_vars

\* A length that trained is never trained again, by this or a later invocation.
FittingKept == \A a \in Arm, n \in Length : disk[a][n] = "ok" => disk'[a][n] = "ok"

\* The sweep ends, whatever the machine answers.
SweepEnds == <>(pc = "over")

\* The search of the current arm is a search of a bracket around its limit.
Bracket == INSTANCE BracketSearch WITH
  lo <- low,
  hi <- IF step = "bisect" THEN high ELSE 0,
  limit <- IF arm \in Arm THEN limit[arm] ELSE 0

BracketSpec == Bracket!Spec

=============================================================================
