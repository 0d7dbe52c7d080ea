----------------------------- MODULE BenchReport -----------------------------
(***************************************************************************)
(* The callers of a sweep and what they report of it: the bench command    *)
(* (cli.py _cmd_bench: one implementation, some row counts, an exit code), *)
(* the loss-layer script (scripts/bench_loss_layer.py: row counts times    *)
(* implementations, or one condition of them, an acceptance check), and    *)
(* report() of bench/runner.py called on any artifacts.  What a sweep does *)
(* is in BenchRunner: here it leaves one artifact of the invocation's own  *)
(* session per condition that was not fresh.                               *)
(***************************************************************************)
EXTENDS Naturals, FiniteSets, SequencesExt

CONSTANTS
  Paths,       \* artifact paths a caller of report() lists: 1..Paths
  Grid,        \* grid points: the row counts of the bench command
  Impl,        \* implementations, as numbers in alphabetical order
  Sessions,    \* sessions: those of the artifacts, or the invocations in turn
  Walls,       \* wall times in some unit; 0 stands for none that can be ranked
  MaxRows,     \* bound on the row counts given to the bench command
  AcceptAt     \* the grid point of the script's acceptance check

VARIABLES
  caller,     \* "command", "script" or "library"
  conds,      \* the conditions, in order: grid point and implementation
  disk,       \* the artifact under each name
  paths,      \* the names whose artifacts are reported, in order
  pc,         \* "sweep", "report", "done"
  todo,       \* the pairs of artifacts report has yet to compare
  ratios,     \* label -> the two wall times
  excluded,   \* the pairs of artifacts named in cross_session_excluded
  session,    \* new_session_id() of this invocation
  exit        \* its exit code (report has none: 0)

vars == <<caller, conds, disk, paths, pc, todo, ratios, excluded, session, exit>>

Status == {"ok", "refused", "other", "unreadable"}

\* An artifact; only an ok one has been measured.
Artifacts ==
  [status : {"ok"}, grid : Grid, impl : Impl, session : Sessions, wall : Walls]
    \cup [status : Status \ {"ok"}, grid : Grid, impl : Impl,
          session : Sessions, wall : {0}]

\* Condition.name: loss_layer_n{n}, and _{impl} in the script
NameOf(c) == <<c.grid, IF caller = "command" THEN 0 ELSE c.impl>>

Condition == [grid : Grid, impl : Impl]

TypeOK ==
  /\ caller \in {"command", "script", "library"}
  /\ conds \in Seq(Condition)
  /\ \A p \in DOMAIN disk : disk[p] \in Artifacts
  /\ paths \in Seq(DOMAIN disk)
  /\ pc \in {"sweep", "report", "done"}
  /\ todo \subseteq (1..Len(paths)) \X (1..Len(paths))
  /\ DOMAIN ratios \subseteq Impl \X Impl
  /\ \A l \in DOMAIN ratios : ratios[l] \in Walls \X Walls
  /\ excluded \subseteq (1..Len(paths)) \X (1..Len(paths))
  /\ session \in Sessions /\ exit \in {0, 1, 3}

Earlier(c, d) == c.grid < d.grid \/ (c.grid = d.grid /\ c.impl < d.impl)

Increasing(s) == \A j, k \in DOMAIN s : j < k => Earlier(s[j], s[k])

\* _conditions_for_suite: one implementation, the row counts as given, repeats
\* included; build_conditions and --condition of the script: all or one.
ConditionLists ==
  IF caller = "command"
    THEN UNION {{[j \in 1..k |-> [grid |-> n[j], impl |-> i]] : n \in [1..k -> Grid]} :
                  k \in 1..MaxRows, i \in Impl}
    ELSE {s \in [1..Cardinality(Condition) -> Condition] : Increasing(s)}
           \cup {<<c>> : c \in Condition}

InitSweep ==
  /\ conds \in ConditionLists
  /\ disk = <<>> /\ paths = <<>> /\ pc = "sweep" /\ todo = {}

-----------------------------------------------------------------------------
(* report(): the comparisons, group by group. *)

At(p) == disk[paths[p]]

\* The entries: the ok artifacts that can be read.
Entries == {p \in 1..Len(paths) : At(p).status = "ok"}

\* Mutated: the group key leaves out the grid point.
OneGroup(a, b) == TRUE

\* _group_key: every field of the identity but impl and session_id
SameGroup(a, b) == At(a).grid = At(b).grid

Pairs == {pr \in Entries \X Entries : pr[1] < pr[2] /\ SameGroup(pr[1], pr[2])}

\* The loops take the groups by their first member.
First(p) == CHOOSE q \in Entries : /\ SameGroup(q, p)
                                   /\ \A r \in Entries : SameGroup(r, p) => q <= r
Key(pr) == <<First(pr[1]), pr[1], pr[2]>>
Before(x, y) ==
  \E k \in 1..3 : /\ Key(x)[k] < Key(y)[k]
                 /\ \A m \in 1..(k - 1) : Key(x)[m] = Key(y)[m]

InitReport ==
  /\ conds = <<>> /\ pc = "report"
  /\ paths = [p \in 1..Paths |-> p]
  /\ disk \in [1..Paths -> {a \in Artifacts : a.status \in {"ok", "other"}}]
  /\ todo = Pairs

Init ==
  /\ caller \in {"command", "script", "library"}
  /\ IF caller = "library" THEN InitReport ELSE InitSweep
  /\ ratios = <<>> /\ excluded = {} /\ session = Min(Sessions) /\ exit = 0

Put(label, walls) ==
  ratios' = [l \in DOMAIN ratios \cup {label} |-> IF l = label THEN walls ELSE ratios[l]]

\* _ratio_label_and_value: the slower over the faster, if both can be ranked.
Rank(a, b) ==
  IF At(a).wall = 0 \/ At(b).wall = 0 THEN UNCHANGED ratios
  ELSE IF At(a).wall >= At(b).wall
         THEN Put(<<At(a).impl, At(b).impl>>, <<At(a).wall, At(b).wall>>)
         ELSE Put(<<At(b).impl, At(a).impl>>, <<At(b).wall, At(a).wall>>)

ComparePair(a, b) ==
  /\ todo' = todo \ {<<a, b>>}
  /\ IF At(a).impl = At(b).impl THEN UNCHANGED <<ratios, excluded>>
     ELSE IF At(a).session # At(b).session
       THEN excluded' = excluded \cup {<<a, b>>} /\ UNCHANGED ratios
     ELSE Rank(a, b) /\ UNCHANGED excluded

Compare ==
  /\ pc = "report"
  /\ \E pr \in todo : /\ \A other \in todo \ {pr} : Before(pr, other)
                     /\ ComparePair(pr[1], pr[2])
  /\ UNCHANGED <<conds, disk, paths, pc, session, exit>>

-----------------------------------------------------------------------------
(* The command around it. *)

\* result_is_fresh: the identity holds the session of this invocation.
Fresh(c) ==
  /\ NameOf(c) \in DOMAIN disk
  /\ disk[NameOf(c)] = [disk[NameOf(c)] EXCEPT !.status = "ok", !.grid = c.grid,
                                               !.impl = c.impl, !.session = session]

\* run_conditions: one artifact per condition, whatever became of its worker.
Measure ==
  /\ pc = "sweep" /\ Len(paths) < Len(conds)
  /\ LET c == conds[Len(paths) + 1]
         p == NameOf(c)
     IN  /\ paths' = Append(paths, p)
         /\ IF Fresh(c) THEN UNCHANGED disk
            ELSE \E a \in Artifacts :
                   /\ a.grid = c.grid /\ a.impl = c.impl /\ a.session = session
                   /\ disk' = [q \in DOMAIN disk \cup {p} |-> IF q = p THEN a ELSE disk[q]]
  /\ UNCHANGED <<conds, pc, todo, ratios, excluded, session, exit>>

BeginReport ==
  /\ pc = "sweep" /\ Len(paths) = Len(conds)
  /\ pc' = "report" /\ todo' = Pairs
  /\ UNCHANGED <<conds, disk, paths, ratios, excluded, session, exit>>

\* _bench_exit_code: any status but ok and refused is an error.
BenchExitCode(statuses) ==
  LET seen == ToSet(statuses)
  IN  IF seen \subseteq {"ok"} THEN 0 ELSE IF seen \subseteq {"ok", "refused"} THEN 3 ELSE 1

\* check_acceptance: skipped, and no failure, unless both were measured in one
\* session; of the walls, any slower one is beyond 1.7 times.
Acceptance ==
  LET Ok(i) == \E p \in Entries : At(p).grid = AcceptAt /\ At(p).impl = i
      Of(i) == At(CHOOSE p \in Entries : At(p).grid = AcceptAt /\ At(p).impl = i)
  IN  IF /\ Ok(Min(Impl)) /\ Ok(Max(Impl)) /\ Of(Min(Impl)).session = Of(Max(Impl)).session
         /\ Of(Min(Impl)).wall > Of(Max(Impl)).wall
      THEN 1 ELSE 0

End ==
  /\ pc = "report" /\ todo = {}
  /\ pc' = "done"
  /\ exit' = CASE caller = "command" -> BenchExitCode([p \in 1..Len(paths) |-> At(p).status])
               [] caller = "script" -> Acceptance
               [] OTHER -> 0
  /\ UNCHANGED <<conds, disk, paths, todo, ratios, excluded, session>>

\* The command or script is started again over the same directory.
Again ==
  /\ pc = "done" /\ caller # "library" /\ session + 1 \in Sessions
  /\ session' = session + 1
  /\ conds' \in ConditionLists
  /\ paths' = <<>> /\ pc' = "sweep" /\ ratios' = <<>> /\ excluded' = {} /\ exit' = 0
  /\ UNCHANGED <<disk, todo>>

Done == pc = "done" /\ UNCHANGED vars

\* Whoever called goes on calling.
Next ==
  /\ UNCHANGED caller
  /\ Compare \/ Measure \/ BeginReport \/ End \/ Again \/ Done

Spec == Init /\ [][Next]_vars

-----------------------------------------------------------------------------
(* Properties. *)

\* A pair report() is there to compare: two implementations at one grid point.
Comparable(a, b) ==
  /\ {a, b} \subseteq Entries /\ a < b
  /\ At(a).grid = At(b).grid /\ At(a).impl # At(b).impl

Rankable(a, b) == At(a).session = At(b).session /\ 0 \notin {At(a).wall, At(b).wall}

\* runner.py:425-427: every ratio is of two implementations measured at one
\* grid point in one session, the slower over the faster, whatever the order
\* of the artifacts and whatever was overwritten.
RatioIsLikeForLike ==
  \A l \in DOMAIN ratios : \E a, b \in Entries :
    /\ Comparable(a, b) \/ Comparable(b, a)
    /\ Rankable(a, b)
    /\ l = <<At(a).impl, At(b).impl>> /\ ratios[l] = <<At(a).wall, At(b).wall>>
    /\ At(a).wall >= At(b).wall

\* runner.py:443-445: a pair of two sessions is "refused, and named", never
\* dropped, and a pair of one session leaves a ratio of its implementations.
EveryPairIsAccounted ==
  pc = "done" =>
    \A a, b \in Entries : Comparable(a, b) =>
      /\ At(a).session # At(b).session <=> <<a, b>> \in excluded
      /\ Rankable(a, b) =>
           {<<At(a).impl, At(b).impl>>, <<At(b).impl, At(a).impl>>} \cap DOMAIN ratios # {}

\* cli.py:280-292: exit 0 means that every condition asked for, repeated row
\* counts included, was measured in this invocation, and 3 that each was
\* measured or refused; scripts read nothing but the code.
ExitCodeIsTheWorst ==
  pc = "done" /\ caller = "command" =>
    LET Own(c, s) == LET a == disk[NameOf(c)]
                     IN  a.status \in s /\ a.grid = c.grid /\ a.impl = c.impl /\ a.session = session
        All(s) == \A j \in 1..Len(conds) : Own(conds[j], s)
    IN  /\ exit = 0 <=> All({"ok"})
        /\ exit = 3 => All({"ok", "refused"}) /\ ~All({"ok"})

\* bench_loss_layer.py:10-13: "resume-by-skipping" is run_conditions' own
\* behaviour: a condition measured by an earlier invocation is not measured
\* again.
MeasuredOnce ==
  [][\A p \in DOMAIN disk : disk[p].status = "ok" => disk'[p] = disk[p]]_vars

\* runner.py:442-443: the report has the "pairwise impl ratios at each shared
\* grid point".
RatioOfEachGridPoint ==
  pc = "done" =>
    \A a, b \in Entries : Comparable(a, b) /\ Rankable(a, b) =>
      \E l \in DOMAIN ratios : \E x, y \in Entries :
        /\ At(x).grid = At(a).grid /\ At(y).grid = At(a).grid
        /\ l = <<At(x).impl, At(y).impl>> /\ ratios[l] = <<At(x).wall, At(y).wall>>
=============================================================================
