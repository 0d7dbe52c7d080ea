------------------------------- MODULE SweepMC -------------------------------
(***************************************************************************)
(* The sweep and what is built on it, for TLC: the runner (BenchRunner),   *)
(* its callers with their report (BenchReport) and the contributor's calls *)
(* (Contribution).  They share no state, so that one of them runs in each  *)
(* behaviour, while BenchRunner rests in one of its initial states.  One   *)
(* part is the runner again, where workers outlive who waits for them.     *)
(***************************************************************************)
EXTENDS BenchRunner

CONSTANTS
  Paths, Grid, Impl, Sessions, Walls, MaxRows, AcceptAt,   \* of BenchReport
  Tiers, Grids, MaxCalls                                   \* of Contribution

\* There is a first session; every condition has a row count and an implementation.
ASSUME ReportAssumption ==
  /\ Sessions \subseteq Nat /\ Sessions # {} /\ Walls \subseteq Nat
  /\ Grid \subseteq Nat /\ IsFiniteSet(Grid)
  /\ Impl \subseteq Nat /\ IsFiniteSet(Impl)
  /\ Paths \in Nat /\ MaxRows \in Nat

\* Every version of the code has conditions to measure, each of a sequence length.
ASSUME ContributionAssumption ==
  /\ 1 \in DOMAIN Grids /\ MaxCalls \in Nat
  /\ \A v \in DOMAIN Grids : Grids[v] \subseteq Nat /\ Grids[v] # {}

VARIABLES
  part,                                                \* the part that runs
  conds, artifacts, paths, ratios, excluded, exit,     \* of BenchReport
  session, todo,
  version, records, marker, calls, runs, beside, listed, published,  \* of Contribution
  pc,                                                  \* of either
  oCode, oDisk, oRpc, oCur, oIdent, oChild, oReport, oWorkers, oSpawned,
  oInvocation                                          \* of the runner with orphans

runVars == vars
reportVars == <<conds, artifacts, paths, ratios, excluded, exit, session, todo>>
contributionVars == <<version, records, marker, calls, runs, beside, listed, published>>
orphanVars == <<oCode, oDisk, oRpc, oCur, oIdent, oChild, oReport, oWorkers, oSpawned,
                oInvocation>>
suiteVars == <<part, runVars, reportVars, contributionVars, pc, orphanVars>>

\* Nobody edits the code; a worker may also stall.
Orphaned ==
  INSTANCE BenchRunner WITH
    MaxEdits <- 0, Guarded <- TRUE, Orphans <- TRUE, Stalls <- TRUE,
    code <- oCode, disk <- oDisk, rpc <- oRpc, cur <- oCur, ident <- oIdent,
    child <- oChild, report <- oReport, workers <- oWorkers, spawned <- oSpawned,
    invocation <- oInvocation

\* Who calls is the part that runs.
Report == INSTANCE BenchReport WITH caller <- part, disk <- artifacts

Callers == {"command", "script", "library"}

Contribute == INSTANCE Contribution WITH Grid <- Grids

\* The second version of the code has dropped a condition of the first.
TwoVersions == <<{1, 2}, {2}>>

-----------------------------------------------------------------------------

RunnerRests == disk = [c \in Cond |-> Absent] /\ Init
OrphansRest == /\ oCode = 0 /\ oDisk = <<>> /\ oRpc = "rests" /\ oCur = 0 /\ oIdent = 0
               /\ oChild = 0 /\ oReport = "none" /\ oWorkers = <<>> /\ oSpawned = 0
               /\ oInvocation = 0
ReportRests == /\ conds = <<>> /\ artifacts = <<>> /\ paths = <<>>
               /\ ratios = <<>> /\ excluded = {} /\ exit = 0 /\ session = 0 /\ todo = {}
ContributionRests == /\ version = 0 /\ records = <<>> /\ marker = 0 /\ calls = 0
                     /\ runs = <<>> /\ beside = {} /\ listed = {} /\ published = <<>>
BothRest == ReportRests /\ ContributionRests /\ pc = "rests"

SuiteInit ==
  \/ part = "sweep" /\ Init /\ OrphansRest /\ BothRest
  \/ part = "orphans" /\ RunnerRests /\ Orphaned!Init /\ BothRest
  \/ part \in Callers /\ RunnerRests /\ OrphansRest /\ Report!Init /\ ContributionRests
  \/ part = "contribution" /\ RunnerRests /\ OrphansRest /\ ReportRests /\ Contribute!Init

InSweep(A) ==
  /\ part = "sweep" /\ A
  /\ UNCHANGED <<part, orphanVars, reportVars, contributionVars, pc>>
InOrphans(A) ==
  /\ part = "orphans" /\ A
  /\ UNCHANGED <<part, runVars, reportVars, contributionVars, pc>>
InReport(A) ==
  part \in Callers /\ A /\ UNCHANGED <<part, runVars, orphanVars, contributionVars>>
InContribution(A) ==
  part = "contribution" /\ A /\ UNCHANGED <<part, runVars, orphanVars, reportVars>>

CallsAreOver ==
  part = "contribution" /\ pc = "idle" /\ calls = MaxCalls /\ UNCHANGED suiteVars

SuiteNext ==
  \/ InSweep(Next)
  \/ InOrphans(Orphaned!Next)
  \/ InReport(Report!Next)
  \/ InContribution(Contribute!Next)
  \/ CallsAreOver

\* The fairness of BenchRunner's FairSpec and of Contribution's Spec.
SuiteSpec ==
  /\ SuiteInit /\ [][SuiteNext]_suiteVars
  /\ WF_suiteVars(InSweep(RunnerStep))
  /\ \A p \in 1..MaxPid : WF_suiteVars(InSweep(WorkerStep(p)))
  /\ WF_suiteVars(InSweep(Resume))
  /\ WF_suiteVars(InContribution(Contribute!CallGoesOn))

-----------------------------------------------------------------------------
(* Properties. *)

\* No outcome of a worker, of the supervisor or of the guard client aborts the
\* sweep, and a sweep that dies is finished once it is resumed.  A contributor's
\* call comes back, too.
SweepIsFinished == /\ part = "sweep" => SweepFinishes
                   /\ part = "contribution" => Contribute!CallEnds

\* When a sweep is over every condition has a record, also when workers of an
\* earlier start outlived it, stalled, or ended without one.
OrphansAreAccountedFor ==
  part = "orphans" => Orphaned!TypeOK /\ Orphaned!SweepAccountsForEvery

\* runner.py:165-167: workers that outlive a failed guard client or a killed runner
\* run beside the next one, but a condition is never launched again while the
\* same sweep goes on.
OrphansAreNotRelaunched == part = "orphans" => Orphaned!NeverRelaunched

\* runner.py:425-445, cli.py:280-292: each ratio compares two implementations at
\* one grid point in one session, the slower over the faster, no pair goes
\* unaccounted, and exit 0 means that every condition asked for was measured in
\* this invocation, 3 that each was measured or refused.
ReportIsLikeForLike ==
  part \in Callers => /\ Report!TypeOK
                      /\ Report!RatioIsLikeForLike
                      /\ Report!EveryPairIsAccounted
                      /\ Report!ExitCodeIsTheWorst

\* contribute.py:387-431: no crash is published as a clean, empty bench, a crash
\* marker is only that of the call which publishes it, and a script that ran
\* through is published whole and under its own session, but for what processes of
\* earlier calls write that are still at work.
PublishedIsOfThisCall ==
  part = "contribution" =>
    /\ Contribute!TypeOK
    /\ Contribute!NoCleanEmptyBench
    /\ Contribute!MarkerIsThisCalls
    /\ Contribute!CompleteCallAnswersItsGrid

\* contribute.py:551-561: what a session measured is not measured again when the
\* call is repeated, as long as no other session works in the directory and no
\* process of an earlier call was still at work when this one began.
ResumeKeepsMeasured ==
  [][part = "contribution" /\ beside = {} =>
       \A c \in DOMAIN records :
         records[c].status = "ok" /\ records[c].session = Contribute!Session
           => records'[c] = records[c] \/ Contribute!Session' # Contribute!Session]_suiteVars

\* contribute.py:412: _spawn_script returns "the artifacts it wrote", so that
\* nothing of another session is published as this one's.
PublishesThisSession == part = "contribution" => Contribute!PublishesThisSession
=============================================================================
