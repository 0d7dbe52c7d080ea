----------------------------- MODULE BenchRunner -----------------------------
(***************************************************************************)
(* One benchmark sweep (bench/runner.py run_conditions): a runner takes    *)
(* the conditions in order, skips those whose artifact is fresh, and runs  *)
(* one worker process for each of the others, directly or under mlx-guard. *)
(* The runner may be killed and the sweep resumed; a worker may outlive    *)
(* the runner or the guard client that launched it; the measured code may  *)
(* be edited meanwhile.  A worker is what WorkerContract says of it.       *)
(***************************************************************************)
EXTENDS Naturals, FiniteSets, WorkerRecords

CONSTANTS
  N,               \* conditions of the sweep, each with a path of its own
  MaxInvocations,  \* bound on the times the sweep is started
  MaxEdits,        \* bound on the edits of a measured-path file
  Guarded,         \* is an ExternalGuardConfig given?
  Orphans,         \* can a worker outlive the process that waits for it?
  Stalls           \* can a worker's threads stall (BenchWorker)?

ASSUME RunnerAssumption ==
  /\ N \in Nat /\ MaxInvocations \in Nat \ {0} /\ MaxEdits \in Nat
  /\ Guarded \in BOOLEAN /\ Orphans \in BOOLEAN /\ Stalls \in BOOLEAN

VARIABLES
  code,        \* version of the measured-path files on disk
  disk,        \* the artifact of each condition
  rpc,         \* where the runner is
  cur,         \* the condition it works on
  ident,       \* the code version in the identity it computed for cur
  child,       \* the worker it waits for
  report,      \* how the launch ended, as the runner understands it
  workers,     \* the live workers, by process id
  spawned,     \* workers spawned so far: the last process id
  invocation   \* times the sweep has been started

runnerVars == <<rpc, cur, ident, child, report>>
vars == <<code, disk, runnerVars, workers, spawned, invocation>>

Cond == 1..N
Versions == 0..MaxEdits
Foreign == MaxEdits + 1    \* in the identity of another session or grid point
Unnamed == MaxEdits + 2    \* a worker that has not built its identity yet
MaxPid == N * MaxInvocations

RunnerStatus == {"error", "aborted_external_guard"}

\* An artifact: its status, the process that wrote it (0: none of this
\* sweep's workers), the code version its identity names and the one it ran.
Record(s, p, n, r) == [status |-> s, by |-> p, names |-> n, ran |-> r]

Absent == Record("absent", 0, 0, 0)

TypeOK ==
  /\ code \in Versions
  /\ disk \in [Cond -> [status : Artifact \cup RunnerStatus, by : 0..MaxPid,
                        names : 0..Foreign, ran : 0..Foreign]]
  /\ rpc \in {"check", "unlink", "spawn", "wait", "judge", "record", "done", "dead"}
  /\ cur \in 1..(N + 1)
  /\ ident \in Versions
  /\ child \in 0..MaxPid /\ spawned \in 0..MaxPid
  /\ report \in {"none", "child", "intervention", "failure", "client_failed"}
  /\ DOMAIN workers \subseteq 1..spawned
  /\ \A p \in DOMAIN workers :
       workers[p] \in [cond : Cond, of : 1..MaxInvocations, last : Artifact,
                       names : Versions \cup {Unnamed}, ran : Versions]
  /\ invocation \in 1..MaxInvocations

\* A condition may have a result of an earlier session, fresh or not.
Init ==
  /\ code = 0
  /\ disk \in [Cond -> {Absent, Record("ok", 0, 0, 0),
                        Record("ok", 0, Foreign, Foreign), Record("error", 0, 0, 0)}]
  /\ rpc = "check" /\ cur = 1 /\ ident = 0 /\ child = 0 /\ report = "none"
  /\ workers = <<>> /\ spawned = 0 /\ invocation = 1

\* result_is_fresh
Fresh(r, version) == r.status = "ok" /\ r.names = version

-----------------------------------------------------------------------------
(* The runner. *)

NextCondition == cur' = cur + 1 /\ rpc' = "check"

\* Mutated: the loop does not advance past a fresh condition.
SkipNothing ==
  /\ rpc = "check" /\ cur \in Cond /\ Fresh(disk[cur], code)
  /\ UNCHANGED vars

SkipFresh ==
  /\ rpc = "check" /\ cur \in Cond /\ Fresh(disk[cur], code)
  /\ NextCondition
  /\ UNCHANGED <<code, disk, ident, child, report, workers, spawned, invocation>>

\* Mutated: everything is measured again.
AllStale ==
  /\ rpc = "check" /\ cur \in Cond
  /\ rpc' = "unlink" /\ ident' = code
  /\ UNCHANGED <<code, disk, cur, child, report, workers, spawned, invocation>>

FindStale ==
  /\ rpc = "check" /\ cur \in Cond /\ ~Fresh(disk[cur], code)
  /\ rpc' = "unlink" /\ ident' = code
  /\ UNCHANGED <<code, disk, cur, child, report, workers, spawned, invocation>>

\* Mutated: the stale artifact stays in place.
UnlinkNothing ==
  /\ rpc = "unlink"
  /\ rpc' = "spawn"
  /\ UNCHANGED <<code, disk, cur, ident, child, report, workers, spawned, invocation>>

UnlinkStale ==
  /\ rpc = "unlink"
  /\ disk' = [disk EXCEPT ![cur] = Absent]
  /\ rpc' = "spawn"
  /\ UNCHANGED <<code, cur, ident, child, report, workers, spawned, invocation>>

\* A worker process starts: it imports the code as it is now.
Launch ==
  LET p == spawned + 1
      w == [cond |-> cur, of |-> invocation, last |-> "absent", names |-> Unnamed,
            ran |-> code]
  IN  /\ spawned' = p
      /\ child' = p
      /\ workers' = [q \in DOMAIN workers \cup {p} |-> IF q = p THEN w ELSE workers[q]]

Spawn ==
  /\ rpc = "spawn"
  /\ Launch /\ rpc' = "wait"
  /\ UNCHANGED <<code, disk, cur, ident, report, invocation>>

\* mlx_guard.start raises something else than a discovery error (which falls
\* back to Spawn); the readiness handshake can fail after the worker exists.
GuardStartFails ==
  /\ rpc = "spawn" /\ Guarded
  /\ \/ child' = 0 /\ UNCHANGED <<workers, spawned>>
     \/ Orphans /\ Launch
  /\ report' = "client_failed" /\ rpc' = "judge"
  /\ UNCHANGED <<code, disk, cur, ident, invocation>>

\* The worker has ended; a supervisor may report an intervention of its own,
\* or its own failure.
ChildEnded ==
  /\ rpc = "wait" /\ child \notin DOMAIN workers
  /\ report' \in {"child"} \cup (IF Guarded THEN {"intervention", "failure"} ELSE {})
  /\ rpc' = "judge"
  /\ UNCHANGED <<code, disk, cur, ident, child, workers, spawned, invocation>>

\* Mutated: a discovery error of wait() is taken for one of start(), and the worker is
\* launched directly.
WaitFailureRelaunches ==
  /\ rpc = "wait" /\ Guarded
  /\ child \notin DOMAIN workers \/ Orphans
  /\ rpc' = "spawn"
  /\ UNCHANGED <<code, disk, cur, ident, child, report, workers, spawned, invocation>>

\* supervised.wait raises: loading the final report, or with the worker alive.
GuardWaitFails ==
  /\ rpc = "wait" /\ Guarded
  /\ child \notin DOMAIN workers \/ Orphans
  /\ report' = "client_failed" /\ rpc' = "judge"
  /\ UNCHANGED <<code, disk, cur, ident, child, workers, spawned, invocation>>

\* Mutated: nothing is recorded of a failure of the guard client.
ClientFailurePasses ==
  /\ rpc = "judge" /\ (disk[cur].status # "absent" \/ report = "client_failed")
  /\ NextCondition /\ report' = "none"
  /\ UNCHANGED <<code, disk, ident, child, workers, spawned, invocation>>

\* out_path.exists(): the worker's own record is respected.
RespectRecord ==
  /\ rpc = "judge" /\ disk[cur].status # "absent"
  /\ NextCondition /\ report' = "none"
  /\ UNCHANGED <<code, disk, ident, child, workers, spawned, invocation>>

FindNoRecord ==
  /\ rpc = "judge" /\ disk[cur].status = "absent"
  /\ rpc' = "record"
  /\ UNCHANGED <<code, disk, cur, ident, child, report, workers, spawned, invocation>>

\* The failure envelope: GuardClientError, SupervisorReportedFailure,
\* WorkerCrashed and WorkerExitedWithoutArtifact are errors.
Envelope == IF report = "intervention" THEN "aborted_external_guard" ELSE "error"

WriteEnvelope ==
  /\ rpc = "record"
  /\ disk' = [disk EXCEPT ![cur] = Record(Envelope, 0, ident, ident)]
  /\ NextCondition /\ report' = "none"
  /\ UNCHANGED <<code, ident, child, workers, spawned, invocation>>

Finish ==
  /\ rpc = "check" /\ cur \notin Cond
  /\ rpc' = "done"
  /\ UNCHANGED <<code, disk, cur, ident, child, report, workers, spawned, invocation>>

RunnerStep ==
  \/ SkipFresh \/ FindStale \/ UnlinkStale \/ Spawn \/ GuardStartFails
  \/ ChildEnded \/ GuardWaitFails \/ RespectRecord \/ FindNoRecord
  \/ WriteEnvelope \/ Finish

-----------------------------------------------------------------------------
(* The workers. *)

\* worker.main builds its own identity, from the files on disk by then.
WorkerIdentifies(p) ==
  /\ workers[p].names = Unnamed
  /\ workers' = [workers EXCEPT ![p].names = code]
  /\ UNCHANGED <<code, disk, runnerVars, spawned, invocation>>

WorkerLands(p, s) ==
  LET w == workers[p]
  IN  /\ w.names # Unnamed
      /\ w.last \in Replaceable(s) /\ w.last # s
      /\ workers' = [workers EXCEPT ![p].last = s]
      /\ disk' = [disk EXCEPT ![w.cond] = Record(s, p, w.names, w.ran)]
      /\ UNCHANGED <<code, runnerVars, spawned, invocation>>

\* A stalled worker may return 0 with nothing but a checkpoint, or nothing.
MayEnd(w, exit) ==
  \/ w.last \in LeftBy(exit)
  \/ Stalls /\ exit = "rc0" /\ w.last \in {"absent", "checkpointed_partial"}

WorkerEnds(p) ==
  /\ \E exit \in ExitCode : MayEnd(workers[p], exit)
  /\ workers' = [q \in DOMAIN workers \ {p} |-> workers[q]]
  /\ UNCHANGED <<code, disk, runnerVars, spawned, invocation>>

WorkerStep(p) ==
  /\ p \in DOMAIN workers
  /\ \/ WorkerIdentifies(p)
     \/ \E s \in Status : WorkerLands(p, s)
     \/ WorkerEnds(p)

-----------------------------------------------------------------------------
(* The world outside. *)

\* The runner is killed, interrupted, or dies of an exception of its own.  An
\* interrupt stops the worker with it; SIGKILL, or on_parent_exit="detach",
\* leaves it running.
RunnerDies ==
  /\ rpc \notin {"done", "dead"} /\ invocation < MaxInvocations
  /\ rpc' = "dead"
  /\ \/ Orphans /\ UNCHANGED workers
     \/ workers' = [q \in DOMAIN workers \ {child} |-> workers[q]]
  /\ UNCHANGED <<code, disk, cur, ident, child, report, spawned, invocation>>

Start ==
  /\ invocation' = invocation + 1
  /\ rpc' = "check" /\ cur' = 1 /\ ident' = 0 /\ child' = 0 /\ report' = "none"
  /\ UNCHANGED <<code, disk, workers, spawned>>

Resume == rpc = "dead" /\ Start

\* A finished sweep is started again, to retry what is not ok.
Rerun == rpc = "done" /\ invocation < MaxInvocations /\ Start

EditCode ==
  /\ code < MaxEdits
  /\ code' = code + 1
  /\ UNCHANGED <<disk, runnerVars, workers, spawned, invocation>>

Done == rpc = "done" /\ DOMAIN workers = {} /\ UNCHANGED vars

Next ==
  \/ RunnerStep
  \/ \E p \in 1..MaxPid : WorkerStep(p)
  \/ RunnerDies \/ Resume \/ Rerun \/ EditCode \/ Done

Spec == Init /\ [][Next]_vars

\* A worker ends, if only by its wall budget; a dead sweep is resumed.
FairSpec ==
  /\ Spec
  /\ WF_vars(RunnerStep)
  /\ \A p \in 1..MaxPid : WF_vars(WorkerStep(p))
  /\ WF_vars(Resume)

-----------------------------------------------------------------------------
(* Properties. *)

\* When the sweep is over every condition has a record, whatever happened to
\* its worker, to the guard client or to earlier runners.
SweepAccountsForEvery == rpc = "done" => \A c \in Cond : disk[c].status # "absent"

\* runner.py:359-360, of the unlink before the spawn: "so out_path.exists()
\* after the worker returns means exactly THIS worker wrote it".
ExistsMeansThisWorker ==
  rpc = "judge" /\ disk[cur].status # "absent" => disk[cur].by = child

\* runner.py:388-391: the worker's own record "is respected, not clobbered":
\* the runner's envelope replaces nothing.
EnvelopeClobbersNothing == rpc = "record" => disk[cur].status = "absent"

\* runner.py:165-167: a client that fails after the launch "means the worker already ran
\* -- never relaunch".  Workers that outlive a failed client or a killed runner run beside
\* the next one, but one start of the sweep never has two on one condition.
NeverRelaunched ==
  \A p, q \in DOMAIN workers :
     workers[p].cond = workers[q].cond /\ workers[p].of = workers[q].of => p = q

\* A fresh result nobody is rewriting is kept across runs, deaths and resumes.
FreshResultKept ==
  [][\A c \in Cond :
       Fresh(disk[c], code) /\ (\A p \in DOMAIN workers : workers[p].cond # c)
         => disk'[c] = disk[c]]_vars

\* artifacts.py:10-17: a code edit must never let a stale artifact "be served
\* as fresh (the exact failure this harness exists to prevent)": a result that
\* counts as fresh was measured by the code its identity names.
OkNamesItsCode == \A c \in Cond : disk[c].status = "ok" => disk[c].names = disk[c].ran

\* No outcome of a worker, of the supervisor or of the guard client aborts the
\* sweep, and a sweep that dies is finished once it is resumed.
SweepFinishes == <>[](rpc = "done")
=============================================================================
