----------------------------- MODULE BenchWorker -----------------------------
(***************************************************************************)
(* One benchmark worker process (bench/worker.py main): its main thread,   *)
(* which measures the condition, answers checkpoint requests and records   *)
(* the result, and the daemon thread of core/guards.py that samples memory *)
(* and wall time, records a breach and hard-exits the process.  Both write *)
(* the same artifact through bench/artifacts.py: a lock orders the writes, *)
(* a temporary file per thread keeps each one whole.                       *)
(***************************************************************************)
EXTENDS Naturals

CONSTANTS Reps,        \* measured repetitions, one checkpoint poll after each
          MaxFaults,   \* bound on failed file operations in a behaviour
          Stalls       \* can a thread stall for seconds (a paging storm)?

ASSUME ConstantsAssumption ==
  Reps \in Nat /\ MaxFaults \in Nat /\ Stalls \in BOOLEAN

VARIABLES
  mpc,        \* where the main thread is
  job,        \* the status the main thread is writing, or last wrote
  rc,         \* what main() will return once its finally clause is over
  reps,       \* repetitions measured so far
  wpc,        \* where the watchdog thread is
  lock,       \* holder of _WRITE_LOCK
  breach,     \* _BREACH
  stop,       \* the watchdog's stop event
  tmp,        \* content of each thread's temporary file
  artifact,   \* content of the artifact
  session,    \* the external checkpoint session of this worker
  req,        \* the supervisor's checkpoint request
  faults,     \* failed file operations so far
  exit        \* how the process ended

mainVars == <<mpc, job, rc, reps>>
ctrlVars == <<lock, breach, stop>>
fileVars == <<tmp, artifact>>
chanVars == <<session, req>>
vars == <<mainVars, wpc, ctrlVars, fileVars, chanVars, faults, exit>>

Contract == INSTANCE WorkerContract

Thread == {"main", "watchdog"}
Status == Contract!Status
Writing == {"open", "fill", "rename"}
Content == {"absent", "half"} \cup Status

TypeOK ==
  /\ mpc \in {"starting", "connect", "measuring", "poll", "acquire", "fsync",
              "closing", "joining", "returning"} \cup Writing
  /\ job \in Status \cup {"none"}
  /\ rc \in {"rc0", "rc1"}
  /\ reps \in 0..Reps
  /\ wpc \in {"off", "waiting", "sampling", "acquire", "exiting", "ended"} \cup Writing
  /\ lock \in Thread \cup {"none"}
  /\ breach \in BOOLEAN /\ stop \in BOOLEAN
  /\ tmp \in [Thread -> Content]
  /\ artifact \in Content
  /\ session \in {"null", "open"}
  /\ req \in {"none", "pending", "completed", "cancelled", "failed"}
  /\ faults \in 0..MaxFaults
  /\ exit \in {"running"} \cup Contract!ExitCode

\* The runner unlinks a stale artifact before it spawns the worker.
Init ==
  /\ mpc = "starting" /\ job = "none" /\ rc = "rc0" /\ reps = 0
  /\ wpc = "off" /\ lock = "none" /\ breach = FALSE /\ stop = FALSE
  /\ tmp = [t \in Thread |-> "absent"] /\ artifact = "absent"
  /\ session = "null" /\ req = "none"
  /\ faults = 0 /\ exit = "running"

-----------------------------------------------------------------------------
(* _write_atomically, the steps the two writers share: create the temporary *)
(* file, write the whole record, rename it over the artifact.               *)

\* Mutated: one "<name>.tmp" per artifact, shared by the two writers.
SharedTmpName(t) == "main"

\* The name carries the writing thread's identity.
TmpName(t) == t

OpenTmp(t) ==
  tmp' = [tmp EXCEPT ![TmpName(t)] = "half"] /\ UNCHANGED artifact

FillTmp(t, s) ==
  tmp' = [tmp EXCEPT ![TmpName(t)] = s] /\ UNCHANGED artifact

RenameTmp(t) ==
  /\ tmp[TmpName(t)] # "absent"
  /\ artifact' = tmp[TmpName(t)]
  /\ tmp' = [tmp EXCEPT ![TmpName(t)] = "absent"]

FileFault == faults < MaxFaults /\ faults' = faults + 1

\* Mutated: the lock is never released.
KeepLock(t) == UNCHANGED lock

\* The release in the finally clause of write_result, or at the end of the
\* with block of write_result_unless_breached.
Release(t) == lock' = IF lock = t THEN "none" ELSE lock

-----------------------------------------------------------------------------
(* The main thread. *)

\* effective_memory_ceiling refuses: the refusal is recorded, no watchdog runs.
RefuseEnvironment ==
  /\ mpc = "starting"
  /\ mpc' = "acquire" /\ job' = "refused_environment"
  /\ UNCHANGED <<rc, reps, wpc, ctrlVars, fileVars, chanVars, faults, exit>>

\* The config, the guardrails or the identity raise: no finally clause yet.
StartFails ==
  /\ mpc = "starting"
  /\ exit' = "rc1"
  /\ UNCHANGED <<mainVars, wpc, ctrlVars, fileVars, chanVars, faults>>

InstallWatchdog ==
  /\ mpc = "starting"
  /\ mpc' = "connect" /\ wpc' = "waiting"
  /\ UNCHANGED <<job, rc, reps, ctrlVars, fileVars, chanVars, faults, exit>>

\* connect_external_checkpoint: a session, or the null session when no
\* supervisor runs, mlx-guard is missing or the handshake fails.
Connect ==
  /\ mpc = "connect"
  /\ mpc' = "measuring" /\ session' \in {"null", "open"}
  /\ UNCHANGED <<job, rc, reps, wpc, ctrlVars, fileVars, req, faults, exit>>

MeasureRep ==
  /\ mpc = "measuring" /\ reps < Reps
  /\ mpc' = "poll" /\ reps' = reps + 1
  /\ UNCHANGED <<job, rc, wpc, ctrlVars, fileVars, chanVars, faults, exit>>

\* LaunchBudgetError: a refusal is a result.
MeasureRefused ==
  /\ mpc = "measuring"
  /\ mpc' = "acquire" /\ job' = "refused"
  /\ UNCHANGED <<rc, reps, wpc, ctrlVars, fileVars, chanVars, faults, exit>>

MeasureDone ==
  /\ mpc = "measuring" /\ reps = Reps
  /\ mpc' = "acquire" /\ job' = "ok"
  /\ UNCHANGED <<rc, reps, wpc, ctrlVars, fileVars, chanVars, faults, exit>>

\* Any other exception, of the import of mlx_guard or of the measurement.
Crash ==
  /\ mpc \in {"connect", "measuring"}
  /\ mpc' = "closing" /\ rc' = "rc1"
  /\ UNCHANGED <<job, reps, wpc, ctrlVars, fileVars, chanVars, faults, exit>>

\* poll with nothing to do; a protocol error closes the session and measures on.
PollNothing ==
  /\ mpc = "poll" /\ ~(session = "open" /\ req = "pending")
  /\ mpc' = "measuring"
  /\ session' \in {session, "null"}
  /\ UNCHANGED <<job, rc, reps, wpc, ctrlVars, fileVars, req, faults, exit>>

\* poll runs the checkpoint callback, which starts to write its record.
PollRequest ==
  /\ mpc = "poll" /\ session = "open" /\ req = "pending"
  /\ mpc' = "acquire" /\ job' = "checkpointed_partial"
  /\ UNCHANGED <<rc, reps, wpc, ctrlVars, fileVars, chanVars, faults, exit>>

\* Mutated: the final result goes through write_result, which never looks.
WriteAnyway == TRUE

\* write_result_unless_breached looks at _BREACH once it holds the lock
\* (write_result, which records a refusal to start, does not).
MayWrite == job = "refused_environment" \/ ~breach

MainAcquire ==
  /\ mpc = "acquire" /\ lock = "none" /\ MayWrite
  /\ mpc' = "open" /\ lock' = "main"
  /\ UNCHANGED <<job, rc, reps, wpc, breach, stop, fileVars, chanVars, faults, exit>>

\* Mutated: the callback ignores that nothing was written.
AckAnyway ==
  /\ mpc = "acquire" /\ lock = "none" /\ ~MayWrite
  /\ IF job = "checkpointed_partial"
       THEN mpc' = "measuring" /\ req' = "completed"
       ELSE mpc' = "closing" /\ UNCHANGED req
  /\ UNCHANGED <<job, rc, reps, wpc, ctrlVars, fileVars, session, faults, exit>>

\* The breach record stands: nothing is written, a checkpoint is cancelled.
MainYields ==
  /\ mpc = "acquire" /\ lock = "none" /\ ~MayWrite
  /\ IF job = "checkpointed_partial"
       THEN mpc' = "measuring" /\ req' = "cancelled"
       ELSE mpc' = "closing" /\ UNCHANGED req
  /\ UNCHANGED <<job, rc, reps, wpc, ctrlVars, fileVars, session, faults, exit>>

MainOpen ==
  /\ mpc = "open" /\ OpenTmp("main") /\ mpc' = "fill"
  /\ UNCHANGED <<job, rc, reps, wpc, ctrlVars, chanVars, faults, exit>>

MainFill ==
  /\ mpc = "fill" /\ FillTmp("main", job) /\ mpc' = "rename"
  /\ UNCHANGED <<job, rc, reps, wpc, ctrlVars, chanVars, faults, exit>>

\* The write lands and the lock is released.  A checkpoint is then synced;
\* a refusal to start returns at once, before any finally clause.
MainRename ==
  /\ mpc = "rename" /\ RenameTmp("main") /\ Release("main")
  /\ mpc' = CASE job = "checkpointed_partial" -> "fsync"
              [] job = "refused_environment"  -> "returning"
              [] OTHER                        -> "closing"
  /\ UNCHANGED <<job, rc, reps, wpc, breach, stop, chanVars, faults, exit>>

\* Mutated: main() swallows the exception and returns 0.
WriteFailureSwallowed ==
  /\ mpc \in Writing /\ job \in {"refused", "ok"} /\ FileFault
  /\ Release("main") /\ mpc' = "closing"
  /\ UNCHANGED <<job, rc, reps, wpc, breach, stop, fileVars, chanVars, exit>>

\* A file operation raises.  In the callback it fails the request and closes
\* the session; otherwise main() raises, through its finally clause if it has
\* entered the try.
MainWriteFails ==
  /\ mpc \in Writing /\ FileFault /\ Release("main")
  /\ \/ /\ job = "checkpointed_partial"
        /\ mpc' = "measuring" /\ session' = "null" /\ req' = "failed"
        /\ UNCHANGED rc
     \/ /\ job = "refused_environment"
        /\ mpc' = "returning" /\ rc' = "rc1" /\ UNCHANGED chanVars
     \/ /\ job \in {"refused", "ok"}
        /\ mpc' = "closing" /\ rc' = "rc1" /\ UNCHANGED chanVars
  /\ UNCHANGED <<job, reps, wpc, breach, stop, fileVars, exit>>

\* The callback returns: the request is acknowledged.
Fsync ==
  /\ mpc = "fsync" /\ mpc' = "measuring" /\ req' = "completed"
  /\ UNCHANGED <<job, rc, reps, wpc, ctrlVars, fileVars, session, faults, exit>>

FsyncFails ==
  /\ mpc = "fsync" /\ FileFault
  /\ mpc' = "measuring" /\ session' = "null" /\ req' = "failed"
  /\ UNCHANGED <<job, rc, reps, wpc, ctrlVars, fileVars, exit>>

\* The finally clause of main(): close the session, stop the watchdog ...
Close ==
  /\ mpc = "closing"
  /\ mpc' = "joining" /\ session' = "null" /\ stop' = TRUE
  /\ UNCHANGED <<job, rc, reps, wpc, lock, breach, fileVars, req, faults, exit>>

\* Mutated: stop() does not join.
JoinsNothing == TRUE

\* ... and join it.  The join gives up after 5 s: only a stall takes that long.
JoinReturns == wpc = "ended" \/ Stalls

Return ==
  /\ \/ mpc = "joining" /\ JoinReturns
     \/ mpc = "returning"
  /\ exit' = rc
  /\ UNCHANGED <<mainVars, wpc, ctrlVars, fileVars, chanVars, faults>>

-----------------------------------------------------------------------------
(* The watchdog thread. *)

\* Event.wait times out with the event unset: sample now.
WatchdogWakes ==
  /\ wpc = "waiting" /\ ~stop
  /\ wpc' = "sampling"
  /\ UNCHANGED <<mainVars, ctrlVars, fileVars, chanVars, faults, exit>>

\* No breach, or the sampler raised, which counts as none.
WatchdogSeesNothing ==
  /\ wpc = "sampling"
  /\ wpc' = "waiting"
  /\ UNCHANGED <<mainVars, ctrlVars, fileVars, chanVars, faults, exit>>

\* breach_reason is not None: on_breach sets _BREACH, then records.
WatchdogSeesBreach ==
  /\ wpc = "sampling"
  /\ wpc' = "acquire" /\ breach' = TRUE
  /\ UNCHANGED <<mainVars, lock, stop, fileVars, chanVars, faults, exit>>

\* Mutated: the breach record goes through write_result_unless_breached.
BreachYields ==
  /\ wpc = "acquire" /\ lock = "none"
  /\ wpc' = "exiting"
  /\ UNCHANGED <<mainVars, ctrlVars, fileVars, chanVars, faults, exit>>

WatchdogAcquire ==
  /\ wpc = "acquire" /\ lock = "none"
  /\ wpc' = "open" /\ lock' = "watchdog"
  /\ UNCHANGED <<mainVars, breach, stop, fileVars, chanVars, faults, exit>>

\* Mutated: the acquisition has no timeout.
WaitForLock == wpc = "acquire" /\ lock # "none" /\ UNCHANGED vars

\* The lock is not free within 2 s: write without it.
WatchdogGivesUp ==
  /\ wpc = "acquire" /\ lock # "none" /\ Stalls
  /\ wpc' = "open"
  /\ UNCHANGED <<mainVars, ctrlVars, fileVars, chanVars, faults, exit>>

WatchdogOpen ==
  /\ wpc = "open" /\ OpenTmp("watchdog") /\ wpc' = "fill"
  /\ UNCHANGED <<mainVars, ctrlVars, chanVars, faults, exit>>

WatchdogFill ==
  /\ wpc = "fill" /\ FillTmp("watchdog", "aborted") /\ wpc' = "rename"
  /\ UNCHANGED <<mainVars, ctrlVars, chanVars, faults, exit>>

WatchdogRename ==
  /\ wpc = "rename" /\ RenameTmp("watchdog") /\ Release("watchdog")
  /\ wpc' = "exiting"
  /\ UNCHANGED <<mainVars, breach, stop, chanVars, faults, exit>>

WatchdogWriteFails ==
  /\ wpc \in Writing /\ FileFault /\ Release("watchdog")
  /\ wpc' = "exiting"
  /\ UNCHANGED <<mainVars, breach, stop, fileVars, chanVars, exit>>

\* The finally clause of on_breach: os._exit(70), whatever main is doing.
HardExit ==
  /\ wpc = "exiting"
  /\ exit' = "rc70"
  /\ UNCHANGED <<mainVars, wpc, ctrlVars, fileVars, chanVars, faults>>

WatchdogEnds ==
  /\ wpc = "waiting" /\ stop
  /\ wpc' = "ended"
  /\ UNCHANGED <<mainVars, ctrlVars, fileVars, chanVars, faults, exit>>

-----------------------------------------------------------------------------
(* The world outside: mlx-guard and the operating system. *)

SupervisorAsks ==
  /\ session = "open" /\ req = "none"
  /\ req' = "pending"
  /\ UNCHANGED <<mainVars, wpc, ctrlVars, fileVars, session, faults, exit>>

\* A signal ends the process, at any point and without any cleanup.
Killed ==
  /\ exit' = "killed"
  /\ UNCHANGED <<mainVars, wpc, ctrlVars, fileVars, chanVars, faults>>

-----------------------------------------------------------------------------
Alive == exit = "running"

MainStep ==
  /\ Alive
  /\ \/ RefuseEnvironment \/ StartFails \/ InstallWatchdog \/ Connect
     \/ MeasureRep \/ MeasureRefused \/ MeasureDone \/ Crash
     \/ PollNothing \/ PollRequest
     \/ MainAcquire \/ MainYields \/ MainOpen \/ MainFill \/ MainRename
     \/ MainWriteFails \/ Fsync \/ FsyncFails \/ Close \/ Return

WatchdogStep ==
  /\ Alive
  /\ \/ WatchdogWakes \/ WatchdogSeesNothing \/ WatchdogSeesBreach
     \/ WatchdogAcquire \/ WatchdogGivesUp \/ WatchdogOpen \/ WatchdogFill
     \/ WatchdogRename \/ WatchdogWriteFails \/ HardExit \/ WatchdogEnds

WorldStep == Alive /\ (SupervisorAsks \/ Killed)

Ended == ~Alive /\ UNCHANGED vars

Next == MainStep \/ WatchdogStep \/ WorldStep \/ Ended

Spec == Init /\ [][Next]_vars

\* The watchdog is a daemon thread that mlx.eval does not starve (it releases
\* the GIL): it keeps running whatever the main thread is stuck in.
WatchdogFairSpec == Spec /\ WF_vars(WatchdogStep)

FairSpec == Spec /\ WF_vars(WatchdogStep) /\ WF_vars(MainStep)

-----------------------------------------------------------------------------
(* Properties.  Those marked (no stall) are promises for ~Stalls. *)

\* (no stall) Nothing the main thread does afterwards replaces a breach
\* record: an "ok" over it would count as a fresh measurement forever.
BreachRecordStands == [][artifact = "aborted" => artifact' = "aborted"]_artifact

\* (no stall) A process that hard-exits on a breach leaves the breach record,
\* unless a file operation failed.
BreachIsRecorded == exit = "rc70" /\ faults = 0 => artifact = "aborted"

\* (no stall) Once a breach is being recorded the process never ends by
\* returning: main waits for the watchdog, whose hard exit wins.
BreachEndsProcess == breach => exit \notin {"rc0", "rc1"}

\* The artifact is never a half-written record, whoever holds the lock.
WholeArtifact == artifact # "half"

\* A checkpoint acknowledged as completed is on disk: itself, or a later
\* record that replaced it.
AckedCheckpointOnDisk == req = "completed" => artifact # "absent"

\* (no stall) The process, seen from outside, keeps the worker's contract.
KeepsContract == Contract!CSpec

\* A breach ends the process even if the main thread never moves again, stuck
\* in an evaluation or in a write under the lock.
BreachLeadsToExit == breach ~> ~Alive

\* A worker whose threads keep running ends: no write blocks the next one.
WorkerEnds == <>~Alive

\* What a comment of worker.py:902-904 says of the finally clause: "A breach
\* never reaches here -- on_breach already hard-exited the process".
BreachNeverReachesStop == [][stop' /\ ~stop => ~breach]_vars

\* What artifacts.py:241-243 says of a breach write that timed out on the
\* lock: "both outcomes are non-ok and retried", so the record that replaces
\* the breach record is never an "ok".
OnlyTheReasonIsLost == [][artifact = "aborted" => artifact' # "ok"]_artifact
=============================================================================
