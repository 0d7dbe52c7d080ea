--------------------------- MODULE WorkerContract ---------------------------
(***************************************************************************)
(* What one benchmark worker process promises to whoever spawned it, seen  *)
(* from outside: the status of the artifact on disk and the way the        *)
(* process ends.  The runner of bench/runner.py reads nothing else of an   *)
(* unsupervised worker.  BenchWorker implements this specification;        *)
(* BenchRunner assumes it of every worker it spawns.                       *)
(***************************************************************************)
EXTENDS WorkerRecords

VARIABLES artifact,     \* status of the artifact at the condition's path
          exit          \* how the process ended, "running" until it has

cvars == <<artifact, exit>>

CInit == artifact = "absent" /\ exit = "running"

Land(s) ==
  /\ exit = "running"
  /\ artifact \in Replaceable(s)
  /\ artifact' = s
  /\ UNCHANGED exit

Stop(code) ==
  /\ exit = "running"
  /\ artifact \in LeftBy(code)
  /\ exit' = code
  /\ UNCHANGED artifact

CNext == \/ \E s \in Status : Land(s)
         \/ \E code \in ExitCode : Stop(code)

CSpec == CInit /\ [][CNext]_cvars
=============================================================================
