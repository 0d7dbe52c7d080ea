---------------------------- MODULE WorkerRecords ----------------------------
(***************************************************************************)
(* The vocabulary of a worker's artifact: the statuses a worker records,   *)
(* what each may replace, and what each way of ending leaves behind.       *)
(***************************************************************************)

\* aborted_memory_ceiling and aborted_wall_budget are one status here: nothing
\* that reads an artifact tells them apart.
Status == {"refused_environment", "checkpointed_partial", "refused", "ok",
           "aborted"}

Artifact == {"absent"} \cup Status

ExitCode == {"rc0", "rc1", "rc70", "killed"}

\* The artifacts a record of status s may replace.  A refusal to start is the
\* only record of its worker, a breach record is final, and a final result or
\* a checkpoint only ever replaces a checkpoint.
Replaceable(s) ==
  CASE s = "refused_environment"                       -> {"absent"}
    [] s \in {"checkpointed_partial", "refused", "ok"} -> {"absent", "checkpointed_partial"}
    [] s = "aborted" -> {"absent", "checkpointed_partial", "refused", "ok"}

\* The artifacts a process may leave behind when it ends with the given code.
LeftBy(code) ==
  CASE code = "rc0"    -> {"refused_environment", "refused", "ok"}
    [] code = "rc1"    -> {"absent", "checkpointed_partial"}
    [] code = "rc70"   -> Artifact \ {"refused_environment"}
    [] code = "killed" -> Artifact
=============================================================================
