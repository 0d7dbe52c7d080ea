-------------------------- MODULE BenchWorkerProofs --------------------------
(***************************************************************************)
(* What TLAPS proves of BenchWorker, for any number of repetitions and of  *)
(* failing file operations: the type invariant and the integrity of the    *)
(* artifact whether or not threads stall, and, when they do not, the order *)
(* of the two writers and the contract of WorkerContract.                  *)
(***************************************************************************)
EXTENDS BenchWorker, TLAPS

-----------------------------------------------------------------------------
(* The invariant behind the integrity of the artifact: a thread about to   *)
(* rename has a whole record in its own temporary file.                    *)

MainJob ==
  /\ mpc \in {"acquire", "fsync"} \cup Writing => job \in Status \ {"aborted"}
  /\ mpc = "fsync" => job = "checkpointed_partial"

WholeTmp ==
  /\ mpc = "rename" => tmp["main"] = job
  /\ wpc = "rename" => tmp["watchdog"] = "aborted"

SyncedArtifact == mpc = "fsync" => artifact # "absent"

FileInv == /\ TypeOK
           /\ MainJob
           /\ WholeTmp
           /\ SyncedArtifact
           /\ WholeArtifact
           /\ AckedCheckpointOnDisk

-----------------------------------------------------------------------------
(* The invariant behind the order of the two writers, when no thread       *)
(* stalls: the lock is held by whoever writes, a breach means the watchdog *)
(* thread is on its way to the hard exit, and past its write nobody else   *)
(* will write.                                                             *)

MainHolds == mpc \in Writing <=> lock = "main"

WatchdogHolds == wpc \in Writing <=> lock = "watchdog"

BreachUnderway == breach <=> wpc \in {"acquire", "exiting"} \cup Writing

AbortedLast ==
  /\ wpc = "exiting" => lock = "none"
  /\ artifact = "aborted" => wpc = "exiting"
  /\ wpc = "exiting" /\ faults = 0 => artifact = "aborted"

\* A worker that refused to start, or has not started, runs no watchdog.
RefusalAlone ==
  /\ mpc \in {"starting", "returning"} => wpc = "off"
  /\ job = "refused_environment" => wpc = "off"
  /\ job = "refused_environment" => mpc \in {"acquire", "returning"} \cup Writing

ExitCause ==
  /\ exit \in {"rc0", "rc1"} => ~breach
  /\ exit = "rc70" => wpc = "exiting"

(* What the main thread has left on disk, by how far it has come. *)
Progress ==
  /\ mpc = "starting" => artifact = "absent"
  /\ mpc \notin {"closing", "joining", "returning"} => rc = "rc0"
  /\ mpc \in {"connect", "measuring", "poll", "acquire", "fsync"} \cup Writing
       => artifact \in {"absent", "checkpointed_partial", "aborted"}
  /\ mpc \in {"closing", "joining"} /\ rc = "rc1"
       => artifact \in {"absent", "checkpointed_partial", "aborted"}
  /\ mpc \in {"closing", "joining"} /\ rc = "rc0" /\ ~breach
       => artifact \in {"ok", "refused"}
  /\ mpc \in {"acquire"} \cup Writing /\ job = "refused_environment"
       => artifact = "absent"
  /\ mpc = "returning" /\ rc = "rc0" => artifact = "refused_environment"
  /\ mpc = "returning" /\ rc = "rc1" => artifact = "absent"
  /\ artifact = "refused_environment" => wpc = "off"

OrderInv == /\ MainHolds
            /\ WatchdogHolds
            /\ BreachUnderway
            /\ AbortedLast
            /\ RefusalAlone
            /\ ExitCause
            /\ Progress
-----------------------------------------------------------------------------
(* Types and the integrity of the artifact, with or without stalls. *)

USE ConstantsAssumption DEF ConstantsAssumption

LEMMA FileInit == Init => FileInv
  <1> SUFFICES ASSUME Init PROVE FileInv
      OBVIOUS
  <1> USE DEF Init, TypeOK, Thread, Content, Writing, Status, Contract!Status,
              Contract!ExitCode
  <1>1. breach \in BOOLEAN /\ stop \in BOOLEAN
      BY Zenon
  <1>2. faults \in 0..MaxFaults /\ reps \in 0..Reps
      BY SMT
  <1>3. tmp \in [Thread -> Content]
      BY SMT
  <1>4. TypeOK
      BY <1>1, <1>2, <1>3
  <1>. QED
      BY <1>4 DEF FileInv, MainJob, WholeTmp, SyncedArtifact, WholeArtifact,
         AckedCheckpointOnDisk

LEMMA FileNext == FileInv /\ [Next]_vars => FileInv'
  <1> SUFFICES ASSUME FileInv, [Next]_vars PROVE FileInv'
      OBVIOUS
  <1> USE DEF FileInv, TypeOK, MainJob, WholeTmp, SyncedArtifact,
              WholeArtifact, AckedCheckpointOnDisk, Thread, Content, Writing,
              Status, Contract!Status, Contract!ExitCode
  <1>1. CASE RefuseEnvironment
      BY <1>1 DEF RefuseEnvironment, ctrlVars, fileVars, chanVars
  <1>2. CASE StartFails
      BY <1>2 DEF StartFails, mainVars, ctrlVars, fileVars, chanVars
  <1>3. CASE InstallWatchdog
      BY <1>3 DEF InstallWatchdog, ctrlVars, fileVars, chanVars
  <1>4. CASE Connect
      BY <1>4 DEF Connect, ctrlVars, fileVars
  <1>5. CASE MeasureRep
      BY <1>5 DEF MeasureRep, ctrlVars, fileVars, chanVars
  <1>6. CASE MeasureRefused
      BY <1>6 DEF MeasureRefused, ctrlVars, fileVars, chanVars
  <1>7. CASE MeasureDone
      BY <1>7 DEF MeasureDone, ctrlVars, fileVars, chanVars
  <1>8. CASE Crash
      BY <1>8 DEF Crash, ctrlVars, fileVars, chanVars
  <1>9. CASE PollNothing
      BY <1>9 DEF PollNothing, ctrlVars, fileVars
  <1>10. CASE PollRequest
      BY <1>10 DEF PollRequest, ctrlVars, fileVars, chanVars
  <1>11. CASE MainAcquire
      BY <1>11 DEF MainAcquire, MayWrite, fileVars, chanVars
  <1>12. CASE MainYields
      BY <1>12 DEF MainYields, MayWrite, ctrlVars, fileVars
  <1>13. CASE MainOpen
      BY <1>13 DEF MainOpen, OpenTmp, TmpName, ctrlVars, chanVars
  <1>14. CASE MainFill
      BY <1>14 DEF MainFill, FillTmp, TmpName, ctrlVars, chanVars
  <1>15. CASE MainRename
      BY <1>15 DEF MainRename, RenameTmp, TmpName, Release, chanVars
  <1>16. CASE MainWriteFails
      BY <1>16 DEF MainWriteFails, FileFault, Release, fileVars, chanVars
  <1>17. CASE Fsync
      BY <1>17 DEF Fsync, ctrlVars, fileVars
  <1>18. CASE FsyncFails
      BY <1>18 DEF FsyncFails, FileFault, ctrlVars, fileVars
  <1>19. CASE Close
      BY <1>19 DEF Close, fileVars
  <1>20. CASE Return
      BY <1>20 DEF Return, JoinReturns, mainVars, ctrlVars, fileVars,
         chanVars
  <1>21. CASE WatchdogWakes
      BY <1>21 DEF WatchdogWakes, mainVars, ctrlVars, fileVars, chanVars
  <1>22. CASE WatchdogSeesNothing
      BY <1>22 DEF WatchdogSeesNothing, mainVars, ctrlVars, fileVars,
         chanVars
  <1>23. CASE WatchdogSeesBreach
      BY <1>23 DEF WatchdogSeesBreach, mainVars, fileVars, chanVars
  <1>24. CASE WatchdogAcquire
      BY <1>24 DEF WatchdogAcquire, mainVars, fileVars, chanVars
  <1>25. CASE WatchdogGivesUp
      BY <1>25 DEF WatchdogGivesUp, mainVars, ctrlVars, fileVars, chanVars
  <1>26. CASE WatchdogOpen
      BY <1>26 DEF WatchdogOpen, OpenTmp, TmpName, mainVars, ctrlVars,
         chanVars
  <1>27. CASE WatchdogFill
      BY <1>27 DEF WatchdogFill, FillTmp, TmpName, mainVars, ctrlVars,
         chanVars
  <1>28. CASE WatchdogRename
      BY <1>28 DEF WatchdogRename, RenameTmp, TmpName, Release, mainVars,
         chanVars
  <1>29. CASE WatchdogWriteFails
      BY <1>29 DEF WatchdogWriteFails, FileFault, Release, mainVars,
         fileVars, chanVars
  <1>30. CASE HardExit
      BY <1>30 DEF HardExit, mainVars, ctrlVars, fileVars, chanVars
  <1>31. CASE WatchdogEnds
      BY <1>31 DEF WatchdogEnds, mainVars, ctrlVars, fileVars, chanVars
  <1>32. CASE SupervisorAsks
      BY <1>32 DEF SupervisorAsks, mainVars, ctrlVars, fileVars
  <1>33. CASE Killed
      BY <1>33 DEF Killed, mainVars, ctrlVars, fileVars, chanVars
  <1>34. CASE UNCHANGED vars
      BY <1>34 DEF vars, mainVars, ctrlVars, fileVars, chanVars
  <1>. QED
      BY <1>1, <1>2, <1>3, <1>4, <1>5, <1>6, <1>7, <1>8, <1>9, <1>10, <1>11,
         <1>12, <1>13, <1>14, <1>15, <1>16, <1>17, <1>18, <1>19, <1>20,
         <1>21, <1>22, <1>23, <1>24, <1>25, <1>26, <1>27, <1>28, <1>29,
         <1>30, <1>31, <1>32, <1>33, <1>34 DEF Next, MainStep, WatchdogStep,
         WorldStep, Ended

LEMMA FileAlways == Spec => []FileInv
  BY FileInit, FileNext, PTL DEF Spec

\* Every variable stays in its range.
THEOREM TypeCorrect == Spec => []TypeOK
  <1>1. FileInv => TypeOK
      BY DEF FileInv
  <1>. QED
      BY FileAlways, <1>1, PTL

\* The artifact is never half-written, even when the watchdog writes without
\* the lock while the main thread holds it (artifacts.py, _write_atomically).
THEOREM ArtifactIsWhole == Spec => []WholeArtifact
  <1>1. FileInv => WholeArtifact
      BY DEF FileInv
  <1>. QED
      BY FileAlways, <1>1, PTL

\* The supervisor is never told "completed" of a checkpoint that is not on
\* disk (checkpoint.py, _checkpoint).
THEOREM AckedIsOnDisk == Spec => []AckedCheckpointOnDisk
  <1>1. FileInv => AckedCheckpointOnDisk
      BY DEF FileInv
  <1>. QED
      BY FileAlways, <1>1, PTL

-----------------------------------------------------------------------------
(* Order of the two writers, when no thread stalls. *)

LEMMA OrderInit == Init => OrderInv
  BY DEF Init, OrderInv, MainHolds, WatchdogHolds, BreachUnderway, AbortedLast,
         RefusalAlone, ExitCause, Progress, Writing

LEMMA OrderNext == ~Stalls /\ FileInv /\ OrderInv /\ [Next]_vars => OrderInv'
  <1> SUFFICES ASSUME ~Stalls, FileInv, OrderInv, [Next]_vars PROVE OrderInv'
      OBVIOUS
  <1> USE DEF FileInv, TypeOK, MainJob, WholeTmp, OrderInv, MainHolds,
              WatchdogHolds, BreachUnderway, AbortedLast, RefusalAlone,
              ExitCause, Progress, Thread, Content, Writing, Status,
              Contract!Status, Contract!ExitCode
  <1>1. CASE RefuseEnvironment
      BY <1>1 DEF RefuseEnvironment, ctrlVars, fileVars, chanVars
  <1>2. CASE StartFails
      BY <1>2 DEF StartFails, mainVars, ctrlVars, fileVars, chanVars
  <1>3. CASE InstallWatchdog
      BY <1>3 DEF InstallWatchdog, ctrlVars, fileVars, chanVars
  <1>4. CASE Connect
      BY <1>4 DEF Connect, ctrlVars, fileVars
  <1>5. CASE MeasureRep
      BY <1>5 DEF MeasureRep, ctrlVars, fileVars, chanVars
  <1>6. CASE MeasureRefused
      BY <1>6 DEF MeasureRefused, ctrlVars, fileVars, chanVars
  <1>7. CASE MeasureDone
      BY <1>7 DEF MeasureDone, ctrlVars, fileVars, chanVars
  <1>8. CASE Crash
      BY <1>8 DEF Crash, ctrlVars, fileVars, chanVars
  <1>9. CASE PollNothing
      BY <1>9 DEF PollNothing, ctrlVars, fileVars
  <1>10. CASE PollRequest
      BY <1>10 DEF PollRequest, ctrlVars, fileVars, chanVars
  <1>11. CASE MainAcquire
      BY <1>11 DEF MainAcquire, MayWrite, fileVars, chanVars
  <1>12. CASE MainYields
      BY <1>12 DEF MainYields, MayWrite, ctrlVars, fileVars
  <1>13. CASE MainOpen
      BY <1>13 DEF MainOpen, OpenTmp, TmpName, ctrlVars, chanVars
  <1>14. CASE MainFill
      BY <1>14 DEF MainFill, FillTmp, TmpName, ctrlVars, chanVars
  <1>15. CASE MainRename
      BY <1>15 DEF MainRename, RenameTmp, TmpName, Release, chanVars
  <1>16. CASE MainWriteFails
      BY <1>16 DEF MainWriteFails, FileFault, Release, fileVars, chanVars
  <1>17. CASE Fsync
      BY <1>17 DEF Fsync, ctrlVars, fileVars
  <1>18. CASE FsyncFails
      BY <1>18 DEF FsyncFails, FileFault, ctrlVars, fileVars
  <1>19. CASE Close
      BY <1>19 DEF Close, fileVars
  <1>20. CASE Return
      BY <1>20 DEF Return, JoinReturns, mainVars, ctrlVars, fileVars,
         chanVars
  <1>21. CASE WatchdogWakes
      BY <1>21 DEF WatchdogWakes, mainVars, ctrlVars, fileVars, chanVars
  <1>22. CASE WatchdogSeesNothing
      BY <1>22 DEF WatchdogSeesNothing, mainVars, ctrlVars, fileVars,
         chanVars
  <1>23. CASE Alive /\ WatchdogSeesBreach
      BY <1>23 DEF Alive, WatchdogSeesBreach, mainVars, fileVars, chanVars
  <1>24. CASE WatchdogAcquire
      BY <1>24 DEF WatchdogAcquire, mainVars, fileVars, chanVars
  <1>25. CASE WatchdogGivesUp
      BY <1>25 DEF WatchdogGivesUp, mainVars, ctrlVars, fileVars, chanVars
  <1>26. CASE WatchdogOpen
      BY <1>26 DEF WatchdogOpen, OpenTmp, TmpName, mainVars, ctrlVars,
         chanVars
  <1>27. CASE WatchdogFill
      BY <1>27 DEF WatchdogFill, FillTmp, TmpName, mainVars, ctrlVars,
         chanVars
  <1>28. CASE WatchdogRename
      BY <1>28 DEF WatchdogRename, RenameTmp, TmpName, Release, mainVars,
         chanVars
  <1>29. CASE WatchdogWriteFails
      BY <1>29 DEF WatchdogWriteFails, FileFault, Release, mainVars,
         fileVars, chanVars
  <1>30. CASE HardExit
      BY <1>30 DEF HardExit, mainVars, ctrlVars, fileVars, chanVars
  <1>31. CASE WatchdogEnds
      BY <1>31 DEF WatchdogEnds, mainVars, ctrlVars, fileVars, chanVars
  <1>32. CASE SupervisorAsks
      BY <1>32 DEF SupervisorAsks, mainVars, ctrlVars, fileVars
  <1>33. CASE Killed
      BY <1>33 DEF Killed, mainVars, ctrlVars, fileVars, chanVars
  <1>34. CASE UNCHANGED vars
      BY <1>34 DEF vars, mainVars, ctrlVars, fileVars, chanVars
  <1>. QED
      BY <1>1, <1>2, <1>3, <1>4, <1>5, <1>6, <1>7, <1>8, <1>9, <1>10, <1>11,
         <1>12, <1>13, <1>14, <1>15, <1>16, <1>17, <1>18, <1>19, <1>20,
         <1>21, <1>22, <1>23, <1>24, <1>25, <1>26, <1>27, <1>28, <1>29,
         <1>30, <1>31, <1>32, <1>33, <1>34 DEF Next, MainStep, WatchdogStep,
         WorldStep, Ended

LEMMA OrderAlways == ~Stalls /\ Spec => [](FileInv /\ OrderInv)
  <1>1. ~Stalls => (FileInv /\ OrderInv /\ [Next]_vars => (FileInv /\ OrderInv)')
      BY OrderNext, FileNext
  <1>2. CASE Stalls
      BY <1>2
  <1>3. CASE ~Stalls
    <2>1. FileInv /\ OrderInv /\ [Next]_vars => (FileInv /\ OrderInv)'
        BY <1>1, <1>3
    <2>. QED
        BY <2>1, OrderInit, FileInit, PTL DEF Spec
  <1>. QED
      BY <1>2, <1>3

\* The breach record a hard exit leaves, unless a file operation failed
\* (artifacts.py, make_watchdog_on_breach).
THEOREM BreachRecorded == ~Stalls /\ Spec => []BreachIsRecorded
  <1>1. FileInv /\ OrderInv => BreachIsRecorded
      BY DEF OrderInv, ExitCause, AbortedLast, BreachIsRecorded
  <1>. QED
      BY OrderAlways, <1>1, PTL

\* A process that is recording a breach never ends by returning
\* (worker.py, the finally clause of main).
THEOREM BreachExits == ~Stalls /\ Spec => []BreachEndsProcess
  <1>1. FileInv /\ OrderInv => BreachEndsProcess
      BY DEF OrderInv, ExitCause, BreachEndsProcess
  <1>. QED
      BY OrderAlways, <1>1, PTL
-----------------------------------------------------------------------------
(* What a step does to the artifact and to the process, when no thread     *)
(* stalls.                                                                 *)

\* Only the two renames touch the artifact ...
LEMMA OnlyRenamesLand ==
  [Next]_vars /\ artifact' # artifact => Alive /\ (MainRename \/ WatchdogRename)
  <1> USE DEF fileVars
  <1>1. ASSUME MainStep, artifact' # artifact PROVE Alive /\ MainRename
      BY <1>1 DEF MainStep, RefuseEnvironment, StartFails, InstallWatchdog,
         Connect, MeasureRep, MeasureRefused, MeasureDone, Crash, PollNothing,
         PollRequest, MainAcquire, MainYields, MainOpen, MainFill, OpenTmp,
         FillTmp, MainWriteFails, Fsync, FsyncFails, Close, Return
  <1>2. ASSUME WatchdogStep, artifact' # artifact PROVE Alive /\ WatchdogRename
      BY <1>2 DEF WatchdogStep, WatchdogWakes, WatchdogSeesNothing,
         WatchdogSeesBreach, WatchdogAcquire, WatchdogGivesUp, WatchdogOpen,
         WatchdogFill, OpenTmp, FillTmp, WatchdogWriteFails, HardExit,
         WatchdogEnds
  <1>. QED
      BY <1>1, <1>2 DEF Next, WorldStep, SupervisorAsks, Killed, Ended, vars

\* ... and only four actions end the process.
LEMMA OnlyExitsEnd ==
  [Next]_vars /\ exit' # exit
    => Alive /\ (StartFails \/ Return \/ HardExit \/ Killed)
  <1>1. ASSUME MainStep, exit' # exit PROVE Alive /\ (StartFails \/ Return)
      BY <1>1 DEF MainStep, RefuseEnvironment, InstallWatchdog, Connect,
         MeasureRep, MeasureRefused, MeasureDone, Crash, PollNothing,
         PollRequest, MainAcquire, MainYields, MainOpen, MainFill, MainRename,
         MainWriteFails, Fsync, FsyncFails, Close
  <1>2. ASSUME WatchdogStep, exit' # exit PROVE Alive /\ HardExit
      BY <1>2 DEF WatchdogStep, WatchdogWakes, WatchdogSeesNothing,
         WatchdogSeesBreach, WatchdogAcquire, WatchdogGivesUp, WatchdogOpen,
         WatchdogFill, WatchdogRename, WatchdogWriteFails, WatchdogEnds
  <1>. QED
      BY <1>1, <1>2 DEF Next, WorldStep, SupervisorAsks, Ended, vars

\* The main thread lands its record only over nothing or over a checkpoint.
LEMMA MainLands ==
  ASSUME FileInv, OrderInv, Alive, MainRename
  PROVE  /\ job \in Status \ {"aborted"}
         /\ artifact' = job
         /\ artifact \in Contract!Replaceable(job)
         /\ UNCHANGED exit
  <1>1. job \in Status \ {"aborted"} /\ artifact' = job /\ UNCHANGED exit
      BY DEF MainRename, RenameTmp, TmpName, FileInv, MainJob, WholeTmp, Writing
  <1>2. artifact \in {"absent", "checkpointed_partial"}
      BY DEF MainRename, OrderInv, Progress, MainHolds, WatchdogHolds,
         AbortedLast, Writing
  <1>3. job = "refused_environment" => artifact = "absent"
      BY DEF MainRename, OrderInv, Progress, Writing
  <1>. QED
      BY <1>1, <1>2, <1>3
      DEF Contract!Replaceable, Status, Contract!Status

\* The watchdog lands its record over anything but a refusal to start.
LEMMA WatchdogLands ==
  ASSUME FileInv, OrderInv, Alive, WatchdogRename
  PROVE  /\ artifact' = "aborted"
         /\ artifact \in Contract!Replaceable("aborted")
         /\ UNCHANGED exit
  <1>1. artifact' = "aborted" /\ UNCHANGED exit
      BY DEF WatchdogRename, RenameTmp, TmpName, FileInv, WholeTmp
  <1>2. artifact \in {"absent", "checkpointed_partial", "refused", "ok"}
      BY DEF WatchdogRename, OrderInv, Progress, AbortedLast, FileInv, TypeOK,
         WholeArtifact, Content, Status, Contract!Status
  <1>. QED
      BY <1>1, <1>2 DEF Contract!Replaceable

\* A breach record is never replaced: no "ok" lands over it and counts as a
\* fresh measurement (artifacts.py, write_result_unless_breached).
THEOREM BreachStands == ~Stalls /\ Spec => BreachRecordStands
  <1>1. FileInv /\ OrderInv /\ [Next]_vars
          => [artifact = "aborted" => artifact' = "aborted"]_artifact
      BY OnlyRenamesLand, MainLands, WatchdogLands
      DEF Contract!Replaceable, Status, Contract!Status
  <1>. QED
      BY OrderAlways, <1>1, PTL DEF Spec, BreachRecordStands

\* Seen from outside the worker keeps the contract its runner relies on.
THEOREM ContractKept == ~Stalls /\ Spec => KeepsContract
  <1>1. Init => Contract!CInit
      BY DEF Init, Contract!CInit
  <1>2. ASSUME ~Stalls, FileInv, OrderInv, [Next]_vars
        PROVE  [Contract!CNext]_(Contract!cvars)
    <2>1. CASE artifact' # artifact
        BY <1>2, <2>1, OnlyRenamesLand, MainLands, WatchdogLands
        DEF Contract!CNext, Contract!Land, Alive, Status, Contract!Status
    <2>2. CASE artifact' = artifact /\ exit' # exit
      <3>1. Alive /\ exit' \in Contract!ExitCode
              /\ artifact \in Contract!LeftBy(exit')
        <4>1. CASE StartFails
            BY <1>2, <4>1, OnlyExitsEnd, <2>2 DEF StartFails, OrderInv, Progress,
               Contract!ExitCode, Contract!LeftBy
        <4>2. CASE Return
          <5>1. ~breach /\ rc \in {"rc0", "rc1"} /\ exit' = rc
              BY <1>2, <4>2 DEF Return, JoinReturns, FileInv, TypeOK, OrderInv,
                 BreachUnderway, RefusalAlone, Writing
          <5>2. artifact # "aborted"
              BY <1>2, <5>1 DEF OrderInv, BreachUnderway, AbortedLast
          <5>3. artifact \in IF rc = "rc0"
                             THEN {"refused_environment", "refused", "ok"}
                             ELSE {"absent", "checkpointed_partial"}
              BY <1>2, <4>2, <5>1, <5>2 DEF Return, OrderInv, Progress
          <5>. QED
              BY <1>2, <2>2, <5>1, <5>3, OnlyExitsEnd
              DEF Contract!ExitCode, Contract!LeftBy
        <4>3. CASE HardExit
            BY <1>2, <2>2, <4>3, OnlyExitsEnd
            DEF HardExit, FileInv, TypeOK, WholeArtifact, OrderInv, Progress,
                Content, Status, Contract!Artifact, Contract!ExitCode,
                Contract!LeftBy
        <4>4. CASE Killed
            BY <1>2, <2>2, <4>4, OnlyExitsEnd
            DEF Killed, FileInv, TypeOK, WholeArtifact, Content, Status,
                Contract!Artifact, Contract!ExitCode, Contract!LeftBy
        <4>. QED
            BY <1>2, <2>2, <4>1, <4>2, <4>3, <4>4, OnlyExitsEnd
      <3>. QED
          BY <2>2, <3>1 DEF Contract!CNext, Contract!Stop, Alive
    <2>3. CASE artifact' = artifact /\ exit' = exit
        BY <2>3 DEF Contract!cvars
    <2>. QED
        BY <2>1, <2>2, <2>3
  <1>3. CASE ~Stalls
    <2>1. FileInv /\ OrderInv /\ [Next]_vars => [Contract!CNext]_(Contract!cvars)
        BY <1>2, <1>3
    <2>. QED
        BY OrderAlways, <1>1, <1>3, <2>1, PTL
        DEF Spec, KeepsContract, Contract!CSpec
  <1>4. CASE Stalls
      BY <1>4
  <1>. QED
      BY <1>3, <1>4
=============================================================================
