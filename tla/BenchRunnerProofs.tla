-------------------------- MODULE BenchRunnerProofs --------------------------
(***************************************************************************)
(* What TLAPS proves of BenchRunner, for any number of conditions, starts  *)
(* and edits, guarded or not: the type invariant with the bound on process *)
(* ids, that a finished sweep has accounted for every condition, that no   *)
(* start relaunches a worker, and, when no worker outlives the process     *)
(* that waits for it, that the record found after a launch is that         *)
(* worker's, that the envelope replaces nothing, and that fresh results    *)
(* are kept.                                                               *)
(***************************************************************************)
EXTENDS BenchRunner, FiniteSetTheorems, TLAPS

USE RunnerAssumption DEF RunnerAssumption

-----------------------------------------------------------------------------
(* The invariant behind the types: the runner works on a condition except  *)
(* between two, a dead sweep may be started again, and each start launches *)
(* at most one worker per condition.                                       *)

AtCondition == rpc \in {"unlink", "spawn", "wait", "judge", "record"} => cur \in Cond

MayResume == rpc = "dead" => invocation < MaxInvocations

\* The launches this start may have made so far.
Launched == IF rpc \in {"check", "unlink", "spawn"} THEN cur - 1
            ELSE IF rpc \in {"wait", "judge", "record"} THEN cur ELSE N

\* Pids of earlier starts are at most Before(invocation).
Before(k) == N * (k - 1)

WithinBudget == spawned <= Before(invocation) + Launched

TypeInv == TypeOK /\ AtCondition /\ MayResume /\ WithinBudget

\* N launches of one start exhaust its share, and all shares make MaxPid.
LEMMA Budget ==
  ASSUME NEW k \in 1..MaxInvocations
  PROVE  /\ Before(k) \in Nat
         /\ Before(k + 1) = Before(k) + N
         /\ Before(k) + N <= MaxPid
         /\ MaxPid \in Nat
  <1> DEFINE m == MaxInvocations
  <1>1. k \in Nat /\ k - 1 \in Nat /\ m - k \in Nat /\ (k + 1) - 1 = k /\ m \in Nat
      OBVIOUS
  <1>2. \A a, b \in Nat : a * b \in Nat
      OBVIOUS
  <1>3. \A a, b \in Int : a * (b - 1) + a = a * b
      OBVIOUS
  <1>4. \A a, b, c \in Int : a * b + a * (c - b) = a * c
      OBVIOUS
  <1>5. N * (k - 1) \in Nat /\ N * k \in Nat /\ N * m \in Nat /\ N * (m - k) \in Nat
      BY <1>1, <1>2
  <1>6. N * (k - 1) + N = N * k
      BY <1>1, <1>3
  <1>7. N * k + N * (m - k) = N * m
      BY <1>1, <1>4
  <1>8. N * k <= N * m
      BY <1>5, <1>7
  <1>. QED
      BY <1>1, <1>5, <1>6, <1>8 DEF Before, MaxPid

LEMMA TypeInit == Init => TypeInv
  <1> SUFFICES ASSUME Init PROVE TypeInv
      OBVIOUS
  <1>1. MaxPid \in Nat /\ Before(1) \in Nat
      BY Budget
  <1>2. disk \in [Cond -> [status : Artifact \cup RunnerStatus, by : 0..MaxPid,
                           names : 0..Foreign, ran : 0..Foreign]]
    <2> DEFINE R == [status : Artifact \cup RunnerStatus, by : 0..MaxPid,
                     names : 0..Foreign, ran : 0..Foreign]
    <2>1. 0 \in 0..MaxPid /\ 0 \in 0..Foreign /\ Foreign \in 0..Foreign
        BY <1>1 DEF Foreign
    <2>2. {"ok", "absent", "error"} \subseteq Artifact \cup RunnerStatus
        BY DEF Artifact, Status, RunnerStatus
    <2>3. {Absent, Record("ok", 0, 0, 0), Record("ok", 0, Foreign, Foreign),
           Record("error", 0, 0, 0)} \subseteq R
        BY <2>1, <2>2 DEF Record, Absent
    <2>. QED
        BY <2>3 DEF Init
  <1>3. DOMAIN workers = {}
      BY DEF Init
  <1>4. TypeOK
      BY <1>1, <1>2, <1>3 DEF Init, TypeOK, Versions
  <1>. QED
      BY <1>1, <1>4 DEF Init, TypeInv, AtCondition, MayResume, WithinBudget, Launched

\* What one record of a worker, and one artifact, may be.
WorkerRecord == [cond : Cond, of : 1..MaxInvocations, last : Artifact,
                 names : Versions \cup {Unnamed}, ran : Versions]

DiskRecord == [status : Artifact \cup RunnerStatus, by : 0..MaxPid,
               names : 0..Foreign, ran : 0..Foreign]

\* A launch under an unspent budget keeps the types of the workers.
LEMMA LaunchTyped ==
  ASSUME TypeInv, rpc = "spawn", Launch
  PROVE  /\ spawned' \in 0..MaxPid /\ child' \in 0..MaxPid
         /\ spawned' = spawned + 1
         /\ DOMAIN workers' \subseteq 1..spawned'
         /\ \A p \in DOMAIN workers' : workers'[p] \in WorkerRecord
  <1>1. Before(invocation) + N <= MaxPid /\ Before(invocation) \in Nat /\ MaxPid \in Nat
      BY Budget DEF TypeInv, TypeOK
  <1>2. cur \in 1..N /\ spawned <= Before(invocation) + (cur - 1) /\ spawned \in Nat
      BY <1>1 DEF TypeInv, TypeOK, AtCondition, WithinBudget, Launched, Cond
  <1>3. spawned + 1 \in 0..MaxPid /\ spawned' = spawned + 1 /\ child' = spawned + 1
      BY <1>1, <1>2 DEF Launch
  <1>4. /\ DOMAIN workers' = DOMAIN workers \cup {spawned + 1}
        /\ \A p \in DOMAIN workers' : workers'[p] = IF p = spawned + 1
             THEN [cond |-> cur, of |-> invocation, last |-> "absent", names |-> Unnamed,
                   ran |-> code]
             ELSE workers[p]
      BY DEF Launch
  <1>5. [cond |-> cur, of |-> invocation, last |-> "absent", names |-> Unnamed, ran |-> code]
          \in WorkerRecord
      BY <1>2 DEF TypeInv, TypeOK, WorkerRecord, Cond, Artifact
  <1>6. DOMAIN workers \subseteq 1..spawned /\ \A p \in DOMAIN workers : workers[p] \in WorkerRecord
      BY DEF TypeInv, TypeOK, WorkerRecord
  <1>. QED
      BY <1>2, <1>3, <1>4, <1>5, <1>6

LEMMA TypeStep == TypeInv /\ [Next]_vars => TypeInv'
  <1> SUFFICES ASSUME TypeInv, [Next]_vars PROVE TypeInv'
      OBVIOUS
  <1>. USE DEF TypeInv
  <1> DEFINE Kept == /\ UNCHANGED <<code, runnerVars, spawned, invocation>>
                     /\ disk' \in [Cond -> DiskRecord]
                     /\ DOMAIN workers' \subseteq DOMAIN workers
                     /\ \A q \in DOMAIN workers' : workers'[q] \in WorkerRecord
  <1>a. /\ \A k \in 1..MaxInvocations : Before(k) \in Nat /\ Before(k + 1) = Before(k) + N
        /\ MaxPid \in Nat
      BY Budget
  <1>b. /\ disk \in [Cond -> DiskRecord]
        /\ \A p \in DOMAIN workers : workers[p] \in WorkerRecord
      BY DEF TypeOK, DiskRecord, WorkerRecord
  <1>c. SUFFICES /\ code' \in Versions /\ disk' \in [Cond -> DiskRecord]
                 /\ rpc' \in {"check", "unlink", "spawn", "wait", "judge", "record", "done", "dead"}
                 /\ cur' \in 1..(N + 1) /\ ident' \in Versions
                 /\ child' \in 0..MaxPid /\ spawned' \in 0..MaxPid
                 /\ report' \in {"none", "child", "intervention", "failure", "client_failed"}
                 /\ DOMAIN workers' \subseteq 1..spawned'
                 /\ \A p \in DOMAIN workers' : workers'[p] \in WorkerRecord
                 /\ invocation' \in 1..MaxInvocations
                 /\ AtCondition' /\ MayResume' /\ WithinBudget'
      BY DEF TypeOK, DiskRecord, WorkerRecord, Versions, Cond, Foreign, Unnamed, MaxPid
  <1>1. CASE SkipFresh
    <2>1. spawned <= Before(invocation) + (cur - 1) /\ cur \in 1..N
        BY <1>1 DEF SkipFresh, WithinBudget, Launched, Cond
    <2>2. WithinBudget'
        BY <1>1, <2>1, <1>a DEF SkipFresh, NextCondition, TypeOK, WithinBudget, Launched
    <2>. QED
        BY <1>1, <2>1, <2>2, <1>a, <1>b DEF SkipFresh, NextCondition, TypeOK, AtCondition,
              MayResume
  <1>2. CASE FindStale
      BY <1>2, <1>a, <1>b DEF FindStale, TypeOK, AtCondition, MayResume, WithinBudget,
            Launched, Cond
  <1>3. CASE UnlinkStale
    <2>1. Absent \in DiskRecord
        BY <1>a DEF Absent, Record, DiskRecord, Artifact, Foreign
    <2>. QED
        BY <1>3, <1>a, <1>b, <2>1 DEF UnlinkStale, TypeOK, AtCondition, MayResume,
              WithinBudget, Launched
  <1>4. CASE Spawn
    <2>1. /\ spawned <= Before(invocation) + (cur - 1) /\ cur \in 1..N
          /\ spawned' = spawned + 1
        BY <1>4, LaunchTyped DEF Spawn, WithinBudget, Launched, AtCondition, Cond
    <2>2. WithinBudget'
        BY <1>4, <2>1, <1>a DEF Spawn, TypeOK, WithinBudget, Launched
    <2>. QED
        BY <1>4, <2>2, <1>a, <1>b, LaunchTyped DEF Spawn, TypeOK, AtCondition, MayResume
  <1>5. CASE GuardStartFails
    <2>1. CASE child' = 0 /\ UNCHANGED <<workers, spawned>>
        BY <1>5, <2>1, <1>a, <1>b DEF GuardStartFails, TypeOK, AtCondition, MayResume,
              WithinBudget, Launched, Cond
    <2>2. CASE Launch
      <3>1. /\ spawned <= Before(invocation) + (cur - 1) /\ cur \in 1..N
            /\ spawned' = spawned + 1
          BY <1>5, <2>2, LaunchTyped DEF GuardStartFails, WithinBudget, Launched, AtCondition, Cond
      <3>2. WithinBudget'
          BY <1>5, <3>1, <1>a DEF GuardStartFails, TypeOK, WithinBudget, Launched
      <3>. QED
          BY <1>5, <2>2, <3>2, <1>a, <1>b, LaunchTyped DEF GuardStartFails, TypeOK, AtCondition,
                MayResume
    <2>. QED
        BY <1>5, <2>1, <2>2 DEF GuardStartFails
  <1>6. CASE ChildEnded \/ GuardWaitFails
      BY <1>6, <1>a, <1>b DEF ChildEnded, GuardWaitFails, TypeOK, AtCondition, MayResume,
            WithinBudget, Launched
  <1>7. CASE RespectRecord \/ FindNoRecord
    <2>1. spawned <= Before(invocation) + cur /\ cur \in 1..N /\ rpc = "judge"
        BY <1>7 DEF RespectRecord, FindNoRecord, WithinBudget, Launched, AtCondition, Cond
    <2>2. WithinBudget'
        BY <1>7, <2>1, <1>a DEF RespectRecord, FindNoRecord, NextCondition, TypeOK, WithinBudget,
              Launched
    <2>3. CASE RespectRecord
        BY <2>1, <2>2, <2>3, <1>a, <1>b DEF RespectRecord, NextCondition, TypeOK, AtCondition,
              MayResume
    <2>4. CASE FindNoRecord
        BY <2>1, <2>2, <2>4, <1>a, <1>b DEF FindNoRecord, TypeOK, AtCondition, MayResume, Cond
    <2>. QED
        BY <1>7, <2>3, <2>4
  <1>8. CASE WriteEnvelope
    <2>1. Record(Envelope, 0, ident, ident) \in DiskRecord
        BY <1>a DEF Record, Envelope, DiskRecord, TypeOK, Versions, Foreign, RunnerStatus
    <2>2. spawned <= Before(invocation) + cur /\ cur \in 1..N
        BY <1>8 DEF WriteEnvelope, WithinBudget, Launched, AtCondition, Cond
    <2>3. WithinBudget'
        BY <1>8, <2>2, <1>a DEF WriteEnvelope, NextCondition, TypeOK, WithinBudget, Launched
    <2>. QED
        BY <1>8, <2>1, <2>2, <2>3, <1>a, <1>b DEF WriteEnvelope, NextCondition, TypeOK,
              AtCondition, MayResume
  <1>9. CASE Finish
      BY <1>9, <1>a, <1>b DEF Finish, TypeOK, AtCondition, MayResume, WithinBudget, Launched, Cond
  <1>10. ASSUME NEW p \in 1..MaxPid, WorkerStep(p)
         PROVE  Kept
    <2>0. p \in DOMAIN workers /\ workers[p] \in WorkerRecord
        BY <1>10, <1>b DEF WorkerStep
    <2>1. CASE WorkerIdentifies(p)
        BY <2>0, <2>1, <1>b DEF WorkerIdentifies, WorkerRecord, TypeOK
    <2>2. ASSUME NEW s \in Status, WorkerLands(p, s)
          PROVE  Kept
      <3>1. Record(s, p, workers[p].names, workers[p].ran) \in DiskRecord
          BY <2>0, <2>2, <1>a DEF WorkerLands, Record, DiskRecord, WorkerRecord, Artifact,
                Versions, Foreign, Unnamed
      <3>. QED
          BY <2>0, <2>2, <3>1, <1>b DEF WorkerLands, WorkerRecord, Artifact
    <2>3. CASE WorkerEnds(p)
        BY <2>3, <1>b DEF WorkerEnds
    <2>. QED
        BY <1>10, <2>1, <2>2, <2>3 DEF WorkerStep
  <1>11. CASE \E p \in 1..MaxPid : WorkerStep(p)
      BY <1>10, <1>11 DEF TypeOK, AtCondition, MayResume, WithinBudget, Launched, runnerVars
  <1>12. CASE RunnerDies
    <2>1. Launched <= N /\ Launched \in Int
        BY DEF TypeOK, Launched, AtCondition, Cond
    <2>2. spawned <= Before(invocation) + N
        BY <1>a, <2>1 DEF TypeOK, WithinBudget
    <2>. QED
        BY <1>12, <1>a, <1>b, <2>2 DEF RunnerDies, TypeOK, AtCondition, MayResume, WithinBudget,
              Launched
  <1>13. CASE Resume \/ Rerun
    <2>1. invocation < MaxInvocations /\ rpc \in {"dead", "done"} /\ Start
        BY <1>13 DEF Resume, Rerun, MayResume
    <2>2. spawned <= Before(invocation + 1)
        BY <1>a, <2>1 DEF TypeOK, WithinBudget, Launched
    <2>. QED
        BY <1>a, <1>b, <2>1, <2>2 DEF Start, TypeOK, AtCondition, MayResume, WithinBudget,
              Launched, Versions
  <1>14. CASE EditCode
      BY <1>14, <1>a, <1>b DEF EditCode, TypeOK, AtCondition, MayResume, WithinBudget, Launched,
            Versions, runnerVars
  <1>15. CASE Done \/ UNCHANGED vars
      BY <1>15, <1>b DEF Done, vars, TypeOK, AtCondition, MayResume, WithinBudget, Launched,
            runnerVars
  <1>. QED
      BY <1>1, <1>2, <1>3, <1>4, <1>5, <1>6, <1>7, <1>8, <1>9, <1>11, <1>12, <1>13, <1>14,
         <1>15 DEF Next, RunnerStep

LEMMA TypeAlways == Spec => []TypeInv
  BY TypeInit, TypeStep, PTL DEF Spec

\* Every variable keeps its type, and no start of the sweep launches more than
\* one worker per condition: process ids stay below MaxPid.
THEOREM RunnerTypeCorrect == Spec => []TypeOK
  <1>1. TypeInv => TypeOK
      BY DEF TypeInv
  <1>. QED
      BY TypeAlways, <1>1, PTL

-----------------------------------------------------------------------------
(* Whoever outlives whom: the conditions behind the current one have a     *)
(* record, because a worker only ever replaces a record by another.        *)

Recorded ==
  /\ rpc \notin {"done", "dead"} => \A c \in 1..(cur - 1) : disk[c].status # "absent"
  /\ rpc = "done" => \A c \in Cond : disk[c].status # "absent"

\* A worker that lands leaves a record, at its own condition only.
LEMMA Landing ==
  ASSUME TypeInv, NEW p \in DOMAIN workers, NEW s \in Status, WorkerLands(p, s)
  PROVE  /\ \A c \in Cond : disk'[c] = IF c = workers[p].cond
                                       THEN Record(s, p, workers[p].names, workers[p].ran)
                                       ELSE disk[c]
         /\ DOMAIN workers' = DOMAIN workers
         /\ s # "absent"
         /\ UNCHANGED <<code, runnerVars, spawned, invocation>>
  BY DEF TypeInv, TypeOK, WorkerLands, Status

LEMMA RecordedStep == TypeInv /\ Recorded /\ [Next]_vars => Recorded'
  <1> SUFFICES ASSUME TypeInv, Recorded, [Next]_vars PROVE Recorded'
      OBVIOUS
  <1>a. cur \in 1..(N + 1) /\ disk \in [Cond -> DiskRecord] /\ AtCondition
      BY DEF TypeInv, TypeOK, DiskRecord
  <1>1. CASE SkipFresh
    <2>1. disk[cur].status # "absent"
        BY <1>1 DEF SkipFresh, Fresh
    <2>. QED
        BY <1>1, <1>a, <2>1 DEF SkipFresh, NextCondition, Recorded
  <1>2. CASE UnlinkStale
      BY <1>2, <1>a DEF UnlinkStale, Recorded, AtCondition, Cond
  <1>3. CASE RespectRecord
      BY <1>3, <1>a DEF RespectRecord, NextCondition, Recorded
  <1>4. CASE WriteEnvelope
    <2>1. disk'[cur].status # "absent" /\ \A c \in Cond \ {cur} : disk'[c] = disk[c]
        BY <1>4, <1>a DEF WriteEnvelope, Record, Envelope, AtCondition
    <2>. QED
        BY <1>4, <1>a, <2>1 DEF WriteEnvelope, NextCondition, Recorded, AtCondition, Cond
  <1>5. CASE Finish
      BY <1>5, <1>a DEF Finish, Recorded, Cond
  <1>6. CASE FindStale \/ Spawn \/ GuardStartFails \/ ChildEnded \/ GuardWaitFails \/ FindNoRecord
      BY <1>6 DEF FindStale, Spawn, GuardStartFails, ChildEnded, GuardWaitFails, FindNoRecord,
            Recorded
  <1>7. ASSUME NEW p \in 1..MaxPid, WorkerStep(p) PROVE Recorded'
    <2>1. p \in DOMAIN workers
        BY <1>7 DEF WorkerStep
    <2>2. CASE WorkerIdentifies(p) \/ WorkerEnds(p)
        BY <2>2 DEF WorkerIdentifies, WorkerEnds, Recorded, runnerVars
    <2>3. ASSUME NEW s \in Status, WorkerLands(p, s) PROVE Recorded'
      <3>1. \A c \in Cond : disk[c].status # "absent" => disk'[c].status # "absent"
        <4>1. /\ s # "absent"
              /\ Record(s, p, workers[p].names, workers[p].ran).status = s
            BY <2>1, <2>3, Landing DEF Record
        <4>. QED
            BY <2>1, <2>3, <4>1, Landing
      <3>2. UNCHANGED <<rpc, cur>>
          BY <2>1, <2>3, Landing DEF runnerVars
      <3>. QED
          BY <1>a, <3>1, <3>2 DEF Recorded, Cond
    <2>. QED
        BY <1>7, <2>2, <2>3 DEF WorkerStep
  <1>8. CASE RunnerDies \/ Resume \/ Rerun
      BY <1>8 DEF RunnerDies, Resume, Rerun, Start, Recorded
  <1>9. CASE EditCode \/ Done \/ UNCHANGED vars
      BY <1>9 DEF EditCode, Done, vars, runnerVars, Recorded
  <1>. QED
      BY <1>1, <1>2, <1>3, <1>4, <1>5, <1>6, <1>7, <1>8, <1>9 DEF Next, RunnerStep

\* runner.py:344-405: when the loop is over every condition has a record,
\* whatever became of its worker, of the guard client, or of earlier runners,
\* and also when workers outlive whoever waits for them.
THEOREM EveryConditionAccounted == Spec => []SweepAccountsForEvery
  <1>1. Init => Recorded
      BY DEF Init, Recorded
  <1>2. Recorded => SweepAccountsForEvery
      BY DEF Recorded, SweepAccountsForEvery
  <1>. QED
      BY TypeAlways, RecordedStep, <1>1, <1>2, PTL DEF Spec

-----------------------------------------------------------------------------
(* Whoever outlives whom: a worker of this start works on a condition the  *)
(* start has launched, so the next launch is on one that none works on.    *)

Behind ==
  \A p \in DOMAIN workers : /\ workers[p].of <= invocation
                            /\ workers[p].of = invocation => workers[p].cond <= Launched

OnePerLaunch == Behind /\ NeverRelaunched

\* Whoever starts no worker keeps the invariant, if it takes back no launch of a start.
LEMMA NoneLaunched ==
  ASSUME TypeInv, TypeInv', OnePerLaunch, DOMAIN workers' \subseteq DOMAIN workers,
         \A q \in DOMAIN workers' : /\ workers'[q].cond = workers[q].cond
                                    /\ workers'[q].of = workers[q].of,
         \/ invocation' = invocation + 1
         \/ invocation' = invocation /\ Launched <= Launched'
  PROVE  OnePerLaunch'
  <1>1. /\ \A p \in DOMAIN workers : /\ workers[p].of \in Nat /\ workers[p].cond \in Nat
                                     /\ workers[p].of <= invocation
                                     /\ workers[p].of = invocation => workers[p].cond <= Launched
        /\ invocation \in Nat
    <2>1. /\ \A p \in DOMAIN workers : workers[p] \in WorkerRecord
          /\ invocation \in 1..MaxInvocations
        BY DEF TypeInv, TypeOK, WorkerRecord
    <2>. QED
        BY <2>1 DEF OnePerLaunch, Behind, WorkerRecord, Cond
  <1>2. Launched \in Int /\ Launched' \in Int
      BY DEF TypeInv, TypeOK, Launched
  <1>3. NeverRelaunched'
      BY DEF OnePerLaunch, NeverRelaunched
  <1>4. Behind'
    <2> SUFFICES ASSUME NEW p \in DOMAIN workers'
                 PROVE  /\ workers'[p].of <= invocation'
                        /\ workers'[p].of = invocation' => workers'[p].cond <= Launched'
        BY DEF Behind
    <2>0. /\ p \in DOMAIN workers
          /\ workers'[p].of = workers[p].of /\ workers'[p].cond = workers[p].cond
        OBVIOUS
    <2>1. /\ workers[p].of \in Nat /\ workers[p].cond \in Nat /\ workers[p].of <= invocation
          /\ workers[p].of = invocation => workers[p].cond <= Launched
        BY <1>1, <2>0
    <2>. QED
        BY <1>1, <1>2, <2>0, <2>1
  <1>. QED
      BY <1>3, <1>4 DEF OnePerLaunch

\* A launch is on a condition this start has not launched yet.
LEMMA OneLaunched ==
  ASSUME TypeInv, OnePerLaunch, rpc = "spawn", Launch, rpc' \in {"wait", "judge"},
         UNCHANGED <<cur, invocation>>
  PROVE  OnePerLaunch'
  <1>1. /\ cur \in Nat /\ Launched = cur - 1 /\ Launched' = cur /\ invocation \in Nat
        /\ DOMAIN workers \subseteq 1..spawned
        /\ \A p \in DOMAIN workers : workers[p] \in WorkerRecord
      BY DEF TypeInv, TypeOK, Launched, WorkerRecord
  <1>2. /\ DOMAIN workers' = DOMAIN workers \cup {spawned + 1}
        /\ workers'[spawned + 1].cond = cur /\ workers'[spawned + 1].of = invocation
        /\ \A p \in DOMAIN workers : p # spawned + 1 => workers'[p] = workers[p]
      BY DEF Launch
  <1>3. \A p \in DOMAIN workers : /\ workers[p].of <= invocation /\ workers[p].cond \in Nat
                                  /\ workers[p].of = invocation => workers[p].cond <= cur - 1
      BY <1>1 DEF OnePerLaunch, Behind, WorkerRecord, Cond
  <1>4. Behind'
      BY <1>1, <1>2, <1>3 DEF Behind
  <1>5. NeverRelaunched'
    <2> SUFFICES ASSUME NEW p \in DOMAIN workers', NEW q \in DOMAIN workers',
                        workers'[p].cond = workers'[q].cond, workers'[p].of = workers'[q].of
                 PROVE  p = q
        BY DEF NeverRelaunched
    <2>1. CASE p # spawned + 1 /\ q # spawned + 1
        BY <1>2, <2>1 DEF OnePerLaunch, NeverRelaunched
    <2>2. CASE p = spawned + 1 /\ q # spawned + 1
        BY <1>1, <1>2, <1>3, <2>2
    <2>3. CASE p # spawned + 1 /\ q = spawned + 1
        BY <1>1, <1>2, <1>3, <2>3
    <2>. QED
        BY <2>1, <2>2, <2>3
  <1>. QED
      BY <1>4, <1>5 DEF OnePerLaunch

LEMMA OnePerLaunchStep == TypeInv /\ TypeInv' /\ OnePerLaunch /\ [Next]_vars => OnePerLaunch'
  <1> SUFFICES ASSUME TypeInv, TypeInv', OnePerLaunch, [Next]_vars PROVE OnePerLaunch'
      OBVIOUS
  <1>a. cur \in Nat /\ N \in Nat /\ AtCondition /\ cur <= N + 1
      BY DEF TypeInv, TypeOK
  <1>1. CASE Spawn
      BY <1>1, OneLaunched DEF Spawn
  <1>2. CASE GuardStartFails
    <2>1. CASE UNCHANGED workers
        BY <1>2, <2>1, <1>a, NoneLaunched DEF GuardStartFails, Launched
    <2>2. CASE Launch
        BY <1>2, <2>2, OneLaunched DEF GuardStartFails
    <2>. QED
        BY <1>2, <2>1, <2>2 DEF GuardStartFails
  <1>3. CASE SkipFresh \/ FindStale \/ UnlinkStale \/ ChildEnded \/ GuardWaitFails
             \/ RespectRecord \/ FindNoRecord \/ WriteEnvelope \/ Finish
    <2>1. UNCHANGED <<workers, invocation>>
        BY <1>3 DEF SkipFresh, FindStale, UnlinkStale, ChildEnded, GuardWaitFails, RespectRecord,
              FindNoRecord, WriteEnvelope, Finish
    <2>2. Launched <= Launched'
        BY <1>3, <1>a DEF SkipFresh, FindStale, UnlinkStale, ChildEnded, GuardWaitFails,
              RespectRecord, FindNoRecord, WriteEnvelope, Finish, NextCondition, Launched, Cond
    <2>. QED
        BY <2>1, <2>2, NoneLaunched
  <1>4. ASSUME NEW p \in 1..MaxPid, WorkerStep(p) PROVE OnePerLaunch'
    <2>0. p \in DOMAIN workers /\ \A q \in DOMAIN workers : workers[q] \in WorkerRecord
        BY <1>4 DEF WorkerStep, TypeInv, TypeOK, WorkerRecord
    <2>1. /\ DOMAIN workers' \subseteq DOMAIN workers
          /\ \A q \in DOMAIN workers' : /\ workers'[q].cond = workers[q].cond
                                        /\ workers'[q].of = workers[q].of
        BY <1>4, <2>0 DEF WorkerStep, WorkerIdentifies, WorkerLands, WorkerEnds, WorkerRecord
    <2>2. UNCHANGED <<runnerVars, invocation>>
        BY <1>4 DEF WorkerStep, WorkerIdentifies, WorkerLands, WorkerEnds
    <2>3. Launched <= Launched'
        BY <2>2, <1>a DEF runnerVars, Launched
    <2>. QED
        BY <2>1, <2>2, <2>3, NoneLaunched
  <1>5. CASE RunnerDies
    <2>1. /\ DOMAIN workers' \subseteq DOMAIN workers /\ UNCHANGED invocation
          /\ \A q \in DOMAIN workers' : workers'[q] = workers[q]
        BY <1>5 DEF RunnerDies
    <2>2. Launched <= Launched'
        BY <1>5, <1>a DEF RunnerDies, Launched, AtCondition, Cond
    <2>. QED
        BY <2>1, <2>2, NoneLaunched
  <1>6. CASE Resume \/ Rerun
      BY <1>6, NoneLaunched DEF Resume, Rerun, Start
  <1>7. CASE EditCode \/ Done \/ UNCHANGED vars
    <2>1. UNCHANGED <<runnerVars, workers, invocation>>
        BY <1>7 DEF EditCode, Done, vars
    <2>2. Launched <= Launched'
        BY <2>1, <1>a DEF runnerVars, Launched
    <2>. QED
        BY <2>1, <2>2, NoneLaunched
  <1>. QED
      BY <1>1, <1>2, <1>3, <1>4, <1>5, <1>6, <1>7 DEF Next, RunnerStep

\* runner.py:165-167: "the worker already ran -- never relaunch".  Also when workers outlive
\* a failed guard client or a killed runner, no start of the sweep has two live workers on
\* one condition.
THEOREM NeverARelaunch == Spec => []NeverRelaunched
  <1>1. Init => OnePerLaunch
      BY DEF Init, OnePerLaunch, Behind, NeverRelaunched
  <1>2. OnePerLaunch => NeverRelaunched
      BY DEF OnePerLaunch
  <1>. QED
      BY TypeAlways, OnePerLaunchStep, <1>1, <1>2, PTL DEF Spec

-----------------------------------------------------------------------------
(* Where a worker dies with whoever waits for it: the only live worker is  *)
(* the runner's child, and only while the runner waits for it.  From its   *)
(* unlinking to its verdict the runner then looks at records nobody but    *)
(* that child can have written.                                            *)

Alone == /\ DOMAIN workers \subseteq {child}
         /\ rpc # "wait" => DOMAIN workers = {}

LEMMA AloneStep == ASSUME ~Orphans PROVE Alone /\ [Next]_vars => Alone'
  <1> SUFFICES ASSUME Alone, [Next]_vars PROVE Alone'
      OBVIOUS
  <1>. USE DEF Alone
  <1>1. CASE Spawn
      BY <1>1 DEF Spawn, Launch
  <1>2. CASE GuardStartFails
      BY <1>2 DEF GuardStartFails
  <1>3. CASE ChildEnded \/ GuardWaitFails
      BY <1>3 DEF ChildEnded, GuardWaitFails
  <1>4. CASE SkipFresh \/ FindStale \/ UnlinkStale \/ RespectRecord \/ FindNoRecord
             \/ WriteEnvelope \/ Finish
      BY <1>4 DEF SkipFresh, FindStale, UnlinkStale, RespectRecord, FindNoRecord, WriteEnvelope,
            Finish, NextCondition
  <1>5. ASSUME NEW p \in 1..MaxPid, WorkerStep(p) PROVE Alone'
    <2>1. p \in DOMAIN workers /\ rpc = "wait"
        BY <1>5 DEF WorkerStep
    <2>2. DOMAIN workers' \subseteq DOMAIN workers /\ UNCHANGED runnerVars
        BY <1>5 DEF WorkerStep, WorkerIdentifies, WorkerLands, WorkerEnds
    <2>. QED
        BY <2>1, <2>2 DEF runnerVars
  <1>6. CASE RunnerDies
      BY <1>6 DEF RunnerDies
  <1>7. CASE Resume \/ Rerun
      BY <1>7 DEF Resume, Rerun, Start
  <1>8. CASE EditCode \/ Done \/ UNCHANGED vars
      BY <1>8 DEF EditCode, Done, vars, runnerVars
  <1>. QED
      BY <1>1, <1>2, <1>3, <1>4, <1>5, <1>6, <1>7, <1>8 DEF Next, RunnerStep

LEMMA AloneAlways == ASSUME ~Orphans PROVE Spec => []Alone
  <1>1. Init => Alone
      BY DEF Init, Alone
  <1>. QED
      BY <1>1, AloneStep, PTL DEF Spec

OwnRecord ==
  /\ rpc \in {"spawn", "record"} => disk[cur].status = "absent"
  /\ rpc \in {"wait", "judge"} /\ disk[cur].status # "absent" => disk[cur].by = child

LEMMA OwnRecordStep ==
  ASSUME ~Orphans PROVE TypeInv /\ Alone /\ OwnRecord /\ [Next]_vars => OwnRecord'
  <1> SUFFICES ASSUME TypeInv, Alone, OwnRecord, [Next]_vars PROVE OwnRecord'
      OBVIOUS
  <1>. USE DEF OwnRecord
  <1>1. CASE UnlinkStale
    <2>1. cur \in Cond /\ disk \in [Cond -> DiskRecord]
        BY <1>1 DEF UnlinkStale, TypeInv, TypeOK, AtCondition, DiskRecord
    <2>. QED
        BY <1>1, <2>1 DEF UnlinkStale, Absent, Record
  <1>2. CASE Spawn \/ GuardStartFails \/ ChildEnded \/ GuardWaitFails \/ FindNoRecord
      BY <1>2 DEF Spawn, GuardStartFails, ChildEnded, GuardWaitFails, FindNoRecord
  <1>3. CASE SkipFresh \/ FindStale \/ RespectRecord \/ WriteEnvelope \/ Finish
      BY <1>3 DEF SkipFresh, FindStale, RespectRecord, WriteEnvelope, Finish, NextCondition
  <1>4. ASSUME NEW p \in 1..MaxPid, WorkerStep(p) PROVE OwnRecord'
    <2>1. p \in DOMAIN workers /\ rpc = "wait" /\ p = child
        BY <1>4 DEF WorkerStep, Alone
    <2>2. CASE WorkerIdentifies(p) \/ WorkerEnds(p)
        BY <2>2 DEF WorkerIdentifies, WorkerEnds, runnerVars
    <2>3. ASSUME NEW s \in Status, WorkerLands(p, s) PROVE OwnRecord'
      <3>1. cur \in Cond /\ UNCHANGED <<rpc, cur, child>>
          BY <2>1, <2>3, Landing DEF TypeInv, AtCondition, runnerVars
      <3>2. disk'[cur] = disk[cur]
            \/ disk'[cur] = Record(s, p, workers[p].names, workers[p].ran)
          BY <2>1, <2>3, <3>1, Landing
      <3>. QED
          BY <2>1, <3>1, <3>2 DEF Record
    <2>. QED
        BY <1>4, <2>2, <2>3 DEF WorkerStep
  <1>5. CASE RunnerDies \/ Resume \/ Rerun
      BY <1>5 DEF RunnerDies, Resume, Rerun, Start
  <1>6. CASE EditCode \/ Done \/ UNCHANGED vars
      BY <1>6 DEF EditCode, Done, vars, runnerVars
  <1>. QED
      BY <1>1, <1>2, <1>3, <1>4, <1>5, <1>6 DEF Next, RunnerStep

LEMMA OwnRecordAlways == ASSUME ~Orphans PROVE Spec => []OwnRecord
  <1>1. Init => OwnRecord
      BY DEF Init, OwnRecord
  <1>. QED
      BY <1>1, TypeAlways, AloneAlways, OwnRecordStep, PTL DEF Spec

\* runner.py:358-360: what exists after the worker returned is its own record.
THEOREM RecordIsThisWorkers == ASSUME ~Orphans PROVE Spec => []ExistsMeansThisWorker
  <1>1. OwnRecord => ExistsMeansThisWorker
      BY DEF OwnRecord, ExistsMeansThisWorker
  <1>. QED
      BY OwnRecordAlways, <1>1, PTL

\* runner.py:388-391: the runner's envelope replaces no record of a worker.
THEOREM EnvelopeReplacesNothing == ASSUME ~Orphans PROVE Spec => []EnvelopeClobbersNothing
  <1>1. OwnRecord => EnvelopeClobbersNothing
      BY DEF OwnRecord, EnvelopeClobbersNothing
  <1>. QED
      BY OwnRecordAlways, <1>1, PTL

-----------------------------------------------------------------------------
(* Freshness: no artifact names a version of the code that is still to     *)
(* come, so that an edit makes nothing fresh, and what the runner is about *)
(* to unlink was stale when it looked and still is.                        *)

NamesPast ==
  /\ ident <= code
  /\ \A c \in Cond : disk[c].names <= code \/ disk[c].names = Foreign
  /\ \A p \in DOMAIN workers : workers[p].names <= code \/ workers[p].names = Unnamed
  /\ rpc = "unlink" => ~Fresh(disk[cur], code)

LEMMA NamesStep ==
  ASSUME ~Orphans PROVE TypeInv /\ Alone /\ NamesPast /\ [Next]_vars => NamesPast'
  <1> SUFFICES ASSUME TypeInv, Alone, NamesPast, [Next]_vars PROVE NamesPast'
      OBVIOUS
  <1>a. /\ code \in 0..MaxEdits /\ ident \in 0..MaxEdits
        /\ disk \in [Cond -> DiskRecord]
        /\ \A c \in Cond : disk[c].names \in 0..Foreign
        /\ \A p \in DOMAIN workers : workers[p] \in WorkerRecord
      BY DEF TypeInv, TypeOK, DiskRecord, WorkerRecord, Versions
  <1>1. CASE FindStale
      BY <1>1, <1>a DEF FindStale, NamesPast
  <1>2. CASE UnlinkStale
    <2>1. Absent.names = 0
        BY DEF Absent, Record
    <2>. QED
        BY <1>2, <1>a, <2>1 DEF UnlinkStale, NamesPast
  <1>3. CASE Spawn
      BY <1>3 DEF Spawn, Launch, NamesPast
  <1>4. CASE GuardStartFails
      BY <1>4 DEF GuardStartFails, NamesPast
  <1>5. CASE SkipFresh \/ ChildEnded \/ GuardWaitFails \/ RespectRecord \/ FindNoRecord \/ Finish
      BY <1>5 DEF SkipFresh, ChildEnded, GuardWaitFails, RespectRecord, FindNoRecord, Finish,
            NextCondition, NamesPast
  <1>6. CASE WriteEnvelope
    <2>1. Record(Envelope, 0, ident, ident).names = ident
        BY DEF Record
    <2>. QED
        BY <1>6, <1>a, <2>1 DEF WriteEnvelope, NextCondition, NamesPast
  <1>7. ASSUME NEW p \in 1..MaxPid, WorkerStep(p) PROVE NamesPast'
    <2>1. p \in DOMAIN workers /\ rpc = "wait"
        BY <1>7 DEF WorkerStep, Alone
    <2>2. CASE WorkerIdentifies(p)
        BY <1>a, <2>1, <2>2 DEF WorkerIdentifies, NamesPast, runnerVars, WorkerRecord
    <2>3. CASE WorkerEnds(p)
        BY <2>1, <2>3 DEF WorkerEnds, NamesPast, runnerVars
    <2>4. ASSUME NEW s \in Status, WorkerLands(p, s) PROVE NamesPast'
      <3>1. workers[p].names <= code
          BY <2>1, <2>4 DEF WorkerLands, NamesPast
      <3>2. \A c \in Cond : disk'[c].names <= code \/ disk'[c].names = Foreign
        <4>1. Record(s, p, workers[p].names, workers[p].ran).names = workers[p].names
            BY DEF Record
        <4>. QED
            BY <2>1, <2>4, <3>1, <4>1, Landing DEF NamesPast
      <3>3. \A q \in DOMAIN workers' : workers'[q].names = workers[q].names
          BY <1>a, <2>1, <2>4 DEF WorkerLands, WorkerRecord
      <3>4. UNCHANGED <<code, ident, rpc>> /\ DOMAIN workers' = DOMAIN workers
          BY <2>1, <2>4, Landing DEF runnerVars
      <3>. QED
          BY <2>1, <3>2, <3>3, <3>4 DEF NamesPast
    <2>. QED
        BY <1>7, <2>2, <2>3, <2>4 DEF WorkerStep
  <1>8. CASE RunnerDies \/ Resume \/ Rerun
      BY <1>8, <1>a DEF RunnerDies, Resume, Rerun, Start, NamesPast
  <1>9. CASE EditCode
    <2>1. code' = code + 1 /\ code + 1 <= MaxEdits
        BY <1>9, <1>a DEF EditCode
    <2>2. UNCHANGED <<disk, rpc, cur, ident, workers>>
        BY <1>9 DEF EditCode, runnerVars
    <2>3. rpc = "unlink" => cur \in Cond
        BY DEF TypeInv, AtCondition
    <2>4. \A c \in Cond : disk[c].names # code'
        BY <1>a, <2>1 DEF NamesPast, Foreign
    <2>5. \A p \in DOMAIN workers : workers[p].names \in Nat
        BY <1>a DEF WorkerRecord, Versions, Unnamed
    <2>. QED
        BY <1>a, <2>1, <2>2, <2>3, <2>4, <2>5 DEF NamesPast, Fresh
  <1>10. CASE Done \/ UNCHANGED vars
      BY <1>10 DEF Done, vars, runnerVars, NamesPast
  <1>. QED
      BY <1>1, <1>2, <1>3, <1>4, <1>5, <1>6, <1>7, <1>8, <1>9, <1>10 DEF Next, RunnerStep

LEMMA NamesAlways == ASSUME ~Orphans PROVE Spec => []NamesPast
  <1>1. Init => NamesPast
      BY DEF Init, NamesPast, Record, Absent
  <1>. QED
      BY <1>1, TypeAlways, AloneAlways, NamesStep, PTL DEF Spec

\* A step only changes the artifact of a condition whose worker runs, or one
\* that is not fresh.
LEMMA FreshStep ==
  ASSUME ~Orphans, TypeInv, Alone, OwnRecord, NamesPast, [Next]_vars,
         NEW c \in Cond, Fresh(disk[c], code), \A p \in DOMAIN workers : workers[p].cond # c
  PROVE  disk'[c] = disk[c]
  <1>1. CASE UnlinkStale
      BY <1>1 DEF UnlinkStale, NamesPast, TypeInv, TypeOK
  <1>2. CASE WriteEnvelope
      BY <1>2 DEF WriteEnvelope, OwnRecord, Fresh, TypeInv, TypeOK
  <1>3. ASSUME NEW p \in 1..MaxPid, WorkerStep(p) PROVE disk'[c] = disk[c]
    <2>1. p \in DOMAIN workers
        BY <1>3 DEF WorkerStep
    <2>2. ASSUME NEW s \in Status, WorkerLands(p, s) PROVE disk'[c] = disk[c]
        BY <2>1, <2>2, Landing
    <2>. QED
        BY <1>3, <2>2 DEF WorkerStep, WorkerIdentifies, WorkerEnds
  <1>4. CASE UNCHANGED disk
      BY <1>4
  <1>. QED
      BY <1>1, <1>2, <1>3, <1>4 DEF Next, RunnerStep, SkipFresh, FindStale, Spawn,
         GuardStartFails, ChildEnded, GuardWaitFails, RespectRecord, FindNoRecord, Finish,
         RunnerDies, Resume, Rerun, Start, EditCode, Done, vars

\* result_is_fresh: a fresh result nobody is rewriting survives every step, a
\* death of the runner and an edit of the code included.
THEOREM FreshKept == ASSUME ~Orphans PROVE Spec => FreshResultKept
  <1>1. TypeInv /\ Alone /\ OwnRecord /\ NamesPast /\ [Next]_vars
          => [\A c \in Cond :
                Fresh(disk[c], code) /\ (\A p \in DOMAIN workers : workers[p].cond # c)
                  => disk'[c] = disk[c]]_vars
      BY FreshStep
  <1>. QED
      BY <1>1, TypeAlways, AloneAlways, OwnRecordAlways, NamesAlways, PTL DEF Spec, FreshResultKept
=============================================================================
