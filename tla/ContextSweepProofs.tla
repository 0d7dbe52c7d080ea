-------------------------- MODULE ContextSweepProofs --------------------------
(***************************************************************************)
(* Proofs about the context sweep: its type, that what it publishes as     *)
(* fitting fits whatever fails beside it, the gap that alignment leaves,   *)
(* and, when nothing else fails, that it brackets the limit and implements *)
(* the search of a bracket.                                                *)
(***************************************************************************)
EXTENDS ContextSweep, TLAPS

USE SweepAssumption DEF Arm, Length

\* What the search variables are in each step of the search.
StepInv ==
  /\ step = "start" => seq = Start /\ low = 0 /\ high = 0
  /\ step = "double" => low # 0 /\ high = 2 * low /\ seq = high /\ seq <= Ceiling
  /\ step = "bisect" => low # 0 /\ low < seq /\ seq < high /\ high <= Ceiling
  /\ pc = "over" => step = "start"

\* An ok record is of a length that fits, and the lower end has one.
FitInv ==
  /\ \A a \in Arm, n \in Length : disk[a][n] = "ok" => n <= limit[a]
  /\ arm \in Arm => low <= limit[arm]

\* Without flakes a length judged not to fit does not, and the upper end was.
FailInv ==
  /\ pc = "judge" /\ disk[arm][seq] # "ok" => limit[arm] < seq
  /\ step = "bisect" => limit[arm] < high

\* Every number a result may publish.
GapInv ==
  \A a \in Arm : results[a].converged /\ results[a].max # 0 =>
    results[a].min - results[a].max < 2 * Granularity

-----------------------------------------------------------------------------
(* The middle. *)

\* A middle that is probed lies strictly inside the bracket; one that is not
\* leaves a gap of less than two granules.
LEMMA MidInside ==
  ASSUME NEW l \in Nat, NEW h \in Nat, l < h
  PROVE  /\ Mid(l, h) \in Int
         /\ Mid(l, h) < h
         /\ Mid(l, h) <= l => h - l < 2 * Granularity
<1> DEFINE m == l + (h - l) \div 2
<1>1. m \in Nat /\ m < h /\ h - l <= 2 * (m - l) + 1
  OBVIOUS
<1>2. m % Granularity \in 0..(Granularity - 1)
  <2> HIDE DEF m
  <2> QED BY <1>1
<1>3. Mid(l, h) = m - (m % Granularity)
  BY DEF Mid
<1> HIDE DEF m
<1> QED BY <1>1, <1>2, <1>3

-----------------------------------------------------------------------------
(* Type and shape of the search. *)

\* Publishing keeps the types and leaves a search that starts.
LEMMA PublishType ==
  ASSUME TypeOK, StepInv, arm \in Arm,
         NEW r \in Published, Publish(r)
  PROVE  /\ results' \in [Arm -> Published] /\ arm' \in 1..(Arms + 1)
         /\ arm' = Arms + 1 <=> pc' = "over"
         /\ pc' \in {"look", "over"} /\ step' = "start" /\ seq' = Start /\ seq' \in Length
         /\ low' = 0 /\ high' = 0 /\ attempt' \in 0..(Attempts - 1)
  BY DEF Publish, TypeOK

\* The same for one step of the bisection.
LEMMA NarrowType ==
  ASSUME TypeOK, StepInv, arm \in Arm, pc = "judge",
         NEW l \in Length, NEW h \in Length, l < h, h <= Ceiling, NarrowOn(l, h)
  PROVE  /\ results' \in [Arm -> Published] /\ arm' \in 1..(Arms + 1)
         /\ arm' = Arms + 1 <=> pc' = "over"
         /\ pc' \in {"look", "over"} /\ step' \in {"start", "bisect"} /\ seq' \in Length
         /\ low' \in {0} \cup Length /\ high' \in Nat /\ attempt' \in 0..(Attempts - 1)
         /\ StepInv'
<1>1. CASE h - l > Granularity /\ Mid(l, h) > l
  <2>1. Mid(l, h) \in Length /\ Mid(l, h) < h
    BY <1>1, MidInside
  <2>2. /\ low' = l /\ high' = h /\ step' = "bisect" /\ seq' = Mid(l, h)
        /\ pc' = "look" /\ attempt' = 0 /\ arm' = arm /\ results' = results
    BY <1>1 DEF NarrowOn, Probe
  <2> QED BY <1>1, <2>1, <2>2 DEF TypeOK, StepInv
<1>2. CASE ~(h - l > Granularity /\ Mid(l, h) > l)
  <2>1. Result(l, h, TRUE) \in Published
    BY DEF Result, Published
  <2>2. Publish(Result(l, h, TRUE))
    BY <1>2 DEF NarrowOn
  <2>3. /\ results' \in [Arm -> Published] /\ arm' \in 1..(Arms + 1)
        /\ arm' = Arms + 1 <=> pc' = "over"
        /\ pc' \in {"look", "over"} /\ step' = "start" /\ seq' = Start /\ seq' \in Length
        /\ low' = 0 /\ high' = 0 /\ attempt' \in 0..(Attempts - 1)
    BY <2>1, <2>2, PublishType
  <2>4. StepInv'
    BY <2>3 DEF StepInv
  <2> QED BY <2>3, <2>4
<1> QED BY <1>1, <1>2

Base == TypeOK /\ StepInv

LEMMA BaseInit == Init => Base
  BY DEF Init, Base, TypeOK, StepInv, Fresh, Unpublished, Result, Published, Status

LEMMA BaseStep == Base /\ [Next]_vars => Base'
<1> SUFFICES ASSUME TypeOK, StepInv, [Next]_vars
             PROVE  TypeOK' /\ StepInv'
  BY DEF Base
<1> USE DEF Base
<1>1. CASE FindRecord
  BY <1>1 DEF FindRecord, Look, search, TypeOK, StepInv
<1>2. CASE LaunchProbe
  BY <1>2 DEF LaunchProbe, Look, search, TypeOK, StepInv, Status
<1>3. CASE WorkerAnswers
  BY <1>3 DEF WorkerAnswers, Answer, search, TypeOK, StepInv, Status
<1>4. CASE WorkerFlakes
  BY <1>4 DEF WorkerFlakes, Answer, search, TypeOK, StepInv, Status
<1>5. CASE RefusedAgain
  BY <1>5 DEF RefusedAgain, Answer, TypeOK, StepInv, Status
<1>6. CASE ArmRefused
  <2>1. arm \in Arm
    BY <1>6 DEF ArmRefused, Answer, TypeOK
  <2>2. Unpublished \in Published
    BY DEF Unpublished, Result, Published
  <2>3. Publish(Unpublished)
    BY <1>6 DEF ArmRefused
  <2>4. disk' \in [Arm -> [Length -> Status]]
    BY <1>6 DEF ArmRefused, Answer, TypeOK, Status
  <2> QED BY <1>6, <2>1, <2>2, <2>3, <2>4, PublishType DEF ArmRefused, TypeOK, StepInv
<1>7. CASE StartFails
  <2>1. arm \in Arm
    BY <1>7 DEF StartFails, Judge, TypeOK
  <2>2. Result(0, Start, TRUE) \in Published
    BY DEF Result, Published
  <2>3. Publish(Result(0, Start, TRUE))
    BY <1>7 DEF StartFails
  <2> QED BY <1>7, <2>1, <2>2, <2>3, PublishType DEF StartFails, Judge, TypeOK, StepInv
<1>8. CASE DoubleFits
  <2>1. arm \in Arm /\ pc = "judge" /\ DoubleOn(seq)
    BY <1>8 DEF DoubleFits, Judge, TypeOK
  <2>2. UNCHANGED <<limit, disk, flakes, invocation>>
    BY <1>8 DEF DoubleFits, Judge
  <2>3. CASE 2 * seq > Ceiling
    <3>1. Result(seq, 0, FALSE) \in Published
      BY DEF Result, Published, TypeOK
    <3>2. Publish(Result(seq, 0, FALSE))
      BY <2>1, <2>3 DEF DoubleOn
    <3>3. /\ results' \in [Arm -> Published] /\ arm' \in 1..(Arms + 1)
          /\ arm' = Arms + 1 <=> pc' = "over"
          /\ pc' \in {"look", "over"} /\ step' = "start" /\ seq' = Start /\ seq' \in Length
          /\ low' = 0 /\ high' = 0 /\ attempt' \in 0..(Attempts - 1)
      BY <2>1, <3>1, <3>2, PublishType
    <3> QED BY <2>2, <3>3 DEF TypeOK, StepInv
  <2>4. CASE ~(2 * seq > Ceiling)
    <3>1. /\ low' = seq /\ high' = 2 * seq /\ step' = "double" /\ seq' = 2 * seq
          /\ pc' = "look" /\ attempt' = 0 /\ arm' = arm /\ results' = results
      BY <2>1, <2>4 DEF DoubleOn, Probe
    <3>2. 2 * seq \in Length /\ seq # 0
      BY <2>4 DEF TypeOK
    <3>3. StepInv'
      BY <2>4, <3>1, <3>2 DEF TypeOK, StepInv
    <3>4. seq \in Length /\ 2 * seq \in Nat /\ 0 \in 0..(Attempts - 1)
      BY DEF TypeOK
    <3>5. /\ arm' \in 1..(Arms + 1) /\ (arm' = Arms + 1 <=> pc' = "over")
          /\ pc' = "look" /\ results' \in [Arm -> Published]
      BY <2>1, <3>1 DEF TypeOK
    <3> QED BY <2>2, <3>1, <3>2, <3>3, <3>4, <3>5 DEF TypeOK
  <2> QED BY <2>3, <2>4
<1>9. CASE DoubleFails
  <2>1. arm \in Arm /\ pc = "judge" /\ NarrowOn(low, seq) /\ step = "double"
    BY <1>9 DEF DoubleFails, Judge, TypeOK
  <2>2. low \in Length /\ seq \in Length /\ low < seq /\ seq <= Ceiling
    BY <2>1 DEF TypeOK, StepInv
  <2>3. UNCHANGED <<limit, disk, flakes, invocation>>
    BY <1>9 DEF DoubleFails, Judge
  <2> QED BY <2>1, <2>2, <2>3, NarrowType DEF TypeOK
<1>10. CASE MidFits
  <2>1. arm \in Arm /\ pc = "judge" /\ NarrowOn(seq, high) /\ step = "bisect"
    BY <1>10 DEF MidFits, Judge, TypeOK
  <2>2. seq \in Length /\ high \in Length /\ seq < high /\ high <= Ceiling
    BY <2>1 DEF TypeOK, StepInv
  <2>3. UNCHANGED <<limit, disk, flakes, invocation>>
    BY <1>10 DEF MidFits, Judge
  <2> QED BY <2>1, <2>2, <2>3, NarrowType DEF TypeOK
<1>11. CASE MidFails
  <2>1. arm \in Arm /\ pc = "judge" /\ NarrowOn(low, seq) /\ step = "bisect"
    BY <1>11 DEF MidFails, Judge, TypeOK
  <2>2. low \in Length /\ seq \in Length /\ low < seq /\ seq <= Ceiling
    BY <2>1 DEF TypeOK, StepInv
  <2>3. UNCHANGED <<limit, disk, flakes, invocation>>
    BY <1>11 DEF MidFails, Judge
  <2> QED BY <2>1, <2>2, <2>3, NarrowType DEF TypeOK
<1>12. CASE Rerun
  BY <1>12 DEF Rerun, Fresh, Unpublished, Result, Published, TypeOK, StepInv
<1>13. CASE UNCHANGED vars
  BY <1>13 DEF vars, search, TypeOK, StepInv
<1> QED
  BY <1>1, <1>2, <1>3, <1>4, <1>5, <1>6, <1>7, <1>8, <1>9, <1>10, <1>11, <1>12, <1>13
  DEF Next, Sweep

\* The type invariant of the sweep.
THEOREM SweepTypeCorrect == Spec => []TypeOK
<1>1. Spec => []Base
  BY BaseInit, BaseStep, PTL DEF Spec
<1> QED BY <1>1, PTL DEF Base

-----------------------------------------------------------------------------
(* What is published. *)

\* The effect of the two ways a probe's answer moves the search on.
Moves(l, h, purpose) ==
  /\ arm' = arm /\ results' = results /\ pc' = "look"
  /\ low' = l /\ high' = h /\ step' = purpose

Ends(r) ==
  /\ arm' = arm + 1 /\ results' = [results EXCEPT ![arm] = r]
  /\ pc' \in {"look", "over"} /\ low' = 0 /\ step' = "start"

\* One step of the bisection narrows the bracket or publishes it.
LEMMA NarrowEffect ==
  ASSUME NEW l \in Nat, NEW h \in Nat, l < h, NarrowOn(l, h)
  PROVE  \/ Moves(l, h, "bisect")
         \/ h - l < 2 * Granularity /\ Ends(Result(l, h, TRUE))
<1>1. CASE h - l > Granularity /\ Mid(l, h) > l
  BY <1>1 DEF NarrowOn, Probe, Moves
<1>2. CASE ~(h - l > Granularity /\ Mid(l, h) > l)
  <2>1. h - l < 2 * Granularity
    BY <1>2, MidInside
  <2> QED BY <1>2, <2>1 DEF NarrowOn, Publish, Ends
<1> QED BY <1>1, <1>2

\* Every step of the search, as one of its effects on what is known.
LEMMA SearchEffect ==
  ASSUME Base, [Next]_vars
  PROVE  /\ limit' = limit
         /\ \/ /\ UNCHANGED <<arm, results, low, high, step>>
               /\ pc' = "judge" => pc \in {"look", "wait", "judge"}
            \/ /\ pc = "judge" /\ disk' = disk /\ disk[arm][seq] = "ok" /\ arm \in Arm
               /\ \/ Moves(seq, 2 * seq, "double") /\ step # "bisect"
                  \/ 2 * seq > Ceiling /\ Ends(Result(seq, 0, FALSE))
                  \/ /\ step = "bisect"
                     /\ \/ Moves(seq, high, "bisect")
                        \/ high - seq < 2 * Granularity /\ Ends(Result(seq, high, TRUE))
            \/ /\ pc = "judge" /\ disk' = disk /\ disk[arm][seq] # "ok" /\ arm \in Arm
               /\ \/ Ends(Result(0, Start, TRUE)) /\ step = "start"
                  \/ Moves(low, seq, "bisect") /\ step # "start"
                  \/ seq - low < 2 * Granularity /\ Ends(Result(low, seq, TRUE))
            \/ arm \in Arm /\ pc = "wait" /\ Ends(Unpublished)
            \/ results' = Fresh /\ arm' = 1 /\ low' = 0 /\ step' = "start" /\ pc' = "look"
<1> USE DEF Base
<1>1. CASE FindRecord \/ LaunchProbe \/ WorkerAnswers \/ WorkerFlakes \/ RefusedAgain
  BY <1>1 DEF FindRecord, LaunchProbe, WorkerAnswers, WorkerFlakes, RefusedAgain, Look,
              Answer, search
<1>2. CASE ArmRefused
  BY <1>2 DEF ArmRefused, Answer, Publish, Ends, TypeOK
<1>3. CASE StartFails
  <2>1. pc = "judge" /\ UNCHANGED <<limit, disk>> /\ disk[arm][seq] # "ok" /\ arm \in Arm
    BY <1>3 DEF StartFails, Judge, TypeOK
  <2>2. Ends(Result(0, Start, TRUE)) /\ step = "start"
    BY <1>3 DEF StartFails, Publish, Ends
  <2> QED BY <2>1, <2>2
<1>4. CASE DoubleFits
  <2>1. pc = "judge" /\ UNCHANGED <<limit, disk>> /\ disk[arm][seq] = "ok" /\ arm \in Arm
    BY <1>4 DEF DoubleFits, Judge, TypeOK
  <2>2. /\ step # "bisect"
        /\ \/ Moves(seq, 2 * seq, "double")
           \/ 2 * seq > Ceiling /\ Ends(Result(seq, 0, FALSE))
    BY <1>4 DEF DoubleFits, DoubleOn, Publish, Probe, Ends, Moves
  <2> QED BY <2>1, <2>2
<1>5. CASE DoubleFails
  <2>1. low \in Nat /\ seq \in Nat /\ low < seq /\ NarrowOn(low, seq)
    BY <1>5 DEF DoubleFails, TypeOK, StepInv
  <2>2. pc = "judge" /\ UNCHANGED <<limit, disk>> /\ disk[arm][seq] # "ok" /\ arm \in Arm
    BY <1>5 DEF DoubleFails, Judge, TypeOK
  <2>3. step # "start"
    BY <1>5 DEF DoubleFails
  <2> QED BY <2>1, <2>2, <2>3, NarrowEffect
<1>6. CASE MidFits
  <2>1. seq \in Nat /\ high \in Nat /\ seq < high /\ NarrowOn(seq, high)
    BY <1>6 DEF MidFits, TypeOK, StepInv
  <2>2. pc = "judge" /\ UNCHANGED <<limit, disk>> /\ disk[arm][seq] = "ok" /\ arm \in Arm
    BY <1>6 DEF MidFits, Judge, TypeOK
  <2>3. step = "bisect"
    BY <1>6 DEF MidFits
  <2> QED BY <2>1, <2>2, <2>3, NarrowEffect
<1>7. CASE MidFails
  <2>1. low \in Nat /\ seq \in Nat /\ low < seq /\ NarrowOn(low, seq)
    BY <1>7 DEF MidFails, TypeOK, StepInv
  <2>2. pc = "judge" /\ UNCHANGED <<limit, disk>> /\ disk[arm][seq] # "ok" /\ arm \in Arm
    BY <1>7 DEF MidFails, Judge, TypeOK
  <2>3. step # "start"
    BY <1>7 DEF MidFails
  <2> QED BY <2>1, <2>2, <2>3, NarrowEffect
<1>8. CASE Rerun
  BY <1>8 DEF Rerun
<1>9. CASE UNCHANGED vars
  BY <1>9 DEF vars, search, TypeOK
<1> QED BY <1>1, <1>2, <1>3, <1>4, <1>5, <1>6, <1>7, <1>8, <1>9 DEF Next, Sweep

\* The number a step publishes for the arm it ends.
LEMMA GapStep == Base /\ GapInv /\ [Next]_vars => GapInv'
<1> SUFFICES ASSUME Base, GapInv, [Next]_vars, NEW a \in Arm,
                    results'[a].converged, results'[a].max # 0
             PROVE  results'[a].min - results'[a].max < 2 * Granularity
  BY DEF GapInv
<1>1. CASE results'[a] = results[a]
  BY <1>1 DEF GapInv
<1>2. ASSUME NEW r, Ends(r), arm \in Arm, results'[a] # results[a]
      PROVE  results'[a] = r
  BY <1>2 DEF Ends, Base, TypeOK
<1>3. Fresh[a].converged = FALSE
  BY DEF Fresh, Unpublished, Result
<1>4. ASSUME NEW l, NEW h, NEW p, Moves(l, h, p) PROVE results'[a] = results[a]
  BY <1>4 DEF Moves
<1>5. SUFFICES ASSUME results'[a] # results[a]
               PROVE  results'[a].min - results'[a].max < 2 * Granularity
  BY <1>1
<1>6. \/ results'[a] = Result(seq, 0, FALSE)
      \/ high - seq < 2 * Granularity /\ results'[a] = Result(seq, high, TRUE)
      \/ results'[a] = Result(0, Start, TRUE)
      \/ seq - low < 2 * Granularity /\ results'[a] = Result(low, seq, TRUE)
      \/ results'[a] = Unpublished
  BY <1>2, <1>3, <1>4, <1>5, SearchEffect
<1> QED BY <1>6 DEF Result, Unpublished

LEMMA GapInit == Init => GapInv
  BY DEF Init, GapInv, Fresh, Unpublished, Result

LEMMA GapHolds == GapInv => GapIsBounded
  BY DEF GapInv, GapIsBounded, Known

\* The gap left between the published ends, whatever the start.
THEOREM SweepGapIsBounded == Spec => []GapIsBounded
<1>1. Spec => [](Base /\ GapInv)
  BY GapInit, BaseInit, BaseStep, GapStep, PTL DEF Spec
<1> QED BY <1>1, GapHolds, PTL

\* What an ok record says, and with it the lower end.
LEMMA FitStep == Base /\ FitInv /\ [Next]_vars => FitInv'
<1> SUFFICES ASSUME Base, FitInv, [Next]_vars PROVE FitInv'
  OBVIOUS
<1>1. limit' = limit /\ limit \in [Arm -> Nat]
  BY SearchEffect DEF Base, TypeOK
<1>2. \A a \in Arm, n \in Length : disk'[a][n] = "ok" => n <= limit[a]
  <2> USE DEF FitInv, Base, TypeOK
  <2>1. CASE LaunchProbe
    BY <2>1 DEF LaunchProbe, Look
  <2>2. CASE WorkerAnswers
    BY <2>2 DEF WorkerAnswers, Answer
  <2>3. CASE WorkerFlakes
    BY <2>3 DEF WorkerFlakes, Answer
  <2>4. CASE RefusedAgain
    BY <2>4 DEF RefusedAgain, Answer
  <2>5. CASE ArmRefused
    BY <2>5 DEF ArmRefused, Answer
  <2>6. CASE disk' = disk
    BY <2>6
  <2>7. \/ LaunchProbe \/ WorkerAnswers \/ WorkerFlakes \/ RefusedAgain \/ ArmRefused
        \/ disk' = disk
    BY DEF Next, Sweep, vars, FindRecord, StartFails, DoubleFits, DoubleFails, MidFits,
           MidFails, Judge, Rerun
  <2> QED BY <2>1, <2>2, <2>3, <2>4, <2>5, <2>6, <2>7
<1>3. arm' \in Arm => low' <= limit[arm']
  <2>1. disk[arm][seq] = "ok" /\ arm \in Arm => seq <= limit[arm]
    BY DEF FitInv, Base, TypeOK
  <2>2. arm \in Arm => low <= limit[arm]
    BY DEF FitInv
  <2>3. \/ arm' = arm /\ low' = low
        \/ arm' = arm /\ arm \in Arm /\ low' = seq /\ disk[arm][seq] = "ok"
        \/ low' = 0
    BY SearchEffect DEF Moves, Ends
  <2> QED BY <1>1, <2>1, <2>2, <2>3
<1> QED BY <1>1, <1>2, <1>3 DEF FitInv

LEMMA FitInit == Init => FitInv
<1> SUFFICES ASSUME Init PROVE FitInv
  OBVIOUS
<1>1. limit[1] \in Nat /\ arm = 1 /\ low = 0
  <2>1. 1 \in Arm /\ limit \in [Arm -> Limits]
    BY DEF Init
  <2> QED BY <2>1 DEF Init
<1>2. \A a \in Arm, n \in Length : disk[a][n] # "ok"
  BY DEF Init
<1>3. arm \in Arm => low <= limit[arm]
  BY <1>1
<1> QED BY <1>2, <1>3 DEF FitInv

LEMMA MaxFitsInit == Init => PublishedMaxFits
<1> SUFFICES ASSUME Init, NEW a \in Arm PROVE results[a].max <= limit[a]
  BY DEF PublishedMaxFits
<1>1. results[a].max = 0
  BY DEF Init, Fresh, Unpublished, Result
<1>2. limit[a] \in Nat
  BY DEF Init
<1> QED BY <1>1, <1>2

LEMMA MaxFitsStep == Base /\ FitInv /\ PublishedMaxFits /\ [Next]_vars => PublishedMaxFits'
<1> SUFFICES ASSUME Base, FitInv, PublishedMaxFits, [Next]_vars, NEW a \in Arm
             PROVE  results'[a].max <= limit'[a]
  BY DEF PublishedMaxFits
<1>1. limit' = limit /\ limit[a] \in Nat
  BY SearchEffect DEF Base, TypeOK
<1>2. CASE results'[a] = results[a]
  BY <1>1, <1>2 DEF PublishedMaxFits
<1>3. ASSUME NEW r, Ends(r), arm \in Arm, results'[a] # results[a]
      PROVE  results'[a] = r /\ a = arm
  BY <1>3 DEF Ends, Base, TypeOK
<1>4. ASSUME NEW l, NEW h, NEW p, Moves(l, h, p) PROVE results'[a] = results[a]
  BY <1>4 DEF Moves
<1>5. CASE results'[a] # results[a]
  <2>1. \/ a = arm /\ disk[arm][seq] = "ok" /\ results'[a] = Result(seq, 0, FALSE)
        \/ a = arm /\ disk[arm][seq] = "ok" /\ results'[a] = Result(seq, high, TRUE)
        \/ results'[a] = Result(0, Start, TRUE)
        \/ a = arm /\ results'[a] = Result(low, seq, TRUE)
        \/ results'[a] = Unpublished
        \/ results' = Fresh
    BY <1>3, <1>4, <1>5, SearchEffect
  <2>2. a = arm => low <= limit[a]
    BY DEF FitInv
  <2>3. a = arm /\ disk[arm][seq] = "ok" => seq <= limit[a]
    BY DEF FitInv, Base, TypeOK
  <2>4. \/ results'[a].max = 0
        \/ a = arm /\ disk[arm][seq] = "ok" /\ results'[a].max = seq
        \/ a = arm /\ results'[a].max = low
    BY <2>1 DEF Result, Unpublished, Fresh
  <2> QED BY <1>1, <2>2, <2>3, <2>4
<1> QED BY <1>2, <1>5

\* A length published as fitting fits, whatever else made probes fail.
THEOREM SweepMaxFits == Spec => []PublishedMaxFits
<1>1. Spec => [](Base /\ FitInv /\ PublishedMaxFits)
  BY MaxFitsInit, MaxFitsStep, BaseInit, BaseStep, FitInit, FitStep, PTL DEF Spec
<1> QED BY <1>1, PTL

-----------------------------------------------------------------------------
(* The records behind what is published. *)

\* The records of the two ends, and of the length that is judged; an arm that
\* is not done has published nothing.
EvidenceInv ==
  /\ \A a \in Arm : a >= arm => results[a] = Unpublished
  /\ arm \in Arm /\ low # 0 => disk[arm][low] = "ok"
  /\ step = "bisect" => disk[arm][high] = "error"
  /\ pc = "wait" => disk[arm][seq] # "ok"
  /\ pc = "judge" => disk[arm][seq] \in {"ok", "error"}
  /\ VerdictsHaveEvidence

\* Only the record of the length being probed changes, and an ok one does not.
LEMMA RecordEffect ==
  ASSUME Base, EvidenceInv, [Next]_vars
  PROVE  \/ disk' = disk /\ (pc' = "wait" => pc = "wait" /\ UNCHANGED <<arm, seq>>)
         \/ /\ disk[arm][seq] # "ok" /\ arm \in Arm /\ pc \in {"look", "wait"}
            /\ \E status \in Status :
                 /\ disk' = [disk EXCEPT ![arm][seq] = status]
                 /\ pc' = "wait" => status = "absent" /\ UNCHANGED <<arm, seq>>
                 /\ pc' = "judge" => status \in {"ok", "error"} /\ UNCHANGED <<arm, seq>>
<1> USE DEF Base, EvidenceInv, Status
<1>1. CASE LaunchProbe
  <2>1. /\ disk' = [disk EXCEPT ![arm][seq] = "absent"] /\ pc' = "wait"
        /\ UNCHANGED <<arm, seq>> /\ disk[arm][seq] # "ok" /\ pc = "look" /\ arm \in Arm
    BY <1>1 DEF LaunchProbe, Look, search, TypeOK
  <2> QED BY <2>1
<1>2. CASE WorkerAnswers \/ WorkerFlakes
  <2>1. PICK status \in {"ok", "error"} : disk' = [disk EXCEPT ![arm][seq] = status]
    BY <1>2 DEF WorkerAnswers, WorkerFlakes, Answer
  <2>2. pc = "wait" /\ pc' = "judge" /\ UNCHANGED <<arm, seq>> /\ arm \in Arm
    BY <1>2 DEF WorkerAnswers, WorkerFlakes, Answer, search, TypeOK
  <2> QED BY <2>1, <2>2
<1>3. CASE RefusedAgain \/ ArmRefused
  <2>1. /\ disk' = [disk EXCEPT ![arm][seq] = "refused_environment"]
        /\ pc = "wait" /\ pc' \in {"look", "over"} /\ arm \in Arm
    BY <1>3 DEF RefusedAgain, ArmRefused, Answer, Publish, TypeOK
  <2> QED BY <2>1
<1>4. \/ LaunchProbe \/ WorkerAnswers \/ WorkerFlakes \/ RefusedAgain \/ ArmRefused
      \/ disk' = disk /\ (pc' = "wait" => pc = "wait" /\ UNCHANGED <<arm, seq>>)
  BY DEF Next, Sweep, vars, search, FindRecord, StartFails, DoubleFits, DoubleFails, MidFits,
         MidFails, Judge, Rerun, DoubleOn, NarrowOn, Probe, Publish
<1> QED BY <1>1, <1>2, <1>3, <1>4

\* A length that trained keeps its record.
LEMMA FittingStaysKept ==
  ASSUME Base, EvidenceInv, [Next]_vars
  PROVE  FittingKept
<1> SUFFICES ASSUME NEW a \in Arm, NEW n \in Length, disk[a][n] = "ok"
             PROVE  disk'[a][n] = "ok"
  BY DEF FittingKept
<1>1. CASE disk' = disk
  BY <1>1
<1>2. ASSUME disk[arm][seq] # "ok", arm \in Arm,
             NEW status, disk' = [disk EXCEPT ![arm][seq] = status]
      PROVE  disk'[a][n] = "ok"
  BY <1>2 DEF Base, TypeOK
<1> QED BY <1>1, <1>2, RecordEffect

LEMMA EvidenceInit == Init => EvidenceInv
<1> SUFFICES ASSUME Init PROVE EvidenceInv
  OBVIOUS
<1>1. \A a \in Arm : results[a] = Unpublished
  BY DEF Init, Fresh
<1>2. VerdictsHaveEvidence
  BY <1>1 DEF VerdictsHaveEvidence, Unpublished, Result
<1> QED BY <1>1, <1>2 DEF Init, EvidenceInv

LEMMA EvidenceStep == Base /\ EvidenceInv /\ [Next]_vars => EvidenceInv'
<1> SUFFICES ASSUME Base, EvidenceInv, [Next]_vars PROVE EvidenceInv'
  OBVIOUS
<1>1. Base'
  BY BaseStep
<1>2. \A a \in Arm, n \in Length :
         (a # arm \/ n # seq) => disk'[a][n] = disk[a][n]
  BY RecordEffect DEF Base, TypeOK
<1>3. \A a \in Arm, n \in Length : disk[a][n] = "ok" => disk'[a][n] = "ok"
  BY FittingStaysKept DEF FittingKept
<1>4. pc' = "wait" => disk'[arm'][seq'] # "ok"
  BY RecordEffect DEF EvidenceInv, Base, TypeOK
<1>5. pc' = "judge" => disk'[arm'][seq'] \in {"ok", "error"}
  <2> SUFFICES ASSUME pc' = "judge" PROVE disk'[arm'][seq'] \in {"ok", "error"}
    OBVIOUS
  <2>1. \/ FindRecord \/ WorkerAnswers \/ WorkerFlakes \/ UNCHANGED vars
    BY DEF Next, Sweep, LaunchProbe, RefusedAgain, ArmRefused, StartFails, DoubleFits,
           DoubleFails, MidFits, MidFails, Rerun, DoubleOn, NarrowOn, Probe, Publish
  <2>2. CASE FindRecord
    BY <2>2 DEF FindRecord, search
  <2>3. CASE WorkerAnswers \/ WorkerFlakes
    <3>1. PICK status \in {"ok", "error"} : disk' = [disk EXCEPT ![arm][seq] = status]
      BY <2>3 DEF WorkerAnswers, WorkerFlakes, Answer
    <3>2. UNCHANGED <<arm, seq>> /\ arm \in Arm
      BY <2>3 DEF WorkerAnswers, WorkerFlakes, Answer, search, Base, TypeOK
    <3> QED BY <3>1, <3>2 DEF Base, TypeOK
  <2>4. CASE UNCHANGED vars
    BY <2>4 DEF vars, search, EvidenceInv
  <2> QED BY <2>1, <2>2, <2>3, <2>4
<1>e. ASSUME NEW r, Ends(r), arm \in Arm
      PROVE  /\ \A a \in Arm : a # arm => results'[a] = results[a]
             /\ results'[arm] = r /\ arm' = arm + 1 /\ low' = 0 /\ step' = "start"
  BY <1>e DEF Ends, Base, TypeOK
<1>f. ASSUME results' = Fresh
      PROVE  \A a \in Arm : results'[a] = Unpublished
  BY <1>f DEF Fresh
<1>6. \A a \in Arm : a >= arm' => results'[a] = Unpublished
  <2>1. CASE arm' = arm /\ results' = results
    BY <2>1 DEF EvidenceInv
  <2>2. CASE results' = Fresh
    BY <2>2, <1>f
  <2>3. ASSUME NEW r, Ends(r), arm \in Arm
        PROVE  \A a \in Arm : a >= arm' => results'[a] = Unpublished
    BY <2>3, <1>e DEF EvidenceInv
  <2> QED BY <2>1, <2>2, <2>3, SearchEffect DEF Moves
<1>7. arm' \in Arm /\ low' # 0 => disk'[arm'][low'] = "ok"
  <2>1. \/ arm' = arm /\ low' = low
        \/ arm' = arm /\ low' = seq /\ disk[arm][seq] = "ok"
        \/ low' = 0
    BY SearchEffect DEF Moves, Ends
  <2>2. low # 0 => low \in Length
    BY DEF Base, TypeOK
  <2>3. seq \in Length
    BY DEF Base, TypeOK
  <2> QED BY <1>3, <2>1, <2>2, <2>3 DEF EvidenceInv
<1>8. step' = "bisect" => disk'[arm'][high'] = "error"
  <2>1. SUFFICES ASSUME step' = "bisect" PROVE disk'[arm'][high'] = "error"
    OBVIOUS
  <2>2. \/ step = "bisect" /\ arm' = arm /\ high' = high /\ low' = low
        \/ step = "bisect" /\ arm' = arm /\ high' = high /\ disk' = disk
        \/ /\ pc = "judge" /\ disk' = disk /\ disk[arm][seq] # "ok"
           /\ arm' = arm /\ high' = seq
    BY <2>1, SearchEffect DEF Moves, Ends
  <2>3. CASE step = "bisect" /\ arm' = arm /\ high' = high
    <3>1. high \in Length /\ seq # high /\ arm \in Arm
      BY <2>3 DEF Base, TypeOK, StepInv
    <3>2. disk'[arm][high] = disk[arm][high]
      BY <1>2, <3>1
    <3> QED BY <2>3, <3>2 DEF EvidenceInv
  <2>4. CASE /\ pc = "judge" /\ disk' = disk /\ disk[arm][seq] # "ok"
             /\ arm' = arm /\ high' = seq
    BY <2>4 DEF EvidenceInv
  <2> QED BY <2>2, <2>3, <2>4
<1>9. VerdictsHaveEvidence'
  <2> SUFFICES ASSUME NEW a \in Arm
               PROVE  /\ results'[a].max # 0 => disk'[a][results'[a].max] = "ok"
                      /\ results'[a].min # 0 => disk'[a][results'[a].min] = "error"
    BY DEF VerdictsHaveEvidence
  <2>1. CASE results'[a] = results[a]
    <3>1. results[a].max \in {0} \cup Length /\ results[a].min \in {0} \cup Length
      BY DEF Base, TypeOK, Published
    <3>2. results[a].max # 0 => disk'[a][results[a].max] = "ok"
      BY <1>3, <3>1 DEF EvidenceInv, VerdictsHaveEvidence
    <3>3. results[a].min # 0 => a # arm
      BY DEF EvidenceInv, Unpublished, Result
    <3>4. results[a].min # 0 => disk'[a][results[a].min] = "error"
      BY <1>2, <3>1, <3>3 DEF EvidenceInv, VerdictsHaveEvidence
    <3> QED BY <2>1, <3>2, <3>4
  <2>2. CASE results'[a] = Unpublished
    BY <2>2 DEF Unpublished, Result
  <2>3. ASSUME NEW r, Ends(r), arm \in Arm, results'[a] # results[a]
        PROVE  results'[a] = r /\ a = arm
    BY <2>3, <1>e
  <2>4. ASSUME NEW l, NEW h, NEW q, Moves(l, h, q) PROVE results'[a] = results[a]
    BY <2>4 DEF Moves
  <2>5. CASE results'[a] # results[a] /\ results'[a] # Unpublished
    <3>1. /\ a = arm /\ pc = "judge" /\ disk' = disk
          /\ \/ disk[arm][seq] = "ok" /\ results'[a] = Result(seq, 0, FALSE)
             \/ /\ disk[arm][seq] = "ok" /\ step = "bisect"
                /\ results'[a] = Result(seq, high, TRUE)
             \/ /\ disk[arm][seq] # "ok" /\ step = "start"
                /\ results'[a] = Result(0, Start, TRUE)
             \/ disk[arm][seq] # "ok" /\ results'[a] = Result(low, seq, TRUE)
      BY <1>f, <2>3, <2>4, <2>5, SearchEffect
    <3>2. disk[arm][seq] # "ok" => disk[arm][seq] = "error"
      BY <3>1 DEF EvidenceInv
    <3>3. step = "start" => seq = Start
      BY DEF Base, StepInv
    <3>4. low # 0 => disk[arm][low] = "ok"
      BY <3>1 DEF EvidenceInv
    <3>5. step = "bisect" => disk[arm][high] = "error"
      BY DEF EvidenceInv
    <3>6. \/ /\ disk[arm][seq] = "ok" /\ results'[a].max = seq /\ results'[a].min = 0
          \/ /\ disk[arm][seq] = "ok" /\ step = "bisect"
             /\ results'[a].max = seq /\ results'[a].min = high
          \/ /\ disk[arm][seq] # "ok" /\ step = "start"
             /\ results'[a].max = 0 /\ results'[a].min = Start
          \/ /\ disk[arm][seq] # "ok" /\ results'[a].max = low /\ results'[a].min = seq
      BY <3>1 DEF Result
    <3> QED BY <3>1, <3>2, <3>3, <3>4, <3>5, <3>6
  <2> QED BY <2>1, <2>2, <2>5
<1> QED BY <1>4, <1>5, <1>6, <1>7, <1>8, <1>9 DEF EvidenceInv

\* Both published lengths have the record that they are published for.
THEOREM SweepHasEvidence == Spec => []VerdictsHaveEvidence
<1>1. Spec => [](Base /\ EvidenceInv)
  BY BaseInit, BaseStep, EvidenceInit, EvidenceStep, PTL DEF Spec
<1>2. EvidenceInv => VerdictsHaveEvidence
  BY DEF EvidenceInv
<1> QED BY <1>1, <1>2, PTL

\* An end is missing only where the doubling passed the ceiling.
LEMMA CeilingInit == Init => NoEndMeansCeiling
  BY DEF Init, NoEndMeansCeiling, Fresh, Unpublished, Result

LEMMA CeilingStep == Base /\ NoEndMeansCeiling /\ [Next]_vars => NoEndMeansCeiling'
<1> SUFFICES ASSUME Base, NoEndMeansCeiling, [Next]_vars, NEW a \in Arm, results'[a].min = 0
             PROVE  results'[a].max = 0 \/ 2 * results'[a].max > Ceiling
  BY DEF NoEndMeansCeiling
<1>1. CASE results'[a] = results[a]
  BY <1>1 DEF NoEndMeansCeiling
<1>2. ASSUME NEW r, Ends(r), arm \in Arm, results'[a] # results[a]
      PROVE  results'[a] = r /\ a = arm
  BY <1>2 DEF Ends, Base, TypeOK
<1>3. ASSUME NEW l, NEW h, NEW q, Moves(l, h, q) PROVE results'[a] = results[a]
  BY <1>3 DEF Moves
<1>4. CASE results'[a] # results[a]
  <2>1. \/ 2 * seq > Ceiling /\ results'[a] = Result(seq, 0, FALSE)
        \/ step = "bisect" /\ results'[a] = Result(seq, high, TRUE)
        \/ results'[a] = Result(0, Start, TRUE)
        \/ results'[a] = Result(low, seq, TRUE)
        \/ results'[a] = Unpublished
        \/ results' = Fresh
    BY <1>2, <1>3, <1>4, SearchEffect
  <2>2. seq # 0 /\ (step = "bisect" => high # 0)
    BY DEF Base, TypeOK, StepInv
  <2> QED BY <2>1, <2>2 DEF Result, Unpublished, Fresh
<1> QED BY <1>1, <1>4

-----------------------------------------------------------------------------
(* Without flaky probes. *)

\* A length judged not to fit does not.
LEMMA FailStep ==
  ASSUME Flakes = 0
  PROVE  Base /\ FitInv /\ FailInv /\ [Next]_vars => FailInv'
<1> SUFFICES ASSUME Base, FitInv, FailInv, [Next]_vars PROVE FailInv'
  OBVIOUS
<1>1. limit' = limit
  BY SearchEffect
<1>2. pc' = "judge" /\ disk'[arm'][seq'] # "ok" => limit'[arm'] < seq'
  <2> SUFFICES ASSUME pc' = "judge", disk'[arm'][seq'] # "ok"
               PROVE  limit'[arm'] < seq'
    OBVIOUS
  <2>1. \/ FindRecord \/ WorkerAnswers \/ WorkerFlakes \/ UNCHANGED vars
    BY DEF Next, Sweep, LaunchProbe, RefusedAgain, ArmRefused, StartFails, DoubleFits,
           DoubleFails, MidFits, MidFails, Rerun, DoubleOn, NarrowOn, Probe, Publish
  <2>2. CASE FindRecord
    BY <2>2 DEF FindRecord, search
  <2>3. CASE WorkerAnswers
    <3>1. /\ arm \in Arm /\ seq \in Length /\ limit[arm] \in Nat
          /\ disk' = [disk EXCEPT ![arm][seq] = IF seq <= limit[arm] THEN "ok" ELSE "error"]
          /\ arm' = arm /\ seq' = seq
      <4>1. arm \in Arm /\ seq \in Length /\ limit \in [Arm -> Limits]
        BY <2>3 DEF WorkerAnswers, Answer, Base, TypeOK
      <4> QED BY <2>3, <4>1 DEF WorkerAnswers, Answer, search
    <3> QED BY <1>1, <3>1 DEF Base, TypeOK
  <2>4. CASE WorkerFlakes
    BY <2>4 DEF WorkerFlakes, Base, TypeOK
  <2>5. CASE UNCHANGED vars
    BY <2>5 DEF vars, search, FailInv
  <2> QED BY <2>1, <2>2, <2>3, <2>4, <2>5
<1>3. step' = "bisect" => limit'[arm'] < high'
  BY <1>1, SearchEffect DEF FailInv, Moves, Ends
<1> QED BY <1>2, <1>3 DEF FailInv

FlawlessInv == Base /\ FitInv /\ FailInv

LEMMA FailInit == Init => FailInv
  BY DEF Init, FailInv

LEMMA FlawlessInvariant == Flakes = 0 /\ Spec => []FlawlessInv
<1>1. SUFFICES ASSUME Flakes = 0 PROVE Spec => []FlawlessInv
  OBVIOUS
<1>2. FlawlessInv /\ [Next]_vars => FlawlessInv'
  BY <1>1, BaseStep, FitStep, FailStep DEF FlawlessInv
<1> QED BY <1>2, FailInit, BaseInit, FitInit, PTL DEF Spec, FlawlessInv

LEMMA BracketKept ==
  FlawlessInv /\ PublishedBracket /\ [Next]_vars => PublishedBracket'
<1> SUFFICES ASSUME FlawlessInv, PublishedBracket, [Next]_vars,
                    NEW a \in Arm, results'[a].converged
             PROVE  results'[a].max <= limit'[a] /\ limit'[a] < results'[a].min
  BY DEF PublishedBracket, Known
<1>1. limit' = limit /\ limit[a] \in Nat
  BY SearchEffect DEF FlawlessInv, Base, TypeOK
<1>2. CASE results'[a] = results[a]
  BY <1>1, <1>2 DEF PublishedBracket, Known
<1>3. ASSUME NEW r, Ends(r), arm \in Arm, results'[a] # results[a]
      PROVE  results'[a] = r /\ a = arm
  BY <1>3 DEF Ends, FlawlessInv, Base, TypeOK
<1>4. ASSUME NEW l, NEW h, NEW p, Moves(l, h, p) PROVE results'[a] = results[a]
  BY <1>4 DEF Moves
<1>5. CASE results'[a] # results[a]
  <2>1. Base
    BY DEF FlawlessInv
  <2>2. \/ results'[a] = Result(seq, 0, FALSE)
        \/ /\ a = arm /\ pc = "judge" /\ disk[arm][seq] = "ok" /\ step = "bisect"
           /\ results'[a] = Result(seq, high, TRUE)
        \/ /\ a = arm /\ pc = "judge" /\ disk[arm][seq] # "ok" /\ step = "start"
           /\ results'[a] = Result(0, Start, TRUE)
        \/ /\ a = arm /\ pc = "judge" /\ disk[arm][seq] # "ok"
           /\ results'[a] = Result(low, seq, TRUE)
        \/ results'[a] = Unpublished
        \/ results' = Fresh
    BY <1>3, <1>4, <1>5, <2>1, SearchEffect
  <2>3. a = arm => low <= limit[a]
    BY DEF FlawlessInv, FitInv
  <2>4. a = arm /\ pc = "judge" /\ disk[arm][seq] # "ok" => limit[a] < seq
    BY DEF FlawlessInv, FailInv
  <2>5. a = arm /\ step = "bisect" => limit[a] < high
    BY DEF FlawlessInv, FailInv
  <2>6. a = arm /\ disk[arm][seq] = "ok" => seq <= limit[a]
    BY DEF FlawlessInv, FitInv, Base, TypeOK
  <2>7. step = "start" => seq = Start
    BY DEF FlawlessInv, Base, StepInv
  <2>8. \/ results'[a].converged = FALSE
        \/ /\ a = arm /\ disk[arm][seq] = "ok" /\ step = "bisect"
           /\ results'[a].max = seq /\ results'[a].min = high
        \/ /\ a = arm /\ pc = "judge" /\ disk[arm][seq] # "ok" /\ step = "start"
           /\ results'[a].max = 0 /\ results'[a].min = Start
        \/ /\ a = arm /\ pc = "judge" /\ disk[arm][seq] # "ok"
           /\ results'[a].max = low /\ results'[a].min = seq
    BY <2>2 DEF Result, Unpublished, Fresh
  <2> QED BY <1>1, <2>3, <2>4, <2>5, <2>6, <2>7, <2>8
<1> QED BY <1>2, <1>5

LEMMA BracketInit == Init => PublishedBracket
  BY DEF Init, PublishedBracket, Known, Fresh, Unpublished, Result

\* What a sweep publishes brackets the limit of the arm.
THEOREM SweepBrackets == Flakes = 0 /\ Spec => []PublishedBracket
<1>1. SUFFICES ASSUME Flakes = 0 PROVE Spec => []PublishedBracket
  OBVIOUS
<1>2. Spec => []FlawlessInv
  BY <1>1, FlawlessInvariant
<1> QED BY BracketInit, BracketKept, <1>2, PTL DEF Spec

\* While it searches, the limit of the arm lies in the bracket.
LEMMA LimitStaysInside == FlawlessInv => Bracket!LimitInside
<1> SUFFICES ASSUME FlawlessInv PROVE Bracket!LimitInside
  OBVIOUS
<1>1. CASE arm \in Arm
  BY <1>1 DEF FlawlessInv, FitInv, FailInv, Bracket!LimitInside
<1>2. CASE arm \notin Arm
  <2>1. pc = "over"
    BY <1>2 DEF FlawlessInv, Base, TypeOK
  <2>2. step = "start" /\ low = 0
    BY <2>1 DEF FlawlessInv, Base, StepInv
  <2> QED BY <1>2, <2>2 DEF Bracket!LimitInside
<1> QED BY <1>1, <1>2

-----------------------------------------------------------------------------
(* The sweep implements the search of a bracket. *)

Lo == low
Hi == IF step = "bisect" THEN high ELSE 0
Limit == IF arm \in Arm THEN limit[arm] ELSE 0

LEMMA BracketStep ==
  ASSUME FlawlessInv, [Next]_vars
  PROVE  [Bracket!Narrow \/ Bracket!Restart]_(Bracket!vars)
<1> USE DEF FlawlessInv
<1>1. limit' = limit /\ Limit \in Nat /\ Limit' \in Nat
  <2>1. limit' = limit /\ limit \in [Arm -> Limits]
    BY SearchEffect DEF Base, TypeOK
  <2> QED BY <2>1 DEF Limit
<1>2. low \in Nat /\ high \in Nat /\ seq \in Nat
  BY DEF Base, TypeOK
<1>3. SUFFICES \/ Lo < Lo' /\ Lo' \in Nat /\ (Hi = 0 \/ Lo' < Hi) /\ Lo' <= Limit
                  /\ Hi' = Hi /\ Limit' = Limit
               \/ Lo < Hi' /\ Hi' \in Nat /\ (Hi = 0 \/ Hi' < Hi) /\ Limit < Hi'
                  /\ Lo' = Lo /\ Limit' = Limit
               \/ Lo' = 0 /\ Hi' = 0
               \/ Lo' = Lo /\ Hi' = Hi /\ Limit' = Limit
  BY <1>1 DEF Bracket!Narrow, Bracket!Restart, Bracket!vars, Bracket!Fits, Bracket!Fails,
              Bracket!Inside, Lo, Hi, Limit
<1>4. ASSUME NEW r, Ends(r) PROVE Lo' = 0 /\ Hi' = 0
  BY <1>4 DEF Ends, Lo, Hi
<1>5. CASE UNCHANGED <<arm, results, low, high, step>>
  BY <1>1, <1>5 DEF Lo, Hi, Limit
<1>6. CASE /\ pc = "judge" /\ disk[arm][seq] = "ok" /\ arm \in Arm
           /\ Moves(seq, 2 * seq, "double") /\ step # "bisect"
  <2>1. seq <= limit[arm]
    BY <1>6 DEF FitInv, Base, TypeOK
  <2>2. low < seq
    BY <1>2, <1>6 DEF Base, StepInv, TypeOK
  <2> QED BY <1>1, <1>2, <1>6, <2>1, <2>2 DEF Moves, Lo, Hi, Limit
<1>7. CASE /\ pc = "judge" /\ disk[arm][seq] = "ok" /\ arm \in Arm
           /\ Moves(seq, high, "bisect") /\ step = "bisect"
  <2>1. seq <= limit[arm]
    BY <1>7 DEF FitInv, Base, TypeOK
  <2>2. low < seq /\ seq < high
    BY <1>7 DEF Base, StepInv
  <2> QED BY <1>1, <1>2, <1>7, <2>1, <2>2 DEF Moves, Lo, Hi, Limit
<1>8. CASE /\ pc = "judge" /\ disk[arm][seq] # "ok" /\ arm \in Arm
           /\ Moves(low, seq, "bisect") /\ step # "start"
  <2>1. limit[arm] < seq
    BY <1>8 DEF FailInv
  <2>2. low < seq /\ (step = "bisect" => seq < high)
    BY <1>2, <1>8 DEF Base, StepInv, TypeOK
  <2> QED BY <1>1, <1>2, <1>8, <2>1, <2>2 DEF Moves, Lo, Hi, Limit
<1>9. CASE results' = Fresh /\ low' = 0 /\ step' = "start"
  BY <1>9 DEF Lo, Hi
<1> QED BY <1>4, <1>5, <1>6, <1>7, <1>8, <1>9, SearchEffect

\* Without flaky probes the sweep implements the abstract search.
THEOREM SweepImplementsBracket == Flakes = 0 /\ Spec => BracketSpec
<1>1. Init => Bracket!Init
  <2> SUFFICES ASSUME Init PROVE Bracket!Init
    OBVIOUS
  <2>1. 1 \in Arm /\ limit \in [Arm -> Limits] /\ arm = 1 /\ low = 0 /\ step = "start"
    BY DEF Init
  <2> QED BY <2>1 DEF Bracket!Init
<1>2. FlawlessInv /\ [Next]_vars => [Bracket!Narrow \/ Bracket!Restart]_(Bracket!vars)
  BY BracketStep
<1>3. SUFFICES ASSUME Flakes = 0 PROVE Spec => BracketSpec
  OBVIOUS
<1>4. Spec => []FlawlessInv
  BY <1>3, FlawlessInvariant
<1> QED BY <1>1, <1>2, <1>4, PTL DEF Spec, BracketSpec, Bracket!Spec

=============================================================================
