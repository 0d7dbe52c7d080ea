------------------------------ MODULE SweepProofs ------------------------------
(***************************************************************************)
(* Proofs about the sweep and what is built on it, for any constants: that *)
(* a sweep whose workers outlive who waits for them accounts for every     *)
(* condition and launches none twice, that a report compares like with     *)
(* like and its exit code is the worst, and that what a contributor        *)
(* publishes is of the call that publishes it.                             *)
(***************************************************************************)
EXTENDS SweepMC, Sequences, TLAPS, FiniteSetTheorems, FunctionTheorems, WellFoundedInduction

(***************************************************************************)
(* The contributor's calls.                                                *)
(***************************************************************************)

USE ContributionAssumption

Written == [status : {"ok", "refused", "error", "aborted"},
            session : {Contribute!Nobody} \cup [tier : Tiers, version : DOMAIN Grids], by : Nat]

Run == [session : {Contribute!Nobody} \cup [tier : Tiers, version : DOMAIN Grids],
        script : Contribute!AtWork \cup {"none", "through", "gone"},
        todo : SUBSET Contribute!Conditions,
        cond : Contribute!Conditions \cup {0},
        child : {"none", "runs", "dying"}]

\* A script with a child waits for it or has died, a script works on a condition that is
\* no longer to do, and who lives is of this call or of one that this call found alive.
RunOK(k) ==
  /\ runs[k].child # "none" =>
       runs[k].script \in {"wait", "gone"} /\ runs[k].cond \in Contribute!Conditions
  /\ runs[k].script \in {"stale", "wait", "envelope"} =>
       runs[k].cond \in Contribute!Conditions \ runs[k].todo
  /\ Contribute!Alive(k) => k \in beside \cup {calls}

BasicInv ==
  /\ calls \in 0..MaxCalls /\ version \in DOMAIN Grids
  /\ pc \in {"idle", "script", "publish"}
  /\ marker \in 0..calls /\ listed \subseteq Contribute!Conditions
  /\ beside \subseteq 1..calls /\ calls \notin beside
  /\ records \in [Contribute!Conditions -> {Contribute!Absent} \cup Written]
  /\ runs \in [1..MaxCalls -> Run]
  /\ \A k \in 1..MaxCalls : RunOK(k)

\* A condition is answered under this call's session, but for what the processes of
\* earlier calls that are still at work remove and write.
Settled(c) ==
  \/ records[c] # Contribute!Absent /\ records[c].session = runs[calls].session
  \/ beside # {} /\ (records[c] = Contribute!Absent \/ records[c].by \in beside)

\* The condition the script works on has no answer yet.
Pending(c) ==
  /\ c = runs[calls].cond
  /\ \/ runs[calls].script \in {"stale", "envelope"}
     \/ runs[calls].script = "wait" /\ records[c] = Contribute!Absent

\* What the script of this call has passed is settled.
AnsweredInv ==
  pc # "idle" =>
    /\ calls # 0 /\ runs[calls].session.version = version /\ runs[calls].script # "none"
    /\ runs[calls].script # "gone" =>
         \A c \in Grids[version] \ runs[calls].todo : Settled(c) \/ Pending(c)

\* Without earlier processes, whoever is about to write has no measurement before it.
SoloInv ==
  beside = {} /\ calls # 0 =>
    /\ runs[calls].script = "stale" => ~Contribute!Skipped(calls, runs[calls].cond)
    /\ runs[calls].script = "envelope" => records[runs[calls].cond] = Contribute!Absent
    /\ runs[calls].child = "runs" => records[runs[calls].cond] = Contribute!Absent
    /\ runs[calls].child = "dying" => records[runs[calls].cond].status = "aborted"

\* No marker is left from the begin of a call to its collecting; afterwards it says that
\* this call crashed and found nothing.
MarkerInv ==
  /\ calls # 0 /\ runs[calls].script = "through" => runs[calls].todo = {}
  /\ pc = "script" => marker = 0
  /\ pc = "publish" =>
       /\ runs[calls].script \in {"through", "gone"}
       /\ marker # 0 => marker = calls /\ runs[calls].script = "gone" /\ listed = {}
       /\ runs[calls].script = "gone" /\ listed = {} => marker = calls
       /\ runs[calls].script = "through" /\ beside = {} => Grids[version] \subseteq listed

PublishedInv ==
  /\ published.call \in 0..calls
  /\ Contribute!NoCleanEmptyBench
  /\ Contribute!MarkerIsThisCalls
  /\ Contribute!CompleteCallAnswersItsGrid

ContributionInv == BasicInv /\ AnsweredInv /\ SoloInv /\ MarkerInv /\ PublishedInv

LEMMA ConditionsAreNumbers ==
  /\ Contribute!Conditions \subseteq Nat
  /\ \A v \in DOMAIN Grids : Grids[v] \subseteq Contribute!Conditions
  BY DEF Contribute!Conditions, Contribute!Versions

\* The script takes the least condition first.
LEMMA LeastIsTaken ==
  ASSUME NEW T \in SUBSET Nat, T # {}
  PROVE  Contribute!Min(T) \in T
<1>1. PICK n \in T : \A m \in T : ~(<<m, n>> \in OpToRel(<, Nat))
  BY NatLessThanWellFounded, WFMin
<1>2. \A m \in T : ~(m < n)
  BY <1>1 DEF OpToRel
<1>3. \A m \in T : n <= m
  BY <1>2
<1> QED BY <1>3 DEF Contribute!Min

LEMMA ContributionStarts == Contribute!Init => ContributionInv
<1> SUFFICES ASSUME Contribute!Init PROVE ContributionInv
  OBVIOUS
<1>1. /\ version = 1 /\ marker = 0 /\ calls = 0 /\ pc = "idle" /\ beside = {} /\ listed = {}
      /\ records = [c \in Contribute!Conditions |-> Contribute!Absent]
  BY DEF Contribute!Init
<1>2. runs \in [1..MaxCalls -> Run]
      /\ \A k \in 1..MaxCalls : runs[k].script = "none" /\ runs[k].child = "none"
  BY DEF Contribute!Init, Contribute!Calls, Run
<1>3. BasicInv
  BY <1>1, <1>2 DEF BasicInv, RunOK, Contribute!Alive, Contribute!AtWork
<1>4. AnsweredInv /\ SoloInv /\ MarkerInv
  BY <1>1 DEF AnsweredInv, SoloInv, MarkerInv
<1>5. PublishedInv
  BY <1>1 DEF Contribute!Init, PublishedInv, Contribute!Ran, Contribute!NoCleanEmptyBench,
     Contribute!MarkerIsThisCalls, Contribute!CompleteCallAnswersItsGrid
<1> QED BY <1>3, <1>4, <1>5 DEF ContributionInv

\* What scripts and children leave alone.
LEMMA PublishedStands ==
  ASSUME PublishedInv, calls \in Nat, calls' \in {calls, calls + 1}, UNCHANGED published
  PROVE  PublishedInv'
  BY DEF PublishedInv, Contribute!Ran, Contribute!NoCleanEmptyBench,
     Contribute!MarkerIsThisCalls, Contribute!CompleteCallAnswersItsGrid,
     Contribute!WrittenBeside

LEMMA BeginStep ==
  ASSUME ContributionInv, NEW t \in Tiers, Contribute!Begin(t)
  PROVE  ContributionInv'
<1> USE DEF ContributionInv
<1> DEFINE new == [session |-> [tier |-> t, version |-> version], script |-> "grid",
                   todo |-> Grids[version], cond |-> 0, child |-> "none"]
<1>1. /\ calls' = calls + 1 /\ calls \in Nat /\ calls' \in 1..MaxCalls
      /\ pc' = "script" /\ marker' = 0
      /\ runs' = [runs EXCEPT ![calls + 1] = new]
      /\ beside' = {k \in 1..calls : Contribute!Alive(k)}
      /\ UNCHANGED <<version, records, listed, published>>
      /\ runs \in [1..MaxCalls -> Run] /\ version \in DOMAIN Grids
  BY DEF Contribute!Begin, Contribute!MarkerRemoved, BasicInv
<1>2. new \in Run
  BY <1>1, ConditionsAreNumbers DEF Run, Contribute!AtWork
<1>3. /\ runs'[calls'] = new /\ runs' \in [1..MaxCalls -> Run]
      /\ \A k \in 1..MaxCalls : k # calls' => runs'[k] = runs[k]
  BY <1>1, <1>2
<1>4. \A k \in 1..MaxCalls : RunOK(k)'
  <2> SUFFICES ASSUME NEW k \in 1..MaxCalls PROVE RunOK(k)'
    OBVIOUS
  <2>1. CASE k = calls'
    BY <1>1, <1>3, <2>1 DEF RunOK
  <2>2. CASE k # calls'
    <3>1. /\ RunOK(k) /\ runs'[k] = runs[k]
          /\ beside \subseteq 1..calls
      BY <1>3, <2>2 DEF BasicInv
    <3>2. Contribute!Alive(k)' <=> Contribute!Alive(k)
      BY <3>1 DEF Contribute!Alive
    <3>3. Contribute!Alive(k) => k \in 1..calls
      BY <1>1, <3>1 DEF RunOK
    <3>4. Contribute!Alive(k)' => k \in beside'
      BY <1>1, <3>2, <3>3
    <3> QED BY <3>1, <3>4 DEF RunOK
  <2> QED BY <2>1, <2>2
<1>5. BasicInv'
  BY <1>1, <1>3, <1>4 DEF BasicInv
<1>6. AnsweredInv' /\ SoloInv' /\ MarkerInv'
  <2> HIDE DEF new
  <2>1. /\ runs'[calls'].script = "grid" /\ runs'[calls'].todo = Grids[version]
        /\ runs'[calls'].child = "none" /\ runs'[calls'].session.version = version
    BY <1>3 DEF new
  <2> QED BY <1>1, <2>1 DEF AnsweredInv, SoloInv, MarkerInv
<1> QED BY <1>1, <1>5, <1>6, PublishedStands

-----------------------------------------------------------------------------
(* One process of call k moves: its script, its child, or the kill of its script. *)

Moves(k) == Contribute!Script(k) \/ Contribute!Child(k) \/ Contribute!ScriptDies(k)

\* What a record may become under a process of call k.
ByCall(k) == [status : {"ok", "refused", "error", "aborted"},
              session : {runs[k].session}, by : {k}]

\* A process of call k that moves is alive, and writes at most the condition of its call.
LEMMA WhoMoves ==
  ASSUME BasicInv, NEW k \in 1..calls, Moves(k)
  PROVE  /\ UNCHANGED Contribute!callVars
         /\ k \in 1..MaxCalls /\ k \in beside \cup {calls}
         /\ runs' = [runs EXCEPT ![k] = runs'[k]]
         /\ runs'[k].session = runs[k].session
         /\ \/ records' = records
            \/ /\ runs[k].cond \in Contribute!Conditions
               /\ \E x \in {Contribute!Absent} \cup ByCall(k) :
                    records' = [records EXCEPT ![runs[k].cond] = x]
<1>1. k \in 1..MaxCalls /\ runs \in [1..MaxCalls -> Run] /\ RunOK(k)
  BY DEF BasicInv
<1> USE DEF Moves, Contribute!Script, Contribute!Skip, Contribute!FindStale, Contribute!Spawn,
    Contribute!LookForRecord, Contribute!WriteEnvelope, Contribute!ScriptReturns,
    Contribute!Child, Contribute!ChildEnds, Contribute!ChildBreaches,
    Contribute!ChildOverwrites, Contribute!ChildExits, Contribute!Leaves,
    Contribute!ScriptDies
<1>2. UNCHANGED Contribute!callVars
  OBVIOUS
<1>3. Contribute!Alive(k)
  BY DEF Contribute!Alive, Contribute!AtWork
<1>4. runs' = [runs EXCEPT ![k] = runs'[k]] /\ runs'[k].session = runs[k].session
  BY <1>1 DEF Run
<1>5. \/ records' = records
      \/ /\ runs[k].cond \in Contribute!Conditions
         /\ \E x \in {Contribute!Absent} \cup ByCall(k) :
              records' = [records EXCEPT ![runs[k].cond] = x]
  BY <1>1 DEF RunOK, ByCall, Contribute!Record
<1> QED BY <1>1, <1>2, <1>3, <1>4, <1>5 DEF RunOK

LEMMA MoveKeepsTypes ==
  ASSUME BasicInv, NEW k \in 1..calls, Moves(k)
  PROVE  BasicInv'
<1>1. /\ k \in 1..MaxCalls /\ runs \in [1..MaxCalls -> Run] /\ RunOK(k) /\ runs[k] \in Run
      /\ UNCHANGED Contribute!callVars
      /\ runs' = [runs EXCEPT ![k] = runs'[k]]
  BY WhoMoves DEF BasicInv
<1>2. /\ runs'[k] \in Run
      /\ runs'[k].child # "none" =>
           runs'[k].script \in {"wait", "gone"} /\ runs'[k].cond \in Contribute!Conditions
      /\ runs'[k].script \in {"stale", "wait", "envelope"} =>
           runs'[k].cond \in Contribute!Conditions \ runs'[k].todo
      /\ Contribute!Alive(k)
  <2>1. CASE Contribute!Skip(k) \/ Contribute!FindStale(k)
    <3>1. /\ runs[k].script = "grid" /\ runs[k].todo # {}
          /\ runs[k].todo \subseteq Contribute!Conditions
      BY <1>1, <2>1 DEF Contribute!Skip, Contribute!FindStale, Run
    <3>2. Contribute!Min(runs[k].todo) \in runs[k].todo
      BY <3>1, LeastIsTaken, ConditionsAreNumbers
    <3> QED BY <1>1, <2>1, <3>1, <3>2 DEF Contribute!Skip, Contribute!FindStale, Run, RunOK,
            Contribute!AtWork, Contribute!Alive
  <2>2. CASE Contribute!Spawn(k)
    BY <1>1, <2>2 DEF Contribute!Spawn, Run, RunOK, Contribute!AtWork, Contribute!Alive
  <2>6. CASE Contribute!WriteEnvelope(k)
    BY <1>1, <2>6 DEF Contribute!WriteEnvelope, Run, RunOK, Contribute!AtWork, Contribute!Alive
  <2>7. CASE Contribute!ScriptReturns(k)
    BY <1>1, <2>7 DEF Contribute!ScriptReturns, Run, RunOK, Contribute!AtWork, Contribute!Alive
  <2>4. CASE Contribute!LookForRecord(k)
    BY <1>1, <2>4 DEF Contribute!LookForRecord, Run, RunOK, Contribute!AtWork, Contribute!Alive
  <2>5. CASE Contribute!ScriptDies(k)
    BY <1>1, <2>5 DEF Contribute!ScriptDies, Run, RunOK, Contribute!AtWork, Contribute!Alive
  <2>3. CASE Contribute!Child(k)
    BY <1>1, <2>3 DEF Contribute!Child, Contribute!ChildEnds, Contribute!ChildBreaches,
       Contribute!ChildOverwrites, Contribute!ChildExits, Contribute!Leaves, Run, RunOK,
       Contribute!AtWork, Contribute!Alive
  <2> QED BY <2>1, <2>2, <2>3, <2>4, <2>5, <2>6, <2>7 DEF Moves, Contribute!Script
<1>3. UNCHANGED <<version, marker, calls, pc, beside, listed, published>>
  BY <1>1 DEF Contribute!callVars
<1>4. records' \in [Contribute!Conditions -> {Contribute!Absent} \cup Written]
  <2>1. ByCall(k) \subseteq Written
    BY <1>1 DEF ByCall, Written, Run
  <2> QED BY <2>1, WhoMoves DEF BasicInv
<1>5. /\ runs' \in [1..MaxCalls -> Run]
      /\ \A l \in 1..MaxCalls : l # k => runs'[l] = runs[l]
  BY <1>1, <1>2
<1>6. ASSUME NEW l \in 1..MaxCalls PROVE RunOK(l)'
  <2>1. CASE l = k
    BY <1>2, <1>3, <2>1, WhoMoves DEF RunOK
  <2>2. CASE l # k
    BY <1>3, <1>5, <2>2 DEF BasicInv, RunOK, Contribute!Alive
  <2> QED BY <2>1, <2>2
<1> QED BY <1>3, <1>4, <1>5, <1>6 DEF BasicInv

\* A process of an earlier call is one that this call found alive: what it removes and
\* writes is settled as far as this call is concerned.
LEMMA EarlierMoves ==
  ASSUME ContributionInv, NEW k \in 1..calls, Moves(k), k # calls
  PROVE  AnsweredInv' /\ SoloInv' /\ MarkerInv'
<1> USE DEF ContributionInv
<1>1. /\ UNCHANGED <<version, marker, calls, pc, beside, listed, published>>
      /\ k \in beside /\ calls \in 1..MaxCalls
      /\ runs'[calls] = runs[calls]
  BY WhoMoves DEF Contribute!callVars, BasicInv
<1>2. SoloInv' /\ MarkerInv'
  BY <1>1 DEF SoloInv, MarkerInv
<1>3. ASSUME NEW c \in Contribute!Conditions, Settled(c) \/ Pending(c)
      PROVE  Settled(c)' \/ Pending(c)'
  <2>1. \/ records'[c] = records[c]
        \/ records'[c] = Contribute!Absent
        \/ records'[c].by = k
    BY WhoMoves DEF BasicInv, ByCall
  <2>2. CASE records'[c] = records[c]
    BY <1>1, <1>3, <2>2 DEF Settled, Pending, Contribute!Absent
  <2>3. CASE records'[c] = Contribute!Absent \/ records'[c].by = k
    BY <1>1, <2>3 DEF Settled, Contribute!Absent
  <2> QED BY <2>1, <2>2, <2>3
<1>4. AnsweredInv'
  <2> SUFFICES ASSUME pc # "idle", runs[calls].script # "gone",
                      NEW c \in Grids[version] \ runs[calls].todo
               PROVE  Settled(c)' \/ Pending(c)'
    BY <1>1 DEF AnsweredInv
  <2>1. c \in Contribute!Conditions
    BY ConditionsAreNumbers DEF BasicInv
  <2> QED BY <1>3, <2>1 DEF AnsweredInv
<1> QED BY <1>2, <1>4

\* A process of this call: a script passes on what it has answered, and only that.
LEMMA OwnMoves ==
  ASSUME ContributionInv, calls \in 1..MaxCalls, Moves(calls)
  PROVE  AnsweredInv' /\ SoloInv' /\ MarkerInv'
<1> USE DEF ContributionInv
<1> DEFINE k == calls
<1>1. /\ UNCHANGED <<version, marker, calls, pc, beside, listed, published>>
      /\ runs[k] \in Run /\ RunOK(k) /\ version \in DOMAIN Grids
      /\ records \in [Contribute!Conditions -> {Contribute!Absent} \cup Written]
      /\ runs \in [1..MaxCalls -> Run]
  BY WhoMoves DEF Contribute!callVars, BasicInv
<1>2. MarkerInv'
  <2> DEFINE Kept ==
        /\ runs'[k].script = "through" /\ runs[k].script # "through" => runs'[k].todo = {}
        /\ runs[k].script \in {"through", "gone"} =>
             runs'[k].script = runs[k].script /\ runs'[k].todo = runs[k].todo
  <2>1. ASSUME Contribute!Skip(k) PROVE Kept
    BY <1>1, <2>1 DEF Contribute!Skip, Run
  <2>2. ASSUME Contribute!FindStale(k) PROVE Kept
    BY <1>1, <2>2 DEF Contribute!FindStale, Run
  <2>3. ASSUME Contribute!Spawn(k) PROVE Kept
    BY <1>1, <2>3 DEF Contribute!Spawn, Run
  <2>4. ASSUME Contribute!WriteEnvelope(k) PROVE Kept
    BY <1>1, <2>4 DEF Contribute!WriteEnvelope, Run
  <2>5. ASSUME Contribute!LookForRecord(k) PROVE Kept
    BY <1>1, <2>5 DEF Contribute!LookForRecord, Run
  <2>6. ASSUME Contribute!ScriptReturns(k) PROVE Kept
    BY <1>1, <2>6 DEF Contribute!ScriptReturns, Run
  <2>7. ASSUME Contribute!ScriptDies(k) PROVE Kept
    BY <1>1, <2>7 DEF Contribute!ScriptDies, Contribute!AtWork, Run
  <2>8. ASSUME Contribute!Child(k) PROVE Kept
    BY <1>1, <2>8 DEF Contribute!Child, Contribute!ChildEnds, Contribute!ChildBreaches,
       Contribute!ChildOverwrites, Contribute!ChildExits, Contribute!Leaves, Run
  <2>9. Kept
    BY <2>1, <2>2, <2>3, <2>4, <2>5, <2>6, <2>7, <2>8 DEF Moves, Contribute!Script
  <2> QED BY <1>1, <2>9 DEF MarkerInv
<1>3. SoloInv'
  <2> SUFFICES ASSUME beside = {} PROVE SoloInv'
    BY <1>1 DEF SoloInv
  <2>0. /\ runs[k].script = "stale" => ~Contribute!Skipped(k, runs[k].cond)
        /\ runs[k].script = "envelope" => records[runs[k].cond] = Contribute!Absent
        /\ runs[k].child = "runs" => records[runs[k].cond] = Contribute!Absent
        /\ runs[k].child = "dying" => records[runs[k].cond].status = "aborted"
    BY DEF SoloInv
  <2>1. CASE Contribute!Skip(k) \/ Contribute!FindStale(k)
    <3>1. /\ runs'[k].child = "none" /\ runs'[k].script \in {"grid", "stale"}
          /\ records' = records
      BY <1>1, <2>1 DEF Contribute!Skip, Contribute!FindStale, RunOK, Run
    <3>2. runs'[k].script = "stale" =>
            /\ ~Contribute!Skipped(k, runs'[k].cond)
            /\ runs'[k].session = runs[k].session
      BY <1>1, <2>1 DEF Contribute!Skip, Contribute!FindStale, Run
    <3> QED BY <1>1, <3>1, <3>2 DEF SoloInv, Contribute!Skipped
  <2>2. CASE Contribute!Spawn(k)
    BY <1>1, <2>2 DEF Contribute!Spawn, SoloInv, RunOK, Contribute!Absent
  <2>3. CASE Contribute!LookForRecord(k) \/ Contribute!ScriptReturns(k)
             \/ Contribute!ScriptDies(k)
    BY <1>1, <2>0, <2>3 DEF Contribute!LookForRecord, Contribute!ScriptReturns,
       Contribute!ScriptDies, SoloInv, Contribute!Exists, Contribute!Absent, Run
  <2>4. CASE Contribute!WriteEnvelope(k)
    BY <1>1, <2>4 DEF Contribute!WriteEnvelope, SoloInv, RunOK
  <2>5. CASE Contribute!Child(k)
    <3>1. runs[k].cond \in Contribute!Conditions /\ runs[k].script \in {"wait", "gone"}
      BY <1>1, <2>5 DEF Contribute!Child, Contribute!ChildEnds, Contribute!ChildBreaches,
         Contribute!ChildOverwrites, Contribute!ChildExits, Contribute!Leaves, RunOK
    <3>2. /\ runs'[k].cond = runs[k].cond /\ runs'[k].script = runs[k].script
          /\ \/ runs'[k].child = "none"
             \/ runs'[k].child = "dying" /\ records'[runs[k].cond].status = "aborted"
      BY <1>1, <2>5, <3>1 DEF Contribute!Child, Contribute!ChildEnds, Contribute!ChildBreaches,
         Contribute!ChildOverwrites, Contribute!ChildExits, Contribute!Leaves,
         Contribute!Record, Run
    <3> QED BY <1>1, <3>1, <3>2 DEF SoloInv
  <2> QED BY <2>1, <2>2, <2>3, <2>4, <2>5 DEF Moves, Contribute!Script
<1>4. AnsweredInv'
  <2> SUFFICES ASSUME pc # "idle", runs'[k].script # "gone",
                      NEW c \in Grids[version] \ runs'[k].todo
               PROVE  Settled(c)' \/ Pending(c)'
    <3>1. ASSUME pc # "idle" PROVE runs'[k].session.version = version /\ runs'[k].script # "none"
      <4>1. runs'[k].session = runs[k].session
        BY WhoMoves
      <4>2. runs'[k].script # "none"
        BY <1>1, <3>1 DEF AnsweredInv, Moves, Contribute!Script, Contribute!Skip,
           Contribute!FindStale, Contribute!Spawn, Contribute!LookForRecord,
           Contribute!WriteEnvelope, Contribute!ScriptReturns, Contribute!Child,
           Contribute!ChildEnds, Contribute!ChildBreaches, Contribute!ChildOverwrites,
           Contribute!ChildExits, Contribute!Leaves, Contribute!ScriptDies, Run
      <4> QED BY <3>1, <4>1, <4>2 DEF AnsweredInv
    <3> QED BY <1>1, <3>1 DEF AnsweredInv
  <2>0. /\ c \in Contribute!Conditions
        /\ runs[k].script # "gone" /\ c \notin runs[k].todo => Settled(c) \/ Pending(c)
        /\ runs'[k].session = runs[k].session
    BY <1>1, ConditionsAreNumbers, WhoMoves DEF AnsweredInv
  <2>1. CASE Contribute!Skip(k)
    <3> DEFINE d == Contribute!Min(runs[k].todo)
    <3>1. /\ runs[k].script = "grid" /\ runs'[k].todo = runs[k].todo \ {d} /\ records' = records
          /\ records[d].status = "ok" /\ records[d].session = runs[k].session
      BY <1>1, <2>1 DEF Contribute!Skip, Contribute!Skipped, Run
    <3> HIDE DEF d
    <3>2. CASE c = d
      BY <1>1, <2>0, <3>1, <3>2 DEF Settled, Contribute!Absent
    <3>3. CASE c # d
      BY <1>1, <2>0, <3>1, <3>3 DEF Settled, Pending, Contribute!Absent
    <3> QED BY <3>2, <3>3
  <2>2. CASE Contribute!FindStale(k)
    <3> DEFINE d == Contribute!Min(runs[k].todo)
    <3>1. /\ runs[k].script = "grid" /\ runs'[k].todo = runs[k].todo \ {d} /\ records' = records
          /\ runs'[k].cond = d /\ runs'[k].script = "stale"
      BY <1>1, <2>2 DEF Contribute!FindStale, Run
    <3> HIDE DEF d
    <3>2. CASE c = d
      BY <1>1, <3>1, <3>2 DEF Pending
    <3>3. CASE c # d
      BY <1>1, <2>0, <3>1, <3>3 DEF Settled, Pending, Contribute!Absent
    <3> QED BY <3>2, <3>3
  <2>3. CASE Contribute!Spawn(k)
    <3>1. /\ runs[k].script = "stale" /\ runs'[k].todo = runs[k].todo
          /\ runs'[k].cond = runs[k].cond /\ runs'[k].script = "wait"
          /\ records' = [records EXCEPT ![runs[k].cond] = Contribute!Absent]
      BY <1>1, <2>3 DEF Contribute!Spawn, Run
    <3>2. CASE c = runs[k].cond
      BY <1>1, <2>0, <3>1, <3>2 DEF Pending, Contribute!Absent
    <3>3. CASE c # runs[k].cond
      BY <1>1, <2>0, <3>1, <3>3 DEF Settled, Pending, Contribute!Absent
    <3> QED BY <3>2, <3>3
  <2>4. CASE Contribute!LookForRecord(k)
    <3>1. /\ runs[k].script = "wait" /\ runs'[k].todo = runs[k].todo
          /\ runs'[k].cond = runs[k].cond /\ records' = records
          /\ runs'[k].script = IF Contribute!Exists(runs[k].cond) THEN "grid" ELSE "envelope"
      BY <1>1, <2>4 DEF Contribute!LookForRecord, Run
    <3> QED BY <1>1, <2>0, <3>1 DEF Settled, Pending, Contribute!Exists, Contribute!Absent
  <2>5. CASE Contribute!WriteEnvelope(k)
    <3>1. /\ runs[k].script = "envelope" /\ runs'[k].todo = runs[k].todo
          /\ records' = [records EXCEPT ![runs[k].cond] = Contribute!Record(k, "error")]
      BY <1>1, <2>5 DEF Contribute!WriteEnvelope, Run
    <3>2. CASE c = runs[k].cond
      BY <1>1, <2>0, <3>1, <3>2 DEF Settled, Contribute!Record, Contribute!Absent
    <3>3. CASE c # runs[k].cond
      BY <1>1, <2>0, <3>1, <3>3 DEF Settled, Pending, Contribute!Absent
    <3> QED BY <3>2, <3>3
  <2>6. CASE Contribute!ScriptReturns(k)
    <3>1. runs[k].script = "grid" /\ runs'[k].todo = runs[k].todo /\ records' = records
      BY <1>1, <2>6 DEF Contribute!ScriptReturns, Run
    <3> QED BY <1>1, <2>0, <3>1 DEF Settled, Pending, Contribute!Absent
  <2>7. CASE Contribute!ScriptDies(k)
    BY <1>1, <2>7 DEF Contribute!ScriptDies, Run
  <2>8. CASE Contribute!Child(k)
    <3>1. /\ runs'[k].script = runs[k].script /\ runs'[k].todo = runs[k].todo
          /\ runs'[k].cond = runs[k].cond
          /\ \/ records' = records
             \/ \E s : records' = [records EXCEPT ![runs[k].cond] = Contribute!Record(k, s)]
      BY <1>1, <2>8 DEF Contribute!Child, Contribute!ChildEnds, Contribute!ChildBreaches,
         Contribute!ChildOverwrites, Contribute!ChildExits, Contribute!Leaves, Run
    <3>2. CASE records' = records
      BY <1>1, <2>0, <3>1, <3>2 DEF Settled, Pending, Contribute!Absent
    <3>3. CASE c # runs[k].cond
      BY <1>1, <2>0, <3>1, <3>3 DEF Settled, Pending, Contribute!Absent
    <3>4. ASSUME c = runs[k].cond,
                 NEW s, records' = [records EXCEPT ![runs[k].cond] = Contribute!Record(k, s)]
          PROVE  Settled(c)'
      BY <1>1, <2>0, <3>4 DEF Settled, Contribute!Record, Contribute!Absent
    <3> QED BY <3>1, <3>2, <3>3, <3>4
  <2> QED BY <2>1, <2>2, <2>3, <2>4, <2>5, <2>6, <2>7, <2>8 DEF Moves, Contribute!Script
<1> QED BY <1>2, <1>3, <1>4

LEMMA MoveStep ==
  ASSUME ContributionInv, NEW k \in 1..calls, Moves(k)
  PROVE  ContributionInv'
<1>1. BasicInv'
  BY MoveKeepsTypes DEF ContributionInv
<1>2. calls \in Nat /\ calls' = calls /\ UNCHANGED published /\ k \in 1..MaxCalls
  BY WhoMoves DEF ContributionInv, BasicInv, Contribute!callVars
<1>3. AnsweredInv' /\ SoloInv' /\ MarkerInv'
  BY <1>2, EarlierMoves, OwnMoves
<1>4. PublishedInv'
  BY <1>2, PublishedStands DEF ContributionInv
<1> QED BY <1>1, <1>3, <1>4 DEF ContributionInv

-----------------------------------------------------------------------------
(* The call collects and publishes, or dies. *)

LEMMA CollectStep ==
  ASSUME ContributionInv, Contribute!Collect
  PROVE  ContributionInv'
<1> USE DEF ContributionInv
<1>1. /\ pc = "script" /\ pc' = "publish" /\ marker = 0
      /\ listed' = {c \in Contribute!Conditions : records[c] # Contribute!Absent}
      /\ marker' = IF Contribute!CrashedEmpty THEN calls ELSE marker
      /\ UNCHANGED <<version, records, calls, runs, beside, published>>
  BY DEF Contribute!Collect, Contribute!Globbed, Contribute!Exists, MarkerInv
<1>2. /\ calls \in 1..MaxCalls /\ version \in DOMAIN Grids
      /\ runs[calls].script \in {"through", "gone"}
  BY <1>1 DEF BasicInv, AnsweredInv, Contribute!Collect, Run
<1>3. Contribute!CrashedEmpty <=> runs[calls].script = "gone" /\ listed' = {}
  BY <1>1, <1>2 DEF Contribute!CrashedEmpty, Contribute!Rc, Contribute!Globbed, Contribute!Exists
<1>4. BasicInv'
  BY <1>1 DEF BasicInv, RunOK, Contribute!Alive
<1>5. runs[calls].script = "through" /\ beside = {} => Grids[version] \subseteq listed'
  <2> SUFFICES ASSUME runs[calls].script = "through", beside = {}, NEW c \in Grids[version]
               PROVE  c \in listed'
    OBVIOUS
  <2>1. runs[calls].todo = {}
    BY <1>2 DEF MarkerInv
  <2>2. Settled(c) \/ Pending(c)
    BY <1>1, <2>1 DEF AnsweredInv
  <2>3. Settled(c)
    BY <2>2 DEF Pending
  <2> QED BY <1>1, <1>2, <2>3, ConditionsAreNumbers DEF Settled
<1>6. MarkerInv'
  BY <1>1, <1>2, <1>3, <1>5 DEF MarkerInv
<1>7. AnsweredInv' /\ SoloInv'
  BY <1>1 DEF AnsweredInv, SoloInv, Settled, Pending, Contribute!Skipped
<1>8. PublishedInv'
  BY <1>1, <1>2, PublishedStands
<1> QED BY <1>4, <1>6, <1>7, <1>8

LEMMA PublishStep ==
  ASSUME ContributionInv, Contribute!Publish
  PROVE  ContributionInv'
<1> USE DEF ContributionInv
<1> DEFINE entry(c) == IF Contribute!Exists(c) THEN records[c] ELSE Contribute!Unreadable
<1>1. /\ pc = "publish" /\ pc' = "idle"
      /\ published'.call = calls /\ published'.session = runs[calls].session
      /\ published'.rc = Contribute!Rc /\ published'.marker = marker
      /\ published'.beside = beside /\ DOMAIN published'.entries = listed
      /\ \A c \in listed : published'.entries[c] = entry(c)
      /\ UNCHANGED <<version, records, marker, calls, runs, beside, listed>>
  BY DEF Contribute!Publish
<1>2. /\ calls \in 1..MaxCalls /\ version \in DOMAIN Grids
      /\ runs[calls].script \in {"through", "gone"} /\ runs[calls].session.version = version
      /\ Grids[version] # {}
  BY <1>1 DEF BasicInv, AnsweredInv, MarkerInv
<1>3. Contribute!Rc = IF runs[calls].script = "through" THEN 0 ELSE 1
  BY DEF Contribute!Rc
<1>4. BasicInv'
  BY <1>1 DEF BasicInv, RunOK, Contribute!Alive
<1>5. AnsweredInv' /\ SoloInv' /\ MarkerInv'
  BY <1>1 DEF AnsweredInv, SoloInv, MarkerInv, Contribute!Skipped
<1>6. Contribute!NoCleanEmptyBench' /\ Contribute!MarkerIsThisCalls'
  <2> HIDE DEF entry
  <2>1. beside = {} /\ listed = {} => marker # 0
    BY <1>1, <1>2 DEF MarkerInv
  <2>2. marker # 0 => marker = calls /\ Contribute!Rc = 1 /\ listed = {}
    BY <1>1, <1>2, <1>3 DEF MarkerInv
  <2> QED BY <1>1, <2>1, <2>2 DEF Contribute!NoCleanEmptyBench, Contribute!MarkerIsThisCalls
<1>7. ASSUME Contribute!Rc = 0, NEW c \in Grids[version]
      PROVE  \/ c \in listed /\ published'.entries[c].session = published'.session
             \/ Contribute!WrittenBeside(c)'
  <2>1. /\ runs[calls].script = "through" /\ runs[calls].todo = {}
    BY <1>2, <1>3, <1>7 DEF MarkerInv
  <2>2. Settled(c)
    BY <1>1, <2>1 DEF AnsweredInv, Pending
  <2>3. c \notin listed => beside # {}
    BY <1>1, <1>7, <2>1 DEF MarkerInv
  <2>4. CASE c \notin listed
    BY <1>1, <2>3, <2>4 DEF Contribute!WrittenBeside
  <2>5. CASE c \in listed /\ records[c] # Contribute!Absent
                /\ records[c].session = runs[calls].session
    BY <1>1, <2>5 DEF Contribute!Exists
  <2>6. CASE c \in listed /\ beside # {}
                /\ (records[c] = Contribute!Absent \/ records[c].by \in beside)
    <3>1. entry(c).by \in {0} \cup beside
      BY <2>6 DEF Contribute!Exists, Contribute!Unreadable
    <3> HIDE DEF entry
    <3> QED BY <1>1, <2>6, <3>1 DEF Contribute!WrittenBeside
  <2> QED BY <2>2, <2>4, <2>5, <2>6 DEF Settled
<1>8. Contribute!CompleteCallAnswersItsGrid'
  <2> HIDE DEF entry
  <2> QED BY <1>1, <1>2, <1>7 DEF Contribute!CompleteCallAnswersItsGrid
<1>9. published'.call \in 0..calls'
  BY <1>1, <1>2
<1> QED BY <1>4, <1>5, <1>6, <1>8, <1>9 DEF PublishedInv

LEMMA ContributionSteps ==
  ContributionInv /\ [Contribute!Next]_<<contributionVars, pc>> => ContributionInv'
<1> SUFFICES ASSUME ContributionInv, [Contribute!Next]_<<contributionVars, pc>>
             PROVE  ContributionInv'
  OBVIOUS
<1> USE DEF ContributionInv
<1>1. CASE UNCHANGED <<contributionVars, pc>>
  BY <1>1 DEF contributionVars, BasicInv, RunOK, Contribute!Alive, AnsweredInv, SoloInv,
     MarkerInv, Settled, Pending, Contribute!Skipped, PublishedInv, Contribute!Ran,
     Contribute!NoCleanEmptyBench, Contribute!MarkerIsThisCalls, Contribute!WrittenBeside,
     Contribute!CompleteCallAnswersItsGrid
<1>2. CASE Contribute!CallDies \/ Contribute!Upgrade
  <2>1. /\ pc' = "idle" /\ version' \in DOMAIN Grids
        /\ UNCHANGED <<records, marker, calls, runs, beside, listed, published>>
    BY <1>2 DEF Contribute!CallDies, Contribute!Upgrade, Contribute!Versions, BasicInv
  <2>2. BasicInv'
    BY <2>1 DEF BasicInv, RunOK, Contribute!Alive
  <2>3. AnsweredInv' /\ SoloInv' /\ MarkerInv'
    BY <2>1 DEF AnsweredInv, SoloInv, MarkerInv, Contribute!Skipped
  <2>4. PublishedInv'
    BY <2>1, PublishedStands DEF BasicInv
  <2> QED BY <2>2, <2>3, <2>4
<1> QED BY <1>1, <1>2, BeginStep, MoveStep, CollectStep, PublishStep DEF Contribute!Next, Moves

\* Without earlier processes nobody writes over what this session measured.
LEMMA MeasuredIsKept ==
  ASSUME ContributionInv, beside = {}, Contribute!Next,
         NEW c \in Contribute!Conditions,
         records[c].status = "ok", records[c].session = Contribute!Session
  PROVE  records'[c] = records[c]
<1> USE DEF ContributionInv
<1>1. \/ records' = records
      \/ calls \in 1..MaxCalls /\ Moves(calls)
  <2>1. ASSUME NEW k \in 1..calls, Moves(k) PROVE calls \in 1..MaxCalls /\ Moves(calls)
    BY <2>1, WhoMoves DEF BasicInv
  <2> QED BY <2>1 DEF Contribute!Next, Moves, Contribute!Begin, Contribute!Collect,
          Contribute!Publish, Contribute!CallDies, Contribute!Upgrade
<1> SUFFICES ASSUME calls \in 1..MaxCalls, Moves(calls) PROVE records'[c] = records[c]
  BY <1>1
<1>2. records[c].session = runs[calls].session
  BY DEF Contribute!Session
<1>3. \/ records' = records
      \/ /\ \E x : records' = [records EXCEPT ![runs[calls].cond] = x]
         /\ \/ runs[calls].script \in {"stale", "envelope"}
            \/ runs[calls].child \in {"runs", "dying"}
  BY DEF Moves, Contribute!Script, Contribute!Skip, Contribute!FindStale, Contribute!Spawn,
     Contribute!LookForRecord, Contribute!WriteEnvelope, Contribute!ScriptReturns,
     Contribute!Child, Contribute!ChildEnds, Contribute!ChildBreaches,
     Contribute!ChildOverwrites, Contribute!ChildExits, Contribute!Leaves,
     Contribute!ScriptDies
<1>4. \/ runs[calls].script \in {"stale", "envelope"}
      \/ runs[calls].child \in {"runs", "dying"}
      => c # runs[calls].cond
  BY <1>2 DEF SoloInv, Contribute!Skipped, Contribute!Absent
<1> QED BY <1>3, <1>4 DEF BasicInv

LEMMA ContributionHolds ==
  ASSUME ContributionInv
  PROVE  /\ Contribute!TypeOK /\ Contribute!NoCleanEmptyBench
         /\ Contribute!MarkerIsThisCalls /\ Contribute!CompleteCallAnswersItsGrid
<1>1. calls \in Nat /\ runs \in [1..MaxCalls -> Run] /\ published.call \in 0..calls
  BY DEF ContributionInv, BasicInv, PublishedInv
<1>2. published.call <= calls
  BY <1>1
<1> QED BY <1>1, <1>2 DEF ContributionInv, BasicInv, PublishedInv, RunOK, Run,
        Contribute!TypeOK, Contribute!Calls

(***************************************************************************)
(* The runner whose workers outlive who waits for them: the proofs about   *)
(* any runner, of this one.                                                *)
(***************************************************************************)

OrphanProofs ==
  INSTANCE BenchRunnerProofs WITH
    MaxEdits <- 0, Guarded <- TRUE, Orphans <- TRUE, Stalls <- TRUE,
    code <- oCode, disk <- oDisk, rpc <- oRpc, cur <- oCur, ident <- oIdent,
    child <- oChild, report <- oReport, workers <- oWorkers, spawned <- oSpawned,
    invocation <- oInvocation

OrphanInv == OrphanProofs!TypeInv /\ OrphanProofs!Recorded /\ OrphanProofs!OnePerLaunch

LEMMA OrphansAreARunner == OrphanProofs!RunnerAssumption
  BY RunnerAssumption DEF RunnerAssumption, OrphanProofs!RunnerAssumption

LEMMA OrphansStart == OrphanProofs!Init => OrphanInv
<1>1. OrphanProofs!Init => OrphanProofs!Recorded
  BY DEF OrphanProofs!Init, OrphanProofs!Recorded
<1>2. OrphanProofs!Init => OrphanProofs!OnePerLaunch
  BY DEF OrphanProofs!Init, OrphanProofs!OnePerLaunch, OrphanProofs!Behind,
     OrphanProofs!NeverRelaunched
<1> QED BY <1>1, <1>2, OrphansAreARunner, OrphanProofs!TypeInit DEF OrphanInv

LEMMA OrphansStep == OrphanInv /\ [OrphanProofs!Next]_(OrphanProofs!vars) => OrphanInv'
<1>1. OrphanInv /\ [OrphanProofs!Next]_(OrphanProofs!vars)
        => OrphanProofs!TypeInv' /\ OrphanProofs!Recorded'
  BY OrphansAreARunner, OrphanProofs!TypeStep, OrphanProofs!RecordedStep DEF OrphanInv
<1> QED BY <1>1, OrphansAreARunner, OrphanProofs!OnePerLaunchStep DEF OrphanInv

\* Its states and steps are those of the instance in the suite.
LEMMA OrphansInitIsTheSuites == Orphaned!Init => OrphanProofs!Init
  BY DEF OrphanProofs!Init, Orphaned!Init, OrphanProofs!Cond, Orphaned!Cond,
      OrphanProofs!Absent, Orphaned!Absent, OrphanProofs!Record, Orphaned!Record,
      OrphanProofs!Foreign, Orphaned!Foreign

LEMMA OrphansAreTheSuites == [Orphaned!Next]_orphanVars => [OrphanProofs!Next]_(OrphanProofs!vars)
<1>0. /\ OrphanProofs!Absent = Orphaned!Absent /\ OrphanProofs!Unnamed = Orphaned!Unnamed
      /\ OrphanProofs!Cond = Orphaned!Cond /\ OrphanProofs!MaxPid = Orphaned!MaxPid
      /\ OrphanProofs!Status = Orphaned!Status /\ OrphanProofs!ExitCode = Orphaned!ExitCode
  BY DEF OrphanProofs!Absent, Orphaned!Absent, OrphanProofs!Record, Orphaned!Record,
      OrphanProofs!Foreign, Orphaned!Foreign, OrphanProofs!Unnamed, Orphaned!Unnamed,
      OrphanProofs!Cond, Orphaned!Cond, OrphanProofs!MaxPid, Orphaned!MaxPid,
      OrphanProofs!Status, Orphaned!Status, OrphanProofs!ExitCode, Orphaned!ExitCode
<1>1. /\ OrphanProofs!SkipFresh <=> Orphaned!SkipFresh
      /\ OrphanProofs!FindStale <=> Orphaned!FindStale
      /\ OrphanProofs!UnlinkStale <=> Orphaned!UnlinkStale
      /\ OrphanProofs!Spawn <=> Orphaned!Spawn
      /\ OrphanProofs!GuardStartFails <=> Orphaned!GuardStartFails
  BY DEF OrphanProofs!SkipFresh, Orphaned!SkipFresh, OrphanProofs!FindStale,
      Orphaned!FindStale, OrphanProofs!UnlinkStale, Orphaned!UnlinkStale,
      OrphanProofs!Spawn, Orphaned!Spawn, OrphanProofs!GuardStartFails,
      Orphaned!GuardStartFails, OrphanProofs!Launch, Orphaned!Launch,
      OrphanProofs!NextCondition, Orphaned!NextCondition, OrphanProofs!Fresh,
      Orphaned!Fresh, OrphanProofs!Absent, Orphaned!Absent, OrphanProofs!Record,
      Orphaned!Record, OrphanProofs!Cond, Orphaned!Cond, OrphanProofs!Unnamed,
      Orphaned!Unnamed
<1>2. /\ OrphanProofs!ChildEnded <=> Orphaned!ChildEnded
      /\ OrphanProofs!GuardWaitFails <=> Orphaned!GuardWaitFails
      /\ OrphanProofs!RespectRecord <=> Orphaned!RespectRecord
      /\ OrphanProofs!FindNoRecord <=> Orphaned!FindNoRecord
      /\ OrphanProofs!WriteEnvelope <=> Orphaned!WriteEnvelope
      /\ OrphanProofs!Finish <=> Orphaned!Finish
  BY DEF OrphanProofs!ChildEnded, Orphaned!ChildEnded, OrphanProofs!GuardWaitFails,
      Orphaned!GuardWaitFails, OrphanProofs!RespectRecord, Orphaned!RespectRecord,
      OrphanProofs!FindNoRecord, Orphaned!FindNoRecord, OrphanProofs!WriteEnvelope,
      Orphaned!WriteEnvelope, OrphanProofs!Finish, Orphaned!Finish,
      OrphanProofs!NextCondition, Orphaned!NextCondition, OrphanProofs!Envelope,
      Orphaned!Envelope, OrphanProofs!Record, Orphaned!Record, OrphanProofs!Cond,
      Orphaned!Cond
<1>3. ASSUME NEW p PROVE OrphanProofs!WorkerStep(p) <=> Orphaned!WorkerStep(p)
  <2>1. OrphanProofs!WorkerIdentifies(p) <=> Orphaned!WorkerIdentifies(p)
    BY DEF OrphanProofs!WorkerIdentifies, Orphaned!WorkerIdentifies, OrphanProofs!Unnamed,
        Orphaned!Unnamed, OrphanProofs!runnerVars, Orphaned!runnerVars
  <2>2. ASSUME NEW s PROVE OrphanProofs!WorkerLands(p, s) <=> Orphaned!WorkerLands(p, s)
    BY DEF OrphanProofs!WorkerLands, Orphaned!WorkerLands, OrphanProofs!Unnamed,
        Orphaned!Unnamed, OrphanProofs!runnerVars, Orphaned!runnerVars, OrphanProofs!Record,
        Orphaned!Record, OrphanProofs!Replaceable, Orphaned!Replaceable,
        OrphanProofs!Status, Orphaned!Status
  <2>3. OrphanProofs!WorkerEnds(p) <=> Orphaned!WorkerEnds(p)
    BY DEF OrphanProofs!WorkerEnds, Orphaned!WorkerEnds, OrphanProofs!MayEnd, Orphaned!MayEnd,
        OrphanProofs!LeftBy, Orphaned!LeftBy, OrphanProofs!ExitCode, Orphaned!ExitCode,
        OrphanProofs!runnerVars, Orphaned!runnerVars
  <2> QED BY <1>0, <2>1, <2>2, <2>3 DEF OrphanProofs!WorkerStep, Orphaned!WorkerStep
<1>4. /\ OrphanProofs!RunnerDies <=> Orphaned!RunnerDies
      /\ OrphanProofs!Resume <=> Orphaned!Resume
      /\ OrphanProofs!Rerun <=> Orphaned!Rerun
      /\ OrphanProofs!EditCode <=> Orphaned!EditCode
  BY DEF OrphanProofs!RunnerDies, Orphaned!RunnerDies, OrphanProofs!Resume, Orphaned!Resume,
      OrphanProofs!Rerun, Orphaned!Rerun, OrphanProofs!EditCode, Orphaned!EditCode,
      OrphanProofs!Start, Orphaned!Start, OrphanProofs!runnerVars, Orphaned!runnerVars
<1>5. UNCHANGED orphanVars => UNCHANGED OrphanProofs!vars
  BY DEF orphanVars, OrphanProofs!vars, OrphanProofs!runnerVars
<1>6. Orphaned!Done => UNCHANGED OrphanProofs!vars
  BY DEF Orphaned!Done, Orphaned!vars, Orphaned!runnerVars, OrphanProofs!vars, OrphanProofs!runnerVars
<1> QED BY <1>0, <1>1, <1>2, <1>3, <1>4, <1>5, <1>6
        DEF OrphanProofs!Next, Orphaned!Next, OrphanProofs!RunnerStep, Orphaned!RunnerStep

LEMMA OrphansHold ==
  ASSUME OrphanInv
  PROVE  Orphaned!TypeOK /\ Orphaned!SweepAccountsForEvery /\ Orphaned!NeverRelaunched
<1>1. OrphanProofs!TypeOK
  BY DEF OrphanInv, OrphanProofs!TypeInv
<1>2. OrphanProofs!TypeOK <=> Orphaned!TypeOK
  BY DEF OrphanProofs!TypeOK, Orphaned!TypeOK, OrphanProofs!Cond, Orphaned!Cond,
      OrphanProofs!Versions, Orphaned!Versions, OrphanProofs!Foreign, Orphaned!Foreign,
      OrphanProofs!Unnamed, Orphaned!Unnamed, OrphanProofs!MaxPid, Orphaned!MaxPid,
      OrphanProofs!RunnerStatus, Orphaned!RunnerStatus, OrphanProofs!Artifact,
      Orphaned!Artifact, OrphanProofs!Status, Orphaned!Status
<1>3. Orphaned!SweepAccountsForEvery
  BY DEF OrphanInv, OrphanProofs!Recorded, Orphaned!SweepAccountsForEvery, OrphanProofs!Cond,
     Orphaned!Cond
<1>4. Orphaned!NeverRelaunched
  BY DEF OrphanInv, OrphanProofs!OnePerLaunch, OrphanProofs!NeverRelaunched,
     Orphaned!NeverRelaunched
<1> QED BY <1>1, <1>2, <1>3, <1>4

(***************************************************************************)
(* The callers of a sweep and their report.                                *)
(***************************************************************************)

HIDE ContributionAssumption
USE ReportAssumption

\* What a sweep has passed has an artifact under its name, and the bench command finds
\* its own there: repeated row counts name one condition.
OwnAt(j) ==
  /\ artifacts[paths[j]].grid = conds[j].grid
  /\ artifacts[paths[j]].impl = conds[j].impl
  /\ artifacts[paths[j]].session = session

SweptInv ==
  /\ pc = "sweep" => ratios = <<>> /\ excluded = {} /\ todo = {}
  /\ part # "library" =>
       /\ Len(paths) <= Len(conds)
       /\ pc # "sweep" => Len(paths) = Len(conds)
       /\ \A j \in 1..Len(paths) : paths[j] = Report!NameOf(conds[j])
  /\ part = "command" =>
       /\ \A j, k \in 1..Len(conds) : conds[j].impl = conds[k].impl
       /\ \A j \in 1..Len(paths) : OwnAt(j)

\* A pair that has been compared.
Accounted(a, b) ==
  /\ Report!At(a).session # Report!At(b).session <=> <<a, b>> \in excluded
  /\ Report!Rankable(a, b) =>
       {<<Report!At(a).impl, Report!At(b).impl>>, <<Report!At(b).impl, Report!At(a).impl>>}
         \cap DOMAIN ratios # {}

ComparedInv ==
  /\ todo \subseteq Report!Pairs
  /\ Report!RatioIsLikeForLike
  /\ \A pr \in excluded : Report!At(pr[1]).session # Report!At(pr[2]).session
  /\ pc # "sweep" =>
       \A a, b \in Report!Entries :
         Report!Comparable(a, b) /\ <<a, b>> \notin todo => Accounted(a, b)

ReportInv ==
  /\ Report!TypeOK /\ SweptInv /\ ComparedInv
  /\ pc = "done" => todo = {}
  /\ Report!ExitCodeIsTheWorst

\* A sweep's conditions are conditions; the bench command has one implementation.
LEMMA ConditionsOfACaller ==
  ASSUME NEW s \in Report!ConditionLists
  PROVE  /\ s \in Seq(Report!Condition)
         /\ part = "command" => \A j, k \in 1..Len(s) : s[j].impl = s[k].impl
<1>1. CASE part = "command"
  <2>1. PICK k \in 1..MaxRows, i \in Impl :
          s \in {[j \in 1..k |-> [grid |-> n[j], impl |-> i]] : n \in [1..k -> Grid]}
    BY <1>1 DEF Report!ConditionLists
  <2>2. PICK n \in [1..k -> Grid] : s = [j \in 1..k |-> [grid |-> n[j], impl |-> i]]
    BY <2>1
  <2>3. k \in Nat
    OBVIOUS
  <2>4. s \in [1..k -> Report!Condition]
    BY <2>2 DEF Report!Condition
  <2>5. s \in Seq(Report!Condition) /\ Len(s) = k
    BY <2>3, <2>4
  <2> QED BY <2>2, <2>5
<1>2. CASE part # "command"
  <2>1. CASE s \in [1..Cardinality(Report!Condition) -> Report!Condition]
    <3>1. /\ \A p \in Grid \X Impl : [grid |-> p[1], impl |-> p[2]] \in Report!Condition
          /\ \A c \in Report!Condition :
               /\ <<c.grid, c.impl>> \in Grid \X Impl
               /\ c = [grid |-> <<c.grid, c.impl>>[1], impl |-> <<c.grid, c.impl>>[2]]
      BY DEF Report!Condition
    <3>2. IsFiniteSet(Grid \X Impl)
      BY FS_Product
    <3>3. IsFiniteSet(Report!Condition)
      <4> DEFINE f == [p \in Grid \X Impl |-> [grid |-> p[1], impl |-> p[2]]]
      <4>1. f \in [Grid \X Impl -> Report!Condition]
        BY <3>1
      <4>2. \A c \in Report!Condition : \E p \in Grid \X Impl : f[p] = c
        BY <3>1
      <4>3. f \in Surjection(Grid \X Impl, Report!Condition)
        BY <4>1, <4>2 DEF Surjection
      <4> QED BY <3>2, <4>3, FS_Surjection
    <3>4. Cardinality(Report!Condition) \in Nat
      BY <3>3, FS_CardinalityType
    <3> QED BY <1>2, <2>1, <3>4
  <2>2. ASSUME NEW c \in Report!Condition, s = <<c>> PROVE s \in Seq(Report!Condition)
    BY <2>2
  <2>3. Report!Cardinality(Report!Condition) = Cardinality(Report!Condition)
    BY DEF Report!Cardinality, Cardinality
  <2> QED BY <1>2, <2>1, <2>2, <2>3 DEF Report!ConditionLists
<1> QED BY <1>1, <1>2

LEMMA FirstSession == Report!Min(Sessions) \in Sessions
<1>1. PICK n \in Sessions : \A m \in Sessions : ~(<<m, n>> \in OpToRel(<, Nat))
  BY NatLessThanWellFounded, WFMin
<1>2. \A m \in Sessions : ~(m < n)
  BY <1>1 DEF OpToRel
<1>3. \A m \in Sessions : n <= m
  BY <1>2
<1> QED BY <1>3 DEF Report!Min

LEMMA ReportStarts == part \in Callers /\ Report!Init => ReportInv
<1> SUFFICES ASSUME part \in Callers, Report!Init PROVE ReportInv
  OBVIOUS
<1>1. /\ ratios = <<>> /\ DOMAIN ratios = {} /\ excluded = {} /\ exit = 0
      /\ session \in Sessions /\ part \in {"command", "script", "library"}
  BY FirstSession DEF Report!Init, Callers
<1>2. CASE part # "library"
  <2>1. /\ conds \in Report!ConditionLists /\ artifacts = <<>> /\ paths = <<>>
        /\ pc = "sweep" /\ todo = {} /\ DOMAIN artifacts = {} /\ Len(paths) = 0
    BY <1>2 DEF Report!Init, Report!InitSweep
  <2>2. conds \in Seq(Report!Condition) /\ Len(conds) \in Nat
    BY <2>1, ConditionsOfACaller
  <2>3. Report!TypeOK
    BY <1>1, <2>1, <2>2 DEF Report!TypeOK
  <2>4. SweptInv
    BY <1>1, <1>2, <2>1, <2>2, ConditionsOfACaller DEF SweptInv
  <2>5. ComparedInv
    BY <1>1, <2>1 DEF ComparedInv, Report!RatioIsLikeForLike
  <2> QED BY <2>1, <2>3, <2>4, <2>5 DEF ReportInv, Report!ExitCodeIsTheWorst
<1>3. CASE part = "library"
  <2>1. /\ conds = <<>> /\ pc = "report" /\ paths = [p \in 1..Paths |-> p]
        /\ artifacts \in [1..Paths -> Report!Artifacts] /\ todo = Report!Pairs
    BY <1>3 DEF Report!Init, Report!InitReport
  <2>2. paths \in Seq(1..Paths) /\ Len(paths) = Paths /\ conds \in Seq(Report!Condition)
    BY <2>1
  <2>3. todo \subseteq (1..Len(paths)) \X (1..Len(paths))
    BY <2>1 DEF Report!Pairs, Report!Entries
  <2>4. Report!TypeOK
    BY <1>1, <2>1, <2>2, <2>3 DEF Report!TypeOK
  <2>5. SweptInv
    BY <1>3, <2>1 DEF SweptInv
  <2>6. ComparedInv
    <3>1. \A a, b \in Report!Entries : Report!Comparable(a, b) => <<a, b>> \in todo
      BY <2>1 DEF Report!Comparable, Report!Pairs, Report!SameGroup
    <3> QED BY <1>1, <2>1, <3>1 DEF ComparedInv, Report!RatioIsLikeForLike
  <2> QED BY <2>1, <2>4, <2>5, <2>6 DEF ReportInv, Report!ExitCodeIsTheWorst
<1> QED BY <1>2, <1>3

\* While nothing is measured the artifacts that are compared stand.
LEMMA EntriesStand ==
  ASSUME UNCHANGED <<artifacts, paths>>
  PROVE  /\ Report!Entries' = Report!Entries /\ Report!Pairs' = Report!Pairs
         /\ \A p : Report!At(p)' = Report!At(p)
         /\ \A a, b : /\ Report!Comparable(a, b)' <=> Report!Comparable(a, b)
                      /\ Report!Rankable(a, b)' <=> Report!Rankable(a, b)
<1>1. \A p : Report!At(p)' = Report!At(p)
  BY DEF Report!At
<1>2. Report!Entries' = Report!Entries
  BY <1>1 DEF Report!Entries
<1>3. Report!Pairs' = Report!Pairs
  BY <1>1, <1>2 DEF Report!Pairs, Report!SameGroup
<1> QED BY <1>1, <1>2, <1>3 DEF Report!Comparable, Report!Rankable

LEMMA EntryType ==
  ASSUME Report!TypeOK, NEW p \in Report!Entries
  PROVE  /\ p \in 1..Len(paths) /\ p \in Nat
         /\ Report!At(p).impl \in Impl /\ Report!At(p).wall \in Walls
         /\ Report!At(p).wall \in Nat
<1>1. p \in 1..Len(paths) /\ Report!At(p).status = "ok"
  BY DEF Report!Entries
<1>2. paths \in Seq(DOMAIN artifacts) /\ \A q \in DOMAIN artifacts : artifacts[q] \in Report!Artifacts
  BY DEF Report!TypeOK
<1>3. paths[p] \in DOMAIN artifacts
  BY <1>1, <1>2
<1>4. Report!At(p) \in Report!Artifacts
  BY <1>2, <1>3 DEF Report!At
<1>6. Len(paths) \in Nat
  BY <1>2
<1>5. Report!At(p).impl \in Impl /\ Report!At(p).wall \in Walls
  BY <1>1, <1>4 DEF Report!Artifacts, Report!Status
<1>7. p \in Nat
  BY <1>1, <1>6
<1>8. Report!At(p).wall \in Nat
  BY <1>5
<1> QED BY <1>1, <1>5, <1>7, <1>8

\* Ranking two entries that are alike puts the slower over the faster, or neither of
\* them can be ranked.
LEMMA RankEffect ==
  ASSUME Report!TypeOK, NEW a \in Report!Entries, NEW b \in Report!Entries,
         Report!At(a).session = Report!At(b).session, Report!Rank(a, b)
  PROVE  \/ ~Report!Rankable(a, b) /\ UNCHANGED ratios
         \/ \E x, y \in {a, b} :
              /\ {x, y} = {a, b} /\ Report!Rankable(x, y)
              /\ Report!At(x).wall >= Report!At(y).wall
              /\ Report!Put(<<Report!At(x).impl, Report!At(y).impl>>,
                            <<Report!At(x).wall, Report!At(y).wall>>)
<1>1. /\ Report!At(a).wall \in Nat /\ Report!At(b).wall \in Nat
  BY EntryType
<1>2. CASE Report!At(a).wall = 0 \/ Report!At(b).wall = 0
  BY <1>2 DEF Report!Rank, Report!Rankable
<1>3. CASE ~(Report!At(a).wall = 0 \/ Report!At(b).wall = 0)
  <2>1. Report!Rankable(a, b) /\ Report!Rankable(b, a)
    BY <1>3 DEF Report!Rankable
  <2>2. CASE Report!At(a).wall >= Report!At(b).wall
    BY <1>3, <2>1, <2>2 DEF Report!Rank
  <2>3. CASE ~(Report!At(a).wall >= Report!At(b).wall)
    <3>1. Report!At(b).wall >= Report!At(a).wall
      BY <1>1, <2>3
    <3> QED BY <1>3, <2>1, <2>3, <3>1 DEF Report!Rank
  <2> QED BY <2>2, <2>3
<1> QED BY <1>2, <1>3

\* A ratio of two entries that are alike joins or replaces the others.
LEMMA PutStep ==
  ASSUME Report!TypeOK, Report!RatioIsLikeForLike, UNCHANGED <<artifacts, paths>>,
         NEW x \in Report!Entries, NEW y \in Report!Entries,
         Report!Comparable(x, y) \/ Report!Comparable(y, x), Report!Rankable(x, y),
         Report!At(x).wall >= Report!At(y).wall,
         Report!Put(<<Report!At(x).impl, Report!At(y).impl>>,
                    <<Report!At(x).wall, Report!At(y).wall>>)
  PROVE  /\ Report!RatioIsLikeForLike'
         /\ DOMAIN ratios' = DOMAIN ratios \cup {<<Report!At(x).impl, Report!At(y).impl>>}
         /\ DOMAIN ratios' \subseteq Impl \X Impl
         /\ \A l \in DOMAIN ratios' : ratios'[l] \in Walls \X Walls
<1> DEFINE label == <<Report!At(x).impl, Report!At(y).impl>>
           walls == <<Report!At(x).wall, Report!At(y).wall>>
<1>1. /\ DOMAIN ratios' = DOMAIN ratios \cup {label} /\ ratios'[label] = walls
      /\ \A l \in DOMAIN ratios : l # label => ratios'[l] = ratios[l]
  BY DEF Report!Put
<1>2. label \in Impl \X Impl /\ walls \in Walls \X Walls
  BY EntryType
<1>3. ASSUME NEW l \in DOMAIN ratios'
      PROVE  \E a, b \in Report!Entries :
               /\ Report!Comparable(a, b) \/ Report!Comparable(b, a)
               /\ Report!Rankable(a, b)
               /\ l = <<Report!At(a).impl, Report!At(b).impl>>
               /\ ratios'[l] = <<Report!At(a).wall, Report!At(b).wall>>
               /\ Report!At(a).wall >= Report!At(b).wall
  <2>1. CASE l = label
    BY <1>1, <2>1
  <2>2. CASE l # label
    BY <1>1, <2>2 DEF Report!RatioIsLikeForLike
  <2> QED BY <2>1, <2>2
<1>4. Report!RatioIsLikeForLike'
  <2> HIDE DEF label, walls
  <2> QED BY <1>3, EntriesStand DEF Report!RatioIsLikeForLike
<1>5. /\ DOMAIN ratios' \subseteq Impl \X Impl
      /\ \A l \in DOMAIN ratios' : ratios'[l] \in Walls \X Walls
  <2> HIDE DEF label, walls
  <2> QED BY <1>1, <1>2 DEF Report!TypeOK
<1> QED BY <1>1, <1>4, <1>5

\* One pair is compared: it is accounted for, and what was stays so.
LEMMA CompareStep ==
  ASSUME ReportInv, Report!Compare, part' = part
  PROVE  ReportInv'
<1> USE DEF ReportInv, ComparedInv
<1>1. PICK pr \in todo : Report!ComparePair(pr[1], pr[2])
  BY DEF Report!Compare
<1>2. pc = "report" /\ UNCHANGED <<conds, artifacts, paths, pc, session, exit>>
  BY DEF Report!Compare
<1>3. PICK a \in Report!Entries, b \in Report!Entries :
         /\ pr = <<a, b>> /\ a < b /\ Report!At(a).grid = Report!At(b).grid
  BY DEF Report!Pairs, Report!SameGroup
<1>4. /\ todo' = todo \ {<<a, b>>}
      /\ \/ Report!At(a).impl = Report!At(b).impl /\ UNCHANGED <<ratios, excluded>>
         \/ /\ Report!At(a).impl # Report!At(b).impl
            /\ Report!At(a).session # Report!At(b).session
            /\ excluded' = excluded \cup {<<a, b>>} /\ UNCHANGED ratios
         \/ /\ Report!At(a).impl # Report!At(b).impl
            /\ Report!At(a).session = Report!At(b).session
            /\ Report!Rank(a, b) /\ UNCHANGED excluded
  BY <1>1, <1>3 DEF Report!ComparePair
<1>5. a \in 1..Len(paths) /\ b \in 1..Len(paths)
  BY EntryType
<1>6. Report!At(a).impl # Report!At(b).impl => Report!Comparable(a, b)
  BY <1>3 DEF Report!Comparable
<1>7. /\ Report!RatioIsLikeForLike' /\ DOMAIN ratios \subseteq DOMAIN ratios'
      /\ DOMAIN ratios' \subseteq Impl \X Impl
      /\ \A l \in DOMAIN ratios' : ratios'[l] \in Walls \X Walls
      /\ /\ Report!At(a).impl # Report!At(b).impl
         /\ Report!Rankable(a, b)
         => {<<Report!At(a).impl, Report!At(b).impl>>, <<Report!At(b).impl, Report!At(a).impl>>}
              \cap DOMAIN ratios' # {}
  <2>1. CASE UNCHANGED ratios /\ (Report!At(a).impl # Report!At(b).impl => ~Report!Rankable(a, b))
    <3>1. Report!RatioIsLikeForLike'
      BY <1>2, <2>1, EntriesStand DEF Report!RatioIsLikeForLike
    <3> QED BY <2>1, <3>1 DEF Report!TypeOK
  <2>2. ASSUME Report!At(a).impl # Report!At(b).impl,
               Report!At(a).session = Report!At(b).session,
               NEW x \in {a, b}, NEW y \in {a, b}, {x, y} = {a, b}, Report!Rankable(x, y),
               Report!At(x).wall >= Report!At(y).wall,
               Report!Put(<<Report!At(x).impl, Report!At(y).impl>>,
                          <<Report!At(x).wall, Report!At(y).wall>>)
        PROVE  /\ Report!RatioIsLikeForLike' /\ DOMAIN ratios \subseteq DOMAIN ratios'
               /\ DOMAIN ratios' \subseteq Impl \X Impl
               /\ \A l \in DOMAIN ratios' : ratios'[l] \in Walls \X Walls
               /\ {<<Report!At(a).impl, Report!At(b).impl>>,
                   <<Report!At(b).impl, Report!At(a).impl>>} \cap DOMAIN ratios' # {}
    <3>1. x \in Report!Entries /\ y \in Report!Entries
          /\ (Report!Comparable(x, y) \/ Report!Comparable(y, x))
      BY <1>6, <2>2
    <3>2. /\ Report!RatioIsLikeForLike'
          /\ DOMAIN ratios' = DOMAIN ratios \cup {<<Report!At(x).impl, Report!At(y).impl>>}
          /\ DOMAIN ratios' \subseteq Impl \X Impl
          /\ \A l \in DOMAIN ratios' : ratios'[l] \in Walls \X Walls
      BY <1>2, <2>2, <3>1, PutStep
    <3>3. <<Report!At(x).impl, Report!At(y).impl>> \in
            {<<Report!At(a).impl, Report!At(b).impl>>, <<Report!At(b).impl, Report!At(a).impl>>}
      BY <2>2
    <3> QED BY <3>2, <3>3
  <2>3. Report!At(a).session # Report!At(b).session => ~Report!Rankable(a, b)
    BY DEF Report!Rankable
  <2>4. CASE Report!At(a).impl = Report!At(b).impl /\ UNCHANGED <<ratios, excluded>>
    BY <2>1, <2>4
  <2>5. CASE /\ Report!At(a).impl # Report!At(b).impl
             /\ Report!At(a).session # Report!At(b).session /\ UNCHANGED ratios
    BY <2>1, <2>3, <2>5
  <2>6. CASE /\ Report!At(a).impl # Report!At(b).impl
             /\ Report!At(a).session = Report!At(b).session /\ Report!Rank(a, b)
    <3>1. CASE ~Report!Rankable(a, b) /\ UNCHANGED ratios
      BY <2>1, <3>1
    <3>2. CASE \E x, y \in {a, b} :
                 /\ {x, y} = {a, b} /\ Report!Rankable(x, y)
                 /\ Report!At(x).wall >= Report!At(y).wall
                 /\ Report!Put(<<Report!At(x).impl, Report!At(y).impl>>,
                               <<Report!At(x).wall, Report!At(y).wall>>)
      BY <2>2, <2>6, <3>2
    <3> QED BY <2>6, <3>1, <3>2, RankEffect
  <2> QED BY <1>4, <2>4, <2>5, <2>6
<1>8. /\ excluded \subseteq excluded' /\ excluded' \subseteq excluded \cup {<<a, b>>}
      /\ Report!At(a).impl # Report!At(b).impl =>
           (Report!At(a).session # Report!At(b).session <=> <<a, b>> \in excluded')
  BY <1>4
<1>9. \A pr2 \in excluded' : Report!At(pr2[1])'.session # Report!At(pr2[2])'.session
  BY <1>2, <1>4, EntriesStand
<1>10. ASSUME NEW c \in Report!Entries, NEW d \in Report!Entries,
              Report!Comparable(c, d), <<c, d>> \notin todo'
       PROVE  Accounted(c, d)'
  <2>1. CASE <<c, d>> = <<a, b>>
    BY <1>2, <1>7, <1>8, <1>10, <2>1, EntriesStand DEF Accounted, Report!Comparable
  <2>2. CASE <<c, d>> # <<a, b>>
    <3>1. Accounted(c, d)
      BY <1>2, <1>4, <1>10, <2>2
    <3>2. <<c, d>> \in excluded' <=> <<c, d>> \in excluded
      BY <1>8, <2>2
    <3> QED BY <1>2, <1>7, <3>1, <3>2, EntriesStand DEF Accounted
  <2> QED BY <2>1, <2>2
<1>11. ComparedInv'
  BY <1>2, <1>4, <1>7, <1>9, <1>10, EntriesStand
<1>12. Report!TypeOK'
  BY <1>2, <1>4, <1>5, <1>7, <1>8 DEF Report!TypeOK, Report!Condition, Report!Artifacts, Report!Status
<1>13. SweptInv'
  BY <1>2, <1>4 DEF SweptInv, OwnAt, Report!NameOf
<1> QED BY <1>2, <1>11, <1>12, <1>13 DEF Report!ExitCodeIsTheWorst

\* The next condition is fresh, or gets an artifact of its own.
LEMMA MeasureStep ==
  ASSUME ReportInv, Report!Measure, part' = part, part \in Callers
  PROVE  ReportInv'
<1> USE DEF ReportInv
<1> DEFINE n == Len(paths)
           c == conds[n + 1]
           name == Report!NameOf(c)
<1>1. /\ pc = "sweep" /\ n < Len(conds) /\ paths' = Append(paths, name)
      /\ UNCHANGED <<conds, pc, todo, ratios, excluded, session, exit>>
  BY DEF Report!Measure
<1>2. /\ conds \in Seq(Report!Condition) /\ Len(conds) \in Nat
      /\ paths \in Seq(DOMAIN artifacts) /\ n \in Nat /\ session \in Sessions
      /\ \A p \in DOMAIN artifacts : artifacts[p] \in Report!Artifacts
  BY DEF Report!TypeOK
<1>3. c \in Report!Condition /\ n + 1 \in 1..Len(conds)
  BY <1>1, <1>2
<1>4. /\ name \in DOMAIN artifacts' /\ DOMAIN artifacts \subseteq DOMAIN artifacts'
      /\ \A p \in DOMAIN artifacts' : artifacts'[p] \in Report!Artifacts
      /\ \A p \in DOMAIN artifacts : p # name => artifacts'[p] = artifacts[p]
      /\ artifacts'[name].grid = c.grid /\ artifacts'[name].impl = c.impl
      /\ artifacts'[name].session = session
  <2>1. CASE Report!Fresh(c)
    <3>1. artifacts' = artifacts
      BY <2>1 DEF Report!Measure
    <3>2. /\ name \in DOMAIN artifacts
          /\ artifacts[name] = [artifacts[name] EXCEPT !.status = "ok", !.grid = c.grid,
                                                       !.impl = c.impl, !.session = session]
      BY <2>1 DEF Report!Fresh
    <3>3. artifacts[name] \in Report!Artifacts
      BY <1>2, <3>2
    <3>4. /\ artifacts[name].grid = c.grid /\ artifacts[name].impl = c.impl
          /\ artifacts[name].session = session
      <4> DEFINE a == artifacts[name]
      <4>1. /\ [a EXCEPT !.status = "ok", !.grid = c.grid, !.impl = c.impl, !.session = session].grid = c.grid
            /\ [a EXCEPT !.status = "ok", !.grid = c.grid, !.impl = c.impl, !.session = session].impl = c.impl
            /\ [a EXCEPT !.status = "ok", !.grid = c.grid, !.impl = c.impl, !.session = session].session = session
        <5> HIDE DEF c, name
        <5> QED BY <3>3 DEF Report!Artifacts
      <4> HIDE DEF a, c, name
      <4>2. a = [a EXCEPT !.status = "ok", !.grid = c.grid, !.impl = c.impl, !.session = session]
        BY <3>2 DEF a
      <4>3. a.grid = c.grid /\ a.impl = c.impl /\ a.session = session
        BY <4>1, <4>2
      <4> QED BY <4>3 DEF a
    <3> HIDE DEF c, name
    <3> QED BY <1>2, <3>1, <3>2, <3>4
  <2>2. CASE ~Report!Fresh(c)
    <3>1. PICK a \in Report!Artifacts :
             /\ a.grid = c.grid /\ a.impl = c.impl /\ a.session = session
             /\ artifacts' = [q \in DOMAIN artifacts \cup {name} |->
                                IF q = name THEN a ELSE artifacts[q]]
      BY <2>2 DEF Report!Measure
    <3> HIDE DEF c, name
    <3> QED BY <1>2, <3>1
  <2> QED BY <2>1, <2>2
<1>5. /\ Len(paths') = n + 1 /\ paths' \in Seq(DOMAIN artifacts')
      /\ paths'[n + 1] = name /\ \A j \in 1..n : paths'[j] = paths[j]
  <2> HIDE DEF name
  <2> QED BY <1>1, <1>2, <1>4
<1>6. part # "library" => \A j \in 1..(n + 1) : paths'[j] = Report!NameOf(conds[j])
  BY <1>1, <1>2, <1>5 DEF SweptInv
<1>7. ASSUME part = "command", NEW j \in 1..(n + 1) PROVE OwnAt(j)'
  <2>1. CASE paths'[j] = name
    <3>1. Report!NameOf(conds[j]) = name
      BY <1>6, <1>7, <2>1
    <3>2. conds[j].grid = c.grid
      BY <1>7, <3>1 DEF Report!NameOf
    <3>3. j \in 1..Len(conds)
      BY <1>1, <1>2
    <3>4. conds[j].impl = c.impl
      BY <1>3, <1>7, <3>3 DEF SweptInv
    <3> HIDE DEF c, name, n
    <3> QED BY <1>1, <1>4, <2>1, <3>2, <3>4 DEF OwnAt
  <2>2. CASE paths'[j] # name
    <3>1. j \in 1..n /\ paths'[j] = paths[j]
      BY <1>2, <1>5, <2>2
    <3>2. paths[j] \in DOMAIN artifacts
      BY <1>2, <3>1
    <3>3. OwnAt(j)
      BY <1>7, <3>1 DEF SweptInv
    <3> HIDE DEF c, name, n
    <3> QED BY <1>1, <1>4, <2>2, <3>1, <3>2, <3>3 DEF OwnAt
  <2> QED BY <2>1, <2>2
<1> HIDE DEF c, name
<1>8. ratios = <<>> /\ excluded = {} /\ todo = {}
  BY <1>1 DEF SweptInv
<1>9. SweptInv'
  <2>1. \A j : Report!NameOf(conds[j])' = Report!NameOf(conds[j])
    BY <1>1 DEF Report!NameOf
  <2> QED BY <1>1, <1>2, <1>5, <1>6, <1>7, <1>8, <2>1 DEF SweptInv
<1>10. ComparedInv'
  BY <1>1, <1>8 DEF ComparedInv, Report!RatioIsLikeForLike
<1>11. Report!TypeOK'
  BY <1>1, <1>2, <1>4, <1>5, <1>8 DEF Report!TypeOK, Report!Condition, Report!Artifacts, Report!Status
<1> QED BY <1>1, <1>9, <1>10, <1>11 DEF Report!ExitCodeIsTheWorst

LEMMA BeginReportStep ==
  ASSUME ReportInv, Report!BeginReport, part' = part
  PROVE  ReportInv'
<1> USE DEF ReportInv
<1>1. /\ pc = "sweep" /\ pc' = "report" /\ todo' = Report!Pairs /\ Len(paths) = Len(conds)
      /\ UNCHANGED <<conds, artifacts, paths, ratios, excluded, session, exit>>
      /\ ratios = <<>> /\ excluded = {}
  BY DEF Report!BeginReport, SweptInv
<1>2. todo' \subseteq (1..Len(paths)) \X (1..Len(paths))
  BY <1>1 DEF Report!Pairs, Report!Entries
<1>3. Report!TypeOK'
  BY <1>1, <1>2 DEF Report!TypeOK, Report!Condition, Report!Artifacts, Report!Status
<1>4. SweptInv'
  BY <1>1 DEF SweptInv, OwnAt, Report!NameOf, Report!TypeOK
<1>5. ComparedInv'
  <2>1. \A a, b \in Report!Entries : Report!Comparable(a, b) => <<a, b>> \in todo'
    BY <1>1 DEF Report!Comparable, Report!Pairs, Report!SameGroup
  <2>2. Report!RatioIsLikeForLike'
    BY <1>1 DEF Report!RatioIsLikeForLike
  <2> QED BY <1>1, <2>1, <2>2, EntriesStand DEF ComparedInv
<1> QED BY <1>1, <1>3, <1>4, <1>5 DEF Report!ExitCodeIsTheWorst

\* The exit code is read off the statuses, each of which is of the invocation's own
\* artifact.
LEMMA EndStep ==
  ASSUME ReportInv, Report!End, part' = part, part \in Callers
  PROVE  ReportInv'
<1> USE DEF ReportInv
<1>1. /\ pc = "report" /\ pc' = "done" /\ todo = {}
      /\ UNCHANGED <<conds, artifacts, paths, todo, ratios, excluded, session>>
  BY DEF Report!End
<1>2. SweptInv' /\ ComparedInv'
  <2>1. SweptInv'
    BY <1>1 DEF SweptInv, OwnAt, Report!NameOf
  <2>2. Report!RatioIsLikeForLike'
    BY <1>1, EntriesStand DEF ComparedInv, Report!RatioIsLikeForLike
  <2>3. \A a, b : Accounted(a, b)' <=> Accounted(a, b)
    BY <1>1, EntriesStand DEF Accounted
  <2>4. ComparedInv'
    BY <1>1, <2>2, <2>3, EntriesStand DEF ComparedInv
  <2> QED BY <2>1, <2>4
<1> DEFINE statuses == [p \in 1..Len(paths) |-> Report!At(p).status]
           Seen == {statuses[p] : p \in 1..Len(paths)}
<1>3. part = "command" =>
        exit' = IF Seen \subseteq {"ok"} THEN 0 ELSE IF Seen \subseteq {"ok", "refused"} THEN 3 ELSE 1
  <2>1. Report!ToSet(statuses) = Seen
    BY DEF Report!ToSet
  <2>2. part = "command" => exit' = Report!BenchExitCode(statuses)
    BY DEF Report!End
  <2> HIDE DEF statuses, Seen
  <2> QED BY <2>1, <2>2 DEF Report!BenchExitCode
<1>4. exit' \in {0, 1, 3}
  <2>1. part = "script" => exit' = Report!Acceptance
    BY DEF Report!End
  <2>2. Report!Acceptance \in {0, 1}
    BY DEF Report!Acceptance
  <2>3. part = "library" => exit' = 0
    BY DEF Report!End
  <2> HIDE DEF Seen
  <2> QED BY <1>3, <2>1, <2>2, <2>3 DEF Callers
<1>5. Report!TypeOK'
  BY <1>1, <1>4 DEF Report!TypeOK, Report!Condition, Report!Artifacts, Report!Status
<1>6. Report!ExitCodeIsTheWorst'
  <2> DEFINE Own(d, s) == LET a == artifacts[Report!NameOf(d)]
                          IN  a.status \in s /\ a.grid = d.grid /\ a.impl = d.impl /\ a.session = session
             All(s) == \A j \in 1..Len(conds) : Own(conds[j], s)
  <2>1. SUFFICES ASSUME part = "command"
                 PROVE  /\ exit' = 0 <=> All({"ok"})
                        /\ exit' = 3 => All({"ok", "refused"}) /\ ~All({"ok"})
    BY <1>1 DEF Report!ExitCodeIsTheWorst, Report!NameOf
  <2>2. ASSUME NEW s, NEW j \in 1..Len(conds) PROVE Own(conds[j], s) <=> statuses[j] \in s
    <3>1. Len(paths) = Len(conds) /\ paths[j] = Report!NameOf(conds[j]) /\ OwnAt(j)
      BY <1>1, <2>1 DEF SweptInv
    <3>2. statuses[j] = artifacts[paths[j]].status
      BY <3>1 DEF Report!At
    <3> QED BY <3>1, <3>2 DEF OwnAt
  <2>3. Len(paths) = Len(conds)
    BY <1>1, <2>1 DEF SweptInv
  <2>4. ASSUME NEW s PROVE All(s) <=> Seen \subseteq s
    <3> HIDE DEF statuses, Own
    <3> QED BY <2>2, <2>3, ZenonT(60)
  <2> HIDE DEF Seen, All
  <2> QED BY <1>3, <2>1, <2>4
<1> QED BY <1>1, <1>2, <1>5, <1>6

LEMMA AgainStep ==
  ASSUME ReportInv, Report!Again, part' = part, part \in Callers
  PROVE  ReportInv'
<1> USE DEF ReportInv
<1>1. /\ part # "library" /\ pc = "done" /\ pc' = "sweep" /\ session' \in Sessions
      /\ conds' \in Report!ConditionLists /\ paths' = <<>> /\ ratios' = <<>> /\ excluded' = {}
      /\ exit' = 0 /\ UNCHANGED artifacts /\ todo' = {} /\ Len(paths') = 0 /\ DOMAIN ratios' = {}
  BY DEF Report!Again
<1>2. /\ conds' \in Seq(Report!Condition) /\ Len(conds') \in Nat
      /\ part = "command" => \A j, k \in 1..Len(conds') : conds'[j].impl = conds'[k].impl
  BY <1>1, ConditionsOfACaller
<1>3. paths' \in Seq(DOMAIN artifacts)
  BY <1>1
<1>4. Report!TypeOK'
  BY <1>1, <1>2, <1>3 DEF Report!TypeOK, Report!Condition, Report!Artifacts, Report!Status
<1>5. SweptInv'
  BY <1>1, <1>2 DEF SweptInv
<1>6. ComparedInv'
  BY <1>1 DEF ComparedInv, Report!RatioIsLikeForLike
<1> QED BY <1>1, <1>4, <1>5, <1>6 DEF Report!ExitCodeIsTheWorst

LEMMA ReportStands ==
  ASSUME ReportInv, UNCHANGED <<part, reportVars, pc>>
  PROVE  ReportInv'
<1> USE DEF ReportInv
<1>1. UNCHANGED <<part, conds, artifacts, paths, ratios, excluded, exit, pc, session, todo>>
  BY DEF reportVars
<1>2. Report!TypeOK' /\ SweptInv'
  BY <1>1 DEF Report!TypeOK, Report!Condition, Report!Artifacts, Report!Status, SweptInv, OwnAt,
     Report!NameOf
<1>3. Report!RatioIsLikeForLike'
  BY <1>1, EntriesStand DEF ComparedInv, Report!RatioIsLikeForLike
<1>4. \A a, b : Accounted(a, b)' <=> Accounted(a, b)
  BY <1>1, EntriesStand DEF Accounted
<1>5. ComparedInv'
  BY <1>1, <1>3, <1>4, EntriesStand DEF ComparedInv
<1>6. Report!ExitCodeIsTheWorst'
  BY <1>1 DEF Report!ExitCodeIsTheWorst, Report!NameOf
<1> QED BY <1>1, <1>2, <1>5, <1>6

LEMMA ReportSteps ==
  part \in Callers /\ ReportInv /\ Report!Next => ReportInv'
<1> SUFFICES ASSUME part \in Callers, ReportInv, Report!Next PROVE ReportInv'
  OBVIOUS
<1>1. part' = part
  BY DEF Report!Next
<1>2. CASE Report!Done
  BY <1>2, ReportStands DEF Report!Done, Report!vars, reportVars
<1> QED BY <1>1, <1>2, CompareStep, MeasureStep, BeginReportStep, EndStep, AgainStep
        DEF Report!Next

LEMMA ReportHolds ==
  ASSUME ReportInv
  PROVE  /\ Report!TypeOK /\ Report!RatioIsLikeForLike
         /\ Report!EveryPairIsAccounted /\ Report!ExitCodeIsTheWorst
  BY DEF ReportInv, ComparedInv, Accounted, Report!EveryPairIsAccounted

(***************************************************************************)
(* The suite: one part runs, the others rest.                              *)
(***************************************************************************)

SuiteInv ==
  /\ part = "orphans" => OrphanInv
  /\ part \in Callers => ReportInv
  /\ part = "contribution" => ContributionInv

LEMMA SuiteStarts == SuiteInit => SuiteInv
<1> SUFFICES ASSUME SuiteInit PROVE SuiteInv
  OBVIOUS
<1>1. part = "orphans" => OrphanInv
  BY OrphansInitIsTheSuites, OrphansStart DEF SuiteInit, Callers
<1>2. part \in Callers => ReportInv
  BY ReportStarts DEF SuiteInit, Callers
<1>3. part = "contribution" => ContributionInv
  BY ContributionStarts DEF SuiteInit, Callers
<1> QED BY <1>1, <1>2, <1>3 DEF SuiteInv

\* A step is one of the part that runs.
LEMMA PartsTakeTurns ==
  ASSUME [SuiteNext]_suiteVars
  PROVE  /\ part' = part
         /\ part = "orphans" => [Orphaned!Next]_orphanVars
         /\ part \in Callers => Report!Next \/ UNCHANGED <<part, reportVars, pc>>
         /\ part = "contribution" => [Contribute!Next]_<<contributionVars, pc>>
<1>1. CASE UNCHANGED suiteVars
  BY <1>1 DEF suiteVars
<1>2. CASE CallsAreOver
  BY <1>2 DEF CallsAreOver, suiteVars
<1>3. CASE InSweep(Next)
  BY <1>3 DEF InSweep, Callers
<1>4. CASE InOrphans(Orphaned!Next)
  BY <1>4 DEF InOrphans, Callers
<1>5. CASE InReport(Report!Next)
  BY <1>5 DEF InReport, Callers
<1>6. CASE InContribution(Contribute!Next)
  BY <1>6 DEF InContribution, Callers
<1> QED BY <1>1, <1>2, <1>3, <1>4, <1>5, <1>6 DEF SuiteNext

LEMMA SuiteSteps == SuiteInv /\ [SuiteNext]_suiteVars => SuiteInv'
<1> SUFFICES ASSUME SuiteInv, [SuiteNext]_suiteVars PROVE SuiteInv'
  OBVIOUS
<1>1. part = "orphans" => OrphanInv'
  BY PartsTakeTurns, OrphansAreTheSuites, OrphansStep DEF SuiteInv
<1>2. part \in Callers => ReportInv'
  BY PartsTakeTurns, ReportSteps, ReportStands DEF SuiteInv
<1>3. part = "contribution" => ContributionInv'
  BY PartsTakeTurns, ContributionSteps DEF SuiteInv
<1>4. part' = part
  BY PartsTakeTurns
<1> QED BY <1>1, <1>2, <1>3, <1>4 DEF SuiteInv

LEMMA SuiteInvariant == SuiteSpec => []SuiteInv
  BY SuiteStarts, SuiteSteps, PTL DEF SuiteSpec

\* runner.py:344-405: every condition has a record when the sweep is over, also when
\* workers of an earlier start outlived it, stalled or ended without one.
THEOREM OrphansLeaveNoGap == SuiteSpec => []OrphansAreAccountedFor
<1>1. SuiteInv => OrphansAreAccountedFor
  BY OrphansHold DEF SuiteInv, OrphansAreAccountedFor
<1> QED BY <1>1, SuiteInvariant, PTL

\* runner.py:165-167: a sweep launches no condition a second time, however long the
\* workers of failed guard clients and of killed runners go on beside the next ones.
THEOREM OrphansRunOnce == SuiteSpec => []OrphansAreNotRelaunched
<1>1. SuiteInv => OrphansAreNotRelaunched
  BY OrphansHold DEF SuiteInv, OrphansAreNotRelaunched
<1> QED BY <1>1, SuiteInvariant, PTL

\* runner.py:425-445, cli.py:280-292: ratios compare like with like, no pair of artifacts
\* goes unaccounted, and the exit code is the worst that was measured, for any grid,
\* implementations, row counts and sessions.
THEOREM ReportsAreLikeForLike == SuiteSpec => []ReportIsLikeForLike
<1>1. SuiteInv => ReportIsLikeForLike
  BY ReportHolds DEF SuiteInv, ReportIsLikeForLike
<1> QED BY <1>1, SuiteInvariant, PTL

\* contribute.py:387-431: what is published is of the call that publishes it, wherever
\* calls, scripts and children die, but for what processes of earlier calls remove and
\* write that this call found at work; for any tiers, versions of the code and calls.
THEOREM PublishedIsTheCalls == SuiteSpec => []PublishedIsOfThisCall
<1>1. SuiteInv => PublishedIsOfThisCall
  BY ContributionHolds DEF SuiteInv, PublishedIsOfThisCall
<1> QED BY <1>1, SuiteInvariant, PTL

\* contribute.py:551-561: a session's measurement stands until another session works in
\* the directory, in a call that found no process of an earlier one at work.
THEOREM MeasurementsStand == SuiteSpec => ResumeKeepsMeasured
<1>1. SuiteInv /\ [SuiteNext]_suiteVars =>
        [part = "contribution" /\ beside = {} =>
           \A c \in DOMAIN records :
             records[c].status = "ok" /\ records[c].session = Contribute!Session
               => records'[c] = records[c] \/ Contribute!Session' # Contribute!Session]_suiteVars
  <2> SUFFICES ASSUME SuiteInv, SuiteNext, part = "contribution", beside = {},
                      NEW c \in DOMAIN records,
                      records[c].status = "ok", records[c].session = Contribute!Session
               PROVE  records'[c] = records[c]
    OBVIOUS
  <2>1. Contribute!Next \/ UNCHANGED suiteVars
    BY DEF SuiteNext, InSweep, InOrphans, InReport, InContribution, CallsAreOver, Callers
  <2>2. UNCHANGED suiteVars => records' = records
    BY DEF suiteVars, contributionVars
  <2>3. c \in Contribute!Conditions
    BY DEF SuiteInv, ContributionInv, BasicInv
  <2> QED BY <2>1, <2>2, <2>3, MeasuredIsKept DEF SuiteInv
<1> QED BY <1>1, SuiteInvariant, PTL DEF SuiteSpec, ResumeKeepsMeasured
=============================================================================
