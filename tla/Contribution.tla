---------------------------- MODULE Contribution ----------------------------
(***************************************************************************)
(* A contributor's calls of "mlx-train-perf contribute" on one machine     *)
(* (contribute.py): each starts the script that measures attention, which  *)
(* starts one child process per condition (scripts/bench_attention_op.py). *)
(* The session id is derived from the tier and the code, so that an        *)
(* interrupted call can be resumed, and every call works in the same       *)
(* directory.                                                              *)
(*                                                                         *)
(* The three processes of a call die one by one: a script that is killed   *)
(* while it waits leaves its child at work, a call that is killed leaves   *)
(* its script, and what is left may still write when the next call runs.   *)
(*                                                                         *)
(* A condition is named by its sequence length; the call's other benches   *)
(* run under the runner (BenchRunner).                                     *)
(***************************************************************************)
EXTENDS Naturals, FiniteSets, FiniteSetsExt

CONSTANTS Tiers,
          Grid,       \* the conditions of each version of the code
          MaxCalls

Versions == DOMAIN Grid
Calls == 1..MaxCalls

VARIABLES version,    \* of the code that is installed
          records,    \* the directory: condition -> record
          marker,     \* the call that wrote _spawn_crashed.json, or 0
          calls, pc,  \* of the calls, which a user makes one after the other
          runs,       \* the script of each call, and its child
          beside,     \* the earlier calls of which a process lived when this one began
          listed,     \* the paths this call collected
          published   \* the community artifact: which call, and what it says

vars == <<version, records, marker, calls, pc, runs, beside, listed, published>>
callVars == <<version, marker, calls, pc, beside, listed, published>>

Conditions == UNION {Grid[v] : v \in Versions}
Absent == [status |-> "absent"]
Record(k, status) == [status |-> status, session |-> runs[k].session, by |-> k]
Exists(c) == records[c] # Absent

AtWork == {"grid", "stale", "wait", "envelope"}
Alive(k) == runs[k].script \in AtWork \/ runs[k].child # "none"

----------------------------------------------------------------------------
(* The call *)

\* Mutated: a marker of an earlier call is left in place.
MarkerKept == marker

MarkerRemoved == 0

\* run_contribution up to the script: a session of this tier and code, the stale
\* marker removed.
Begin(t) ==
  /\ pc = "idle" /\ calls < MaxCalls
  /\ calls' = calls + 1
  /\ runs' = [runs EXCEPT ![calls + 1] =
                [session |-> [tier |-> t, version |-> version], script |-> "grid",
                 todo |-> Grid[version], cond |-> 0, child |-> "none"]]
  /\ beside' = {k \in 1..calls : Alive(k)}
  /\ marker' = MarkerRemoved
  /\ pc' = "script"
  /\ UNCHANGED <<version, records, listed, published>>

----------------------------------------------------------------------------
(* The script of call k: run_grid *)

\* Mutated: what is fresh is measured again.
Remeasured(k, c) == FALSE

\* result_is_fresh
Skipped(k, c) == records[c].status = "ok" /\ records[c].session = runs[k].session

Skip(k) ==
  /\ runs[k].script = "grid" /\ runs[k].todo # {}
  /\ LET c == Min(runs[k].todo) IN
       /\ Skipped(k, c)
       /\ runs' = [runs EXCEPT ![k].todo = @ \ {c}]
  /\ UNCHANGED <<callVars, records>>

FindStale(k) ==
  /\ runs[k].script = "grid" /\ runs[k].todo # {}
  /\ LET c == Min(runs[k].todo) IN
       /\ ~Skipped(k, c)
       /\ runs' = [runs EXCEPT ![k].script = "stale", ![k].todo = @ \ {c}, ![k].cond = c]
  /\ UNCHANGED <<callVars, records>>

\* The stale record is removed, and a child started.
Spawn(k) ==
  /\ runs[k].script = "stale"
  /\ records' = [records EXCEPT ![runs[k].cond] = Absent]
  /\ runs' = [runs EXCEPT ![k].script = "wait", ![k].child = "runs"]
  /\ UNCHANGED callVars

\* The child has ended: its own record is respected.
LookForRecord(k) ==
  /\ runs[k].script = "wait" /\ runs[k].child = "none"
  /\ runs' = [runs EXCEPT ![k].script = IF Exists(runs[k].cond) THEN "grid" ELSE "envelope"]
  /\ UNCHANGED <<callVars, records>>

\* WorkerCrashed, or WorkerExitedWithoutArtifact.
WriteEnvelope(k) ==
  /\ runs[k].script = "envelope"
  /\ records' = [records EXCEPT ![runs[k].cond] = Record(k, "error")]
  /\ runs' = [runs EXCEPT ![k].script = "grid"]
  /\ UNCHANGED callVars

ScriptReturns(k) ==
  /\ runs[k].script = "grid" /\ runs[k].todo = {}
  /\ runs' = [runs EXCEPT ![k].script = "through"]
  /\ UNCHANGED <<callVars, records>>

\* An import error, a bad argument, a kill anywhere: the child goes on by itself.
ScriptDies(k) ==
  /\ runs[k].script \in AtWork
  /\ runs' = [runs EXCEPT ![k].script = "gone", ![k].todo = {}]
  /\ UNCHANGED <<callVars, records>>

----------------------------------------------------------------------------
(* The child of call k: _run_single_condition, whether or not its script waits *)

Leaves(k, before, after, s) ==
  /\ runs[k].child = before
  /\ runs' = [runs EXCEPT ![k].child = after]
  /\ records' = [records EXCEPT ![runs[k].cond] = Record(k, s)]
  /\ UNCHANGED callVars

\* A measurement, or a refusal of the launch budget.
ChildEnds(k) == \E s \in {"ok", "refused"} : Leaves(k, "runs", "none", s)

\* The watchdog records the breach, on its own thread, and is about to hard-exit; the
\* main thread may still get to write its result before that.
ChildBreaches(k) == Leaves(k, "runs", "dying", "aborted")

ChildOverwrites(k) == \E s \in {"ok", "refused"} : Leaves(k, "dying", "none", s)

\* The hard exit, a crash or a kill; a machine too crowded to start is a crash, since
\* nobody catches the MemoryBudgetError here.
ChildExits(k) ==
  /\ runs[k].child # "none"
  /\ runs' = [runs EXCEPT ![k].child = "none"]
  /\ UNCHANGED <<callVars, records>>

----------------------------------------------------------------------------
(* Collecting and publishing *)

Globbed == {c \in Conditions : Exists(c)}

Rc == IF runs[calls].script = "through" THEN 0 ELSE 1

CrashedEmpty == Rc # 0 /\ Globbed = {} /\ marker = 0

\* _spawn_script returns what is in the directory; a crash that left nothing leaves
\* a marker of its own.
Collect ==
  /\ pc = "script" /\ runs[calls].script \notin AtWork
  /\ listed' = Globbed
  /\ marker' = IF CrashedEmpty THEN calls ELSE marker
  /\ pc' = "publish"
  /\ UNCHANGED <<version, records, calls, runs, beside, published>>

\* summarize_artifact_file: a file that is gone is an error of nobody's.
Unreadable == [status |-> "error", session |-> [tier |-> "none", version |-> 0], by |-> 0]

Publish ==
  /\ pc = "publish"
  /\ published' = [call |-> calls, session |-> runs[calls].session, rc |-> Rc,
                   marker |-> marker, beside |-> beside,
                   entries |-> [c \in listed |-> IF Exists(c) THEN records[c] ELSE Unreadable]]
  /\ pc' = "idle"
  /\ UNCHANGED <<version, records, marker, calls, runs, beside, listed>>

\* The call is killed.  Control-C reaches all three processes: each dies in its own time.
CallDies ==
  /\ pc # "idle"
  /\ pc' = "idle"
  /\ UNCHANGED <<version, records, marker, calls, runs, beside, listed, published>>

----------------------------------------------------------------------------

\* The package is upgraded between two calls, when no process of it runs.
Upgrade ==
  /\ pc = "idle" /\ version + 1 \in Versions
  /\ \A k \in 1..calls : ~Alive(k)
  /\ version' = version + 1
  /\ UNCHANGED <<records, marker, calls, pc, runs, beside, listed, published>>

Nobody == [tier |-> "none", version |-> 0]

Init ==
  /\ version = 1
  /\ records = [c \in Conditions |-> Absent]
  /\ marker = 0
  /\ calls = 0 /\ pc = "idle"
  /\ runs = [k \in Calls |-> [session |-> Nobody, script |-> "none", todo |-> {}, cond |-> 0,
                              child |-> "none"]]
  /\ beside = {} /\ listed = {}
  /\ published = [call |-> 0, session |-> Nobody, rc |-> 0, marker |-> 0, beside |-> {},
                  entries |-> [c \in {} |-> Absent]]

Script(k) ==
  Skip(k) \/ FindStale(k) \/ Spawn(k) \/ LookForRecord(k) \/ WriteEnvelope(k) \/ ScriptReturns(k)
Child(k) == ChildEnds(k) \/ ChildBreaches(k) \/ ChildOverwrites(k) \/ ChildExits(k)

Next ==
  \/ \E t \in Tiers : Begin(t)
  \/ \E k \in 1..calls : Script(k) \/ Child(k) \/ ScriptDies(k)
  \/ Collect \/ Publish \/ CallDies \/ Upgrade

\* A call that was begun goes on; nobody has to begin one.
CallGoesOn == Collect \/ Publish \/ (calls \in Calls /\ (Script(calls) \/ Child(calls)))

Spec == Init /\ [][Next]_vars /\ WF_vars(CallGoesOn)

----------------------------------------------------------------------------
(* Properties *)

\* A script with a child waits for it or has died, and a process that lives is of the
\* present call or of one that it found at work.
TypeOK ==
  /\ pc \in {"idle", "script", "publish"}
  /\ marker \in 0..calls /\ listed \subseteq Conditions /\ published.call <= calls
  /\ \A k \in Calls :
       /\ runs[k].script \in AtWork \cup {"none", "through", "gone"}
       /\ runs[k].child # "none" => runs[k].script \in {"wait", "gone"}
       /\ Alive(k) => k \in beside \cup {calls}

Ran == published.call > 0

\* contribute.py:424-431: a crash marker is only published by the call that crashed, also
\* after calls that crashed, were interrupted or resumed in the same directory, and
\* whatever earlier processes do meanwhile.
MarkerIsThisCalls ==
  published.marker # 0 =>
     published.marker = published.call /\ published.rc = 1 /\ DOMAIN published.entries = {}

\* contribute.py:387-389: a script that dies before it writes anything is not published
\* as a clean, empty bench, unless the process of an earlier call removed its records.
NoCleanEmptyBench ==
  Ran /\ published.beside = {} => DOMAIN published.entries # {} \/ published.marker # 0

\* What a published condition says under another session than the call's was written,
\* or removed, by a process of an earlier call that lived when this one began.
WrittenBeside(c) ==
  published.beside # {} /\
    (c \in DOMAIN published.entries => published.entries[c].by \in {0} \cup published.beside)

\* A call whose script ran through publishes every condition of its own code, answered
\* under its own session, whatever earlier calls left, was interrupted or died: the
\* only exceptions are what processes of earlier calls write that are still at work.
CompleteCallAnswersItsGrid ==
  Ran /\ published.rc = 0 =>
     \A c \in Grid[published.session.version] :
        \/ c \in DOMAIN published.entries /\ published.entries[c].session = published.session
        \/ WrittenBeside(c)

Session == IF calls = 0 THEN Nobody ELSE runs[calls].session

\* contribute.py:551-561: what a session measured is not measured again when the call is
\* repeated, for as long as no other session works in the directory and the call found
\* no earlier one still at work.
ResumeKeepsMeasured ==
  [][\A c \in Conditions :
        records[c].status = "ok" /\ records[c].session = Session /\ beside = {}
          => records'[c] = records[c] \/ Session' # Session]_vars

\* A call that nobody interrupts publishes.
CallEnds == (pc = "script") ~> (pc = "idle")

\* contribute.py:412: _spawn_script returns "the artifacts it wrote", so that nothing of
\* another session is published as this one's.
PublishesThisSession ==
  \A c \in DOMAIN published.entries :
     published.entries[c].status = "ok" => published.entries[c].session = published.session

\* bench_attention_op.py:360-361: the stale record is removed before the spawn "so
\* out_path.exists() after the subprocess returns means exactly 'this subprocess wrote it'".
ExistsMeansThisChild ==
  \A k \in Calls :
     runs[k].script = "wait" /\ runs[k].child = "none" /\ Exists(runs[k].cond)
       => records[runs[k].cond].by = k

\* bench/artifacts.py:268: "The written artifact is the durable record of the breach".
BreachRecordStands ==
  [][\A k \in Calls : runs[k].child = "dying" =>
       records'[runs[k].cond] = records[runs[k].cond]]_vars
=============================================================================
