------------------------------ MODULE Holdout ------------------------------
(***************************************************************************)
(* Hold-out validation (memfit/holdout.py): predictions go into a file     *)
(* that is written once, measurements are taken, and a score compares the  *)
(* two.  Several processes may try to write the same path, and one may die *)
(* between creating the file and filling it.  Relative bands are whole     *)
(* numbers over Den.                                                       *)
(***************************************************************************)
EXTENDS Integers, FiniteSets

CONSTANTS
  Writers,     \* processes that call write_holdout_predictions on one path
  Labels,
  Bytes,       \* measured byte counts, zero among them
  Docs,        \* what a writer may be asked to write: [predictions, quantity]
  Under, Over, \* the band: under_rel = Under / Den, over_rel = Over / Den
  Den,
  Quantities,  \* measured_quantity names
  MaxBudget    \* bound: budgets and reserves the recipe is tried with

VARIABLES
  path,     \* what is at the path: absent, torn, or a complete document
  writer,   \* per writer: what it wants to write and how far it is
  measured, \* label -> bytes, for the labels measured so far
  report    \* the outcome of the last score_holdout call

vars == <<path, writer, measured, report>>

Absent == [state |-> "absent"]
Torn == [state |-> "torn"]
Complete(doc) == [state |-> "complete", doc |-> doc]

PartialMaps == UNION {[S -> Bytes] : S \in SUBSET Labels}

NoReport == [tag |-> "none"]

ScoreError(why) == [tag |-> "error", why |-> why]

Init ==
  /\ path = Absent
  /\ writer \in [Writers -> [doc : Docs, at : {"start"}]]
  /\ measured = [l \in {} |-> 0]
  /\ report = NoReport

---------------------------------------------------------------------------
\* _positive_ints
AllPositive(f) == \A l \in DOMAIN f : f[l] > 0

Moves(w, to) == writer' = [writer EXCEPT ![w].at = to]

\* Mutated: opens for writing whatever is there.
TakesAnyway(p) == TRUE

\* Mode "x": creating the file fails when something is at the path.
Takes(p) == p = Absent

\* Validation and serialisation, before the file is touched.
Validate(w) ==
  /\ writer[w].at = "start"
  /\ LET predictions == writer[w].doc.predictions IN
       Moves(w, IF DOMAIN predictions # {} /\ AllPositive(predictions) THEN "serialized"
                ELSE "refused")
  /\ UNCHANGED <<path, measured, report>>

Open(w) ==
  /\ writer[w].at = "serialized"
  /\ IF Takes(path) THEN path' = Torn /\ Moves(w, "opened")
                    ELSE UNCHANGED path /\ Moves(w, "refused")
  /\ UNCHANGED <<measured, report>>

Fill(w) ==
  /\ writer[w].at = "opened"
  /\ path' = Complete(writer[w].doc)
  /\ Moves(w, "returned")
  /\ UNCHANGED <<measured, report>>

\* The process dies with the file created and not filled.
Crash(w) ==
  /\ writer[w].at = "opened"
  /\ Moves(w, "dead")
  /\ UNCHANGED <<path, measured, report>>

\* One measuring run ends; a label is measured once.
Measure(l, b) ==
  /\ l \notin DOMAIN measured
  /\ measured' = [k \in DOMAIN measured \cup {l} |-> IF k = l THEN b ELSE measured[k]]
  /\ UNCHANGED <<path, writer, report>>

---------------------------------------------------------------------------
\* predicted * (1 - over_rel) <= measured <= predicted * (1 + under_rel)
InBand(p, b) == p * (Den - Over) <= b * Den /\ b * Den <= p * (Den + Under)

Unscored(predictions) == DOMAIN predictions \ DOMAIN measured

Outcome(expect) ==
  CASE path = Absent -> ScoreError("no file")
    [] path = Torn -> ScoreError("not JSON")
    [] OTHER ->
         LET predictions == path.doc.predictions
             points == DOMAIN predictions \cap DOMAIN measured
         IN  CASE ~AllPositive(predictions) -> ScoreError("prediction")
               [] path.doc.quantity # expect -> ScoreError("mismatch")
               [] ~AllPositive(measured) -> ScoreError("measurement")
               [] OTHER -> [tag |-> "scored", predictions |-> predictions,
                            points |-> points,
                            out_of_band |-> {l \in points : ~InBand(predictions[l], measured[l])},
                            unscored |-> Unscored(predictions),
                            unpredicted |-> DOMAIN measured \ DOMAIN predictions,
                            seen |-> measured]

Score(expect) == report' = Outcome(expect) /\ UNCHANGED <<path, writer, measured>>

WriterGoesOn(w) == Validate(w) \/ Open(w) \/ Fill(w) \/ Crash(w)

Next ==
  \/ \E w \in Writers : WriterGoesOn(w)
  \/ \E l \in Labels, b \in Bytes : Measure(l, b)
  \/ \E q \in Quantities : Score(q)

Spec ==
  /\ Init /\ [][Next]_vars
  /\ \A w \in Writers : WF_vars(WriterGoesOn(w))

---------------------------------------------------------------------------
TypeOK ==
  /\ path \in {Absent, Torn} \cup {Complete(d) : d \in Docs}
  /\ \A w \in Writers : writer[w].at \in {"start", "serialized", "opened", "returned", "refused",
                                         "dead"}
  /\ measured \in PartialMaps
  /\ report.tag \in {"none", "error", "scored"}

\* Predictions are never replaced: a complete file stays what it is, and
\* whoever came second is told so (holdout.py:8, :94-96).
WrittenOnce == path.state = "complete" => path' = path

\* A writer that returned without an error is the one whose predictions are
\* scored, also when several raced for the path.
ReturnedMeansWritten ==
  \A w \in Writers : writer[w].at = "returned" => path = Complete(writer[w].doc)

\* A score says something of every label, predicted or measured: exactly one
\* of in the score, predicted only, measured only; nothing goes missing.
ScoreAccountsForEveryLabel ==
  report.tag = "scored" =>
    /\ DOMAIN report.predictions \cup DOMAIN report.seen =
         report.points \cup report.unscored \cup report.unpredicted
    /\ report.points \cap report.unscored = {}
    /\ report.unscored \cap report.unpredicted = {}
    /\ report.out_of_band \subseteq report.points

\* The recipe of holdout.py:9-11: a plan made with the budget
\* floor((B - reserve) / (1 + under_rel)) keeps the reserve free whenever its
\* point measures in band.
BudgetKeepsTheReserve ==
  report.tag = "scored" =>
    \A l \in report.points \ report.out_of_band, B \in 0 .. MaxBudget : \A reserve \in 0 .. B :
      report.predictions[l] <= ((B - reserve) * Den) \div (Den + Under)
        => report.seen[l] + reserve <= B

\* Every write call returns, refuses, or dies.
WritesEnd == \A w \in Writers : <>(writer[w].at \in {"returned", "refused", "dead"})
=============================================================================
