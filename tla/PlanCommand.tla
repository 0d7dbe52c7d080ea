----------------------------- MODULE PlanCommand -----------------------------
(***************************************************************************)
(* The plan command (cli.py): reads a model config, makes one planner call *)
(* or, for --max-seq and --max-batch, two, prints one report and turns the *)
(* outcome into an exit code.  The planner's calls are FitPlanner's steps. *)
(***************************************************************************)
EXTENDS FitPlanner

CONSTANTS
  Argvs,       \* the command lines argparse lets through
  GroupDefault \* _DEFAULT_QUANT_GROUP

None == -1     \* an option that was not given

VARIABLES
  argv,   \* the options
  stage,  \* "load", "first" and "second" planner call, "exited"
  raised, \* CalibrationWarnings recorded since the command began
  shown,  \* the warning lines on stderr
  report, \* the configuration the printed report is about
  code    \* the exit code

cli == <<argv, stage, raised, shown, report, code>>

NoReport == [fits |-> FALSE, cfg |-> "none"]
NoExit == -1

---------------------------------------------------------------------------
\* _load_model_shape: an unreadable file, bad JSON and a hybrid config are
\* typed errors; a config that lacks a field escapes as a KeyError.
LoadOutcome(config) ==
  CASE config \in {"unreadable", "not_json", "hybrid"} -> "typed_error"
    [] config = "field_missing" -> "traceback"
    [] OTHER -> "loaded"

\* _apply_quant_override
QuantOverride(shape, bits) ==
  IF bits = None THEN shape
  ELSE [shape EXCEPT !.quant_bits = bits,
                     !.quant_group = IF @ = 0 THEN GroupDefault ELSE @]

\* _train_config_from_args
CfgOf(a, batch, seq) ==
  [batch |-> batch, seq_len |-> seq, dtype |-> "bfloat16", lora_rank |-> a.lora_rank,
   lora_layers |-> IF a.lora_rank > 0 THEN a.shape.layers ELSE 0,
   grad_checkpoint |-> TRUE, impl |-> a.impl, attention |-> a.attention]

\* The option each form of the command needs and the one it refuses.
BadOptions(a) ==
  CASE a.search = "fit" -> a.batch = None \/ a.seq_len = None
    [] a.search = "seq" -> a.batch = None \/ a.seq_len # None
    [] OTHER -> a.seq_len = None \/ a.batch # None

FirstCfg(a) ==
  CfgOf(a, IF a.search = "batch" THEN 1 ELSE a.batch, IF a.search = "seq" THEN 1 ELSE a.seq_len)

---------------------------------------------------------------------------
\* The planner's variables at the start of a call.
Enters(kind, shape, cfg, budget, ceiling, mlx) ==
  /\ call' = [kind |-> kind, shape |-> shape, cfg |-> cfg, budget |-> budget,
              ceiling |-> ceiling, mlx |-> mlx]
  /\ pc' = "enter" /\ warned' = 0 /\ cand' = cfg /\ lo' = 0 /\ hi' = 0 /\ result' = Pending

CInit ==
  /\ argv \in Argvs
  /\ stage = "load" /\ raised = 0 /\ shown = 0 /\ report = NoReport /\ code = NoExit
  /\ pc = "idle" /\ warned = 0 /\ cand = NoReport /\ lo = 0 /\ hi = 0 /\ result = Pending
  /\ call = NoReport

\* _surface_plan_warnings: each distinct message once, whatever the outcome.
Surface(count) == IF count > 0 THEN 1 ELSE 0

Exits(c, total) == code' = c /\ shown' = Surface(total) /\ raised' = total /\ stage' = "exited"

\* From the config file to the first planner call.
Load ==
  /\ stage = "load"
  /\ LET outcome == LoadOutcome(argv.config) IN
     \/ /\ outcome = "loaded" /\ ~BadOptions(argv)
        /\ Enters(argv.search, QuantOverride(argv.shape, argv.quant_bits), FirstCfg(argv),
                  argv.budget, IF argv.search = "seq" THEN argv.seq_ceiling ELSE argv.batch_ceiling,
                  argv.mlx)
        /\ stage' = "first"
        /\ UNCHANGED <<raised, shown, code>>
     \/ /\ outcome = "typed_error" \/ (outcome = "loaded" /\ BadOptions(argv))
        /\ Exits(2, 0)
        /\ UNCHANGED vars
     \/ /\ outcome = "traceback"   \* Python's own exit code for an uncaught exception
        /\ Exits(1, 0)
        /\ UNCHANGED vars
  /\ UNCHANGED <<argv, report>>

Plans == stage \in {"first", "second"} /\ pc # "done" /\ Next /\ UNCHANGED cli

\* Mutated: keeps the placeholder of the searched number.
ResolvedUnset == call.cfg

\* The configuration a finished search is reported with.
Resolved == Vary(result.value)

\* A search that found its value asks plan_fit about it.
Resolve ==
  /\ stage = "first" /\ pc = "done" /\ result.tag = "largest"
  /\ Enters("fit", call.shape, Resolved, call.budget, call.ceiling, call.mlx)
  /\ stage' = "second"
  /\ raised' = raised + warned
  /\ UNCHANGED <<argv, shown, report, code>>

\* DoesNotFitError at the floor of a search is a refusal, not a tool error.
RefusalCode == 1

\* _plan_exit_code, the refusal of a search and main's handler.
End ==
  /\ pc = "done" /\ stage \in {"first", "second"} /\ result.tag # "largest"
  /\ CASE result.tag = "refused" -> Exits(2, raised + warned) /\ UNCHANGED report
       [] result.tag = "does_not_fit" -> Exits(RefusalCode, raised + warned) /\ UNCHANGED report
       [] OTHER -> /\ report' = [fits |-> result.tag = "fits", cfg |-> call.cfg]
                   /\ Exits(IF result.tag = "fits" THEN 0 ELSE 1, raised + warned)
  /\ UNCHANGED <<vars, argv>>

Ended == stage = "exited" /\ UNCHANGED <<vars, cli>>

CNext == Load \/ Plans \/ Resolve \/ End \/ Ended

CSpec == CInit /\ [][CNext]_<<vars, cli>> /\ WF_<<vars, cli>>(CNext)

---------------------------------------------------------------------------
CTypeOK ==
  /\ stage \in {"load", "first", "second", "exited"}
  /\ raised \in 0 .. 2 /\ shown \in 0 .. 1
  /\ code \in {NoExit, 0, 1, 2}
  /\ report.fits \in BOOLEAN

\* The report a search prints is about the edge it found: that configuration
\* fits, and one more token or row does not, short of the ceiling.
PrintedIsTheEdge ==
  stage = "exited" /\ argv.search # "fit" /\ report # NoReport =>
    LET own == IF argv.search = "seq" THEN report.cfg.seq_len ELSE report.cfg.batch
        more == IF argv.search = "seq" THEN [report.cfg EXCEPT !.seq_len = own + 1]
                                       ELSE [report.cfg EXCEPT !.batch = own + 1]
        top == IF argv.search = "seq" THEN argv.seq_ceiling ELSE argv.batch_ceiling
    IN  /\ report.fits /\ code = 0
        /\ FitsBudget(report.cfg)
        /\ own < top => ~FitsBudget(more)

\* A script that trusts the exit code never trains above the budget, and a
\* search without an answer is not taken for a broken tool (cli.py:193-194).
VerdictInTheCode ==
  stage = "exited" /\ pc = "done" =>
    /\ code = 0 <=> report.fits
    /\ result.tag \in {"does_not_fit", "over_budget", "suggests"} <=> code = 1

\* One line on stderr per distinct warning, though a search makes two calls
\* and both warn; a search that ends in a refusal shows it as well, and an
\* input error none.
OneWarningLine ==
  stage = "exited" =>
    shown = IF pc = "done" /\ result.tag # "refused" /\ argv.attention = "stock"
                 /\ HasNote(argv.mlx)
            THEN 1 ELSE 0

\* Every command exits.
CommandEnds == <>(stage = "exited")

\* cli.py:4-5: exit 1 says that the configuration does not fit, 2 that the
\* tool could not tell.
ExitOneMeansDoesNotFit ==
  stage = "exited" /\ code = 1 =>
    pc = "done" /\ result.tag \in {"does_not_fit", "over_budget", "suggests"}
=============================================================================
