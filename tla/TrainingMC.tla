------------------------------ MODULE TrainingMC ------------------------------
(***************************************************************************)
(* A training run, for TLC: the batches it takes (Packing), the model it   *)
(* rewrites (Enabling) and the condition of the bench that drives it       *)
(* (TrainCondition).  One part runs in each behaviour.                     *)
(***************************************************************************)
EXTENDS Packing

CONSTANTS Depth, MaxEdits, MaxCalls,                        \* of Enabling
          Buckets, MaxSteps                                 \* of TrainCondition

\* A model has a number of layers.
ASSUME DepthAssumption == Depth \in Nat

VARIABLES
  part,                                                     \* the part that runs
  model, layer, call, last, edits, calls,                   \* of Enabling
  cfg, phase, dtype, pending, trainable, drawnFrom, warm, wired, reasserted, traced,
  stalls, spilled, step, over                               \* of TrainCondition

packVars == vars
modelVars == <<model, layer, call, last, edits, calls>>
conditionVars == <<cfg, phase, dtype, pending, trainable, drawnFrom, warm, wired,
                   reasserted, traced, stalls, spilled, step, over>>
suiteVars == <<part, packVars, modelVars, conditionVars>>

S(n, o) == [len |-> n, offset |-> o]

\* Sequences from one token to one too long, some of them with a prompt.
Kinds == <<S(1, 0), S(2, 2), S(3, 1), S(5, 3), S(7, 9)>>

\* Sorted, since every order is drawn anyway.
SomeDatasets ==
  {<<>>, <<S(2, 0), S(0, 0)>>} \cup
  {[n \in 1..4 |-> Kinds[f[n]]] :
     f \in {g \in [1..4 -> 1..5] : \A n \in 1..3 : g[n] <= g[n + 1]}}

Call(loop, world, positions) ==
  [loop |-> loop, world |-> world, positions |-> positions]

SomeRequests == {Call(FALSE, 1, 0), Call(TRUE, 1, 6), Call(FALSE, 2, 0), Call(FALSE, 1, 4)}

Switches == INSTANCE Enabling

Condition == INSTANCE TrainCondition WITH pc <- phase

-----------------------------------------------------------------------------
(* A part that does not run rests. *)

PackingRests ==
  data = <<>> /\ request = [loop |-> FALSE, world |-> 1, positions |-> 0] /\ Init
ModelRests == /\ model = <<>> /\ layer = <<>> /\ call = <<>> /\ last = <<>>
              /\ edits = 0 /\ calls = 0
ConditionRests == /\ cfg = <<>> /\ phase = "rests" /\ dtype = <<>> /\ pending = {}
                  /\ trainable = {} /\ drawnFrom = <<>> /\ warm = {} /\ wired = "none"
                  /\ reasserted = FALSE /\ traced = {} /\ stalls = {} /\ spilled = {}
                  /\ step = 0 /\ over = 0

SuiteInit ==
  \/ part = "packing" /\ Init /\ ModelRests /\ ConditionRests
  \/ part = "model" /\ PackingRests /\ Switches!Init /\ ConditionRests
  \/ part = "condition" /\ PackingRests /\ ModelRests /\ Condition!Init

InPacking(A) == part = "packing" /\ A /\ UNCHANGED <<part, modelVars, conditionVars>>
InModel(A) == part = "model" /\ A /\ UNCHANGED <<part, packVars, conditionVars>>
InCondition(A) == part = "condition" /\ A /\ UNCHANGED <<part, packVars, modelVars>>

SuiteNext == \/ InPacking(Next) \/ InModel(Switches!Next) \/ InCondition(Condition!Next)

\* A pass over an iterator and a worker that is started both go on.
SuiteSpec ==
  /\ SuiteInit /\ [][SuiteNext]_suiteVars
  /\ WF_suiteVars(InPacking(Next)) /\ WF_suiteVars(InCondition(Condition!Next))

-----------------------------------------------------------------------------
(* Properties. *)

\* data/packing.py: whatever the order and the pool, packing loses and repeats
\* nothing, rows are segments in ascending order, a position is supervised iff
\* its own sequence's mask says so, and an epoch yields what is counted for it.
BatchesHoldTheDataset ==
  part = "packing" => /\ TypeOK
                      /\ PackedOnce
                      /\ RoomIsExact
                      /\ SegmentsAscend
                      /\ SupervisedIsOwn
                      /\ StatsAddUp
                      /\ EpochIsCounted

\* recurrent/wrapper.py:53-57: what the caller froze stays frozen, and what
\* trained goes on training, across any enabling call.
EnablingKeepsFreeze ==
  [][part = "model" /\ edits' = edits =>
       \A i \in Switches!Layers : Switches!Trainable(i)' = Switches!Trainable(i)]_suiteVars

\* In whatever order the user enables, freezes and shards: a switch whose checks
\* refuse rewrites nothing, a success reached every layer it means, once, and only a
\* frozen key that no proxy carries leaves a model half rewritten.
EnablingIsWhole ==
  part = "model" => /\ Switches!TypeOK
                    /\ Switches!CheckedRefusalsChangeNothing
                    /\ Switches!OnlyAFrozenKeySplits
                    /\ Switches!EnabledEverywhere

\* bench/worker.py's wired-limit contract: train() overrides the cap before the
\* first step, and yet no step is evaluated above it, and the verdict that is
\* read after training is about the steps that ran.
NoStepAboveTheCap ==
  part = "condition" => Condition!NoStepAboveTheCap /\ Condition!VerdictIsAboutTheRun

\* bench/worker.py:412-434: what is measured is training, of adapters drawn from
\* the seed; neither the setup nor an attention rate is evaluated in the window.
WindowMeasuresTraining ==
  part = "condition" => /\ Condition!TypeOK
                        /\ Condition!AttentionTracesWarm
                        /\ Condition!WindowMeasuresTraining
                        /\ Condition!TrainsSeededAdapters

\* One pass over the batches ends, and a condition that is started reaches a
\* verdict or an error.
RunsEnd == /\ part = "packing" => PassEnds
           /\ part = "condition" => Condition!ReachesAVerdict

\* recurrent/wrapper.py:324-326: the switch "refuses rather than partially
\* enabling", every refusal being raised before any layer is mutated.
NeverPartlyEnabled == part = "model" => Switches!NeverPartlyEnabled
=============================================================================
