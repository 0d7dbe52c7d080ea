--------------------------- MODULE CalibrationFit ---------------------------
(***************************************************************************)
(* Fitting the planner's memory coefficients: fit_memory_coeffs            *)
(* (plan/estimate.py) under the script that decides between its two flash  *)
(* fits and rewrites the calibration file (scripts/fit_calibration.py).    *)
(*                                                                         *)
(* The file lives on between runs.  All points of a manifest are of one    *)
(* model.  The stock points are known by the plane they lie on, which is   *)
(* what least squares returns for them; the flash points are measurements, *)
(* and their fits are exact fractions <<numerator, denominator>>.          *)
(***************************************************************************)
EXTENDS Integers, FiniteSets, FiniteSetsExt, Folds

CONSTANTS
  Heads,      \* attention heads of the model
  Width,      \* hidden * layers
  Saved,      \* bytes per token of the flash path's saved state
  LossKernel, LossChunked, \* bytes per token of the two loss terms
  Planes,     \* what stock points may say: [base, ckpt, full, quad]
  Manifests,  \* [defect, stock, gc_off, flash] of a run
  FirstFile,  \* the calibration file of the first run
  MaxRuns     \* bound: runs of the script

VARIABLES
  file,   \* coefficients, flash_fit and the hold-out record
  old,    \* the calibration the run loaded
  m,      \* the manifest of the run
  pc,
  coeffs, \* what the last fit returned
  mode,   \* "ols" or "envelope"
  runs,
  scored  \* the coefficients the file's hold-out record was scored for

vars == <<file, old, m, pc, coeffs, mode, runs, scored>>

BothArms == {"kernel", "stock"}
NoPlane == [tag |-> "none"]
Deficient == [tag |-> "deficient"]
NoScore == [tag |-> "no score"]

---------------------------------------------------------------------------
(* The regression. *)

XLin(p) == p.batch * p.seq * Width
XFlash(p) == p.batch * Heads * p.seq
Tokens(p) == p.batch * p.seq

ALin(c, p) == IF p.gc THEN c.ckpt ELSE c.full

\* What a measured marginal leaves for the flash coefficient of calibration c.
FlashResidual(c, p) ==
  p.marginal - LossKernel * Tokens(p) - c.base - ALin(c, p) * XLin(p) - Saved * Tokens(p)

ArmPoints(points, arm) == {p \in points : p.arm = arm}

SumOver(f(_), S) == MapThenFoldSet(+, 0, f, LAMBDA T : CHOOSE t \in T : TRUE, S)

LessEq(a, b) == a[1] * b[2] <= b[1] * a[2]

\* The largest ratio of the arm; Ols is the least-squares line through the origin.
Envelope(c, points) ==
  LET ratio(p) == <<FlashResidual(c, p), XFlash(p)>>
      q == CHOOSE p \in points : \A r \in points : LessEq(ratio(r), ratio(p))
  IN  ratio(q)

Ols(c, points) ==
  LET rx(p) == FlashResidual(c, p) * XFlash(p)
      xx(p) == XFlash(p) * XFlash(p)
  IN  <<SumOver(rx, points), SumOver(xx, points)>>

FitFlashArm(c, points, how, prior) ==
  CASE points = {} -> prior
    [] points # {} /\ how = "envelope" -> Envelope(c, points)
    [] OTHER -> Ols(c, points)

\* A design that cannot be solved.  The envelope also refuses a single empty
\* point (Check).
Unsolvable(man) ==
  \/ man.stock = Deficient
  \/ \E arm \in BothArms :
       LET points == ArmPoints(man.flash, arm)
       IN  points # {} /\ \A p \in points : XFlash(p) = 0

\* fit_memory_coeffs: the stock plane, then each flash arm against the base
\* and the linear coefficient of the calibration that was passed in.
FitMemoryCoeffs(man, c, how) ==
  LET arm(a, prior) == FitFlashArm(c, ArmPoints(man.flash, a), how, prior)
      plane == IF man.stock = NoPlane THEN c ELSE man.stock
  IN  [base |-> plane.base, ckpt |-> plane.ckpt, quad |-> plane.quad,
       full |-> IF man.gc_off THEN plane.full ELSE c.full,
       flash_kernel |-> arm("kernel", c.flash_kernel),
       flash_stock |-> arm("stock", c.flash_stock)]

---------------------------------------------------------------------------
(* What the planner would say of an anchor under the coefficients c, less  *)
(* the weights on both sides and without the overhead margin.              *)

Flash(c, p) == IF p.arm = "kernel" THEN c.flash_kernel ELSE c.flash_stock
Loss(p) == (IF p.arm = "kernel" THEN LossKernel ELSE LossChunked) * Tokens(p)

\* The attention term is a count of bytes: estimate() refuses a negative one.
AttentionNegative(c, p) ==
  Saved * Tokens(p) * Flash(c, p)[2] + Flash(c, p)[1] * XFlash(p) < 0

Covers(c, p) ==
  (c.base + ALin(c, p) * XLin(p) + Saved * Tokens(p) + Loss(p) - p.marginal) * Flash(c, p)[2]
    + Flash(c, p)[1] * XFlash(p) >= 0

OneSided(c, points) == \A p \in points : Covers(c, p)

\* _candidate_calibration: all six coefficients as they would be shipped.
Candidate(c, fitted) == fitted

---------------------------------------------------------------------------
Init ==
  /\ file = [coeffs |-> FirstFile, fit |-> "ols", holdout |-> FALSE]
  /\ old = FirstFile /\ coeffs = FirstFile /\ mode = "ols" /\ runs = 0
  /\ m \in Manifests
  /\ pc = "idle" /\ scored = NoScore

Stop == pc' = "stopped" /\ UNCHANGED <<file, coeffs, mode>>

\* main reads the file, load_fit_points the manifest, and fit_memory_coeffs
\* checks every point before it fits any.
LoadPoints(man) ==
  /\ pc \in {"idle", "written", "stopped"} /\ runs < MaxRuns
  /\ m' = man /\ runs' = runs + 1 /\ old' = file.coeffs /\ mode' = "ols"
  /\ IF man.defect # "none" \/ Unsolvable(man)
     THEN pc' = "stopped" /\ UNCHANGED coeffs
     ELSE pc' = "check" /\ coeffs' = FitMemoryCoeffs(man, file.coeffs, "ols")
  /\ UNCHANGED <<file, scored>>

\* Pricing an anchor can itself be refused: a batch or a length of zero, a negative
\* attention term.
Refused(c, p) == p.batch = 0 \/ p.seq = 0 \/ AttentionNegative(c, p)

\* _flash_fit_is_one_sided over the candidate, then the second fit.  The check ends at
\* the first anchor of the manifest that is refused or under-predicted: with both kinds
\* in it either may come first.  The envelope refuses an empty point by itself.
Check ==
  /\ pc = "check"
  /\ LET candidate == Candidate(old, coeffs)
         refused == {p \in m.flash : Refused(candidate, p)}
         low == {p \in m.flash \ refused : ~Covers(candidate, p)}
     IN  \/ refused # {} /\ Stop
         \/ /\ refused = {} /\ OneSided(candidate, m.flash)
            /\ pc' = "write" /\ UNCHANGED <<file, coeffs, mode>>
         \/ /\ low # {} /\ \A p \in m.flash : XFlash(p) # 0
            /\ coeffs' = FitMemoryCoeffs(m, old, "envelope")
            /\ mode' = "envelope" /\ pc' = "write" /\ UNCHANGED file
  /\ UNCHANGED <<old, m, runs, scored>>

\* Mutated: the score of the old coefficients stays in the file.
WrittenWithScore(c, how) == [coeffs |-> c, fit |-> how, holdout |-> file.holdout]

\* What dump_calibration_file is given: no hold-out score survives a refit.
Written(c, how) == [coeffs |-> c, fit |-> how, holdout |-> FALSE]

Write ==
  /\ pc = "write"
  /\ \/ file' = Written(coeffs, mode) /\ pc' = "written"
     \/ UNCHANGED file /\ pc' = "stopped"          \* --dry-run
  /\ UNCHANGED <<old, m, coeffs, mode, runs, scored>>

\* A caller scores the file against measurements and stores the record in it.
Score ==
  /\ pc \in {"idle", "written"} /\ ~file.holdout
  /\ file' = [file EXCEPT !.holdout = TRUE]
  /\ scored' = file.coeffs
  /\ UNCHANGED <<old, m, pc, coeffs, mode, runs>>

Refit == \E man \in Manifests : LoadPoints(man)

Next == Refit \/ Check \/ Write \/ Score

Spec == Init /\ [][Next]_vars /\ WF_vars(Check) /\ WF_vars(Write)

---------------------------------------------------------------------------
Coefficients == {"base", "ckpt", "full", "quad", "flash_kernel", "flash_stock"}

TypeOK ==
  /\ \A c \in {file.coeffs, old, coeffs} :
       /\ DOMAIN c = Coefficients
       /\ \A f \in {"base", "ckpt", "full", "quad"} : c[f] \in Int
       /\ c.flash_kernel[2] > 0 /\ c.flash_stock[2] > 0
  /\ pc \in {"idle", "check", "write", "written", "stopped"}
  /\ mode \in {"ols", "envelope"} /\ runs \in 0 .. MaxRuns
  /\ file.holdout \in BOOLEAN

\* A flash-only refit never ships a calibration that says less than one of
\* the anchors it was fitted to (fit_calibration.py:251-259).
FlashRefitCoversItsAnchors ==
  pc = "written" /\ m.stock = NoPlane /\ ~m.gc_off => OneSided(file.coeffs, m.flash)

\* The least-squares fit is shipped only when it covers every anchor, with
\* the base and linear coefficients it is shipped with (fit_calibration.py:131-138).
OlsCoversItsAnchors ==
  pc = "written" /\ file.fit = "ols" => OneSided(file.coeffs, m.flash)

\* A branch or an arm without points keeps its value through a refit.
NoPointsNoChange ==
  file'.coeffs # file.coeffs =>
    /\ m.stock = NoPlane =>
         \A f \in {"base", "ckpt", "quad"} : file'.coeffs[f] = file.coeffs[f]
    /\ ~m.gc_off => file'.coeffs.full = file.coeffs.full
    /\ \A arm \in BothArms :
         (\A p \in m.flash : p.arm # arm) =>
           IF arm = "kernel" THEN file'.coeffs.flash_kernel = file.coeffs.flash_kernel
                             ELSE file'.coeffs.flash_stock = file.coeffs.flash_stock

\* A hold-out score in the file was earned by the coefficients beside it.
HoldoutIsOfTheseCoefficients == file.holdout => scored = file.coeffs

\* A run that gets past its first fit ends: there is no third fit.
RunEnds == pc \in {"check", "write"} ~> pc \in {"written", "stopped"}

\* What estimate.py:592-594 says of the envelope: it never says less than an
\* anchor it was fitted to.
EnvelopeCoversItsAnchors ==
  pc = "written" /\ file.fit = "envelope" => OneSided(file.coeffs, m.flash)
=============================================================================
