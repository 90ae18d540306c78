------------------------------ MODULE IVInference ------------------------------
(***************************************************************************)
(* fit_iv_kclass, fit_iv_kclass_block and fit_iv_gmm2s: from the projected *)
(* roles of an IV fit to its estimates, its diagnostics and the events a   *)
(* caller hears meanwhile.                                                 *)
(*                                                                         *)
(* The roles are rescaled first and the units restored last.  Which solver *)
(* runs depends on the conditioning of the cross moments: it is a test of  *)
(* identification only together with the controls, which enter both sides  *)
(* and square their own conditioning.  Plain 2SLS therefore puts the test  *)
(* off to the QR of its roles; every other estimator is judged by it.      *)
(*                                                                         *)
(* Of an array is kept how often the square-root weights are in it, and    *)
(* whether its rows of weight zero still hold something.                   *)
(***************************************************************************)
EXTENDS Integers, Sequences

CONSTANT
  IVCalls  \* [estimator, kappa, fuller, block, weights, vce, doomed]

VARIABLES
  iv,        \* the call
  ivAt,      \* where the fit is
  identity,  \* what is true of the roles: [partial, near]
  screen,    \* [ratio, one]: class of the moment ratio, and whether kappa is 1
  estimate,  \* what has been computed so far
  events,    \* what on_stage has been told
  published  \* how the call ended

ivVars == <<iv, ivAt, identity, screen, estimate, events, published>>

\* Classes of a condition: at least 1e-3, above sqrt(eps), above eps, below.
Safe == 0
Hard == 1
Unsafe == 2
Deficient == 3
Class == Safe..Deficient

Plain == iv.estimator = "2sls" /\ ~iv.fuller /\ iv.kappa = "none"
Weighted == iv.weights # "none"

\* An array as made from the data; the same times the square-root weights;
\* divided by them where they are positive.
Plainly == [weights |-> 0, zeroRows |-> TRUE]
Weigh(a) == IF Weighted THEN [weights |-> a.weights + 1, zeroRows |-> FALSE] ELSE a
Unweigh(a, elsewhere) ==
  IF Weighted THEN [weights |-> a.weights - 1, zeroRows |-> elsewhere.zeroRows] ELSE a

IVInit ==
  /\ iv \in IVCalls /\ ivAt = "moments"
  /\ identity = [partial |-> Safe, near |-> FALSE]
  /\ screen = [ratio |-> Safe, one |-> FALSE]
  /\ estimate = <<>> /\ events = <<>> /\ published = "none"

IVFails(why) == published' = why /\ ivAt' = "done"

-----------------------------------------------------------------------------
(* _check_iv_moment_rank                                                   *)

Screened == iv.estimator # "kclass" \/ iv.kappa = "one"
Deferred_All2sls == iv.estimator = "2sls" /\ ~iv.block
Deferred == Plain /\ ~iv.block

\* What the moments can look like for roles of this identification.
Moments(id) == IF id.near THEN {m \in Class : m >= id.partial /\ m >= Hard} ELSE {id.partial}

CheckMoments ==
  /\ ivAt = "moments"
  /\ \E partial \in Class, near \in BOOLEAN :
       /\ identity' = [partial |-> partial, near |-> near]
       /\ \E m \in Moments(identity') :
            /\ screen' = [screen EXCEPT !.ratio = IF Screened THEN m ELSE Safe]
            /\ IF Screened /\ ~Deferred /\ m > Hard
               THEN IVFails(IF m = Deficient THEN "underidentified" ELSE "numerical")
               ELSE ivAt' = (IF iv.estimator = "gmm2s" THEN "solve" ELSE "kappa") /\ UNCHANGED published
  /\ UNCHANGED <<iv, estimate, events>>

\* Is the kappa of the fit one?  The eigenvalue of LIML may be; a shift by
\* fuller that takes another kappa exactly to one is left out.
One(e, kappa, fuller) ==
  CASE e = "2sls" -> {~fuller}
    [] e = "liml" /\ kappa = "none" -> IF fuller THEN {FALSE} ELSE BOOLEAN
    [] OTHER -> {kappa = "one" /\ ~fuller}

ChooseKappa ==
  /\ ivAt = "kappa"
  /\ IF iv.estimator = "kclass" /\ iv.kappa = "none"
     THEN IVFails("no_kappa") /\ UNCHANGED screen
     ELSE /\ \E one \in One(iv.estimator, iv.kappa, iv.fuller) : screen' = [screen EXCEPT !.one = one]
          /\ ivAt' = "solve" /\ UNCHANGED published
  /\ UNCHANGED <<iv, identity, estimate, events>>

-----------------------------------------------------------------------------
(* The solvers                                                             *)

Difficult == screen.ratio >= Hard
Estimate(route) ==
  [route |-> route, units |-> 0, residuals |-> Plainly, scores |-> Plainly,
   corrected |-> 0, overidCorrected |-> 0, repairUnits |-> 0, roles |-> 0, fitted |-> Plainly,
   metaUnits |-> 0]
Solved(route) == estimate' = Estimate(route) /\ ivAt' = "inference" /\ UNCHANGED published

\* _solve_2sls_stable_roles: the test of identification that was put off.
PartialCheck == identity.partial
SolveStable ==
  /\ ivAt = "solve" /\ Plain /\ ~iv.block /\ Difficult
  /\ \/ identity.near /\ IVFails("numerical") /\ UNCHANGED estimate
     \/ CASE PartialCheck = Deficient -> IVFails("underidentified") /\ UNCHANGED estimate
          [] PartialCheck = Unsafe -> IVFails("numerical") /\ UNCHANGED estimate
          [] OTHER -> Solved("stable")
  /\ UNCHANGED <<iv, identity, screen, events>>

\* Solves whose result _check_solver_rank still judges.
RankLost == identity.partial = Deficient /\ screen.one
Judged(route) ==
  \/ ~RankLost /\ Solved(route)
  \/ (RankLost \/ identity.near \/ Difficult) /\ IVFails("numerical") /\ UNCHANGED estimate

SolveCompressed ==
  /\ ivAt = "solve" /\ screen.one /\ Difficult /\ (~Plain \/ iv.block)
  /\ Judged("compressed") /\ UNCHANGED <<iv, identity, screen, events>>

SolveRoles ==
  /\ ivAt = "solve" /\ Plain /\ ~iv.block /\ ~Difficult
  /\ Judged("roles") /\ UNCHANGED <<iv, identity, screen, events>>

SolveCore ==
  /\ ivAt = "solve" /\ iv.estimator # "gmm2s" /\ (iv.block \/ ~Plain) /\ ~(screen.one /\ Difficult)
  /\ Judged("core") /\ UNCHANGED <<iv, identity, screen, events>>

SolveGmm ==
  /\ ivAt = "solve" /\ iv.estimator = "gmm2s"
  /\ Judged("gmm") /\ UNCHANGED <<iv, identity, screen, events>>

-----------------------------------------------------------------------------
(* Covariance: over-identification reads the same scores without the       *)
(* small-sample correction of the coefficients.                            *)

Shared == /\ estimate.route = "roles" /\ iv.vce = "cluster"

InferStable ==
  /\ ivAt = "inference" /\ estimate.route = "stable"
  /\ LET ew == Weigh(Plainly) IN
     estimate' = [estimate EXCEPT !.scores = ew, !.residuals = Unweigh(ew, @), !.corrected = 1]
  /\ ivAt' = "estimation" /\ UNCHANGED <<iv, identity, screen, events, published>>

Infer ==
  /\ ivAt = "inference" /\ estimate.route # "stable"
  /\ estimate' = [estimate EXCEPT !.scores = Weigh(estimate.residuals), !.corrected = 1,
                                  !.overidCorrected = IF Shared THEN estimate.corrected ELSE 0]
  /\ ivAt' = "estimation" /\ UNCHANGED <<iv, identity, screen, events, published>>

-----------------------------------------------------------------------------
(* What the caller hears, and the diagnostics in between                   *)

Tell(stage, units) == events' = Append(events, [stage |-> stage, units |-> units])

EstimationReady ==
  /\ ivAt = "estimation"
  /\ Tell("estimation", estimate.units + 1)
  /\ ivAt' = "first_stage" /\ UNCHANGED <<iv, identity, screen, estimate, published>>

\* The roles of the diagnostics: of the stable route they are weighted already.
FirstStage ==
  /\ ivAt = "first_stage"
  /\ LET stable == estimate.route = "stable"
         roles == IF stable THEN Weigh(Plainly) ELSE Plainly
         fitted == IF stable THEN Unweigh(Weigh(Plainly), Plainly) ELSE Plainly
     IN estimate' = [estimate EXCEPT !.fitted = fitted,
                       !.roles = roles.weights + (IF Weighted /\ ~stable THEN 1 ELSE 0)]
  /\ \/ Tell("first_stage", 1) /\ ivAt' = "diagnostics" /\ UNCHANGED published
     \/ IVFails("diagnostics") /\ UNCHANGED events
  /\ UNCHANGED <<iv, identity, screen>>

Diagnostics ==
  /\ ivAt = "diagnostics"
  /\ \/ Tell("diagnostics", 1) /\ ivAt' = "restore" /\ UNCHANGED published
     \/ IVFails("diagnostics") /\ UNCHANGED events
  /\ UNCHANGED <<iv, identity, screen, estimate>>

RestoreUnits ==
  /\ ivAt = "restore"
  /\ estimate' = [estimate EXCEPT !.units = @ + 1,
                    !.metaUnits = @ + (IF iv.estimator = "gmm2s" THEN 1 ELSE 0)]
  /\ ivAt' = "result" /\ UNCHANGED <<iv, identity, screen, events, published>>

\* Group mode refuses an unconverged projection only here (finish_group_mode).
Complete ==
  /\ ivAt = "result"
  /\ IF iv.doomed THEN IVFails("not_converged") /\ UNCHANGED events
     ELSE IVFails("result") /\ Tell("complete", estimate.units)
  /\ UNCHANGED <<iv, identity, screen, estimate>>

IVNext ==
  \/ CheckMoments \/ ChooseKappa
  \/ SolveStable \/ SolveCompressed \/ SolveRoles \/ SolveCore \/ SolveGmm
  \/ InferStable \/ Infer \/ EstimationReady \/ FirstStage \/ Diagnostics \/ RestoreUnits \/ Complete
IVSpec == IVInit /\ [][IVNext]_ivVars

-----------------------------------------------------------------------------
Stages == <<"estimation", "first_stage", "diagnostics", "complete">>

\* Estimates that lean on the instruments are told only of identified roles.
ToldOnlyIdentified ==
  Len(events) > 0 /\ (Screened \/ screen.one) => identity.partial <= Hard

\* The weights are in everything once where they belong, and nowhere else.
WeightedOnce ==
  published = "result" /\ Weighted =>
    /\ estimate.residuals = Plainly /\ estimate.fitted = Plainly
    /\ estimate.scores.weights = 1 /\ estimate.roles = 1

\* What is told and what is returned is in the caller's units.
UnitsRestoredOnce ==
  /\ \A i \in DOMAIN events : events[i].units = 1
  /\ published = "result" => estimate.units = 1 /\ (iv.estimator = "gmm2s") = (estimate.metaUnits = 1)

\* An IV fit tells of identified estimates only, whichever solver the
\* conditioning chose, tells its stages in order and the last of them exactly
\* when it returns, weighs once, corrects the covariance and not the
\* over-identification test, and reports in the caller's units
\* (models/linear_iv/estimators.py:47, 412, 455, stages.py:27).
InferenceIsHonest ==
  /\ ToldOnlyIdentified /\ WeightedOnce /\ UnitsRestoredOnce
  /\ \A i \in DOMAIN events : events[i].stage = Stages[i]
  /\ published = "result" <=> Len(events) = 4
  /\ published = "result" => estimate.corrected = 1 /\ estimate.overidCorrected = 0
=============================================================================
