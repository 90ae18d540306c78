------------------------------ MODULE PoissonIRLS ------------------------------
(***************************************************************************)
(* The IRLS loops of PPML (ppml/irls.py, ppml/heterogeneous.py) and IV-PPML*)
(* (ppml_iv/irls.py, ppml_iv/heterogeneous.py): when they stop, how the    *)
(* tolerance of the inner FE projection follows the outer error, and what  *)
(* the arrays they carry from one iteration to the next stand for.         *)
(*                                                                         *)
(* Arrays are known by the iteration that computed them.  Tolerances are   *)
(* negative powers of ten and are known by their exponents, so a larger    *)
(* exponent is a tighter tolerance; the outer error eps is known by its    *)
(* class, the largest k with eps < 10^-k, which is arbitrary: nothing is   *)
(* assumed of how Newton's method behaves.  Class 0 also stands for an eps *)
(* that is not a number.                                                   *)
(***************************************************************************)
EXTENDS Integers

CONSTANTS Configs,   \* the configurations to look at
          Zero,      \* rows with a zero outcome
          Classes    \* classes of eps

MaxExp == 12         \* the projection is never asked for more than 1e-12
Machine == 16        \* alt_tol never goes below 1e-16; the class of eps = 0

\* iv picks the loop.  manyGroups: more than one FE; columns: any regressor.
ConfigType ==
  [iv : BOOLEAN, start : 1..Machine, tol : 1..Machine, target : 1..Machine,
   minOk : Nat \ {0}, maxIter : Nat \ {0}, maxHalving : Nat,
   fastSolver : BOOLEAN, fastPartial : BOOLEAN, detectMu : BOOLEAN,
   manyGroups : BOOLEAN, columns : BOOLEAN]

ASSUME IRLSAssumption == /\ Configs \subseteq ConfigType
                         /\ Classes \subseteq 0..Machine

VARIABLES
  cfg,       \* the configuration and the design of this fit
  it,        \* iterations so far
  inner,     \* hdfe_tol
  alt,       \* alt_tol; 0 stands for infinity
  history,   \* length of eps_history
  ok,        \* iterations in a row that met the stopping rule
  beta, eta, mu,   \* the iterations the coefficients, index and mean come from
  deviance,  \* the iteration of the last accepted deviance (0: the start)
  block,     \* the response that column 0 of the projected block stands for
  zPrev,     \* z_prev
  mask,      \* separation_mask, separated
  anchor, halving, halvings,   \* anchor_eta, in_step_halving, step_halving
  settled,   \* not in the code: accepted iterations in a row with small eps
  pc

ladder == <<inner, alt, history>>
damping == <<anchor, halving, halvings>>
vars == <<cfg, it, ladder, ok, beta, eta, mu, deviance, block, zPrev, mask,
          damping, settled, pc>>

Least(a, b) == IF a <= b THEN a ELSE b
Most(a, b) == IF a >= b THEN a ELSE b

-----------------------------------------------------------------------------
\* An index vector: the solve it comes from, mixed with the anchor or not.
Index(n) == [at |-> n, mixed |-> FALSE]
Mixture(n) == [at |-> n, mixed |-> TRUE]
Mean(e, rows) == [of |-> e, floored |-> rows]

\* highest_tol (target_tol in IV-PPML) and where hdfe_tol starts.
HighestTol == Least(MaxExp, Most(cfg.target, cfg.tol + 1))
InitialTol(c) == Least(c.start, c.tol)

\* hdfe_tol after an outer error of this class, then alt_tol.
Tighter_Strict(class) ==
  IF class > inner THEN Least(Most(inner + 1, alt), HighestTol) ELSE inner
Tighter(class) ==
  IF class >= inner THEN Least(Most(inner + 1, alt), HighestTol) ELSE inner
NextAlt(class) == IF class >= inner THEN Least(class + 2, Machine) ELSE alt

\* Normal equations are used while the inner tolerance and the predicted error
\* are well above the final tolerance; with fewer than three errors in the
\* history the prediction is infinite.
Fast(above) == /\ cfg.fastSolver /\ cfg.columns
               /\ inner <= cfg.tol - 2
               /\ history < 3 \/ above
AccurateInner == ~cfg.manyGroups \/ inner >= HighestTol

\* Errors that are not positive finite numbers do not enter the history.
Remembered(class) == {Least(history + 1, 3)} \cup (IF class \in {0, Machine} THEN {history} ELSE {})

\* The rows the fitted index newly shows as separated.
Flagged == IF cfg.detectMu /\ (cfg.iv => it > 0) THEN SUBSET Zero ELSE {{}}
Floor_New(rows) == rows
Floor(rows) == mask \cup rows

\* fast_partial starts from the last projection and adds the change of the
\* working response; otherwise the block starts from the new one.
SavedResponse_Kept(n) == IF zPrev = 0 THEN n ELSE zPrev
SavedResponse(n) == n
Response(n) == IF ~cfg.iv /\ cfg.fastPartial /\ it > 0 THEN block + (n - zPrev) ELSE n

\* Accepted iterations in a row whose error is small enough for the ladder to
\* reach its end.
Small(class) == class >= Most(cfg.tol, HighestTol - 1)
Settled(class) == IF Small(class) THEN settled + 1 ELSE 0

Init == /\ cfg \in Configs
        /\ it = 0
        /\ inner = InitialTol(cfg)
        /\ alt = IF cfg.iv THEN cfg.start ELSE 0
        /\ history = 0
        /\ ok = 0
        /\ beta = 0 /\ eta = Index(0) /\ mu = Mean(Index(0), {})
        /\ deviance = 0
        /\ block = 0 /\ zPrev = 0
        /\ mask = {}
        /\ anchor = Index(0) /\ halving = FALSE /\ halvings = 0
        /\ settled = 0
        /\ pc = "iterate"

\* The projection and the solve of iteration n.
Solve(n) ==
  /\ pc = "iterate" /\ it < cfg.maxIter
  /\ it' = n
  /\ block' = Response(n)
  /\ beta' = n
  /\ UNCHANGED cfg

\* Its index and mean become the current ones, with the deviance that belongs.
Take(n, rows) ==
  /\ mask' = mask \cup rows
  /\ eta' = Index(n)
  /\ mu' = Mean(Index(n), Floor(rows))
  /\ deviance' = n

Ended(n) == IF n = cfg.maxIter THEN "exhausted" ELSE "iterate"

\* One pass of the loop of fit_irls and fit_irls_block.
PpmlIteration ==
  /\ ~cfg.iv
  /\ \E class \in Classes, above \in BOOLEAN, exact \in BOOLEAN, rows \in Flagged :
       LET n == it + 1
           good == class >= cfg.tol /\ ~Fast(above) /\ AccurateInner
           count == IF good THEN ok + 1 ELSE 0
           done == count >= cfg.minOk \/ (count >= 1 /\ exact)
       IN /\ exact => class = Machine          \* a zero deviance
          /\ Solve(n) /\ Take(n, rows)
          /\ zPrev' = SavedResponse(n)
          /\ ok' = count
          /\ settled' = Settled(class)
          /\ history' \in Remembered(class)
          /\ IF done THEN pc' = "converged" /\ UNCHANGED <<inner, alt>>
             ELSE pc' = Ended(n) /\ inner' = Tighter(class) /\ alt' = NextAlt(class)
          /\ UNCHANGED damping

\* The anchor is the index at the start of the iteration, kept while halving.
Anchor_Moving == eta
Anchor == IF halving THEN anchor ELSE eta

\* Passes of _iterate and _iterate_block.  The first has no deviance to compare
\* with and no error.
IvFirst ==
  /\ cfg.iv /\ deviance = 0
  /\ \E rows \in Flagged : Take(it + 1, rows)
  /\ Solve(it + 1)
  /\ anchor' = Anchor
  /\ pc' = Ended(it + 1)
  /\ UNCHANGED <<ladder, ok, zPrev, halving, halvings, settled>>

IvStops(class) == class >= cfg.tol /\ AccurateInner

\* The error meets the stopping rule; the halving state is left as it is.
IvMeets ==
  /\ cfg.iv /\ deviance > 0
  /\ \E class \in Classes, rows \in Flagged :
       /\ IvStops(class)
       /\ Solve(it + 1) /\ Take(it + 1, rows)
       /\ anchor' = Anchor
       /\ ok' = ok + 1
       /\ settled' = Settled(class)
       /\ IF ok' >= cfg.minOk THEN pc' = "converged" /\ UNCHANGED <<inner, alt>>
          ELSE pc' = Ended(it + 1) /\ inner' = Tighter(class) /\ alt' = NextAlt(class)
  /\ UNCHANGED <<history, zPrev, halving, halvings>>

\* The deviance went up: the index is mixed with the anchor, the mean follows
\* without the floors, and the deviance to compare with stays.
IvHalves ==
  /\ cfg.iv /\ deviance > 0 /\ halvings < cfg.maxHalving
  /\ \E class \in Classes, rows \in Flagged :
       /\ ~IvStops(class)
       /\ mask' = mask \cup rows
       /\ settled' = IF Small(class) THEN settled ELSE 0
  /\ Solve(it + 1)
  /\ anchor' = Anchor /\ halving' = TRUE /\ halvings' = halvings + 1
  /\ eta' = Mixture(it + 1) /\ mu' = Mean(Mixture(it + 1), {})
  /\ ok' = 0
  /\ pc' = Ended(it + 1)
  /\ UNCHANGED <<ladder, deviance, zPrev>>

\* Any other error: accepted, also an increase once the halvings are used up.
IvAccepts ==
  /\ cfg.iv /\ deviance > 0
  /\ \E class \in Classes, rows \in Flagged :
       /\ ~IvStops(class)
       /\ Take(it + 1, rows)
       /\ settled' = Settled(class)
       /\ inner' = Tighter(class) /\ alt' = NextAlt(class)
  /\ Solve(it + 1)
  /\ anchor' = Anchor /\ halving' = FALSE /\ halvings' = 0
  /\ ok' = 0
  /\ pc' = Ended(it + 1)
  /\ UNCHANGED <<history, zPrev>>

\* A projection that fails, in IV-PPML also a mean or deviance that is not finite.
Raise ==
  /\ pc = "iterate"
  /\ pc' = "raised"
  /\ UNCHANGED <<cfg, it, ladder, ok, beta, eta, mu, deviance, block, zPrev, mask, damping, settled>>

Next == PpmlIteration \/ IvFirst \/ IvMeets \/ IvHalves \/ IvAccepts \/ Raise

Spec == Init /\ [][Next]_vars

-----------------------------------------------------------------------------
IsIndex(e) == e \in [at : 0..it, mixed : BOOLEAN]
TypeOK ==
  /\ cfg \in Configs
  /\ it \in 0..cfg.maxIter
  /\ inner \in 1..Most(HighestTol, InitialTol(cfg))
  /\ alt \in 0..Machine /\ history \in 0..3 /\ ok \in Nat
  /\ beta \in 0..it /\ deviance \in 0..it /\ block \in Int /\ zPrev \in Int
  /\ mask \subseteq Zero
  /\ IsIndex(eta) /\ IsIndex(anchor)
  /\ IsIndex(mu.of) /\ mu.floored \subseteq Zero
  /\ halving \in BOOLEAN /\ halvings \in 0..cfg.maxHalving
  /\ settled \in Nat
  /\ pc \in {"iterate", "converged", "exhausted", "raised"}

\* What a converged loop returns is one point: coefficients, index, mean and
\* deviance of the same solve, never a mixture with the anchor, and the mean of
\* every row in the returned separation mask is at the floor (IRLSState,
\* IVIRLSState).
ConvergedIsOnePoint ==
  pc = "converged" =>
    /\ eta = Index(it) /\ beta = it /\ deviance = it
    /\ mu = Mean(Index(it), mask)

\* The projected block that the coefficients are solved from belongs to this
\* iteration's working response, however many changes were added to it.
BlockIsCurrent == block = it

\* The ladder of inner tolerances cannot hold the loop up: once the outer error
\* stays below the tolerance, and below ten times the tightest inner one, the
\* loop stops within two accepted iterations more than min_ok.  Stated for
\* tolerances down to 1e-12, where the ladder still tightens.
SettledConverges ==
  cfg.tol <= MaxExp /\ pc # "converged" => settled < cfg.minOk + 2

\* Step halving goes back towards the last accepted index, whatever number of
\* halvings came before.  With min_ok > 1 an iteration that meets the stopping
\* rule leaves in_step_halving set, so this is stated for min_ok = 1.
AnchorIsLastAccepted ==
  cfg.minOk = 1 /\ halving /\ pc # "converged" => anchor = Index(deviance)
=============================================================================
