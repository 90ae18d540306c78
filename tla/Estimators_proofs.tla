---------------------------- MODULE Estimators_proofs ----------------------------
(***************************************************************************)
(* Proofs about the parts of an estimator.                                 *)
(*                                                                         *)
(* First the IRLS loops (PoissonIRLS), for every configuration, every      *)
(* number of iterations and every course the outer error may take: what    *)
(* they return is one point, and the ladder of inner tolerances cannot     *)
(* hold them up.                                                           *)
(*                                                                         *)
(* Then the pools of columns (ColumnPools), for every number of components *)
(* and columns, every allocation and any use of it by other threads: the   *)
(* invariant PoolInv follows a call from place to place.                   *)
(*                                                                         *)
(* Last the sample stages of a Poisson fit (PoissonSample), for any data,  *)
(* any outcomes and any choice of methods: what a stage removes is         *)
(* positive or has a certificate, no removal makes a certificate, and the  *)
(* rows that no certificate and no peel concerns are never touched.        *)
(***************************************************************************)
EXTENDS PoissonIRLS, ColumnPools, PoissonSample, FiniteSetTheorems, WellFoundedInduction, TLAPS

-----------------------------------------------------------------------------
(* The IRLS loops.                                                            *)

\* The fields of a configuration.
LEMMA ConfigFields ==
  ASSUME cfg \in Configs
  PROVE  /\ cfg.iv \in BOOLEAN /\ cfg.manyGroups \in BOOLEAN
         /\ cfg.fastPartial \in BOOLEAN /\ cfg.fastSolver \in BOOLEAN
         /\ cfg.columns \in BOOLEAN /\ cfg.detectMu \in BOOLEAN
         /\ cfg.start \in 1..16 /\ cfg.tol \in 1..16 /\ cfg.target \in 1..16
         /\ cfg.minOk \in Nat \ {0} /\ cfg.maxIter \in Nat \ {0} /\ cfg.maxHalving \in Nat
  BY IRLSAssumption DEF ConfigType, Machine

\* The tightest inner tolerance; for tolerances down to 1e-12 it is at least as
\* tight as the tolerance of the fit and as the one the loop starts with.
LEMMA HighestTolRange ==
  ASSUME cfg \in Configs
  PROVE  /\ HighestTol \in 1..12 /\ InitialTol(cfg) \in 1..16
         /\ cfg.tol <= 12 => HighestTol >= cfg.tol /\ InitialTol(cfg) <= HighestTol
  BY ConfigFields DEF HighestTol, InitialTol, Least, Most, MaxExp

\* Classes of the outer error are exponents.
LEMMA ClassRange == \A class \in Classes : class \in 0..16
  BY IRLSAssumption DEF Machine

\* A tolerance is tightened towards the highest one and not beyond it.
LEMMA TighterRange ==
  ASSUME TypeOK, NEW class \in Classes
  PROVE  /\ Tighter(class) \in 1..Most(HighestTol, InitialTol(cfg))
         /\ NextAlt(class) \in 0..Machine
<1>1. class \in 0..16 /\ cfg \in Configs /\ inner \in 1..Most(HighestTol, InitialTol(cfg))
      /\ alt \in 0..16
  BY ClassRange DEF TypeOK, Machine
<1>2. HighestTol \in 1..12 /\ InitialTol(cfg) \in 1..16
  BY <1>1, HighestTolRange
<1> QED
  BY <1>1, <1>2 DEF Tighter, NextAlt, Least, Most, Machine

-----------------------------------------------------------------------------
\* The part of the type invariant that a solve and its acceptance touch.
LEMMA SolveTyped ==
  ASSUME TypeOK, NEW n, n = it + 1, Solve(n)
  PROVE  /\ cfg' = cfg /\ cfg' \in Configs
         /\ it' \in 1..cfg.maxIter /\ it' = it + 1 /\ beta' \in 0..it' /\ block' \in Int
         /\ IsIndex(Index(n))' /\ IsIndex(Mixture(n))' /\ n \in 1..it'
         /\ Ended(n) \in {"iterate", "exhausted"}
<1>1. it \in 0..cfg.maxIter /\ cfg \in Configs /\ cfg.maxIter \in Nat \ {0} /\ n \in Nat
  BY ConfigFields DEF TypeOK
<1>2. it' = n /\ it < cfg.maxIter /\ cfg' = cfg /\ beta' = n
  BY DEF Solve
<1>3. n \in 1..cfg.maxIter
  BY <1>1, <1>2
<1>4. block' \in Int
  BY <1>1 DEF Solve, Response, TypeOK
<1>5. IsIndex(Index(n))' /\ IsIndex(Mixture(n))'
  BY <1>2, <1>3 DEF IsIndex, Index, Mixture
<1> QED
  BY <1>1, <1>2, <1>3, <1>4, <1>5 DEF Ended

\* The rows a flagging may name are zero rows.
LEMMA FlaggedAreZero == \A rows \in Flagged : rows \subseteq Zero
  BY DEF Flagged

LEMMA TakeTyped ==
  ASSUME TypeOK, NEW n, n = it + 1, Solve(n), NEW rows \in Flagged, Take(n, rows)
  PROVE  /\ mask' \subseteq Zero /\ IsIndex(eta)' /\ IsIndex(mu.of)'
         /\ mu'.floored \subseteq Zero /\ deviance' \in 0..it'
<1>1. rows \subseteq Zero /\ mask \subseteq Zero
  BY FlaggedAreZero DEF TypeOK
<1>2. IsIndex(Index(n))' /\ n \in 1..it' /\ it' \in Nat
  BY SolveTyped, ConfigFields DEF TypeOK
<1>3. eta' = Index(n) /\ mu' = [of |-> Index(n), floored |-> mask \cup rows]
      /\ deviance' = n /\ mask' = mask \cup rows
  BY DEF Take, Mean, Floor
<1>4. eta' \in [at : 0..it', mixed : BOOLEAN] /\ mu'.of \in [at : 0..it', mixed : BOOLEAN]
  BY <1>2, <1>3 DEF IsIndex, Index
<1> QED
  BY <1>1, <1>2, <1>3, <1>4 DEF IsIndex

\* Indices of earlier iterations stay indices.
LEMMA IndexKept ==
  ASSUME TypeOK, it' = it + 1, NEW e, IsIndex(e)
  PROVE  e \in [at : 0..it', mixed : BOOLEAN]
<1>1. it \in Nat
  BY ConfigFields DEF TypeOK
<1> QED
  BY <1>1 DEF IsIndex

LEMMA AnchorTyped ==
  ASSUME TypeOK, it' = it + 1, anchor' = Anchor
  PROVE  IsIndex(anchor)'
<1>1. IsIndex(Anchor)
  BY DEF TypeOK, Anchor
<1>2. Anchor \in [at : 0..it', mixed : BOOLEAN]
  BY <1>1, IndexKept
<1> QED
  BY <1>2 DEF IsIndex

\* The range of inner tolerances is the configuration's.
LEMMA RangeKept ==
  ASSUME cfg' = cfg
  PROVE  Most(HighestTol, InitialTol(cfg))' = Most(HighestTol, InitialTol(cfg))
  BY DEF HighestTol, InitialTol, Least, Most

\* The variables keep their shape: inner tolerances between 1e-1 and the tightest
\* one, indices of iterations that have been, masks of rows with a zero outcome.
THEOREM TypeCorrect == Spec => []TypeOK
<1>1. Init => TypeOK
  <2> SUFFICES ASSUME Init PROVE TypeOK
    OBVIOUS
  <2>1. cfg \in Configs /\ it = 0 /\ cfg.maxIter \in Nat \ {0} /\ cfg.maxHalving \in Nat
        /\ cfg.start \in 1..16
    BY ConfigFields DEF Init
  <2>2. inner \in 1..Most(HighestTol, InitialTol(cfg))
    BY <2>1, HighestTolRange DEF Init, Most
  <2>3. IsIndex(Index(0))
    BY <2>1 DEF IsIndex, Index
  <2>4. IsIndex(eta) /\ IsIndex(anchor) /\ IsIndex(mu.of) /\ mu.floored = {}
    BY <2>3 DEF Init, Mean
  <2>5. alt \in 0..Machine
    BY <2>1 DEF Init, Machine
  <2>6. halvings \in 0..cfg.maxHalving /\ mask \subseteq Zero
    BY <2>1 DEF Init
  <2>8. halving \in BOOLEAN
    BY Zenon DEF Init
  <2>7. /\ it \in 0..cfg.maxIter /\ history \in 0..3 /\ ok \in Nat
        /\ beta \in 0..it /\ deviance \in 0..it /\ block \in Int /\ zPrev \in Int
        /\ settled \in Nat /\ pc = "iterate"
    BY <2>1 DEF Init
  <2> QED
    BY <2>1, <2>2, <2>4, <2>5, <2>6, <2>7, <2>8 DEF TypeOK
<1>2. TypeOK /\ [Next]_vars => TypeOK'
  <2> SUFFICES ASSUME TypeOK, [Next]_vars PROVE TypeOK'
    OBVIOUS
  <2>1. it \in Nat /\ settled \in Nat /\ ok \in Nat /\ history \in 0..3 /\ cfg \in Configs
    BY ConfigFields DEF TypeOK
  <2>2. CASE PpmlIteration
    <3>1. PICK class \in Classes, above \in BOOLEAN, exact \in BOOLEAN, rows \in Flagged :
            /\ Solve(it + 1) /\ Take(it + 1, rows)
            /\ zPrev' = it + 1
            /\ ok' \in {0, ok + 1}
            /\ settled' \in {0, settled + 1}
            /\ history' \in Remembered(class)
            /\ \/ pc' = "converged" /\ UNCHANGED <<inner, alt>>
               \/ pc' = Ended(it + 1) /\ inner' = Tighter(class) /\ alt' = NextAlt(class)
            /\ UNCHANGED damping
      BY <2>2 DEF PpmlIteration, SavedResponse, Settled
    <3>2. history' \in 0..3
      BY <3>1, <2>1 DEF Remembered, Least
    <3>3. IsIndex(anchor)'
      BY <3>1, IndexKept DEF TypeOK, Solve, damping, IsIndex
    <3> QED
      BY <2>1, <3>1, <3>2, <3>3, SolveTyped, TakeTyped, TighterRange, RangeKept DEF TypeOK, damping
  <2>3. CASE IvFirst
    <3>1. PICK rows \in Flagged : Take(it + 1, rows)
      BY <2>3 DEF IvFirst
    <3>2. /\ Solve(it + 1) /\ anchor' = Anchor /\ pc' = Ended(it + 1)
          /\ UNCHANGED <<inner, alt, history, ok, zPrev, halving, halvings, settled>>
      BY <2>3 DEF IvFirst, ladder
    <3>3. it' = it + 1
      BY <3>2 DEF Solve
    <3> QED
      BY <2>1, <3>1, <3>2, <3>3, SolveTyped, TakeTyped, AnchorTyped, RangeKept DEF TypeOK
  <2>4. CASE IvMeets
    <3>1. PICK class \in Classes, rows \in Flagged :
            /\ Solve(it + 1) /\ Take(it + 1, rows)
            /\ anchor' = Anchor
            /\ ok' = ok + 1
            /\ settled' \in {0, settled + 1}
            /\ \/ pc' = "converged" /\ UNCHANGED <<inner, alt>>
               \/ pc' = Ended(it + 1) /\ inner' = Tighter(class) /\ alt' = NextAlt(class)
      BY <2>4 DEF IvMeets, Settled
    <3>2. UNCHANGED <<history, zPrev, halving, halvings>> /\ it' = it + 1
      BY <2>4, <3>1 DEF IvMeets, Solve
    <3> QED
      BY <2>1, <3>1, <3>2, SolveTyped, TakeTyped, AnchorTyped, TighterRange, RangeKept DEF TypeOK
  <2>5. CASE IvHalves
    <3>1. PICK class \in Classes, rows \in Flagged :
            mask' = mask \cup rows /\ settled' \in {0, settled}
      BY <2>5 DEF IvHalves
    <3>2. /\ Solve(it + 1) /\ it' = it + 1
          /\ anchor' = Anchor /\ halving' = TRUE /\ halvings' = halvings + 1
          /\ halvings < cfg.maxHalving
          /\ eta' = Mixture(it + 1)
          /\ mu' = [of |-> Mixture(it + 1), floored |-> {}]
          /\ ok' = 0 /\ pc' = Ended(it + 1)
          /\ UNCHANGED <<inner, alt, history, deviance, zPrev>>
      BY <2>5 DEF IvHalves, Solve, Mean, ladder
    <3>3. halvings' \in 0..cfg.maxHalving
      BY <3>2, <2>1, ConfigFields DEF TypeOK
    <3>4. IsIndex(eta)' /\ IsIndex(mu.of)' /\ mu'.floored = {} /\ deviance' \in 0..it'
      BY <2>1, <3>2, SolveTyped DEF IsIndex, Mixture, TypeOK
    <3>5. mask' \subseteq Zero
      BY <3>1, FlaggedAreZero DEF TypeOK
    <3> QED
      BY <2>1, <3>1, <3>2, <3>3, <3>4, <3>5, SolveTyped, AnchorTyped, RangeKept DEF TypeOK
  <2>6. CASE IvAccepts
    <3>1. PICK class \in Classes, rows \in Flagged :
            /\ Take(it + 1, rows)
            /\ settled' \in {0, settled + 1}
            /\ inner' = Tighter(class) /\ alt' = NextAlt(class)
      BY <2>6 DEF IvAccepts, Settled
    <3>2. /\ Solve(it + 1) /\ it' = it + 1
          /\ anchor' = Anchor /\ halving' = FALSE /\ halvings' = 0
          /\ ok' = 0 /\ pc' = Ended(it + 1)
          /\ UNCHANGED <<history, zPrev>>
      BY <2>6 DEF IvAccepts, Solve
    <3>3. halvings' \in 0..cfg.maxHalving
      BY <3>2, <2>1, ConfigFields
    <3>4. halving' \in BOOLEAN
      BY <3>2, Zenon
    <3> QED
      BY <2>1, <3>1, <3>2, <3>3, <3>4, SolveTyped, TakeTyped, AnchorTyped, TighterRange, RangeKept DEF TypeOK
  <2>7. CASE Raise \/ UNCHANGED vars
    <3>1. /\ UNCHANGED <<cfg, it, inner, alt, history, ok, beta, eta, mu, deviance, block,
                        zPrev, mask, anchor, halving, halvings, settled>>
          /\ pc' \in {pc, "raised"}
      BY <2>7 DEF Raise, vars, ladder, damping
    <3>2. IsIndex(eta)' /\ IsIndex(anchor)' /\ IsIndex(mu.of)'
      BY <3>1 DEF TypeOK, IsIndex
    <3> QED
      BY <3>1, <3>2, RangeKept DEF TypeOK
  <2> QED
    BY <2>2, <2>3, <2>4, <2>5, <2>6, <2>7 DEF Next
<1> QED
  BY <1>1, <1>2, PTL DEF Spec

-----------------------------------------------------------------------------
\* A loop that goes on, or gives up, does not end converged.
LEMMA EndedNotConverged == \A n : Ended(n) # "converged"
  BY DEF Ended

\* ConvergedIsOnePoint: only an accepted solve ends the loop as converged, and it
\* sets coefficients, index, mean, floors and deviance together.
THEOREM ReturnsOnePoint == Spec => []ConvergedIsOnePoint
<1>1. Init => ConvergedIsOnePoint
  BY DEF Init, ConvergedIsOnePoint
<1>2. ConvergedIsOnePoint /\ [Next]_vars => ConvergedIsOnePoint'
  <2> SUFFICES ASSUME ConvergedIsOnePoint, [Next]_vars, pc' = "converged"
               PROVE  /\ eta' = Index(it') /\ beta' = it' /\ deviance' = it'
                      /\ mu' = Mean(Index(it'), mask')
    BY DEF ConvergedIsOnePoint, Mean, Index
  <2>1. ASSUME NEW rows, Solve(it + 1), Take(it + 1, rows)
        PROVE  /\ eta' = Index(it') /\ beta' = it' /\ deviance' = it'
               /\ mu' = Mean(Index(it'), mask')
    BY <2>1 DEF Solve, Take, Floor
  <2>2. CASE PpmlIteration
    BY <2>1, <2>2 DEF PpmlIteration
  <2>3. CASE IvMeets
    BY <2>1, <2>3 DEF IvMeets
  <2>4. CASE IvFirst \/ IvHalves \/ IvAccepts
    BY <2>4, EndedNotConverged DEF IvFirst, IvHalves, IvAccepts
  <2>5. CASE Raise
    BY <2>5 DEF Raise
  <2>6. CASE UNCHANGED vars
    BY <2>6 DEF vars, ConvergedIsOnePoint
  <2> QED
    BY <2>2, <2>3, <2>4, <2>5, <2>6 DEF Next
<1> QED
  BY <1>1, <1>2, PTL DEF Spec

-----------------------------------------------------------------------------
\* z_prev of PPML is the response that the block was last brought up to.
BlockInv == block = it /\ (~cfg.iv => zPrev = it)

LEMMA BlockFollows ==
  ASSUME TypeOK, BlockInv, Solve(it + 1)
  PROVE  block' = it' /\ it' = it + 1 /\ cfg' = cfg
<1>1. it \in Nat /\ cfg.iv \in BOOLEAN /\ cfg.fastPartial \in BOOLEAN
  BY ConfigFields DEF TypeOK
<1> QED
  BY <1>1 DEF Solve, Response, BlockInv

\* BlockIsCurrent: adding up the changes of the working response never drifts
\* from the response of the current iteration (fast_partial).
THEOREM BlockStaysCurrent == Spec => []BlockIsCurrent
<1>1. Init => BlockInv
  BY DEF Init, BlockInv
<1>2. TypeOK /\ BlockInv /\ [Next]_vars => BlockInv'
  <2> SUFFICES ASSUME TypeOK, BlockInv, [Next]_vars PROVE BlockInv'
    OBVIOUS
  <2>1. CASE PpmlIteration
    <3>1. Solve(it + 1) /\ zPrev' = it + 1
      BY <2>1 DEF PpmlIteration, SavedResponse
    <3> QED
      BY <3>1, BlockFollows DEF BlockInv
  <2>2. CASE IvFirst \/ IvMeets \/ IvHalves \/ IvAccepts
    <3>1. Solve(it + 1) /\ cfg.iv
      BY <2>2 DEF IvFirst, IvMeets, IvHalves, IvAccepts
    <3> QED
      BY <3>1, BlockFollows DEF BlockInv
  <2>3. CASE Raise \/ UNCHANGED vars
    BY <2>3 DEF Raise, vars, BlockInv
  <2> QED
    BY <2>1, <2>2, <2>3 DEF Next
<1> QED
  BY <1>1, <1>2, TypeCorrect, PTL DEF Spec, BlockInv, BlockIsCurrent

-----------------------------------------------------------------------------
\* Outside halving the current index is the last accepted one, and inside it the
\* anchor is; the first solve is accepted before any halving.
AnchorInv ==
  /\ halving => deviance > 0 /\ cfg.iv
  /\ cfg.minOk = 1 /\ pc # "converged" =>
       IF halving THEN anchor = Index(deviance) ELSE eta = Index(deviance)

LEMMA AnchorIsAccepted ==
  ASSUME TypeOK, AnchorInv, cfg.minOk = 1, pc = "iterate", anchor' = Anchor
  PROVE  anchor' = Index(deviance)
  BY DEF AnchorInv, Anchor, TypeOK

\* AnchorIsLastAccepted: halving several times in a row never loses the index it
\* goes back to (anchor_eta of _iterate).
THEOREM HalvingKeepsAnchor == Spec => []AnchorIsLastAccepted
<1>1. Init => AnchorInv
  BY DEF Init, AnchorInv
<1>2. TypeOK /\ AnchorInv /\ [Next]_vars => AnchorInv'
  <2> SUFFICES ASSUME TypeOK, AnchorInv, [Next]_vars PROVE AnchorInv'
    OBVIOUS
  <2>1. it \in Nat /\ ok \in Nat /\ halving \in BOOLEAN /\ deviance \in Nat
    BY ConfigFields DEF TypeOK
  <2>2. ASSUME NEW rows, Solve(it + 1), Take(it + 1, rows)
        PROVE  /\ cfg' = cfg /\ pc = "iterate" /\ deviance' > 0
               /\ eta' = Index(deviance')
    BY <2>1, <2>2 DEF Solve, Take, Index
  <2>3. CASE PpmlIteration
    <3>1. PICK rows : Solve(it + 1) /\ Take(it + 1, rows)
      BY <2>3 DEF PpmlIteration
    <3>2. ~halving /\ halving' = halving
      BY <2>3 DEF PpmlIteration, AnchorInv, damping
    <3> QED
      BY <3>1, <3>2, <2>2 DEF AnchorInv
  <2>4. CASE IvFirst
    <3>1. PICK rows : Take(it + 1, rows)
      BY <2>4 DEF IvFirst
    <3>2. ~halving /\ halving' = halving /\ Solve(it + 1)
      BY <2>4, <2>1 DEF IvFirst, AnchorInv
    <3> QED
      BY <3>1, <3>2, <2>2 DEF AnchorInv
  <2>5. CASE IvMeets
    <3>1. PICK rows : Solve(it + 1) /\ Take(it + 1, rows) /\ ok' = ok + 1
                      /\ (ok' >= cfg.minOk => pc' = "converged")
      BY <2>5 DEF IvMeets
    <3>2. halving' = halving /\ cfg.iv
      BY <2>5 DEF IvMeets
    <3>3. cfg.minOk = 1 => pc' = "converged"
      BY <3>1, <2>1
    <3> QED
      BY <3>1, <3>2, <3>3, <2>2 DEF AnchorInv
  <2>6. CASE IvHalves
    <3>1. /\ cfg' = cfg /\ cfg.iv /\ pc = "iterate" /\ deviance' = deviance /\ deviance > 0
          /\ anchor' = Anchor /\ halving' = TRUE
      BY <2>6 DEF IvHalves, Solve
    <3> QED
      BY <3>1, AnchorIsAccepted DEF AnchorInv, Index
  <2>7. CASE IvAccepts
    <3>1. PICK rows : Take(it + 1, rows)
      BY <2>7 DEF IvAccepts
    <3>2. ~halving' /\ Solve(it + 1)
      BY <2>7 DEF IvAccepts
    <3> QED
      BY <3>1, <3>2, <2>2 DEF AnchorInv
  <2>8. CASE Raise
    BY <2>8 DEF Raise, AnchorInv, Index, damping
  <2>9. CASE UNCHANGED vars
    BY <2>9 DEF vars, AnchorInv, Index, damping
  <2> QED
    BY <2>3, <2>4, <2>5, <2>6, <2>7, <2>8, <2>9 DEF Next
<1>3. AnchorInv => AnchorIsLastAccepted
  BY DEF AnchorInv, AnchorIsLastAccepted
<1> QED
  BY <1>1, <1>2, <1>3, TypeCorrect, PTL DEF Spec

-----------------------------------------------------------------------------
\* While the loop runs: one accepted iteration with a small error leaves alt_tol
\* at the tightest tolerance (or hdfe_tol there already), a second one hdfe_tol,
\* and every further one meets the stopping rule.
LadderInv ==
  cfg.tol <= 12 /\ pc # "converged" =>
    /\ inner <= HighestTol
    /\ settled >= 1 => inner = HighestTol \/ alt >= HighestTol
    /\ settled >= 2 => inner = HighestTol
    /\ settled <= ok + 2
    /\ ok < cfg.minOk

\* One step of the ladder, from an error that is small.
LEMMA LadderStep ==
  ASSUME TypeOK, NEW class \in Classes, cfg.tol <= 12, inner <= HighestTol, Small(class)
  PROVE  /\ class >= cfg.tol /\ class >= HighestTol - 1
         /\ Tighter(class) = HighestTol \/ NextAlt(class) >= HighestTol
         /\ inner = HighestTol \/ alt >= HighestTol => Tighter(class) = HighestTol
<1>1. class \in 0..16 /\ cfg \in Configs /\ alt \in 0..16 /\ inner \in Int
  BY ClassRange DEF TypeOK, Machine
<1>2. HighestTol \in 1..12 /\ InitialTol(cfg) \in 1..16 /\ cfg.tol \in 1..16
  BY <1>1, HighestTolRange, ConfigFields
<1>3. class >= cfg.tol /\ class >= HighestTol - 1
  BY <1>1, <1>2 DEF Small, Most
<1>4. Tighter(class) = HighestTol \/ NextAlt(class) >= HighestTol
  BY <1>1, <1>2, <1>3 DEF Tighter, NextAlt, Least, Most, Machine
<1>5. inner = HighestTol \/ alt >= HighestTol => Tighter(class) = HighestTol
  BY <1>1, <1>2, <1>3 DEF Tighter, Least, Most
<1> QED
  BY <1>3, <1>4, <1>5

\* The ladder never passes the tightest tolerance.
LEMMA LadderBound ==
  ASSUME TypeOK, NEW class, inner <= HighestTol
  PROVE  Tighter(class) <= HighestTol
<1>1. HighestTol \in 1..12 /\ inner \in Int /\ alt \in 0..16
  BY HighestTolRange DEF TypeOK, Machine
<1> QED
  BY <1>1 DEF Tighter, Least, Most

\* At the tightest tolerance normal equations are not used and the inner
\* projection is accurate.
LEMMA StrictAtTheTop ==
  ASSUME TypeOK, cfg.tol <= 12, inner = HighestTol
  PROVE  AccurateInner /\ \A above : ~Fast(above)
<1>1. HighestTol \in 1..12 /\ HighestTol >= cfg.tol /\ cfg.tol \in 1..16
  BY HighestTolRange, ConfigFields DEF TypeOK
<1> QED
  BY <1>1 DEF AccurateInner, Fast

\* The arithmetic of one accepted iteration: settled s, ok k become s2, k2.
LEMMA CountNotSettled ==
  ASSUME NEW s2, NEW k2 \in Nat, s2 = 0
  PROVE  s2 <= k2 + 2 /\ ~(s2 >= 1) /\ ~(s2 >= 2)
OBVIOUS

LEMMA CountSettled ==
  ASSUME NEW s \in Nat, NEW k \in Nat, NEW s2, NEW k2 \in Nat, s2 = s + 1,
         s <= k + 2, s >= 2 => k2 = k + 1
  PROVE  s2 <= k2 + 2 /\ (s2 >= 2 => s >= 1)
OBVIOUS

\* What an accepted iteration that goes on does to the invariant.
LEMMA AcceptedStep ==
  ASSUME TypeOK, LadderInv, pc = "iterate", NEW class \in Classes, cfg' = cfg,
         inner' = Tighter(class), alt' = NextAlt(class), settled' = Settled(class),
         ok' \in Nat, ok' < cfg.minOk,
         cfg.tol <= 12 /\ inner = HighestTol /\ class >= cfg.tol => ok' = ok + 1
  PROVE  LadderInv'
<1> SUFFICES ASSUME cfg.tol <= 12
             PROVE  /\ inner' <= HighestTol
                    /\ settled' >= 1 => inner' = HighestTol \/ alt' >= HighestTol
                    /\ settled' >= 2 => inner' = HighestTol
                    /\ settled' <= ok' + 2
  BY DEF LadderInv, HighestTol, Least, Most
<1>1. settled \in Nat /\ ok \in Nat
  BY DEF TypeOK
<1>2. /\ inner <= HighestTol
      /\ settled >= 1 => inner = HighestTol \/ alt >= HighestTol
      /\ settled >= 2 => inner = HighestTol
      /\ settled <= ok + 2
  BY DEF LadderInv
<1>3. inner' <= HighestTol
  BY <1>2, LadderBound
<1>4. PICK s2, k2 : s2 = settled' /\ k2 = ok'
  OBVIOUS
<1>5. CASE ~Small(class)
  <2>1. s2 = 0 /\ k2 \in Nat
    BY <1>4, <1>5 DEF Settled
  <2>2. s2 <= k2 + 2 /\ ~(s2 >= 1) /\ ~(s2 >= 2)
    BY <2>1, CountNotSettled
  <2> QED
    BY ONLY <2>2, <1>3, <1>4, Zenon
<1>6. CASE Small(class)
  <2>1. s2 = settled + 1 /\ k2 \in Nat
    BY <1>4, <1>6 DEF Settled
  <2>2. /\ class >= cfg.tol
        /\ inner' = HighestTol \/ alt' >= HighestTol
        /\ inner = HighestTol \/ alt >= HighestTol => inner' = HighestTol
    BY <1>6, <1>2, LadderStep
  <2>3. settled >= 2 => k2 = ok + 1
    BY <2>2, <1>2, <1>4
  <2>4. s2 <= k2 + 2 /\ (s2 >= 2 => settled >= 1)
    BY ONLY <2>1, <2>3, <1>1, <1>2, CountSettled
  <2> QED
    BY ONLY <2>2, <2>4, <1>2, <1>3, <1>4, Zenon
<1> QED
  BY <1>5, <1>6

\* While the loop runs, two accepted iterations with a small error are enough for
\* the ladder to be at its end.
LEMMA AtTheTop ==
  ASSUME TypeOK, LadderInv, cfg.tol <= 12, pc = "iterate", inner # HighestTol
  PROVE  settled \in Nat /\ ~(settled >= 2)
  BY DEF TypeOK, LadderInv

\* The ladder of inner tolerances cannot hold the loop up (the ladder and the
\* accuracy guards of fit_irls, fit_irls_block, _iterate and _iterate_block):
\* once the outer error stays small the loop stops within two accepted
\* iterations more than min_ok.
THEOREM LadderDoesNotStall == Spec => []SettledConverges
<1>1. Init => LadderInv
  <2> SUFFICES ASSUME Init
               PROVE  LadderInv
    OBVIOUS
  <2>1. cfg \in Configs /\ inner = InitialTol(cfg) /\ settled = 0 /\ ok = 0
    BY DEF Init
  <2>2. cfg.tol <= 12 => inner <= HighestTol
    BY <2>1, HighestTolRange
  <2>3. ok < cfg.minOk
    BY <2>1, ConfigFields
  <2> QED
    BY <2>1, <2>2, <2>3 DEF LadderInv
<1>2. TypeOK /\ LadderInv /\ [Next]_vars => LadderInv'
  <2> SUFFICES ASSUME TypeOK, LadderInv, [Next]_vars
               PROVE  LadderInv'
    OBVIOUS
  <2>1. cfg \in Configs /\ ok \in Nat /\ settled \in Nat /\ cfg.minOk \in Nat \ {0}
    BY ConfigFields DEF TypeOK
  <2>2. CASE PpmlIteration
    <3>1. PICK class \in Classes, above \in BOOLEAN, exact \in BOOLEAN, rows \in Flagged :
            LET good == class >= cfg.tol /\ ~Fast(above) /\ AccurateInner
                count == IF good THEN ok + 1 ELSE 0
                done == count >= cfg.minOk \/ (count >= 1 /\ exact)
            IN /\ Solve(it + 1) /\ ok' = count /\ settled' = Settled(class)
               /\ IF done THEN pc' = "converged"
                  ELSE inner' = Tighter(class) /\ alt' = NextAlt(class)
      BY <2>2 DEF PpmlIteration
    <3>2. pc = "iterate" /\ cfg' = cfg
      BY <3>1 DEF Solve
    <3>3. CASE pc' = "converged"
      BY <3>3 DEF LadderInv
    <3>4. CASE pc' # "converged"
      <4>1. /\ inner' = Tighter(class) /\ alt' = NextAlt(class) /\ settled' = Settled(class)
            /\ ok' \in Nat /\ ok' < cfg.minOk
        BY <3>1, <3>4, <2>1
      <4>2. cfg.tol <= 12 /\ inner = HighestTol /\ class >= cfg.tol => ok' = ok + 1
        BY <3>1, StrictAtTheTop
      <4> QED
        BY <4>1, <4>2, <3>2, AcceptedStep
    <3> QED
      BY <3>3, <3>4
  <2>3. CASE IvFirst
    <3>1. /\ cfg' = cfg /\ pc = "iterate" /\ inner' = inner /\ alt' = alt
          /\ ok' = ok /\ settled' = settled
      BY <2>3 DEF IvFirst, Solve, ladder
    <3> QED
      BY <3>1 DEF LadderInv, HighestTol, Least, Most
  <2>4. CASE IvMeets
    <3>1. PICK class \in Classes, rows \in Flagged :
            /\ Solve(it + 1) /\ ok' = ok + 1 /\ settled' = Settled(class)
            /\ IF ok' >= cfg.minOk THEN pc' = "converged"
               ELSE inner' = Tighter(class) /\ alt' = NextAlt(class)
      BY <2>4 DEF IvMeets
    <3>2. pc = "iterate" /\ cfg' = cfg
      BY <3>1 DEF Solve
    <3>3. CASE pc' = "converged"
      BY <3>3 DEF LadderInv
    <3>4. CASE pc' # "converged"
      <4>1. /\ inner' = Tighter(class) /\ alt' = NextAlt(class) /\ settled' = Settled(class)
            /\ ok' \in Nat /\ ok' < cfg.minOk
        BY <3>1, <3>4, <2>1
      <4> QED
        BY <4>1, <3>1, <3>2, AcceptedStep
    <3> QED
      BY <3>3, <3>4
  <2>5. CASE IvHalves
    <3>1. PICK class \in Classes : ~IvStops(class) /\ settled' = IF Small(class) THEN settled ELSE 0
      BY <2>5 DEF IvHalves
    <3>2. /\ cfg' = cfg /\ pc = "iterate" /\ inner' = inner /\ alt' = alt /\ ok' = 0
      BY <2>5 DEF IvHalves, Solve, ladder
    <3>3. ASSUME cfg.tol <= 12
          PROVE  /\ settled' \in {0, settled}
                 /\ settled' \in Nat /\ ~(settled' >= 3)
      <4>1. CASE ~Small(class)
        BY <4>1, <3>1
      <4>2. CASE Small(class)
        <5>1. inner <= HighestTol
          BY <3>2, <3>3 DEF LadderInv
        <5>2. class >= cfg.tol
          BY <5>1, <4>2, <3>3, LadderStep
        <5>3. inner # HighestTol
          BY <5>2, <3>1, <3>3, StrictAtTheTop DEF IvStops
        <5>4. settled \in Nat /\ ~(settled >= 2)
          BY <5>3, <3>2, <3>3, AtTheTop
        <5>5. ~(settled >= 3)
          BY ONLY <5>4
        <5> QED
          BY <5>4, <5>5, <4>2, <3>1
      <4> QED
        BY <4>1, <4>2
    <3>4. PICK s2, k2 : s2 = settled' /\ k2 = ok'
      OBVIOUS
    <3>5. cfg.tol <= 12 => s2 <= k2 + 2 /\ (s2 >= 1 => settled >= 1) /\ (s2 >= 2 => settled >= 2)
      <4> SUFFICES ASSUME cfg.tol <= 12
                   PROVE  s2 <= k2 + 2 /\ (s2 >= 1 => settled >= 1) /\ (s2 >= 2 => settled >= 2)
        OBVIOUS
      <4>1. s2 \in {0, settled} /\ s2 \in Nat /\ ~(s2 >= 3) /\ k2 = 0
        BY <3>2, <3>3, <3>4
      <4> QED
        BY ONLY <4>1
    <3>6. cfg.tol <= 12 =>
            /\ inner <= HighestTol
            /\ settled >= 1 => inner = HighestTol \/ alt >= HighestTol
            /\ settled >= 2 => inner = HighestTol
      BY <3>2 DEF LadderInv
    <3>7. k2 < cfg.minOk
      BY <2>1, <3>2, <3>4
    <3>8. HighestTol' = HighestTol
      BY <3>2 DEF HighestTol, Least, Most
    <3> QED
      BY ONLY <3>2, <3>4, <3>5, <3>6, <3>7, <3>8, Zenon DEF LadderInv
  <2>6. CASE IvAccepts
    <3>1. PICK class \in Classes, rows \in Flagged :
            /\ ~IvStops(class) /\ settled' = Settled(class)
            /\ inner' = Tighter(class) /\ alt' = NextAlt(class)
      BY <2>6 DEF IvAccepts
    <3>2. pc = "iterate" /\ cfg' = cfg /\ ok' = 0
      BY <2>6 DEF IvAccepts, Solve
    <3>3. ~(cfg.tol <= 12 /\ inner = HighestTol /\ class >= cfg.tol)
      BY <3>1, StrictAtTheTop DEF IvStops
    <3>4. ok' \in Nat /\ ok' < cfg.minOk
      BY <3>2, <2>1
    <3> QED
      BY <3>1, <3>2, <3>3, <3>4, AcceptedStep
  <2>7. CASE Raise
    <3>1. /\ cfg' = cfg /\ pc = "iterate" /\ inner' = inner /\ alt' = alt
          /\ ok' = ok /\ settled' = settled
      BY <2>7 DEF Raise, ladder
    <3> QED
      BY <3>1 DEF LadderInv, HighestTol, Least, Most
  <2>8. CASE UNCHANGED vars
    <3>1. /\ cfg' = cfg /\ pc' = pc /\ inner' = inner /\ alt' = alt
          /\ ok' = ok /\ settled' = settled
      BY <2>8 DEF vars, ladder
    <3> QED
      BY <3>1 DEF LadderInv, HighestTol, Least, Most
  <2> QED
    BY <2>2, <2>3, <2>4, <2>5, <2>6, <2>7, <2>8 DEF Next
<1>3. TypeOK /\ LadderInv => SettledConverges
  <2> SUFFICES ASSUME TypeOK, LadderInv, cfg.tol <= 12, pc # "converged"
               PROVE  settled < cfg.minOk + 2
    BY DEF SettledConverges, MaxExp
  <2>1. settled \in Nat /\ ok \in Nat /\ cfg.minOk \in Nat
    BY ConfigFields DEF TypeOK
  <2>2. settled <= ok + 2 /\ ok < cfg.minOk
    BY DEF LadderInv
  <2> QED
    BY ONLY <2>1, <2>2
<1> QED
  BY <1>1, <1>2, <1>3, TypeCorrect, PTL DEF Spec

-----------------------------------------------------------------------------
(* The pools of a projector.                                                 *)

Outside == {"outputs", "part"}
Opening == {"prepare", "build", "copy", "plan", "scratch"}
Pooling == {"pool", "answer"}
Lineary == {"linear_pool", "linear_answer"}
WeightedPlaces == Outside \cup Opening \cup Pooling \cup {"part_done"}
LinearPlaces == Lineary \cup {"linear_refused", "linear_done"}
Answering == {"answer", "linear_answer"}
\* Where the solver in use is bound to the weights and the tolerance of the call.
BoundPlaces == {"copy", "plan", "scratch"} \cup Pooling \cup Lineary

PoolTols == Tols \cup {0}
Accelerations == {"none", "cg", "auto"}
CoreType == [acceleration : Accelerations, raised : BOOLEAN]
LinearType == [built : BOOLEAN, tol : PoolTols, acceleration : Accelerations,
               raised : BOOLEAN, core : CoreType]
BoundType == [Solvers -> [weights : Weights \cup {"none"}, tol : PoolTols, kept : PoolTols]]
AnswerType == [part : Nat, lo : Nat, hi : Nat, ok : BOOLEAN, it : 0..MaxIter]
FitType == [pc : {"idle"} \cup WeightedPlaces \cup LinearPlaces,
            mode : {"none", "weighted", "design", "response", "linear"},
            cols : [Parts -> Nat], copy : Nat, weights : Weights \cup {"none"}, tol : PoolTols,
            part : Nat, kind : Kinds \cup {"none"}, width : Nat, seen : Int, lo : Nat,
            claim : Nat, answers : SUBSET AnswerType, adaptive : BOOLEAN]

\* The columns of a part, and how many of them have an answer.
ColumnsOf(f, p) == f.cols[p] + IF f.mode = "response" THEN 1 ELSE 0
Done(f, p) == IF p < f.part \/ (p = f.part /\ f.pc = "part")
              THEN IF p \in WithFE THEN ColumnsOf(f, p) ELSE 0
              ELSE IF p = f.part THEN f.lo ELSE 0
Cover(A, p, k) == {a \in A : a.part = p /\ a.lo <= k /\ k < a.hi}
One(S) == \E a \in S : S = {a}
Covers(f) == \A p \in Parts, k \in Nat :
               /\ k < Done(f, p) => One(Cover(f.answers, p, k))
               /\ ~(k < Done(f, p)) => Cover(f.answers, p, k) = {}

\* How far the pools of a part have come.
Lows(f) ==
  /\ f.pc \in Opening \cup Pooling \cup Lineary =>
       f.part \in WithFE /\ ColumnsOf(f, f.part) > 0 /\ f.lo < ColumnsOf(f, f.part)
  /\ f.pc \in Opening => f.lo = 0
  /\ f.pc \in {"scratch"} \cup Pooling \cup Lineary => f.width > 0
  /\ f.pc \in {"part_done", "linear_done"} =>
       f.part \in WithFE /\ f.lo = ColumnsOf(f, f.part) /\ f.lo > 0
  /\ f.pc = "outputs" => f.part = 0

Modes(f) ==
  /\ f.pc \in WeightedPlaces => f.mode \in {"weighted", "design", "response"}
  /\ f.pc \in LinearPlaces => f.mode = "linear"
  /\ f.pc \in LinearPlaces \ {"linear_refused"} =>
       /\ <<f.part, f.kind>> = LinearSolver
       /\ \A p \in Parts : p # f.part => f.cols[p] = 0
  /\ f.pc \in Opening \cup Pooling => f.kind \in Kinds

FitInv(f) == /\ f \in FitType /\ IsFiniteSet(f.answers)
             /\ f.pc = "idle" => f = NoFit
             /\ f.pc # "idle" => Lows(f) /\ Modes(f) /\ Covers(f)

PoolTypes ==
  /\ route \in Routes
  /\ bound \in BoundType
  /\ DOMAIN serving = Clients /\ DOMAIN report = Clients
  /\ held \in Int /\ others \in Nat
  /\ linear \in LinearType

\* The solver has what the call asks for; what a projector's variant has compiled
\* was compiled since it was bound.
At(f) == <<f.part, f.kind>>
BoundTo(b, f) == /\ b[At(f)].weights = f.weights /\ b[At(f)].tol = f.tol
                 /\ f.mode # "linear" => b[At(f)].kept \in {0, f.tol}
BoundFor == fit.pc \in BoundPlaces => BoundTo(bound, fit)

Answered ==
  /\ serving[Caller] # NoService =>
       /\ fit.pc \in Answering /\ serving[Caller] = [of |-> At(fit), for |-> "block"]
       /\ report[Caller] = NoReport
  /\ report[Caller] # NoReport =>
       /\ fit.pc \in Answering
       /\ report[Caller].consulted = {fit.weights}
       /\ report[Caller].converged \in BOOLEAN /\ report[Caller].iterations \in 0..MaxIter
       /\ report[Caller].converged =>
            /\ report[Caller].tested <= IF fit.mode = "linear" THEN linear.tol ELSE fit.tol
            /\ bound[At(fit)].kept \in {0, fit.tol} => report[Caller].tested <= fit.tol

Holdings ==
  /\ fit.pc = "idle" \/ linear.built => held = 0
  /\ fit.pc \in WeightedPlaces => ~linear.built
  /\ fit.pc \in LinearPlaces => linear.built
  /\ fit.pc # "idle" => outcome = NoOutcome

LinearSound ==
  linear.built =>
    /\ linear.tol \in Tols
    /\ bound[LinearSolver].tol \in {linear.tol, Tight}
    /\ bound[LinearSolver].kept \in {0, linear.tol, Tight}
    /\ fit.pc = "idle" => bound[LinearSolver].tol = linear.tol
    /\ ~(fit.pc = "linear_answer" /\ fit.adaptive /\ fit.lo = 0) =>
         linear.acceleration # "auto" /\ ~linear.raised

ScratchFits == fit.pc = "scratch" => fit.width + Lazy(Solver) <= fit.seen

CertifiedConverged ==
  Certified /\ fit.mode # "linear" => \A a \in fit.answers : a.ok

\* What the last call returned.
HonestReturn ==
  Returns =>
    /\ EachColumnOnce
    /\ outcome.of.mode # "design" => (outcome.ok <=> \A a \in outcome.of.answers : a.ok)
    /\ outcome.ok /\ outcome.of.mode # "design" => \A a \in outcome.of.answers : a.it <= outcome.it
    /\ Certified /\ outcome.of.mode # "linear" => \A a \in outcome.of.answers : a.ok

\* Each conjunct rests on the others: answers cover what a pass has come past
\* because widths are positive, an answer is of the weights of the call because
\* the solver is bound to them from "copy" on, and a reported worst pool speaks for
\* all because the record holds every answer.
PoolInv == /\ PoolTypes /\ FitInv(fit) /\ BoundFor /\ Answered /\ Holdings
           /\ LinearSound /\ ScratchFits /\ CertifiedConverged /\ HonestReturn

-----------------------------------------------------------------------------
(* Widths, and the worst of a set of answers.                                *)

LEMMA LeastNumber ==
  ASSUME NEW S \in SUBSET Nat, S # {}
  PROVE  \E m \in S : \A n \in S : m <= n
<1> DEFINE Less == OpToRel(<, Nat)
<1>1. IsWellFoundedOn(Less, Nat)
  BY NatLessThanWellFounded
<1>2. \A i, j \in Nat : <<i, j>> \in Less <=> i < j
  BY DEF OpToRel
<1> HIDE DEF Less
<1>3. PICK m \in S : \A j \in S : ~(<<j, m>> \in Less)
  BY <1>1, WFMin
<1>4. \A j \in S : ~(j < m)
  BY <1>2, <1>3
<1> QED
  BY <1>4

LEMMA GreatestNumber ==
  ASSUME NEW n \in Nat, NEW S \in SUBSET (0..n), S # {}
  PROVE  \E m \in S : \A i \in S : i <= m
<1> DEFINE uppers == {k \in Nat : \A i \in S : i <= k}
<1>1. n \in uppers /\ uppers \in SUBSET Nat
  OBVIOUS
<1>2. PICK k \in uppers : \A l \in uppers : k <= l
  BY <1>1, LeastNumber
<1>3. k \in Nat /\ \A i \in S : i <= k
  BY <1>2
<1>4. k \in S
  <2>1. SUFFICES ASSUME k \notin S PROVE FALSE
    OBVIOUS
  <2>2. PICK i \in S : TRUE
    OBVIOUS
  <2>3. k - 1 \in Nat /\ \A j \in S : j <= k - 1
    BY <1>3, <2>1, <2>2
  <2>4. k - 1 \in uppers
    BY <2>3
  <2> HIDE DEF uppers
  <2> QED
    BY <1>2, <1>3, <2>4
<1> QED
  BY <1>3, <1>4

LEMMA MinOfTwo ==
  ASSUME NEW a \in Int, NEW b \in Int
  PROVE  Min({a, b}) = IF a <= b THEN a ELSE b
<1> DEFINE S == {a, b}
           m == IF a <= b THEN a ELSE b
<1>1. m \in S /\ \A x \in S : m <= x
  OBVIOUS
<1>2. \A x \in S : (\A y \in S : x <= y) => x = m
  BY <1>1
<1> HIDE DEF m
<1>3. Min(S) \in S /\ \A y \in S : Min(S) <= y
  BY <1>1 DEF Min
<1> QED
  BY <1>2, <1>3 DEF m

LEMMA MaxOfTwo ==
  ASSUME NEW a \in Int, NEW b \in Int
  PROVE  Max({a, b}) = IF a >= b THEN a ELSE b
<1> DEFINE S == {a, b}
           m == IF a >= b THEN a ELSE b
<1>1. m \in S /\ \A x \in S : m >= x
  OBVIOUS
<1>2. \A x \in S : (\A y \in S : x >= y) => x = m
  BY <1>1
<1> HIDE DEF m
<1>3. Max(S) \in S /\ \A y \in S : Max(S) >= y
  BY <1>1 DEF Max
<1> QED
  BY <1>2, <1>3 DEF m

LEMMA LeastOf ==
  ASSUME NEW S \in SUBSET Nat, S # {}
  PROVE  Min(S) \in S /\ \A x \in S : Min(S) <= x
<1>1. \E m \in S : \A n \in S : m <= n
  BY LeastNumber
<1> QED
  BY <1>1 DEF Min

LEMMA PowerFits ==
  ASSUME NEW n \in Nat, n > 0
  PROVE  Pow2Floor(n) \in 1..n
<1>1. CASE n = 1
  BY <1>1 DEF Pow2Floor
<1>2. CASE n > 1
  <2> DEFINE P == {k \in 1..n : k \in {2^e : e \in 0..n}}
  <2>1. 1 \in P
    <3>1. 2^0 = 1 /\ 0 \in 0..n
      OBVIOUS
    <3>2. 1 \in {2^e : e \in 0..n}
      BY <3>1, Zenon
    <3> QED
      BY <1>2, <3>2
  <2>2. P \in SUBSET (0..n) /\ P \subseteq 1..n
    OBVIOUS
  <2>3. Pow2Floor(n) = Max(P)
    BY <1>2 DEF Pow2Floor
  <2> HIDE DEF P
  <2>4. PICK m \in P : \A i \in P : i <= m
    BY <2>1, <2>2, GreatestNumber
  <2>5. \A i \in P : m >= i
    BY <2>2, <2>4
  <2>6. Max(P) \in P
    BY <2>5 DEF Max
  <2> QED
    BY <2>2, <2>3, <2>6
<1> QED
  BY <1>1, <1>2

LEMMA PoolWidth ==
  ASSUME NEW n \in Nat, n > 0, NEW size \in Nat
  PROVE  WorkspacePool(n, size) \in Nat
<1>1. Budget \in Nat /\ Resident \in Nat /\ AutoSize \in Nat
  BY PoolAssumption DEF AutoSize
<1> PICK cap : cap = Max({0, Budget - Resident})
  OBVIOUS
<1> PICK width : width = IF size = AutoSize THEN 1 ELSE Min({size, n})
  OBVIOUS
<1>2. cap \in Nat
  BY <1>1, MaxOfTwo
<1>3. width \in Nat /\ (size = AutoSize => width = 1)
  BY <1>1, MinOfTwo
<1>4. WorkspacePool(n, size) = IF width > cap THEN 0
                               ELSE IF size # AutoSize THEN width
                               ELSE Min({n, Pow2Floor(Min({n, cap}))})
  BY Zenon DEF WorkspacePool
<1>5. ASSUME ~(width > cap), size = AutoSize
      PROVE  Min({n, Pow2Floor(Min({n, cap}))}) \in Nat
  <2>1. Min({n, cap}) \in Nat /\ Min({n, cap}) > 0
    BY <1>2, <1>3, <1>5, MinOfTwo
  <2>2. Pow2Floor(Min({n, cap})) \in Nat
    BY <2>1, PowerFits
  <2> PICK v : v = Pow2Floor(Min({n, cap}))
    OBVIOUS
  <2>3. v \in Nat /\ n \in Int /\ v \in Int
    BY <2>2
  <2>4. Min({n, v}) = IF n <= v THEN n ELSE v
    BY ONLY <2>3, MinOfTwo
  <2>5. Min({n, v}) \in Nat
    BY <2>3, <2>4
  <2> QED
    BY <2>5
<1>6. CASE width > cap
  BY <1>4, <1>6
<1>7. CASE ~(width > cap) /\ size # AutoSize
  BY <1>3, <1>4, <1>7
<1>8. CASE ~(width > cap) /\ size = AutoSize
  BY <1>4, <1>5, <1>8
<1> QED
  BY <1>6, <1>7, <1>8

\* What a projection takes of the memory that is left is no more than that.
LEMMA SharedFits ==
  ASSUME NEW pool \in Nat, NEW left \in Int
  PROVE  SharedPool(pool, left) \in Nat /\ (SharedPool(pool, left) > 0 => SharedPool(pool, left) <= left)
<1>1. ASSUME left >= 1 PROVE Pow2Floor(left) \in 1..left
  BY <1>1, PowerFits
<1> QED
  BY <1>1 DEF SharedPool

LEMMA WorstIs ==
  ASSUME NEW A \in SUBSET AnswerType, A # {}
  PROVE  /\ Worst(A) \in A
         /\ Worst(A).ok <=> \A a \in A : a.ok
         /\ Worst(A).ok => \A a \in A : a.it <= Worst(A).it
<1>0. MaxIter \in Nat /\ \A a \in A : a.ok \in BOOLEAN /\ a.it \in 0..MaxIter /\ a.it \in Nat
  BY PoolAssumption DEF AnswerType
<1> DEFINE bad == {a \in A : ~a.ok}
           shown == IF bad # {} THEN bad ELSE A
           its == {a.it : a \in shown}
<1>1. shown # {} /\ shown \subseteq A
  OBVIOUS
<1>2. its \in SUBSET (0..MaxIter) /\ its # {}
  BY <1>0, <1>1
<1>3. PICK top \in its : \A i \in its : i <= top
  <2> HIDE DEF its
  <2> QED
    BY <1>0, <1>2, GreatestNumber
<1>4. PICK w \in shown : w.it = top
  BY <1>3
<1>5. \A b \in A : ~Worse(b, w)
  <2> SUFFICES ASSUME NEW b \in A, Worse(b, w) PROVE FALSE
    OBVIOUS
  <2>1. w \in A
    BY <1>1, <1>4
  <2>2. CASE b.ok # w.ok
    BY <1>0, <2>1, <2>2, <1>4 DEF Worse
  <2>3. CASE b.ok = w.ok
    <3>1. b.it > w.it
      BY <2>3 DEF Worse
    <3>2. b \in shown
      BY <1>0, <1>4, <2>1, <2>3
    <3>3. b.it <= top
      BY <1>3, <3>2
    <3> QED
      BY <1>0, <1>4, <2>1, <3>1, <3>3
  <2> QED
    BY <2>2, <2>3
<1>6. Worst(A) \in A /\ \A b \in A : ~Worse(b, Worst(A))
  <2>1. w \in A
    BY <1>1, <1>4
  <2> QED
    BY <1>5, <2>1 DEF Worst
<1> HIDE DEF bad, shown, its
<1> PICK v : v = Worst(A)
  OBVIOUS
<1>7. v \in A /\ \A b \in A : ~Worse(b, v)
  BY <1>6
<1>8. ASSUME v.ok, NEW a \in A
      PROVE  a.ok /\ a.it <= v.it
  <2>1. ~Worse(a, v) /\ a.ok \in BOOLEAN /\ v.ok \in BOOLEAN /\ a.it \in Nat /\ v.it \in Nat
    BY <1>0, <1>7
  <2>2. a.ok
    <3>1. SUFFICES ASSUME ~a.ok PROVE FALSE
      OBVIOUS
    <3>2. a.ok # v.ok
      BY <1>8, <2>1, <3>1
    <3> QED
      BY <2>1, <3>1, <3>2 DEF Worse
  <2>3. a.ok = v.ok
    BY <1>8, <2>1, <2>2
  <2>4. ~(a.it > v.it)
    BY <2>1, <2>3 DEF Worse
  <2> QED
    BY <2>1, <2>2, <2>4
<1> QED
  BY <1>7, <1>8

-----------------------------------------------------------------------------
(* Sums over the components: what the fold of Sum gives for finitely many     *)
(* natural terms.  Induction on a cardinality is by the least counterexample. *)

Sums(g, f, D) ==
  g = [s \in SUBSET D |-> IF s = {} THEN 0
                          ELSE g[s \ {CHOOSE x \in s : TRUE}] + f[CHOOSE x \in s : TRUE]]

LEMMA SumDef ==
  ASSUME NEW f
  PROVE  Sum(f) = (CHOOSE g : Sums(g, f, DOMAIN f))[DOMAIN f]
BY DEF Sum, FoldSet, MapThenFoldSet, Sums

\* The recursion has a solution.
LEMMA SumsExists ==
  ASSUME NEW D, IsFiniteSet(D), NEW f, \A x \in D : f[x] \in Nat
  PROVE  \E g \in [SUBSET D -> Nat] : Sums(g, f, D)
<1> DEFINE FewOf(n) == {s \in SUBSET D : Cardinality(s) <= n}
           Rest(s) == s \ {CHOOSE x \in s : TRUE}
           Solves(g, n) == /\ g \in [FewOf(n) -> Nat]
                          /\ \A s \in FewOf(n) : g[s] = IF s = {} THEN 0 ELSE g[Rest(s)] + f[CHOOSE x \in s : TRUE]
           Missing == {n \in Nat : ~ \E g : Solves(g, n)}
<1>1. \A s \in SUBSET D : IsFiniteSet(s) /\ Cardinality(s) \in Nat /\ Cardinality(s) <= Cardinality(D)
  BY FS_Subset, FS_CardinalityType
<1>2. \A s \in SUBSET D : s # {} =>
         /\ (CHOOSE x \in s : TRUE) \in s
         /\ Cardinality(s \ {CHOOSE x \in s : TRUE}) = Cardinality(s) - 1
  BY <1>1, FS_RemoveElement
<1>3. \A s \in SUBSET D : Cardinality(s) = 0 <=> s = {}
  BY <1>1, FS_EmptySet
<1>4. Solves([s \in FewOf(0) |-> 0], 0)
  <2>1. FewOf(0) = {{}}
    BY <1>1, <1>3
  <2> QED
    BY <2>1
<1>5. ASSUME NEW n \in Nat, NEW g, Solves(g, n) PROVE \E h : Solves(h, n + 1)
  <2> DEFINE h == [s \in FewOf(n + 1) |-> IF s = {} THEN 0 ELSE g[Rest(s)] + f[CHOOSE x \in s : TRUE]]
  <2>1. \A s \in FewOf(n + 1) : s # {} => Rest(s) \in FewOf(n)
    BY <1>1, <1>2
  <2>2. FewOf(n) \subseteq FewOf(n + 1)
    BY <1>1
  <2>3. \A s \in FewOf(n) : h[s] = g[s]
    BY <1>5, <2>2
  <2>4. h \in [FewOf(n + 1) -> Nat]
    BY <2>1, <1>2, <1>5
  <2> HIDE DEF FewOf
  <2>5. ASSUME NEW s \in FewOf(n + 1)
        PROVE  h[s] = IF s = {} THEN 0 ELSE h[Rest(s)] + f[CHOOSE x \in s : TRUE]
    <3>1. h[s] = IF s = {} THEN 0 ELSE g[Rest(s)] + f[CHOOSE x \in s : TRUE]
      OBVIOUS
    <3>2. s # {} => h[Rest(s)] = g[Rest(s)]
      BY <2>1, <2>3
    <3> HIDE DEF h, Rest
    <3> QED
      BY <3>1, <3>2
  <2> QED
    BY <2>4, <2>5
<1>6. Missing = {}
  <2> SUFFICES ASSUME Missing # {} PROVE FALSE
    OBVIOUS
  <2>1. PICK m \in Missing : \A n \in Missing : m <= n
    BY LeastNumber
  <2> HIDE DEF Solves, FewOf
  <2>2. m # 0
    BY <1>4
  <2>3. m - 1 \in Nat /\ m - 1 \notin Missing
    BY <2>1, <2>2
  <2>4. PICK g : Solves(g, m - 1)
    BY <2>3
  <2> QED
    BY <1>5, <2>3, <2>4, <2>1
<1>7. PICK g : Solves(g, Cardinality(D))
  <2>1. Cardinality(D) \in Nat
    BY FS_CardinalityType
  <2> HIDE DEF Solves, FewOf
  <2> QED
    BY <1>6, <2>1
<1>8. FewOf(Cardinality(D)) = SUBSET D
  BY <1>1
<1>9. Sums(g, f, D)
  BY <1>7, <1>8 DEF Sums
<1> QED
  BY <1>7, <1>8, <1>9

\* It has one solution.
LEMMA SumsUnique ==
  ASSUME NEW D, IsFiniteSet(D), NEW f, \A x \in D : f[x] \in Nat,
         NEW h \in [SUBSET D -> Nat], Sums(h, f, D),
         NEW g, Sums(g, f, D)
  PROVE  g = h
<1> DEFINE Missing == {n \in Nat : \E s \in SUBSET D : Cardinality(s) = n /\ g[s] # h[s]}
           C(s) == CHOOSE x \in s : TRUE
<1>1. \A s \in SUBSET D : IsFiniteSet(s) /\ Cardinality(s) \in Nat
  BY FS_Subset, FS_CardinalityType
<1>2. \A s \in SUBSET D : \A x \in s : Cardinality(s \ {x}) = Cardinality(s) - 1
  BY <1>1, FS_RemoveElement
<1>3. \A s \in SUBSET D : g[s] = IF s = {} THEN 0 ELSE g[s \ {C(s)}] + f[C(s)]
  BY DEF Sums
<1>4. \A s \in SUBSET D : h[s] = IF s = {} THEN 0 ELSE h[s \ {C(s)}] + f[C(s)]
  BY DEF Sums
<1>5. \A s \in SUBSET D : s # {} => C(s) \in s
  OBVIOUS
<1> HIDE DEF C
<1>6. Missing = {}
  <2> SUFFICES ASSUME Missing # {} PROVE FALSE
    OBVIOUS
  <2>1. PICK m \in Missing : \A n \in Missing : m <= n
    BY LeastNumber
  <2>2. PICK s \in SUBSET D : Cardinality(s) = m /\ g[s] # h[s]
    BY <2>1
  <2>3. s # {}
    BY <1>3, <1>4, <2>2
  <2>4. Cardinality(s \ {C(s)}) = m - 1
    BY <1>2, <1>5, <2>2, <2>3
  <2>5. m - 1 \in Nat
    BY <1>1, <2>4
  <2>6. m - 1 \notin Missing
    BY <2>1, <2>5
  <2>7. g[s \ {C(s)}] = h[s \ {C(s)}]
    BY <2>4, <2>5, <2>6
  <2> QED
    BY <1>3, <1>4, <2>2, <2>3, <2>7
<1>7. \A s \in SUBSET D : g[s] = h[s]
  BY <1>1, <1>6
<1>8. g = [s \in SUBSET D |-> g[s]]
  BY DEF Sums
<1> QED
  BY <1>7, <1>8

\* A sum is a number no less than any of its terms.
LEMMA SumBounds ==
  ASSUME NEW D, IsFiniteSet(D), NEW f \in [D -> Nat]
  PROVE  Sum(f) \in Nat /\ \A x \in D : f[x] <= Sum(f)
<1>0. DOMAIN f = D /\ \A x \in D : f[x] \in Nat
  OBVIOUS
<1>1. PICK h \in [SUBSET D -> Nat] : Sums(h, f, D)
  BY <1>0, SumsExists
<1>2. Sum(f) = h[D]
  <2> DEFINE g == CHOOSE k : Sums(k, f, D)
  <2>1. Sums(g, f, D)
    BY <1>1
  <2>2. Sum(f) = g[D]
    BY <1>0, SumDef
  <2> HIDE DEF g
  <2>3. g = h
    BY <1>0, <1>1, <2>1, SumsUnique
  <2> QED
    BY <2>2, <2>3
<1> DEFINE Bounds(s) == \A x \in s : f[x] <= h[s]
           Missing == {n \in Nat : \E s \in SUBSET D : Cardinality(s) = n /\ ~Bounds(s)}
<1>3. \A s \in SUBSET D : IsFiniteSet(s) /\ Cardinality(s) \in Nat
  BY FS_Subset, FS_CardinalityType
<1>4. Missing = {}
  <2> SUFFICES ASSUME Missing # {} PROVE FALSE
    OBVIOUS
  <2>1. PICK m \in Missing : \A n \in Missing : m <= n
    BY LeastNumber
  <2>2. PICK s \in SUBSET D : Cardinality(s) = m /\ ~Bounds(s)
    BY <2>1
  <2>3. PICK x \in s : ~(f[x] <= h[s])
    BY <2>2
  <2> DEFINE y == CHOOSE z \in s : TRUE
             r == s \ {y}
  <2>4. y \in s /\ h[s] = h[r] + f[y]
    BY <1>1, <2>3 DEF Sums
  <2>5. Cardinality(r) = m - 1
    BY <1>3, <2>2, <2>4, FS_RemoveElement
  <2> HIDE DEF y
  <2>6. r \in SUBSET D /\ h[r] \in Nat /\ f[y] \in Nat /\ f[x] \in Nat /\ f[x] \in Nat
    BY <1>0, <2>3, <2>4
  <2>7. x # y
    BY <2>3, <2>4, <2>6
  <2>8. m - 1 \in Nat
    BY <1>3, <2>5, <2>6
  <2>9. m - 1 \notin Missing
    BY <2>1, <2>8
  <2>10. Bounds(r)
    BY <2>5, <2>6, <2>8, <2>9
  <2>11. x \in r
    BY <2>7
  <2> HIDE DEF r
  <2>12. f[x] <= h[r]
    BY <2>10, <2>11
  <2> QED
    BY <2>3, <2>4, <2>6, <2>12
<1>5. Bounds(D)
  BY <1>3, <1>4
<1> QED
  BY <1>2, <1>5

-----------------------------------------------------------------------------
(* The record of a call: what each step makes of it.                          *)

LEMMA FirstPart ==
  /\ Min(WithFE) \in WithFE /\ Min(WithFE) \in Parts /\ Min(WithFE) \in Nat \ {0}
  /\ LinearSolver \in Solvers
<1>1. WithFE \in SUBSET Nat /\ WithFE # {} /\ WithFE \subseteq Parts /\ Parts \subseteq Nat \ {0}
  BY PoolAssumption
<1>2. Min(WithFE) \in WithFE
  BY <1>1, LeastOf
<1> QED
  BY <1>1, <1>2, PoolAssumption DEF LinearSolver, Kinds

LEMMA NoFitFits == FitInv(NoFit)
<1>1. NoFit \in FitType
  BY DEF NoFit, FitType, PoolTols
<1>2. NoFit.pc = "idle" /\ NoFit.answers = {}
  BY DEF NoFit
<1>3. IsFiniteSet(NoFit.answers)
  BY <1>2, FS_EmptySet
<1> QED
  BY <1>1, <1>2, <1>3 DEF FitInv

\* A call begins with nothing projected.
LEMMA FreshFit ==
  ASSUME NEW g \in FitType, g.answers = {}, g.lo = 0, g.pc # "idle",
         Lows(g), Modes(g),
         \A p \in Parts : p < g.part => g.cols[p] = 0 /\ g.mode # "response",
         g.pc = "part" => g.part = 0
  PROVE  FitInv(g)
<1>1. \A p \in Parts : p \in Nat \ {0}
  BY PoolAssumption
<1>2. \A p \in Parts : Done(g, p) = 0
  BY <1>1 DEF Done, ColumnsOf
<1>3. \A k \in Nat : ~(k < 0)
  OBVIOUS
<1>4. Covers(g)
  BY <1>2, <1>3 DEF Covers, Cover
<1>5. IsFiniteSet(g.answers)
  BY FS_EmptySet
<1> QED
  BY <1>4, <1>5 DEF FitInv

\* A step that neither answers nor changes component.
Onward == {<<"outputs", "part">>, <<"prepare", "build">>, <<"build", "copy">>, <<"prepare", "copy">>,
           <<"copy", "plan">>, <<"plan", "scratch">>, <<"scratch", "pool">>, <<"pool", "answer">>,
           <<"part_done", "part">>, <<"linear_pool", "linear_answer">>}

LEMMA OnwardFits ==
  ASSUME NEW f, FitInv(f), NEW g \in FitType, <<f.pc, g.pc>> \in Onward,
         g.cols = f.cols, g.mode = f.mode, g.part = f.part, g.kind = f.kind, g.lo = f.lo,
         g.answers = f.answers, f.pc = "plan" \/ g.width = f.width,
         f.pc = "plan" => g.width > 0
  PROVE  FitInv(g)
<1>0. f.pc # "idle" /\ g.pc # "idle"
  BY DEF Onward
<1>1. Lows(f) /\ Modes(f) /\ Covers(f) /\ IsFiniteSet(f.answers) /\ f \in FitType
  BY <1>0 DEF FitInv
<1>2. \A p \in Parts : ColumnsOf(g, p) = ColumnsOf(f, p)
  BY DEF ColumnsOf
<1>3. \A p \in Parts : p \in Nat \ {0}
  BY PoolAssumption
<1>4. ASSUME NEW p \in Parts PROVE Done(g, p) = Done(f, p)
  <2>1. CASE f.pc = "outputs"
    <3>1. f.part = 0 /\ g.part = 0
      BY <1>1, <2>1 DEF Lows
    <3> QED
      BY <1>3, <3>1 DEF Done
  <2>2. CASE f.pc = "part_done"
    <3>1. f.part \in WithFE /\ f.lo = ColumnsOf(f, f.part) /\ g.pc = "part"
      BY <1>1, <2>2 DEF Lows, Onward
    <3> QED
      BY <1>2, <2>2, <3>1 DEF Done
  <2>3. CASE f.pc # "outputs" /\ f.pc # "part_done"
    <3>1. f.pc # "part" /\ g.pc # "part"
      BY <2>3 DEF Onward
    <3> QED
      BY <1>2, <3>1 DEF Done
  <2> QED
    BY <2>1, <2>2, <2>3
<1>5. Covers(g)
  BY <1>1, <1>4 DEF Covers
<1>6. Lows(g)
  <2>1. ColumnsOf(g, g.part) = ColumnsOf(f, f.part)
    BY DEF ColumnsOf
  <2> QED
    BY <1>1, <2>1 DEF Lows, Onward, Opening, Pooling, Lineary
<1>7. Modes(g)
  BY <1>1 DEF Modes, Onward, WeightedPlaces, LinearPlaces, Outside, Opening, Pooling, Lineary
<1> QED
  BY <1>0, <1>1, <1>5, <1>6, <1>7 DEF FitInv

\* The next component: the one before is whole.
LEMMA NextPartFits ==
  ASSUME NEW f, FitInv(f), f.pc = "part", NEW p \in Parts, p > f.part,
         \A q \in Parts : q > f.part => p <= q,
         NEW g \in FitType, g.cols = f.cols, g.mode = f.mode, g.answers = f.answers,
         g.part = p, g.lo = 0, g.kind \in Kinds,
         g.pc = IF p \notin WithFE \/ ColumnsOf(f, p) = 0 THEN "part" ELSE "prepare"
  PROVE  FitInv(g)
<1>1. Modes(f) /\ Covers(f) /\ IsFiniteSet(f.answers) /\ f \in FitType
  BY DEF FitInv
<1>2. \A q \in Parts : q \in Nat \ {0} /\ ColumnsOf(g, q) = ColumnsOf(f, q) /\ ColumnsOf(f, q) \in Nat
  BY <1>1, PoolAssumption DEF ColumnsOf, FitType
<1>3. f.part \in Nat /\ p \in Nat
  BY <1>1, <1>2 DEF FitType
<1>4. ASSUME NEW q \in Parts PROVE Done(g, q) = Done(f, q)
  <2>0. q \in Nat
    BY <1>2
  <2>1. CASE q > f.part /\ q # p
    <3>1. q > p
      BY <1>3, <2>0, <2>1
    <3> QED
      BY <1>3, <2>0, <2>1, <3>1 DEF Done
  <2>2. CASE q = p
    <3>1. Done(f, q) = 0
      BY <1>3, <2>2 DEF Done
    <3>2. Done(g, q) = 0
      BY <1>2, <1>3, <2>2 DEF Done
    <3> QED
      BY <3>1, <3>2
  <2>3. CASE ~(q > f.part)
    <3>1. q < p /\ (q < f.part \/ q = f.part)
      BY <1>3, <2>0, <2>3
    <3> QED
      BY <1>2, <2>0, <3>1 DEF Done
  <2> QED
    BY <2>1, <2>2, <2>3
<1>5. Covers(g)
  BY <1>1, <1>4 DEF Covers
<1>6. Lows(g)
  BY <1>2 DEF Lows, Opening, Pooling, Lineary
<1>7. Modes(g)
  BY <1>1 DEF Modes, WeightedPlaces, LinearPlaces, Outside, Opening, Pooling, Lineary
<1> QED
  BY <1>1, <1>5, <1>6, <1>7 DEF FitInv

\* The answer of a pool covers the columns from where the last one ended.
LEMMA AnswerFits ==
  ASSUME NEW f, FitInv(f), f.pc \in Answering, NEW a \in AnswerType,
         a.part = f.part, a.lo = f.lo,
         NEW n, n = ColumnsOf(f, f.part), a.hi = IF n <= f.lo + f.width THEN n ELSE f.lo + f.width,
         NEW g \in FitType, g.cols = f.cols, g.mode = f.mode, g.part = f.part, g.kind = f.kind,
         g.width = f.width, g.lo = a.hi, g.answers = f.answers \cup {a},
         g.pc = IF f.pc = "answer" THEN IF a.hi < n THEN "pool" ELSE "part_done"
                ELSE IF a.hi < n THEN "linear_pool" ELSE "linear_done"
  PROVE  FitInv(g)
<1>0. f.pc # "idle" /\ g.pc # "idle" /\ f.pc # "part" /\ g.pc # "part"
  BY DEF Answering
<1>1. Lows(f) /\ Modes(f) /\ Covers(f) /\ IsFiniteSet(f.answers) /\ f \in FitType
  BY <1>0 DEF FitInv
<1>2. f.lo \in Nat /\ f.width \in Nat /\ f.part \in WithFE /\ f.part \in Parts /\ f.width > 0
  BY <1>1, PoolAssumption DEF FitType, Lows, Answering, Pooling, Lineary
<1>3. n \in Nat /\ f.lo < n
  BY <1>1, <1>2 DEF FitType, Lows, Answering, Pooling, Lineary, ColumnsOf
<1>4. a.hi \in Nat /\ a.hi > f.lo /\ a.hi <= n
  BY <1>2, <1>3
<1>5. \A q \in Parts : q # f.part => Done(g, q) = Done(f, q)
  BY <1>0 DEF Done, ColumnsOf
<1>6. Done(f, f.part) = f.lo /\ Done(g, f.part) = a.hi
  <2>1. f.part \in Nat
    BY <1>1 DEF FitType
  <2> QED
    BY <1>0, <2>1 DEF Done
<1>7. Covers(g)
  <2> SUFFICES ASSUME NEW q \in Parts, NEW k \in Nat
               PROVE  /\ k < Done(g, q) => One(Cover(g.answers, q, k))
                      /\ ~(k < Done(g, q)) => Cover(g.answers, q, k) = {}
    BY DEF Covers
  <2>0. /\ k < Done(f, q) => One(Cover(f.answers, q, k))
        /\ ~(k < Done(f, q)) => Cover(f.answers, q, k) = {}
    BY <1>1 DEF Covers
  <2>1. CASE q # f.part
    <3>1. Cover(g.answers, q, k) = Cover(f.answers, q, k)
      BY <2>1 DEF Cover
    <3> QED
      BY <1>5, <2>0, <2>1, <3>1
  <2>2. CASE q = f.part
    <3>1. CASE k < f.lo
      <4>1. Cover(g.answers, q, k) = Cover(f.answers, q, k)
        BY <1>2, <3>1 DEF Cover
      <4>2. k < Done(f, q) /\ k < Done(g, q)
        BY <1>2, <1>4, <1>6, <2>2, <3>1
      <4> QED
        BY <2>0, <4>1, <4>2
    <3>2. CASE f.lo <= k /\ k < a.hi
      <4>1. ~(k < Done(f, q)) /\ k < Done(g, q)
        BY <1>2, <1>4, <1>6, <2>2, <3>2
      <4>2. Cover(g.answers, q, k) = {a}
        BY <2>0, <2>2, <3>2, <4>1 DEF Cover
      <4> QED
        BY <4>1, <4>2 DEF One
    <3>3. CASE ~(k < f.lo) /\ ~(k < a.hi)
      <4>1. ~(k < Done(f, q)) /\ ~(k < Done(g, q))
        BY <1>6, <2>2, <3>3
      <4>2. Cover(g.answers, q, k) = {}
        BY <2>0, <3>3, <4>1 DEF Cover
      <4> QED
        BY <4>1, <4>2
    <3>4. k < f.lo \/ (f.lo <= k /\ k < a.hi) \/ (~(k < f.lo) /\ ~(k < a.hi))
      <4>1. \A x, y, z \in Nat : x < y \/ (y <= x /\ x < z) \/ (~(x < y) /\ ~(x < z))
        OBVIOUS
      <4> QED
        BY <1>2, <1>4, <4>1
    <3> QED
      BY <3>1, <3>2, <3>3, <3>4
  <2> QED
    BY <2>1, <2>2
<1>8. IsFiniteSet(g.answers)
  BY <1>1, FS_AddElement
<1>9. Lows(g)
  <2>1. ColumnsOf(g, g.part) = n
    BY DEF ColumnsOf
  <2> QED
    BY <1>2, <1>3, <1>4, <2>1 DEF Lows, Opening, Pooling, Lineary, Answering
<1>10. Modes(g)
  BY <1>1 DEF Modes, WeightedPlaces, LinearPlaces, Outside, Opening, Pooling, Lineary, Answering
<1> QED
  BY <1>0, <1>7, <1>8, <1>9, <1>10 DEF FitInv

\* A call that has come past every component has projected every column once.
LEMMA WholeCover ==
  ASSUME NEW f, FitInv(f),
         \/ f.pc = "part" /\ \A p \in Parts : ~(p > f.part)
         \/ f.pc = "linear_done",
         NEW p \in Parts, NEW k \in Nat
  PROVE  Cardinality(Cover(f.answers, p, k)) = IF p \in WithFE /\ k < ColumnsOf(f, p) THEN 1 ELSE 0
<1>1. Lows(f) /\ Modes(f) /\ Covers(f) /\ f \in FitType
  BY DEF FitInv
<1>2. p \in Nat \ {0} /\ f.part \in Nat /\ ColumnsOf(f, p) \in Nat
  BY <1>1, PoolAssumption DEF FitType, ColumnsOf
<1>3. Done(f, p) = IF p \in WithFE THEN ColumnsOf(f, p) ELSE 0
  <2>1. CASE f.pc = "part"
    BY <1>2, <2>1 DEF Done
  <2>2. CASE f.pc = "linear_done" /\ p = f.part
    BY <1>1, <1>2, <2>2 DEF Done, Lows
  <2>3. CASE f.pc = "linear_done" /\ p # f.part
    <3>1. f.cols[p] = 0 /\ f.mode = "linear"
      BY <1>1, <2>3 DEF Modes, LinearPlaces
    <3> QED
      BY <2>3, <3>1 DEF Done, ColumnsOf
  <2> QED
    BY <2>1, <2>2, <2>3
<1>4. CASE p \in WithFE /\ k < ColumnsOf(f, p)
  <2>1. One(Cover(f.answers, p, k))
    BY <1>1, <1>3, <1>4 DEF Covers
  <2>2. PICK a : Cover(f.answers, p, k) = {a}
    BY <2>1 DEF One
  <2> QED
    BY <1>4, <2>2, FS_Singleton
<1>5. CASE ~(p \in WithFE /\ k < ColumnsOf(f, p))
  <2>1. ~(k < Done(f, p))
    BY <1>2, <1>3, <1>5
  <2>2. Cover(f.answers, p, k) = {}
    BY <1>1, <2>1 DEF Covers
  <2> QED
    BY <1>5, <2>2, FS_EmptySet
<1> QED
  BY <1>4, <1>5

-----------------------------------------------------------------------------
(* What the weighted calls keep.                                              *)

\* No call of the projector is under way at the solver.
Silent == serving[Caller] = NoService /\ report[Caller] = NoReport

LEMMA Unasked ==
  ASSUME PoolInv, fit.pc \notin Answering
  PROVE  Silent
BY DEF PoolInv, Answered, Silent

\* The tight tolerance is one, and none is tighter.
LEMMA TightIs ==
  ASSUME linear.tol \in Tols
  PROVE  Tight \in Tols /\ Tight \in Nat /\ linear.tol \in Nat /\ Tight <= linear.tol
<1>1. Tols \in SUBSET Nat /\ Tols # {}
  BY PoolAssumption
<1> DEFINE m == Min(Tols)
<1>2. m \in Tols /\ m \in Nat /\ linear.tol \in Nat /\ m <= linear.tol
  BY <1>1, LeastOf
<1> HIDE DEF m
<1>3. Min({linear.tol, m}) = IF linear.tol <= m THEN linear.tol ELSE m
  BY <1>2, MinOfTwo
<1> QED
  BY <1>2, <1>3 DEF Tight, m

LEMMA StepKeeps ==
  ASSUME PoolInv, UNCHANGED <<route, linear, others>>, ~linear.built,
         NEW f, FitInv(f), f.pc \in WeightedPlaces, fit' = f, outcome' = NoOutcome,
         held' \in Int, bound' \in BoundType, DOMAIN serving' = Clients, DOMAIN report' = Clients,
         f.pc \in BoundPlaces => BoundTo(bound', f),
         serving'[Caller] # NoService =>
           f.pc = "answer" /\ serving'[Caller] = [of |-> At(f), for |-> "block"],
         report'[Caller] = NoReport,
         f.pc = "scratch" => f.width + Lazy(At(f))' <= f.seen,
         Certified => \A a \in f.answers : a.ok
  PROVE  PoolInv'
<1>0. f.pc # "idle" /\ f.pc \notin LinearPlaces /\ f.pc # "linear_answer"
  BY DEF WeightedPlaces, LinearPlaces, Outside, Opening, Pooling, Lineary
<1>1. PoolTypes'
  BY DEF PoolInv, PoolTypes, BoundType
<1>2. FitInv(fit)'
  OBVIOUS
<1>3. BoundFor'
  BY DEF BoundFor
<1>4. Answered'
  BY DEF Answered, Answering
<1>5. Holdings'
  BY <1>0 DEF Holdings
<1>6. LinearSound'
  BY DEF LinearSound
<1>7. ScratchFits'
  BY DEF ScratchFits, Solver, At
<1>8. CertifiedConverged'
  BY DEF CertifiedConverged, Certified
<1>9. HonestReturn'
  BY DEF HonestReturn, Returns, NoOutcome
<1> QED
  BY <1>1, <1>2, <1>3, <1>4, <1>5, <1>6, <1>7, <1>8, <1>9 DEF PoolInv

LEMMA EndKeeps ==
  ASSUME PoolInv, UNCHANGED <<route, linear, others, bound>>, ~linear.built,
         fit' = NoFit, held' = 0, HonestReturn',
         DOMAIN serving' = Clients, DOMAIN report' = Clients, Silent'
  PROVE  PoolInv'
<1>0. NoFit.pc = "idle" /\ NoFit.answers = {}
  BY DEF NoFit
<1>1. PoolTypes'
  BY DEF PoolInv, PoolTypes
<1>2. FitInv(fit)'
  BY NoFitFits
<1>3. BoundFor'
  BY <1>0 DEF BoundFor, BoundPlaces, Pooling, Lineary
<1>4. Answered'
  BY DEF Answered, Silent
<1>5. Holdings'
  BY <1>0 DEF Holdings, WeightedPlaces, LinearPlaces, Outside, Opening, Pooling, Lineary
<1>6. LinearSound'
  BY DEF LinearSound
<1>7. ScratchFits'
  BY <1>0 DEF ScratchFits
<1>8. CertifiedConverged'
  BY <1>0 DEF CertifiedConverged
<1> QED
  BY <1>1, <1>2, <1>3, <1>4, <1>5, <1>6, <1>7, <1>8 DEF PoolInv

LEMMA FailKeeps ==
  ASSUME PoolInv, UNCHANGED <<route, linear, others, bound>>, ~linear.built,
         fit' = NoFit, held' = 0, outcome'.how # "returned",
         DOMAIN serving' = Clients, DOMAIN report' = Clients, Silent'
  PROVE  PoolInv'
<1>1. HonestReturn'
  BY DEF HonestReturn, Returns
<1> QED
  BY <1>1, EndKeeps

LEMMA ReserveKeeps ==
  ASSUME PoolInv, fit.pc \in WeightedPlaces, fit.pc \notin Answering, Quiet, UNCHANGED used,
         NEW n \in Int, NEW f, FitInv(f), f.pc \in WeightedPlaces,
         f.pc \notin {"scratch", "answer"}, Reserve(n, f),
         f.pc \in BoundPlaces => BoundTo(bound, f),
         f.answers = fit.answers
  PROVE  PoolInv'
<1>1. Silent /\ ~linear.built /\ fit.mode # "linear"
  BY Unasked DEF PoolInv, Holdings, FitInv, Modes, WeightedPlaces, Outside, Opening, Pooling
<1>2. held \in Int /\ bound \in BoundType /\ DOMAIN serving = Clients /\ DOMAIN report = Clients
  BY DEF PoolInv, PoolTypes, BoundType
<1>3. Certified => \A a \in f.answers : a.ok
  BY <1>1 DEF PoolInv, CertifiedConverged
<1>4. UNCHANGED <<route, linear, others, bound, serving, report>>
  BY DEF Reserve, Step, Quiet
<1>5. CASE n <= Unreserved
  <2>1. held' = held + n /\ fit' = f /\ outcome' = NoOutcome
    BY <1>5 DEF Reserve, Step
  <2>2. held' \in Int
    BY <1>2, <2>1
  <2>3. /\ serving'[Caller] = NoService /\ report'[Caller] = NoReport
        /\ bound' \in BoundType /\ DOMAIN serving' = Clients /\ DOMAIN report' = Clients
        /\ f.pc \in BoundPlaces => BoundTo(bound', f)
    BY <1>1, <1>2, <1>4 DEF Silent
  <2> QED
    BY <1>1, <1>3, <1>4, <2>1, <2>2, <2>3, StepKeeps
<1>6. CASE ~(n <= Unreserved)
  <2>1. held' = 0 /\ fit' = NoFit /\ outcome'.how # "returned"
    BY <1>6 DEF Reserve, NoOutcome
  <2>2. Silent' /\ DOMAIN serving' = Clients /\ DOMAIN report' = Clients
    BY <1>1, <1>2, <1>4 DEF Silent
  <2> QED
    BY <1>1, <1>4, <2>1, <2>2, FailKeeps
<1> QED
  BY <1>5, <1>6

\* Only the place changes.
LEMMA PlaceOnly ==
  ASSUME NEW f, FitInv(f), NEW x, <<f.pc, x>> \in Onward, x # "scratch",
         NEW g, g = [f EXCEPT !.pc = x]
  PROVE  /\ FitInv(g) /\ g.pc = x /\ g.answers = f.answers /\ g.mode = f.mode
         /\ At(g) = At(f) /\ g.weights = f.weights /\ g.tol = f.tol
<1>1. f \in FitType
  BY DEF FitInv
<1>2. x \in {"idle"} \cup WeightedPlaces \cup LinearPlaces
  BY DEF Onward, WeightedPlaces, LinearPlaces, Outside, Opening, Pooling, Lineary
<1>3. g \in FitType
  BY <1>1, <1>2 DEF FitType
<1>4. /\ g.pc = x /\ g.cols = f.cols /\ g.mode = f.mode /\ g.part = f.part /\ g.kind = f.kind
      /\ g.lo = f.lo /\ g.answers = f.answers /\ g.width = f.width
      /\ g.weights = f.weights /\ g.tol = f.tol
  BY <1>1 DEF FitType
<1>5. f.pc # "plan"
  BY DEF Onward
<1>6. FitInv(g)
  BY <1>3, <1>4, <1>5, OnwardFits
<1> QED
  BY <1>4, <1>6 DEF At

\* The outputs a block projector keeps live are finitely many.
LEMMA OutputsCount ==
  ASSUME PoolInv
  PROVE  Outputs \in Int
<1>1. IsFiniteSet(Parts) /\ Cardinality(Parts) \in Nat
  BY PoolAssumption, FS_CardinalityType
<1>2. \A p \in Parts : fit.cols[p] \in Nat
  BY DEF PoolInv, FitInv, FitType
<1>3. \A p \in Parts : Columns(p) \in Nat
  BY <1>2 DEF Columns
<1> PICK c : c = [p \in Parts |-> Columns(p)]
  OBVIOUS
<1>4. c \in [Parts -> Nat]
  BY <1>3
<1>5. Sum(c) \in Nat
  BY <1>1, <1>4, SumBounds
<1>6. Outputs = Sum(c) + IF fit.mode = "response" THEN Cardinality(Parts) + 2 ELSE 1
  BY DEF Outputs
<1> QED
  BY <1>1, <1>5, <1>6

LEMMA ReserveOutputsKeeps ==
  ASSUME PoolInv, ReserveOutputs
  PROVE  PoolInv'
<1> PICK f : f = fit
  OBVIOUS
<1> PICK g : g = [f EXCEPT !.pc = "part"]
  OBVIOUS
<1>1. fit.pc = "outputs" /\ Reserve(Outputs, g) /\ Quiet /\ UNCHANGED used
  BY DEF ReserveOutputs
<1>2. FitInv(f)
  BY DEF PoolInv
<1>3. <<f.pc, "part">> \in Onward
  BY <1>1 DEF Onward
<1>4. FitInv(g) /\ g.pc = "part" /\ g.answers = f.answers
  BY <1>2, <1>3, PlaceOnly
<1>5. /\ fit.pc \in WeightedPlaces /\ g.pc \in WeightedPlaces /\ fit.pc \notin Answering
      /\ g.pc \notin BoundPlaces
  BY <1>1, <1>4 DEF WeightedPlaces, Outside, Answering, BoundPlaces, Pooling, Lineary
<1>6. g.pc \notin {"scratch", "answer"}
  BY <1>4
<1> QED
  BY <1>1, <1>4, <1>5, <1>6, OutputsCount, ReserveKeeps

LEMMA BuildVariantKeeps ==
  ASSUME PoolInv, BuildVariant
  PROVE  PoolInv'
<1> PICK f : f = fit
  OBVIOUS
<1> PICK g : g = [f EXCEPT !.pc = "build"]
  OBVIOUS
<1>1. fit.pc = "prepare" /\ Reserve(BuildCost, g) /\ Quiet /\ UNCHANGED used
  BY DEF BuildVariant
<1>2. FitInv(f)
  BY DEF PoolInv
<1>3. <<f.pc, "build">> \in Onward
  BY <1>1 DEF Onward
<1>4. FitInv(g) /\ g.pc = "build" /\ g.answers = f.answers
  BY <1>2, <1>3, PlaceOnly
<1>5. /\ fit.pc \in WeightedPlaces /\ g.pc \in WeightedPlaces /\ fit.pc \notin Answering
      /\ g.pc \notin BoundPlaces
  BY <1>1, <1>4 DEF WeightedPlaces, Opening, Answering, BoundPlaces, Pooling, Lineary
<1>6. BuildCost \in Int /\ g.pc \notin {"scratch", "answer"}
  BY <1>4, PoolAssumption
<1> QED
  BY <1>1, <1>4, <1>5, <1>6, ReserveKeeps

LEMMA CopyColumnsKeeps ==
  ASSUME PoolInv, CopyColumns
  PROVE  PoolInv'
<1> PICK f : f = fit
  OBVIOUS
<1> PICK g : g = [f EXCEPT !.pc = "plan"]
  OBVIOUS
<1>1. fit.pc = "copy" /\ Reserve(fit.copy, g) /\ Quiet /\ UNCHANGED used
  BY DEF CopyColumns
<1>2. FitInv(f)
  BY DEF PoolInv
<1>3. <<f.pc, "plan">> \in Onward
  BY <1>1 DEF Onward
<1>4. FitInv(g) /\ g.pc = "plan" /\ g.answers = f.answers /\ At(g) = At(f) /\ g.weights = f.weights /\ g.tol = f.tol
  BY <1>2, <1>3, PlaceOnly
<1>5. /\ fit.pc \in WeightedPlaces /\ g.pc \in WeightedPlaces /\ fit.pc \notin Answering
      /\ fit.pc \in BoundPlaces
  BY <1>1, <1>4 DEF WeightedPlaces, Opening, Answering, BoundPlaces, Pooling, Lineary
<1>6. fit.copy \in Int /\ g.pc \notin {"scratch", "answer"}
  BY <1>2, <1>4 DEF FitInv, FitType
<1>7. BoundTo(bound, g)
  BY <1>4, <1>5 DEF PoolInv, BoundFor, BoundTo, At, Solver
<1> QED
  BY <1>1, <1>4, <1>5, <1>6, <1>7, ReserveKeeps

LEMMA StartKeeps ==
  ASSUME PoolInv, NEW mode \in {"weighted", "design", "response"}, NEW cols \in BlockWidths,
         NEW w \in Weights, NEW t \in CallTols, NEW copy \in BOOLEAN, Start(mode, cols, w, t, copy)
  PROVE  PoolInv'
<1> DEFINE n == IF copy /\ mode = "weighted" THEN cols[Min(WithFE)] ELSE 0
           x == IF mode = "weighted" THEN "part" ELSE "outputs"
<1> PICK g : g = [NoFit EXCEPT !.mode = mode, !.cols = cols, !.weights = w, !.tol = t,
                               !.copy = n, !.pc = x]
  OBVIOUS
<1>1. fit.pc = "idle" /\ ~linear.built /\ Step(g) /\ Quiet /\ UNCHANGED <<held, used>>
  BY DEF Start
<1>2. cols \in [Parts -> Nat] /\ n \in Nat /\ t \in PoolTols
  BY FirstPart, PoolAssumption DEF BlockWidths, PoolTols
<1>3. /\ g.pc = x /\ g.mode = mode /\ g.cols = cols /\ g.answers = {} /\ g.lo = 0 /\ g.part = 0
      /\ g.weights = w /\ g.tol = t
  BY DEF NoFit
<1>4. x \in Outside /\ x \in WeightedPlaces /\ x # "idle"
  BY DEF Outside, WeightedPlaces
<1>5. NoFit \in FitType
  BY NoFitFits DEF FitInv
<1>6. g \in FitType
  <2> HIDE DEF n, x
  <2> QED
    BY <1>2, <1>4, <1>5 DEF FitType
<1>7. Lows(g)
  BY <1>3, <1>4 DEF Lows, Outside, Opening, Pooling, Lineary
<1>8. Modes(g)
  BY <1>3, <1>4 DEF Modes, Outside, LinearPlaces, Opening, Pooling, Lineary
<1>9. FitInv(g)
  <2>1. \A p \in Parts : ~(p < g.part)
    BY <1>3, PoolAssumption
  <2> HIDE DEF n, x
  <2> QED
    BY <1>3, <1>4, <1>6, <1>7, <1>8, <2>1, FreshFit
<1>10. Silent
  BY <1>1, Unasked DEF Answering
<1>11. /\ held' \in Int /\ bound' \in BoundType /\ DOMAIN serving' = Clients /\ DOMAIN report' = Clients
       /\ UNCHANGED <<route, linear, others>> /\ fit' = g /\ outcome' = NoOutcome
       /\ serving'[Caller] = NoService /\ report'[Caller] = NoReport
  BY <1>1, <1>10 DEF PoolInv, PoolTypes, BoundType, Step, Quiet, Silent
<1>12. g.pc \in WeightedPlaces /\ g.pc \notin BoundPlaces /\ g.pc # "scratch"
  BY <1>3, <1>4 DEF Outside, BoundPlaces, Pooling, Lineary
<1> QED
  BY <1>1, <1>3, <1>9, <1>11, <1>12, StepKeeps

\* The fields that the next part sets.
LEMMA PartFit ==
  ASSUME NEW f \in FitType, NEW p \in Nat, NEW k \in Kinds, NEW x \in WeightedPlaces
  PROVE  [f EXCEPT !.part = p, !.kind = k, !.lo = 0, !.pc = x] \in FitType
  BY DEF FitType

LEMMA KindIs ==
  ASSUME NEW p, NEW w
  PROVE  Kind(p, w) \in Kinds
BY DEF Kind, Kinds

LEMMA NextPartKeeps ==
  ASSUME PoolInv, NextPart
  PROVE  PoolInv'
<1> PICK f : f = fit
  OBVIOUS
<1> PICK p : p = Min(Later(f.part))
  OBVIOUS
<1> DEFINE x == IF PassesThrough(p) THEN "part" ELSE "prepare"
<1> PICK g : g = [f EXCEPT !.part = p, !.kind = Kind(p, f.weights), !.lo = 0, !.pc = x]
  OBVIOUS
<1>1. fit.pc = "part" /\ Later(fit.part) # {} /\ Step(g) /\ Quiet /\ UNCHANGED <<held, used>>
  BY DEF NextPart
<1>2. FitInv(f) /\ f \in FitType
  BY DEF PoolInv, FitInv
<1>3. p \in Later(f.part) /\ \A q \in Later(f.part) : p <= q
  <2>1. Later(f.part) \in SUBSET Nat
    BY PoolAssumption DEF Later
  <2> QED
    BY <1>1, <2>1, LeastOf
<1>4. p \in Parts /\ p > f.part /\ \A q \in Parts : q > f.part => p <= q
  BY <1>3 DEF Later
<1>5. x = IF p \notin WithFE \/ ColumnsOf(f, p) = 0 THEN "part" ELSE "prepare"
  BY DEF PassesThrough, Columns, ColumnsOf
<1>6. x \in {"part", "prepare"}
  OBVIOUS
<1>7. p \in Nat /\ Kind(p, f.weights) \in Kinds
  BY <1>4, KindIs, PoolAssumption
<1> HIDE DEF x
<1>8. g \in FitType
  <2>1. f \in FitType
    BY <1>2
  <2>2. x \in WeightedPlaces
    BY <1>6 DEF WeightedPlaces, Outside, Opening
  <2> QED
    BY <1>7, <2>1, <2>2, PartFit
<1>9. /\ g.pc = x /\ g.cols = f.cols /\ g.mode = f.mode /\ g.answers = f.answers /\ g.part = p
      /\ g.lo = 0 /\ g.kind = Kind(p, f.weights)
  BY <1>2 DEF FitType
<1>10. FitInv(g)
  <2>1. f.pc = "part" /\ g.kind \in Kinds
    BY <1>1, <1>7, <1>9
  <2>2. g.pc = IF p \notin WithFE \/ ColumnsOf(f, p) = 0 THEN "part" ELSE "prepare"
    BY <1>5, <1>9
  <2>3. p \in Parts /\ p > f.part /\ \A q \in Parts : q > f.part => p <= q
    BY <1>4
  <2>4. g.cols = f.cols /\ g.mode = f.mode /\ g.answers = f.answers /\ g.part = p /\ g.lo = 0
    BY <1>9
  <2> QED
    BY ONLY <1>2, <1>8, <2>1, <2>2, <2>3, <2>4, NextPartFits
<1>11. Silent /\ ~linear.built /\ fit.mode # "linear"
  BY <1>1, Unasked DEF PoolInv, Holdings, FitInv, Modes, WeightedPlaces, Outside, Answering
<1>12. Certified => \A a \in g.answers : a.ok
  BY <1>9, <1>11 DEF PoolInv, CertifiedConverged
<1>13. /\ held' \in Int /\ bound' \in BoundType /\ DOMAIN serving' = Clients /\ DOMAIN report' = Clients
       /\ UNCHANGED <<route, linear, others>> /\ fit' = g /\ outcome' = NoOutcome
       /\ serving'[Caller] = NoService /\ report'[Caller] = NoReport
  BY <1>1, <1>11 DEF PoolInv, PoolTypes, BoundType, Step, Quiet, Silent
<1>14. g.pc \in WeightedPlaces /\ g.pc \notin BoundPlaces /\ g.pc # "scratch"
  BY <1>6, <1>9 DEF Outside, BoundPlaces, Pooling, Lineary, WeightedPlaces, Opening
<1> QED
  BY <1>10, <1>11, <1>12, <1>13, <1>14, StepKeeps

\* Binding the solver in use to what the call asks for.
LEMMA BindKeepsType ==
  ASSUME bound \in BoundType, NEW o \in Solvers, NEW w \in Weights \cup {"none"}, NEW t \in PoolTols,
         BindTo(o, w, t)
  PROVE  /\ bound' \in BoundType /\ bound'[o].weights = w /\ bound'[o].tol = t
         /\ bound'[o].kept \in {0, t} /\ UNCHANGED <<serving, report>>
<1>1. PICK k \in {0, t} : bound' = [bound EXCEPT ![o] = [weights |-> w, tol |-> t, kept |-> k]]
  BY DEF BindTo
<1>2. UNCHANGED <<serving, report>> /\ 0 \in PoolTols
  BY DEF BindTo, PoolTols
<1> QED
  BY <1>1, <1>2 DEF BoundType

\* Assigning a tolerance touches nothing else.
LEMMA AssignKeepsType ==
  ASSUME bound \in BoundType, NEW o \in Solvers, NEW t \in PoolTols, AssignTol(o, t)
  PROVE  /\ bound' \in BoundType /\ bound'[o].weights = bound[o].weights /\ bound'[o].tol = t
         /\ bound'[o].kept = bound[o].kept /\ UNCHANGED <<serving, report>>
BY DEF AssignTol, BoundType

LEMMA SolverIs ==
  ASSUME PoolInv, fit.pc \in Opening \cup Pooling \cup Lineary
  PROVE  Solver \in Solvers
<1>1. fit.part \in WithFE /\ fit.kind \in Kinds
  BY FirstPart DEF PoolInv, FitInv, Lows, Modes, Opening, Pooling, Lineary, LinearPlaces, LinearSolver, Kinds
<1> QED
  BY <1>1, PoolAssumption DEF Solver

LEMMA CopyBegins ==
  ASSUME PoolInv, fit.pc \in {"prepare", "build"}, BindTo(Solver, fit.weights, fit.tol),
         Step([fit EXCEPT !.pc = "copy"]), held' \in Int, UNCHANGED used
  PROVE  PoolInv'
<1> PICK f : f = fit
  OBVIOUS
<1> PICK g : g = [f EXCEPT !.pc = "copy"]
  OBVIOUS
<1>1. FitInv(f) /\ f \in FitType
  BY DEF PoolInv, FitInv
<1>2. FitInv(g) /\ g.pc = "copy" /\ g.answers = f.answers /\ At(g) = At(f) /\ g.weights = f.weights /\ g.tol = f.tol
  <2>1. <<f.pc, "copy">> \in Onward
    BY DEF Onward
  <2> QED
    BY <1>1, <2>1, PlaceOnly
<1>3. Silent /\ ~linear.built /\ fit.mode # "linear"
  BY Unasked DEF PoolInv, Holdings, FitInv, Modes, WeightedPlaces, Opening, Answering
<1>4. Certified => \A a \in g.answers : a.ok
  BY <1>2, <1>3 DEF PoolInv, CertifiedConverged
<1>5. bound' \in BoundType /\ BoundTo(bound', g) /\ UNCHANGED <<serving, report>>
  <2>1. bound \in BoundType /\ f.weights \in Weights \cup {"none"} /\ f.tol \in PoolTols
    BY <1>1 DEF PoolInv, PoolTypes, BoundType, FitType
  <2>2. Solver \in Solvers /\ Solver = At(f)
    BY SolverIs DEF Opening, Solver, At
  <2> QED
    BY <1>2, <2>1, <2>2, BindKeepsType DEF BoundTo
<1>6. /\ DOMAIN serving' = Clients /\ DOMAIN report' = Clients
      /\ UNCHANGED <<route, linear, others>> /\ fit' = g /\ outcome' = NoOutcome
      /\ serving'[Caller] = NoService /\ report'[Caller] = NoReport
  BY <1>3, <1>5 DEF PoolInv, PoolTypes, Step, Silent
<1>7. g.pc \in WeightedPlaces /\ g.pc # "scratch"
  BY <1>2 DEF WeightedPlaces, Opening
<1> QED
  BY <1>2, <1>3, <1>4, <1>5, <1>6, <1>7, StepKeeps

LEMMA BuiltKeeps ==
  ASSUME PoolInv, Built \/ Reweight
  PROVE  PoolInv'
<1>1. held \in Int /\ BuildCost \in Int
  BY PoolAssumption DEF PoolInv, PoolTypes
<1>2. held' \in Int
  BY <1>1 DEF Built, Reweight
<1> QED
  BY <1>2, CopyBegins DEF Built, Reweight, Rebind

LEMMA LazyIs ==
  ASSUME NEW o
  PROVE  Lazy(o) \in Nat
BY PoolAssumption DEF Lazy

LEMMA PlanPoolKeeps ==
  ASSUME PoolInv, PlanPool
  PROVE  PoolInv'
<1> PICK f : f = fit
  OBVIOUS
<1> PICK pool : pool = WorkspacePool(Columns(f.part), AutoSize)
  OBVIOUS
<1> PICK width : width = SharedPool(pool, Room(Solver))
  OBVIOUS
<1> PICK g : g = [f EXCEPT !.pc = "scratch", !.width = width, !.seen = Unreserved]
  OBVIOUS
<1>1. fit.pc = "plan" /\ Quiet /\ UNCHANGED used
  BY DEF PlanPool
<1>2. IF pool = 0 \/ width = 0 THEN Fails("memory") ELSE Step(g) /\ UNCHANGED held
  BY Zenon DEF PlanPool
<1>3. FitInv(f) /\ f \in FitType
  BY DEF PoolInv, FitInv
<1>4. Silent /\ ~linear.built /\ fit.mode # "linear"
  BY <1>1, Unasked DEF PoolInv, Holdings, FitInv, Modes, WeightedPlaces, Opening, Answering
<1>5. DOMAIN serving' = Clients /\ DOMAIN report' = Clients /\ Silent' /\ bound' \in BoundType
      /\ UNCHANGED <<bound, serving, report>>
  BY <1>1, <1>4 DEF PoolInv, PoolTypes, Quiet, Silent, BoundType
<1>6. CASE pool = 0 \/ width = 0
  <2>1. Fails("memory")
    BY <1>2, <1>6
  <2>2. fit' = NoFit /\ held' = 0 /\ outcome'.how # "returned" /\ UNCHANGED <<route, linear, others>>
    BY <2>1 DEF Fails, NoOutcome
  <2> QED
    BY <1>4, <1>5, <2>2, FailKeeps
<1>7. CASE ~(pool = 0 \/ width = 0)
  <2>1. Step(g) /\ UNCHANGED held
    BY <1>2, <1>7
  <2>2. Unreserved \in Int /\ Lazy(Solver) \in Nat
    BY LazyIs, PoolAssumption DEF PoolInv, PoolTypes, Unreserved
  <2>3. Room(Solver) \in Int /\ Room(Solver) + Lazy(Solver) = Unreserved
    BY <2>2 DEF Room
  <2>4. pool \in Nat
    <3>1. Columns(f.part) = ColumnsOf(f, f.part)
      BY DEF Columns, ColumnsOf
    <3>2. f.part \in Parts /\ ColumnsOf(f, f.part) > 0
      BY <1>1, <1>3, PoolAssumption DEF FitInv, Lows, Opening
    <3>3. ColumnsOf(f, f.part) \in Nat
      BY <1>3, <3>2 DEF ColumnsOf, FitType
    <3> QED
      BY <3>1, <3>2, <3>3, PoolWidth DEF AutoSize
  <2>5. width \in Nat /\ width > 0 /\ width <= Room(Solver)
    BY <1>7, <2>3, <2>4, SharedFits
  <2>6. g \in FitType
    BY <1>3, <2>2, <2>5 DEF FitType, WeightedPlaces, Opening
  <2>7. /\ g.pc = "scratch" /\ g.cols = f.cols /\ g.mode = f.mode /\ g.part = f.part /\ g.kind = f.kind
        /\ g.lo = f.lo /\ g.answers = f.answers /\ g.width = width /\ g.seen = Unreserved
        /\ g.weights = f.weights /\ g.tol = f.tol
    BY <1>3 DEF FitType
  <2>8. FitInv(g)
    <3>1. <<f.pc, g.pc>> \in Onward
      BY <1>1, <2>7 DEF Onward
    <3>2. f.pc = "plan" /\ g.width > 0
      BY <1>1, <2>5, <2>7
    <3> QED
      BY ONLY <1>3, <2>6, <2>7, <3>1, <3>2, OnwardFits
  <2>9. Certified => \A a \in g.answers : a.ok
    BY <1>4, <2>7 DEF PoolInv, CertifiedConverged
  <2>10. At(g) = At(f) /\ At(f) = Solver /\ BoundTo(bound, f)
    BY <1>1, <2>7 DEF At, Solver, PoolInv, BoundFor, BoundTo, BoundPlaces
  <2>11. BoundTo(bound', g)
    BY <1>5, <2>7, <2>10 DEF BoundTo
  <2>12. g.width + Lazy(At(g))' <= g.seen
    <3>1. Lazy(At(g))' = Lazy(Solver)
      BY <1>1, <2>10 DEF Lazy
    <3> QED
      BY <2>2, <2>3, <2>5, <2>7, <3>1
  <2>13. /\ held' \in Int /\ UNCHANGED <<route, linear, others>> /\ fit' = g /\ outcome' = NoOutcome
         /\ serving'[Caller] = NoService /\ report'[Caller] = NoReport /\ g.pc \in WeightedPlaces
    BY <1>5, <2>1, <2>7 DEF PoolInv, PoolTypes, Step, Silent, WeightedPlaces, Opening
  <2> QED
    BY <1>4, <1>5, <2>8, <2>9, <2>11, <2>12, <2>13, StepKeeps
<1> QED
  BY <1>6, <1>7

LEMMA ReserveScratchKeeps ==
  ASSUME PoolInv, ReserveScratch
  PROVE  PoolInv'
<1> PICK f : f = fit
  OBVIOUS
<1> PICK n : n = fit.width + Lazy(Solver)
  OBVIOUS
<1> PICK c : c = fit.copy + fit.width + Lazy(Solver)
  OBVIOUS
<1> PICK g : g = [f EXCEPT !.pc = "pool", !.claim = c]
  OBVIOUS
<1>1. fit.pc = "scratch" /\ Reserve(n, g) /\ Quiet /\ UNCHANGED used
  BY DEF ReserveScratch
<1>2. FitInv(f) /\ f \in FitType
  BY DEF PoolInv, FitInv
<1>3. n \in Int /\ c \in Nat
  BY <1>2, LazyIs DEF FitType
<1>4. g \in FitType
  BY <1>2, <1>3 DEF FitType, WeightedPlaces, Pooling
<1>5. /\ g.pc = "pool" /\ g.cols = f.cols /\ g.mode = f.mode /\ g.part = f.part /\ g.kind = f.kind
      /\ g.lo = f.lo /\ g.answers = f.answers /\ g.width = f.width
      /\ g.weights = f.weights /\ g.tol = f.tol
  BY <1>2 DEF FitType
<1>6. FitInv(g)
  <2>1. <<f.pc, g.pc>> \in Onward /\ f.pc # "plan"
    BY <1>1, <1>5 DEF Onward
  <2> QED
    BY ONLY <1>2, <1>4, <1>5, <2>1, OnwardFits
<1>7. /\ fit.pc \in WeightedPlaces /\ g.pc \in WeightedPlaces /\ fit.pc \notin Answering
      /\ fit.pc \in BoundPlaces /\ g.pc \notin {"scratch", "answer"}
  BY <1>1, <1>5 DEF WeightedPlaces, Opening, Answering, BoundPlaces, Pooling, Lineary
<1>8. BoundTo(bound, g)
  BY <1>5, <1>7 DEF PoolInv, BoundFor, BoundTo, At, Solver
<1> QED
  BY <1>1, <1>3, <1>5, <1>6, <1>7, <1>8, ReserveKeeps

LEMMA CallerIs == Caller \in Clients
BY PoolAssumption

LEMMA AskPoolKeeps ==
  ASSUME PoolInv, AskPool
  PROVE  PoolInv'
<1> PICK f : f = fit
  OBVIOUS
<1> PICK g : g = [f EXCEPT !.pc = "answer"]
  OBVIOUS
<1>1. fit.pc = "pool" /\ Ask(Caller, Solver, "block") /\ Step(g) /\ UNCHANGED held
  BY DEF AskPool
<1>2. FitInv(f)
  BY DEF PoolInv
<1>3. FitInv(g) /\ g.pc = "answer" /\ g.answers = f.answers /\ At(g) = At(f) /\ g.weights = f.weights /\ g.tol = f.tol
  <2>1. <<f.pc, "answer">> \in Onward
    BY <1>1 DEF Onward
  <2> QED
    BY <1>2, <2>1, PlaceOnly
<1>4. Silent /\ ~linear.built /\ fit.mode # "linear"
  BY <1>1, Unasked DEF PoolInv, Holdings, FitInv, Modes, WeightedPlaces, Pooling, Answering
<1>5. Certified => \A a \in g.answers : a.ok
  BY <1>3, <1>4 DEF PoolInv, CertifiedConverged
<1>6. /\ serving'[Caller] = [of |-> At(g), for |-> "block"] /\ DOMAIN serving' = Clients /\ DOMAIN report' = Clients
      /\ report'[Caller] = NoReport /\ UNCHANGED bound
  BY <1>1, <1>3, <1>4, CallerIs DEF Ask, PoolInv, PoolTypes, Silent, At, Solver
<1>7. BoundTo(bound', g) /\ bound' \in BoundType
  BY <1>1, <1>3, <1>6 DEF PoolInv, PoolTypes, BoundType, BoundFor, BoundTo, At, Solver, BoundPlaces, Pooling
<1>8. /\ held' \in Int /\ UNCHANGED <<route, linear, others>> /\ fit' = g /\ outcome' = NoOutcome
  BY <1>1 DEF PoolInv, PoolTypes, Step
<1>9. g.pc \in WeightedPlaces /\ g.pc # "scratch"
  BY <1>3 DEF WeightedPlaces, Pooling
<1> QED
  BY <1>3, <1>4, <1>5, <1>6, <1>7, <1>8, <1>9, StepKeeps

\* The answer in hand, as it is recorded.
LEMMA AnswerIs ==
  ASSUME PoolInv, fit.pc \in Answering, report[Caller] # NoReport,
         NEW n, n = Columns(fit.part), NEW a, a = AnswerOf(report[Caller], n)
  PROVE  /\ a \in AnswerType /\ a.part = fit.part /\ a.lo = fit.lo
         /\ a.hi = IF n <= fit.lo + fit.width THEN n ELSE fit.lo + fit.width
         /\ a.hi = Upto(n) /\ n = ColumnsOf(fit, fit.part) /\ n \in Nat
         /\ a.ok = report[Caller].converged
<1>1. fit \in FitType /\ fit.part \in Parts /\ Lows(fit)
  BY PoolAssumption DEF PoolInv, FitInv, Lows, Answering, Pooling, Lineary
<1>2. n = ColumnsOf(fit, fit.part) /\ n \in Nat /\ fit.lo \in Nat /\ fit.width \in Nat /\ fit.part \in Nat
  BY <1>1 DEF Columns, ColumnsOf, FitType
<1>3. Upto(n) = IF n <= fit.lo + fit.width THEN n ELSE fit.lo + fit.width
  <2>1. n \in Int /\ fit.lo + fit.width \in Int
    BY <1>2
  <2> QED
    BY <2>1, MinOfTwo DEF Upto
<1>4. /\ a.part = fit.part /\ a.lo = fit.lo /\ a.hi = Upto(n) /\ a.ok = report[Caller].converged
      /\ a.it = report[Caller].iterations
  BY DEF AnswerOf
<1>5. report[Caller].converged \in BOOLEAN /\ report[Caller].iterations \in 0..MaxIter
  BY DEF PoolInv, Answered
<1>6. a = [part |-> a.part, lo |-> a.lo, hi |-> a.hi, ok |-> a.ok, it |-> a.it]
  BY DEF AnswerOf
<1>7. a \in AnswerType
  BY <1>2, <1>3, <1>4, <1>5, <1>6 DEF AnswerType
<1> QED
  BY <1>2, <1>3, <1>4, <1>7

LEMMA TakeAnswerKeeps ==
  ASSUME PoolInv, TakeAnswer
  PROVE  PoolInv'
<1> PICK f : f = fit
  OBVIOUS
<1> PICK r : r = report[Caller]
  OBVIOUS
<1> PICK n : n = Columns(f.part)
  OBVIOUS
<1> PICK a : a = AnswerOf(r, n)
  OBVIOUS
<1> PICK x : x = IF a.hi < n THEN "pool" ELSE "part_done"
  OBVIOUS
<1> PICK g : g = [f EXCEPT !.answers = f.answers \cup {a}, !.lo = a.hi, !.pc = x]
  OBVIOUS
<1>1. fit.pc = "answer" /\ report[Caller] # NoReport /\ Collect(Caller) /\ UNCHANGED used
  BY DEF TakeAnswer
<1>2. fit.pc \in Answering
  BY <1>1 DEF Answering
<1>3. /\ a \in AnswerType /\ a.part = f.part /\ a.lo = f.lo
      /\ a.hi = IF n <= f.lo + f.width THEN n ELSE f.lo + f.width
      /\ a.hi = Upto(n) /\ n = ColumnsOf(f, f.part) /\ n \in Nat /\ a.ok = r.converged
  BY <1>1, <1>2, AnswerIs
<1>4. FitInv(f) /\ f \in FitType /\ ~linear.built /\ fit.mode # "linear"
  BY <1>1 DEF PoolInv, FitInv, Holdings, Modes, WeightedPlaces, Pooling
<1>5. /\ serving'[Caller] = NoService /\ report'[Caller] = NoReport /\ Silent'
      /\ DOMAIN serving' = Clients /\ DOMAIN report' = Clients
      /\ bound' \in BoundType /\ UNCHANGED bound
  BY <1>1, CallerIs DEF Collect, PoolInv, PoolTypes, Answered, Silent, BoundType
<1>6. CASE ~Acceptable(r)
  <2>1. Fails("convergence")
    BY <1>6 DEF TakeAnswer
  <2>2. fit' = NoFit /\ held' = 0 /\ outcome'.how # "returned" /\ UNCHANGED <<route, linear, others>>
    BY <2>1 DEF Fails, NoOutcome
  <2> QED
    BY <1>4, <1>5, <2>2, FailKeeps
<1>7. CASE Acceptable(r)
  <2>1. Step([fit EXCEPT !.answers = @ \cup {AnswerOf(r, n)}, !.lo = Upto(n),
                         !.pc = IF Upto(n) < n THEN "pool" ELSE "part_done"]) /\ UNCHANGED held
    BY <1>7 DEF TakeAnswer
  <2>2. [fit EXCEPT !.answers = @ \cup {AnswerOf(r, n)}, !.lo = Upto(n),
                    !.pc = IF Upto(n) < n THEN "pool" ELSE "part_done"] = g
    BY <1>3
  <2>3. Step(g) /\ UNCHANGED held
    BY <2>1, <2>2
  <2>4. x \in {"pool", "part_done"} /\ a.hi \in Nat
    BY <1>3 DEF AnswerType
  <2>5. g \in FitType
    BY <1>3, <1>4, <2>4 DEF FitType, WeightedPlaces, Pooling
  <2>6. /\ g.pc = x /\ g.cols = f.cols /\ g.mode = f.mode /\ g.part = f.part /\ g.kind = f.kind
        /\ g.lo = a.hi /\ g.answers = f.answers \cup {a} /\ g.width = f.width
        /\ g.weights = f.weights /\ g.tol = f.tol
    BY <1>4 DEF FitType
  <2>7. FitInv(g)
    <3>1. g.pc = IF f.pc = "answer" THEN IF a.hi < n THEN "pool" ELSE "part_done"
                 ELSE IF a.hi < n THEN "linear_pool" ELSE "linear_done"
      BY <1>1, <2>6
    <3>2. f.pc \in Answering
      BY <1>2
    <3> QED
      BY ONLY <1>3, <1>4, <2>5, <2>6, <3>1, <3>2, AnswerFits
  <2>8. Certified => \A b \in g.answers : b.ok
    BY <1>3, <1>4, <1>7, <2>6 DEF PoolInv, CertifiedConverged, Acceptable
  <2>9. g.pc \in BoundPlaces => BoundTo(bound', g)
    <3>1. At(g) = At(f) /\ At(f) = Solver /\ BoundTo(bound, f)
      BY <1>1, <2>6 DEF At, Solver, PoolInv, BoundFor, BoundTo, BoundPlaces, Pooling
    <3> QED
      BY <1>5, <2>6, <3>1 DEF BoundTo
  <2>10. /\ held' \in Int /\ UNCHANGED <<route, linear, others>> /\ fit' = g /\ outcome' = NoOutcome
    BY <2>3 DEF PoolInv, PoolTypes, Step
  <2>11. g.pc \in WeightedPlaces /\ g.pc # "scratch"
    BY <2>4, <2>6 DEF WeightedPlaces, Pooling
  <2> QED
    BY <1>4, <1>5, <2>7, <2>8, <2>9, <2>10, <2>11, StepKeeps
<1> QED
  BY <1>6, <1>7

LEMMA PartDoneKeeps ==
  ASSUME PoolInv, PartDone
  PROVE  PoolInv'
<1> PICK f : f = fit
  OBVIOUS
<1> PICK g : g = [f EXCEPT !.pc = "part", !.claim = 0]
  OBVIOUS
<1>1. fit.pc = "part_done" /\ held' = held - fit.claim /\ Step(g) /\ Quiet /\ UNCHANGED used
  BY DEF PartDone
<1>2. FitInv(f) /\ f \in FitType
  BY DEF PoolInv, FitInv
<1>3. g \in FitType
  BY <1>2 DEF FitType, WeightedPlaces, Outside
<1>4. /\ g.pc = "part" /\ g.cols = f.cols /\ g.mode = f.mode /\ g.part = f.part /\ g.kind = f.kind
      /\ g.lo = f.lo /\ g.answers = f.answers /\ g.width = f.width
  BY <1>2 DEF FitType
<1>5. FitInv(g)
  <2>1. <<f.pc, g.pc>> \in Onward /\ f.pc # "plan"
    BY <1>1, <1>4 DEF Onward
  <2> QED
    BY ONLY <1>2, <1>3, <1>4, <2>1, OnwardFits
<1>6. Silent /\ ~linear.built /\ fit.mode # "linear"
  BY <1>1, Unasked DEF PoolInv, Holdings, FitInv, Modes, WeightedPlaces, Answering
<1>7. Certified => \A a \in g.answers : a.ok
  BY <1>4, <1>6 DEF PoolInv, CertifiedConverged
<1>8. /\ held' \in Int /\ bound' \in BoundType /\ DOMAIN serving' = Clients /\ DOMAIN report' = Clients
      /\ UNCHANGED <<route, linear, others>> /\ fit' = g /\ outcome' = NoOutcome
      /\ serving'[Caller] = NoService /\ report'[Caller] = NoReport
  BY <1>1, <1>2, <1>6 DEF PoolInv, PoolTypes, BoundType, Step, Quiet, Silent, FitType
<1>9. g.pc \in WeightedPlaces /\ g.pc \notin BoundPlaces /\ g.pc # "scratch"
  BY <1>4 DEF Outside, BoundPlaces, Pooling, Lineary, WeightedPlaces
<1> QED
  BY <1>5, <1>6, <1>7, <1>8, <1>9, StepKeeps

\* What a call reports of its answers.
LEMMA ReportedIs ==
  ASSUME PoolInv, fit.mode # "design"
  PROVE  /\ Reported.ok <=> \A a \in fit.answers : a.ok
         /\ Reported.ok => \A a \in fit.answers : a.it <= Reported.it
<1>1. IsFiniteSet(fit.answers) /\ fit.answers \in SUBSET AnswerType
  BY DEF PoolInv, FitInv, FitType
<1>2. CASE fit.answers = {}
  BY <1>2 DEF Reported
<1>3. CASE fit.answers # {}
  <2>1. IsFiniteSet(PartsRun)
    <3> DEFINE F == [a \in fit.answers |-> a.part]
    <3>1. F \in Surjection(fit.answers, PartsRun)
      BY DEF Surjection, PartsRun
    <3> QED
      BY <1>1, <3>1, FS_Surjection
  <2>2. \A p \in PartsRun : PartInfos(p) \in SUBSET AnswerType /\ PartInfos(p) # {}
    BY <1>1 DEF PartsRun, PartInfos
  <2>3. ASSUME NEW p \in PartsRun
        PROVE  /\ Worst(PartInfos(p)) \in PartInfos(p)
               /\ Worst(PartInfos(p)).ok <=> \A a \in PartInfos(p) : a.ok
               /\ Worst(PartInfos(p)).ok => \A a \in PartInfos(p) : a.it <= Worst(PartInfos(p)).it
    BY <2>2, WorstIs
  <2>4. \A p \in PartsRun : Worst(PartInfos(p)).it \in Nat
    <3>1. \A a \in AnswerType : a.it \in Nat
      BY PoolAssumption DEF AnswerType
    <3> QED
      BY <2>2, <2>3, <3>1
  <2> PICK s : s = [p \in PartsRun |-> Worst(PartInfos(p)).it]
    OBVIOUS
  <2>5. s \in [PartsRun -> Nat] /\ \A p \in PartsRun : s[p] = Worst(PartInfos(p)).it
    BY <2>4
  <2>6. Sum(s) \in Nat /\ \A p \in PartsRun : s[p] <= Sum(s)
    BY <2>1, <2>5, SumBounds
  <2>7. Reported.ok = (\A p \in PartsRun : Worst(PartInfos(p)).ok) /\ Reported.it = Sum(s)
    BY <1>3 DEF Reported
  <2>8. \A a \in fit.answers : a.part \in PartsRun /\ a \in PartInfos(a.part)
    BY DEF PartsRun, PartInfos
  <2>9. \A p \in PartsRun : PartInfos(p) \subseteq fit.answers
    BY DEF PartInfos
  <2>10. Reported.ok <=> \A a \in fit.answers : a.ok
    BY <2>3, <2>7, <2>8, <2>9
  <2>11. ASSUME Reported.ok, NEW a \in fit.answers
         PROVE  a.it <= Reported.it
    <3> PICK p : p = a.part
      OBVIOUS
    <3>1. p \in PartsRun /\ a.it <= s[p] /\ s[p] <= Sum(s)
      BY <2>3, <2>5, <2>6, <2>7, <2>8, <2>11
    <3>2. a.it \in Nat /\ s[p] \in Nat
      BY <1>1, <2>5, <3>1, PoolAssumption DEF AnswerType
    <3> QED
      BY <2>6, <2>7, <3>1, <3>2
  <2> QED
    BY <2>10, <2>11
<1> QED
  BY <1>2, <1>3

\* What a call returns of its record.
Once(f) == \A p \in Parts :
             LET run == {a \in f.answers : a.part = p}
                 n == f.cols[p] + IF f.mode = "response" THEN 1 ELSE 0
             IN \A k \in 0..(MaxColumns + 1) :
                  Cardinality({a \in run : a.lo <= k /\ k < a.hi}) = IF p \in WithFE /\ k < n THEN 1 ELSE 0

LEMMA ReturnIsHonest ==
  ASSUME NEW f, FitInv(f),
         \/ f.pc = "part" /\ \A p \in Parts : ~(p > f.part)
         \/ f.pc = "linear_done",
         NEW conv, NEW iters, outcome' = [how |-> "returned", ok |-> conv, it |-> iters, of |-> f],
         f.mode # "design" => /\ conv <=> \A a \in f.answers : a.ok
                              /\ conv => \A a \in f.answers : a.it <= iters,
         Certified' /\ f.mode # "linear" => \A a \in f.answers : a.ok
  PROVE  HonestReturn'
<1>1. outcome'.of = f /\ outcome'.ok = conv /\ outcome'.it = iters
  OBVIOUS
<1>2. EachColumnOnce'
  <2>1. MaxColumns \in Nat
    BY PoolAssumption
  <2>2. ASSUME NEW p \in Parts, NEW k \in 0..(MaxColumns + 1)
        PROVE  Cardinality({a \in {b \in f.answers : b.part = p} : a.lo <= k /\ k < a.hi})
                 = IF p \in WithFE /\ k < ColumnsOf(f, p) THEN 1 ELSE 0
    <3>1. k \in Nat
      BY <2>1
    <3>2. Cardinality(Cover(f.answers, p, k)) = IF p \in WithFE /\ k < ColumnsOf(f, p) THEN 1 ELSE 0
      BY <3>1, WholeCover
    <3>3. {a \in {b \in f.answers : b.part = p} : a.lo <= k /\ k < a.hi} = Cover(f.answers, p, k)
      BY DEF Cover
    <3> QED
      BY <3>2, <3>3
  <2> QED
    <3>1. Once(f)
      BY <2>2 DEF Once, ColumnsOf
    <3>2. EachColumnOnce' = Once(outcome'.of)
      BY Zenon DEF EachColumnOnce, Once
    <3> QED
      BY <1>1, <3>1, <3>2
<1> QED
  BY <1>1, <1>2 DEF HonestReturn

LEMMA ReturnedKeeps ==
  ASSUME PoolInv, Returned
  PROVE  PoolInv'
<1> PICK f : f = fit
  OBVIOUS
<1> PICK conv : conv = Reported.ok
  OBVIOUS
<1> PICK iters : iters = Reported.it
  OBVIOUS
<1>1. /\ fit.pc = "part" /\ Later(fit.part) = {} /\ fit' = NoFit /\ held' = 0 /\ Quiet
      /\ UNCHANGED <<route, others, used, linear>>
      /\ outcome' = [how |-> "returned", ok |-> conv, it |-> iters, of |-> f]
  BY DEF Returned
<1>2. Silent /\ ~linear.built /\ fit.mode # "linear" /\ FitInv(f)
  BY <1>1, Unasked DEF PoolInv, Holdings, FitInv, Modes, WeightedPlaces, Outside, Answering
<1>3. DOMAIN serving' = Clients /\ DOMAIN report' = Clients /\ Silent' /\ UNCHANGED bound
  BY <1>1, <1>2 DEF PoolInv, PoolTypes, Quiet, Silent
<1>4. f.mode # "design" => /\ conv <=> \A a \in f.answers : a.ok
                           /\ conv => \A a \in f.answers : a.it <= iters
  BY ReportedIs
<1>5. Certified' /\ f.mode # "linear" => \A a \in f.answers : a.ok
  BY <1>1 DEF PoolInv, CertifiedConverged, Certified
<1>6. f.pc = "part" /\ \A p \in Parts : ~(p > f.part)
  BY <1>1 DEF Later
<1>7. HonestReturn'
  BY <1>1, <1>2, <1>4, <1>5, <1>6, ReturnIsHonest
<1> QED
  BY <1>1, <1>2, <1>3, <1>7, EndKeeps

-----------------------------------------------------------------------------
(* The solver of a linear fit, its answers and the other threads.             *)

LEMMA LinearStepKeeps ==
  ASSUME PoolInv, UNCHANGED <<route, others, held>>, linear.built,
         NEW f, FitInv(f), f.pc \in LinearPlaces, fit' = f, outcome' = NoOutcome,
         bound' \in BoundType, DOMAIN serving' = Clients, DOMAIN report' = Clients,
         linear' \in LinearType, linear'.built, linear'.tol = linear.tol,
         bound'[LinearSolver].tol \in {linear.tol, Tight},
         bound'[LinearSolver].kept \in {0, linear.tol, Tight},
         f.pc \in BoundPlaces => BoundTo(bound', f),
         serving'[Caller] # NoService =>
           f.pc = "linear_answer" /\ serving'[Caller] = [of |-> At(f), for |-> "block"],
         report'[Caller] = NoReport,
         ~(f.pc = "linear_answer" /\ f.adaptive /\ f.lo = 0) =>
           linear'.acceleration # "auto" /\ ~linear'.raised
  PROVE  PoolInv'
<1>0. /\ f.pc # "idle" /\ f.pc \notin WeightedPlaces /\ f.mode = "linear" /\ linear'.built
      /\ f.pc # "scratch"
  BY DEF WeightedPlaces, LinearPlaces, Outside, Opening, Pooling, Lineary, FitInv, Modes
<1>1. PoolTypes'
  BY DEF PoolInv, PoolTypes, BoundType
<1>2. FitInv(fit)'
  OBVIOUS
<1>3. BoundFor'
  BY DEF BoundFor
<1>4. Answered'
  BY DEF Answered, Answering
<1>5. Holdings'
  BY <1>0 DEF Holdings, PoolInv
<1>6. LinearSound'
  <2>1. Tight' = Tight /\ linear.tol \in Tols
    BY DEF Tight, PoolInv, LinearSound
  <2> QED
    BY <1>0, <2>1 DEF LinearSound, LinearSolver
<1>7. ScratchFits'
  BY <1>0 DEF ScratchFits
<1>8. CertifiedConverged'
  BY <1>0 DEF CertifiedConverged
<1>9. HonestReturn'
  BY DEF HonestReturn, Returns, NoOutcome
<1> QED
  BY <1>1, <1>2, <1>3, <1>4, <1>5, <1>6, <1>7, <1>8, <1>9 DEF PoolInv

LEMMA ConfigureKeeps ==
  ASSUME PoolInv, NEW acc \in {"cg", "none"}, NEW t \in Tols, Configure(acc, t)
  PROVE  PoolInv'
<1>1. /\ ~linear.built /\ fit.pc = "idle" /\ UNCHANGED <<route, fit, held, others, used, outcome>>
      /\ linear' = [NoLinear EXCEPT !.built = TRUE, !.tol = t, !.acceleration = acc]
  BY DEF Configure
<1>2. PICK w \in Weights : BindTo(LinearSolver, w, t)
  BY PoolAssumption DEF Configure
<1>3. /\ bound' \in BoundType /\ bound'[LinearSolver].tol = t /\ bound'[LinearSolver].kept \in {0, t}
      /\ UNCHANGED <<serving, report>>
  BY <1>2, FirstPart, BindKeepsType DEF PoolInv, PoolTypes, PoolTols
<1>4. /\ linear' \in LinearType
      /\ linear'.built /\ linear'.tol = t /\ linear'.acceleration = acc /\ ~linear'.raised
  BY <1>1 DEF NoLinear, NoCore, LinearType, CoreType, Accelerations, PoolTols
<1>5. PoolTypes'
  BY <1>1, <1>3, <1>4 DEF PoolInv, PoolTypes
<1>6. FitInv(fit)'
  BY <1>1 DEF PoolInv
<1>7. BoundFor'
  BY <1>1 DEF BoundFor, BoundPlaces, Pooling, Lineary
<1>8. Answered'
  BY <1>1, <1>3 DEF PoolInv, Answered, Answering
<1>9. Holdings'
  BY <1>1 DEF PoolInv, Holdings, WeightedPlaces, Outside, Opening, Pooling
<1>10. LinearSound'
  BY <1>1, <1>3, <1>4 DEF LinearSound, LinearSolver
<1>11. ScratchFits'
  BY <1>1 DEF ScratchFits
<1>12. CertifiedConverged'
  BY <1>1 DEF PoolInv, CertifiedConverged, Certified
<1>13. HonestReturn'
  BY <1>1 DEF PoolInv, HonestReturn, Returns, EachColumnOnce, Certified
<1> QED
  BY <1>5, <1>6, <1>7, <1>8, <1>9, <1>10, <1>11, <1>12, <1>13 DEF PoolInv

LEMMA StartLinearKeeps ==
  ASSUME PoolInv, NEW n \in 1..(MaxColumns + 1), NEW size \in {AutoSize} \cup 1..MaxColumns,
         NEW adaptive \in BOOLEAN, NEW basis \in BOOLEAN, StartLinear(n, size, adaptive, basis)
  PROVE  PoolInv'
<1> PICK width : width = WorkspacePool(n, size)
  OBVIOUS
<1> PICK o : o = LinearSolver
  OBVIOUS
<1> PICK bw : bw = bound[o].weights
  OBVIOUS
<1> PICK bt : bt = IF basis THEN Tight ELSE bound[o].tol
  OBVIOUS
<1> PICK cols : cols = [p \in Parts |-> IF p = o[1] THEN n ELSE 0]
  OBVIOUS
<1> PICK ad : ad = ShouldProbe(adaptive, n, width)
  OBVIOUS
<1> PICK r : r = [NoFit EXCEPT !.pc = "linear_refused", !.mode = "linear"]
  OBVIOUS
<1> PICK g : g = [NoFit EXCEPT !.pc = "linear_pool", !.mode = "linear",
                !.part = o[1], !.kind = o[2], !.width = width,
                !.cols = cols, !.weights = bw, !.tol = bt, !.adaptive = ad]
  OBVIOUS
<1>0. MaxColumns \in Nat /\ n \in Nat /\ n > 0 /\ size \in Nat
  <2>1. MaxColumns \in Nat
    BY PoolAssumption
  <2> QED
    BY <2>1 DEF AutoSize
<1>1. linear.built /\ fit.pc = "idle" /\ UNCHANGED <<held, used>>
  BY DEF StartLinear
<1>2. /\ linear.tol \in Tols /\ bound \in BoundType /\ o \in Solvers
      /\ bound[o].weights \in Weights \cup {"none"} /\ bound[o].tol = linear.tol
      /\ bound[o].kept \in {0, linear.tol, Tight}
  BY <1>1, FirstPart DEF PoolInv, PoolTypes, BoundType, LinearSound
<1>3. bt \in PoolTols /\ bt \in {linear.tol, Tight}
  BY <1>2, TightIs DEF PoolTols
<1>4. /\ bound' \in BoundType /\ bound'[o].weights = bw /\ bound'[o].tol = bt
      /\ bound'[o].kept = bound[o].kept /\ UNCHANGED <<serving, report>>
  <2>1. CASE basis
    <3>1. AssignTol(o, bt)
      BY <2>1 DEF StartLinear
    <3> QED
      BY <1>2, <1>3, <3>1, AssignKeepsType
  <2>2. CASE ~basis
    BY <1>2, <2>2 DEF StartLinear, Quiet
  <2> QED
    BY <2>1, <2>2
<1>5. IF width = 0 THEN Step(r) ELSE Step(g)
  <2>1. IF width = 0 THEN Step(r)
        ELSE Step([NoFit EXCEPT !.pc = "linear_pool", !.mode = "linear",
                !.part = o[1], !.kind = o[2], !.width = width,
                !.cols = cols, !.weights = bw, !.tol = bound'[o].tol, !.adaptive = ad])
    BY Zenon DEF StartLinear
  <2> QED
    BY <1>4, <2>1
<1>6. o[1] \in WithFE /\ o[1] \in Parts /\ o[1] \in Nat \ {0} /\ o[2] = "linear"
  BY FirstPart DEF LinearSolver
<1>7. width \in Nat
  BY <1>0, PoolWidth
<1>8. cols \in [Parts -> Nat] /\ cols[o[1]] = n /\ \A p \in Parts : p # o[1] => cols[p] = 0
  BY <1>0, <1>6
<1>9. ad \in BOOLEAN
  BY DEF ShouldProbe
<1>10. NoFit \in FitType
  BY NoFitFits DEF FitInv
<1>11. Silent
  BY <1>1, Unasked DEF Answering
<1>12. linear \in LinearType /\ linear.acceleration # "auto" /\ ~linear.raised
       /\ bound'[LinearSolver].tol \in {linear.tol, Tight}
       /\ bound'[LinearSolver].kept \in {0, linear.tol, Tight}
  <2>1. linear \in LinearType
    BY DEF PoolInv, PoolTypes
  <2>2. linear.acceleration # "auto" /\ ~linear.raised
    BY <1>1 DEF PoolInv, LinearSound
  <2> QED
    BY <1>2, <1>3, <1>4, <2>1, <2>2
<1>13. DOMAIN serving' = Clients /\ DOMAIN report' = Clients /\ serving'[Caller] = NoService /\ report'[Caller] = NoReport
  BY <1>4, <1>11 DEF PoolInv, PoolTypes, Silent
<1>14. CASE width = 0
  <2>1. Step(r)
    BY <1>5, <1>14
  <2>2. r \in FitType
    BY <1>10 DEF FitType, LinearPlaces
  <2>3. r.pc = "linear_refused" /\ r.mode = "linear" /\ r.answers = {} /\ r.lo = 0 /\ r.part = 0
    BY DEF NoFit
  <2>4. Lows(r) /\ Modes(r)
    BY <2>3 DEF Lows, Modes, WeightedPlaces, LinearPlaces, Outside, Opening, Pooling, Lineary
  <2>5. FitInv(r)
    <3>1. \A p \in Parts : ~(p < r.part)
      BY <2>3, PoolAssumption
    <3> QED
      BY <2>2, <2>3, <2>4, <3>1, FreshFit
  <2>6. fit' = r /\ outcome' = NoOutcome /\ UNCHANGED <<route, others, linear>>
    BY <2>1 DEF Step
  <2>7. r.pc \in LinearPlaces /\ r.pc \notin BoundPlaces /\ r.pc # "linear_answer"
    BY <2>3 DEF LinearPlaces, BoundPlaces, Pooling, Lineary
  <2> QED
    BY <1>1, <1>4, <1>12, <1>13, <2>5, <2>6, <2>7, LinearStepKeeps
<1>15. CASE width # 0
  <2>1. Step(g)
    BY <1>5, <1>15
  <2>2. g \in FitType
    <3> DEFINE Places == {"idle"} \cup WeightedPlaces \cup LinearPlaces
               AllTols == PoolTols
               AllKinds == Kinds \cup {"none"}
               AllWeights == Weights \cup {"none"}
    <3>1. "linear_pool" \in Places
      BY DEF LinearPlaces, Lineary
    <3>2. o[1] \in Nat /\ o[2] \in AllKinds /\ bw \in AllWeights /\ bt \in AllTols
      BY <1>2, <1>3, <1>6 DEF Kinds
    <3>3. NoFit \in [pc : Places, mode : {"none", "weighted", "design", "response", "linear"},
                     cols : [Parts -> Nat], copy : Nat, weights : AllWeights, tol : AllTols,
                     part : Nat, kind : AllKinds, width : Nat, seen : Int, lo : Nat,
                     claim : Nat, answers : SUBSET AnswerType, adaptive : BOOLEAN]
      BY <1>10 DEF FitType
    <3> HIDE DEF Places, AllTols, AllKinds, AllWeights
    <3>4. g \in [pc : Places, mode : {"none", "weighted", "design", "response", "linear"},
                 cols : [Parts -> Nat], copy : Nat, weights : AllWeights, tol : AllTols,
                 part : Nat, kind : AllKinds, width : Nat, seen : Int, lo : Nat,
                 claim : Nat, answers : SUBSET AnswerType, adaptive : BOOLEAN]
      <4> PICK g1 : g1 = [NoFit EXCEPT !.pc = "linear_pool", !.mode = "linear", !.part = o[1], !.kind = o[2]]
        OBVIOUS
      <4>1. g1 \in [pc : Places, mode : {"none", "weighted", "design", "response", "linear"},
                    cols : [Parts -> Nat], copy : Nat, weights : AllWeights, tol : AllTols,
                    part : Nat, kind : AllKinds, width : Nat, seen : Int, lo : Nat,
                    claim : Nat, answers : SUBSET AnswerType, adaptive : BOOLEAN]
        BY <3>1, <3>2, <3>3
      <4>2. g = [g1 EXCEPT !.width = width, !.cols = cols, !.weights = bw, !.tol = bt, !.adaptive = ad]
        OBVIOUS
      <4> QED
        BY ONLY <1>7, <1>8, <1>9, <3>2, <4>1, <4>2
    <3> QED
      BY <3>4 DEF FitType, Places, AllTols, AllKinds, AllWeights
  <2>3. /\ g.pc = "linear_pool" /\ g.mode = "linear" /\ g.answers = {} /\ g.lo = 0 /\ g.part = o[1]
        /\ g.kind = o[2] /\ g.width = width /\ g.cols = cols /\ g.weights = bw /\ g.tol = bt
    BY DEF NoFit
  <2>4. ColumnsOf(g, g.part) = n /\ width > 0
    BY <1>0, <1>7, <1>8, <1>15, <2>3 DEF ColumnsOf
  <2>5. Lows(g)
    BY <1>0, <1>6, <2>3, <2>4 DEF Lows, Opening, Pooling, Lineary
  <2>6. Modes(g)
    <3>1. <<g.part, g.kind>> = LinearSolver
      BY <2>3 DEF LinearSolver
    <3> QED
      BY <1>6, <1>8, <2>3, <3>1 DEF Modes, WeightedPlaces, LinearPlaces, Outside, Opening, Pooling, Lineary
  <2>7. FitInv(g)
    <3>1. \A p \in Parts : p < g.part => g.cols[p] = 0 /\ g.mode # "response"
      BY <1>6, <1>8, <2>3
    <3> QED
      BY <2>2, <2>3, <2>5, <2>6, <3>1, FreshFit
  <2>8. fit' = g /\ outcome' = NoOutcome /\ UNCHANGED <<route, others, linear>>
    BY <2>1 DEF Step
  <2>9. g.pc \in LinearPlaces /\ g.pc # "linear_answer"
    BY <2>3 DEF LinearPlaces, Lineary
  <2>10. BoundTo(bound', g)
    <3>1. At(g) = o
      BY <2>3 DEF At, LinearSolver
    <3> QED
      BY <1>4, <2>3, <3>1 DEF BoundTo
  <2> QED
    BY <1>1, <1>4, <1>12, <1>13, <2>7, <2>8, <2>9, <2>10, LinearStepKeeps
<1> QED
  BY <1>14, <1>15

LEMMA AskLinearPoolKeeps ==
  ASSUME PoolInv, AskLinearPool
  PROVE  PoolInv'
<1> PICK f : f = fit
  OBVIOUS
<1> PICK g : g = [f EXCEPT !.pc = "linear_answer"]
  OBVIOUS
<1>1. /\ fit.pc = "linear_pool" /\ Ask(Caller, Solver, "block") /\ fit' = g /\ UNCHANGED <<route, held, others, outcome>>
      /\ linear' = IF fit.adaptive /\ fit.lo = 0
                   THEN [linear EXCEPT !.acceleration = "auto", !.raised = TRUE] ELSE linear
  BY DEF AskLinearPool
<1>2. FitInv(f) /\ f \in FitType
  BY DEF PoolInv, FitInv
<1>3. /\ FitInv(g) /\ g.pc = "linear_answer" /\ At(g) = At(f) /\ g.weights = f.weights
      /\ g.tol = f.tol /\ g.mode = f.mode
  <2>1. <<f.pc, "linear_answer">> \in Onward
    BY <1>1 DEF Onward
  <2> QED
    BY <1>2, <2>1, PlaceOnly
<1>4. g.adaptive = f.adaptive /\ g.lo = f.lo
  BY <1>2 DEF FitType
<1>5. /\ Silent /\ linear.built /\ outcome = NoOutcome /\ linear.acceleration # "auto" /\ ~linear.raised
      /\ BoundTo(bound, f) /\ At(f) = Solver
      /\ bound[LinearSolver].tol \in {linear.tol, Tight}
      /\ bound[LinearSolver].kept \in {0, linear.tol, Tight}
  BY <1>1, Unasked DEF PoolInv, Holdings, LinearPlaces, Lineary, Answering, LinearSound, BoundFor,
     BoundPlaces, At, Solver
<1>6. /\ serving'[Caller] = [of |-> At(g), for |-> "block"] /\ DOMAIN serving' = Clients /\ DOMAIN report' = Clients
      /\ report'[Caller] = NoReport /\ UNCHANGED bound
  BY <1>1, <1>3, <1>5, CallerIs DEF Ask, PoolInv, PoolTypes, Silent
<1>7. BoundTo(bound', g) /\ bound' \in BoundType
  BY <1>3, <1>5, <1>6 DEF PoolInv, PoolTypes, BoundTo
<1>8. linear \in LinearType
  BY DEF PoolInv, PoolTypes
<1>9. linear' \in LinearType /\ linear'.built /\ linear'.tol = linear.tol
  BY <1>1, <1>5, <1>8 DEF LinearType, Accelerations
<1>10. ~(g.pc = "linear_answer" /\ g.adaptive /\ g.lo = 0) => linear'.acceleration # "auto" /\ ~linear'.raised
  BY <1>1, <1>3, <1>4, <1>5
<1>11. g.pc \in LinearPlaces /\ outcome' = NoOutcome
  BY <1>1, <1>3, <1>5 DEF LinearPlaces, Lineary
<1> QED
  BY <1>1, <1>3, <1>5, <1>6, <1>7, <1>9, <1>10, <1>11, LinearStepKeeps

LEMMA TakeLinearAnswerKeeps ==
  ASSUME PoolInv, TakeLinearAnswer
  PROVE  PoolInv'
<1> PICK f : f = fit
  OBVIOUS
<1> PICK n : n = Columns(f.part)
  OBVIOUS
<1> PICK a : a = AnswerOf(report[Caller], n)
  OBVIOUS
<1> PICK x : x = IF a.hi < n THEN "linear_pool" ELSE "linear_done"
  OBVIOUS
<1> PICK g : g = [f EXCEPT !.answers = f.answers \cup {a}, !.lo = a.hi, !.pc = x]
  OBVIOUS
<1>1. /\ fit.pc = "linear_answer" /\ report[Caller] # NoReport /\ Collect(Caller)
      /\ UNCHANGED <<route, held, others, used, outcome>>
  BY DEF TakeLinearAnswer
<1>2. fit.pc \in Answering
  BY <1>1 DEF Answering
<1>3. /\ a \in AnswerType /\ a.part = f.part /\ a.lo = f.lo
      /\ a.hi = IF n <= f.lo + f.width THEN n ELSE f.lo + f.width
      /\ a.hi = Upto(n) /\ n = ColumnsOf(f, f.part) /\ n \in Nat
  BY <1>1, <1>2, AnswerIs
<1>4. FitInv(f) /\ f \in FitType /\ linear.built /\ outcome = NoOutcome
  BY <1>1 DEF PoolInv, FitInv, Holdings, LinearPlaces, Lineary
<1>5. /\ serving'[Caller] = NoService /\ report'[Caller] = NoReport
      /\ DOMAIN serving' = Clients /\ DOMAIN report' = Clients
      /\ bound' \in BoundType /\ UNCHANGED bound
      /\ bound'[LinearSolver].tol \in {linear.tol, Tight}
      /\ bound'[LinearSolver].kept \in {0, linear.tol, Tight}
  BY <1>1, <1>4, CallerIs DEF Collect, PoolInv, PoolTypes, Answered, LinearSound
<1>6. fit' = g
  <2>1. fit' = [fit EXCEPT !.answers = @ \cup {AnswerOf(report[Caller], n)}, !.lo = Upto(n),
                           !.pc = IF Upto(n) < n THEN "linear_pool" ELSE "linear_done"]
    BY DEF TakeLinearAnswer
  <2> QED
    BY <1>3, <2>1
<1>7. x \in {"linear_pool", "linear_done"} /\ a.hi \in Nat
  BY <1>3 DEF AnswerType
<1>8. g \in FitType
  BY <1>3, <1>4, <1>7 DEF FitType, LinearPlaces, Lineary
<1>9. /\ g.pc = x /\ g.cols = f.cols /\ g.mode = f.mode /\ g.part = f.part /\ g.kind = f.kind
      /\ g.lo = a.hi /\ g.answers = f.answers \cup {a} /\ g.width = f.width
      /\ g.weights = f.weights /\ g.tol = f.tol
  BY <1>4 DEF FitType
<1>10. FitInv(g)
  <2>1. g.pc = IF f.pc = "answer" THEN IF a.hi < n THEN "pool" ELSE "part_done"
               ELSE IF a.hi < n THEN "linear_pool" ELSE "linear_done"
    BY <1>1, <1>9
  <2>2. f.pc \in Answering
    BY <1>2
  <2> QED
    BY ONLY <1>3, <1>4, <1>8, <1>9, <2>1, <2>2, AnswerFits
<1>11. g.pc \in BoundPlaces => BoundTo(bound', g)
  <2>1. At(g) = At(f) /\ At(f) = Solver /\ BoundTo(bound, f)
    BY <1>1, <1>9 DEF At, Solver, PoolInv, BoundFor, BoundTo, BoundPlaces, Lineary
  <2> QED
    BY <1>5, <1>9, <2>1 DEF BoundTo
<1>12. linear \in LinearType
  BY DEF PoolInv, PoolTypes
<1>13. PICK chosen \in {"cg", "none"} :
         linear' = IF fit.adaptive /\ fit.lo = 0
                   THEN [linear EXCEPT !.acceleration = chosen, !.raised = FALSE] ELSE linear
  BY DEF TakeLinearAnswer
<1>14. linear' \in LinearType /\ linear'.built /\ linear'.tol = linear.tol
  BY <1>4, <1>12, <1>13 DEF LinearType, Accelerations
<1>15. linear'.acceleration # "auto" /\ ~linear'.raised
  <2>1. CASE fit.adaptive /\ fit.lo = 0
    BY <1>12, <1>13, <2>1 DEF LinearType
  <2>2. CASE ~(fit.adaptive /\ fit.lo = 0)
    BY <1>1, <1>4, <1>13, <2>2 DEF PoolInv, LinearSound
  <2> QED
    BY <2>1, <2>2
<1>16. g.pc \in LinearPlaces /\ g.pc # "linear_answer" /\ outcome' = NoOutcome
  BY <1>1, <1>4, <1>7, <1>9 DEF LinearPlaces, Lineary
<1> QED
  BY <1>1, <1>4, <1>5, <1>6, <1>10, <1>11, <1>14, <1>15, <1>16, LinearStepKeeps

LEMMA EndLinearKeeps ==
  ASSUME PoolInv, NEW allow \in BOOLEAN, EndLinear(allow)
  PROVE  PoolInv'
<1> PICK f : f = fit
  OBVIOUS
<1> PICK w : w = Worst(f.answers)
  OBVIOUS
<1> PICK how : how = IF f.pc = "linear_refused" THEN "memory"
                     ELSE IF w.ok \/ allow THEN "returned" ELSE "convergence"
  OBVIOUS
<1>1. /\ fit.pc \in {"linear_done", "linear_refused"} /\ fit' = NoFit
      /\ UNCHANGED <<route, held, others, used, linear>>
      /\ AssignTol(LinearSolver, linear.tol)
      /\ outcome' = IF f.pc = "linear_refused" THEN [NoOutcome EXCEPT !.how = how]
                    ELSE [how |-> how, ok |-> w.ok, it |-> w.it, of |-> f]
  BY DEF EndLinear, Restore
<1>2. FitInv(f) /\ f \in FitType /\ f.mode = "linear" /\ linear.built /\ held = 0
  BY <1>1 DEF PoolInv, FitInv, Holdings, LinearPlaces, Modes
<1>3. /\ linear.tol \in Tols /\ linear.tol \in PoolTols /\ bound \in BoundType
      /\ bound[LinearSolver].kept \in {0, linear.tol, Tight}
  BY <1>2 DEF PoolInv, PoolTypes, PoolTols, LinearSound
<1>4. /\ bound' \in BoundType /\ bound'[LinearSolver].tol = linear.tol
      /\ bound'[LinearSolver].kept = bound[LinearSolver].kept /\ UNCHANGED <<serving, report>>
  <2> PICK u : u = linear.tol
    OBVIOUS
  <2>1. AssignTol(LinearSolver, u)
    BY <1>1
  <2> QED
    BY <1>3, <2>1, FirstPart, AssignKeepsType
<1>5. Silent'
  BY <1>1, <1>4, Unasked DEF Silent, Answering
<1>6. NoFit.pc = "idle" /\ NoFit.answers = {} /\ NoFit.mode = "none"
  BY DEF NoFit
<1>7. PoolTypes'
  BY <1>1, <1>4 DEF PoolInv, PoolTypes
<1>8. FitInv(fit)'
  BY <1>1, NoFitFits
<1>9. BoundFor'
  BY <1>1, <1>6 DEF BoundFor, BoundPlaces, Pooling, Lineary
<1>10. Answered'
  BY <1>5 DEF Answered, Silent
<1>11. Holdings'
  BY <1>1, <1>2, <1>6 DEF Holdings, WeightedPlaces, LinearPlaces, Outside, Opening, Pooling, Lineary
<1>12. LinearSound'
  <2>1. linear.acceleration # "auto" /\ ~linear.raised
    BY <1>1, <1>2 DEF PoolInv, LinearSound
  <2>2. Tight' = Tight
    BY <1>1 DEF Tight
  <2> QED
    BY <1>1, <1>3, <1>4, <2>1, <2>2 DEF LinearSound, LinearSolver
<1>13. ScratchFits'
  BY <1>1, <1>6 DEF ScratchFits
<1>14. CertifiedConverged'
  BY <1>1, <1>6 DEF CertifiedConverged
<1>15. HonestReturn'
  <2>1. CASE how # "returned"
    <3>1. outcome'.how = how
      BY <1>1 DEF NoOutcome
    <3> QED
      BY <2>1, <3>1 DEF HonestReturn, Returns
  <2>2. CASE how = "returned"
    <3> PICK conv : conv = w.ok
      OBVIOUS
    <3> PICK iters : iters = w.it
      OBVIOUS
    <3>1. f.pc = "linear_done" /\ outcome' = [how |-> "returned", ok |-> conv, it |-> iters, of |-> f]
      BY <1>1, <2>2
    <3>2. f.answers \in SUBSET AnswerType /\ f.answers # {}
      <4>1. Lows(f) /\ Covers(f) /\ f.part \in Parts /\ f.part \in Nat
        BY <1>2, <3>1, PoolAssumption DEF FitInv, Lows
      <4>2. f.lo \in Nat /\ 0 < Done(f, f.part)
        BY <1>2, <3>1, <4>1 DEF Done, Lows, FitType
      <4>3. One(Cover(f.answers, f.part, 0))
        BY <4>1, <4>2 DEF Covers
      <4> QED
        BY <1>2, <4>3 DEF One, Cover, FitType
    <3>3. /\ conv <=> \A a \in f.answers : a.ok
          /\ conv => \A a \in f.answers : a.it <= iters
      BY <3>2, WorstIs
    <3>4. f.mode # "design" => /\ conv <=> \A a \in f.answers : a.ok
                               /\ conv => \A a \in f.answers : a.it <= iters
      BY <3>3
    <3>5. Certified' /\ f.mode # "linear" => \A a \in f.answers : a.ok
      BY <1>2
    <3> QED
      BY <1>2, <3>1, <3>4, <3>5, ReturnIsHonest
  <2> QED
    BY <2>1, <2>2
<1> QED
  BY <1>7, <1>8, <1>9, <1>10, <1>11, <1>12, <1>13, <1>14, <1>15 DEF PoolInv

LEMMA OthersKeep ==
  ASSUME PoolInv, \/ Others
                  \/ TakeOutcome
                  \/ UNCHANGED pvars
  PROVE  PoolInv'
<1>1. /\ UNCHANGED <<route, linear, bound, serving, report, fit, held, used>> /\ others' \in Nat
      /\ outcome' \in {outcome, NoOutcome}
  BY PoolAssumption DEF Others, TakeOutcome, Step, Quiet, pvars, PoolInv, PoolTypes
<1>2. PoolTypes'
  BY <1>1 DEF PoolInv, PoolTypes
<1>3. FitInv(fit)'
  BY <1>1 DEF PoolInv
<1>4. BoundFor'
  BY <1>1 DEF PoolInv, BoundFor
<1>5. Answered'
  BY <1>1 DEF PoolInv, Answered
<1>6. Holdings'
  BY <1>1 DEF PoolInv, Holdings
<1>7. LinearSound'
  BY <1>1 DEF PoolInv, LinearSound, Tight, LinearSolver
<1>8. ScratchFits'
  BY <1>1 DEF PoolInv, ScratchFits, Lazy, Solver
<1>9. CertifiedConverged'
  BY <1>1 DEF PoolInv, CertifiedConverged, Certified
<1>10. HonestReturn'
  <2>1. CASE outcome' = outcome
    BY <1>1, <2>1 DEF PoolInv, HonestReturn, Returns, EachColumnOnce, Certified
  <2>2. CASE outcome' = NoOutcome
    BY <2>2 DEF HonestReturn, Returns, NoOutcome
  <2> QED
    BY <1>1, <2>1, <2>2
<1> QED
  BY <1>2, <1>3, <1>4, <1>5, <1>6, <1>7, <1>8, <1>9, <1>10 DEF PoolInv

\* The standard a pool in progress is held to.
LEMMA StandardIs ==
  ASSUME PoolInv, fit.pc \in Answering, serving[Caller] # NoService,
         NEW grade \in Int, grade <= Standard(serving[Caller])
  PROVE  /\ grade <= IF fit.mode = "linear" THEN linear.tol ELSE fit.tol
         /\ bound[At(fit)].kept \in {0, fit.tol} => grade <= fit.tol
<1>1. serving[Caller] = [of |-> At(fit), for |-> "block"] /\ BoundTo(bound, fit)
  BY DEF PoolInv, Answered, BoundFor, Answering, BoundPlaces, Pooling, Lineary
<1>2. Standard(serving[Caller]) = IF bound[At(fit)].kept = 0 THEN fit.tol ELSE bound[At(fit)].kept
  BY <1>1 DEF Standard, Effective, BoundTo
<1>3. bound[At(fit)].kept \in {0, fit.tol} => grade <= fit.tol
  BY <1>2
<1>4. CASE fit.mode # "linear"
  BY <1>1, <1>3, <1>4 DEF BoundTo
<1>5. CASE fit.mode = "linear"
  <2>1. fit.pc \in LinearPlaces /\ At(fit) = LinearSolver /\ linear.built
    BY <1>5 DEF PoolInv, FitInv, Modes, Holdings, Answering, WeightedPlaces, LinearPlaces, Outside,
                Opening, Pooling, Lineary, At
  <2>2. /\ linear.tol \in Tols /\ fit.tol \in {linear.tol, Tight}
        /\ bound[At(fit)].kept \in {0, linear.tol, Tight}
    BY <1>1, <2>1 DEF PoolInv, LinearSound, BoundTo
  <2>3. Tight \in Nat /\ linear.tol \in Nat /\ Tight <= linear.tol
    BY <2>2, TightIs
  <2>4. grade <= linear.tol
    BY <1>2, <2>2, <2>3
  <2> QED
    BY <1>3, <1>5, <2>4
<1> QED
  BY <1>4, <1>5

LEMMA SolverAnswersKeeps ==
  ASSUME PoolInv, SolverAnswers
  PROVE  PoolInv'
<1>1. /\ UNCHANGED <<route, fit, held, others, used, outcome, linear, bound>>
      /\ serving[Caller] # NoService
      /\ serving' = [serving EXCEPT ![Caller] = NoService]
  BY DEF SolverAnswers, Answer
<1>2. PICK conv \in BOOLEAN, iters \in 0..MaxIter, grade \in Grades :
        /\ conv => grade <= Standard(serving[Caller])
        /\ report' = [report EXCEPT ![Caller] =
             [of |-> serving[Caller].of, converged |-> conv, iterations |-> iters, tested |-> grade,
              consulted |-> {bound[serving[Caller].of].weights}]]
  BY DEF SolverAnswers, Answer
<1>3. fit.pc \in Answering /\ serving[Caller] = [of |-> At(fit), for |-> "block"]
  BY <1>1 DEF PoolInv, Answered
<1>4. bound[At(fit)].weights = fit.weights
  BY <1>3 DEF PoolInv, BoundFor, BoundTo, Answering, BoundPlaces, Pooling, Lineary
<1>5. /\ report'[Caller].converged = conv /\ report'[Caller].iterations = iters
      /\ report'[Caller].tested = grade /\ report'[Caller].consulted = {fit.weights}
      /\ serving'[Caller] = NoService /\ DOMAIN serving' = Clients /\ DOMAIN report' = Clients
  BY <1>1, <1>2, <1>3, <1>4, CallerIs DEF PoolInv, PoolTypes
<1>6. PoolTypes'
  BY <1>1, <1>5 DEF PoolInv, PoolTypes
<1>7. FitInv(fit)'
  BY <1>1 DEF PoolInv
<1>8. BoundFor'
  BY <1>1 DEF PoolInv, BoundFor
<1>9. Answered'
  <2>1. grade \in Int
    BY DEF Grades
  <2>2. conv => /\ grade <= IF fit.mode = "linear" THEN linear.tol ELSE fit.tol
                /\ bound[At(fit)].kept \in {0, fit.tol} => grade <= fit.tol
    BY <1>1, <1>2, <1>3, <2>1, StandardIs
  <2> QED
    BY <1>1, <1>3, <1>5, <2>2 DEF Answered
<1>10. Holdings'
  BY <1>1 DEF PoolInv, Holdings
<1>11. LinearSound'
  BY <1>1 DEF PoolInv, LinearSound, Tight, LinearSolver
<1>12. ScratchFits'
  BY <1>1 DEF PoolInv, ScratchFits, Lazy, Solver
<1>13. CertifiedConverged'
  BY <1>1 DEF PoolInv, CertifiedConverged, Certified
<1>14. HonestReturn'
  BY <1>1 DEF PoolInv, HonestReturn, Returns, EachColumnOnce, Certified
<1> QED
  BY <1>6, <1>7, <1>8, <1>9, <1>10, <1>11, <1>12, <1>13, <1>14 DEF PoolInv

\* A core is compiled while a pool is under way, with the settings of that moment.
LEMMA SolverCompilesKeeps ==
  ASSUME PoolInv, SolverCompiles
  PROVE  PoolInv'
<1>1. /\ UNCHANGED <<route, fit, held, others, used, outcome, serving, report>>
      /\ fit.pc \in Answering
      /\ \E c \in Clients : serving[c] = [of |-> Solver, for |-> "block"]
      /\ bound' = [bound EXCEPT ![Solver].kept = bound[Solver].tol]
      /\ linear' = IF fit.mode = "linear"
                   THEN [linear EXCEPT !.core = [acceleration |-> linear.acceleration,
                                                 raised |-> linear.raised]]
                   ELSE linear
  BY DEF SolverCompiles, CompilePart, Answering
<1>2. Solver \in Solvers /\ Solver = At(fit)
  BY <1>1, SolverIs DEF Answering, Pooling, Lineary, Solver, At
<1>3. bound \in BoundType /\ linear \in LinearType /\ BoundTo(bound, fit)
  BY <1>1 DEF PoolInv, PoolTypes, BoundFor, Answering, BoundPlaces, Pooling, Lineary
<1>4. /\ bound' \in BoundType
      /\ bound'[At(fit)].kept = bound[At(fit)].tol /\ bound'[At(fit)].tol = bound[At(fit)].tol
      /\ bound'[At(fit)].weights = bound[At(fit)].weights
      /\ \A o \in Solvers : o # At(fit) => bound'[o] = bound[o]
      /\ \A o \in Solvers : bound'[o].tol = bound[o].tol
  <2> PICK s : s = Solver
    OBVIOUS
  <2>1. s \in Solvers /\ bound' = [bound EXCEPT ![s].kept = bound[s].tol] /\ s = At(fit)
    BY <1>1, <1>2
  <2> QED
    BY <1>3, <2>1 DEF BoundType
<1>5. /\ linear' \in LinearType /\ linear'.built = linear.built /\ linear'.tol = linear.tol
      /\ linear'.acceleration = linear.acceleration /\ linear'.raised = linear.raised
  BY <1>1, <1>3 DEF LinearType, CoreType
<1>6. serving[Caller] # NoService /\ report[Caller] = NoReport
  <2>1. Clients = {Caller} /\ Solver # NoSolver
    BY <1>2, PoolAssumption
  <2>2. serving[Caller].of = Solver
    BY <1>1, <2>1
  <2>3. serving[Caller] # NoService
    BY <2>1, <2>2 DEF NoService
  <2> QED
    BY <2>3 DEF PoolInv, Answered
<1>7. PoolTypes'
  BY <1>1, <1>4, <1>5 DEF PoolInv, PoolTypes
<1>8. FitInv(fit)'
  BY <1>1 DEF PoolInv
<1>9. BoundFor'
  BY <1>1, <1>3, <1>4 DEF BoundFor, BoundTo
<1>10. Answered'
  BY <1>1, <1>6 DEF PoolInv, Answered
<1>11. Holdings'
  BY <1>1, <1>5 DEF PoolInv, Holdings
<1>12. LinearSound'
  <2>1. Tight' = Tight /\ LinearSolver \in Solvers
    BY <1>5, FirstPart DEF Tight
  <2>2. CASE At(fit) = LinearSolver
    BY <1>1, <1>4, <1>5, <2>1, <2>2 DEF PoolInv, LinearSound, LinearSolver
  <2>3. CASE At(fit) # LinearSolver
    BY <1>1, <1>4, <1>5, <2>1, <2>3 DEF PoolInv, LinearSound, LinearSolver
  <2> QED
    BY <2>2, <2>3
<1>13. ScratchFits'
  BY <1>1 DEF PoolInv, ScratchFits, Lazy, Solver
<1>14. CertifiedConverged'
  BY <1>1 DEF PoolInv, CertifiedConverged, Certified
<1>15. HonestReturn'
  BY <1>1 DEF PoolInv, HonestReturn, Returns, EachColumnOnce, Certified
<1> QED
  BY <1>7, <1>8, <1>9, <1>10, <1>11, <1>12, <1>13, <1>14, <1>15 DEF PoolInv

LEMMA PoolBegins == PoolInit => PoolInv
<1> SUFFICES ASSUME PoolInit PROVE PoolInv
  OBVIOUS
<1>1. /\ fit = NoFit /\ held = 0 /\ others = 0 /\ used = {} /\ outcome = NoOutcome /\ linear = NoLinear
      /\ route \in Routes /\ FreshInit
  BY DEF PoolInit
<1>2. fit.pc = "idle" /\ fit.answers = {} /\ linear.built = FALSE /\ outcome.how = "none"
  BY <1>1 DEF NoFit, NoLinear, NoOutcome
<1>3. PoolTypes
  <2>1. bound \in BoundType
    BY <1>1 DEF FreshInit, Unbound, PoolTols, BoundType
  <2>2. DOMAIN serving = Clients /\ DOMAIN report = Clients
    BY <1>1 DEF FreshInit
  <2>3. linear \in LinearType
    BY <1>1 DEF NoLinear, NoCore, LinearType, CoreType, Accelerations, PoolTols
  <2> QED
    BY <1>1, <2>1, <2>2, <2>3 DEF PoolTypes
<1>4. FitInv(fit)
  BY <1>1, NoFitFits
<1>5. BoundFor /\ ScratchFits /\ CertifiedConverged /\ HonestReturn /\ LinearSound
  BY <1>2 DEF BoundFor, BoundPlaces, Pooling, Lineary, ScratchFits, CertifiedConverged, HonestReturn,
     Returns, LinearSound
<1>6. Answered
  BY <1>1, CallerIs DEF FreshInit, Answered
<1>7. Holdings
  BY <1>1, <1>2 DEF Holdings, WeightedPlaces, LinearPlaces, Outside, Opening, Pooling, Lineary
<1> QED
  BY <1>3, <1>4, <1>5, <1>6, <1>7 DEF PoolInv

LEMMA PoolStep == PoolInv /\ [PoolNext]_pvars => PoolInv'
<1> SUFFICES ASSUME PoolInv, [PoolNext]_pvars PROVE PoolInv'
  OBVIOUS
<1>1. CASE UNCHANGED pvars
  BY <1>1, OthersKeep
<1>2. CASE Call
  <2>1. CASE TakeOutcome
    BY <2>1, OthersKeep
  <2>2. ASSUME NEW mode \in {"weighted", "design", "response"}, NEW cols \in BlockWidths,
               NEW w \in Weights, NEW t \in CallTols, NEW copy \in BOOLEAN, Start(mode, cols, w, t, copy)
        PROVE  PoolInv'
    BY <2>2, StartKeeps
  <2>3. ASSUME NEW acc \in {"cg", "none"}, NEW t \in Tols, Configure(acc, t)
        PROVE  PoolInv'
    BY <2>3, ConfigureKeeps
  <2>4. ASSUME NEW n \in 1..(MaxColumns + 1), NEW size \in {AutoSize} \cup 1..MaxColumns,
               NEW adaptive \in BOOLEAN, NEW basis \in BOOLEAN, StartLinear(n, size, adaptive, basis)
        PROVE  PoolInv'
    BY <2>4, StartLinearKeeps
  <2> QED
    BY <1>2, <2>1, <2>2, <2>3, <2>4 DEF Call
<1>3. CASE Work
  <2>1. ASSUME NEW allow \in BOOLEAN, EndLinear(allow)
        PROVE  PoolInv'
    BY <2>1, EndLinearKeeps
  <2> QED
    BY <1>3, <2>1, ReserveOutputsKeeps, NextPartKeeps, BuildVariantKeeps, BuiltKeeps, CopyColumnsKeeps,
       PlanPoolKeeps, ReserveScratchKeeps, AskPoolKeeps, TakeAnswerKeeps, PartDoneKeeps, ReturnedKeeps,
       AskLinearPoolKeeps, TakeLinearAnswerKeeps DEF Work
<1>4. CASE SolverAnswers
  BY <1>4, SolverAnswersKeeps
<1>5. CASE SolverCompiles
  BY <1>5, SolverCompilesKeeps
<1>6. CASE Others
  BY <1>6, OthersKeep
<1> QED
  BY <1>1, <1>2, <1>3, <1>4, <1>5, <1>6 DEF PoolNext

-----------------------------------------------------------------------------
\* The inductive invariant: what each place of a call knows of its solver, of its
\* answers and of the memory it holds (WeightedFEProjector, residualize_in_basis).
THEOREM PoolsInductive == PoolSpec => []PoolInv
<1> QED
  BY PoolBegins, PoolStep, PTL DEF PoolSpec

\* The limit is raised exactly while an adaptive first pool has the acceleration
\* "auto", and a core takes over both or neither.
Paired(c) == c.raised <=> c.acceleration = "auto"
ProbeInv == Paired(linear) /\ Paired(linear.core)

LEMMA ProbePaired ==
  ASSUME PoolInv, ProbeInv, [PoolNext]_pvars
  PROVE  ProbeInv'
<1>1. linear \in LinearType
  BY DEF PoolInv, PoolTypes
<1>2. CASE linear' = linear
  BY <1>2 DEF ProbeInv, Paired
<1>3. ASSUME NEW acc \in {"cg", "none"}, NEW t \in Tols, Configure(acc, t)
      PROVE  ProbeInv'
  BY <1>3 DEF Configure, NoLinear, NoCore, ProbeInv, Paired
<1>4. CASE AskLinearPool
  <2>1. CASE linear' = linear
    BY <2>1, <1>2
  <2>2. CASE linear' = [linear EXCEPT !.acceleration = "auto", !.raised = TRUE]
    BY <2>2, <1>1 DEF LinearType, ProbeInv, Paired
  <2> QED
    BY <1>4, <2>1, <2>2 DEF AskLinearPool
<1>5. CASE TakeLinearAnswer
  <2>1. CASE linear' = linear
    BY <2>1, <1>2
  <2>2. ASSUME NEW chosen \in {"cg", "none"},
               linear' = [linear EXCEPT !.acceleration = chosen, !.raised = FALSE]
        PROVE  ProbeInv'
    BY <2>2, <1>1 DEF LinearType, ProbeInv, Paired
  <2> QED
    BY <1>5, <2>1, <2>2 DEF TakeLinearAnswer
<1>6. CASE SolverCompiles
  <2>1. CASE linear' = linear
    BY <2>1, <1>2
  <2>2. CASE linear' = [linear EXCEPT !.core = [acceleration |-> linear.acceleration,
                                                 raised |-> linear.raised]]
    BY <2>2, <1>1 DEF LinearType, ProbeInv, Paired
  <2> QED
    BY <1>6, <2>1, <2>2 DEF SolverCompiles
<1>7. CASE linear' # linear /\ Call
  BY <1>7, <1>3 DEF Call, TakeOutcome, Start, StartLinear, Step
<1>8. CASE linear' # linear /\ Work
  <2>1. ReserveOutputs \/ BuildVariant \/ CopyColumns \/ ReserveScratch => linear' = linear
    BY DEF ReserveOutputs, BuildVariant, CopyColumns, ReserveScratch, Reserve, Step
  <2>2. NextPart \/ Built \/ Reweight \/ AskPool \/ PartDone => linear' = linear
    BY DEF NextPart, Built, Reweight, AskPool, PartDone, Step
  <2>3. PlanPool \/ TakeAnswer \/ Returned => linear' = linear
    BY DEF PlanPool, TakeAnswer, Returned, Fails, Step
  <2>4. ASSUME NEW allow \in BOOLEAN, EndLinear(allow)
        PROVE  linear' = linear
    BY <2>4 DEF EndLinear
  <2> QED
    BY <1>8, <1>4, <1>5, <2>1, <2>2, <2>3, <2>4 DEF Work
<1>9. SolverAnswers \/ Others \/ UNCHANGED pvars => linear' = linear
  BY DEF SolverAnswers, Others, pvars
<1> QED
  BY <1>2, <1>6, <1>7, <1>8, <1>9 DEF PoolNext

\* Between calls nothing stays reserved and the attributes of a linear fit's solver
\* - its tolerance, its limit, its acceleration - are as configured, whichever step
\* of the last call failed; a core it compiled keeps one of the two tolerances a
\* call assigns, and the probe's limit and acceleration together or not at all (the
\* with and finally blocks of residualize, residualize_blocks and
\* residualize_in_basis, and _ensure_core_absorber, which they do not undo).
THEOREM ProjectorsRestoreSettings == PoolSpec => []SettingsComeBack
<1>1. PoolInv /\ ProbeInv => SettingsComeBack
  BY DEF PoolInv, Holdings, LinearSound, ProbeInv, Paired, SettingsComeBack
<1>2. PoolInit => ProbeInv
  BY DEF PoolInit, NoLinear, NoCore, ProbeInv, Paired
<1>3. PoolInv /\ ProbeInv /\ [PoolNext]_pvars => ProbeInv'
  BY ProbePaired
<1> QED
  BY <1>1, <1>2, <1>3, PoolsInductive, PTL DEF PoolSpec

\* A call that returns projected each column once, under its own weights, and
\* "converged" with its iterations is true of every pool; a pool that converged
\* did so to the tolerance of the call, or in a linear fit whose core was compiled
\* earlier to the one the solver was configured with, which may be looser than the
\* tight one asked for (residualize, residualize_response_design, residualize_blocks
\* and residualize_in_basis).
THEOREM PoolsAreWhole == PoolSpec => []OutcomeIsHonest
<1>1. Solver = At(fit)
  BY DEF Solver, At
<1>2. PoolInv => OutcomeIsHonest
  BY <1>1 DEF PoolInv, Answered, HonestReturn, OutcomeIsHonest
<1> QED
  BY <1>2, PoolsInductive, PTL

\* The scratch of a pool is refused only if another thread has reserved since it
\* was planned (_plan_workspace and reserve_memory in residualize).
THEOREM PlansLeaveRoom == PoolSpec => RefusedOnlyWhenRaced
<1>1. PoolInv /\ [PoolNext]_pvars => [fit.pc = "scratch" /\ outcome'.how = "memory" => Unreserved < fit.seen]_pvars
  <2> SUFFICES ASSUME PoolInv, PoolNext, fit.pc = "scratch", outcome'.how = "memory"
               PROVE  Unreserved < fit.seen
    OBVIOUS
  <2>1. outcome = NoOutcome /\ NoOutcome.how = "none" /\ fit.width + Lazy(Solver) <= fit.seen
    BY DEF PoolInv, Holdings, ScratchFits, NoOutcome
  <2>2. outcome' # outcome
    BY <2>1
  <2>3. ReserveScratch
    BY <2>2 DEF PoolNext, Call, Work, TakeOutcome, Start, Configure, StartLinear, ReserveOutputs, NextPart,
       BuildVariant, Built, Reweight, CopyColumns, PlanPool, AskPool, TakeAnswer, PartDone, Returned,
       AskLinearPool, TakeLinearAnswer, EndLinear, SolverAnswers, SolverCompiles, Others
  <2>4. ~(fit.width + Lazy(Solver) <= Unreserved)
    <3>1. SUFFICES ASSUME fit.width + Lazy(Solver) <= Unreserved PROVE FALSE
      OBVIOUS
    <3>2. outcome' = NoOutcome
      BY <2>3, <3>1 DEF ReserveScratch, Reserve, Step
    <3> QED
      BY <2>1, <3>2
  <2>5. /\ fit.width \in Nat /\ fit.seen \in Int /\ Lazy(Solver) \in Nat /\ Unreserved \in Int
    BY LazyIs, PoolAssumption DEF PoolInv, FitInv, FitType, PoolTypes, Unreserved
  <2> QED
    BY <2>1, <2>4, <2>5
<1> QED
  BY <1>1, PoolsInductive, PTL DEF PoolSpec, RefusedOnlyWhenRaced

-----------------------------------------------------------------------------
(* The sample stages: first sums over a set, which the counts are.            *)

\* h adds the entries of f up, over every part of D.
Adds(h, f, D) ==
  h = [s \in SUBSET D |-> IF s = {} THEN 0
                          ELSE f[CHOOSE x \in s : TRUE] + h[s \ {CHOOSE x \in s : TRUE}]]

LEMMA AddsOnce ==
  ASSUME NEW D, IsFiniteSet(D), NEW f, NEW g, Adds(g, f, D), NEW h, Adds(h, f, D)
  PROVE  g = h
<1> DEFINE C(s) == CHOOSE x \in s : TRUE
           Missing == {n \in Nat : \E s \in SUBSET D : Cardinality(s) = n /\ g[s] # h[s]}
<1>1. \A s \in SUBSET D : IsFiniteSet(s) /\ Cardinality(s) \in Nat
  BY FS_Subset, FS_CardinalityType
<1>2. \A s \in SUBSET D : \A x \in s : Cardinality(s \ {x}) = Cardinality(s) - 1
  BY <1>1, FS_RemoveElement
<1>3. \A s \in SUBSET D : g[s] = IF s = {} THEN 0 ELSE f[C(s)] + g[s \ {C(s)}]
  BY DEF Adds
<1>4. \A s \in SUBSET D : h[s] = IF s = {} THEN 0 ELSE f[C(s)] + h[s \ {C(s)}]
  BY DEF Adds
<1>5. \A s \in SUBSET D : s # {} => C(s) \in s OBVIOUS
<1> HIDE DEF C
<1>6. Missing = {}
  <2> SUFFICES ASSUME Missing # {} PROVE FALSE OBVIOUS
  <2>1. PICK m \in Missing : \A n \in Missing : m <= n BY LeastNumber
  <2>2. PICK s \in SUBSET D : Cardinality(s) = m /\ g[s] # h[s] BY <2>1
  <2>3. s # {} BY <1>3, <1>4, <2>2
  <2>4. Cardinality(s \ {C(s)}) = m - 1 BY <1>2, <1>5, <2>2, <2>3
  <2>5. m - 1 \in Nat BY <1>1, <2>4
  <2>6. m - 1 \notin Missing BY <2>1, <2>5
  <2>7. g[s \ {C(s)}] = h[s \ {C(s)}] BY <2>4, <2>5, <2>6
  <2> QED BY <1>3, <1>4, <2>2, <2>3, <2>7
<1>7. \A s \in SUBSET D : g[s] = h[s] BY <1>1, <1>6
<1>8. g = [s \in SUBSET D |-> g[s]] BY DEF Adds
<1>9. h = [s \in SUBSET D |-> h[s]] BY DEF Adds
<1> QED BY <1>7, <1>8, <1>9

\* The sum of f over D is what adds it up there.
LEMMA SumOver ==
  ASSUME NEW D, IsFiniteSet(D), NEW f, NEW h, Adds(h, f, D)
  PROVE  MapThenSumSet(LAMBDA t : f[t], D) = h[D]
<1> DEFINE k == CHOOSE g : Adds(g, f, D)
<1>1. MapThenSumSet(LAMBDA t : f[t], D) = k[D]
  BY DEF MapThenSumSet, MapThenFoldSet, Adds
<1>2. Adds(k, f, D) OBVIOUS
<1> HIDE DEF k
<1>3. k = h BY <1>2, AddsOnce
<1> QED BY <1>1, <1>3

\* A sum with one term at most is that term.
LEMMA OneTerm ==
  ASSUME NEW D, IsFiniteSet(D), NEW t0 \in D, NEW f, f[t0] \in Int, \A t \in D \ {t0} : f[t] = 0,
         NEW h, h = [s \in SUBSET D |-> IF t0 \in s THEN f[t0] ELSE 0]
  PROVE  Adds(h, f, D)
<1> DEFINE C(s) == CHOOSE x \in s : TRUE
           G(s) == IF s = {} THEN 0 ELSE f[C(s)] + h[s \ {C(s)}]
           H(s) == IF t0 \in s THEN f[t0] ELSE 0
<1>1. \A s \in SUBSET D : s # {} => C(s) \in s OBVIOUS
<1>2. ASSUME NEW s \in SUBSET D PROVE H(s) = G(s)
  <2>1. CASE s = {} BY <2>1
  <2>2. CASE s # {}
    <3> PICK c : c = C(s) OBVIOUS
    <3>1. c \in s /\ c \in D BY <1>1, <2>2
    <3>2. h[s \ {c}] = IF t0 \in s \ {c} THEN f[t0] ELSE 0 OBVIOUS
    <3>3. CASE c = t0
      <4>1. h[s \ {c}] = 0 /\ H(s) = f[c] /\ f[c] \in Int BY <3>1, <3>2, <3>3
      <4>2. G(s) = f[c] + h[s \ {c}] BY <2>2
      <4> HIDE DEF H, G
      <4> QED BY <4>1, <4>2
    <3>4. CASE c # t0
      <4>1. f[c] = 0 BY <3>1, <3>4
      <4>2. h[s \ {c}] = H(s) BY <3>2, <3>4
      <4>3. H(s) \in Int OBVIOUS
      <4>4. G(s) = f[c] + h[s \ {c}] BY <2>2
      <4> HIDE DEF H, G
      <4> QED BY <4>1, <4>2, <4>3, <4>4
    <3> QED BY <3>3, <3>4
  <2> QED BY <2>1, <2>2
<1> HIDE DEF C, G
<1>3. h = [s \in SUBSET D |-> G(s)] BY <1>2
<1> QED BY <1>3 DEF Adds, G, C

\* The counts of the methods requested.
LEMMA SumOfCounts ==
  ASSUME NEW M \in SUBSET Methods, NEW f \in [Methods -> Int]
  PROVE  MapThenSumSet(LAMBDA m : f[m], M) =
           (IF "fe" \in M THEN f["fe"] ELSE 0) + (IF "simplex" \in M THEN f["simplex"] ELSE 0)
           + (IF "relu" \in M THEN f["relu"] ELSE 0) + (IF "mu" \in M THEN f["mu"] ELSE 0)
<1> DEFINE C(s) == CHOOSE x \in s : TRUE
           W(k, s) == IF k \in s THEN f[k] ELSE 0
           H(s) == W("fe", s) + W("simplex", s) + W("relu", s) + W("mu", s)
           h == [s \in SUBSET M |-> H(s)]
           G(s) == IF s = {} THEN 0 ELSE f[C(s)] + h[s \ {C(s)}]
<1>0. IsFiniteSet(M)
  <2>1. IsFiniteSet(Methods)
    <3>1. IsFiniteSet({}) BY FS_EmptySet
    <3>2. IsFiniteSet({} \cup {"fe"}) BY <3>1, FS_AddElement
    <3>3. IsFiniteSet({} \cup {"fe"} \cup {"simplex"}) BY <3>2, FS_AddElement
    <3>4. IsFiniteSet({} \cup {"fe"} \cup {"simplex"} \cup {"relu"}) BY <3>3, FS_AddElement
    <3>5. IsFiniteSet({} \cup {"fe"} \cup {"simplex"} \cup {"relu"} \cup {"mu"}) BY <3>4, FS_AddElement
    <3>6. Methods = {} \cup {"fe"} \cup {"simplex"} \cup {"relu"} \cup {"mu"} BY DEF Methods
    <3> QED BY <3>5, <3>6
  <2> QED BY <2>1, FS_Subset
<1>1. \A s \in SUBSET M : s # {} => C(s) \in s OBVIOUS
<1>2. ASSUME NEW s \in SUBSET M PROVE H(s) = G(s)
  <2>1. CASE s = {} BY <2>1
  <2>2. CASE s # {}
    <3> PICK c : c = C(s) OBVIOUS
    <3>1. c \in s BY <1>1, <2>2
    <3>2. h[s \ {c}] = H(s \ {c}) OBVIOUS
    <3>3. c \in {"fe", "simplex", "relu", "mu"} BY <3>1 DEF Methods
    <3>4. \A k \in Methods : W(k, s) \in Int /\ W(k, s \ {c}) = (IF k = c THEN 0 ELSE W(k, s)) OBVIOUS
    <3>5. W(c, s) = f[c] /\ f[c] \in Int BY <3>1, <3>3 DEF Methods
    <3> HIDE DEF W
    <3>6. H(s) = f[c] + H(s \ {c})
      <4> HIDE DEF C, h, G
      <4>1. /\ W("fe", s) \in Int /\ W("fe", s \ {c}) = (IF c = "fe" THEN 0 ELSE W("fe", s))
            /\ W("simplex", s) \in Int /\ W("simplex", s \ {c}) = (IF c = "simplex" THEN 0 ELSE W("simplex", s))
            /\ W("relu", s) \in Int /\ W("relu", s \ {c}) = (IF c = "relu" THEN 0 ELSE W("relu", s))
            /\ W("mu", s) \in Int /\ W("mu", s \ {c}) = (IF c = "mu" THEN 0 ELSE W("mu", s))
        BY <3>4 DEF Methods
      <4>2. CASE c = "fe" BY ONLY <4>1, <4>2, <3>5
      <4>3. CASE c = "simplex" BY ONLY <4>1, <4>3, <3>5
      <4>4. CASE c = "relu" BY ONLY <4>1, <4>4, <3>5
      <4>5. CASE c = "mu" BY ONLY <4>1, <4>5, <3>5
      <4> QED BY <3>3, <4>2, <4>3, <4>4, <4>5
    <3> HIDE DEF H, h
    <3>7. G(s) = f[c] + h[s \ {c}] BY <2>2
    <3> QED BY <3>2, <3>6, <3>7
  <2> QED BY <2>1, <2>2
<1> HIDE DEF C, G, H
<1>3. h = [s \in SUBSET M |-> G(s)] BY <1>2
<1> HIDE DEF h
<1>4. Adds(h, f, M) BY <1>3 DEF Adds, G, C
<1>5. MapThenSumSet(LAMBDA m : f[m], M) = h[M] BY <1>0, <1>4, SumOver
<1>6. h[M] = H(M) BY DEF h
<1> QED BY <1>5, <1>6 DEF H

-----------------------------------------------------------------------------
(* Separation, for a set D of directions, positive rows P and groups G.       *)

\* What the proofs use of the directions: they may be zero, one may outweigh
\* another, and each level of a group has a dummy that may cancel.
Spans(D, G) ==
  /\ D \subseteq [Rows -> {-1, 0, 1}]
  /\ [r \in Rows |-> 0] \in D
  /\ \A p, q \in D : Outweigh(p, q) \in D
  /\ \A j \in DOMAIN G, r \in Rows :
       \E q \in D : \A k \in Rows : q[k] = IF G[j][k] = G[j][r] THEN 1 ELSE 0
  /\ \A j \in DOMAIN G, r \in Rows, p \in D :
       \E q \in D : q[r] = 0 /\ \A k \in Rows : G[j][k] # G[j][r] => q[k] = p[k]

ValidOn(D, P, A) == {q \in D : \A r \in A : IF r \in P THEN q[r] = 0 ELSE q[r] >= 0}
SeparatedBy(D, P, A) == {r \in A : \E q \in ValidOn(D, P, A) : q[r] > 0}

LEMMA SeparatedAreZero ==
  ASSUME NEW D, NEW P, NEW A, NEW r \in SeparatedBy(D, P, A)
  PROVE  r \in A \ P
BY DEF SeparatedBy, ValidOn

\* A certificate stays one when rows are removed.
LEMMA CertificateStays ==
  ASSUME NEW D, NEW P, NEW A, NEW B \in SUBSET A
  PROVE  SeparatedBy(D, P, A) \cap B \subseteq SeparatedBy(D, P, B)
BY DEF SeparatedBy, ValidOn

\* One certificate separates all the rows that any does.
LEMMA OneForAll ==
  ASSUME NEW D, NEW G, Spans(D, G), NEW P, NEW A \in SUBSET Rows, NObs \in Nat
  PROVE  \E g \in ValidOn(D, P, A) : \A r \in SeparatedBy(D, P, A) : g[r] > 0
<1> DEFINE V == ValidOn(D, P, A)
           Hit(q) == {r \in A : q[r] > 0}
           Misses == {n \in Nat : \E q \in V : n = Cardinality(A \ Hit(q))}
<1>1. IsFiniteSet(A) /\ \A q : IsFiniteSet(A \ Hit(q)) /\ Cardinality(A \ Hit(q)) \in Nat
  <2>1. IsFiniteSet(Rows) BY FS_Interval DEF Rows
  <2> QED BY <2>1, FS_Subset, FS_CardinalityType
<1>2. [r \in Rows |-> 0] \in V BY DEF Spans, ValidOn
<1>3. Misses # {} BY <1>1, <1>2
<1>4. PICK n \in Misses : \A m \in Misses : n <= m BY <1>3, LeastNumber
<1>5. PICK g \in V : n = Cardinality(A \ Hit(g)) BY <1>4
<1>6. ASSUME NEW r \in SeparatedBy(D, P, A), ~(g[r] > 0) PROVE FALSE
  <2>1. PICK q \in V : q[r] > 0 BY <1>6 DEF SeparatedBy
  <2>2. r \in A BY DEF SeparatedBy
  <2> DEFINE o == Outweigh(g, q)
  <2>3. /\ g \in [Rows -> {-1, 0, 1}] /\ q \in [Rows -> {-1, 0, 1}]
        /\ \A k \in Rows : o[k] = IF g[k] # 0 THEN g[k] ELSE q[k]
    BY DEF Spans, ValidOn, Outweigh
  <2>4. o \in D BY DEF Spans, ValidOn
  <2>5. \A k \in A : IF k \in P THEN g[k] = 0 /\ q[k] = 0 ELSE g[k] >= 0 /\ q[k] >= 0
    BY DEF ValidOn
  <2> HIDE DEF o
  <2>6. \A k \in A : IF k \in P THEN o[k] = 0 ELSE o[k] >= 0 BY <2>3, <2>5
  <2>7. o \in V BY <2>4, <2>6 DEF ValidOn
  <2>8. \A k \in A : g[k] > 0 => o[k] > 0 BY <2>3
  <2>9. o[r] > 0
    <3>1. g[r] = 0 BY <1>6, <2>2, <2>3, <2>5
    <3> QED BY <2>1, <2>2, <2>3, <3>1
  <2>10. A \ Hit(o) \subseteq (A \ Hit(g)) \ {r} BY <2>8, <2>9
  <2>11. r \in A \ Hit(g) BY <1>6, <2>2
  <2> HIDE DEF Hit, V
  <2>12. Cardinality((A \ Hit(g)) \ {r}) = n - 1 BY <1>1, <1>5, <2>11, FS_RemoveElement
  <2>13. Cardinality(A \ Hit(o)) <= n - 1
    <3>1. IsFiniteSet((A \ Hit(g)) \ {r}) BY <1>1, FS_RemoveElement
    <3> QED BY <2>10, <2>12, <3>1, FS_Subset
  <2>14. Cardinality(A \ Hit(o)) \in Misses BY <1>1, <2>7
  <2>15. n <= Cardinality(A \ Hit(o)) BY <1>4, <2>14
  <2>16. n \in Nat /\ Cardinality(A \ Hit(o)) \in Nat BY <1>1
  <2> QED BY <2>13, <2>15, <2>16
<1> QED BY <1>5, <1>6

\* Without rows that are separated anyway, no more of the others are.
LEMMA TrimSeparates ==
  ASSUME NEW D, NEW G, Spans(D, G), NEW P, NEW A \in SUBSET Rows, NObs \in Nat,
         NEW B \in SUBSET SeparatedBy(D, P, A)
  PROVE  SeparatedBy(D, P, A \ B) \subseteq SeparatedBy(D, P, A)
<1> SUFFICES ASSUME NEW s \in SeparatedBy(D, P, A \ B), s \notin SeparatedBy(D, P, A) PROVE FALSE
  OBVIOUS
<1>1. PICK g \in ValidOn(D, P, A) : \A r \in SeparatedBy(D, P, A) : g[r] > 0 BY OneForAll
<1>2. PICK q \in ValidOn(D, P, A \ B) : q[s] > 0 BY DEF SeparatedBy
<1>3. s \in A \ B BY DEF SeparatedBy
<1> DEFINE o == Outweigh(g, q)
<1>4. /\ g \in [Rows -> {-1, 0, 1}] /\ q \in [Rows -> {-1, 0, 1}] /\ o \in D
      /\ \A k \in Rows : o[k] = IF g[k] # 0 THEN g[k] ELSE q[k]
  BY DEF Spans, ValidOn, Outweigh
<1> HIDE DEF o
<1>5. \A k \in A : IF k \in P THEN g[k] = 0 ELSE g[k] >= 0 BY DEF ValidOn
<1>6. \A k \in A \ B : IF k \in P THEN q[k] = 0 ELSE q[k] >= 0 BY DEF ValidOn
<1>7. \A k \in B : g[k] > 0 /\ k \notin P BY <1>1, SeparatedAreZero
<1>8. \A k \in A : IF k \in P THEN o[k] = 0 ELSE o[k] >= 0
  <2> TAKE k \in A
  <2>1. k \in Rows OBVIOUS
  <2>2. CASE k \in B BY <2>1, <2>2, <1>4, <1>5, <1>7
  <2>3. CASE k \notin B BY <2>1, <2>3, <1>4, <1>5, <1>6
  <2> QED BY <2>2, <2>3
<1>9. o \in ValidOn(D, P, A) BY <1>4, <1>8 DEF ValidOn
<1>10. o[s] > 0
  <2>1. s \in Rows /\ s \notin P
    <3>1. s \notin P BY SeparatedAreZero
    <3> QED BY <1>3, <3>1
  <2> QED BY <1>2, <1>3, <1>4, <1>5, <2>1
<1> QED BY <1>3, <1>9, <1>10 DEF SeparatedBy

\* From A to K rows leave that are positive or separated, and no other row
\* becomes separated.
Reduces(D, P, A, K) ==
  /\ K \subseteq A
  /\ SeparatedBy(D, P, K) \subseteq SeparatedBy(D, P, A)
  /\ (A \ K) \ P \subseteq SeparatedBy(D, P, A)

LEMMA ReducesTwice ==
  ASSUME NEW D, NEW P, NEW A, NEW B, NEW K, Reduces(D, P, A, B), Reduces(D, P, B, K)
  PROVE  Reduces(D, P, A, K)
BY DEF Reduces

LEMMA TrimReduces ==
  ASSUME NEW D, NEW G, Spans(D, G), NEW P, NEW A \in SUBSET Rows, NObs \in Nat,
         NEW B \in SUBSET SeparatedBy(D, P, A)
  PROVE  Reduces(D, P, A, A \ B)
BY TrimSeparates DEF Reduces

-----------------------------------------------------------------------------
(* Peeling.                                                                   *)

LevelIn(G, A, j, r) == {k \in A : G[j][k] = G[j][r]}
ZeroIn(G, P, A, r) == \E j \in DOMAIN G : LevelIn(G, A, j, r) \cap P = {}
AloneIn(G, A, ones, r) == r \in ones /\ \E j \in DOMAIN G : LevelIn(G, A, j, r) = {r}
Goes(G, P, drop, A, ones, zeros) ==
  {r \in A : (drop /\ AloneIn(G, A, ones, r)) \/ (zeros /\ ZeroIn(G, P, A, r))}
Stays(G, P, drop, A, ones, zeros) == UNION {S \in SUBSET A : Goes(G, P, drop, S, ones, zeros) = {}}

\* A level without a positive row is separated by its dummy.
LEMMA ZeroSeparated ==
  ASSUME NEW D, NEW G, Spans(D, G), NEW P, NEW A \in SUBSET Rows, NEW r \in A, ZeroIn(G, P, A, r)
  PROVE  r \in SeparatedBy(D, P, A)
<1>1. PICK j \in DOMAIN G : LevelIn(G, A, j, r) \cap P = {} BY DEF ZeroIn
<1>2. r \in Rows OBVIOUS
<1>3. PICK q \in D : \A k \in Rows : q[k] = IF G[j][k] = G[j][r] THEN 1 ELSE 0
  BY <1>2 DEF Spans
<1>4. \A k \in A : IF k \in P THEN q[k] = 0 ELSE q[k] >= 0
  BY <1>1, <1>3 DEF LevelIn
<1>5. q \in ValidOn(D, P, A) BY <1>4 DEF ValidOn
<1>6. q[r] > 0 BY <1>2, <1>3
<1> QED BY <1>5, <1>6 DEF SeparatedBy

\* A row alone at a level may leave: its dummy sets it to zero in any direction.
LEMMA AloneReduces ==
  ASSUME NEW D, NEW G, Spans(D, G), NEW P, NEW A \in SUBSET Rows,
         NEW j \in DOMAIN G, NEW r \in A, LevelIn(G, A, j, r) = {r}
  PROVE  Reduces(D, P, A, A \ {r})
<1>0. r \in Rows OBVIOUS
<1>1. r \in P \/ r \in SeparatedBy(D, P, A)
  <2> SUFFICES ASSUME r \notin P PROVE r \in SeparatedBy(D, P, A) OBVIOUS
  <2>1. ZeroIn(G, P, A, r) BY DEF ZeroIn
  <2> QED BY <2>1, ZeroSeparated
<1>2. SeparatedBy(D, P, A \ {r}) \subseteq SeparatedBy(D, P, A)
  <2> SUFFICES ASSUME NEW s \in SeparatedBy(D, P, A \ {r}) PROVE s \in SeparatedBy(D, P, A) OBVIOUS
  <2>1. s \in A \ {r} BY DEF SeparatedBy
  <2>2. PICK p \in ValidOn(D, P, A \ {r}) : p[s] > 0 BY DEF SeparatedBy
  <2>3. p \in D BY DEF ValidOn
  <2>4. PICK q \in D : q[r] = 0 /\ \A k \in Rows : G[j][k] # G[j][r] => q[k] = p[k]
    BY <1>0, <2>3 DEF Spans
  <2>5. \A k \in A \ {r} : q[k] = p[k] BY <2>4 DEF LevelIn
  <2>6. \A k \in A \ {r} : IF k \in P THEN p[k] = 0 ELSE p[k] >= 0 BY DEF ValidOn
  <2>7. \A k \in A : IF k \in P THEN q[k] = 0 ELSE q[k] >= 0
    <3> TAKE k \in A
    <3>1. CASE k = r BY <2>4, <3>1
    <3>2. CASE k # r BY <2>5, <2>6, <3>2
    <3> QED BY <3>1, <3>2
  <2>8. q \in ValidOn(D, P, A) BY <2>7 DEF ValidOn
  <2>9. q[s] > 0 BY <2>1, <2>2, <2>5
  <2> QED BY <2>1, <2>8, <2>9 DEF SeparatedBy
<1> QED BY <1>1, <1>2 DEF Reduces

LEMMA GoesReduces ==
  ASSUME NEW D, NEW G, Spans(D, G), NEW P, NEW A \in SUBSET Rows, NObs \in Nat, NEW drop, NEW ones,
         NEW zeros, NEW r \in Goes(G, P, drop, A, ones, zeros)
  PROVE  Reduces(D, P, A, A \ {r})
<1>1. r \in A BY DEF Goes
<1>2. CASE ZeroIn(G, P, A, r)
  <2>1. r \in SeparatedBy(D, P, A) BY <1>1, <1>2, ZeroSeparated
  <2>2. {r} \in SUBSET SeparatedBy(D, P, A) BY <2>1
  <2> QED BY <2>2, TrimReduces
<1>3. CASE AloneIn(G, A, ones, r)
  <2>1. PICK j \in DOMAIN G : LevelIn(G, A, j, r) = {r} BY <1>3 DEF AloneIn
  <2> QED BY <1>1, <2>1, AloneReduces
<1> QED BY <1>2, <1>3 DEF Goes

\* A row that goes from a sample goes from any part of it that holds the row.
LEMMA GoesFromParts ==
  ASSUME NEW G, NEW P, NEW drop, NEW zeros, NEW ones, NEW A, NEW B \in SUBSET A
  PROVE  Goes(G, P, drop, A, ones, zeros) \cap B \subseteq Goes(G, P, drop, B, ones, zeros)
<1> SUFFICES ASSUME NEW r \in B, r \in Goes(G, P, drop, A, ones, zeros)
             PROVE  r \in Goes(G, P, drop, B, ones, zeros)
  OBVIOUS
<1>1. \A j : LevelIn(G, B, j, r) \subseteq LevelIn(G, A, j, r) /\ r \in LevelIn(G, B, j, r)
  BY DEF LevelIn
<1>2. ZeroIn(G, P, A, r) => ZeroIn(G, P, B, r) BY <1>1 DEF ZeroIn
<1>3. AloneIn(G, A, ones, r) => AloneIn(G, B, ones, r)
  <2> SUFFICES ASSUME AloneIn(G, A, ones, r) PROVE AloneIn(G, B, ones, r) OBVIOUS
  <2>1. PICK j \in DOMAIN G : LevelIn(G, A, j, r) = {r} BY DEF AloneIn
  <2>2. LevelIn(G, B, j, r) = {r} BY <1>1, <2>1
  <2> QED BY <2>2 DEF AloneIn
<1> QED BY <1>2, <1>3 DEF Goes

\* What stays is the largest part from which nothing goes.
LEMMA StaysGreatest ==
  ASSUME NEW G, NEW P, NEW drop, NEW A, NEW ones, NEW zeros,
         NEW K, K = Stays(G, P, drop, A, ones, zeros)
  PROVE  /\ K \subseteq A
         /\ Goes(G, P, drop, K, ones, zeros) = {}
         /\ \A S \in SUBSET A : Goes(G, P, drop, S, ones, zeros) = {} => S \subseteq K
<1>1. K \subseteq A BY DEF Stays
<1>2. \A S \in SUBSET A : Goes(G, P, drop, S, ones, zeros) = {} => S \subseteq K BY DEF Stays
<1>3. ASSUME NEW r \in Goes(G, P, drop, K, ones, zeros) PROVE FALSE
  <2>1. r \in K BY DEF Goes
  <2>2. PICK S \in SUBSET A : r \in S /\ Goes(G, P, drop, S, ones, zeros) = {} BY <2>1 DEF Stays
  <2>3. S \in SUBSET K BY <1>2, <2>2
  <2> QED BY <2>2, <2>3, <1>3, GoesFromParts
<1> QED BY <1>1, <1>2, <1>3

\* A peel removes positive and separated rows only and separates no others.
LEMMA StaysReduces ==
  ASSUME NEW D, NEW G, Spans(D, G), NEW P, NEW A \in SUBSET Rows, NObs \in Nat, NEW drop, NEW ones,
         NEW zeros, NEW K, K = Stays(G, P, drop, A, ones, zeros)
  PROVE  Reduces(D, P, A, K)
<1> DEFINE Reached == {S \in SUBSET A : K \subseteq S /\ Reduces(D, P, A, S)}
           Sizes == {n \in Nat : \E S \in Reached : n = Cardinality(S)}
<1>1. \A S \in SUBSET A : IsFiniteSet(S) /\ Cardinality(S) \in Nat
  <2>1. IsFiniteSet(Rows) BY FS_Interval DEF Rows
  <2> QED BY <2>1, FS_Subset, FS_CardinalityType
<1>2. A \in Reached BY StaysGreatest DEF Reduces
<1>3. Sizes # {} BY <1>1, <1>2
<1>4. PICK n \in Sizes : \A m \in Sizes : n <= m BY <1>3, LeastNumber
<1>5. PICK S \in Reached : n = Cardinality(S) BY <1>4
<1>6. S = K
  <2> SUFFICES ASSUME S # K PROVE FALSE OBVIOUS
  <2>1. ~(S \subseteq K) BY <1>5
  <2>2. Goes(G, P, drop, S, ones, zeros) # {} BY <2>1, StaysGreatest
  <2>3. PICK r \in Goes(G, P, drop, S, ones, zeros) : TRUE BY <2>2
  <2>4. r \in S BY <2>3 DEF Goes
  <2>5. r \notin K
    <3> SUFFICES ASSUME r \in K PROVE FALSE OBVIOUS
    <3>1. K \in SUBSET S OBVIOUS
    <3>2. r \in Goes(G, P, drop, K, ones, zeros) BY <2>3, <3>1, GoesFromParts
    <3> QED BY <3>2, StaysGreatest
  <2>6. S \in SUBSET Rows OBVIOUS
  <2>7. Reduces(D, P, S, S \ {r}) BY <2>3, <2>6, GoesReduces
  <2>8. Reduces(D, P, A, S \ {r}) BY <2>7, ReducesTwice
  <2>9. S \ {r} \in Reached BY <2>5, <2>8
  <2>10. Cardinality(S \ {r}) = n - 1 /\ Cardinality(S \ {r}) \in Nat
    BY <1>1, <1>5, <2>4, FS_RemoveElement
  <2> HIDE DEF Reached
  <2>11. n - 1 \in Sizes BY <2>9, <2>10
  <2> QED BY <1>4, <2>11
<1> QED BY <1>5, <1>6

\* More frequencies of one or the zero check can only send more rows away.
LEMMA GoesMore ==
  ASSUME NEW G, NEW P, NEW drop, NEW A, NEW ones, NEW some \in SUBSET ones, NEW zeros
  PROVE  Goes(G, P, drop, A, some, FALSE) \subseteq Goes(G, P, drop, A, ones, zeros)
BY DEF Goes, AloneIn

-----------------------------------------------------------------------------
(* The directions of a fit.                                                   *)

Given == /\ \E f \in Fits : setting = f.setting /\ design = f.design /\ unit = f.unit
         /\ positive \in SUBSET Rows

LEMMA GivenFacts ==
  ASSUME Given
  PROVE  /\ NObs \in Nat \ {0} /\ IsFiniteSet(Rows)
         /\ setting \in SettingType /\ Accepted(setting)
         /\ IsDesign(design)
         /\ setting.block => design.code # <<>>
         /\ unit \in SUBSET Rows /\ positive \in SUBSET Rows
         /\ ~setting.fweight => unit = Rows
<1>1. PICK f \in Fits : setting = f.setting /\ design = f.design /\ unit = f.unit BY DEF Given
<1>2. IsFit(f) /\ NObs \in Nat \ {0} BY PoissonAssumption
<1>3. IsFiniteSet(Rows) BY <1>2, FS_Interval DEF Rows
<1> QED BY <1>1, <1>2, <1>3 DEF IsFit, Given

LEMMA DirectionsArePatterns ==
  ASSUME Given
  PROVE  Directions = Patterns(design) /\ ReachSuffices(design, Directions)
<1> DEFINE e == CHOOSE x \in PatternTable : x[1] = design
<1>1. PICK f \in Fits : design = f.design BY DEF Given
<1>2. <<design, Patterns(design)>> \in PatternTable BY <1>1 DEF PatternTable
<1>3. e \in PatternTable /\ e[1] = design
  <2>1. \E x \in PatternTable : x[1] = design BY <1>2
  <2> QED BY <2>1
<1>4. Directions = e[2] BY DEF Directions
<1> HIDE DEF e
<1>5. PICK d : e = <<d, Patterns(d)>> BY <1>3 DEF PatternTable
<1>6. ReachSuffices(e[1], e[2]) BY <1>3, PoissonAssumption
<1>7. d = design BY <1>3, <1>5
<1> QED BY <1>3, <1>4, <1>5, <1>6, <1>7

LEMMA EntryType ==
  ASSUME NEW d, IsDesign(d), NEW t \in Terms(d), NEW r \in Rows
  PROVE  Entry(d, t, r) \in Int
<1>1. CASE t \in {<<"fe", j, d.code[j][k]>> : j \in DOMAIN d.code, k \in Rows}
  <2>1. t[1] = "fe" BY <1>1
  <2> QED BY <2>1 DEF Entry
<1>2. CASE t \in {<<"x", k, 0>> : k \in DOMAIN d.x}
  <2>1. PICK k \in DOMAIN d.x : t = <<"x", k, 0>> BY <1>2
  <2>2. d.x \in Seq([Rows -> Int]) BY DEF IsDesign
  <2> DEFINE C == [Rows -> Int]
  <2> HIDE DEF C
  <2>3. d.x \in Seq(C) BY <2>2 DEF C
  <2>4. k \in 1..Len(d.x) /\ d.x[k] \in C BY <2>1, <2>3
  <2>5. d.x[k][r] \in Int BY <2>4 DEF C
  <2>6. k # 0 BY <2>3, <2>4
  <2>7. t[1] # "fe" /\ t[2] = k BY <2>1
  <2> QED BY <2>5, <2>6, <2>7 DEF Entry
<1>3. CASE t = <<"x", 0, 0>>
  <2>1. t[1] # "fe" /\ t[2] = 0 BY <1>3
  <2> QED BY <2>1 DEF Entry, Constant
<1> QED BY <1>1, <1>2, <1>3 DEF Terms

LEMMA TermsFinite ==
  ASSUME NEW d, IsDesign(d), NObs \in Nat
  PROVE  IsFiniteSet(Terms(d))
<1> DEFINE J == DOMAIN d.code
           F == {<<"fe", j, d.code[j][r]>> : j \in J, r \in Rows}
           X == {<<"x", k, 0>> : k \in DOMAIN d.x}
           f == [p \in J \X Rows |-> <<"fe", p[1], d.code[p[1]][p[2]]>>]
           x == [k \in DOMAIN d.x |-> <<"x", k, 0>>]
<1>1. IsFiniteSet(J) /\ IsFiniteSet(DOMAIN d.x) /\ IsFiniteSet(Rows)
  <2>1. \E n \in Nat : J = 1..n BY DEF IsDesign
  <2>2. \E n \in Nat : DOMAIN d.x = 1..n BY DEF IsDesign
  <2> HIDE DEF J
  <2> QED BY <2>1, <2>2, FS_Interval DEF Rows
<1>2. IsFiniteSet(F)
  <2> HIDE DEF J
  <2>1. f \in [J \X Rows -> F]
    <3>1. \A p \in J \X Rows : p[1] \in J /\ p[2] \in Rows OBVIOUS
    <3> QED BY <3>1
  <2>2. \A t \in F : \E p \in J \X Rows : f[p] = t
    <3> TAKE t \in F
    <3>1. PICK j \in J, r \in Rows : t = <<"fe", j, d.code[j][r]>> OBVIOUS
    <3>2. <<j, r>> \in J \X Rows /\ f[<<j, r>>] = t BY <3>1
    <3> QED BY <3>2
  <2> HIDE DEF f, F
  <2>3. f \in Surjection(J \X Rows, F) BY <2>1, <2>2 DEF Surjection
  <2>4. IsFiniteSet(J \X Rows) BY <1>1, FS_Product
  <2> QED BY <2>3, <2>4, FS_Surjection
<1>3. IsFiniteSet(X)
  <2>1. x \in Surjection(DOMAIN d.x, X) BY DEF Surjection
  <2> HIDE DEF x, X
  <2> QED BY <1>1, <2>1, FS_Surjection
<1>4. IsFiniteSet({<<"x", 0, 0>>}) /\ IsFiniteSet({}) BY FS_Singleton, FS_EmptySet
<1> HIDE DEF J, F, X, f, x
<1>5. IsFiniteSet(F \cup X) BY <1>2, <1>3, FS_Union
<1>6. IsFiniteSet((F \cup X) \cup {<<"x", 0, 0>>}) /\ IsFiniteSet((F \cup X) \cup {})
  BY <1>4, <1>5, FS_Union
<1>7. Terms(d) = IF d.code = <<>> THEN (F \cup X) \cup {<<"x", 0, 0>>} ELSE (F \cup X) \cup {}
  BY DEF Terms, F, X, J
<1> QED BY <1>6, <1>7

\* A combination of one term is that term.
LEMMA TotalOfOne ==
  ASSUME NEW d, IsDesign(d), NObs \in Nat, NEW t0 \in Terms(d), NEW coef \in [Terms(d) -> Int],
         \A t \in Terms(d) \ {t0} : coef[t] = 0, NEW r \in Rows
  PROVE  Total(d, coef, r) = coef[t0] * Entry(d, t0, r)
<1> DEFINE D == Terms(d)
           E(t) == coef[t] * Entry(d, t, r)
           f == [t \in D |-> E(t)]
           h == [s \in SUBSET D |-> IF t0 \in s THEN f[t0] ELSE 0]
           IsSum(g) == g = [s \in SUBSET D |->
                              IF s = {} THEN 0
                              ELSE LET x == CHOOSE x \in s : TRUE IN E(x) + g[s \ {x}]]
           k == CHOOSE g : IsSum(g)
<1>1. \A t \in D : Entry(d, t, r) \in Int /\ coef[t] \in Int BY EntryType
<1>2. IsFiniteSet(D) BY TermsFinite
<1>3. Total(d, coef, r) = k[D] BY DEF Total, MapThenSumSet, MapThenFoldSet
<1> HIDE DEF D, k
<1>4. \A t \in D : E(t) \in Int /\ (t # t0 => E(t) = 0)
  <2> TAKE t \in D
  <2>1. Entry(d, t, r) \in Int /\ coef[t] \in Int BY <1>1
  <2>2. t # t0 => coef[t] = 0 BY DEF D
  <2> QED BY <2>1, <2>2
<1> HIDE DEF E
<1>5. \A t \in D : f[t] = E(t) OBVIOUS
<1>6. t0 \in D BY DEF D
<1>7. Adds(h, f, D)
  <2>1. f[t0] \in Int /\ \A t \in D \ {t0} : f[t] = 0 BY <1>4, <1>5, <1>6
  <2> HIDE DEF f
  <2> QED BY <1>2, <1>6, <2>1, OneTerm
<1> HIDE DEF f
<1>8. \A g : IsSum(g) <=> Adds(g, f, D)
  <2> TAKE g
  <2> DEFINE U(s) == IF s = {} THEN 0 ELSE LET x == CHOOSE x \in s : TRUE IN E(x) + g[s \ {x}]
             V(s) == IF s = {} THEN 0
                     ELSE f[CHOOSE x \in s : TRUE] + g[s \ {CHOOSE x \in s : TRUE}]
  <2>1. \A s \in SUBSET D : U(s) = V(s) BY <1>5
  <2> HIDE DEF U, V
  <2>2. [s \in SUBSET D |-> U(s)] = [s \in SUBSET D |-> V(s)] BY <2>1
  <2> QED BY <2>2 DEF U, V, Adds
<1> HIDE DEF IsSum
<1>9. IsSum(k) BY <1>7, <1>8 DEF k
<1>10. k = h BY <1>2, <1>7, <1>8, <1>9, AddsOnce
<1>11. h[D] = E(t0) BY <1>5, <1>6
<1> QED BY <1>3, <1>10, <1>11 DEF E

\* The combination of one dummy or column alone.
LEMMA OneColumn ==
  ASSUME NEW d, IsDesign(d), NObs \in Nat, Reach \in Nat \ {0}, NEW t0 \in Terms(d),
         \A r \in Rows : Entry(d, t0, r) \in {0, 1}, NEW n \in {0, 1}
  PROVE  [r \in Rows |-> IF n = 1 THEN Entry(d, t0, r) ELSE 0] \in Patterns(d)
<1> DEFINE coef == [t \in Terms(d) |-> IF t = t0 THEN n ELSE 0]
           p == [r \in Rows |-> Sign(Total(d, coef, r))]
           q == [r \in Rows |-> IF n = 1 THEN Entry(d, t0, r) ELSE 0]
<1>1. coef \in [Terms(d) -> Int] /\ coef \in [Terms(d) -> (-Reach)..Reach]
      /\ coef[t0] = n /\ \A t \in Terms(d) \ {t0} : coef[t] = 0
  OBVIOUS
<1> HIDE DEF coef
<1>2. \A r \in Rows : Sign(Total(d, coef, r)) = IF n = 1 THEN Entry(d, t0, r) ELSE 0
  <2> TAKE r \in Rows
  <2>1. Total(d, coef, r) = n * Entry(d, t0, r) BY <1>1, TotalOfOne
  <2>2. Entry(d, t0, r) \in {0, 1} OBVIOUS
  <2>3. CASE n = 0
    <3>1. Total(d, coef, r) = 0 BY <2>1, <2>2, <2>3
    <3> QED BY <2>3, <3>1 DEF Sign
  <2>4. CASE n = 1
    <3>1. Total(d, coef, r) = Entry(d, t0, r) BY <2>1, <2>2, <2>4
    <3> QED BY <2>2, <2>4, <3>1 DEF Sign
  <2> QED BY <2>3, <2>4
<1>3. p \in Patterns(d) BY <1>1 DEF Patterns
<1>4. p = q BY <1>2
<1> QED BY <1>3, <1>4

LEMMA EmptySequence ==
  ASSUME NEW C, NEW s \in Seq(C), DOMAIN s = {}
  PROVE  s = <<>>
<1>1. Len(s) \in Nat /\ DOMAIN s = 1..Len(s) OBVIOUS
<1>2. ~(Len(s) >= 1)
  <2> SUFFICES ASSUME Len(s) >= 1 PROVE FALSE OBVIOUS
  <2>1. 1 \in 1..Len(s) BY <1>1
  <2> QED BY <1>1, <2>1
<1>3. Len(s) = 0 BY <1>1, <1>2
<1> QED BY <1>3

LEMMA DirectionsSpan ==
  ASSUME Given
  PROVE  Spans(Directions, Groups)
<1> DEFINE D == Directions
<1>0. NObs \in Nat \ {0} /\ Reach \in Nat \ {0} /\ IsDesign(design)
  BY GivenFacts, PoissonAssumption
<1>1. D = Patterns(design) /\ ReachSuffices(design, D) BY DirectionsArePatterns
<1> HIDE DEF D
<1>2. D \subseteq [Rows -> {-1, 0, 1}] BY <1>1 DEF Patterns, Sign
<1>3. \A j \in DOMAIN design.code, r \in Rows :
        /\ <<"fe", j, design.code[j][r]>> \in Terms(design)
        /\ \A k \in Rows : Entry(design, <<"fe", j, design.code[j][r]>>, k)
                             = IF design.code[j][k] = design.code[j][r] THEN 1 ELSE 0
  BY DEF Terms, Entry
<1>4. design.code = <<>> =>
        /\ <<"x", 0, 0>> \in Terms(design)
        /\ \A k \in Rows : Entry(design, <<"x", 0, 0>>, k) = 1
  BY DEF Terms, Entry, Constant
<1>5. \E t0 \in Terms(design) : \A r \in Rows : Entry(design, t0, r) \in {0, 1}
  <2>1. CASE design.code = <<>> BY <2>1, <1>4
  <2>2. CASE design.code # <<>>
    <3>1. \E n \in Nat : DOMAIN design.code = 1..n BY <1>0 DEF IsDesign
    <3>2. DOMAIN design.code # {}
      <4> SUFFICES ASSUME DOMAIN design.code = {} PROVE FALSE OBVIOUS
      <4> DEFINE C == [Rows -> Nat]
      <4>1. design.code \in Seq(C) BY <1>0 DEF IsDesign
      <4> HIDE DEF C
      <4> QED BY <2>2, <4>1, EmptySequence
    <3>3. 1 \in Rows BY <1>0 DEF Rows
    <3>4. PICK j \in DOMAIN design.code : TRUE BY <3>2
    <3> QED BY <1>3, <3>3, <3>4
  <2> QED BY <2>1, <2>2
<1>6. [r \in Rows |-> 0] \in D
  <2>1. PICK t0 \in Terms(design) : \A r \in Rows : Entry(design, t0, r) \in {0, 1} BY <1>5
  <2>2. [r \in Rows |-> IF 0 = 1 THEN Entry(design, t0, r) ELSE 0] \in Patterns(design)
    BY <1>0, <2>1, OneColumn
  <2>3. [r \in Rows |-> IF 0 = 1 THEN Entry(design, t0, r) ELSE 0] = [r \in Rows |-> 0] OBVIOUS
  <2> QED BY <1>1, <2>2, <2>3
<1>7. \A p, q \in D : Outweigh(p, q) \in D BY <1>1 DEF ReachSuffices
<1>8. \A j \in DOMAIN Groups, r \in Rows :
        \E q \in D : \A k \in Rows : q[k] = IF Groups[j][k] = Groups[j][r] THEN 1 ELSE 0
  <2> TAKE j \in DOMAIN Groups, r \in Rows
  <2>1. CASE design.code = <<>> /\ setting.iv
    <3>1. [k \in Rows |-> IF 1 = 1 THEN Entry(design, <<"x", 0, 0>>, k) ELSE 0] \in Patterns(design)
      BY <1>0, <1>4, <2>1, OneColumn
    <3> DEFINE q == [k \in Rows |-> IF 1 = 1 THEN Entry(design, <<"x", 0, 0>>, k) ELSE 0]
    <3>2. \A k \in Rows : q[k] = 1 BY <1>4, <2>1
    <3>3. Groups = <<[k \in Rows |-> 0]>> BY <2>1 DEF Groups
    <3>4. j = 1 BY <3>3
    <3>5. \A k \in Rows : Groups[j][k] = Groups[j][r] BY <3>3, <3>4
    <3> HIDE DEF q
    <3>6. q \in D BY <1>1, <3>1 DEF q
    <3> QED BY <3>2, <3>5, <3>6
  <2>2. CASE ~(design.code = <<>> /\ setting.iv)
    <3>1. Groups = design.code BY <2>2 DEF Groups
    <3> DEFINE t0 == <<"fe", j, design.code[j][r]>>
               q == [k \in Rows |-> IF 1 = 1 THEN Entry(design, t0, k) ELSE 0]
    <3>2. t0 \in Terms(design) /\ \A k \in Rows : Entry(design, t0, k)
                             = IF design.code[j][k] = design.code[j][r] THEN 1 ELSE 0
      BY <1>3, <3>1
    <3>3. q \in Patterns(design)
      <4> HIDE DEF t0
      <4>1. \A k \in Rows : Entry(design, t0, k) \in {0, 1} BY <3>2
      <4> QED BY <1>0, <3>2, <4>1, OneColumn
    <3>4. \A k \in Rows : q[k] = IF design.code[j][k] = design.code[j][r] THEN 1 ELSE 0 BY <3>2
    <3> HIDE DEF q
    <3> QED BY <1>1, <3>1, <3>3, <3>4
  <2> QED BY <2>1, <2>2
<1>9. \A j \in DOMAIN Groups, r \in Rows, p \in D :
        \E q \in D : q[r] = 0 /\ \A k \in Rows : Groups[j][k] # Groups[j][r] => q[k] = p[k]
  <2> TAKE j \in DOMAIN Groups, r \in Rows, p \in D
  <2>1. CASE design.code = <<>> /\ setting.iv
    <3>1. Groups = <<[k \in Rows |-> 0]>> BY <2>1 DEF Groups
    <3>2. j = 1 BY <3>1
    <3>3. \A k \in Rows : Groups[j][k] = Groups[j][r] BY <3>1, <3>2
    <3> QED BY <1>6, <3>3
  <2>2. CASE ~(design.code = <<>> /\ setting.iv)
    <3>1. Groups = design.code BY <2>2 DEF Groups
    <3> QED BY <1>1, <3>1 DEF ReachSuffices
  <2> QED BY <2>1, <2>2
<1> QED BY <1>2, <1>6, <1>7, <1>8, <1>9 DEF Spans, D

\* Parts of the data that share no column have certificates of their own.
LEMMA PartsAlone ==
  ASSUME Given, design.disjoint, NEW A \in SUBSET Rows, NEW c \in Rows
  PROVE  SeparatedBy(Directions, positive, {r \in A : design.component[r] = c})
           \subseteq SeparatedBy(Directions, positive, A)
<1> DEFINE B == {r \in A : design.component[r] = c}
           D == Directions
<1> SUFFICES ASSUME NEW s \in SeparatedBy(D, positive, B) PROVE s \in SeparatedBy(D, positive, A)
  OBVIOUS
<1>1. ReachSuffices(design, D) BY DirectionsArePatterns
<1> HIDE DEF D
<1>2. PICK p \in ValidOn(D, positive, B) : p[s] > 0 BY DEF SeparatedBy
<1>3. s \in B BY DEF SeparatedBy
<1> DEFINE q == [r \in Rows |-> IF design.component[r] = c THEN p[r] ELSE 0]
<1>4. q \in D BY <1>1, <1>2 DEF ReachSuffices, ValidOn
<1>5. \A r \in A : IF r \in positive THEN q[r] = 0 ELSE q[r] >= 0
  <2> TAKE r \in A
  <2>1. CASE r \in B BY <2>1, <1>2 DEF ValidOn
  <2>2. CASE r \notin B BY <2>2
  <2> QED BY <2>1, <2>2
<1>6. q[s] > 0 BY <1>2, <1>3
<1> HIDE DEF q
<1>7. q \in ValidOn(D, positive, A) BY <1>4, <1>5 DEF ValidOn
<1> QED BY <1>3, <1>6, <1>7 DEF SeparatedBy

\* Levels lie in one component, so that a component is peeled on its own.
LEMMA PeelsAlone ==
  ASSUME Given, design.code # <<>>, NEW A \in SUBSET Rows, NEW c \in Rows, NEW drop, NEW ones, NEW zeros
  PROVE  Goes(Groups, positive, drop, {r \in A : design.component[r] = c}, ones, zeros)
           \subseteq Goes(Groups, positive, drop, A, ones, zeros)
<1> DEFINE B == {r \in A : design.component[r] = c}
<1>1. Groups = design.code BY DEF Groups
<1>2. \A j \in DOMAIN Groups, r \in B : LevelIn(Groups, B, j, r) = LevelIn(Groups, A, j, r)
  <2> TAKE j \in DOMAIN Groups, r \in B
  <2>1. \A k \in A : Groups[j][k] = Groups[j][r] => design.component[k] = c
    BY <1>1, GivenFacts DEF IsDesign
  <2> QED BY <2>1 DEF LevelIn
<1> HIDE DEF B
<1>3. \A r \in B : ZeroIn(Groups, positive, B, r) => ZeroIn(Groups, positive, A, r)
  BY <1>2 DEF ZeroIn
<1>4. \A r \in B : AloneIn(Groups, B, ones, r) => AloneIn(Groups, A, ones, r)
  BY <1>2 DEF AloneIn
<1>5. B \subseteq A BY DEF B
<1> QED BY <1>3, <1>4, <1>5 DEF Goes, B

-----------------------------------------------------------------------------
(* The stages on one set of data: g holds what separation and peeling look    *)
(* at, and the part each row is handled in.                                   *)

PartOf(g, A, c) == {r \in A : g.part[r] = c}
Sep(g, A) == SeparatedBy(g.dirs, g.positive, A)
Going(g, A, ones, zeros) == Goes(g.groups, g.positive, g.drop, A, ones, zeros)
Staying(g, A, ones, zeros) == Stays(g.groups, g.positive, g.drop, A, ones, zeros)
Less(g, A, K) == Reduces(g.dirs, g.positive, A, K)

\* Certificates of one part are certificates of the data.
Apart(g) == \A A \in SUBSET Rows, c \in Rows : Sep(g, PartOf(g, A, c)) \subseteq Sep(g, A)

Sound(g) ==
  /\ NObs \in Nat /\ IsFiniteSet(Rows)
  /\ Spans(g.dirs, g.groups) /\ g.positive \subseteq Rows /\ g.part \in [Rows -> Rows]
  /\ \A A \in SUBSET Rows, c \in Rows : \A ones, zeros :
       Going(g, PartOf(g, A, c), ones, zeros) \subseteq Going(g, A, ones, zeros)

\* What every order of the methods leaves: the rows not separated in the data,
\* without their singletons.
CoreOf(g) == Staying(g, Rows \ Sep(g, Rows), g.units, FALSE)

LEMMA SepWithin ==
  ASSUME NEW g, NEW A
  PROVE  Sep(g, A) \subseteq A \ g.positive
BY SeparatedAreZero DEF Sep

LEMMA SepOfParts ==
  ASSUME NEW g, NEW A, NEW B \in SUBSET A
  PROVE  Sep(g, A) \cap B \subseteq Sep(g, B)
BY CertificateStays DEF Sep

LEMMA SepTrimmed ==
  ASSUME NEW g, Sound(g), NEW A \in SUBSET Rows, NEW B \in SUBSET Sep(g, A)
  PROVE  Less(g, A, A \ B) /\ Sep(g, A \ B) \subseteq Sep(g, A)
<1>1. Spans(g.dirs, g.groups) /\ NObs \in Nat BY DEF Sound
<1>2. B \in SUBSET SeparatedBy(g.dirs, g.positive, A) BY DEF Sep
<1> QED BY <1>1, <1>2, TrimReduces, TrimSeparates DEF Sep, Less

LEMMA SepOfZeros ==
  ASSUME NEW g, Sound(g), NEW A \in SUBSET Rows, NEW r \in A, ZeroIn(g.groups, g.positive, A, r)
  PROVE  r \in Sep(g, A)
BY ZeroSeparated DEF Sep, Sound

LEMMA LessTwice ==
  ASSUME NEW g, NEW A, NEW B, NEW K, Less(g, A, B), Less(g, B, K)
  PROVE  Less(g, A, K)
BY ReducesTwice DEF Less

LEMMA LessSep ==
  ASSUME NEW g, NEW A, NEW K, Less(g, A, K)
  PROVE  K \subseteq A /\ Sep(g, K) \subseteq Sep(g, A) /\ (A \ K) \ g.positive \subseteq Sep(g, A)
BY DEF Less, Reduces, Sep

LEMMA StayStable ==
  ASSUME NEW g, NEW A, NEW ones, NEW zeros
  PROVE  /\ Staying(g, A, ones, zeros) \subseteq A
         /\ Going(g, Staying(g, A, ones, zeros), ones, zeros) = {}
BY StaysGreatest DEF Staying, Going

LEMMA StayMost ==
  ASSUME NEW g, NEW A, NEW ones, NEW zeros, NEW S \in SUBSET A, Going(g, S, ones, zeros) = {}
  PROVE  S \subseteq Staying(g, A, ones, zeros)
BY StaysGreatest DEF Staying, Going

LEMMA StayLess ==
  ASSUME NEW g, Sound(g), NEW A \in SUBSET Rows, NEW ones, NEW zeros
  PROVE  Less(g, A, Staying(g, A, ones, zeros))
<1>1. Spans(g.dirs, g.groups) /\ NObs \in Nat BY DEF Sound
<1> QED BY <1>1, StaysReduces DEF Less, Staying

\* A sample without separated rows has no level without a positive row.
LEMMA GoesUnseparated ==
  ASSUME NEW g, Sound(g), NEW A \in SUBSET Rows, Sep(g, A) = {}, NEW ones, NEW zeros,
         Going(g, A, ones, FALSE) = {}
  PROVE  Going(g, A, ones, zeros) = {}
<1>1. \A r \in A : ~ZeroIn(g.groups, g.positive, A, r) BY SepOfZeros
<1>2. \A r \in A : ~(g.drop /\ AloneIn(g.groups, A, ones, r)) BY DEF Going, Goes
<1> QED BY <1>1, <1>2 DEF Going, Goes

LEMMA CoreFacts ==
  ASSUME NEW g, Sound(g), NEW C, C = CoreOf(g)
  PROVE  /\ C \subseteq Rows /\ Sep(g, C) = {}
         /\ \A zeros : Going(g, C, g.units, zeros) = {}
         /\ \A A \in SUBSET Rows : \A zeros : C \subseteq A => C \subseteq Staying(g, A, g.units, zeros)
<1> DEFINE N == Rows \ Sep(g, Rows)
<1>1. Sep(g, Rows) \in SUBSET Sep(g, Rows) /\ Rows \in SUBSET Rows OBVIOUS
<1>2. Sep(g, N) \subseteq Sep(g, Rows) BY <1>1, SepTrimmed
<1>3. Sep(g, N) = {}
  <2>1. Sep(g, N) \subseteq N BY SepWithin
  <2> QED BY <1>2, <2>1
<1>4. N \in SUBSET Rows OBVIOUS
<1> HIDE DEF N
<1> PICK z : z = FALSE OBVIOUS
<1>5. C = Staying(g, N, g.units, z) BY DEF CoreOf, N
<1>6. C \subseteq N /\ Going(g, C, g.units, z) = {} BY <1>5, StayStable
<1>7. C \in SUBSET Rows /\ Sep(g, C) = {}
  <2>1. Less(g, N, C) BY <1>4, <1>5, StayLess
  <2> QED BY <1>3, <1>4, <1>6, <2>1, LessSep
<1>8. \A zeros : Going(g, C, g.units, zeros) = {} BY <1>6, <1>7, GoesUnseparated
<1>9. \A A \in SUBSET Rows : \A zeros : C \subseteq A => C \subseteq Staying(g, A, g.units, zeros)
  <2> TAKE A \in SUBSET Rows
  <2> TAKE zeros
  <2> HAVE C \subseteq A
  <2>1. C \in SUBSET A OBVIOUS
  <2> QED BY <1>8, <2>1, StayMost
<1> QED BY <1>7, <1>8, <1>9

\* The rows act, of which fs were separated and fg went as singletons.
Detected(g, act, fs, fg) ==
  /\ fs \cup fg \subseteq act /\ fs \cap fg = {} /\ fs \cap g.positive = {}
  /\ ~Apart(g) => fs = {} /\ fg = {}
  /\ \A c \in Rows : /\ Less(g, PartOf(g, act, c), PartOf(g, act \ (fs \cup fg), c))
                     /\ Going(g, PartOf(g, act \ (fs \cup fg), c), g.units, g.zeros) = {}
  /\ g.joint => CoreOf(g) \subseteq act \ (fs \cup fg)

\* A method separates `local` in the part at c, of whose other rows `kept` stay:
\* L and N go, the ones labelled separated and the singletons.
Trims(g, left, local, L, N) ==
  /\ local \subseteq Sep(g, left)
  /\ L \cup N = (left \ local) \ Staying(g, left \ local, g.units, g.zeros)
  /\ L \cap N = {} /\ L \cap g.positive = {}

\* What is left of the part then.
Trimmed(g, left, local, L, N, kept) ==
  /\ kept = Staying(g, left \ local, g.units, g.zeros)
  /\ kept = left \ (local \cup L \cup N)
  /\ local \subseteq left /\ local \cap g.positive = {} /\ local \cap (L \cup N) = {}
  /\ Less(g, left, kept) /\ Going(g, kept, g.units, g.zeros) = {}
  /\ Sep(g, kept) \subseteq Sep(g, left)
  /\ local = Sep(g, left) => Sep(g, kept) = {}

LEMMA TrimmedPart ==
  ASSUME NEW g, Sound(g), NEW left \in SUBSET Rows, NEW local, NEW L, NEW N, Trims(g, left, local, L, N)
  PROVE  \E kept \in SUBSET Rows : Trimmed(g, left, local, L, N, kept)
<1> PICK kept : kept = Staying(g, left \ local, g.units, g.zeros) OBVIOUS
<1>1. local \in SUBSET Sep(g, left) /\ local \subseteq left /\ local \cap g.positive = {}
  BY SepWithin DEF Trims
<1>2. left \ local \in SUBSET Rows OBVIOUS
<1>3. /\ kept \subseteq left \ local /\ Going(g, kept, g.units, g.zeros) = {}
      /\ Less(g, left \ local, kept)
  BY <1>2, StayStable, StayLess
<1>4. Less(g, left, left \ local) /\ Sep(g, left \ local) \subseteq Sep(g, left)
  BY <1>1, SepTrimmed
<1>5. Less(g, left, kept) BY <1>3, <1>4, LessTwice
<1>6. L \cup N = (left \ local) \ kept BY DEF Trims
<1>7. Sep(g, kept) \subseteq Sep(g, left) BY <1>5, LessSep
<1>8. local = Sep(g, left) => Sep(g, kept) = {}
  <2>1. Sep(g, kept) \subseteq kept BY SepWithin
  <2> QED BY <1>3, <1>7, <2>1
<1>9. kept \in SUBSET Rows BY <1>3
<1>10. Trimmed(g, left, local, L, N, kept) BY <1>1, <1>3, <1>5, <1>6, <1>7, <1>8 DEF Trimmed
<1> QED BY <1>9, <1>10

\* The parts after a method trimmed the one at c.
LEMMA PartsAfter ==
  ASSUME NEW g, Sound(g), NEW act \in SUBSET Rows, NEW gone, NEW c \in Rows,
         NEW more, more \subseteq PartOf(g, act \ gone, c), NEW b \in Rows
  PROVE  PartOf(g, act \ (gone \cup more), b) =
           IF b = c THEN PartOf(g, act \ gone, c) \ more ELSE PartOf(g, act \ gone, b)
BY DEF PartOf

LEMMA DetectedAfter ==
  ASSUME NEW g, Sound(g), NEW act \in SUBSET Rows, NEW fs, NEW fg, Detected(g, act, fs, fg), Apart(g),
         NEW c \in Rows, NEW left, left = PartOf(g, act \ (fs \cup fg), c),
         NEW local, NEW L, NEW N, Trims(g, left, local, L, N)
  PROVE  /\ Detected(g, act, fs \cup local \cup L, fg \cup N)
         /\ fs \cap (local \cup L) = {} /\ local \cap L = {}
<1> PICK gone : gone = fs \cup fg OBVIOUS
<1> PICK more : more = local \cup L \cup N OBVIOUS
<1> PICK C : C = CoreOf(g) OBVIOUS
<1>0. left \subseteq act \ gone /\ left \in SUBSET Rows BY DEF PartOf
<1> PICK kept \in SUBSET Rows : Trimmed(g, left, local, L, N, kept) BY <1>0, TrimmedPart
<1>1. /\ kept = left \ more
      /\ local \subseteq left /\ local \cap g.positive = {} /\ local \cap (L \cup N) = {}
      /\ Less(g, left, kept) /\ Going(g, kept, g.units, g.zeros) = {}
      /\ kept = Staying(g, left \ local, g.units, g.zeros)
  BY DEF Trimmed
<1>2. L \cup N \subseteq left /\ L \cap N = {} /\ L \cap g.positive = {}
  BY DEF Trims
<1>3. more \subseteq left BY <1>1, <1>2
<1>4. fs \cup fg \subseteq act /\ fs \cap fg = {} /\ fs \cap g.positive = {} BY DEF Detected
<1>5. ASSUME NEW b \in Rows
      PROVE  /\ Less(g, PartOf(g, act, b), PartOf(g, act \ (gone \cup more), b))
             /\ Going(g, PartOf(g, act \ (gone \cup more), b), g.units, g.zeros) = {}
  <2>1. /\ Less(g, PartOf(g, act, b), PartOf(g, act \ gone, b))
        /\ Going(g, PartOf(g, act \ gone, b), g.units, g.zeros) = {}
    BY DEF Detected
  <2>2. PartOf(g, act \ (gone \cup more), b) =
           IF b = c THEN left \ more ELSE PartOf(g, act \ gone, b)
    <3>1. left = PartOf(g, act \ gone, c) /\ c \in Rows /\ b \in Rows /\ act \in SUBSET Rows OBVIOUS
    <3> QED BY ONLY <1>3, <3>1 DEF PartOf
  <2>3. CASE b = c
    <3>1. PartOf(g, act \ (gone \cup more), b) = kept BY <1>1, <2>2, <2>3
    <3>2. PartOf(g, act \ gone, b) = left BY <2>3
    <3>3. Less(g, PartOf(g, act, b), kept) BY <1>1, <2>1, <3>2, LessTwice
    <3> QED BY <1>1, <3>1, <3>3
  <2>4. CASE b # c BY <2>1, <2>2, <2>4
  <2> QED BY <2>3, <2>4
<1>6. ASSUME g.joint PROVE C \cap more = {}
  <2>1. C \subseteq act \ gone BY <1>6 DEF Detected
  <2>2. C \in SUBSET Rows /\ Sep(g, C) = {} /\ \A zeros : Going(g, C, g.units, zeros) = {} BY CoreFacts
  <2> DEFINE K == PartOf(g, C, c)
  <2>3. K \subseteq left BY <2>1 DEF PartOf
  <2>4. K \in SUBSET Rows BY <1>0, <2>3
  <2>5. Sep(g, K) = {} BY <2>2 DEF Apart
  <2>6. \A zeros : Going(g, K, g.units, zeros) = {} BY <2>2 DEF Sound
  <2>7. K \cap local = {}
    <3>1. local \subseteq Sep(g, left) BY DEF Trims
    <3>2. Sep(g, left) \cap K \subseteq Sep(g, K)
      <4>1. K \in SUBSET left BY <2>3
      <4> QED BY <4>1, SepOfParts
    <3> QED BY <2>5, <3>1, <3>2
  <2>8. K \subseteq kept
    <3>1. K \in SUBSET (left \ local) BY <2>3, <2>7
    <3>2. Going(g, K, g.units, g.zeros) = {} BY <2>6
    <3> HIDE DEF K
    <3>3. K \subseteq Staying(g, left \ local, g.units, g.zeros) BY ONLY <3>1, <3>2, StayMost
    <3> QED BY <1>1, <3>3
  <2>9. C \cap left \subseteq K BY DEF PartOf
  <2> QED BY <1>1, <1>3, <2>8, <2>9
<1>7. g.joint => C \subseteq act \ (gone \cup more) BY <1>6 DEF Detected
<1>8. (fs \cup local \cup L) \cup (fg \cup N) = gone \cup more OBVIOUS
<1>9. /\ (fs \cup local \cup L) \cup (fg \cup N) \subseteq act
      /\ (fs \cup local \cup L) \cap (fg \cup N) = {}
      /\ (fs \cup local \cup L) \cap g.positive = {}
      /\ fs \cap (local \cup L) = {} /\ local \cap L = {}
  <2>1. left \cap fs = {} /\ left \cap fg = {} /\ left \subseteq act BY <1>0
  <2>2. local \subseteq left /\ L \subseteq left /\ N \subseteq left BY <1>1, <1>2
  <2> QED BY <1>1, <1>2, <1>4, <2>1, <2>2
<1>10. \A b \in Rows :
         /\ Less(g, PartOf(g, act, b), PartOf(g, act \ ((fs \cup local \cup L) \cup (fg \cup N)), b))
         /\ Going(g, PartOf(g, act \ ((fs \cup local \cup L) \cup (fg \cup N)), b), g.units, g.zeros) = {}
  BY <1>5, <1>8
<1>11. g.joint => CoreOf(g) \subseteq act \ ((fs \cup local \cup L) \cup (fg \cup N))
  BY <1>7, <1>8
<1> QED BY <1>9, <1>10, <1>11 DEF Detected

-----------------------------------------------------------------------------
(* The stages of the model on these data.                                     *)

Geo == [dirs |-> Directions, positive |-> positive, groups |-> Groups, drop |-> setting.drop,
        part |-> IF Blocks THEN design.component ELSE [r \in Rows |-> 1],
        units |-> FrequencyUnits, zeros |-> setting.unified /\ "fe" \in setting.methods,
        joint |-> setting.unified \/ ~setting.fweight]

LEMMA GeoSame ==
  ASSUME UNCHANGED args
  PROVE  /\ Geo' = Geo /\ setting' = setting /\ design' = design /\ positive' = positive /\ unit' = unit
         /\ Blocks' = Blocks /\ Components' = Components /\ FeZeroPeeling' = FeZeroPeeling
         /\ InitialUnits' = InitialUnits /\ FrequencyUnits' = FrequencyUnits
<1>1. setting' = setting /\ design' = design /\ positive' = positive /\ unit' = unit
  BY DEF args
<1>2. Directions' = Directions /\ Groups' = Groups BY <1>1 DEF Directions, Groups
<1>3. Blocks' = Blocks BY <1>1 DEF Blocks
<1>4. FrequencyUnits' = FrequencyUnits BY <1>1 DEF FrequencyUnits
<1>5. Geo' = Geo BY <1>1, <1>2, <1>3, <1>4 DEF Geo
<1>6. Components' = Components BY <1>1, <1>3 DEF Components
<1>7. FeZeroPeeling' = FeZeroPeeling /\ InitialUnits' = InitialUnits
  BY <1>1, <1>4 DEF FeZeroPeeling, InitialUnits
<1> QED BY <1>1, <1>3, <1>4, <1>5, <1>6, <1>7

LEMMA GeoFields ==
  ASSUME Given
  PROVE  /\ Geo.dirs = Directions /\ Geo.positive = positive /\ Geo.groups = Groups
         /\ Geo.drop = setting.drop /\ Geo.units = FrequencyUnits
         /\ Geo.part = IF Blocks THEN design.component ELSE [r \in Rows |-> 1]
         /\ Geo.zeros \in BOOLEAN /\ (Geo.zeros <=> setting.unified /\ "fe" \in setting.methods)
         /\ Geo.joint \in BOOLEAN /\ (Geo.joint <=> setting.unified \/ ~setting.fweight)
BY DEF Geo

LEMMA SettingFields ==
  ASSUME Given
  PROVE  /\ setting.iv \in BOOLEAN /\ setting.block \in BOOLEAN /\ setting.unified \in BOOLEAN
         /\ setting.drop \in BOOLEAN /\ setting.strict \in BOOLEAN /\ setting.fweight \in BOOLEAN
         /\ setting.methods \in SUBSET Methods
BY GivenFacts DEF SettingType

LEMMA PartOfOne ==
  ASSUME Given, ~Blocks, NEW A \in SUBSET Rows, NEW c
  PROVE  PartOf(Geo, A, c) = IF c = 1 THEN A ELSE {}
<1>1. Geo.part = [r \in Rows |-> 1] BY GeoFields
<1> QED BY <1>1 DEF PartOf

LEMMA PartOfBlock ==
  ASSUME Given, Blocks, NEW A \in SUBSET Rows, NEW c
  PROVE  PartOf(Geo, A, c) = {r \in A : design.component[r] = c}
<1>1. Geo.part = design.component BY GeoFields
<1> QED BY <1>1 DEF PartOf

LEMMA GeoSound ==
  ASSUME Given
  PROVE  Sound(Geo)
<1>1. /\ Geo.dirs = Directions /\ Geo.positive = positive /\ Geo.groups = Groups /\ Geo.drop = setting.drop
      /\ Geo.part = IF Blocks THEN design.component ELSE [r \in Rows |-> 1]
  BY GeoFields
<1>2. /\ NObs \in Nat \ {0} /\ IsFiniteSet(Rows) /\ positive \in SUBSET Rows
      /\ design.component \in [Rows -> Rows] /\ (setting.block => design.code # <<>>)
  BY GivenFacts DEF IsDesign
<1>3. Spans(Geo.dirs, Geo.groups) BY <1>1, DirectionsSpan
<1>4. Geo.part \in [Rows -> Rows]
  <2>1. 1 \in Rows BY <1>2 DEF Rows
  <2> QED BY <1>1, <1>2, <2>1
<1>5. ASSUME NEW A \in SUBSET Rows, NEW c \in Rows, NEW ones, NEW zeros
      PROVE  Going(Geo, PartOf(Geo, A, c), ones, zeros) \subseteq Going(Geo, A, ones, zeros)
  <2>1. CASE Blocks
    <3>1. design.code # <<>> BY <1>2, <2>1 DEF Blocks
    <3>2. PartOf(Geo, A, c) = {r \in A : design.component[r] = c} BY <2>1, PartOfBlock
    <3>3. Goes(Groups, positive, setting.drop, {r \in A : design.component[r] = c}, ones, zeros)
            \subseteq Goes(Groups, positive, setting.drop, A, ones, zeros)
      BY <3>1, PeelsAlone
    <3> QED BY <1>1, <3>2, <3>3 DEF Going
  <2>2. CASE ~Blocks
    <3>1. PartOf(Geo, A, c) = A \/ PartOf(Geo, A, c) = {} BY <2>2, PartOfOne
    <3>2. Going(Geo, {}, ones, zeros) = {} BY DEF Going, Goes
    <3> QED BY <3>1, <3>2
  <2> QED BY <2>1, <2>2
<1> QED BY <1>1, <1>2, <1>3, <1>4, <1>5 DEF Sound

\* A method that looks at columns finds parts that share none.
LEMMA GeoApart ==
  ASSUME Given, setting.methods \cap {"simplex", "relu"} # {}
  PROVE  Apart(Geo)
<1>1. Geo.dirs = Directions /\ Geo.positive = positive BY GeoFields
<1>2. ASSUME NEW A \in SUBSET Rows, NEW c \in Rows
      PROVE  Sep(Geo, PartOf(Geo, A, c)) \subseteq Sep(Geo, A)
  <2>1. CASE Blocks
    <3>1. design.disjoint BY <2>1 DEF Blocks
    <3>2. PartOf(Geo, A, c) = {r \in A : design.component[r] = c} BY <2>1, PartOfBlock
    <3> QED BY <1>1, <3>1, <3>2, PartsAlone DEF Sep
  <2>2. CASE ~Blocks
    <3>1. PartOf(Geo, A, c) = A \/ PartOf(Geo, A, c) = {} BY <2>2, PartOfOne
    <3>2. Sep(Geo, {}) = {} BY DEF Sep, SeparatedBy
    <3> QED BY <3>1, <3>2
  <2> QED BY <2>1, <2>2
<1> QED BY <1>2 DEF Apart

LEMMA SeparatedIs ==
  ASSUME Given, NEW A
  PROVE  /\ Separated(A) = Sep(Geo, A)
         /\ \A s \in Supports(A) : s \subseteq Sep(Geo, A)
<1>1. Geo.dirs = Directions /\ Geo.positive = positive BY GeoFields
<1>2. Supports(A) = {{r \in A : p[r] > 0} : p \in ValidOn(Directions, positive, A)}
  BY DEF Supports, ValidOn
<1>3. UNION Supports(A) = SeparatedBy(Directions, positive, A) BY <1>2 DEF SeparatedBy
<1>4. UNION Supports(A) = Sep(Geo, A) BY <1>1, <1>3 DEF Sep
<1>5. \A s \in Supports(A) : s \subseteq UNION Supports(A) OBVIOUS
<1> QED BY <1>4, <1>5 DEF Separated

LEMMA TriggeredIs ==
  ASSUME Given, NEW A, NEW ones, NEW zeros
  PROVE  Triggered(A, ones, zeros) = Going(Geo, A, ones, zeros)
<1>1. Geo.positive = positive /\ Geo.groups = Groups /\ Geo.drop = setting.drop BY GeoFields
<1>2. \A r : AllZero(A, r) <=> ZeroIn(Groups, positive, A, r) BY DEF AllZero, ZeroIn, Level, LevelIn
<1>3. \A r : Alone(A, ones, r) <=> AloneIn(Groups, A, ones, r) BY DEF Alone, AloneIn, Level, LevelIn
<1> QED BY <1>1, <1>2, <1>3 DEF Triggered, Going, Goes

LEMMA KeepIs ==
  ASSUME Given, NEW A, NEW ones, NEW zeros
  PROVE  Keep(A, ones, zeros) = Staying(Geo, A, ones, zeros)
<1>1. Geo.positive = positive /\ Geo.groups = Groups /\ Geo.drop = setting.drop BY GeoFields
<1>2. \A S \in SUBSET A : Triggered(S, ones, zeros) = Goes(Geo.groups, Geo.positive, Geo.drop, S, ones, zeros)
  BY TriggeredIs DEF Going
<1> QED BY <1>2 DEF Keep, Staying, Stays

LEMMA AllZeroIs ==
  ASSUME Given, NEW A, NEW r
  PROVE  AllZero(A, r) <=> ZeroIn(Geo.groups, Geo.positive, A, r)
<1>1. Geo.positive = positive /\ Geo.groups = Groups BY GeoFields
<1> QED BY <1>1 DEF AllZero, ZeroIn, Level, LevelIn

\* Labels are given to rows that were removed and have a zero outcome.
LEMMA LabelsAre ==
  ASSUME NEW A, NEW K, NEW zeros, NEW L \in SeparatedLabels(A, K, zeros)
  PROVE  L \subseteq A \ K /\ L \cap positive = {} /\ (~zeros => L = {})
<1>1. CASE ~zeros BY <1>1 DEF SeparatedLabels
<1>2. CASE zeros
  <2>1. L \in SUBSET (A \ K) /\ \A r \in L : AllZero(K \cup {r}, r) BY <1>2 DEF SeparatedLabels
  <2>2. ASSUME NEW r \in L, r \in positive PROVE FALSE
    <3>1. PICK j \in DOMAIN Groups : Level(K \cup {r}, j, r) \cap positive = {} BY <2>1 DEF AllZero
    <3>2. r \in Level(K \cup {r}, j, r) BY DEF Level
    <3> QED BY <2>2, <3>1, <3>2
  <2> QED BY <1>2, <2>1, <2>2
<1> QED BY <1>1, <1>2

\* What a method removes and what is peeled with it.
NewIn(m, left, local) == IF local = {} THEN {[separated |-> {}, singletons |-> {}]}
                         ELSE Repeel(m, left \ local)

LEMMA RepeelTrims ==
  ASSUME Given, NEW m \in {"simplex", "relu"}, NEW left \in SUBSET Rows,
         Going(Geo, left, Geo.units, Geo.zeros) = {}, NEW local, local \subseteq Sep(Geo, left),
         NEW new \in NewIn(m, left, local)
  PROVE  /\ Trims(Geo, left, local, new.separated, new.singletons)
         /\ new.separated # {} => "fe" \in setting.methods
<1>0. /\ Geo.units = FrequencyUnits /\ Geo.positive = positive /\ Geo.drop = setting.drop
      /\ Geo.zeros \in BOOLEAN /\ (Geo.zeros <=> setting.unified /\ "fe" \in setting.methods)
  BY GeoFields
<1> PICK after : after = left \ local OBVIOUS
<1> PICK K : K = Staying(Geo, after, Geo.units, Geo.zeros) OBVIOUS
<1>1. CASE local = {}
  <2>1. new.separated = {} /\ new.singletons = {} BY <1>1 DEF NewIn
  <2>2. after = left BY <1>1
  <2>3. left \in SUBSET left OBVIOUS
  <2>4. left \subseteq Staying(Geo, left, Geo.units, Geo.zeros) BY <2>3, StayMost
  <2>5. (left \ local) \ Staying(Geo, left \ local, Geo.units, Geo.zeros) = {} BY <1>1, <2>4
  <2> QED BY <2>1, <2>5 DEF Trims
<1>2. CASE local # {} /\ setting.unified
  <2> DEFINE zeroCheck == "fe" \in setting.methods
             kept == Keep(after, FrequencyUnits, zeroCheck)
  <2>1. new \in {[separated |-> L, singletons |-> (after \ kept) \ L] : L \in SeparatedLabels(after, kept, zeroCheck)}
    BY <1>2 DEF NewIn, Repeel
  <2>2. zeroCheck = Geo.zeros BY <1>0, <1>2
  <2>3. Keep(after, FrequencyUnits, Geo.zeros) = K BY <1>0, KeepIs
  <2>4. kept = K BY <2>2, <2>3
  <2> HIDE DEF kept
  <2>5. PICK L \in SeparatedLabels(after, kept, zeroCheck) :
          new = [separated |-> L, singletons |-> (after \ kept) \ L]
    BY <2>1
  <2>6. L \subseteq after \ kept /\ L \cap positive = {} /\ (~zeroCheck => L = {})
    <3> PICK z : z = zeroCheck OBVIOUS
    <3>1. L \in SeparatedLabels(after, kept, z) OBVIOUS
    <3>2. L \subseteq after \ kept /\ L \cap positive = {} /\ (~z => L = {}) BY ONLY <3>1, LabelsAre
    <3> QED BY <3>2
  <2>7. new.separated = L /\ new.singletons = (after \ K) \ L BY <2>4, <2>5
  <2> QED BY <1>0, <2>4, <2>6, <2>7 DEF Trims
<1>3. CASE local # {} /\ ~setting.unified
  <2> DEFINE new1 == [separated |-> {}, singletons |-> IF m # "fe" /\ setting.drop
                                                      THEN after \ Keep(after, FrequencyUnits, FALSE) ELSE {}]
  <2>p. Repeel(m, after) = {new1} BY <1>3, Zenon DEF Repeel
  <2>q. new \in Repeel(m, after) BY <1>3 DEF NewIn
  <2>r. new = new1 BY <2>p, <2>q
  <2>1. new.separated = {}
        /\ new.singletons = IF m # "fe" /\ setting.drop THEN after \ Keep(after, FrequencyUnits, FALSE) ELSE {}
    BY <2>r
  <2> HIDE DEF new1
  <2>2. Geo.zeros = FALSE BY <1>0, <1>3
  <2>3. Keep(after, FrequencyUnits, Geo.zeros) = K BY <1>0, KeepIs
  <2>4. Keep(after, FrequencyUnits, FALSE) = K BY <2>2, <2>3
  <2>5. K \subseteq after BY StayStable
  <2>6. ~setting.drop => K = after
    <3> SUFFICES ASSUME ~setting.drop PROVE K = after OBVIOUS
    <3>1. Going(Geo, after, Geo.units, Geo.zeros) = {} BY <1>0, <2>2 DEF Going, Goes
    <3>2. after \in SUBSET after OBVIOUS
    <3> QED BY <2>5, <3>1, <3>2, StayMost
  <2>7. new.singletons = after \ K BY <2>1, <2>4, <2>6
  <2> QED BY <2>1, <2>7 DEF Trims
<1> QED BY <1>1, <1>2, <1>3

-----------------------------------------------------------------------------
(* The invariant.                                                             *)

Removed == full.separated \cup full.singletons

\* The initial stage peeled the data as its policy says.
FirstStage ==
  /\ active0 = Staying(Geo, Rows, InitialUnits, FeZeroPeeling)
  /\ initial.singletons \cup initial.separated = Rows \ active0
  /\ initial.singletons \cap initial.separated = {} /\ initial.separated \cap positive = {}
  /\ initial.nfe \in 0..Cardinality(Rows \ active0)
  /\ initial.nfe # 0 => "fe" \in setting.methods

\* Parts the detection has yet to come to, and parts ReLU has seen.
Untouched(c) == c > component \/ (c = component /\ "fe" \in todo)
Passed(c) == c < component \/ (c = component /\ "relu" \notin todo)
LeftIn(c) == PartOf(Geo, active0 \ Removed, c)
UntouchedParts == \A c \in Rows : Untouched(c) => PartOf(Geo, Removed, c) = {}
PassedParts == certified /\ "relu" \in setting.methods =>
                 \A c \in Rows : Passed(c) => Sep(Geo, LeftIn(c)) = {}

\* The counts of the methods stand for the rows they separated.
Counted == counts["fe"] + counts["simplex"] + counts["relu"]
CountsOK ==
  /\ counts \in [Methods -> 0..NObs]
  /\ \A m \in Methods \ setting.methods : counts[m] = 0
  /\ stage \in {"select", "detect", "method"} =>
       Counted = Cardinality(full.separated) /\ counts["mu"] = 0
  /\ stage \in {"irls", "irls_after_mu", "done"} =>
       Counted = Cardinality(full.separated) + initial.nfe
  /\ stage \in {"irls", "irls_after_mu"} => counts["mu"] = 0
  /\ stage = "done" => counts["mu"] = Cardinality(trimmed.mu)

\* The sample a fit runs on and the mask it reports.
Outcome ==
  /\ certified /\ "relu" \in setting.methods => Sep(Geo, active0 \ Removed) = {}
  /\ trimmed.mu \cup trimmed.singletons \subseteq active0 \ Removed
  /\ trimmed.mu \cap trimmed.singletons = {} /\ trimmed.mu \cap positive = {}
  /\ setting.iv \/ trimmed.mu = {} => trimmed.singletons = {}
  /\ trimmed.mu # {} => "mu" \in setting.methods
  /\ sample = (active0 \ Removed) \ (IF setting.iv THEN {} ELSE trimmed.mu \cup trimmed.singletons)
  /\ separation = initial.separated \cup trimmed.mu
                    \cup IF setting.iv /\ ~setting.unified THEN Removed ELSE full.separated
  /\ Going(Geo, sample, Geo.units, Geo.zeros) = {}
  /\ stage = "irls" => trimmed.mu = {}

StageNames == {"select", "detect", "method", "irls", "irls_after_mu", "done",
               "empty", "no_finite", "uncertified", "not_identified", "not_converged"}
Shaped ==
  /\ active0 \in SUBSET Rows
  /\ initial \in [singletons : SUBSET Rows, separated : SUBSET Rows, nfe : 0..NObs]
  /\ todo \subseteq setting.methods /\ component \in 0..NObs
  /\ ~Blocks => component \in {0, 1}
  /\ stage = "method" => component # 0
  /\ full \in [separated : SUBSET Rows, singletons : SUBSET Rows]
  /\ certified \in BOOLEAN
  /\ sample \subseteq Rows /\ separation \subseteq Rows
  /\ trimmed \in [mu : SUBSET Rows, singletons : SUBSET Rows]
  /\ stage \in StageNames

Unselected ==
  /\ active0 = Rows /\ component = 0 /\ todo = {}
  /\ initial = [singletons |-> {}, separated |-> {}, nfe |-> 0]
  /\ full = [separated |-> {}, singletons |-> {}]
  /\ trimmed = [mu |-> {}, singletons |-> {}]

StagesInv ==
  /\ Given /\ Shaped /\ CountsOK
  /\ stage = "select" => Unselected
  /\ stage # "select" => FirstStage /\ Detected(Geo, active0, full.separated, full.singletons)
  /\ stage \in {"detect", "method"} =>
       UntouchedParts /\ PassedParts /\ trimmed = [mu |-> {}, singletons |-> {}]
  /\ stage \in {"irls", "irls_after_mu", "done"} => Outcome

-----------------------------------------------------------------------------
(* Every step keeps the invariant.                                            *)

LEMMA DataKept ==
  ASSUME StagesInv, UNCHANGED <<args, active0, initial>>
  PROVE  /\ Given' /\ (FirstStage => FirstStage')
         /\ Geo' = Geo /\ setting' = setting /\ Blocks' = Blocks /\ positive' = positive
<1>1. /\ Geo' = Geo /\ setting' = setting /\ design' = design /\ positive' = positive /\ unit' = unit
      /\ Blocks' = Blocks /\ FeZeroPeeling' = FeZeroPeeling /\ InitialUnits' = InitialUnits
  BY GeoSame
<1>2. Given BY DEF StagesInv
<1>3. Given' BY <1>1, <1>2 DEF Given
<1>4. FirstStage => FirstStage' BY <1>1 DEF FirstStage
<1> QED BY <1>1, <1>3, <1>4

\* The stages that end a fit early.
LEMMA EndsEarly ==
  ASSUME StagesInv, stage # "select",
         UNCHANGED <<args, active0, initial, component, todo, full, sample, separation, trimmed>>,
         certified' \in BOOLEAN, counts' \in [Methods -> 0..NObs],
         \A m \in Methods \ setting.methods : counts'[m] = 0,
         stage' \in {"no_finite", "uncertified", "not_identified", "not_converged"}
  PROVE  StagesInv'
<1>1. /\ Given' /\ (FirstStage => FirstStage') /\ Geo' = Geo /\ setting' = setting /\ Blocks' = Blocks
  BY DataKept
<1>2. Shaped' BY <1>1 DEF StagesInv, Shaped, StageNames
<1>3. CountsOK' BY <1>1 DEF CountsOK
<1>4. FirstStage' BY <1>1 DEF StagesInv
<1>5. Detected(Geo, active0, full.separated, full.singletons)'
  <2>1. Detected(Geo, active0, full.separated, full.singletons) BY DEF StagesInv
  <2> QED BY <1>1, <2>1
<1> QED BY <1>1, <1>2, <1>3, <1>4, <1>5 DEF StagesInv

LEMMA StageFails ==
  ASSUME StagesInv, stage # "select", NEW how \in {"not_identified", "not_converged"}, Fail(how)
  PROVE  StagesInv'
<1>1. /\ UNCHANGED <<args, active0, initial, component, todo, full, sample, separation, trimmed>>
      /\ certified' = certified /\ counts' = counts /\ stage' = how
  BY DEF Fail, detection
<1>2. certified' \in BOOLEAN /\ counts' \in [Methods -> 0..NObs]
      /\ \A m \in Methods \ setting.methods : counts'[m] = 0
  BY <1>1 DEF StagesInv, Shaped, CountsOK
<1> QED BY <1>1, <1>2, EndsEarly

LEMMA CountsZero ==
  ASSUME NObs \in Nat, counts = [m \in Methods |-> 0], full.separated = {}, stage = "select"
  PROVE  CountsOK
<1>1. Cardinality({}) = 0 BY FS_EmptySet
<1>2. counts["fe"] = 0 /\ counts["simplex"] = 0 /\ counts["relu"] = 0 /\ counts["mu"] = 0
  BY DEF Methods
<1>3. \A m \in Methods : counts[m] = 0 OBVIOUS
<1>4. Counted = 0 BY <1>2 DEF Counted
<1> QED BY <1>1, <1>2, <1>3, <1>4 DEF CountsOK

LEMMA StagesInit == SampleInit => StagesInv
<1> SUFFICES ASSUME SampleInit PROVE StagesInv OBVIOUS
<1>1. Given BY DEF SampleInit, Given
<1>2. stage = "select" /\ Unselected /\ certified = TRUE /\ sample = {} /\ separation = {}
  BY DEF SampleInit, Unselected
<1>3. NObs \in Nat BY PoissonAssumption
<1>4. Shaped
  <2>1. 0 \in 0..NObs BY <1>3
  <2> QED BY <1>2, <2>1 DEF Shaped, Unselected, StageNames
<1>5. CountsOK
  <2>1. counts = [m \in Methods |-> 0] BY DEF SampleInit
  <2> QED BY <1>2, <1>3, <2>1, CountsZero DEF Unselected
<1> QED BY <1>1, <1>2, <1>4, <1>5 DEF StagesInv

-----------------------------------------------------------------------------
(* The initial stage.                                                         *)

\* More rows of one and a zero check: fewer rows stay.
LEMMA StaysLess ==
  ASSUME NEW g, NEW A, NEW ones, NEW zeros
  PROVE  Staying(g, A, ones, zeros) \subseteq Staying(g, A, ones, FALSE)
<1> PICK K : K = Staying(g, A, ones, zeros) OBVIOUS
<1>1. K \in SUBSET A /\ Going(g, K, ones, zeros) = {} BY StayStable
<1>2. Going(g, K, ones, FALSE) = {} BY <1>1 DEF Going, Goes
<1> PICK z : z = FALSE OBVIOUS
<1>3. Going(g, K, ones, z) = {} BY <1>2
<1>4. K \subseteq Staying(g, A, ones, z) BY <1>1, <1>3, StayMost
<1> QED BY <1>4

\* What stays in unified mode, or in frequencies when nothing repeats, is what a
\* peel in frequencies leaves; in any mode it is stable in frequencies.
LEMMA FirstStable ==
  ASSUME Given, NEW kept, kept = Staying(Geo, Rows, InitialUnits, FeZeroPeeling)
  PROVE  /\ kept \in SUBSET Rows
         /\ Going(Geo, kept, Geo.units, Geo.zeros) = {}
         /\ Geo.joint => CoreOf(Geo) \subseteq kept
         /\ Less(Geo, Rows, kept)
<1>0. /\ Geo.units = FrequencyUnits /\ Geo.drop = setting.drop
      /\ Geo.zeros \in BOOLEAN /\ (Geo.zeros <=> setting.unified /\ "fe" \in setting.methods)
      /\ Geo.joint \in BOOLEAN /\ (Geo.joint <=> setting.unified \/ ~setting.fweight)
  BY GeoFields
<1>1. Rows \in SUBSET Rows /\ Sound(Geo) BY GeoSound
<1>2. kept \in SUBSET Rows /\ Going(Geo, kept, InitialUnits, FeZeroPeeling) = {} BY StayStable
<1>3. Less(Geo, Rows, kept) BY <1>1, StayLess
<1>4. FrequencyUnits \subseteq InitialUnits /\ (Geo.joint => InitialUnits = Geo.units)
  BY <1>0, GivenFacts DEF FrequencyUnits, InitialUnits
<1>5. Geo.zeros => FeZeroPeeling BY <1>0 DEF FeZeroPeeling
<1>6. Going(Geo, kept, Geo.units, Geo.zeros) = {}
  <2>1. Going(Geo, kept, Geo.units, Geo.zeros) \subseteq Going(Geo, kept, InitialUnits, FeZeroPeeling)
    BY <1>0, <1>4, <1>5 DEF Going, Goes, AloneIn
  <2> QED BY <1>2, <2>1
<1>7. ASSUME Geo.joint PROVE CoreOf(Geo) \subseteq kept
  <2> PICK C : C = CoreOf(Geo) OBVIOUS
  <2>1. C \subseteq Rows /\ \A A \in SUBSET Rows : \A zeros : C \subseteq A => C \subseteq Staying(Geo, A, Geo.units, zeros)
    BY <1>1, CoreFacts
  <2>2. C \subseteq Staying(Geo, Rows, Geo.units, FeZeroPeeling) BY <1>1, <2>1
  <2> QED BY <1>4, <1>7, <2>2
<1> QED BY <1>2, <1>3, <1>6, <1>7

\* At first nothing is missing from any part.
LEMMA DetectedFirst ==
  ASSUME Given, NEW kept, kept = Staying(Geo, Rows, InitialUnits, FeZeroPeeling)
  PROVE  Detected(Geo, kept, {}, {})
<1>1. /\ kept \in SUBSET Rows
      /\ Going(Geo, kept, Geo.units, Geo.zeros) = {}
      /\ Geo.joint => CoreOf(Geo) \subseteq kept
  BY FirstStable
<1>2. kept \ ({} \cup {}) = kept OBVIOUS
<1>3. ASSUME NEW c \in Rows
      PROVE  /\ Less(Geo, PartOf(Geo, kept, c), PartOf(Geo, kept, c))
             /\ Going(Geo, PartOf(Geo, kept, c), Geo.units, Geo.zeros) = {}
  <2>1. Less(Geo, PartOf(Geo, kept, c), PartOf(Geo, kept, c)) BY DEF Less, Reduces
  <2>2. Sound(Geo) BY GeoSound
  <2>3. \A ones, zeros : Going(Geo, PartOf(Geo, kept, c), ones, zeros) \subseteq Going(Geo, kept, ones, zeros)
    BY <1>1, <2>2 DEF Sound
  <2> QED BY <1>1, <2>1, <2>3
<1> QED BY <1>1, <1>2, <1>3 DEF Detected

LEMMA CardsOf ==
  ASSUME Given, NEW A \in SUBSET Rows
  PROVE  IsFiniteSet(A) /\ Cardinality(A) \in 0..NObs
<1>1. IsFiniteSet(Rows) /\ Cardinality(Rows) = NObs /\ NObs \in Nat
  <2>1. NObs \in Nat \ {0} BY GivenFacts
  <2> QED BY <2>1, FS_Interval DEF Rows
<1> QED BY <1>1, FS_Subset, FS_CardinalityType

LEMMA CountOfFe ==
  ASSUME Given, ~setting.unified, NEW kept, kept = Keep(Rows, InitialUnits, FeZeroPeeling)
  PROVE  /\ CountFe(Rows \ kept) \in 0..Cardinality(Rows \ kept)
         /\ CountFe(Rows \ kept) # 0 => "fe" \in setting.methods
<1> PICK K : K = Keep(Rows, Rows, FALSE) OBVIOUS
<1>1. InitialUnits = Rows BY DEF InitialUnits
<1>2. kept = Staying(Geo, Rows, Rows, FeZeroPeeling) /\ K = Staying(Geo, Rows, Rows, FALSE)
  BY <1>1, KeepIs
<1>3. kept \subseteq K BY <1>2, StaysLess
<1>4. K \subseteq Rows
  <2> PICK z : z = FALSE OBVIOUS
  <2>1. K = Staying(Geo, Rows, Rows, z) BY <1>2
  <2> QED BY <2>1, StayStable
<1>5. Rows \ kept \in SUBSET Rows /\ Rows \ K \in SUBSET (Rows \ kept) BY <1>3
<1>6. IsFiniteSet(Rows \ kept) /\ Cardinality(Rows \ kept) \in Nat
  <2>1. IsFiniteSet(Rows \ kept) BY <1>5, CardsOf
  <2> QED BY <2>1, FS_CardinalityType
<1>7. Cardinality(Rows \ K) <= Cardinality(Rows \ kept) /\ Cardinality(Rows \ K) \in Nat
  BY <1>5, <1>6, FS_Subset, FS_CardinalityType
<1>8. CountFe(Rows \ kept) = Cardinality(Rows \ kept) - Cardinality(Rows \ K) BY DEF CountFe
<1>9. CountFe(Rows \ kept) # 0 => "fe" \in setting.methods
  <2> SUFFICES ASSUME "fe" \notin setting.methods PROVE CountFe(Rows \ kept) = 0 OBVIOUS
  <2>1. FeZeroPeeling = FALSE BY DEF FeZeroPeeling
  <2>2. kept = K BY <1>1, <2>1
  <2> QED BY <1>7, <1>8, <2>2
<1> QED BY <1>6, <1>7, <1>8, <1>9

\* The masks of the initial stage, in both modes.
LEMMA FirstMasks ==
  ASSUME Given, SelectInitial
  PROVE  /\ active0' = Staying(Geo, Rows, InitialUnits, FeZeroPeeling)
         /\ initial'.singletons \cup initial'.separated = Rows \ active0'
         /\ initial'.singletons \cap initial'.separated = {} /\ initial'.separated \cap positive = {}
         /\ initial'.nfe \in 0..Cardinality(Rows \ active0')
         /\ initial'.nfe # 0 => "fe" \in setting.methods
         /\ DOMAIN initial' = {"singletons", "separated", "nfe"}
         /\ initial' = [singletons |-> initial'.singletons, separated |-> initial'.separated,
                        nfe |-> initial'.nfe]
<1> PICK kept : kept = Keep(Rows, InitialUnits, FeZeroPeeling) OBVIOUS
<1> PICK dropped : dropped = Rows \ kept OBVIOUS
<1>1. kept = Staying(Geo, Rows, InitialUnits, FeZeroPeeling) BY KeepIs
<1>2. active0' = kept BY DEF SelectInitial
<1>3. CASE setting.unified
  <2>1. \E L \in SeparatedLabels(Rows, kept, FeZeroPeeling) :
          initial' = [singletons |-> dropped \ L, separated |-> L, nfe |-> Cardinality(L)]
    BY <1>3 DEF SelectInitial
  <2>2. PICK L \in SeparatedLabels(Rows, kept, FeZeroPeeling) :
          initial' = [singletons |-> dropped \ L, separated |-> L, nfe |-> Cardinality(L)]
    BY <2>1
  <2>3. L \subseteq Rows \ kept /\ L \cap positive = {} /\ (~FeZeroPeeling => L = {}) BY LabelsAre
  <2>4. dropped \in SUBSET Rows /\ IsFiniteSet(dropped) BY CardsOf
  <2>5. Cardinality(L) \in 0..Cardinality(dropped)
    <3>1. L \in SUBSET dropped BY <2>3
    <3> QED BY <2>4, <3>1, FS_Subset, FS_CardinalityType
  <2>6. Cardinality(L) # 0 => "fe" \in setting.methods
    BY <2>3, FS_EmptySet DEF FeZeroPeeling
  <2> QED BY <1>1, <1>2, <2>2, <2>3, <2>5, <2>6
<1>4. CASE ~setting.unified
  <2>1. initial' = [singletons |-> dropped, separated |-> {}, nfe |-> CountFe(dropped)]
    BY <1>4 DEF SelectInitial
  <2>2. CountFe(dropped) \in 0..Cardinality(Rows \ kept) /\ (CountFe(dropped) # 0 => "fe" \in setting.methods)
    BY <1>4, CountOfFe
  <2> QED BY <1>1, <1>2, <2>1, <2>2
<1> QED BY <1>3, <1>4

LEMMA SelectKeeps ==
  ASSUME StagesInv, SelectInitial
  PROVE  StagesInv'
<1>1. stage = "select" /\ Unselected /\ Given /\ Shaped /\ CountsOK BY DEF StagesInv, SelectInitial
<1>2. /\ UNCHANGED args /\ component' = 0 /\ todo' = todo /\ full' = full /\ counts' = counts
      /\ certified' = certified /\ sample' = sample /\ separation' = separation /\ trimmed' = trimmed
      /\ stage' \in {"detect", "no_finite", "empty"}
  BY DEF SelectInitial
<1>3. /\ Geo' = Geo /\ setting' = setting /\ design' = design /\ positive' = positive /\ unit' = unit
      /\ Blocks' = Blocks /\ FeZeroPeeling' = FeZeroPeeling /\ InitialUnits' = InitialUnits
  BY <1>2, GeoSame
<1>4. /\ active0' = Staying(Geo, Rows, InitialUnits, FeZeroPeeling)
      /\ initial'.singletons \cup initial'.separated = Rows \ active0'
      /\ initial'.singletons \cap initial'.separated = {} /\ initial'.separated \cap positive = {}
      /\ initial'.nfe \in 0..Cardinality(Rows \ active0')
      /\ initial'.nfe # 0 => "fe" \in setting.methods
  BY <1>1, FirstMasks
<1>5. initial' = [singletons |-> initial'.singletons, separated |-> initial'.separated,
                  nfe |-> initial'.nfe]
  BY <1>1, FirstMasks
<1>6. active0' \in SUBSET Rows BY <1>4, StayStable
<1>7. Given' BY <1>1, <1>3 DEF Given
<1>8. FirstStage' BY <1>3, <1>4 DEF FirstStage
<1>9. NObs \in Nat \ {0} /\ Cardinality(Rows \ active0') \in 0..NObs BY <1>1, <1>6, GivenFacts, CardsOf
<1>10. Shaped'
  <2>1. initial' \in [singletons : SUBSET Rows, separated : SUBSET Rows, nfe : 0..NObs]
    <3>1. initial'.singletons \in SUBSET Rows /\ initial'.separated \in SUBSET Rows BY <1>4
    <3>2. initial'.nfe \in 0..NObs BY <1>4, <1>9
    <3> QED BY <1>5, <3>1, <3>2
  <2>2. todo' = {} /\ component' \in 0..NObs /\ component' \in {0, 1} BY <1>1, <1>2, <1>9 DEF Unselected
  <2> QED BY <1>1, <1>2, <1>3, <1>6, <2>1, <2>2 DEF Shaped, StageNames
<1>11. CountsOK'
  <2>1. Counted' = Counted /\ full'.separated = full.separated BY <1>2 DEF Counted
  <2> QED BY <1>1, <1>2, <1>3, <2>1 DEF CountsOK
<1>12. full.separated = {} /\ full.singletons = {} /\ Removed' = {}
       /\ trimmed' = [mu |-> {}, singletons |-> {}]
  BY <1>1, <1>2 DEF Unselected, Removed
<1>13. Detected(Geo, active0, full.separated, full.singletons)'
  <2>1. Detected(Geo, active0', {}, {}) BY <1>1, <1>4, DetectedFirst
  <2> QED BY <1>2, <1>3, <1>12, <2>1
<1>14. UntouchedParts' /\ PassedParts'
  <2>1. \A c \in Rows : PartOf(Geo', Removed', c) = {} BY <1>12 DEF PartOf
  <2>2. \A c \in Rows : ~Passed(c)' BY <1>2 DEF Passed, Rows
  <2> QED BY <2>1, <2>2 DEF UntouchedParts, PassedParts
<1> QED BY <1>2, <1>7, <1>8, <1>10, <1>11, <1>12, <1>13, <1>14 DEF StagesInv

-----------------------------------------------------------------------------
(* The components.                                                            *)

LEMMA ComponentsIn ==
  ASSUME Given
  PROVE  /\ Blocks => Components \subseteq Rows
         /\ ~Blocks => Components = {0}
         /\ Blocks => \A A \in SUBSET Rows, c \in Rows : c \notin Components => PartOf(Geo, A, c) = {}
<1>1. design.component \in [Rows -> Rows] BY GivenFacts DEF IsDesign
<1>2. Blocks => Components = {design.component[r] : r \in Rows} BY DEF Components
<1>3. ASSUME Blocks, NEW A \in SUBSET Rows, NEW c \in Rows, c \notin Components
      PROVE  PartOf(Geo, A, c) = {}
  BY <1>2, <1>3, PartOfBlock
<1> QED BY <1>1, <1>2, <1>3 DEF Components

LEMMA ComponentKeeps ==
  ASSUME StagesInv, StartComponent
  PROVE  StagesInv'
<1>1. /\ stage = "detect" /\ todo = {} /\ Given /\ Shaped /\ CountsOK /\ UntouchedParts /\ PassedParts
      /\ trimmed = [mu |-> {}, singletons |-> {}]
  BY DEF StagesInv, StartComponent
<1>2. /\ UNCHANGED <<args, active0, initial>> /\ full' = full /\ counts' = counts
      /\ certified' = certified /\ sample' = sample /\ separation' = separation /\ trimmed' = trimmed
      /\ todo' = setting.methods /\ stage' \in {"detect", "method"}
  BY DEF StartComponent, NextStage
<1>3. /\ Given' /\ (FirstStage => FirstStage') /\ Geo' = Geo /\ setting' = setting /\ Blocks' = Blocks
  BY <1>2, DataKept
<1>4. NObs \in Nat \ {0} BY <1>1, GivenFacts
<1>5. PICK c \in Components : /\ ~Blocks => component = 0
                              /\ Blocks => c > component /\ \A b \in Components : b > component => c <= b
                              /\ component' = IF Blocks THEN c ELSE 1
  BY DEF StartComponent
<1>6. component \in 0..NObs BY <1>1 DEF Shaped
<1>7. component' \in 1..NObs /\ component' > component
  BY <1>1, <1>4, <1>5, <1>6, ComponentsIn DEF Rows
<1>8. \A b \in Rows : b > component /\ b < component' => \A A \in SUBSET Rows : PartOf(Geo, A, b) = {}
  <2> SUFFICES ASSUME NEW b \in Rows, b > component, b < component', NEW A \in SUBSET Rows
               PROVE  PartOf(Geo, A, b) = {}
    OBVIOUS
  <2>1. CASE Blocks
    <3>1. b \notin Components BY <2>1, <1>1, <1>5, ComponentsIn DEF Rows
    <3> QED BY <2>1, <3>1, <1>1, ComponentsIn
  <2>2. CASE ~Blocks BY <2>2, <1>1, <1>5, PartOfOne DEF Rows
  <2> QED BY <2>1, <2>2
<1>9. Removed' = Removed /\ active0' = active0 /\ active0 \in SUBSET Rows BY <1>1, <1>2 DEF Removed, Shaped
<1>10. \A b \in Rows : LeftIn(b)' = LeftIn(b) BY <1>3, <1>9 DEF LeftIn
<1>11. UntouchedParts'
  <2>1. \A b \in Rows : Untouched(b)' => Untouched(b) BY <1>6, <1>7 DEF Untouched, Rows
  <2> QED BY <1>1, <1>3, <1>9, <2>1 DEF UntouchedParts
<1>12. PassedParts'
  <2> SUFFICES ASSUME certified, "relu" \in setting.methods, NEW b \in Rows, Passed(b)'
               PROVE  Sep(Geo, LeftIn(b)) = {}
    BY <1>2, <1>3, <1>10 DEF PassedParts
  <2>1. b < component' BY <1>2, <1>3 DEF Passed
  <2>2. CASE b <= component
    <3>1. Passed(b) BY <1>1, <1>6, <2>2 DEF Passed, Rows
    <3> QED BY <1>1, <3>1 DEF PassedParts
  <2>3. CASE b > component
    <3>1. active0 \ Removed \in SUBSET Rows BY <1>9
    <3>2. LeftIn(b) = {} BY <1>8, <2>1, <2>3, <3>1 DEF LeftIn
    <3>3. Sep(Geo, {}) = {} BY DEF Sep, SeparatedBy
    <3> QED BY <3>2, <3>3
  <2> QED BY <1>6, <2>2, <2>3 DEF Rows
<1>13. Shaped' 
  <2>1. ~Blocks => component' = 1 BY <1>5
  <2> QED BY <1>1, <1>2, <1>3, <1>7, <2>1 DEF Shaped, StageNames
<1>14. CountsOK'
  <2>1. Counted' = Counted BY <1>2 DEF Counted
  <2> QED BY <1>1, <1>2, <1>3, <2>1 DEF CountsOK
<1>15. FirstStage' BY <1>1, <1>3 DEF StagesInv
<1>16. Detected(Geo, active0, full.separated, full.singletons)'
  <2>1. Detected(Geo, active0, full.separated, full.singletons) BY <1>1 DEF StagesInv
  <2> QED BY <1>2, <1>3, <2>1
<1> QED BY <1>1, <1>2, <1>3, <1>11, <1>12, <1>13, <1>14, <1>15, <1>16 DEF StagesInv

-----------------------------------------------------------------------------
(* The methods.                                                               *)

LEMMA MethodFacts ==
  ASSUME StagesInv, NEW m \in Methods, Method(m)
  PROVE  /\ stage = "method" /\ m \in todo /\ m \in setting.methods /\ component \in Rows
         /\ (m # "fe" => "fe" \notin todo) /\ (m = "mu" => "relu" \notin todo)
         /\ Alive = LeftIn(component) /\ Alive \in SUBSET Rows /\ Alive \subseteq active0 \ Removed
         /\ Going(Geo, Alive, Geo.units, Geo.zeros) = {}
<1>1. stage = "method" /\ m \in todo /\ \A k \in todo : UpstreamOrder[m] <= UpstreamOrder[k]
  BY DEF Method
<1>2. /\ Given /\ Shaped /\ todo \subseteq setting.methods /\ active0 \in SUBSET Rows
      /\ Detected(Geo, active0, full.separated, full.singletons)
  BY <1>1 DEF StagesInv, Shaped
<1>3. component \in Rows
  <2>1. NObs \in Nat /\ component \in 0..NObs /\ component # 0 BY <1>1, <1>2, GivenFacts DEF Shaped
  <2> QED BY <2>1 DEF Rows
<1>4. (m # "fe" => "fe" \notin todo) /\ (m = "mu" => "relu" \notin todo)
  BY <1>1 DEF UpstreamOrder, Methods
<1>5. Alive = LeftIn(component)
  <2>1. active0 \ Removed \in SUBSET Rows BY <1>2
  <2>2. CASE Blocks
    <3>1. Alive = {r \in active0 \ Removed : design.component[r] = component}
      BY <2>2 DEF Alive, ComponentRows, Removed
    <3> QED BY <1>2, <2>1, <2>2, <3>1, PartOfBlock DEF LeftIn
  <2>3. CASE ~Blocks
    <3>1. component = 1 BY <1>1, <1>2, <2>3 DEF Shaped
    <3>2. Alive = active0 \ Removed BY <2>3 DEF Alive, ComponentRows, Removed
    <3> QED BY <1>2, <2>1, <2>3, <3>1, <3>2, PartOfOne DEF LeftIn
  <2> QED BY <2>2, <2>3
<1>6. Alive \in SUBSET Rows /\ Alive \subseteq active0 \ Removed BY <1>2, <1>5 DEF LeftIn, PartOf
<1>7. Going(Geo, Alive, Geo.units, Geo.zeros) = {} BY <1>2, <1>3, <1>5 DEF Detected, LeftIn, Removed
<1> QED BY <1>1, <1>2, <1>3, <1>4, <1>5, <1>6, <1>7

\* The sum of the counts after a method found `local`.
LEMMA CountsAfter ==
  ASSUME Given, counts \in [Methods -> 0..NObs], NEW m \in Methods, m \in setting.methods,
         \A k \in Methods \ setting.methods : counts[k] = 0,
         counts["mu"] = 0, Counted = Cardinality(full.separated), full.separated \in SUBSET Rows,
         NEW local \in SUBSET Rows, NEW L \in SUBSET Rows, m = "mu" => local = {},
         full.separated \cap (local \cup L) = {}, local \cap L = {},
         L # {} => "fe" \in setting.methods,
         NEW after, after = [k \in Methods |-> counts[k] + (IF k = m THEN Cardinality(local) ELSE 0)
                                                 + (IF k = "fe" THEN Cardinality(L) ELSE 0)]
  PROVE  /\ after \in [Methods -> 0..NObs]
         /\ \A k \in Methods \ setting.methods : after[k] = 0
         /\ after["fe"] + after["simplex"] + after["relu"]
              = Cardinality(full.separated \cup local \cup L)
         /\ after["mu"] = 0
<1> PICK fs : fs = full.separated OBVIOUS
<1> PICK a : a = Cardinality(local) OBVIOUS
<1> PICK b : b = Cardinality(L) OBVIOUS
<1> PICK s : s = Cardinality(fs \cup local \cup L) OBVIOUS
<1>0. NObs \in Nat \ {0} BY GivenFacts
<1>1. a \in 0..NObs /\ b \in 0..NObs /\ s \in 0..NObs /\ Cardinality(fs) \in 0..NObs
      /\ IsFiniteSet(fs) /\ IsFiniteSet(local) /\ IsFiniteSet(L) /\ IsFiniteSet(fs \cup local)
  <2>1. fs \in SUBSET Rows /\ fs \cup local \in SUBSET Rows /\ fs \cup local \cup L \in SUBSET Rows OBVIOUS
  <2> QED BY <2>1, CardsOf
<1>2. s = Cardinality(fs) + a + b
  <2>1. Cardinality(fs \cup local) = Cardinality(fs) + a
    <3>1. Cardinality(fs \cup local) = Cardinality(fs) + Cardinality(local) - Cardinality(fs \cap local)
      BY <1>1, FS_Union
    <3>2. Cardinality(fs \cap local) = 0
      <4>1. fs \cap local = {} OBVIOUS
      <4> QED BY <4>1, FS_EmptySet
    <3> QED BY ONLY <1>1, <3>1, <3>2, a = Cardinality(local)
  <2>2. Cardinality((fs \cup local) \cup L) = Cardinality(fs \cup local) + b
    <3>1. Cardinality((fs \cup local) \cup L)
            = Cardinality(fs \cup local) + Cardinality(L) - Cardinality((fs \cup local) \cap L)
      BY <1>1, FS_Union
    <3>2. Cardinality((fs \cup local) \cap L) = 0
      <4>1. (fs \cup local) \cap L = {} OBVIOUS
      <4> QED BY <4>1, FS_EmptySet
    <3>3. Cardinality(fs \cup local) \in Int BY <1>1, <2>1
    <3> QED BY ONLY <1>1, <3>1, <3>2, <3>3, b = Cardinality(L)
  <2> QED BY <2>1, <2>2
<1>3. m = "mu" => a = 0 BY FS_EmptySet
<1>4. L = {} => b = 0 BY FS_EmptySet
<1>5. \A k \in Methods : counts[k] \in 0..NObs OBVIOUS
<1>6. \A k \in Methods : after[k] = counts[k] + (IF k = m THEN a ELSE 0) + (IF k = "fe" THEN b ELSE 0)
  OBVIOUS
<1>7. /\ "fe" \in Methods /\ "simplex" \in Methods /\ "relu" \in Methods /\ "mu" \in Methods
      /\ m \in {"fe", "simplex", "relu", "mu"}
  BY DEF Methods
<1>8. PICK cf, cs, cr \in 0..NObs : cf = counts["fe"] /\ cs = counts["simplex"] /\ cr = counts["relu"]
  BY <1>5, <1>7
<1>9. cf + cs + cr = Cardinality(fs) BY <1>8 DEF Counted
<1>10. /\ after["fe"] = cf + (IF m = "fe" THEN a ELSE 0) + b
       /\ after["simplex"] = cs + (IF m = "simplex" THEN a ELSE 0)
       /\ after["relu"] = cr + (IF m = "relu" THEN a ELSE 0)
       /\ after["mu"] = IF m = "mu" THEN a ELSE 0
  BY <1>0, <1>1, <1>6, <1>7, <1>8
<1>11. after["mu"] = 0 BY <1>3, <1>10
<1>12. after["fe"] + after["simplex"] + after["relu"] = s
  BY <1>1, <1>2, <1>3, <1>7, <1>9, <1>10
<1>13. after["fe"] \in 0..NObs /\ after["simplex"] \in 0..NObs /\ after["relu"] \in 0..NObs
  <2>1. after["fe"] \in Nat /\ after["simplex"] \in Nat /\ after["relu"] \in Nat
    BY <1>1, <1>10
  <2> QED BY <1>0, <1>1, <1>12, <2>1
<1>14. after \in [Methods -> 0..NObs]
  <2>1. 0 \in 0..NObs BY <1>0
  <2>2. \A k \in Methods : after[k] \in 0..NObs BY <1>11, <1>13, <2>1 DEF Methods
  <2> QED BY <2>2
<1>15. \A k \in Methods \ setting.methods : after[k] = 0
  <2> SUFFICES ASSUME NEW k \in Methods \ setting.methods PROVE after[k] = 0 OBVIOUS
  <2>1. k # m /\ (k = "fe" => L = {}) /\ counts[k] = 0 OBVIOUS
  <2>2. after[k] = counts[k] + 0 + (IF k = "fe" THEN b ELSE 0) BY <1>6, <2>1
  <2> QED BY <1>4, <2>1, <2>2
<1> QED BY <1>11, <1>12, <1>14, <1>15

\* What a method that found `local` leaves, L and N being peeled with it.
MethodStep(m, local, L, N) ==
  /\ UNCHANGED <<args, active0, initial, component, sample, separation, trimmed>>
  /\ todo' = todo \ {m} /\ stage' = NextStage(todo \ {m})
  /\ certified' \in BOOLEAN
  /\ certified' => certified /\ (m = "relu" => local = Sep(Geo, Alive))
  /\ full' = [separated |-> full.separated \cup local \cup L, singletons |-> full.singletons \cup N]
  /\ counts' = [k \in Methods |-> counts[k] + (IF k = m THEN Cardinality(local) ELSE 0)
                                            + (IF k = "fe" THEN Cardinality(L) ELSE 0)]

LEMMA StepFields ==
  ASSUME NEW m, NEW local, NEW L, NEW N, MethodStep(m, local, L, N)
  PROVE  /\ UNCHANGED <<args, active0, initial>>
         /\ component' = component /\ sample' = sample /\ separation' = separation /\ trimmed' = trimmed
         /\ active0' = active0 /\ initial' = initial
         /\ todo' = todo \ {m} /\ stage' \in {"detect", "method"}
         /\ certified' \in BOOLEAN
         /\ certified' => certified /\ (m = "relu" => local = Sep(Geo, Alive))
         /\ full' = [separated |-> full.separated \cup local \cup L, singletons |-> full.singletons \cup N]
         /\ full'.separated = full.separated \cup local \cup L /\ full'.singletons = full.singletons \cup N
         /\ Removed' = Removed \cup (local \cup L \cup N)
<1>1. full' = [separated |-> full.separated \cup local \cup L, singletons |-> full.singletons \cup N]
  BY DEF MethodStep
<1>2. full'.separated = full.separated \cup local \cup L /\ full'.singletons = full.singletons \cup N
  BY <1>1
<1>3. Removed' = Removed \cup (local \cup L \cup N) BY <1>2 DEF Removed
<1> QED BY <1>1, <1>2, <1>3 DEF MethodStep, NextStage

LEMMA DetectedNow ==
  ASSUME Sound(Geo), active0 \in SUBSET Rows, NEW fs, NEW fg, Detected(Geo, active0, fs, fg),
         Apart(Geo), component \in Rows, NEW local, NEW L, NEW N,
         Trims(Geo, PartOf(Geo, active0 \ (fs \cup fg), component), local, L, N)
  PROVE  Detected(Geo, active0, fs \cup local \cup L, fg \cup N)
BY DetectedAfter

LEMMA StepDetects ==
  ASSUME StagesInv, NEW m \in Methods, Method(m), NEW local, NEW L, NEW N,
         MethodStep(m, local, L, N), Trims(Geo, Alive, local, L, N),
         Apart(Geo) \/ (local = {} /\ L = {} /\ N = {})
  PROVE  /\ Detected(Geo, active0, full'.separated, full'.singletons)
         /\ full.separated \cap (local \cup L) = {} /\ local \cap L = {}
<1> PICK fs : fs = full.separated OBVIOUS
<1> PICK fg : fg = full.singletons OBVIOUS
<1>1. Given /\ active0 \in SUBSET Rows /\ Detected(Geo, active0, fs, fg) /\ component \in Rows
      /\ Alive = PartOf(Geo, active0 \ (fs \cup fg), component)
  BY MethodFacts DEF StagesInv, Shaped, LeftIn, Removed
<1>2. full'.separated = fs \cup local \cup L /\ full'.singletons = fg \cup N BY StepFields
<1>3. Trims(Geo, PartOf(Geo, active0 \ (fs \cup fg), component), local, L, N) BY <1>1
<1>4. fs \cap (local \cup L) = {} /\ local \cap L = {}
  <2>1. L \subseteq Alive /\ local \subseteq Alive BY DEF Trims, Sep, SeparatedBy
  <2>2. fs \cap Alive = {} BY <1>1 DEF PartOf
  <2>3. local \cap L = {} BY DEF Trims
  <2> QED BY <2>1, <2>2, <2>3
<1>5. CASE local = {} /\ L = {} /\ N = {}
  <2>1. full'.separated = fs /\ full'.singletons = fg BY <1>2, <1>5
  <2> QED BY <1>1, <1>5, <2>1
<1>6. CASE Apart(Geo)
  <2>1. Sound(Geo) BY <1>1, GeoSound
  <2>2. Detected(Geo, active0, fs \cup local \cup L, fg \cup N)
    BY <1>1, <1>3, <1>6, <2>1, DetectedNow
  <2> QED BY <1>2, <1>4, <2>2
<1> QED BY <1>5, <1>6

LEMMA StepParts ==
  ASSUME StagesInv, NEW m \in Methods, Method(m), NEW local, NEW L, NEW N,
         MethodStep(m, local, L, N), Trims(Geo, Alive, local, L, N)
  PROVE  UntouchedParts' /\ PassedParts'
<1> PICK more : more = local \cup L \cup N OBVIOUS
<1> PICK left : left = Alive OBVIOUS
<1> PICK gone : gone = Removed OBVIOUS
<1> PICK act : act = active0 OBVIOUS
<1>1. /\ stage = "method" /\ m \in todo /\ component \in Rows
      /\ (m # "fe" => "fe" \notin todo)
      /\ left = LeftIn(component) /\ left \in SUBSET Rows /\ left \subseteq act \ gone
  BY MethodFacts
<1>2. Given /\ UntouchedParts /\ PassedParts /\ act \in SUBSET Rows
  BY <1>1 DEF StagesInv, Shaped
<1>3. /\ component' = component /\ active0' = act /\ todo' = todo \ {m}
      /\ certified' => certified /\ (m = "relu" => local = Sep(Geo, left))
      /\ Removed' = gone \cup more
  BY StepFields
<1>4. Geo' = Geo /\ setting' = setting
  <2>1. UNCHANGED <<args, active0, initial>> BY StepFields
  <2> QED BY <2>1, DataKept
<1>5. Sound(Geo) BY <1>2, GeoSound
<1> PICK kept \in SUBSET Rows : Trimmed(Geo, left, local, L, N, kept) BY <1>1, <1>5, TrimmedPart
<1>6. /\ kept = left \ more /\ more \subseteq left
      /\ Sep(Geo, kept) \subseteq Sep(Geo, left)
      /\ local = Sep(Geo, left) => Sep(Geo, kept) = {}
  BY DEF Trimmed, Trims
<1>7. left = PartOf(Geo, act \ gone, component) BY <1>1 DEF LeftIn
<1>8. \A b \in Rows : PartOf(Geo, act \ (gone \cup more), b)
                        = IF b = component THEN kept ELSE PartOf(Geo, act \ gone, b)
  BY ONLY <1>1, <1>6, <1>7 DEF PartOf
<1>9. \A b \in Rows : LeftIn(b) = PartOf(Geo, act \ gone, b)
                      /\ LeftIn(b)' = PartOf(Geo, act \ (gone \cup more), b)
  BY <1>3, <1>4 DEF LeftIn
<1>10. UntouchedParts'
  <2> SUFFICES ASSUME NEW b \in Rows, Untouched(b)' PROVE PartOf(Geo, gone \cup more, b) = {}
    BY <1>3, <1>4 DEF UntouchedParts
  <2>1. b > component BY <1>1, <1>3 DEF Untouched
  <2>2. b # component BY <1>1, <2>1 DEF Rows
  <2>3. PartOf(Geo, gone, b) = {} BY <1>2, <2>1 DEF UntouchedParts, Untouched
  <2>4. PartOf(Geo, more, b) = {} BY <1>6, <1>7, <2>2 DEF PartOf
  <2> QED BY <2>3, <2>4 DEF PartOf
<1>11. PassedParts'
  <2> SUFFICES ASSUME certified', "relu" \in setting.methods, NEW b \in Rows, Passed(b)'
               PROVE  Sep(Geo, PartOf(Geo, act \ (gone \cup more), b)) = {}
    BY <1>3, <1>4, <1>9 DEF PassedParts
  <2>1. \A c \in Rows : Passed(c) => Sep(Geo, PartOf(Geo, act \ gone, c)) = {}
    BY <1>2, <1>3, <1>9 DEF PassedParts
  <2>2. CASE b = component
    <3>1. "relu" \notin todo \/ m = "relu" BY <1>1, <1>3, <2>2 DEF Passed, Rows
    <3>2. CASE "relu" \notin todo
      <4>1. Passed(b) BY <2>2, <3>2 DEF Passed
      <4>2. Sep(Geo, left) = {} BY <1>7, <2>1, <2>2, <4>1
      <4> QED BY <1>6, <1>8, <2>2, <4>2
    <3>3. CASE m = "relu" BY <1>3, <1>6, <1>8, <2>2, <3>3
    <3> QED BY <3>1, <3>2, <3>3
  <2>3. CASE b # component
    <3>1. b < component BY <1>3, <2>3 DEF Passed
    <3>2. Passed(b) BY <3>1 DEF Passed
    <3> QED BY <1>8, <2>1, <2>3, <3>2
  <2> QED BY <2>2, <2>3
<1> QED BY <1>10, <1>11

LEMMA MethodKeeps ==
  ASSUME StagesInv, NEW m \in Methods, Method(m), NEW local, NEW L, NEW N,
         MethodStep(m, local, L, N), Trims(Geo, Alive, local, L, N),
         Apart(Geo) \/ (local = {} /\ L = {} /\ N = {}),
         m = "mu" => local = {}, L # {} => "fe" \in setting.methods
  PROVE  StagesInv'
<1>1. /\ stage = "method" /\ m \in todo /\ m \in setting.methods /\ component \in Rows
      /\ Alive \in SUBSET Rows
  BY MethodFacts
<1>2. Given /\ Shaped /\ CountsOK /\ FirstStage /\ trimmed = [mu |-> {}, singletons |-> {}]
  BY <1>1 DEF StagesInv
<1>3. /\ UNCHANGED <<args, active0, initial>>
      /\ component' = component /\ sample' = sample /\ separation' = separation /\ trimmed' = trimmed
      /\ active0' = active0 /\ initial' = initial
      /\ todo' = todo \ {m} /\ stage' \in {"detect", "method"} /\ certified' \in BOOLEAN
      /\ full' = [separated |-> full.separated \cup local \cup L, singletons |-> full.singletons \cup N]
      /\ full'.separated = full.separated \cup local \cup L
  BY StepFields
<1>4. /\ Given' /\ (FirstStage => FirstStage') /\ Geo' = Geo /\ setting' = setting /\ Blocks' = Blocks
  BY <1>3, DataKept
<1>5. /\ Detected(Geo, active0, full'.separated, full'.singletons)
      /\ full.separated \cap (local \cup L) = {} /\ local \cap L = {}
  BY StepDetects
<1>6. Sound(Geo) BY <1>2, GeoSound
<1> PICK kept \in SUBSET Rows : Trimmed(Geo, Alive, local, L, N, kept) BY <1>1, <1>6, TrimmedPart
<1>7. local \in SUBSET Rows /\ L \in SUBSET Rows /\ N \in SUBSET Rows
  BY <1>1 DEF Trimmed, Trims
<1>8. full.separated \in SUBSET Rows /\ full.singletons \in SUBSET Rows BY <1>2 DEF Shaped
<1>9. Shaped'
  <2>1. full' \in [separated : SUBSET Rows, singletons : SUBSET Rows]
    <3>1. full.separated \cup local \cup L \in SUBSET Rows /\ full.singletons \cup N \in SUBSET Rows
      BY <1>7, <1>8
    <3> QED BY <1>3, <3>1
  <2>2. component # 0 BY <1>1 DEF Rows
  <2> QED BY <1>2, <1>3, <1>4, <2>1, <2>2 DEF Shaped, StageNames
<1>10. CountsOK'
  <2>1. counts' = [k \in Methods |-> counts[k] + (IF k = m THEN Cardinality(local) ELSE 0)
                                               + (IF k = "fe" THEN Cardinality(L) ELSE 0)]
    BY DEF MethodStep
  <2>2. /\ counts \in [Methods -> 0..NObs] /\ \A k \in Methods \ setting.methods : counts[k] = 0
        /\ counts["mu"] = 0 /\ Counted = Cardinality(full.separated)
    BY <1>1, <1>2 DEF CountsOK
  <2>3. /\ counts' \in [Methods -> 0..NObs]
        /\ \A k \in Methods \ setting.methods : counts'[k] = 0
        /\ counts'["fe"] + counts'["simplex"] + counts'["relu"]
             = Cardinality(full.separated \cup local \cup L)
        /\ counts'["mu"] = 0
    <3> PICK after : after = counts' OBVIOUS
    <3>1. after = [k \in Methods |-> counts[k] + (IF k = m THEN Cardinality(local) ELSE 0)
                                               + (IF k = "fe" THEN Cardinality(L) ELSE 0)]
      BY <2>1
    <3>2. /\ after \in [Methods -> 0..NObs]
          /\ \A k \in Methods \ setting.methods : after[k] = 0
          /\ after["fe"] + after["simplex"] + after["relu"]
               = Cardinality(full.separated \cup local \cup L)
          /\ after["mu"] = 0
      BY <1>1, <1>2, <1>5, <1>7, <1>8, <2>2, <3>1, CountsAfter
    <3> QED BY <3>2
  <2>4. Counted' = Cardinality(full'.separated) BY <1>3, <2>3 DEF Counted
  <2> QED BY <1>3, <1>4, <2>3, <2>4 DEF CountsOK
<1>11. UntouchedParts' /\ PassedParts' BY StepParts
<1>12. Detected(Geo, active0, full.separated, full.singletons)' BY <1>3, <1>4, <1>5
<1>13. FirstStage' BY <1>2, <1>4
<1> QED BY <1>2, <1>3, <1>4, <1>9, <1>10, <1>11, <1>12, <1>13 DEF StagesInv

LEMMA NothingTrims ==
  ASSUME NEW g, NEW left, Going(g, left, g.units, g.zeros) = {}
  PROVE  Trims(g, left, {}, {}, {})
<1>1. left \in SUBSET left OBVIOUS
<1>2. left \subseteq Staying(g, left, g.units, g.zeros) BY <1>1, StayMost
<1>3. left \ {} = left OBVIOUS
<1> QED BY <1>2, <1>3 DEF Trims

\* A method that finds nothing.
LEMMA NothingKeeps ==
  ASSUME StagesInv, NEW m \in Methods, Method(m),
         UNCHANGED <<args, active0, initial, component, full, counts, certified, sample, separation, trimmed>>,
         todo' = todo \ {m}, stage' = NextStage(todo \ {m}), m = "relu" => Sep(Geo, Alive) = {}
  PROVE  StagesInv'
<1>1. stage = "method" /\ Going(Geo, Alive, Geo.units, Geo.zeros) = {} BY MethodFacts
<1>2. Given /\ Shaped /\ CountsOK BY DEF StagesInv
<1>3. Trims(Geo, Alive, {}, {}, {}) BY <1>1, NothingTrims
<1>4. Cardinality({}) = 0 BY FS_EmptySet
<1>5. counts' = [k \in Methods |-> counts[k] + (IF k = m THEN Cardinality({}) ELSE 0)
                                             + (IF k = "fe" THEN Cardinality({}) ELSE 0)]
  <2>1. counts \in [Methods -> Int] BY <1>2, GivenFacts DEF CountsOK
  <2>2. \A k \in Methods : counts[k] + 0 + 0 = counts[k] BY <2>1
  <2> QED BY <1>4, <2>1, <2>2
<1>6. full' = [separated |-> full.separated \cup {} \cup {}, singletons |-> full.singletons \cup {}]
  <2>1. full \in [separated : SUBSET Rows, singletons : SUBSET Rows] BY <1>2 DEF Shaped
  <2>2. full = [separated |-> full.separated, singletons |-> full.singletons] BY <2>1
  <2> QED BY <2>2
<1>7. certified' \in BOOLEAN /\ (certified' => certified /\ (m = "relu" => {} = Sep(Geo, Alive)))
  BY <1>2 DEF Shaped
<1>8. MethodStep(m, {}, {}, {}) BY <1>5, <1>6, <1>7 DEF MethodStep
<1> QED BY <1>3, <1>8, MethodKeeps

LEMMA SkipKeeps ==
  ASSUME StagesInv, SkipMethod
  PROVE  StagesInv'
<1> PICK m \in Methods :
        /\ Method(m)
        /\ (m = "fe" /\ ~FeZeroPeeling) \/ m = "mu" \/ Skipped
        /\ todo' = todo \ {m}
        /\ stage' = NextStage(todo \ {m})
  BY DEF SkipMethod
<1>1. UNCHANGED <<args, active0, initial, component, full, counts, certified, sample, separation, trimmed>>
  BY DEF SkipMethod
<1>2. ASSUME m = "relu" PROVE Sep(Geo, Alive) = {}
  <2>1. Alive \subseteq positive BY <1>2 DEF Skipped
  <2>2. Geo.positive = positive BY GeoFields DEF StagesInv
  <2>3. Sep(Geo, Alive) \subseteq Alive \ Geo.positive BY SepWithin
  <2> QED BY <2>1, <2>2, <2>3
<1> QED BY <1>1, <1>2, NothingKeeps

\* A method that found rows separated among those left in its part.
LEMMA RemoveKeeps ==
  ASSUME StagesInv, NEW m \in Methods, Method(m), NEW local, Remove(m, local),
         m \in {"simplex", "relu"} \/ local = {}, local \subseteq Sep(Geo, Alive),
         certified' \in BOOLEAN, certified' => certified /\ (m = "relu" => local = Sep(Geo, Alive))
  PROVE  StagesInv'
<1>1. PICK new \in IF local = {} THEN {[separated |-> {}, singletons |-> {}]}
                   ELSE Repeel(m, Alive \ local) :
    /\ full' = [separated |-> full.separated \cup local \cup new.separated,
                singletons |-> full.singletons \cup new.singletons]
    /\ counts' = [k \in Methods |->
                    counts[k] + (IF k = m THEN Cardinality(local) ELSE 0)
                              + (IF k = "fe" THEN Cardinality(new.separated) ELSE 0)]
    /\ todo' = todo \ {m}
    /\ stage' = NextStage(todo \ {m})
    /\ UNCHANGED <<args, active0, initial, component, sample, separation, trimmed>>
  BY Zenon DEF Remove
<1>2. new \in NewIn(m, Alive, local) BY <1>1 DEF NewIn
<1>3. Given /\ m \in setting.methods /\ Alive \in SUBSET Rows
      /\ Going(Geo, Alive, Geo.units, Geo.zeros) = {}
  BY MethodFacts DEF StagesInv
<1> PICK L : L = new.separated OBVIOUS
<1> PICK N : N = new.singletons OBVIOUS
<1>4. MethodStep(m, local, L, N) BY <1>1 DEF MethodStep
<1>5. CASE local = {}
  <2>1. new = [separated |-> {}, singletons |-> {}] BY <1>2, <1>5 DEF NewIn
  <2>2. L = {} /\ N = {} BY <2>1
  <2>3. Trims(Geo, Alive, local, L, N)
    <3>1. Trims(Geo, Alive, {}, {}, {}) BY <1>3, NothingTrims
    <3> QED BY <1>5, <2>2, <3>1
  <2> QED BY <1>4, <1>5, <2>2, <2>3, MethodKeeps
<1>6. CASE m \in {"simplex", "relu"}
  <2>1. Trims(Geo, Alive, local, L, N) BY <1>2, <1>3, <1>6, RepeelTrims
  <2>2. L # {} => "fe" \in setting.methods BY <1>2, <1>3, <1>6, RepeelTrims
  <2>3. Apart(Geo) BY <1>3, <1>6, GeoApart
  <2> QED BY <1>4, <1>6, <2>1, <2>2, <2>3, MethodKeeps
<1> QED BY <1>5, <1>6

\* The fe method comes first and finds what the initial stage left: no row of an
\* all-zero level.
LEMMA FeFindsNothing ==
  ASSUME StagesInv, Method("fe"), FeZeroPeeling
  PROVE  {r \in Alive : AllZero(Alive, r)} = {}
<1>0. "fe" \in Methods BY DEF Methods
<1>1. /\ stage = "method" /\ "fe" \in todo /\ "fe" \in setting.methods /\ component \in Rows
      /\ Alive = LeftIn(component) /\ Alive \in SUBSET Rows
      /\ Going(Geo, Alive, Geo.units, Geo.zeros) = {}
  BY <1>0, MethodFacts
<1>2. Given /\ FirstStage /\ UntouchedParts /\ active0 \in SUBSET Rows BY <1>1 DEF StagesInv, Shaped
<1>3. \E ones : Going(Geo, Alive, ones, TRUE) = {}
  <2>1. CASE setting.unified
    <3>1. Geo.zeros = TRUE BY <1>1, <1>2, <2>1, GeoFields
    <3>2. Going(Geo, Alive, Geo.units, TRUE) = {} BY <1>1, <3>1
    <3> QED BY <3>2
  <2>2. CASE ~setting.unified
    <3>1. PartOf(Geo, Removed, component) = {} BY <1>1, <1>2 DEF UntouchedParts, Untouched
    <3>2. Alive = PartOf(Geo, active0, component) BY <1>1, <3>1 DEF LeftIn, PartOf
    <3>3. FeZeroPeeling = TRUE BY DEF FeZeroPeeling
    <3> PICK z : z = FeZeroPeeling OBVIOUS
    <3>4. Going(Geo, active0, InitialUnits, z) = {} BY <1>2, StayStable DEF FirstStage
    <3>5. Going(Geo, PartOf(Geo, active0, component), InitialUnits, z) \subseteq Going(Geo, active0, InitialUnits, z)
      BY <1>1, <1>2, GeoSound DEF Sound
    <3>6. Going(Geo, Alive, InitialUnits, z) = {} BY <3>2, <3>4, <3>5
    <3> QED BY <3>3, <3>6
  <2> QED BY <2>1, <2>2
<1>4. \A r \in Alive : ~ZeroIn(Geo.groups, Geo.positive, Alive, r) BY <1>3 DEF Going, Goes
<1>5. \A r \in Alive : ~AllZero(Alive, r) BY <1>2, <1>4, AllZeroIs
<1> QED BY <1>5

LEMMA DetectFeKeeps ==
  ASSUME StagesInv, DetectFe
  PROVE  StagesInv'
<1> PICK local : local = {r \in Alive : AllZero(Alive, r)} OBVIOUS
<1> PICK m : m = "fe" OBVIOUS
<1>1. m \in Methods /\ Method(m) /\ FeZeroPeeling /\ Remove(m, local) /\ certified' = certified
  BY DEF DetectFe, Methods
<1>2. local = {} BY <1>1, FeFindsNothing
<1>3. certified \in BOOLEAN BY DEF StagesInv, Shaped
<1>4. Remove(m, local) BY <1>1
<1> QED BY <1>1, <1>2, <1>3, <1>4, RemoveKeeps

LEMMA DetectSimplexKeeps ==
  ASSUME StagesInv, DetectSimplex
  PROVE  StagesInv'
<1>1. PICK local \in Supports(Alive) : Remove("simplex", local) BY DEF DetectSimplex
<1> PICK m : m = "simplex" OBVIOUS
<1>2. m \in Methods /\ Method(m) /\ certified' = certified BY DEF DetectSimplex, Methods
<1>3. local \subseteq Sep(Geo, Alive) BY SeparatedIs DEF StagesInv
<1>4. certified \in BOOLEAN BY DEF StagesInv, Shaped
<1>5. Remove(m, local) BY <1>1
<1> QED BY <1>2, <1>3, <1>4, <1>5, RemoveKeeps

LEMMA DetectReluKeeps ==
  ASSUME StagesInv, DetectRelu
  PROVE  StagesInv'
<1> PICK m : m = "relu" OBVIOUS
<1> PICK local : local = Separated(Alive) OBVIOUS
<1>1. Method(m) /\ Remove(m, local) BY DEF DetectRelu
<1>2. m \in Methods /\ certified' = certified BY DEF DetectRelu, Methods
<1>3. local = Sep(Geo, Alive) BY SeparatedIs DEF StagesInv
<1>4. certified \in BOOLEAN BY DEF StagesInv, Shaped
<1>5. Remove(m, local) BY <1>1
<1> QED BY <1>1, <1>2, <1>3, <1>4, <1>5, RemoveKeeps

LEMMA UncertifiedKeeps ==
  ASSUME StagesInv, UncertifiedRelu
  PROVE  StagesInv'
<1> PICK m : m = "relu" OBVIOUS
<1>1. Method(m) /\ certified' = FALSE BY DEF UncertifiedRelu
<1>2. m \in Methods BY DEF Methods
<1>3. stage = "method" BY <1>1 DEF Method
<1>4. CASE setting.strict \/ setting.unified
  <2>1. /\ stage' = "uncertified"
        /\ UNCHANGED <<args, active0, initial, component, todo, full, counts, sample, separation, trimmed>>
    BY <1>4 DEF UncertifiedRelu
  <2>2. CountsOK BY DEF StagesInv
  <2>3. counts' \in [Methods -> 0..NObs] /\ \A k \in Methods \ setting.methods : counts'[k] = 0
    BY <2>1, <2>2 DEF CountsOK
  <2> QED BY <1>1, <1>3, <2>1, <2>3, EndsEarly
<1>5. CASE ~(setting.strict \/ setting.unified)
  <2>1. PICK local \in Rechecked : Remove("relu", local) BY <1>5 DEF UncertifiedRelu
  <2>2. local \subseteq Sep(Geo, Alive)
    <3>1. PICK candidates \in SUBSET (Alive \ positive) :
            local = UNION {s \in Supports(Alive) : s \subseteq candidates}
      BY DEF Rechecked
    <3>2. \A s \in Supports(Alive) : s \subseteq Sep(Geo, Alive) BY SeparatedIs DEF StagesInv
    <3> QED BY <3>1, <3>2
  <2>3. Remove(m, local) BY <2>1
  <2>4. certified' \in BOOLEAN /\ ~certified' BY <1>1
  <2> QED BY <1>1, <1>2, <2>2, <2>3, <2>4, RemoveKeeps
<1> QED BY <1>4, <1>5

-----------------------------------------------------------------------------
(* What survives, and the fit.                                                *)

LEMMA AllPassed ==
  ASSUME StagesInv, ComponentsDone, NEW r \in Rows
  PROVE  Geo.part[r] \in Rows /\ Passed(Geo.part[r])
<1>1. Given /\ Shaped BY DEF StagesInv
<1>2. todo = {} /\ (Blocks => \A c \in Components : c <= component) /\ (~Blocks => component = 1)
  BY DEF ComponentsDone
<1>3. Geo.part[r] \in Rows BY <1>1, GeoSound DEF Sound
<1>4. Geo.part[r] <= component
  <2>1. CASE Blocks
    <3>1. Geo.part = design.component BY <1>1, <2>1, GeoFields
    <3>2. Components = {design.component[k] : k \in Rows} BY <2>1 DEF Components
    <3> QED BY <1>2, <2>1, <3>1, <3>2
  <2>2. CASE ~Blocks
    <3>1. Geo.part = [k \in Rows |-> 1] BY <1>1, <2>2, GeoFields
    <3> QED BY <1>2, <2>2, <3>1
  <2> QED BY <2>1, <2>2
<1>5. component \in 0..NObs /\ NObs \in Nat BY <1>1, GivenFacts DEF Shaped
<1> QED BY <1>2, <1>3, <1>4, <1>5 DEF Passed, Rows

LEMMA WholeFromParts ==
  ASSUME StagesInv, ComponentsDone, NEW keep, keep = active0 \ Removed
  PROVE  /\ keep \in SUBSET Rows /\ Removed = active0 \ keep
         /\ Going(Geo, keep, Geo.units, Geo.zeros) = {}
         /\ certified /\ "relu" \in setting.methods => Sep(Geo, keep) = {}
<1>1. /\ Given /\ active0 \in SUBSET Rows /\ PassedParts
      /\ Detected(Geo, active0, full.separated, full.singletons)
  BY DEF StagesInv, Shaped, ComponentsDone
<1>2. keep \in SUBSET Rows /\ Removed = active0 \ keep BY <1>1 DEF Detected, Removed
<1>3. \A r \in keep : r \in PartOf(Geo, keep, Geo.part[r]) /\ PartOf(Geo, keep, Geo.part[r]) \in SUBSET keep
  BY DEF PartOf
<1>4. \A c \in Rows : Going(Geo, PartOf(Geo, keep, c), Geo.units, Geo.zeros) = {}
  BY <1>1 DEF Detected, Removed
<1>5. ASSUME NEW r \in Going(Geo, keep, Geo.units, Geo.zeros) PROVE FALSE
  <2>1. r \in keep BY DEF Going, Goes
  <2>2. Geo.part[r] \in Rows BY <1>2, <2>1, AllPassed
  <2> PICK B : B = PartOf(Geo, keep, Geo.part[r]) OBVIOUS
  <2>3. r \in B /\ B \in SUBSET keep BY <1>3, <2>1
  <2>4. Going(Geo, keep, Geo.units, Geo.zeros) \cap B \subseteq Going(Geo, B, Geo.units, Geo.zeros)
    BY <2>3, GoesFromParts DEF Going
  <2> QED BY <1>4, <2>2, <2>3, <2>4
<1>6. ASSUME certified, "relu" \in setting.methods, NEW r \in Sep(Geo, keep) PROVE FALSE
  <2>1. r \in keep BY SepWithin
  <2>2. Geo.part[r] \in Rows /\ Passed(Geo.part[r]) BY <1>2, <2>1, AllPassed
  <2> PICK B : B = PartOf(Geo, keep, Geo.part[r]) OBVIOUS
  <2>3. r \in B /\ B \in SUBSET keep BY <1>3, <2>1
  <2>4. Sep(Geo, B) = {} BY <1>1, <1>6, <2>2 DEF PassedParts, LeftIn
  <2>5. Sep(Geo, keep) \cap B \subseteq Sep(Geo, B) BY <2>3, SepOfParts
  <2> QED BY <2>3, <2>4, <2>5
<1> QED BY <1>2, <1>5, <1>6

LEMMA SurviveCounts ==
  ASSUME StagesInv, stage = "detect", NEW after,
         after = [counts EXCEPT !["fe"] = @ + IF "fe" \in setting.methods THEN initial.nfe ELSE 0]
  PROVE  /\ after \in [Methods -> 0..NObs]
         /\ \A k \in Methods \ setting.methods : after[k] = 0
         /\ after["fe"] + after["simplex"] + after["relu"] = Cardinality(full.separated) + initial.nfe
         /\ after["mu"] = 0
<1>1. /\ Given /\ CountsOK /\ FirstStage /\ Shaped
      /\ Detected(Geo, active0, full.separated, full.singletons)
  BY DEF StagesInv
<1>2. /\ counts \in [Methods -> 0..NObs] /\ \A k \in Methods \ setting.methods : counts[k] = 0
      /\ Counted = Cardinality(full.separated) /\ counts["mu"] = 0
  BY <1>1 DEF CountsOK
<1>3. /\ initial.nfe \in 0..Cardinality(Rows \ active0)
      /\ (initial.nfe # 0 => "fe" \in setting.methods)
  BY <1>1 DEF FirstStage
<1>4. active0 \in SUBSET Rows /\ full.separated \in SUBSET active0 /\ full.separated \in SUBSET Rows
  BY <1>1 DEF Detected, Shaped
<1> PICK f : f = Cardinality(full.separated) OBVIOUS
<1> PICK n : n = initial.nfe OBVIOUS
<1>5. NObs \in Nat \ {0} /\ IsFiniteSet(Rows) BY <1>1, GivenFacts
<1>6. f \in Nat /\ n \in Nat /\ f + n <= NObs
  <2>1. Cardinality(Rows \ active0) \in 0..NObs /\ IsFiniteSet(active0) /\ Cardinality(active0) \in 0..NObs
    <3>1. Rows \ active0 \in SUBSET Rows OBVIOUS
    <3> QED BY <1>1, <1>4, <3>1, CardsOf
  <2>2. Cardinality(full.separated) <= Cardinality(active0) /\ Cardinality(full.separated) \in Nat
    BY <1>4, <2>1, FS_Subset, FS_CardinalityType
  <2>3. Cardinality(Rows \ active0) = Cardinality(Rows) - Cardinality(active0) /\ Cardinality(Rows) = NObs
    <3>1. Cardinality(Rows) = NObs BY <1>5, FS_Interval DEF Rows
    <3>2. Cardinality(Rows \ active0) = Cardinality(Rows) - Cardinality(Rows \cap active0)
      BY <1>5, FS_Difference
    <3>3. Rows \cap active0 = active0 BY <1>4
    <3> QED BY <3>1, <3>2, <3>3
  <2> QED BY <1>3, <1>5, <2>1, <2>2, <2>3
<1>7. "fe" \in Methods /\ "simplex" \in Methods /\ "relu" \in Methods /\ "mu" \in Methods BY DEF Methods
<1>8. PICK cf, cs, cr \in 0..NObs : cf = counts["fe"] /\ cs = counts["simplex"] /\ cr = counts["relu"]
  BY <1>2, <1>7
<1>9. cf + cs + cr = f BY <1>2, <1>8 DEF Counted
<1>10. (IF "fe" \in setting.methods THEN initial.nfe ELSE 0) = n BY <1>3
<1>11. after = [counts EXCEPT !["fe"] = counts["fe"] + n] BY <1>10
<1>12. after["fe"] = cf + n /\ after["simplex"] = cs /\ after["relu"] = cr /\ after["mu"] = 0
  BY <1>2, <1>7, <1>8, <1>11
<1>13. after \in [Methods -> 0..NObs]
  <2>1. cf + n \in 0..NObs BY <1>5, <1>6, <1>8, <1>9
  <2> QED BY <1>2, <1>8, <1>11, <2>1
<1>14. \A k \in Methods \ setting.methods : after[k] = 0
  <2> SUFFICES ASSUME NEW k \in Methods \ setting.methods PROVE after[k] = 0 OBVIOUS
  <2>1. CASE k = "fe"
    <3>1. n = 0 /\ counts["fe"] = 0 BY <1>2, <1>3, <2>1
    <3> QED BY <1>8, <1>12, <2>1, <3>1
  <2>2. CASE k # "fe" BY <1>2, <1>11, <2>2
  <2> QED BY <2>1, <2>2
<1> QED BY <1>6, <1>8, <1>9, <1>12, <1>13, <1>14

LEMMA SurviveKeeps ==
  ASSUME StagesInv, Survive
  PROVE  StagesInv'
<1> PICK keep : keep = active0 \ (full.separated \cup full.singletons) OBVIOUS
<1>1. keep = active0 \ Removed BY DEF Removed
<1>2. stage = "detect" /\ todo = {} /\ ComponentsDone BY DEF Survive, ComponentsDone
<1>3. /\ UNCHANGED <<args, active0, initial>> /\ component' = component /\ todo' = todo
      /\ full' = full /\ certified' = certified /\ trimmed' = trimmed
      /\ active0' = active0 /\ initial' = initial
  BY DEF Survive
<1>4. counts' = [counts EXCEPT !["fe"] = @ + IF "fe" \in setting.methods THEN initial.nfe ELSE 0]
  BY DEF Survive
<1>5. /\ Given /\ Shaped /\ CountsOK /\ FirstStage /\ trimmed = [mu |-> {}, singletons |-> {}]
      /\ Detected(Geo, active0, full.separated, full.singletons)
  BY <1>2 DEF StagesInv
<1>6. /\ Given' /\ (FirstStage => FirstStage') /\ Geo' = Geo /\ setting' = setting /\ Blocks' = Blocks
  BY <1>3, DataKept
<1>7. /\ counts' \in [Methods -> 0..NObs]
      /\ \A k \in Methods \ setting.methods : counts'[k] = 0
      /\ counts'["fe"] + counts'["simplex"] + counts'["relu"] = Cardinality(full.separated) + initial.nfe
      /\ counts'["mu"] = 0
  <2> PICK after : after = counts' OBVIOUS
  <2>1. after = [counts EXCEPT !["fe"] = @ + IF "fe" \in setting.methods THEN initial.nfe ELSE 0]
    BY <1>4
  <2>2. /\ after \in [Methods -> 0..NObs]
        /\ \A k \in Methods \ setting.methods : after[k] = 0
        /\ after["fe"] + after["simplex"] + after["relu"] = Cardinality(full.separated) + initial.nfe
        /\ after["mu"] = 0
    BY <1>2, <2>1, SurviveCounts
  <2> QED BY <2>2
<1>8. CASE keep \cap positive = {}
  <2>1. stage' = "no_finite" /\ sample' = sample /\ separation' = separation BY <1>8 DEF Survive
  <2>2. certified' \in BOOLEAN BY <1>3, <1>5 DEF Shaped
  <2> QED BY <1>2, <1>3, <1>7, <2>1, <2>2, EndsEarly
<1>9. CASE keep \cap positive # {}
  <2>1. stage' = "irls" /\ sample' = keep /\ separation' = SeparationMask(keep) BY <1>9 DEF Survive
  <2>2. /\ keep \in SUBSET Rows /\ Removed = active0 \ keep
        /\ Going(Geo, keep, Geo.units, Geo.zeros) = {}
        /\ certified /\ "relu" \in setting.methods => Sep(Geo, keep) = {}
    BY <1>1, <1>2, WholeFromParts
  <2>3. separation' = initial.separated \cup IF setting.iv /\ ~setting.unified THEN Removed ELSE full.separated
    BY <2>1, <2>2 DEF SeparationMask
  <2>4. Removed' = Removed BY <1>3 DEF Removed
  <2>5. trimmed'.mu = {} /\ trimmed'.singletons = {} BY <1>3, <1>5
  <2>6. Outcome'
    <3>1. Geo'.units = Geo.units /\ Geo'.zeros = Geo.zeros BY <1>6
    <3>2. sample' = (active0 \ Removed) \ (IF setting.iv THEN {} ELSE trimmed'.mu \cup trimmed'.singletons)
      BY <1>1, <2>1, <2>5
    <3>3. separation' = initial.separated \cup trimmed'.mu
                          \cup IF setting.iv /\ ~setting.unified THEN Removed ELSE full.separated
      BY <2>3, <2>5
    <3>4. Going(Geo', sample', Geo'.units, Geo'.zeros) = {} BY <1>6, <2>1, <2>2
    <3>5. certified' /\ "relu" \in setting'.methods => Sep(Geo', active0' \ Removed') = {}
      BY <1>1, <1>3, <1>6, <2>2, <2>4
    <3> QED BY <1>3, <1>6, <2>4, <2>5, <3>2, <3>3, <3>4, <3>5 DEF Outcome
  <2>7. Shaped'
    <3>1. sample' \subseteq Rows BY <2>1, <2>2
    <3>2. separation' \subseteq Rows BY <1>5, <2>2, <2>3 DEF Shaped, Detected
    <3> QED BY <1>3, <1>5, <1>6, <2>1, <3>1, <3>2 DEF Shaped, StageNames
  <2>8. CountsOK'
    <3>1. Counted' = Cardinality(full'.separated) + initial'.nfe BY <1>3, <1>7 DEF Counted
    <3> QED BY <1>3, <1>6, <1>7, <2>1, <3>1 DEF CountsOK
  <2>9. FirstStage' /\ Detected(Geo, active0, full.separated, full.singletons)' BY <1>3, <1>5, <1>6
  <2> QED BY <1>6, <2>1, <2>6, <2>7, <2>8, <2>9 DEF StagesInv
<1> QED BY <1>8, <1>9

\* How the loop trims the sample by the rows it flagged.
Converge(flagged, kept) ==
  /\ trimmed' = [mu |-> flagged, singletons |-> (sample \ flagged) \ kept]
  /\ separation' = separation \cup flagged
  /\ IF setting.iv \/ flagged = {}
     THEN kept = sample \ flagged /\ sample' = sample
     ELSE kept = (IF setting.drop THEN Keep(sample \ flagged, FrequencyUnits, FALSE) ELSE sample \ flagged)
          /\ sample' = kept

LEMMA ConvergeOutcome ==
  ASSUME StagesInv, stage = "irls", NEW flagged \in SUBSET (sample \ positive), NEW kept,
         flagged # {} => "mu" \in setting.methods, Converge(flagged, kept),
         UNCHANGED <<args, active0, initial, component, todo, full, certified>>,
         stage' \in {"irls_after_mu", "done"}
  PROVE  Outcome' /\ Shaped'
<1>1. Given /\ Shaped /\ Outcome /\ trimmed.mu = {} BY DEF StagesInv, Outcome
<1>2. trimmed.singletons = {} /\ sample = active0 \ Removed
  BY <1>1 DEF Outcome
<1>3. /\ UNCHANGED <<args, active0, initial>> /\ component' = component /\ todo' = todo
      /\ full' = full /\ certified' = certified /\ active0' = active0 /\ initial' = initial
      /\ Removed' = Removed
  BY DEF Removed
<1>4. Geo' = Geo /\ setting' = setting /\ Blocks' = Blocks /\ positive' = positive BY <1>3, DataKept
<1>5. /\ Geo.units = FrequencyUnits /\ Geo.drop = setting.drop /\ Geo.zeros \in BOOLEAN
      /\ (Geo.zeros <=> setting.unified /\ "fe" \in setting.methods)
  BY <1>1, GeoFields
<1>6. "mu" \in setting.methods => ~setting.unified BY <1>1, GivenFacts DEF Accepted
<1>7. kept \subseteq sample \ flagged /\ sample \in SUBSET Rows /\ active0 \in SUBSET Rows
  <2>1. Keep(sample \ flagged, FrequencyUnits, FALSE) \subseteq sample \ flagged BY DEF Keep
  <2> QED BY <1>1, <2>1 DEF Converge, Shaped
<1> PICK gone : gone = (sample \ flagged) \ kept OBVIOUS
<1>8. /\ trimmed'.mu = flagged /\ trimmed'.singletons = gone
      /\ trimmed' = [mu |-> flagged, singletons |-> gone]
      /\ separation' = separation \cup flagged
  BY DEF Converge
<1>9. setting.iv \/ flagged = {} => gone = {} BY DEF Converge
<1>10. sample' = (active0 \ Removed) \ (IF setting.iv THEN {} ELSE flagged \cup gone)
  <2>1. CASE setting.iv \/ flagged = {} BY <1>2, <1>9, <2>1 DEF Converge
  <2>2. CASE ~(setting.iv \/ flagged = {})
    <3>1. sample' = kept BY <2>2 DEF Converge
    <3> QED BY <1>2, <1>7, <2>2, <3>1
  <2> QED BY <2>1, <2>2
<1>11. Going(Geo, sample', Geo.units, Geo.zeros) = {}
  <2>1. CASE setting.iv \/ flagged = {}
    <3>1. sample' = sample BY <2>1 DEF Converge
    <3> QED BY <1>1, <3>1 DEF Outcome
  <2>2. CASE ~(setting.iv \/ flagged = {})
    <3>1. ~Geo.zeros BY <1>5, <1>6, <2>2
    <3>2. CASE setting.drop
      <4> PICK z : z = FALSE OBVIOUS
      <4>1. Keep(sample \ flagged, FrequencyUnits, z) = Staying(Geo, sample \ flagged, FrequencyUnits, z)
        BY <1>1, KeepIs
      <4>2. sample' = Staying(Geo, sample \ flagged, FrequencyUnits, z) BY <2>2, <3>2, <4>1 DEF Converge
      <4>3. Going(Geo, sample', FrequencyUnits, z) = {} BY <4>2, StayStable
      <4>4. Geo.zeros = z BY <1>5, <3>1
      <4> QED BY <1>5, <4>3, <4>4
    <3>3. CASE ~setting.drop BY <1>5, <3>1, <3>3 DEF Going, Goes
    <3> QED BY <3>2, <3>3
  <2> QED BY <2>1, <2>2
<1>12. separation' = initial.separated \cup flagged
                       \cup IF setting.iv /\ ~setting.unified THEN Removed ELSE full.separated
  BY <1>1, <1>8 DEF Outcome
<1>13. Outcome'
  <2>1. sample' = (active0' \ Removed') \ (IF setting'.iv THEN {} ELSE trimmed'.mu \cup trimmed'.singletons)
    BY <1>3, <1>4, <1>8, <1>10
  <2>2. separation' = initial'.separated \cup trimmed'.mu
                        \cup IF setting'.iv /\ ~setting'.unified THEN Removed' ELSE full'.separated
    BY <1>3, <1>4, <1>8, <1>12
  <2>3. Going(Geo', sample', Geo'.units, Geo'.zeros) = {} BY <1>4, <1>11
  <2>4. certified' /\ "relu" \in setting'.methods => Sep(Geo', active0' \ Removed') = {}
    BY <1>1, <1>3, <1>4 DEF Outcome
  <2>5. /\ trimmed'.mu \cup trimmed'.singletons \subseteq active0' \ Removed'
        /\ trimmed'.mu \cap trimmed'.singletons = {} /\ trimmed'.mu \cap positive' = {}
    BY <1>2, <1>3, <1>4, <1>8
  <2>6. /\ setting'.iv \/ trimmed'.mu = {} => trimmed'.singletons = {}
        /\ trimmed'.mu # {} => "mu" \in setting'.methods
    BY <1>4, <1>8, <1>9
  <2> QED BY <2>1, <2>2, <2>3, <2>4, <2>5, <2>6 DEF Outcome
<1>14. Shaped'
  <2>1. trimmed' \in [mu : SUBSET Rows, singletons : SUBSET Rows]
    <3>1. flagged \in SUBSET Rows /\ gone \in SUBSET Rows BY <1>7
    <3> QED BY <1>8, <3>1
  <2>2. sample' \subseteq Rows /\ separation' \subseteq Rows
    <3>1. sample' \subseteq Rows BY <1>7, <1>10
    <3>2. separation' \subseteq Rows BY <1>1, <1>7, <1>8 DEF Shaped
    <3> QED BY <3>1, <3>2
  <2> QED BY <1>1, <1>3, <1>4, <2>1, <2>2 DEF Shaped, StageNames
<1> QED BY <1>13, <1>14

LEMMA MuCounts ==
  ASSUME StagesInv, stage \in {"irls", "irls_after_mu"}, NEW flagged \in SUBSET Rows,
         flagged # {} => "mu" \in setting.methods, NEW after,
         after = [counts EXCEPT !["mu"] = Cardinality(flagged)]
  PROVE  /\ after \in [Methods -> 0..NObs]
         /\ \A k \in Methods \ setting.methods : after[k] = 0
         /\ after["fe"] + after["simplex"] + after["relu"] = Counted
         /\ after["mu"] = Cardinality(flagged)
<1>1. Given /\ CountsOK BY DEF StagesInv
<1>2. counts \in [Methods -> 0..NObs] /\ \A k \in Methods \ setting.methods : counts[k] = 0
  BY <1>1 DEF CountsOK
<1>3. Cardinality(flagged) \in 0..NObs BY <1>1, CardsOf
<1>4. "fe" \in Methods /\ "simplex" \in Methods /\ "relu" \in Methods /\ "mu" \in Methods BY DEF Methods
<1>5. /\ after["fe"] = counts["fe"] /\ after["simplex"] = counts["simplex"] /\ after["relu"] = counts["relu"]
      /\ after["mu"] = Cardinality(flagged)
  BY <1>2, <1>4
<1>6. \A k \in Methods \ setting.methods : after[k] = 0
  <2> SUFFICES ASSUME NEW k \in Methods \ setting.methods PROVE after[k] = 0 OBVIOUS
  <2>1. CASE k = "mu"
    <3>1. flagged = {} BY <2>1
    <3>2. Cardinality(flagged) = 0 BY <3>1, FS_EmptySet
    <3> QED BY <1>5, <2>1, <3>2
  <2>2. CASE k # "mu" BY <1>2, <2>2
  <2> QED BY <2>1, <2>2
<1>7. after \in [Methods -> 0..NObs] BY <1>2, <1>3
<1> QED BY <1>5, <1>6, <1>7 DEF Counted

LEMMA IrlsConvergesKeeps ==
  ASSUME StagesInv, IrlsConverges
  PROVE  StagesInv'
<1>1. PICK flagged \in IF "mu" \in setting.methods THEN SUBSET (sample \ positive) ELSE {{}} :
       /\ separation' = separation \cup flagged
       /\ IF setting.iv \/ flagged = {}
          THEN /\ trimmed' = [mu |-> flagged, singletons |-> {}]
               /\ counts' = [counts EXCEPT !["mu"] = Cardinality(flagged)]
               /\ stage' = "done" /\ UNCHANGED sample
          ELSE LET keep == sample \ flagged
                   kept == IF setting.drop THEN Keep(keep, FrequencyUnits, FALSE) ELSE keep
               IN /\ trimmed' = [mu |-> flagged, singletons |-> keep \ kept]
                  /\ sample' = kept
                  /\ stage' = "irls_after_mu" /\ UNCHANGED counts
  BY Zenon DEF IrlsConverges
<1>2. flagged \in SUBSET (sample \ positive) /\ (flagged # {} => "mu" \in setting.methods) BY <1>1
<1>3. /\ stage = "irls" /\ UNCHANGED <<args, active0, initial, component, todo, full, certified>>
      /\ active0' = active0 /\ initial' = initial /\ full' = full
  BY DEF IrlsConverges
<1> PICK kept : kept = IF setting.iv \/ flagged = {} THEN sample \ flagged
                       ELSE IF setting.drop THEN Keep(sample \ flagged, FrequencyUnits, FALSE)
                            ELSE sample \ flagged
  OBVIOUS
<1>4. Converge(flagged, kept)
  <2>1. CASE setting.iv \/ flagged = {}
    <3>1. (sample \ flagged) \ kept = {} BY <2>1
    <3> QED BY <1>1, <2>1, <3>1 DEF Converge
  <2>2. CASE ~(setting.iv \/ flagged = {}) BY <1>1, <2>2 DEF Converge
  <2> QED BY <2>1, <2>2
<1>5. stage' \in {"irls_after_mu", "done"} BY <1>1
<1>6. Outcome' /\ Shaped' BY <1>2, <1>3, <1>4, <1>5, ConvergeOutcome
<1>7. /\ Given /\ CountsOK /\ FirstStage /\ Detected(Geo, active0, full.separated, full.singletons)
      /\ sample \subseteq Rows
  BY <1>3 DEF StagesInv, Shaped
<1>8. /\ Given' /\ (FirstStage => FirstStage') /\ Geo' = Geo /\ setting' = setting
  BY <1>3, DataKept
<1>9. FirstStage' /\ Detected(Geo, active0, full.separated, full.singletons)' BY <1>3, <1>7, <1>8
<1>10. trimmed'.mu = flagged BY <1>4 DEF Converge
<1>11. CountsOK'
  <2>1. /\ Counted = Cardinality(full.separated) + initial.nfe /\ counts["mu"] = 0
        /\ counts \in [Methods -> 0..NObs] /\ \A m \in Methods \ setting.methods : counts[m] = 0
    BY <1>3, <1>7 DEF CountsOK
  <2>2. CASE setting.iv \/ flagged = {}
    <3>1. counts' = [counts EXCEPT !["mu"] = Cardinality(flagged)] /\ stage' = "done" BY <1>1, <2>2
    <3>2. /\ counts' \in [Methods -> 0..NObs]
          /\ \A k \in Methods \ setting.methods : counts'[k] = 0
          /\ counts'["fe"] + counts'["simplex"] + counts'["relu"] = Counted
          /\ counts'["mu"] = Cardinality(flagged)
      <4> PICK after : after = counts' OBVIOUS
      <4>1. flagged \in SUBSET Rows BY <1>2, <1>7
      <4>2. after = [counts EXCEPT !["mu"] = Cardinality(flagged)] BY <3>1
      <4>3. /\ after \in [Methods -> 0..NObs]
            /\ \A k \in Methods \ setting.methods : after[k] = 0
            /\ after["fe"] + after["simplex"] + after["relu"] = Counted
            /\ after["mu"] = Cardinality(flagged)
        BY <1>2, <1>3, <4>1, <4>2, MuCounts
      <4> QED BY <4>3
    <3>3. Counted' = Counted BY <3>2 DEF Counted
    <3> QED BY <1>3, <1>8, <1>10, <2>1, <3>1, <3>2, <3>3 DEF CountsOK
  <2>3. CASE ~(setting.iv \/ flagged = {})
    <3>1. counts' = counts /\ stage' = "irls_after_mu" BY <1>1, <2>3
    <3>2. Counted' = Counted BY <3>1 DEF Counted
    <3> QED BY <1>3, <1>8, <2>1, <3>1, <3>2 DEF CountsOK
  <2> QED BY <2>2, <2>3
<1> QED BY <1>5, <1>6, <1>8, <1>9, <1>11 DEF StagesInv

LEMMA SecondFitKeeps ==
  ASSUME StagesInv, SecondFit
  PROVE  StagesInv'
<1>1. /\ stage = "irls_after_mu" /\ stage' = "done"
      /\ counts' = [counts EXCEPT !["mu"] = Cardinality(trimmed.mu)]
      /\ UNCHANGED <<args, active0, initial>> /\ component' = component /\ todo' = todo
      /\ full' = full /\ certified' = certified /\ sample' = sample /\ separation' = separation
      /\ trimmed' = trimmed /\ active0' = active0 /\ initial' = initial
  BY DEF SecondFit
<1>2. /\ Given /\ Shaped /\ CountsOK /\ FirstStage /\ Outcome
      /\ Detected(Geo, active0, full.separated, full.singletons)
  BY <1>1 DEF StagesInv
<1>3. /\ Given' /\ (FirstStage => FirstStage') /\ Geo' = Geo /\ setting' = setting /\ Blocks' = Blocks
      /\ positive' = positive
  BY <1>1, DataKept
<1>4. FirstStage' /\ Detected(Geo, active0, full.separated, full.singletons)' BY <1>1, <1>2, <1>3
<1>5. Shaped' BY <1>1, <1>2, <1>3 DEF Shaped, StageNames
<1>6. Outcome'
  <2>1. Removed' = Removed BY <1>1 DEF Removed
  <2> QED BY <1>1, <1>2, <1>3, <2>1 DEF Outcome
<1>7. CountsOK'
  <2>1. trimmed.mu \in SUBSET Rows /\ (trimmed.mu # {} => "mu" \in setting.methods)
    BY <1>2 DEF Shaped, Outcome
  <2>2. /\ counts' \in [Methods -> 0..NObs]
        /\ \A k \in Methods \ setting.methods : counts'[k] = 0
        /\ counts'["fe"] + counts'["simplex"] + counts'["relu"] = Counted
        /\ counts'["mu"] = Cardinality(trimmed.mu)
    <3> PICK after : after = counts' OBVIOUS
    <3> PICK flagged : flagged = trimmed.mu OBVIOUS
    <3>1. after = [counts EXCEPT !["mu"] = Cardinality(flagged)] BY <1>1
    <3>2. /\ after \in [Methods -> 0..NObs]
          /\ \A k \in Methods \ setting.methods : after[k] = 0
          /\ after["fe"] + after["simplex"] + after["relu"] = Counted
          /\ after["mu"] = Cardinality(flagged)
      BY <1>1, <2>1, <3>1, MuCounts
    <3> QED BY <3>2
  <2>3. Counted' = Counted BY <2>2 DEF Counted
  <2>4. Counted = Cardinality(full.separated) + initial.nfe BY <1>1, <1>2 DEF CountsOK
  <2> QED BY <1>1, <1>3, <2>2, <2>3, <2>4 DEF CountsOK
<1> QED BY <1>1, <1>3, <1>4, <1>5, <1>6, <1>7 DEF StagesInv

LEMMA StagesNext ==
  ASSUME StagesInv, [SampleNext]_sampleVars
  PROVE  StagesInv'
<1>1. CASE SelectInitial BY <1>1, SelectKeeps
<1>2. CASE StartComponent BY <1>2, ComponentKeeps
<1>3. CASE SkipMethod BY <1>3, SkipKeeps
<1>4. CASE DetectFe BY <1>4, DetectFeKeeps
<1>5. CASE DetectSimplex BY <1>5, DetectSimplexKeeps
<1>6. CASE DetectRelu BY <1>6, DetectReluKeeps
<1>7. CASE UncertifiedRelu BY <1>7, UncertifiedKeeps
<1>8. CASE NotIdentified
  <2>1. Fail("not_identified") /\ stage # "select" BY <1>8 DEF NotIdentified
  <2> QED BY <2>1, StageFails
<1>9. CASE Survive BY <1>9, SurviveKeeps
<1>10. CASE IrlsFails
  <2>1. Fail("not_converged") /\ stage # "select" BY <1>10 DEF IrlsFails
  <2> QED BY <2>1, StageFails
<1>11. CASE IrlsConverges BY <1>11, IrlsConvergesKeeps
<1>12. CASE SecondFit BY <1>12, SecondFitKeeps
<1>13. CASE UNCHANGED sampleVars
  <2>1. /\ UNCHANGED <<args, active0, initial>> /\ component' = component /\ todo' = todo
        /\ full' = full /\ counts' = counts /\ certified' = certified /\ sample' = sample
        /\ separation' = separation /\ trimmed' = trimmed /\ active0' = active0
        /\ initial' = initial /\ stage' = stage
    BY <1>13 DEF sampleVars, detection
  <2>2. /\ Given' /\ (FirstStage => FirstStage') /\ Geo' = Geo /\ setting' = setting /\ Blocks' = Blocks
        /\ positive' = positive
    BY <2>1, DataKept
  <2>3. Removed' = Removed /\ Counted' = Counted BY <2>1 DEF Removed, Counted
  <2>4. Shaped' BY <2>1, <2>2 DEF StagesInv, Shaped
  <2>5. CountsOK'
    <3>1. CountsOK BY DEF StagesInv
    <3> QED BY <2>1, <2>2, <2>3, <3>1 DEF CountsOK
  <2>6. stage = "select" => Unselected' BY <2>1 DEF StagesInv, Unselected
  <2>7. stage # "select" => FirstStage' /\ Detected(Geo, active0, full.separated, full.singletons)'
    <3>1. stage # "select" => FirstStage /\ Detected(Geo, active0, full.separated, full.singletons)
      BY DEF StagesInv
    <3> QED BY <2>1, <2>2, <3>1
  <2>8. stage \in {"detect", "method"} => UntouchedParts' /\ PassedParts'
    <3>1. \A c : LeftIn(c)' = LeftIn(c) BY <2>1, <2>2, <2>3 DEF LeftIn
    <3>2. UntouchedParts => UntouchedParts' BY <2>1, <2>2, <2>3 DEF UntouchedParts, Untouched
    <3>3. PassedParts => PassedParts' BY <2>1, <2>2, <3>1 DEF PassedParts, Passed
    <3> QED BY <3>2, <3>3 DEF StagesInv
  <2>9. stage \in {"irls", "irls_after_mu", "done"} => Outcome'
    <3>1. Outcome => Outcome' BY <2>1, <2>2, <2>3 DEF Outcome
    <3> QED BY <3>1 DEF StagesInv
  <2>10. stage \in {"detect", "method"} => trimmed' = [mu |-> {}, singletons |-> {}]
    BY <2>1 DEF StagesInv
  <2> QED BY <2>1, <2>2, <2>4, <2>5, <2>6, <2>7, <2>8, <2>9, <2>10 DEF StagesInv
<1> QED BY <1>1, <1>2, <1>3, <1>4, <1>5, <1>6, <1>7, <1>8, <1>9, <1>10, <1>11, <1>12, <1>13 DEF SampleNext

\* Every state of the stages keeps what the invariant says of the parts, of the
\* counts and of the rows removed so far (detect_separation, dense or component by
\* component, and fit_arrays after it).
THEOREM StagesInvariant == SampleSpec => []StagesInv
<1>1. SampleInit => StagesInv BY StagesInit
<1>2. StagesInv /\ [SampleNext]_sampleVars => StagesInv' BY StagesNext
<1> QED BY <1>1, <1>2, PTL DEF SampleSpec

-----------------------------------------------------------------------------
(* What the invariant says of the report and of the sample.                   *)

\* The stages keep their masks within the data and every count of by_method
\* within the number of rows (SeparationResult).
THEOREM StagesTypeCorrect == SampleSpec => []SampleTypeOK
<1>1. StagesInv => SampleTypeOK
  <2> SUFFICES ASSUME StagesInv PROVE SampleTypeOK OBVIOUS
  <2>1. Given /\ Shaped /\ CountsOK BY DEF StagesInv
  <2>2. /\ setting \in SettingType /\ Accepted(setting) /\ IsDesign(design)
        /\ (setting.block => design.code # <<>>)
        /\ unit \in SUBSET Rows /\ (~setting.fweight => unit = Rows)
    BY <2>1, GivenFacts
  <2>3. IsFit([setting |-> setting, design |-> design, unit |-> unit]) BY <2>2 DEF IsFit
  <2>4. todo \subseteq Methods BY <2>1, SettingFields DEF Shaped
  <2> QED BY <2>1, <2>3, <2>4 DEF SampleTypeOK, Shaped, CountsOK, StageNames
<1> QED BY <1>1, StagesInvariant, PTL

LEMMA JoinCards ==
  ASSUME Given, NEW A \in SUBSET Rows, NEW B \in SUBSET Rows, A \cap B = {}
  PROVE  Cardinality(A \cup B) = Cardinality(A) + Cardinality(B)
<1>1. IsFiniteSet(A) /\ IsFiniteSet(B) /\ Cardinality(A) \in 0..NObs /\ Cardinality(B) \in 0..NObs
  BY CardsOf
<1>2. Cardinality(A \cup B) = Cardinality(A) + Cardinality(B) - Cardinality(A \cap B) BY <1>1, FS_Union
<1>3. Cardinality(A \cap B) = 0 BY FS_EmptySet
<1> QED BY <1>1, <1>2, <1>3

LEMMA CardOfRows ==
  ASSUME Given
  PROVE  Cardinality(Rows) = NObs /\ NObs \in Nat
<1>1. NObs \in Nat \ {0} BY GivenFacts
<1> QED BY <1>1, FS_Interval DEF Rows

\* The rows of the report of a fit that is done, for the masks of each stage.
LEMMA Accounted ==
  ASSUME StagesInv, stage = "done"
  PROVE  /\ sample \cap separation = IF setting.iv THEN trimmed.mu ELSE {}
         /\ NSingletons + Cardinality(sample \cup separation) = NObs
         /\ ~setting.iv => NSingletons = Cardinality(initial.singletons)
                             + Cardinality(full.singletons) + Cardinality(trimmed.singletons)
<1>1. /\ Given /\ Shaped /\ FirstStage /\ Outcome
      /\ Detected(Geo, active0, full.separated, full.singletons)
  BY DEF StagesInv
<1> PICK i : i = initial.singletons OBVIOUS
<1> PICK s : s = initial.separated OBVIOUS
<1> PICK fs : fs = full.separated OBVIOUS
<1> PICK fg : fg = full.singletons OBVIOUS
<1> PICK M : M = trimmed.mu OBVIOUS
<1> PICK T : T = trimmed.singletons OBVIOUS
<1> PICK act : act = active0 OBVIOUS
<1>2. act \in SUBSET Rows /\ i \cup s = Rows \ act /\ i \cap s = {} BY <1>1 DEF FirstStage, Shaped
<1>3. fs \cup fg \subseteq act /\ fs \cap fg = {} BY <1>1 DEF Detected
<1>4. M \cup T \subseteq act \ (fs \cup fg) /\ M \cap T = {} /\ (setting.iv => T = {})
  BY <1>1 DEF Outcome, Removed
<1>5. sample = (act \ (fs \cup fg)) \ (IF setting.iv THEN {} ELSE M \cup T) BY <1>1 DEF Outcome, Removed
<1>6. separation = s \cup M \cup IF setting.iv /\ ~setting.unified THEN fs \cup fg ELSE fs
  BY <1>1 DEF Outcome, Removed
<1>7. i \in SUBSET Rows /\ fg \in SUBSET Rows /\ T \in SUBSET Rows /\ sample \in SUBSET Rows
      /\ separation \in SUBSET Rows /\ sample \cup separation \in SUBSET Rows
  BY <1>2, <1>3, <1>4, <1>5, <1>6
<1>8. /\ Cardinality(i) \in 0..NObs /\ Cardinality(fg) \in 0..NObs /\ Cardinality(T) \in 0..NObs
      /\ Cardinality(sample) \in 0..NObs /\ Cardinality(separation) \in 0..NObs
      /\ Cardinality(sample \cup separation) \in 0..NObs
  BY <1>1, <1>7, CardsOf
<1>9. Cardinality(Rows) = NObs /\ NObs \in Nat BY <1>1, CardOfRows
<1>10. sample \cap separation = IF setting.iv THEN M ELSE {} BY <1>2, <1>3, <1>4, <1>5, <1>6
<1>11. CASE setting.iv
  <2> PICK g : g = IF setting.unified THEN fg ELSE {} OBVIOUS
  <2>1. /\ g \in SUBSET Rows /\ i \cap g = {} /\ (sample \cup separation) \cap (i \cup g) = {}
        /\ (sample \cup separation) \cup (i \cup g) = Rows
    BY <1>2, <1>3, <1>4, <1>5, <1>6, <1>11
  <2>2. Cardinality(i \cup g) = Cardinality(i) + Cardinality(g) BY <1>1, <1>7, <2>1, JoinCards
  <2>3. Cardinality((sample \cup separation) \cup (i \cup g))
          = Cardinality(sample \cup separation) + Cardinality(i \cup g)
    <3>1. i \cup g \in SUBSET Rows BY <1>7, <2>1
    <3> QED BY <1>1, <1>7, <2>1, <3>1, JoinCards
  <2>4. NSingletons = Cardinality(i) + Cardinality(g)
    <3>1. Cardinality({}) = 0 BY FS_EmptySet
    <3> QED BY <1>11, <3>1 DEF NSingletons
  <2>5. Cardinality(g) \in 0..NObs BY <1>1, <2>1, CardsOf
  <2>6. NSingletons + Cardinality(sample \cup separation) = NObs
    BY <1>8, <1>9, <2>1, <2>2, <2>3, <2>4, <2>5
  <2> QED BY <1>10, <1>11, <2>6
<1>12. CASE ~setting.iv
  <2>1. /\ sample \cap separation = {} /\ i \cap fg = {} /\ (i \cup fg) \cap T = {}
        /\ (sample \cup separation) \cap (i \cup fg \cup T) = {}
        /\ (sample \cup separation) \cup (i \cup fg \cup T) = Rows
    BY <1>2, <1>3, <1>4, <1>5, <1>6, <1>12
  <2>2. Cardinality(sample \cup separation) = Cardinality(sample) + Cardinality(separation)
    BY <1>1, <1>7, <2>1, JoinCards
  <2>3. Cardinality(i \cup fg) = Cardinality(i) + Cardinality(fg) BY <1>1, <1>7, <2>1, JoinCards
  <2>4. Cardinality((i \cup fg) \cup T) = Cardinality(i \cup fg) + Cardinality(T)
    <3>1. i \cup fg \in SUBSET Rows BY <1>7
    <3> QED BY <1>1, <1>7, <2>1, <3>1, JoinCards
  <2>5. Cardinality((sample \cup separation) \cup (i \cup fg \cup T))
          = Cardinality(sample \cup separation) + Cardinality(i \cup fg \cup T)
    <3>1. i \cup fg \cup T \in SUBSET Rows BY <1>7
    <3> QED BY <1>1, <1>7, <2>1, <3>1, JoinCards
  <2>6. NSingletons = NObs - Cardinality(sample) - Cardinality(separation) BY <1>12 DEF NSingletons
  <2> PICK a, b, c, d, e \in 0..NObs :
        /\ a = Cardinality(sample) /\ b = Cardinality(separation) /\ c = Cardinality(i)
        /\ d = Cardinality(fg) /\ e = Cardinality(T)
    BY <1>8
  <2>7. a + b + (c + d + e) = NObs BY <1>9, <2>1, <2>2, <2>3, <2>4, <2>5
  <2>8. NSingletons = c + d + e BY <1>9, <2>6, <2>7
  <2>9. NSingletons + Cardinality(sample \cup separation) = NObs BY <1>9, <2>2, <2>7, <2>8
  <2> QED BY <1>10, <1>12, <2>8, <2>9
<1> QED BY <1>11, <1>12

LEMMA MethodsAddUp ==
  ASSUME StagesInv, stage = "done"
  PROVE  MapThenSumSet(LAMBDA m : counts[m], setting.methods)
           = initial.nfe + Cardinality(full.separated) + Cardinality(trimmed.mu)
<1>1. Given /\ CountsOK /\ Shaped BY DEF StagesInv
<1>2. /\ counts \in [Methods -> 0..NObs] /\ \A m \in Methods \ setting.methods : counts[m] = 0
      /\ Counted = Cardinality(full.separated) + initial.nfe /\ counts["mu"] = Cardinality(trimmed.mu)
  BY <1>1 DEF CountsOK
<1>3. setting.methods \in SUBSET Methods BY <1>1, SettingFields
<1>4. counts \in [Methods -> Int] BY <1>2, GivenFacts, <1>1
<1>5. MapThenSumSet(LAMBDA m : counts[m], setting.methods)
        = counts["fe"] + counts["simplex"] + counts["relu"] + counts["mu"]
  <2>1. MapThenSumSet(LAMBDA m : counts[m], setting.methods) =
          (IF "fe" \in setting.methods THEN counts["fe"] ELSE 0)
          + (IF "simplex" \in setting.methods THEN counts["simplex"] ELSE 0)
          + (IF "relu" \in setting.methods THEN counts["relu"] ELSE 0)
          + (IF "mu" \in setting.methods THEN counts["mu"] ELSE 0)
    BY ONLY <1>3, <1>4, SumOfCounts
  <2>2. \A m \in Methods : (IF m \in setting.methods THEN counts[m] ELSE 0) = counts[m] BY <1>2
  <2>3. "fe" \in Methods /\ "simplex" \in Methods /\ "relu" \in Methods /\ "mu" \in Methods
    BY DEF Methods
  <2> QED BY <2>1, <2>2, <2>3
<1>6. Cardinality(full.separated) \in 0..NObs /\ initial.nfe \in 0..NObs /\ Cardinality(trimmed.mu) \in 0..NObs
  BY <1>1, CardsOf DEF Shaped
<1>7. NObs \in Nat BY <1>1, CardOfRows
<1> QED BY <1>2, <1>5, <1>6, <1>7 DEF Counted

\* At the end of a fit the sample, the separation mask and the singletons of the
\* report make up the data, and by_method the separated rows (fit_arrays of both
\* estimators).
THEOREM ReportAddsUp == SampleSpec => []EveryRowAccounted
<1>1. StagesInv /\ SampleTypeOK => EveryRowAccounted
  BY Accounted, MethodsAddUp DEF EveryRowAccounted
<1> QED BY <1>1, StagesInvariant, StagesTypeCorrect, PTL

\* What the initial stage removed is positive or separated in the data.
LEMMA FirstLess ==
  ASSUME StagesInv, stage # "select"
  PROVE  Less(Geo, Rows, active0) /\ active0 \in SUBSET Rows
<1>1. Given /\ FirstStage /\ active0 \in SUBSET Rows BY DEF StagesInv, Shaped
<1>2. active0 = Staying(Geo, Rows, InitialUnits, FeZeroPeeling) BY <1>1 DEF FirstStage
<1>3. Sound(Geo) /\ Rows \in SUBSET Rows BY <1>1, GeoSound
<1>4. Less(Geo, Rows, active0) BY <1>2, <1>3, StayLess
<1> QED BY <1>1, <1>4

LEMMA LabelledSeparated ==
  ASSUME StagesInv, stage # "select"
  PROVE  initial.separated \cup full.separated \subseteq Separated(Rows)
<1>1. /\ Given /\ FirstStage /\ active0 \in SUBSET Rows
      /\ Detected(Geo, active0, full.separated, full.singletons)
  BY DEF StagesInv, Shaped
<1>2. Less(Geo, Rows, active0) BY FirstLess
<1>3. Sep(Geo, active0) \subseteq Sep(Geo, Rows) /\ (Rows \ active0) \ Geo.positive \subseteq Sep(Geo, Rows)
  BY <1>2, LessSep
<1>4. initial.separated \subseteq Rows \ active0 /\ initial.separated \cap Geo.positive = {}
  BY <1>1, GeoFields DEF FirstStage
<1>5. ASSUME NEW r \in full.separated PROVE r \in Sep(Geo, active0)
  <2>1. Apart(Geo) /\ r \in active0 /\ r \notin Geo.positive BY <1>1 DEF Detected
  <2>2. Geo.part[r] \in Rows BY <1>1, <2>1, GeoSound DEF Sound
  <2> PICK c \in Rows : c = Geo.part[r] BY <2>2
  <2> PICK A : A = PartOf(Geo, active0, c) OBVIOUS
  <2> PICK K : K = PartOf(Geo, active0 \ (full.separated \cup full.singletons), c) OBVIOUS
  <2>3. Less(Geo, A, K) BY <1>1 DEF Detected
  <2>4. r \in A \ K BY <2>1 DEF PartOf
  <2>5. r \in Sep(Geo, A) BY <2>1, <2>3, <2>4, LessSep
  <2>6. Sep(Geo, A) \subseteq Sep(Geo, active0) BY <1>1, <2>1 DEF Apart
  <2> QED BY <2>5, <2>6
<1>6. Separated(Rows) = Sep(Geo, Rows) BY <1>1, SeparatedIs
<1> QED BY <1>3, <1>4, <1>5, <1>6

\* Whatever was removed before it, a row that is labelled separated before IRLS
\* has a certificate in the data of the fit (initial_sample_selection and
\* detect_separation).
THEOREM LabelledRowsDiverge == SampleSpec => []SeparatedRowsDiverge
<1>1. StagesInv => SeparatedRowsDiverge BY LabelledSeparated DEF SeparatedRowsDiverge
<1> QED BY <1>1, StagesInvariant, PTL

\* The sample of a fit that ReLU certified and mu did not touch.
LEMMA CanonicalSample ==
  ASSUME StagesInv, stage = "done", certified, "relu" \in setting.methods, trimmed.mu = {},
         setting.unified \/ ~setting.fweight
  PROVE  sample = Keep(Rows \ Separated(Rows), FrequencyUnits, FALSE)
<1>1. /\ Given /\ Outcome /\ active0 \in SUBSET Rows
      /\ Detected(Geo, active0, full.separated, full.singletons)
  BY DEF StagesInv, Shaped
<1>2. /\ Geo.units = FrequencyUnits /\ Geo.joint
  BY <1>1, GeoFields
<1>3. trimmed.singletons = {} /\ Sep(Geo, active0 \ Removed) = {} /\ sample = active0 \ Removed
      /\ Going(Geo, sample, Geo.units, Geo.zeros) = {}
  BY <1>1 DEF Outcome
<1>4. sample \in SUBSET Rows /\ Sep(Geo, sample) = {} BY <1>1, <1>3
<1> PICK z : z = FALSE OBVIOUS
<1>5. CoreOf(Geo) = Keep(Rows \ Separated(Rows), FrequencyUnits, z)
  <2>1. Separated(Rows) = Sep(Geo, Rows) BY <1>1, SeparatedIs
  <2>2. Keep(Rows \ Separated(Rows), FrequencyUnits, z)
          = Staying(Geo, Rows \ Separated(Rows), FrequencyUnits, z)
    BY <1>1, KeepIs
  <2> QED BY <1>2, <2>1, <2>2 DEF CoreOf
<1>6. CoreOf(Geo) \subseteq sample BY <1>1, <1>2, <1>3 DEF Detected, Removed
<1>7. sample \subseteq CoreOf(Geo)
  <2>1. Sep(Geo, Rows) \cap sample \subseteq Sep(Geo, sample) BY <1>4, SepOfParts
  <2>2. sample \in SUBSET (Rows \ Sep(Geo, Rows)) BY <1>4, <2>1
  <2>3. Going(Geo, sample, Geo.units, z) = {} BY <1>3 DEF Going, Goes
  <2>4. sample \subseteq Staying(Geo, Rows \ Sep(Geo, Rows), Geo.units, z) BY <2>2, <2>3, StayMost
  <2> QED BY <2>4 DEF CoreOf
<1> QED BY <1>5, <1>6, <1>7

LEMMA NothingTriggered ==
  ASSUME StagesInv, stage = "done"
  PROVE  Triggered(sample, FrequencyUnits, setting.unified /\ "fe" \in setting.methods) = {}
<1>1. Given /\ Outcome BY DEF StagesInv
<1>2. Geo.units = FrequencyUnits /\ Geo.zeros = (setting.unified /\ "fe" \in setting.methods)
  BY DEF Geo
<1>3. Going(Geo, sample, Geo.units, Geo.zeros) = {} BY <1>1 DEF Outcome
<1> PICK z : z = (setting.unified /\ "fe" \in setting.methods) OBVIOUS
<1>4. Triggered(sample, FrequencyUnits, z) = Going(Geo, sample, FrequencyUnits, z) BY <1>1, TriggeredIs
<1> QED BY <1>2, <1>3, <1>4

\* With a ReLU certificate and no mu deletions every choice and order of the
\* methods, dense or by component, arrives at one sample; in every setting the
\* sample holds no row its policy would peel and the report adds up
\* (detect_separation, detect_separation_block and separation_survivors).
THEOREM OneSample == SampleSpec => []SampleIsCanonical
<1>1. StagesInv /\ EveryRowAccounted => SampleIsCanonical
  <2> SUFFICES ASSUME StagesInv, EveryRowAccounted PROVE SampleIsCanonical OBVIOUS
  <2>1. ASSUME stage = "done", certified /\ "relu" \in setting.methods /\ trimmed.mu = {},
               setting.unified \/ ~setting.fweight
        PROVE  sample = Keep(Rows \ Separated(Rows), FrequencyUnits, FALSE)
    BY <2>1, CanonicalSample
  <2>2. stage = "done" => Triggered(sample, FrequencyUnits, setting.unified /\ "fe" \in setting.methods) = {}
    BY NothingTriggered
  <2> QED BY <2>1, <2>2 DEF SampleIsCanonical
<1> QED BY <1>1, StagesInvariant, ReportAddsUp, PTL

=============================================================================
