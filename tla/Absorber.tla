-------------------------------- MODULE Absorber --------------------------------
(***************************************************************************)
(* The FE solvers of econhdfe/hdfe: HDFEAbsorber (absorber.py) step by     *)
(* step, TwoWayFEAbsorber (two_way.py) and WithinFEAbsorber                *)
(* (within_backend.py) as far as an estimator can tell them apart, and the *)
(* certified projection of one weak control direction that linear IV runs  *)
(* on an absorber (models/linear_iv/absorption.py).                        *)
(*                                                                         *)
(* Weights are versions; a solver's denominators and slope projectors are  *)
(* the version they were summed under.  A tolerance is a number, smaller   *)
(* is tighter.  Of a block of columns the model keeps what is known of its *)
(* accuracy: `tested`, the tightest tolerance it has passed a stopping     *)
(* test for, and `err`, the FE orthogonality error if it was measured and  *)
(* the block not changed since.  Whether a sweep or a conjugate-gradient   *)
(* (CG) step brings a test to pass is up to the data.                      *)
(***************************************************************************)
EXTENDS Integers, FiniteSets, FiniteSetsExt

CONSTANTS
  Solvers,          \* the solver objects of the program
  Clients,          \* threads that project with them
  Shapes,           \* what a solver may be compiled for, see ShapeType
  Weights, Zero,    \* weight vectors; those with a weight of zero
  Tols,
  MaxIter,          \* max_iter
  PlainLimit,       \* auto_plain_limit
  PolishLimit,      \* auto_polish_limit
  DirectionSweeps   \* 8: sweeps of one phase of a weak direction

VARIABLES abs,      \* per solver: the object, or NotBuilt
          call,     \* per client: where its projection stands
          kernel,   \* per solver and per core object: the owner of its _execution_lock
          report    \* per client: the AbsorbInfo it was handed last, or NoReport

avars == <<abs, call, kernel, report>>

\* peel: what build_numerical_core leaves: "none" (nothing to peel, or peeling
\* not admitted), "some" rows, or "all" rows peeled.  One FE term has terms = 1.
ShapeType == [kind : {"generic", "twoway", "within"}, method : {"map", "lsmr"},
              acceleration : {"cg", "auto", "none"}, terms : {1, 2},
              peel : {"none", "some", "all"}]

NoClient == "nobody"

\* Of the tolerances one is the loosest.
ASSUME AbsorberAssumption ==
  /\ Shapes \subseteq ShapeType
  /\ \A s \in Shapes : s.peel # "none" => s.kind = "generic" /\ s.terms = 2
  /\ Zero \subseteq Weights
  /\ Tols \subseteq Nat \ {0}
  /\ Max(Tols) \in Tols /\ \A t \in Tols : t <= Max(Tols)
  /\ {MaxIter, PlainLimit, DirectionSweeps} \subseteq Nat \ {0} /\ PolishLimit \in Nat
  /\ "none" \notin Solvers /\ {NoClient, "outer"} \cap Clients = {}

NotBuilt == [built |-> FALSE]
NoCore == [built |-> FALSE]
NoReport == [of |-> "none", converged |-> FALSE, iterations |-> 0, tested |-> 0,
             consulted |-> {}]
Never == Max(Tols) + 1      \* has passed no test
Unmeasured == -1
Idle == [pc |-> "idle", of |-> "none", on |-> "outer", it |-> 0, cap |-> 0,
         phase |-> 0, tested |-> Never, err |-> Unmeasured, tol |-> 0]

AbsorberInit ==
  /\ abs = [o \in Solvers |-> NotBuilt]
  /\ call = [c \in Clients |-> Idle]
  /\ kernel = [x \in Solvers \X ({"outer"} \cup Clients) |-> NoClient]
  /\ report = [c \in Clients |-> NoReport]

\* A client has taken its answer before it asks, or re-weights, again.
Free(c) == call[c].pc = "idle" /\ report[c] = NoReport
Unused(o) == \A c \in Clients : call[c].of # o /\ report[c].of # o

-----------------------------------------------------------------------------
(* Compiling, re-weighting and direct assignment of settings: done by one     *)
(* estimator, between its projections.                                       *)

\* Peeled rows are exact only while every observation counts.
Peelable(s, w) == IF w \in Zero THEN "none" ELSE s.peel

Build(o, s, w, t) ==
  /\ abs[o] = NotBuilt
  /\ s.kind # "generic" => w \notin Zero
  /\ abs' = [abs EXCEPT ![o] =
       [shape |-> s, weights |-> w, denoms |-> w, tol |-> t,
        plan |-> Peelable(s, w), core |-> NoCore]]
  /\ UNCHANGED <<call, kernel, report>>

\* The core's own sums follow; a weight of zero ends the peeling for good.
CoreUpdated_Kept(core, w, t) == core
CoreUpdated(core, w, t) ==
  IF core = NoCore THEN NoCore ELSE [core EXCEPT !.weights = w, !.denoms = w, !.tol = t]

PlanUpdated(plan, w) == IF w \in Zero THEN "none" ELSE plan

Reweighted(a, w, t) ==
  LET p == PlanUpdated(a.plan, w)
  IN [a EXCEPT !.weights = w, !.denoms = w, !.tol = t, !.plan = p,
               !.core = IF p = "none" THEN NoCore ELSE CoreUpdated(a.core, w, t)]

UpdateWeights(o, w, t) ==
  /\ abs[o] # NotBuilt
  /\ Unused(o)
  /\ abs[o].shape.kind # "generic" => w \notin Zero
  /\ abs' = [abs EXCEPT ![o] = Reweighted(@, w, t)]
  /\ UNCHANGED <<call, kernel, report>>

\* absorber.tol = ... , as the OLS and session paths do for a weak basis of a
\* pure categorical MAP or native problem (weak_basis_eligible).  A compiled core
\* is a solver of its own and keeps the tolerance it was given.
AssignTol(o, t) ==
  /\ abs[o] # NotBuilt
  /\ Unused(o)
  /\ abs[o].shape.method = "map" /\ abs[o].shape.kind # "twoway"
  /\ abs' = [abs EXCEPT ![o].tol = t]
  /\ UNCHANGED <<call, kernel, report>>

-----------------------------------------------------------------------------
OnCore(c) == call[c].on # "outer"
Object(c) == LET a == abs[call[c].of] IN IF OnCore(c) THEN a.core ELSE a
Shape(c) == abs[call[c].of].shape
Lock(c) == <<call[c].of, call[c].on>>
Tol(c) == Object(c).tol

Goto(c, r) == call' = [call EXCEPT ![c] = r]
Vacant_Ignored(c) == TRUE
Vacant(c) == kernel[Lock(c)] = NoClient
Take(c) == Vacant(c) /\ kernel' = [kernel EXCEPT ![Lock(c)] = c]
Drop_Kept(c) == UNCHANGED kernel
Drop(c) == kernel' = [kernel EXCEPT ![Lock(c)] = NoClient]

\* What the numbers of an answer were computed from: peeling rows is no
\* projection when one of them has no weight.
Consulted(c) ==
  LET a == abs[call[c].of]
  IN {Object(c).weights, Object(c).denoms}
       \cup IF OnCore(c) /\ a.weights \in Zero THEN {"peeled"} ELSE {}

Info(c, converged, it, tested) ==
  [of |-> call[c].of, converged |-> converged, iterations |-> it, tested |-> tested,
   consulted |-> Consulted(c)]

Return(c, converged, it, tested) ==
  /\ report' = [report EXCEPT ![c] = Info(c, converged, it, tested)]
  /\ Goto(c, Idle)

\* A solve has ended.  CG on the core is checked for FE orthogonality (it was
\* cheap to make small); any other answer is final.
Solved(c, converged, it, tested, cg) ==
  /\ Drop(c)
  /\ IF cg /\ OnCore(c)
     THEN /\ Goto(c, [call[c] EXCEPT !.pc = IF converged THEN "check" ELSE "checkFailed",
                                     !.it = it, !.tested = tested,
                                     !.cap = 0])
          /\ UNCHANGED report
     ELSE Return(c, converged, it, tested)
  /\ UNCHANGED abs

(* residualize *)
Solving(a) == IF a.shape.kind # "generic" THEN "closed"
              ELSE IF a.shape.method = "map" THEN "wait" ELSE "lsmr"

Ask(c, o) ==
  /\ Free(c)
  /\ abs[o] # NotBuilt
  /\ Goto(c, [Idle EXCEPT !.of = o,
       !.pc = CASE abs[o].plan = "all"  -> "peeled"
                [] abs[o].plan = "none" -> Solving(abs[o])
                [] abs[o].plan = "some" -> IF abs[o].core = NoCore THEN "noCore" ELSE "core"])
  /\ UNCHANGED <<abs, kernel, report>>

\* _ensure_core_absorber holds no lock: two threads that find no core build one
\* each, and the later assignment stays.  A core is named by who built it.
CoreOf(c, a) == [by |-> c, weights |-> a.weights, denoms |-> a.weights, tol |-> a.tol]

BuildCore(c) ==
  /\ call[c].pc = "noCore"
  /\ abs' = [abs EXCEPT ![call[c].of].core = CoreOf(c, abs[call[c].of])]
  /\ Goto(c, [call[c] EXCEPT !.pc = "core"])
  /\ UNCHANGED <<kernel, report>>

UseCore(c) ==
  /\ call[c].pc = "core"
  /\ LET a == abs[call[c].of]
     IN Goto(c, [call[c] EXCEPT !.on = a.core.by, !.pc = Solving(a)])
  /\ UNCHANGED <<abs, kernel, report>>

\* Every row was peeled: the residual is zero.
AllPeeled(c) ==
  /\ call[c].pc = "peeled"
  /\ Return(c, TRUE, 0, 0)
  /\ UNCHANGED <<abs, kernel>>

\* The two-way and the native solver iterate on their own.
Closed(c) ==
  /\ call[c].pc = "closed"
  /\ \E it \in 0..MaxIter, ok \in BOOLEAN : Return(c, ok, it, IF ok THEN Tol(c) ELSE Never)
  /\ UNCHANGED <<abs, kernel>>

Lsmr(c) ==
  /\ call[c].pc = "lsmr"
  /\ \E it \in 0..MaxIter, ok \in BOOLEAN : Return(c, ok, it, IF ok THEN Tol(c) ELSE Never)
  /\ UNCHANGED <<abs, kernel>>

\* _residualize_map under the lock of the object it runs on: one term is exact,
\* otherwise CG, plain sweeps, or two probing sweeps that decide.
Enter(c) ==
  /\ call[c].pc = "wait"
  /\ Take(c)
  /\ Goto(c, [call[c] EXCEPT !.cap = MaxIter,
       !.pc = IF Shape(c).terms = 1 THEN "oneTerm"
              ELSE CASE Shape(c).acceleration = "cg"   -> "cgStart"
                     [] Shape(c).acceleration = "auto" -> "probe"
                     [] Shape(c).acceleration = "none" -> "plain"])
  /\ UNCHANGED <<abs, report>>

OneTerm(c) == call[c].pc = "oneTerm" /\ Solved(c, TRUE, 1, 0, FALSE)

On(c, next) == Goto(c, next) /\ UNCHANGED <<abs, kernel, report>>

\* Two sweeps; their contraction decides what follows.
ProbeLast(it) == it = Min({2, MaxIter})
AutoPlain(it) == Min({PlainLimit, MaxIter}) - it
Probe(c) ==
  LET it == call[c].it + 1
  IN /\ call[c].pc = "probe"
     /\ \/ Solved(c, TRUE, it, Tol(c), FALSE)
        \/ ~ProbeLast(it) /\ On(c, [call[c] EXCEPT !.it = it])
        \/ ProbeLast(it) /\ it >= MaxIter /\ Solved(c, FALSE, it, Never, FALSE)
        \/ /\ ProbeLast(it) /\ it < MaxIter
           /\ \E fast \in BOOLEAN :
                On(c, [call[c] EXCEPT !.it = it,
                         !.pc = IF fast /\ AutoPlain(it) > 0 THEN "plain" ELSE "cgStart",
                         !.cap = IF fast /\ AutoPlain(it) > 0 THEN it + AutoPlain(it) ELSE @])

\* Plain symmetric sweeps, up to the cap; in "auto" what is left goes to CG.
Plain(c) ==
  LET it == call[c].it + 1
  IN /\ call[c].pc = "plain"
     /\ \/ Solved(c, TRUE, it, Tol(c), FALSE)
        \/ it < call[c].cap /\ On(c, [call[c] EXCEPT !.it = it])
        \/ it = call[c].cap /\ it >= MaxIter /\ Solved(c, FALSE, it, Never, FALSE)
        \/ /\ it = call[c].cap /\ it < MaxIter
           /\ On(c, [call[c] EXCEPT !.it = it, !.pc = "cgStart", !.cap = MaxIter])

\* _cg: energies that cannot be represented end it before the first step.
CgBudget_Restart(c) == call[c].it + MaxIter
CgBudget(c) == MaxIter
CgStart(c) ==
  /\ call[c].pc = "cgStart"
  /\ \/ Solved(c, FALSE, call[c].it, Never, TRUE)
     \/ On(c, [call[c] EXCEPT !.pc = "cg", !.cap = CgBudget(c)])

\* One CG step: stops by the Hestenes rule; breaks down; finds the true residual
\* to be roundoff; or goes on, from the recurrence or from the true residual.
CgStep(c) ==
  LET it == call[c].it + 1
      end == it = call[c].cap
  IN /\ call[c].pc = "cg"
     /\ \/ Solved(c, TRUE, it, Tol(c), TRUE)
        \/ Solved(c, FALSE, it, Never, TRUE)
        \/ Solved(c, TRUE, it, 0, TRUE)
        \/ ~end /\ On(c, [call[c] EXCEPT !.it = it])

(* residualize again, with the core's answer in hand *)
Errors == 1..Never
CheckCore(c) ==
  /\ call[c].pc \in {"check", "checkFailed"}
  /\ LET ok == call[c].pc = "check"
     IN \E e \in Errors :
          IF e > abs[call[c].of].tol /\ call[c].it < MaxIter
          THEN On(c, [call[c] EXCEPT !.pc = "polishWait", !.err = e])
          ELSE /\ Return(c, ok, call[c].it, IF ok THEN Min({call[c].tested, e}) ELSE e)
               /\ UNCHANGED <<abs, kernel>>

\* Sweeps until the error passes the core's tolerance, within both limits; a
\* limit of 0 ends it unchecked, as converged.
PolishCap(it) == Min({MaxIter, it + PolishLimit})
EnterPolish(c) ==
  /\ call[c].pc = "polishWait"
  /\ Take(c)
  /\ Goto(c, [call[c] EXCEPT !.pc = "polish", !.cap = PolishCap(call[c].it)])
  /\ UNCHANGED <<abs, report>>

Polish(c) ==
  /\ call[c].pc = "polish"
  /\ IF PolishLimit = 0
     THEN /\ Drop(c)
          /\ Return(c, TRUE, call[c].it, call[c].tested)
          /\ UNCHANGED abs
     ELSE IF call[c].err <= Tol(c)
     THEN /\ Drop(c)
          /\ Return(c, TRUE, call[c].it, Min({call[c].tested, call[c].err}))
          /\ UNCHANGED abs
     ELSE IF call[c].it = call[c].cap
     THEN /\ Drop(c)
          /\ Return(c, FALSE, call[c].it, call[c].err)
          /\ UNCHANGED abs
     ELSE \E e \in Errors : On(c, [call[c] EXCEPT !.it = @ + 1, !.err = e, !.tested = Never])

-----------------------------------------------------------------------------
(* One weak direction of the IV controls, on a shallow copy of the solver     *)
(* with allowances of its own: fixed sweeps, LSMR rounds, fixed sweeps.  Only *)
(* pure categorical MAP has the certificate.                                 *)
Certifiable(o) == abs[o].shape.kind = "generic" /\ abs[o].shape.method = "map"

AskDirection(c, o) ==
  /\ Free(c)
  /\ abs[o] # NotBuilt
  /\ Certifiable(o)
  /\ Goto(c, [Idle EXCEPT !.pc = "directionWait", !.of = o, !.tol = abs[o].tol])
  /\ UNCHANGED <<abs, kernel, report>>

\* residualize_fixed_map: one sweep, then three more before each further check.
SweepsTo(done, limit) == IF done = 0 THEN 1 ELSE Min({limit, done + 3})
Certified(c, it, e) ==
  Return(c, e <= abs[call[c].of].tol, it, e)

EnterDirection(c) ==
  /\ call[c].pc \in {"directionWait", "cleanupWait"}
  /\ Take(c)
  /\ Goto(c, [call[c] EXCEPT !.phase = 0,
       !.pc = IF @ = "directionWait" THEN "direction" ELSE "cleanup",
       !.cap = Min({DirectionSweeps, MaxIter - call[c].it})])
  /\ UNCHANGED <<abs, report>>

\* phase counts the sweeps, or the rounds, of this phase.
FixedSweeps(c) ==
  /\ call[c].pc \in {"direction", "cleanup"}
  /\ LET done == SweepsTo(call[c].phase, call[c].cap)
         it == call[c].it + done - call[c].phase
     IN \E e \in Errors :
          IF e <= call[c].tol \/ done >= call[c].cap
          THEN /\ Drop(c)
               /\ IF call[c].pc = "direction" /\ e > call[c].tol /\ it < MaxIter
                  THEN /\ Goto(c, [call[c] EXCEPT !.pc = "rounds", !.it = it, !.phase = 0,
                                     !.cap = MaxIter - Min({DirectionSweeps, MaxIter - it - 1})])
                       /\ UNCHANGED report
                  ELSE Certified(c, it, e)
               /\ UNCHANGED abs
          ELSE On(c, [call[c] EXCEPT !.it = it, !.phase = done])

\* Up to three LSMR rounds, each tighter, that leave the sweeps their share.
\* A round that finds the tolerance at the roundoff limit is the last.
LsmrRound(c) ==
  /\ call[c].pc = "rounds"
  /\ \E n \in 0..(call[c].cap - call[c].it), e \in Errors, last \in BOOLEAN :
       LET it == call[c].it + n
           more == e > call[c].tol /\ ~last /\ call[c].phase < 2 /\ it < call[c].cap
       IN IF more
          THEN On(c, [call[c] EXCEPT !.it = it, !.phase = @ + 1])
          ELSE IF e > call[c].tol /\ it < MaxIter
          THEN On(c, [call[c] EXCEPT !.pc = "cleanupWait", !.it = it, !.phase = 0, !.cap = 0])
          ELSE Certified(c, it, e) /\ UNCHANGED <<abs, kernel>>

-----------------------------------------------------------------------------
Projecting(c) ==
  \/ BuildCore(c) \/ UseCore(c) \/ AllPeeled(c) \/ Closed(c) \/ Lsmr(c) \/ Enter(c) \/ OneTerm(c) \/ Probe(c)
  \/ Plain(c) \/ CgStart(c) \/ CgStep(c) \/ CheckCore(c) \/ EnterPolish(c) \/ Polish(c)
  \/ EnterDirection(c) \/ FixedSweeps(c) \/ LsmrRound(c)

Configure(o) ==
  \E w \in Weights, t \in Tols :
    \/ \E s \in Shapes : Build(o, s, w, t)
    \/ UpdateWeights(o, w, t)

\* The caller takes the answer.
Collect(c) == /\ report[c] # NoReport
              /\ report' = [report EXCEPT ![c] = NoReport]
              /\ UNCHANGED <<abs, call, kernel>>

AbsorberNext ==
  \/ \E o \in Solvers : \/ Configure(o)
                        \/ \E t \in Tols : AssignTol(o, t)
                        \/ \E c \in Clients : Ask(c, o) \/ AskDirection(c, o)
  \/ \E c \in Clients : Projecting(c) \/ Collect(c)

\* A thread that has entered a projection goes on; a lock that is free again and
\* again is obtained at last.
AbsorberFairness == \A c \in Clients : SF_avars(Projecting(c))

AbsorberSpec == AbsorberInit /\ [][AbsorberNext]_avars /\ AbsorberFairness

-----------------------------------------------------------------------------
(* The binding an estimator believes in. *)
Kept(a) == IF a.core = NoCore THEN 0 ELSE a.core.tol
BoundOf(a) == IF a = NotBuilt THEN [weights |-> "none", tol |-> 0, kept |-> 0]
              ELSE [weights |-> a.weights, tol |-> a.tol, kept |-> Kept(a)]

ForDirection == {"directionWait", "direction", "rounds", "cleanupWait", "cleanup"}
ServiceOf(r) == [of |-> r.of, for |-> IF r.pc \in ForDirection THEN "direction" ELSE "block"]

Promise == INSTANCE FreshProjection WITH
             NoSolver <- "none",
             bound <- [o \in Solvers |-> BoundOf(abs[o])],
             serving <- [c \in Clients |-> ServiceOf(call[c])]

\* Every projection is answered, under the weights the solver is bound to, to the
\* tolerance it is bound to or its core has kept since, within max_iter
\* iterations, whatever was peeled, compiled lazily, assigned, switched or
\* polished on the way, and whoever else uses the solver.
KeepsPromise == Promise!FreshSpec

\* The compiled sweeps of one object share its scratch arrays: they are never
\* entered by a second thread.
Sweeping == {"oneTerm", "probe", "plain", "cgStart", "cg", "polish", "direction", "cleanup"}
OneSweeperPerObject ==
  \A c, d \in Clients :
    c # d /\ call[c].pc \in Sweeping /\ call[d].pc \in Sweeping => Lock(c) # Lock(d)
=============================================================================
