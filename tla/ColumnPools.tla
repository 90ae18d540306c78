------------------------------ MODULE ColumnPools ------------------------------
(***************************************************************************)
(* How blocks of columns reach an FE solver: WeightedFEProjector           *)
(* (hdfe/weighted_projection.py) binds weights to one of its compiled      *)
(* solvers, BlockWeightedFEProjector (hdfe/block_projection.py) runs one   *)
(* such projector per disconnected row component, and residualize_blocks   *)
(* and residualize_in_basis (pipeline.py) drive the solver of a linear     *)
(* fit.  All cut the columns into pools that fit the memory left.          *)
(*                                                                         *)
(* The solvers are FreshProjection, which Absorber implements.  A setting  *)
(* assigned to one is an attribute: a core it compiled earlier keeps the   *)
(* settings of that moment.  Bytes are counted in columns of one           *)
(* component.  One call runs at a time on a projector; other threads of    *)
(* the program share its memory allocation.                                *)
(***************************************************************************)
EXTENDS FreshProjection, FiniteSets

CONSTANTS
  Parts,         \* row components, in order; a plain projector has one
  WithFE,        \* those that have fixed effects
  Positive,      \* the components a weight vector has no zero in: <<p, w>>
  MaxColumns,    \* columns of a block
  Allocation,    \* bytes the execution scope may reserve
  Budget,        \* projection_memory_budget_mb
  BuildCost, Resident, Pending,   \* of a solver: construction, kept, lazy
  CallTols,      \* the tolerances weighted calls ask for
  Elsewhere,     \* what other threads may hold of the allocation
  Routes         \* engine, method and number of FE dimensions of a projector

VARIABLES
  route,    \* the projector's own
  fit,      \* the call in progress
  held,     \* bytes it has reserved
  others,   \* bytes other threads have reserved
  used,     \* solvers that have built what they build lazily
  outcome,  \* of the last call
  linear    \* what a linear fit configured its solver with, has now, and
            \* what the solver's core was compiled with

pvars == <<bound, serving, report, route, fit, held, others, used, outcome, linear>>

Caller == "caller"
Kinds == {"within", "twoway", "generic", "linear"}

ASSUME PoolAssumption ==
  /\ Solvers = Parts \X Kinds /\ NoSolver \notin Solvers
  /\ Clients = {Caller}
  /\ WithFE \subseteq Parts /\ WithFE # {}      \* there is a solver to drive
  /\ IsFiniteSet(Parts) /\ Parts \subseteq Nat \ {0}
  /\ MaxIter \in Nat
  /\ Positive \subseteq Parts \X Weights
  /\ CallTols \subseteq Tols /\ Tols \subseteq Nat \ {0}
  /\ {MaxColumns, Allocation, Budget} \subseteq Nat \ {0}
  /\ {BuildCost, Resident, Pending} \cup Elsewhere \subseteq Nat
  /\ Routes \subseteq [engine : {"within", "optimized", "generic"}, method : {"map", "lsmr"},
                       dims : {1, 2, 3}]

-----------------------------------------------------------------------------
(* projection_route and projection_kind of factory.py *)

Certified == route.engine = "within"
RouteMethod == IF Certified /\ route.method = "map" THEN "within" ELSE route.method

\* The specialised solvers need weights without zeros on their rows; the native
\* one otherwise falls back to exact generic LSMR.
Kind(p, w) ==
  IF <<p, w>> \notin Positive THEN "generic"
  ELSE IF RouteMethod = "within" THEN "within"
  ELSE IF route.engine = "optimized" /\ route.dims = 2 /\ RouteMethod # "lsmr" THEN "twoway"
  ELSE "generic"

-----------------------------------------------------------------------------
(* _plan_workspace: how many columns one pool may take; 0 is its refusal. *)

AutoSize == 0
Pow2Floor(n) == IF n <= 1 THEN 1 ELSE Max({k \in 1..n : k \in {2^e : e \in 0..n}})
WorkspacePool(ncols, pool_size) ==
  LET cap == Max({0, Budget - Resident})
      width == IF pool_size = AutoSize THEN 1 ELSE Min({pool_size, ncols})
  IN IF width > cap THEN 0
     ELSE IF pool_size # AutoSize THEN width
     ELSE Min({ncols, Pow2Floor(Min({ncols, cap}))})

\* A weighted projection also leaves room for what is reserved already.
SharedPool(pool, left) ==
  IF left < 1 THEN 0 ELSE IF left < pool THEN Pow2Floor(left) ELSE pool

Lazy(o) == IF o[2] # "within" /\ o \notin used THEN Pending ELSE 0
Unreserved == Allocation - held - others
Room_Eager(o) == Unreserved
Room(o) == Unreserved - Lazy(o)

-----------------------------------------------------------------------------
Sum(f) == FoldSet(LAMBDA p, acc : acc + f[p], 0, DOMAIN f)

NoFit == [pc |-> "idle", mode |-> "none", cols |-> [p \in Parts |-> 0], copy |-> 0,
          weights |-> "none", tol |-> 0, part |-> 0,
          kind |-> "none", width |-> 0, seen |-> 0, lo |-> 0, claim |-> 0, answers |-> {}, adaptive |-> FALSE]
NoOutcome == [how |-> "none", ok |-> TRUE, it |-> 0, of |-> NoFit]

\* The tolerance a linear fit's solver was configured with; the acceleration it
\* has now, and whether its auto_plain_limit is raised; both as they were when
\* its core was compiled.
NoCore == [acceleration |-> "none", raised |-> FALSE]
NoLinear == [built |-> FALSE, tol |-> 0, acceleration |-> "none",
             raised |-> FALSE, core |-> NoCore]

PoolInit ==
  /\ FreshInit
  /\ route \in Routes
  /\ fit = NoFit /\ held = 0 /\ others = 0 /\ used = {} /\ outcome = NoOutcome
  /\ linear = NoLinear

Solver == <<fit.part, fit.kind>>
Columns(p) == fit.cols[p] + IF fit.mode = "response" THEN 1 ELSE 0

Quiet == UNCHANGED <<bound, serving, report>>
Step(f) == fit' = f /\ outcome' = NoOutcome /\ UNCHANGED <<route, others, linear>>

\* reserve_memory: admitted within the allocation, or an error; an error leaves
\* every enclosing claim.
Reserve(n, f) ==
  IF n <= Unreserved THEN held' = held + n /\ Step(f)
  ELSE /\ held' = 0 /\ fit' = NoFit
       /\ outcome' = [NoOutcome EXCEPT !.how = "memory"]
       /\ UNCHANGED <<route, others, linear>>

\* Other threads of the computation reserve and release.
Others == /\ \E n \in Elsewhere : n + held <= Allocation /\ others' = n
          /\ UNCHANGED <<bound, serving, report, route, fit, held, used, outcome, linear>>

(* WeightedFEProjector.residualize; residualize_design and                    *)
(* residualize_response_design of a block projector.                         *)

Start(mode, cols, w, t, copy) ==
  /\ fit.pc = "idle" /\ outcome = NoOutcome /\ ~linear.built
  /\ mode = "weighted" => \A p \in Parts : cols[p] > 0 <=> p = Min(WithFE)
  /\ Step([NoFit EXCEPT !.mode = mode, !.cols = cols, !.weights = w, !.tol = t,
             !.copy = IF copy /\ mode = "weighted" THEN cols[Min(WithFE)] ELSE 0,
             !.pc = IF mode = "weighted" THEN "part" ELSE "outputs"])
  /\ Quiet /\ UNCHANGED <<held, used>>

\* Every block of a result stays live until the call returns; one selection of
\* weights (and of the response) at a time.
Outputs == Sum([p \in Parts |-> Columns(p)])
             + IF fit.mode = "response" THEN Cardinality(Parts) + 2 ELSE 1

ReserveOutputs == /\ fit.pc = "outputs"
                  /\ Reserve(Outputs, [fit EXCEPT !.pc = "part"])
                  /\ Quiet /\ UNCHANGED used

\* Components in order; one without FE, or without columns, is left as it is.
Later(p) == {q \in Parts : q > p}
PassesThrough_Empty(p) == p \notin WithFE \/ fit.cols[p] = 0
PassesThrough(p) == p \notin WithFE \/ Columns(p) = 0

NextPart ==
  /\ fit.pc = "part" /\ Later(fit.part) # {}
  /\ LET p == Min(Later(fit.part))
     IN Step([fit EXCEPT !.part = p, !.kind = Kind(p, fit.weights), !.lo = 0,
                         !.pc = IF PassesThrough(p) THEN "part" ELSE "prepare"])
  /\ Quiet /\ UNCHANGED <<held, used>>

\* prepare: one compiled variant per kind, built at its first use, given the
\* weights of the call at any other.
BuildVariant ==
  /\ fit.pc = "prepare" /\ bound[Solver] = Unbound
  /\ Reserve(BuildCost, [fit EXCEPT !.pc = "build"])
  /\ Quiet /\ UNCHANGED used

Built == /\ fit.pc = "build"
         /\ BindTo(Solver, fit.weights, fit.tol)
         /\ held' = held - BuildCost
         /\ Step([fit EXCEPT !.pc = "copy"])
         /\ UNCHANGED used

Rebind_Kept == UNCHANGED bound /\ UNCHANGED <<serving, report>>
Rebind == BindTo(Solver, fit.weights, fit.tol)
Reweight == /\ fit.pc = "prepare" /\ bound[Solver] # Unbound
            /\ Rebind
            /\ Step([fit EXCEPT !.pc = "copy"])
            /\ UNCHANGED <<held, used>>

CopyColumns == /\ fit.pc = "copy"
               /\ Reserve(fit.copy, [fit EXCEPT !.pc = "plan"])
               /\ Quiet /\ UNCHANGED used

Fails(why) == /\ outcome' = [NoOutcome EXCEPT !.how = why]
              /\ fit' = NoFit /\ held' = 0
              /\ UNCHANGED <<route, others, linear>>

PlanPool ==
  /\ fit.pc = "plan"
  /\ LET pool == WorkspacePool(Columns(fit.part), AutoSize)
         width == SharedPool(pool, Room(Solver))
     IN IF pool = 0 \/ width = 0 THEN Fails("memory")
        ELSE Step([fit EXCEPT !.pc = "scratch", !.width = width, !.seen = Unreserved]) /\ UNCHANGED held
  /\ Quiet /\ UNCHANGED used

\* Between the plan and this claim another thread may have reserved.
ReserveScratch == /\ fit.pc = "scratch"
                  /\ Reserve(fit.width + Lazy(Solver), [fit EXCEPT !.pc = "pool",
                       !.claim = fit.copy + fit.width + Lazy(Solver)])
                  /\ Quiet /\ UNCHANGED used

AskPool == /\ fit.pc = "pool"
           /\ Ask(Caller, Solver, "block")
           /\ Step([fit EXCEPT !.pc = "answer"])
           /\ used' = used \cup {Solver} /\ UNCHANGED held

\* A certified route accepts only converged answers; the rows of one pool are
\* written back before the next.
Acceptable_Any(r) == TRUE
Acceptable(r) == Certified => r.converged

Upto(n) == Min({n, fit.lo + fit.width})
AnswerOf(r, n) == [part |-> fit.part, lo |-> fit.lo, hi |-> Upto(n),
                   ok |-> r.converged, it |-> r.iterations]

TakeAnswer ==
  /\ fit.pc = "answer" /\ report[Caller] # NoReport
  /\ LET r == report[Caller]
         n == Columns(fit.part)
     IN IF ~Acceptable(r) THEN Fails("convergence")
        ELSE /\ Step([fit EXCEPT !.answers = @ \cup {AnswerOf(r, n)}, !.lo = Upto(n),
                                 !.pc = IF Upto(n) < n THEN "pool" ELSE "part_done"])
             /\ UNCHANGED held
  /\ Collect(Caller)
  /\ UNCHANGED used

PartDone == /\ fit.pc = "part_done"
            /\ held' = held - fit.claim
            /\ Step([fit EXCEPT !.pc = "part", !.claim = 0])
            /\ Quiet /\ UNCHANGED used

\* A projector reports its worst pool: unconverged first, then by iterations.
Worse_Iterations(a, b) == a.it > b.it
Worse(a, b) == IF a.ok # b.ok THEN ~a.ok ELSE a.it > b.it
Worst(infos) == CHOOSE a \in infos : \A b \in infos : ~Worse(b, a)

\* A block projector sums the iterations of its components and converges if all
\* of them did; residualize_design reports nothing.
PartInfos(p) == {a \in fit.answers : a.part = p}
PartsRun == {a.part : a \in fit.answers}
Reported ==
  IF fit.answers = {} \/ fit.mode = "design" THEN [ok |-> TRUE, it |-> 0]
  ELSE [ok |-> \A p \in PartsRun : Worst(PartInfos(p)).ok,
        it |-> Sum([p \in PartsRun |-> Worst(PartInfos(p)).it])]

Returned == /\ fit.pc = "part"
            /\ Later(fit.part) = {}
            /\ outcome' = [how |-> "returned", ok |-> Reported.ok, it |-> Reported.it, of |-> fit]
            /\ fit' = NoFit /\ held' = 0
            /\ Quiet /\ UNCHANGED <<route, others, used, linear>>

-----------------------------------------------------------------------------
(* residualize_blocks and residualize_in_basis on the solver of a linear fit. *)
(* A behaviour has this solver, or the projectors above.                      *)

LinearSolver == <<Min(WithFE), "linear">>

\* Whether adaptive pools apply depends on sample and method; the solver was
\* compiled for conjugate gradients then.
Configure(acceleration, t) ==
  /\ ~linear.built /\ fit.pc = "idle" /\ \A o \in Solvers : bound[o] = Unbound
  /\ \E w \in Weights : <<LinearSolver[1], w>> \in Positive /\ BindTo(LinearSolver, w, t)
  /\ linear' = [NoLinear EXCEPT !.built = TRUE, !.tol = t, !.acceleration = acceleration]
  /\ UNCHANGED <<route, fit, held, others, used, outcome>>

ShouldProbe(adaptive_auto, n, width) ==
  adaptive_auto /\ linear.acceleration = "cg" /\ width < n

\* basis: residualize_in_basis, which assigns the tight tolerance of a weak design
\* basis.
Tight == Min({linear.tol, Min(Tols)})
StartLinear(n, pool_size, adaptive_auto, basis) ==
  LET width == WorkspacePool(n, pool_size)
  IN /\ linear.built /\ fit.pc = "idle" /\ outcome = NoOutcome
     /\ IF basis THEN AssignTol(LinearSolver, Tight) ELSE Quiet
     /\ IF width = 0 THEN Step([NoFit EXCEPT !.pc = "linear_refused", !.mode = "linear"])
        ELSE Step([NoFit EXCEPT !.pc = "linear_pool", !.mode = "linear",
                !.part = LinearSolver[1], !.kind = LinearSolver[2], !.width = width,
                !.cols = [p \in Parts |-> IF p = LinearSolver[1] THEN n ELSE 0],
                !.weights = bound[LinearSolver].weights, !.tol = bound'[LinearSolver].tol,
                !.adaptive = ShouldProbe(adaptive_auto, n, width)])
     /\ UNCHANGED <<held, used>>

\* The first adaptive pool probes; the others use what it chose.
AskLinearPool ==
  /\ fit.pc = "linear_pool"
  /\ Ask(Caller, Solver, "block")
  /\ fit' = [fit EXCEPT !.pc = "linear_answer"]
  /\ linear' = IF fit.adaptive /\ fit.lo = 0
               THEN [linear EXCEPT !.acceleration = "auto", !.raised = TRUE] ELSE linear
  /\ used' = used \cup {Solver}
  /\ UNCHANGED <<route, held, others, outcome>>

TakeLinearAnswer ==
  /\ fit.pc = "linear_answer" /\ report[Caller] # NoReport
  /\ LET n == Columns(fit.part)
     IN fit' = [fit EXCEPT !.answers = @ \cup {AnswerOf(report[Caller], n)}, !.lo = Upto(n),
                           !.pc = IF Upto(n) < n THEN "linear_pool" ELSE "linear_done"]
  /\ \E chosen \in {"cg", "none"} :
       linear' = IF fit.adaptive /\ fit.lo = 0
                 THEN [linear EXCEPT !.acceleration = chosen, !.raised = FALSE] ELSE linear
  /\ Collect(Caller)
  /\ UNCHANGED <<route, held, others, used, outcome>>

\* check_absorption, and the tolerance put back on every way out.
Restore_OnReturn(ok) == IF ok THEN linear.tol ELSE bound[LinearSolver].tol
Restore(ok) == linear.tol
EndLinear(allow_nonconverged) ==
  /\ fit.pc \in {"linear_done", "linear_refused"}
  /\ LET worst == Worst(fit.answers)
         how == IF fit.pc = "linear_refused" THEN "memory"
                ELSE IF worst.ok \/ allow_nonconverged THEN "returned" ELSE "convergence"
     IN /\ AssignTol(LinearSolver, Restore(how = "returned"))
        /\ outcome' = IF fit.pc = "linear_refused" THEN [NoOutcome EXCEPT !.how = how]
                      ELSE [how |-> how, ok |-> worst.ok, it |-> worst.it, of |-> fit]
  /\ fit' = NoFit
  /\ UNCHANGED <<route, held, others, used, linear>>

-----------------------------------------------------------------------------
\* The caller has looked at the result of the last call.
TakeOutcome == /\ fit.pc = "idle" /\ outcome # NoOutcome
               /\ Step(fit) /\ Quiet /\ UNCHANGED <<held, used>>

BlockWidths == [Parts -> 0..MaxColumns]

Call == \/ TakeOutcome
        \/ \E mode \in {"weighted", "design", "response"}, cols \in BlockWidths, w \in Weights,
              t \in CallTols, copy \in BOOLEAN : Start(mode, cols, w, t, copy)
        \/ \E a \in {"cg", "none"}, t \in Tols : Configure(a, t)
        \/ \E n \in 1..(MaxColumns + 1), size \in {AutoSize} \cup 1..MaxColumns, adaptive, basis \in BOOLEAN :
             StartLinear(n, size, adaptive, basis)

Work == \/ ReserveOutputs \/ NextPart \/ BuildVariant \/ Built \/ Reweight \/ CopyColumns
        \/ PlanPool \/ ReserveScratch \/ AskPool \/ TakeAnswer \/ PartDone \/ Returned
        \/ AskLinearPool \/ TakeLinearAnswer \/ \E allow \in BOOLEAN : EndLinear(allow)

SolverAnswers == Answer(Caller) /\ UNCHANGED <<route, fit, held, others, used, outcome, linear>>

\* The first pool that finds peeled rows compiles the core of the others, with
\* what the solver has then (_ensure_core_absorber).
SolverCompiles ==
  /\ fit.pc \in {"answer", "linear_answer"} /\ fit.kind \in {"generic", "linear"}
  /\ CompilePart(Solver)
  /\ linear' = IF fit.mode = "linear"
               THEN [linear EXCEPT !.core = [acceleration |-> linear.acceleration,
                                             raised |-> linear.raised]]
               ELSE linear
  /\ UNCHANGED <<route, fit, held, others, used, outcome>>

PoolNext == Call \/ Work \/ SolverAnswers \/ SolverCompiles \/ Others

PoolSpec == PoolInit /\ [][PoolNext]_pvars
-----------------------------------------------------------------------------
Returns == outcome.how = "returned"

\* A call that returns projected a column of a component with fixed effects
\* exactly once, in the pools of one pass (the loops over pool_size).
EachColumnOnce ==
  \A p \in Parts :
    LET run == {a \in outcome.of.answers : a.part = p}
        n == outcome.of.cols[p] + IF outcome.of.mode = "response" THEN 1 ELSE 0
    IN \A k \in 0..(MaxColumns + 1) :
         Cardinality({a \in run : a.lo <= k /\ k < a.hi}) = IF p \in WithFE /\ k < n THEN 1 ELSE 0

\* "Converged" is said of the whole only when every pool of every component
\* converged, with no fewer iterations than the longest pool; a certified route
\* never returns an unconverged column, although rank filters and separation
\* discard what it reports.  Every pool was computed under the weights of this
\* call, by whichever compiled variant they select, and the pools of a pass
\* neither overlap nor leave a gap, however memory shrank between the components.
\* A pool that converged passed a test for the tolerance of its call (prepare,
\* update_weights); in a linear fit for the one the solver was configured with,
\* and for the tight one of a basis call unless a core compiled before keeps
\* another (SharedToleranceUnchanged tells what then comes of it).
OutcomeIsHonest ==
  /\ report[Caller] # NoReport =>
       /\ report[Caller].consulted = {fit.weights}
       /\ report[Caller].converged =>
            /\ report[Caller].tested <= IF fit.mode = "linear" THEN linear.tol ELSE fit.tol
            /\ bound[Solver].kept \in {0, fit.tol} => report[Caller].tested <= fit.tol
  /\ Returns =>
    /\ EachColumnOnce
    /\ outcome.of.mode # "design" => (outcome.ok <=> \A a \in outcome.of.answers : a.ok)
    /\ outcome.ok /\ outcome.of.mode # "design" => \A a \in outcome.of.answers : a.it <= outcome.it
    /\ Certified /\ outcome.of.mode # "linear" => \A a \in outcome.of.answers : a.ok

\* The scratch of a pool is refused only if another thread has reserved since it
\* was planned: the plan leaves room for the outputs and the lazy topology,
\* "rather than discovering the conflict at admission" (residualize).
RefusedOnlyWhenRaced ==
  [][fit.pc = "scratch" /\ outcome'.how = "memory" => Unreserved < fit.seen]_pvars

\* Between calls nothing stays reserved, and the attributes of a solver shared by
\* later fits are as configured, whichever way the last call ended: its tolerance,
\* its auto_plain_limit, a settled acceleration (the with and finally blocks).  A
\* core keeps what it was compiled with: one of the two tolerances a call assigns,
\* and the raised limit exactly if also the acceleration of an adaptive first pool.
SettingsComeBack ==
  fit.pc = "idle" =>
    /\ held = 0
    /\ linear.built => /\ bound[LinearSolver].tol = linear.tol
                       /\ linear.acceleration # "auto" /\ ~linear.raised
                       /\ bound[LinearSolver].kept \in {0, linear.tol, Tight}
                       /\ linear.core.raised <=> linear.core.acceleration = "auto"

\* What residualize_in_basis says of itself, "without changing a shared solver's
\* tolerance" (pipeline.py:455): the next call runs at the one configured.
SharedToleranceUnchanged ==
  fit.pc = "idle" /\ linear.built => Effective(LinearSolver) = linear.tol
=============================================================================
