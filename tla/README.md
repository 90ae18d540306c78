# EconHDFE: models, checks and proofs

TLA+ modules for the econometrics package in `src/econhdfe`: linear, linear-IV, PPML and
IV-PPML estimation with high-dimensional fixed effects (FE). The modules model the control of
the program (who removes which row, which cached copy is used, when a loop may stop, who may
claim memory) and abstract its floating-point arithmetic. TLC checks small instances; TLAPS
proves the properties that matter most for every instance.

`PROJECT.json` lists the runs, the mutants that show each property can fail, the source lines
behind every definition, the hazards, and the theorems. To repeat a run:
`tlc -config <file>.cfg <module>`; to repeat a proof: `tlapm <module>_proofs.tla`.

Contents: 1 the system, 2 the modules, 3 the runs, 4 fairness, 5 the proofs, 6 disagreements
found, 7 what is not modelled, 8 what is left.

## 1. The system

A public call (`olshdfe`, `ivhdfe`, `ppmlhdfe`, `ivppmlhdfe`, a session's `fit`, a reusable
model's `fit`) enters the scheduler, which resolves one resource envelope for everything the
call does. The call selects its estimation sample, builds an FE plan and an absorber, partials
the FE out of every column, solves, and computes inference. Poisson models repeat the
partialling-out inside an IRLS loop. Sessions keep what several specifications share, in memory
and optionally on disk. Resampling runs replicates of a call in threads, each with a slice of
the envelope.

| Component (source) | State | Operations | Correct when |
|---|---|---|---|
| Sample peeling (`hdfe/sample.py`) | two counters per FE level, a FIFO of rows, reasons | scan, pop, release | the mask is the greatest sub-sample without a triggered row; reasons are true |
| Numerical core (`hdfe/numerical_core.py`) | count and index sum per level, a FIFO of levels | peel the row an index sum names | it reads off the right row and leaves the degree-one core |
| Resource scheduler (`planner/scheduler.py`), resampling engine (`resampling/engine.py`) | root lock, memory ledger, per-thread context, BLAS limit, a model's policy | enter, nest, reserve, dispatch, start and end a replicate | admission is atomic, nothing leaks, slices are kept, settings are restored, all calls return |
| Sessions (`sessions.py`) | FE codes, FE entries, full columns, resource plan | lookup, invalidate, trim, residualise | a fit uses the caller's data as they are now |
| Persistent store (`data/persistent.py`) | files shared by processes | load, save, replace | whatever is found on disk belongs to its key |
| Poisson sample stages (`models/ppml/separation*.py`, `models/poisson.py`, the estimators) | masks of rows, counts per method | initial selection, fe / simplex / relu / mu, re-peeling | the sample does not depend on the route and the report adds up |
| IRLS loops (`models/ppml/irls.py`, `models/ppml_iv/irls.py`, both `heterogeneous.py`) | index, mean, projected block, tolerance ladder, anchor | iterate, halve, accept | what is returned is one point; the loop is not held up by its ladder |
| FE plan (`hdfe/plan.py`), absorber and projection (`hdfe/absorber.py`, `projection.py`, `weighted_projection.py`, `block_projection.py`, `two_way.py`) | compiled group indexes, weights, workspaces, chosen method | compile, update weights, residualise, fall back | the projection that runs was compiled for these groups and weights |
| Rank and degrees of freedom (`hdfe/rank.py`, `dof.py`), canonicalisation (`hdfe/structure.py`) | partitions of rows, union-find | peel, connect, refine | dropped FE are redundant, ranks are those of the full system |
| Design (`design.py`, `design_structure.py`, `collinearity.py`, `compute/design_plan.py`, `block_design.py`) | columns with origins, blocks | expand, omit, partition | omissions are spanned by what stays; blocks share no coefficient unless they say so |
| Linear and IV fits (`pipeline.py`, `models/linear*.py`, `models/ols.py`, `models/linear_iv/`) | none between calls | staged pipeline | stages see one sample and one column order |
| Reusable models (`models/ppml/api.py`, `models/ppml_iv/api.py`), contexts (`compute/context.py`) | plan, fingerprint, LRU of projectors | refresh plan, fit | no projector of an older plan is used |
| Data layer (`data/source.py`, `dataset.py`, `encoding.py`, `sample.py`) | codes, dictionaries, sample mask | read by chunks, encode, mask | codes are stable across chunks; masks only shrink |
| Planner and calibration (`planner/core.py`, `calibration.py`, ...) | memory and file cache of thread calibrations | look up, measure, store | it never changes estimates |
| Prediction, effects, inference (`prediction*.py`, `effects/`, `inference/`) | frozen encodings, recovered effects | predict, normalise, test | unseen levels are refused; predictions use the fit's own omissions |

How they interact: sample peeling is called by the linear pipeline, by both Poisson estimators
(after each trim) and by the group/individual mode. The numerical core feeds the absorber. Every
numerical component reserves memory in the scheduler's ledger; a reservation may call back into
a session to trim its caches, in the middle of a fit. Sessions delegate files to the store. The
engine calls public entry points again from worker threads, so scheduler code is re-entered at
any depth.

The hard behaviours, each listed with its line as a hazard in `PROJECT.json`: work-lists whose
guards are read earlier than they are used; claims of concurrent and nested workers against one
budget, with exceptions at any point; caches invalidated along one path and read along another,
trimmed under memory pressure in between; files replaced and deleted by several processes that
may die between two operations; masks in three different row numberings folded into one report;
tolerances and buffers carried from one iteration to the next.

## 2. The modules

| Module | Models | State ↔ code |
|---|---|---|
| `CategoricalPeel` | what both peels promise, in any order of removals | `alive` is the mask; a row is *triggered* when alone at an eligible level or at a level without a positive outcome |
| `SamplePeel` | `_peel` in `hdfe/sample.py`, one action per pass of its loops | `degree`, `npositive`, `zeroQueued`, `queue`, `queued`, `reason` are the kernel's arrays; `Scan`, `Pop`, `Release` (one per FE term), `Finish` |
| `NumericalCore` | `build_numerical_core` | `counts`, `rowSum`, FIFO of levels; `Count`, `PeelRow`, `SkipLevel`, `Finish` with the dense renumbering |
| `ProjectionKernels` | the kernels of `hdfe/projection.py` and the fused pair, on one term | a mean is known by the cells it sums, a cell by the means it has lost; `work` is where each thread of a parallel loop is |
| `CoreProjection` | one projection on the rows the core left (composes the two above) | `CoreIndex` is `core_index`; compact block, kernels, scatter |
| `FreshProjection` | what a caller may assume of a shared, re-weighted FE solver | `bound`: weights and tolerance of a solver, and the tolerance its compiled part keeps; `serving`, `report` per client |
| `Absorber` | `HDFEAbsorber` step by step, the two-way and native absorbers, certified weak directions | `abs[o]` is a solver (weights, denominators, lazily built core, plan), `call[c]` a thread in `residualize`: its phase, iterations and budget |
| `ColumnPools` | `WeightedFEProjector`, `BlockWeightedFEProjector`, `residualize_blocks`, `residualize_in_basis` | solvers are those of `FreshProjection`; `fit` is the call under way with its pools and answers, `held` and `others` the bytes it and other threads have reserved, `used` the solvers that have built their lazy parts, `linear` how a linear fit configured its solver, what it has now, and what its core was compiled with |
| `ResourceScheduler` | `managed_execution`, `nested_allocation`, `reserve_memory`, worker slices, `run_replicates` | `lock` is `_ROOT_LOCK`, `ledger` the claims, `current` and `chain` the context variables of a thread, `stack` its open `with` blocks, `policy` the `execution` attribute of a reusable model, `blas` the process limit |
| `ReusableModel` | `PPMLHDFE` and `IVPPMLHDFE` fitted again; `compute/context.py` | `dataframe` and `request` are the caller's, `compiled` the plan with its fingerprint, `cache` the LRU list of plans and projectors, `fitting` the call under way, `allowed` the bytes it may keep |
| `Calibration` | `planner/calibration.py` | `cpus`, `room` the machine; `memory` per process, `file` the shared JSON; `asking` a call |
| `SessionCache` | `_LinearHDFESessionBase` with cache validation by signature | `entries` (LRU order), `components`, `rawFull` are its three caches; a column's content is its version, a signature the version it was taken from |
| `PersistentStore` | `PersistentSessionStore` and its callers in the session | `disk` maps file names to contents; a process is between two file operations; a file appears in one step (`os.replace`) |
| `PoissonSample` | every stage from the initial selection to the second fit after mu | `full`, `initial`, `separation`, `trimmed`, `counts` are the masks and counters of the result |
| `PoissonIRLS` | `fit_irls`, `fit_irls_block`, `_iterate`, `_iterate_block` | arrays are known by the iteration that computed them, tolerances by their exponent, the outer error by its class |
| `CategoricalRank` | `categorical_rank` (`hdfe/rank.py`) with its backends and budgets | rows as hyperedges; deduplicate, peel, components, one certificate or backend after the other |
| `FEStructure` | `prepare_standard_fe_structure`, `absorbed_dof`, `FEPlan.canonicalized` | requested and effective terms, parents of redundant ones, sample, counted coefficients |
| `DesignCompiler` | `_compile_structured_design`, structural collinearity, row blocks, `resolve_collinearity` | `active` cells of each term, `cursor` of the pairwise pass, blocks; columns are integer vectors, FE projection is arithmetic modulo their span |
| `GroupIndividual` | `prepare_group_mode`, `hdfe/group_individual.py` | long rows → groups, pruning rounds, renumbered problem, sparse or matrix-free operator |
| `LinearFit` | `olshdfe` and `ivhdfe` from merged options to the result | one buffer of columns; which projection, coordinates and columns each array holds; the tolerance assigned to the solver and the one its core runs at |
| `IVInference` | `fit_iv_kclass`, `fit_iv_kclass_block`, `fit_iv_gmm2s` | where the weights are in an array, which identification test was made, what `on_stage` heard |
| `Covariance` | `compute/vcov.py`, `clusters.py`, `kernels.py` | the meat along each of five storage routes, in integers |
| `Prediction` | `effects/`, `prediction*.py` | what `save_fe` keeps, recovered effects, the rows of new data that get a number |
| `Ordering` | sorting and dense codes shared by modules | |
| `*_proofs` | theorems (section 5) | |
| `MC*` | the small instances | |

How they fit together. `SamplePeel` and `NumericalCore` instantiate `CategoricalPeel` and
implement it (`ImplementsPeel == Peel!Spec`); the mapping is the identity on the sample and the
mask, and counters, queues and reasons are the implementation's own. `PoissonSample` and
`FEStructure` use the *result* of the peel (the greatest stable subset), which is what the runs
and the theorem `Result` justify. `Absorber` instantiates `FreshProjection` with
`bound` ← weights and tolerance of each solver and its core's own tolerance, `serving` ← the object a thread is in, `report` ←
its report, and implements it (`KeepsPromise`); `ColumnPools` in turn is written on top of
`FreshProjection`. `Prediction` starts where `FEStructure` and `DesignCompiler` end.
`MCThreads`, `MCExecution`, `MCSessions`, `MCEstimators` and `MCFitSetup` put modules side by side that share
no variable: a variable `part` (or `layer`) says which one moves, the others stay in an initial
state, so the run explores the sum of their state spaces and not the product.

Choices of abstraction that a reader should know:

- *Separation certificates* (`PoissonSample`). A row is separated when a combination of dummies
  and regressors is zero on the positive rows, nowhere negative on the zero rows and positive at
  the row. Combinations range over coefficients up to `Reach`, which has to be large enough for the
  designs: their sign patterns must have what those of all real combinations have (`ReachSuffices`:
  one combination may outweigh another, a dummy may cancel one at a row of its level, columns that
  components do not share have coefficients of their own). Every design has only finitely many sign
  patterns, so some `Reach` suffices for it; 2 does for those of the run, which TLC evaluates. The simplex may return any certificate it could find; a
  ReLU run returns all or, without a certificate, none or some, and then warns or raises.
- *Tolerances* are ordered numbers (powers of ten in `PoissonIRLS`). Nothing is assumed of
  the outer error: every iteration may have any class, so convergence of Newton's method is not
  claimed anywhere. Whether a sweep or conjugate-gradient step brings a stopping test to pass is
  up to the data (`Absorber`).
- *Memory* is counted in units: the admission floor of 32 MiB (`ResourceScheduler`), columns of
  one component (`ColumnPools`), one array (`ReusableModel`), 8 MiB (`Calibration`).
- *A file that rests* (`PersistentStore`, `setup.quiet`). The source is fingerprinted before its
  columns are read, so a file written during a session can give a dataset of two versions. The
  module models it; the properties are stated for a file that rests while a session is open,
  which is all the package documents.
- *Stray replicates* (`ResourceScheduler`). When a replicate fails, joblib's threading backend
  returns before its siblings stop. The module models them; CPU and BLAS properties are about
  replicates some caller still waits for (`Attended`).
- *A setting assigned to a solver* is an attribute. `models/ols.py:363` and `pipeline.py:460` assign a tolerance,
  `pipeline.py:377-384` an acceleration and a plain limit; a core the solver compiled before keeps what it copied
  then (`absorber.py:539-549`), until the solver is re-weighted (`update_weights` passes a new tolerance on). `FreshProjection` (`Effective`),
  `Absorber` (`CoreOf`), `ColumnPools` (`linear.core`) and `LinearFit` (`RunsAt`) have both values, and promise what the
  code gives: an answer called converged has passed a test for the tolerance in effect, which may be
  the core's. That this is not what the documents say of a weak design is shown by two runs of section 6. The same
  holds of the acceleration: a core compiled in the first pool of an adaptive call keeps "auto" and the raised
  limit, so later pools probe again, and only their speed depends on it.
- *A polish limit of zero* is allowed. The code then calls an answer converged that no test has passed
  (`absorber.py:1254`); the run has the limit 2 (the default is 32), and `Refinement` assumes only that it is not 0.
- *Labels determine codes* (`ReusableAssumption`). Two frames with equal labels and rows have equal
  codes, because the encoder is a function; unequal labels may well have equal codes.

## 3. The runs

Runs that pass, with what each shows and why its bounds are enough. Every module's type
invariant is a part of one of the invariants named here or of an invariant that is proved.

| Run | Distinct states | Modules |
|---|---|---|
| `sample_peel` | 968,952 | `SamplePeel` |
| `threads` | 338,758 | `ResourceScheduler`, `Absorber` |
| `scheduler_nested` | 741,639 | `ResourceScheduler`, `ReusableModel`, `Calibration` |
| `sessions` | 1,652,150 | `SessionCache`, `PersistentStore` |
| `estimators` | 1,153,795 | `PoissonSample`, `PoissonIRLS`, `ColumnPools` |
| `fit_setup` | 459,404 | `CategoricalRank`, `FEStructure`, `DesignCompiler`, `GroupIndividual`, `CoreProjection`, `NumericalCore`, `ProjectionKernels`, `LinearFit`, `IVInference`, `Covariance`, `Prediction` |

**`sample_peel`** (`ReturnsGreatestStable`, `LoopInvariant`, `LabelledByTrigger`,
`ImplementsPeel`). Rows are sorted by the first term, levels are named in first-use
order (as the encoders do), outcomes, frequencies and eligibility are arbitrary. Four rows are
enough for the chains that matter: a removal that triggers a row in the other term, which
triggers a third; a row queued by two levels; a row that is a singleton when queued and
separated when served. The proofs cover the rest.

**`threads`** (`LedgerIsSound`, `BlasFollowsCalls`, `OwnerRestored`, `EverythingReturns`;
`OneSweeperPerObject`, `KeepsPromise`). *Scheduler*: two callers contend for the root lock, one of them dispatches two
replicates to two pool threads while the other waits; both use a model with its own policy. Two CPUs and
a budget of four units make both admission and refusal happen. *Solver*: two threads, one solver, nine shapes (one
or two terms, each solver path, nothing, some or everything peeled), two ordinary weight vectors
and one with a zero, two tolerances assigned before or after the core is compiled, three iterations: a plain phase, a
switch to conjugate gradients and a polish all fit, and each can be the one that exhausts the budget.

**`scheduler_nested`** (`KeepsToSlice`, `CpuNotOversubscribed`, `ReuseIsSound`,
`ServedCalibrationFits`). One call, two jobs, one of which may run inside a replicate of the
other; three pool threads (interchangeable, hence symmetry), four CPUs so that slices differ,
requests of one and two units so that an extension of a parent's claim is larger than the claim.
Beside it: a model fitted again on four frames (two labellings of one coding, another coding, one
row more) under three policies while memory pressure allows nothing or two arrays; and two
processes that calibrate, with enough calls that one stays in its probe while the other files an
entry and the machine changes.

**`sessions`** (`ServedFresh`, `CachesAgree`, `CurrentVersion`, `ResultForThisData`). In memory, three
sessions: data and weight columns change with two FE sets and failing calls; every column changes
with one FE set; every column changes with caches off. Two versions per column suffice because
a signature only tells equal from different, and the first change is the one a cache may miss. On
disk: strict and metadata fingerprints, one rewrite, one deletion, two processes, two sessions
and two fits. One rewrite makes two versions, one deletion at any moment removes any one part of a
column or result; processes and contents are interchangeable (symmetry).

**`estimators`** (`SeparatedRowsDiverge`, `SampleIsCanonical`; `ConvergedIsOnePoint`,
`BlockIsCurrent`, `SettledConverges`, `AnchorIsLastAccepted`; `OutcomeIsHonest`,
`SettingsComeBack`, `RefusedOnlyWhenRaced`). *Sample*: PPML and IV-PPML, dense and by component,
both singleton modes, seven choices of methods, every sign pattern of the outcome, on crossed
FE with and without a regressor, a regressor without FE, and two components with and without a
shared column: the designs on which a trim creates new lone rows and components disagree. *IRLS*:
four tolerance settings (loose, a start tighter than the end, the 1e-12 limit, beyond it), one or two
required acceptances, none or two halvings; six iterations are enough for two halvings and a restart of the
ladder after the error grew again. *Pools*: two components, up to two columns, a budget that
makes one pool, several or none possible, another thread that takes most of the memory between
planning and claiming, and a linear solver whose core is compiled in any pool, before or after a tight tolerance was assigned.

**`fit_setup`** (thirteen properties, named with their parts). *Rank* (`RankIsExact`): every two- and three-FE
design over partitions of four rows, and an eight-row design that neither peeling nor a
certificate settles, under all combinations of installed backends and limits low enough to
be hit. *Structure* (`StructureIsWhole`, `DofIsHonest`): nested, crossed, slope-only and unnamed
terms on four rows, both routes, four counting methods, compared with the rank by definition.
*Design* (`BasisOfRequest`, `BlocksAreDense`): seven lists of terms up to three-way interactions
over three roles. *Groups* (`GroupProblemIsWhole`): six membership rows, labels with gaps.
*Core* (`IndexInvariant`, `CoreCentred`, `ImplementsPeel`): all pairs of partitions of five
rows, so that two levels can be queued for the same row, a queued level can have lost its row, and a core with a
cycle survives; then one projection on the core by five kernels, with widths on both sides of every switch (one column,
unrolled, a block of five with a tail of single columns), float32, a level of weight zero, and the fused kernel with
a short last block, two threads interleaved over the levels (threads meet only in a row of two levels).
*Linear* (`FitIsOfOneProjection`): up to three columns per role, every outcome of a projection, with and without peeled rows.
*Inference* (`InferenceIsHonest`, `MeatIsPairwise`): every estimator, weights and storage route, with
limits small enough that every route is taken. *Prediction* (`NewRowsAreIdentified`): new rows with known
and unknown labels in every column, compared with identification by linear algebra.

Deadlock checking is off where the modelled call simply ends (all runs).

Runs that find a violation are the subject of section 6.

## 4. Fairness

Safety needs none. `CategoricalPeel`, `SamplePeel`, `NumericalCore` and `CoreProjection` assume
weak fairness of their next-state relation: a compiled loop that has a next pass makes it. Under
it, `ImplementsPeel` includes that the loops end. `ResourceScheduler` assumes weak fairness of
each thread's steps: threads are scheduled by the operating system, and bodies of calls and
replicates are assumed to end. `EverythingReturns` needs no more than that, although the root
lock is contended, because the runs make finitely many calls. `FreshProjection` promises an
answer to every request by weak fairness of `Answer`; `Absorber` implements this under strong
fairness of a thread's work on its call (`SF_avars(Projecting(c))`): a thread may wait for the
lock of an object that others take and release, and Python's locks do let a waiting thread in
when they are released again and again, while weak fairness would allow it to starve. In a run of several parts each fairness is that of the part that moves. The other modules
state no liveness: whether a caller calls again, or an outer error shrinks, is not the program's
to decide. `SettledConverges` therefore says what the ladder guarantees *if* errors stay small,
as an invariant.

## 5. What is proved

Constants are constrained only by the assumptions named in each module (positive sizes, sets of
well-typed inputs, and *Labels determine codes* and `ReachSuffices` above), which TLC evaluates on every run, and by the
hypotheses that five theorems state: `PolishLimit # 0` (`Refinement` of the absorber),
`OwnerUsers \subseteq Callers` (`PolicyIsRestored`), `AlwaysQuiet` (`CachedColumnsAreCurrent`), that and
`DescribedApart` (`StoredResultsFitTheirKeys`), and what a session's caller changes
(`FitsAreServedFresh`). Runs of section 6, or the abstraction choices of section 2, show that each is
needed. No theorem bounds the number of threads, processes, rows,
solvers, columns, calls or iterations; bounds such as `MaxCalls` are arbitrary.

**`SamplePeel_proofs`** (every number of rows and terms, every sample).
`Inductive == Spec => []IInv`, where `IInv` is the type invariant with `LoopInvariant`: counters
equal a recount of the rows that are still counted (`CountersExact`; in the middle of a removal
the terms still to come count the row), waiting rows are triggered and triggered rows wait
(`WaitingIsTriggered`), and the FIFO is a served prefix and a live rest (`QueueSplit`). None of
these is inductive alone: a counter is exact only if no row is served twice, no row is served
twice only if `queued` is the content of the FIFO, and a waiting row is triggered only if
counters are exact when it is queued and triggers are monotone afterwards. From it:
`TypeCorrect`, `QueueStaysInArray` (the FIFO never exceeds its `n` slots, in a kernel compiled
without bounds checks), `CountersNeverDrift`, `Refinement` (the safety part of the
implementation), `Result` (the returned mask is the greatest stable sub-sample),
`ReasonsTruthful` and `PositiveSafe` (no row with a positive outcome is labelled separated).
The same module proves the order-free specification: `AnyOrderTypeCorrect`, `RemovesNothingStable`, `Confluence`.
The lemma behind them is `TriggerMonotone`: a row triggered in `S` is triggered in every subset of `S` it
belongs to. So a stable sub-sample never loses a row (`RemoveKeepsStable`), every execution keeps
all of them, and an execution that stops has kept exactly the greatest one, whatever the order.

**`Estimators_proofs`**, first part: `PoissonIRLS` (every configuration, any number of iterations, any
course of the error). `TypeCorrect`; `ReturnsOnePoint` (inductive as it stands: only an accepted solve
ends a loop as converged); `BlockStaysCurrent`, from `BlockInv`: the block and PPML's `z_prev`
both stand for the current iteration; `HalvingKeepsAnchor`, from `AnchorInv`: outside halving
the index is the last accepted one, inside it the anchor is; and `LadderDoesNotStall`. The
last one needs `LadderInv`: one accepted small error leaves either `hdfe_tol` or `alt_tol` at the
tightest tolerance, a second one leaves `hdfe_tol` there, and each further one meets the stopping
rule, hence `settled <= ok + 2`. `SettledConverges` alone is not inductive, since it does not
mention the two tolerances.

Second part: `ColumnPools` (any number of components and columns, any allocation, any use of it by other
threads). `OutcomeIsHonest` speaks of a call that has returned, and what it returns was recorded by
earlier steps, so `PoolInv` follows a call from place to place: from which place on the solver is
bound to the call's weights and tolerance, which columns the answers cover at each point (exactly those
the passes have come past, `Covers`), which bytes are held where, and how much room the plan left.
Its parts rest on each other: answers cover what a pass has come past because widths are positive, they
are of the weights of the call because the solver is bound to them from the copy on, and a
reported worst pool speaks for all because the record holds every answer. From `PoolsInductive`:
`PoolsAreWhole` (`OutcomeIsHonest`), `ProjectorsRestoreSettings` (`SettingsComeBack`: also when a step raises) and
`PlansLeaveRoom` (`RefusedOnlyWhenRaced`, an action property). The tolerance is where the call's word and the solver's part: the attribute is the call's from the start on (`BoundTo`), but
a core may have been compiled under the other of the two tolerances that calls assign (`LinearSound`), so that `PoolsAreWhole` is
about the looser of them unless the core is the call's own. Sums over components, and the worst of a set of answers,
are reasoned about by the least counterexample.

Third part: `PoissonSample` (any number of rows, any designs for which `Reach` suffices, any outcomes,
frequencies, methods, modes and partition into components). A trim could in principle make a row
separated, by taking a row that contradicted a certificate, or hide one. The argument is that it cannot
(`Reduces`): taking separated rows away separates no others, because the certificate that separated them may
outweigh any other (`TrimSeparates`), and a lone row's dummy sets it to zero in any direction (`AloneReduces`), so
that a peel, one row after the other, removes only positive and separated rows and makes none separated
(`StaysReduces`). `StagesInv` says this of each part (`Detected`), together with: no part holds a row
its peel would take; the canonical core, which is free of certificates and stable, has lost nothing
(`CoreFacts`); parts the detection has not come to are whole, and in those that ReLU has seen nothing
is separated any more; and each count is that of its mask. Certificates and peels of one component are
those of the data (`PartsAlone`, `PeelsAlone`), which makes the order of components and dense or block execution
irrelevant. `SampleIsCanonical` is about a fit that is done and `SeparatedRowsDiverge` about
labels given earlier, so neither is inductive. From `StagesInvariant`: `StagesTypeCorrect`, `ReportAddsUp`
(`EveryRowAccounted`), `LabelledRowsDiverge` (`SeparatedRowsDiverge`) and `OneSample` (`SampleIsCanonical`).

**`Absorber_proofs`**, first part: `Absorber` (any number of solvers, threads, weights, tolerances). `CompiledFollowsBinding`
is the inductive invariant `IInv`. `Follows` says of each solver that its denominators, its
core's weights and its core's denominators are those it is bound to, whatever tolerance the core keeps, and that nothing was peeled under a weight of
zero; `Standing` and `Counting` say of each thread where it may be with how many iterations used
(for example `it - phase + cap <= MaxIter` while a direction is swept), and that what it claims to
have passed it has. The promise alone is not inductive: that an answer consults only the
right weights depends on the core a *different* thread compiled. `Refinement` maps every step to one of
`FreshProjection` or a stutter, assignments of a tolerance over a compiled core included, under `PolishLimit # 0`. `SweepersExclude` is proved from a second invariant, `LockInv`, that ties the
lock of an object to the one thread inside it; it needs no hypothesis.

Second part: `FEStructure` (any number of rows, any requests, either route). `StructureIsWhole` is about the plan that is
left in the end, but the sample was pruned with the FEs that an earlier plan had left.
`StructureInv` therefore says of that one, too, that it was canonical on all rows (`Canonic`): an FE left out has a kept
one that refines it, and a row alone in a level of the coarse one is alone in the level of the finer one. So
the sets of rows that pruning may leave are the same for the FEs that are left as for all (`SamePruned`), and with
them the sample. That a canonical plan exists at all is an argument about the walk up the parents: a parent is
strictly finer than its child, or as fine and named earlier, which is a strict total order, so no walk meets
an FE twice, and since FEs are finitely many it ends at one that is kept; refinement is transitive, so
that one refines them all. The walk is a fold of the library, reasoned about as said below. From
`StructureInductive`: `RequestIsSolved`. `FEAssumption` asks only that a request be a list of terms.

**`Ordering_proofs`** holds what the others cite: the least counterexample (`LeastNat`), numbering in a strict total order
(`OrderNumbers`), the listing of a set of numbers (`AscendingLists`), and folds (`FoldExists`, `FoldStays`).

**`Projections_proofs`**, first part: `LinearFit` (any columns, tolerances, outcomes of projections and
solvers). `ArraysFollowTheFit` is the inductive invariant: where a fit stands decides which array is read,
whether it is a view of the buffer or a copy (it is a copy exactly when columns were omitted), and
in which coordinates and from which projection it is. The second projection of OLS writes into the buffer that
views show, so that the response and the retained columns agree only because of that clause. A solver's core, if it has one, runs at the tolerance it was compiled with (`RunsAt`), so the invariant also
says which of the two that is at each place. `OneProjection` follows; in it
the tolerance a fit reports is that of its projection, except where the second one went through the first one's core.

Second part: `IVInference` (any calls, classes of conditioning and failures). What is told at the end was tested, if at
all, at one of three earlier places, and a test that plain 2SLS puts off is made by a solver chosen later. `InferenceInv`
therefore says place by place what has been established (`Screens`: a ratio that was put off is no better than the
roles; `Identified` from a solver on), which steps the estimate has been through, and which stages have been heard. The one
case in which nothing is ever tested, a ratio that is safe although the test was put off, is identified because
controls only make the ratio worse. `InferenceHonest` follows.

Third part: `NumericalCore` (any rows, terms and codes). That no level is queued twice does not follow from itself:
a level queued again would have come down to degree one twice. `CoreInv` therefore adds `Counted` (counts
and index sums are those of the active rows), `Served` (a queued level has at most one row left) and
`Waiting` (a level with one row left is still to be served). From `CoreInductive`: `IndicesNameRows`
(`IndexInvariant`); `CoreRefinement`, the safety part of `ImplementsPeel`; `CoreIsGreatest`, in which
`Waiting` says that an empty FIFO leaves nothing to peel; and `CoreCodesAreDense`. A sum of indices is
a fold of the library; that taking a member out of the set takes its index out of the sum is shown by the
least counterexample (`IndexSumTakesOut`), and that the place of an element in a strict total order is a bijection
(`PlaceIsBijection`) serves the FIFO's initial order, the dense codes, the row index and the list of survivors.

Fourth part: `CoreProjection` and `ProjectionKernels` (any number of threads and columns, any block width). The
row index is a counting sort (`CountingSort`): the rows a kernel visits at a level are those of the
level, whether it reads the index or counts on from the first row of a certified one (`IndexIsRight`),
and the blocks of a kernel partition the columns (`BlocksPartition`). `KernelInv` is about the cells:
a cell is raw as long as its level is in `todo` or the thread that holds the level has not come past the block of its
column, and centred ever after. No two threads hold one level, so the sums of the first pass are over raw cells; that is what a
statement about the finished block (`CoreCentred`) cannot say. `ProjectionInv` joins it to `CoreInv`, and `CoreIsCentred` translates
codes of the compact block back into those of the sample.

Fifth part: `GroupIndividual` (any requests whose columns are integers by row, however they were made).
Pruning takes whole rounds, each of which may free the next; `GroupInv` says that every set of groups in which none is
alone is still among those kept (a group linked in a set stays linked in a larger one, `LinkedStaysLinked`) and that
the rounds end at a set which is itself such, so it is their union. It also carries what was established on the
way and is needed at the end: no membership is listed twice, and what belongs to a group is constant in
it, without which one value per group would say nothing of its rows and the two operators would differ; and it ties
`problem` and `operator` to the groups kept. `GroupModeIsWhole` then shows `GroupProblemIsWhole` of
every such state: the numbers `np.unique` gives are dense and one to a label (`CodesOfLabels`, from the place of an
element in a total order), and an entry of a person's column is the load of one membership or zero
(`EntryIsLoad`), so that squares summed over memberships are those summed over observations (`SquaresMoved`).
Sums of functions over a set are folds of the library; that they add up term by term in any order is
shown by the least counterexample (`SumExists`, `SumMoved`). In `GroupAssumption`, `Unit` stands for the code's 1.0: the
code divides by the size of a group, and any common multiple of the sizes in a request serves.

Sixth part: `DesignCompiler` (any request whose factors are dense codes of the rows, `DesignAssumption`; any choice
of storage for each role). `BlocksAreDense` ends in an equality of sums, which no step preserves; `DesignInv` says phase by
phase what makes it true: a stored design is whole (`WholeDesign`: its blocks take every row once, each entry is
the dense one or zero, none is empty, and it has the columns of its role and no others), roles that are stacked have
one partition, and columns and rows taken away later leave the entries of the others alone. Both certificates are
unions of nearness classes, hence partitions of the rows (`ShareParted`, `JointParted`); that blocks have
different rows is needed because a certified block that met another would count its rows twice. The sum over
all rows is then that over blocks of the sums over their rows (`SumByParts`). Union-find, mixed-radix cells and
the resolver of columns are folds of the library: such a fold is the `CHOOSE` of a function on the subsets of its
domain, which exists (`FoldExists`) and keeps what a step keeps (`FoldStays`), by the least counterexample. From
`DesignInductive`: `BlocksStayDense`.

**`ResourceScheduler_proofs`** (any threads, calls, nesting, budgets). In layers, each invariant
relative to those before it: `Typed` and `Shapes` (which frames may lie on a thread's stack, and that
the chain of contexts is that of the frames); `ClaimInv` (the ledger of a root call holds exactly the claims
of open scopes, an extension restores the value it found, and the sum of claims fits the budget) gives
`LedgerHoldsOpenScopes`; `BlasInv` gives `BlasLimitFollowsCalls`; `OwnerInv` gives
`PolicyIsRestored`; `CapInv`, `SliceInv` and `RunningInv` give `SlicesAreKept`. The invariants
of a property are not inductive alone because a `with` block restores what it saved
at entry: that what it saved is still right at exit is a fact about the frames above it and about the other
threads. Sums over finite sets of claims, the recursion along waiting callers (`Awaited`) and the maximum of worker
slices are reasoned about without an induction rule: by the least counterexample (`LeastOf`), which
the library's well-founded orders provide.

**`ResourceCpus_proofs`** (the same constants). `CpusAreShared`: `CpuNotOversubscribed`, a sum over
all threads that work for a call at any depth of its jobs. Two more invariants rest on those above:
`CpuInv` (CPUs only narrow on the way down a stack, as caps do, and the slices of a job fit together in what
its dispatcher holds) and `EnrolInv` (a job knows who runs its replicates, and jobs lie on a stack in the
order they began). The jobs of a call are then taken in the order of their numbers: while only the first
`m` jobs are counted as begun, a thread that dispatches a later one stands for all that serve it (`Share`), and with the next
job its share is divided among its workers (`JobDivides`, `NextJobFits`), so that the sum never grows. The least
job number for which it would is impossible (`JobsFit`).

**`Sessions_proofs`**, first part: `SessionCache` (any columns, sessions, allocations; every change,
trim and failure). What a fit is served was cached before, so neither property is inductive alone.
The invariant `CacheInv` has three parts. `Sound` is about a triple of caches, and every operator on
caches (`Prune`, `Trimmed`, `FullNumeric`, `Encode`, `Entered`, `SetCurrent`) is shown to keep it:
copies of one column are paired (`Paired`), the signature of an entry is what its codes and
weights are of (`Truthful`), and codes kept without their entry are still usable (`Shared`). `Progress`
is about the call: the entry in use is the last one and was compiled for this call (`Entrance`), the
columns of the task are read, noted as missing, or partialled out as far as the call has come
(`Columned`), and what a fit expects to be prewarmed has been read or belongs to a group still to
come (`Ahead`). `Served` is what the last fit got. From it: `SessionsAgree` (`CachesAgree`, without a
hypothesis); `ColumnsAreServedFresh`: weights, clusters and numeric columns of a fit are never old, in any
session; and `FitsAreServedFresh` (`ServedFresh`) for sessions that keep nothing between calls, whose FE
columns rest, or that have one FE set and no failing call. The run `session_new_set` shows what two
FE sets do.

Second part: `PersistentStore` (any processes and contents; writes, deletions and deaths at any point).
`Inductive`, under `AlwaysQuiet`. What a session holds came from the directory or the file, so the
invariant `StoreInv` adds `Named`: every file on disk is a function of its own name (a column of the
version its directory is named after, a partialled-out column of the columns in its key, a result of
data and cluster descriptor in its key), and `Holds`: what a process knows between two file operations
(its fingerprint, the columns found and read, those still to be looked up). From it
`CachedColumnsAreCurrent`, and, with `DescribedApart`, `StoredResultsFitTheirKeys`; `HashableApart` shows
that clusters that can be viewed as bytes satisfy that hypothesis.

Third part: `Calibration` (any processes and entries). `KeepsMeasurements` and `ServedFits`: entries of memory
and file are measurements (`Remembered`, `Filed`) and single-thread entries are never cut short; what is served
was either valid for the fingerprint of this call or measured by it.

Fourth part: `ReusableModel` (any users, frames and budgets). `ModelsReuseSoundly`, from `ReuseInv`: every entry was made from what its key says (`Honest`), the compiled
plan is that of a frame with its fingerprint, hence equal fingerprints mean equal codes, and outside a fit the
cache is within its last allowance. `ReuseIsSound` alone says nothing of entries that are not in use.

**Only model-checked.** Liveness (`EventuallyStable` in `ImplementsPeel`, `EverythingReturns`, the
fair part of `KeepsPromise`): fairness and `ENABLED` are outside the prover's reach. Invariants
without a theorem, with the reason:

- `RankIsExact`, `DofIsHonest` (with `SpanIsKept`), `BasisOfRequest`, `MeatIsPairwise` and
  `NewRowsAreIdentified`: what a recursion, a closure or an elimination computes over data (connected components,
  ranks in finite arithmetic, sums over pairs of rows and tiles), compared with a definition of another shape. Where the
  proofs above meet a fold, they only need that it exists and what each of its steps keeps; here its value itself
  would have to be known, by an induction over data that the installed provers cannot
  instantiate. The runs compare with a reference definition over bounded inputs instead.

## 6. Where code and words disagree

- **`scheduler_shared_model`** violates `OwnerRestored`. `managed_execution` (`scheduler.py:308`,
  "restore reusable-model settings") saves a reusable model's policy on entry and puts it back
  at the end. Calls from application threads are serialised by the root lock, and
  `threads` shows the property for them. Calls inside replicates take no lock: when two
  replicates use one model, the second may save what the first resolved, and restore that last.
- **`session_new_set`** violates `ServedFresh`. Codes of FE columns are shared between FE sets,
  and a set that was never compiled has no signature to compare: after a change of an FE column,
  a fit with a new FE set uses the old codes. TLC finds the same with a single FE set when a
  compilation fails half-way: its codes stay without an entry, the column changes, and the next
  fit meets no stale signature. `FitsAreServedFresh` therefore excludes failing calls there.
- **`store_clusters`** violates `ResultForThisData`. Cluster arrays of Python strings have one
  descriptor in the result key, so a session can be given the result of another cluster variable.
- **`poisson_mu_empty`** violates `FitHasPositiveRow`. The mu trim and the pruning after it can
  leave the second fit without a positive outcome, which the survivors' check, run before IRLS
  only, is documented to refuse.
- **`linear_tight`** violates `TriggeredFitsAreTight`. "Triggered fits use an effective absorption tolerance at
  most 1e-11" (`docs/release/migration.md:196`). The second
  projection of an ill-conditioned OLS design runs on the solver of the first (`ols.py:363`); if singleton rows were peeled in a
  core, the core was compiled by the first one and keeps its tolerance, while the attribute says 1e-11.
- **`shared_tolerance`** violates `SharedToleranceUnchanged`. `residualize_in_basis` reprojects "without changing a
  shared solver's tolerance" (`pipeline.py:455`). It restores the attribute; a core first compiled during the call
  keeps 1e-11, and later fits that share the solver run at it. The theorem `ProjectorsRestoreSettings` says what does come back.

## 7. What is not modelled

Floating-point algebra: projections, factorizations, test statistics, the Newton step. Formatting,
reports, timings, warnings and status strings. Random draws, the wild bootstrap and bias
corrections (their replicates run through the modelled engine). Readers, parsing and the encoding
of one column. The optional native extension. Cost formulas of the planner, which only choose among
equivalent plans. The components marked `not_modelled` in `PROJECT.json` are of that kind; "partly"
names what is missing. In particular: `cache_validation="none"` and group/individual mode in
`SessionCache`; threads that share a temporary result directory in `PersistentStore`; whether an
inner projection that reached its limit was accurate in `PoissonIRLS`; the spectral repair of
indefinite multiway covariances in `Covariance`; the LSMR operator inside `Absorber`.

## 8. What is left

`MeatIsPairwise` is an equality of finite sums and might follow from `SumByParts` route by route.
