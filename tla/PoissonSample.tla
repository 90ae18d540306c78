----------------------------- MODULE PoissonSample -----------------------------
(***************************************************************************)
(* Which rows a Poisson fit estimates on, and what it says of the others.  *)
(*                                                                         *)
(* PPML and IV-PPML drop rows in stages: the initial singleton / all-zero  *)
(* peel, the separation methods in upstream order (fe, simplex, relu), the *)
(* singletons each trim creates, and the rows whose fitted mean collapses  *)
(* during IRLS (mu).  The dense estimators run the stages on all rows, the *)
(* heterogeneous ones component by component.                              *)
(*                                                                         *)
(* A row r with a zero outcome is separated in a sample A when a           *)
(* combination of FE dummies and regressors is 0 on the positive rows of   *)
(* A, never negative on its zero rows and positive at r.  Combinations are *)
(* known by their signs, and tried with integer coefficients up to Reach,  *)
(* enough to find all of them (ReachSuffices); numerical tolerances are    *)
(* left out.                                                               *)
(***************************************************************************)
EXTENDS Integers, FiniteSets, Sequences, FiniteSetsExt

CONSTANTS NObs,     \* rows of the estimation data
          Fits,     \* the fits to look at: a setting, a design, unit frequencies
          Reach     \* largest coefficient tried in a combination

Rows == 1..NObs
Methods == {"fe", "simplex", "relu", "mu"}

\* A design: FE codes and regressors, both sequences of functions of the row,
\* the component each row belongs to, and whether components share columns.  No
\* FE level is in two components ("certified joint design/FE component
\* structure", detect_separation_block).
IsDesign(d) ==
  /\ d.code \in Seq([Rows -> Nat])
  /\ d.x \in Seq([Rows -> Int])
  /\ d.component \in [Rows -> Rows]
  /\ d.disjoint \in BOOLEAN
  /\ \A j \in DOMAIN d.code : \A r, k \in Rows :
       d.code[j][r] = d.code[j][k] => d.component[r] = d.component[k]

\* What decides the course of the stages.  strict is relu_strict, block asks
\* for the heterogeneous estimator, fweight is weight_type "fw".
SettingType ==
  [iv : BOOLEAN, block : BOOLEAN, unified : BOOLEAN, methods : SUBSET Methods,
   drop : BOOLEAN, strict : BOOLEAN, fweight : BOOLEAN]

\* PPMLConfig.validate and IVPPMLConfig.validate.
Accepted(s) == s.unified => /\ "mu" \notin s.methods
                            /\ s.iv => s.methods \subseteq {"fe"}

\* The heterogeneous estimators refuse a plan without FE.
IsFit(f) ==
  /\ f.setting \in SettingType /\ Accepted(f.setting)
  /\ IsDesign(f.design)
  /\ f.setting.block => f.design.code # <<>>
  /\ f.unit \subseteq Rows
  /\ ~f.setting.fweight => f.unit = Rows

VARIABLES
  setting, design,   \* the arguments of the fit
  positive,          \* rows with y > 0
  unit,              \* rows whose frequency is one
  active0,           \* rows kept by the initial stage
  initial,           \* InitialSampleSelection: singletons, separated, n_fe
  component,         \* the component detect_separation works on
  todo,              \* the separation methods left for it
  full,              \* full_sep and full_single over all components
  counts,            \* by_method
  certified,         \* no ReLU run ended without a certificate
  sample,            \* the estimation sample
  separation,        \* the separation mask that is reported
  trimmed,           \* the mu stage: flagged rows, singletons pruned with them
  stage

args == <<setting, design, positive, unit>>
detection == <<component, todo, full, counts, certified>>
sampleVars == <<args, active0, initial, detection, sample, separation, trimmed, stage>>

-----------------------------------------------------------------------------
\* Without FE, PPML adds a constant column and IV-PPML a constant FE.
Groups == IF design.code = <<>> /\ setting.iv THEN <<[r \in Rows |-> 0]>>
          ELSE design.code
Constant == [r \in Rows |-> 1]

\* Sign patterns of the combinations of a design's FE dummies and columns.
Terms(d) == {<<"fe", j, d.code[j][r]>> : j \in DOMAIN d.code, r \in Rows}
              \cup {<<"x", k, 0>> : k \in DOMAIN d.x}
              \cup IF d.code = <<>> THEN {<<"x", 0, 0>>} ELSE {}
Entry(d, t, r) == IF t[1] = "fe" THEN IF d.code[t[2]][r] = t[3] THEN 1 ELSE 0
                  ELSE IF t[2] = 0 THEN Constant[r] ELSE d.x[t[2]][r]
Sign(v) == IF v > 0 THEN 1 ELSE IF v < 0 THEN -1 ELSE 0
Total(d, coef, r) == MapThenSumSet(LAMBDA t : coef[t] * Entry(d, t, r), Terms(d))
Patterns(d) == {[r \in Rows |-> Sign(Total(d, coef, r))] :
                   coef \in [Terms(d) -> (-Reach)..Reach]}
PatternTable == {<<d, Patterns(d)>> : d \in {f.design : f \in Fits}}

\* What sums of combinations with arbitrary real coefficients have and the
\* patterns P, found with small ones, must have, too: one combination may
\* outweigh another, a dummy may cancel one at a row of its level, and columns
\* that components do not share have coefficients of their own in each.
Outweigh(p, q) == [r \in Rows |-> IF p[r] # 0 THEN p[r] ELSE q[r]]
ReachSuffices(d, P) ==
  /\ \A p, q \in P : Outweigh(p, q) \in P
  /\ \A p \in P, j \in DOMAIN d.code, r \in Rows :
       \E q \in P : q[r] = 0 /\ \A k \in Rows : d.code[j][k] # d.code[j][r] => q[k] = p[k]
  /\ d.disjoint => \A p \in P, c \in Rows :
                     [r \in Rows |-> IF d.component[r] = c THEN p[r] ELSE 0] \in P

ASSUME PoissonAssumption ==
  /\ NObs \in Nat \ {0}
  /\ Reach \in Nat \ {0}
  /\ \A f \in Fits : IsFit(f)
  /\ \A e \in PatternTable : ReachSuffices(e[1], e[2])

Directions == (CHOOSE e \in PatternTable : e[1] = design)[2]

\* The zero rows that a certificate valid on A separates, one set for each.
Supports(A) ==
  {{r \in A : p[r] > 0} : p \in {q \in Directions : \A r \in A :
      IF r \in positive THEN q[r] = 0 ELSE q[r] >= 0}}
Separated(A) == UNION Supports(A)

-----------------------------------------------------------------------------
\* What peel_sample and singleton_mask return: the largest part of a sample
\* without a triggered row (SamplePeel, ReturnsGreatestStable).
Level(A, j, r) == {k \in A : Groups[j][k] = Groups[j][r]}
AllZero(A, r) == \E j \in DOMAIN Groups : Level(A, j, r) \cap positive = {}
Alone(A, ones, r) == r \in ones /\ \E j \in DOMAIN Groups : Level(A, j, r) = {r}
Triggered(A, ones, zeroCheck) ==
  {r \in A : (setting.drop /\ Alone(A, ones, r)) \/ (zeroCheck /\ AllZero(A, r))}
Keep(A, ones, zeroCheck) == UNION {S \in SUBSET A : Triggered(S, ones, zeroCheck) = {}}

\* The reason masks of a peel from A down to K: a row is labelled separated
\* when one of its levels has no positive outcome at the time it is removed,
\* which lies between what is true at the start and at the end.
SeparatedLabels_All(A, K, zeroCheck) == {A \ K}
SeparatedLabels(A, K, zeroCheck) ==
  IF ~zeroCheck THEN {{}}
  ELSE {L \in SUBSET (A \ K) :
          /\ {r \in A \ K : AllZero(A, r)} \subseteq L
          /\ \A r \in L : AllZero(K \cup {r}, r)}

\* SamplePolicy: frequency counts, and when FE zeros are peeled at the start.
FrequencyUnits == IF setting.fweight THEN unit ELSE Rows
InitialUnits == IF setting.unified THEN FrequencyUnits ELSE Rows
FeZeroPeeling == "fe" \in setting.methods /\ (setting.unified \/ setting.drop)

\* Block execution needs components that share no column when a method looks
\* at columns; otherwise the dense path sees all rows at once.
Blocks == setting.block /\ (design.disjoint \/ setting.methods \cap {"simplex", "relu"} = {})
Components == IF Blocks THEN {design.component[r] : r \in Rows} ELSE {0}
ComponentRows(c) == IF Blocks THEN {r \in active0 : design.component[r] = c} ELSE active0

UpstreamOrder == [fe |-> 1, simplex |-> 2, relu |-> 3, mu |-> 4]

SampleInit ==
  /\ \E f \in Fits : /\ setting = f.setting
                      /\ design = f.design
                      /\ unit = f.unit
  /\ positive \in SUBSET Rows
  /\ active0 = Rows
  /\ initial = [singletons |-> {}, separated |-> {}, nfe |-> 0]
  /\ component = 0 /\ todo = {}
  /\ full = [separated |-> {}, singletons |-> {}]
  /\ counts = [m \in Methods |-> 0]
  /\ certified = TRUE
  /\ sample = {} /\ separation = {}
  /\ trimmed = [mu |-> {}, singletons |-> {}]
  /\ stage = "select"

Fail(how) == stage' = how /\ UNCHANGED <<args, active0, initial, detection, sample, separation, trimmed>>

-----------------------------------------------------------------------------
\* Rows that only the zero check removes: in compatibility mode they are
\* counted as FE separation but reported among the singletons.
CountFe_Swapped(dropped) == Cardinality(Rows \ Keep(Rows, Rows, FALSE)) - Cardinality(dropped)
CountFe(dropped) == Cardinality(dropped) - Cardinality(Rows \ Keep(Rows, Rows, FALSE))

\* initial_sample_selection and initial_active_rows.
SelectInitial ==
  /\ stage = "select"
  /\ LET kept == Keep(Rows, InitialUnits, FeZeroPeeling)
         dropped == Rows \ kept
     IN /\ active0' = kept
        /\ IF setting.unified
           THEN \E L \in SeparatedLabels(Rows, kept, FeZeroPeeling) :
                  initial' = [singletons |-> dropped \ L, separated |-> L,
                              nfe |-> Cardinality(L)]
           ELSE initial' = [singletons |-> dropped, separated |-> {},
                            nfe |-> CountFe(dropped)]
        /\ stage' = IF kept # {} THEN "detect"
                 ELSE IF initial'.nfe # 0 THEN "no_finite" ELSE "empty"
  /\ component' = 0
  /\ UNCHANGED <<args, todo, full, counts, certified, sample, separation, trimmed>>

NextStage(left) == IF left = {} THEN "detect" ELSE "method"

\* The next component that has not been visited; components come in order.
StartComponent ==
  /\ stage = "detect" /\ todo = {}
  /\ \E c \in Components :
        /\ ~Blocks => component = 0
        /\ Blocks => c > component /\ \A b \in Components : b > component => c <= b
        /\ component' = IF Blocks THEN c ELSE 1
  /\ todo' = setting.methods
  /\ stage' = NextStage(setting.methods)
  /\ UNCHANGED <<args, active0, initial, full, counts, certified, sample, separation, trimmed>>

Alive == ComponentRows(component) \ (full.separated \cup full.singletons)
Method(m) == /\ stage = "method" /\ m \in todo
             /\ \A k \in todo : UpstreamOrder[m] <= UpstreamOrder[k]
Skipped == Alive \subseteq positive

\* A method that removes nothing: fe switched off with singleton dropping, mu
\* left to IRLS, or no active row with a zero outcome.
SkipMethod ==
  /\ \E m \in Methods :
        /\ Method(m)
        /\ (m = "fe" /\ ~FeZeroPeeling) \/ m = "mu" \/ Skipped
        /\ todo' = todo \ {m}
        /\ stage' = NextStage(todo \ {m})
  /\ UNCHANGED <<args, active0, initial, component, full, counts, certified,
                 sample, separation, trimmed>>

\* What joins full_single, and which rows full_sep, once `left` survive a trim:
\* unified mode peels again jointly, compatibility mode prunes singletons.
Repeel_None(m, left) == {[separated |-> {}, singletons |-> {}]}
Repeel_Compat(m, left) ==
  {[separated |-> {}, singletons |-> left \ Keep(left, FrequencyUnits, FALSE)]}
Repeel(m, left) ==
  IF setting.unified
  THEN LET zeroCheck == "fe" \in setting.methods
           kept == Keep(left, FrequencyUnits, zeroCheck)
       IN {[separated |-> L, singletons |-> (left \ kept) \ L] :
              L \in SeparatedLabels(left, kept, zeroCheck)}
  ELSE {[separated |-> {},
         singletons |-> IF m # "fe" /\ setting.drop
                        THEN left \ Keep(left, FrequencyUnits, FALSE) ELSE {}]}

\* A method found `local`: record it, peel what it leaves and count both.
Remove(m, local) ==
  \E new \in IF local = {} THEN {[separated |-> {}, singletons |-> {}]}
             ELSE Repeel(m, Alive \ local) :
    /\ full' = [separated |-> full.separated \cup local \cup new.separated,
                singletons |-> full.singletons \cup new.singletons]
    /\ counts' = [k \in Methods |->
                    counts[k] + (IF k = m THEN Cardinality(local) ELSE 0)
                              + (IF k = "fe" THEN Cardinality(new.separated) ELSE 0)]
    /\ todo' = todo \ {m}
    /\ stage' = NextStage(todo \ {m})
    /\ UNCHANGED <<args, active0, initial, component, sample, separation, trimmed>>

DetectFe ==
  /\ Method("fe") /\ FeZeroPeeling /\ ~Skipped
  /\ Remove("fe", {r \in Alive : AllZero(Alive, r)})
  /\ UNCHANGED certified

\* mixed_simplex_separation tests the regressors that are redundant among the
\* positive rows: any certificate, or nothing (also when the tableau runs out
\* of iterations, which the caller does not look at).
DetectSimplex ==
  /\ Method("simplex") /\ ~Skipped
  /\ \E local \in Supports(Alive) : Remove("simplex", local)
  /\ UNCHANGED certified

\* relu_separation with a certificate for the full problem.
DetectRelu ==
  /\ Method("relu") /\ ~Skipped
  /\ Remove("relu", Separated(Alive))
  /\ UNCHANGED certified

\* Without one: the rows a restricted re-check among candidates certifies, a
\* failure under relu_strict or unified mode and a warning otherwise.
Rechecked == LET certificates == Supports(Alive)
             IN {UNION {s \in certificates : s \subseteq candidates} :
                    candidates \in SUBSET (Alive \ positive)}
UncertifiedRelu ==
  /\ Method("relu") /\ ~Skipped
  /\ certified' = FALSE
  /\ IF setting.strict \/ setting.unified
     THEN /\ stage' = "uncertified"
          /\ UNCHANGED <<args, active0, initial, component, todo, full, counts,
                         sample, separation, trimmed>>
     ELSE \E local \in Rechecked : Remove("relu", local)

ComponentsDone == stage = "detect" /\ todo = {} /\
                  IF Blocks THEN \A c \in Components : c <= component ELSE component = 1

\* separation_survivors, and the masks the estimators build from its answer.
SeparationMask_DisjointAlways(keep) == initial.separated \cup full.separated
SeparationMask(keep) ==
  initial.separated \cup
    IF setting.iv /\ ~setting.unified THEN active0 \ keep ELSE full.separated
Survive ==
  /\ ComponentsDone
  /\ LET keep == active0 \ (full.separated \cup full.singletons)
     IN /\ counts' = [counts EXCEPT !["fe"] =
                        @ + IF "fe" \in setting.methods THEN initial.nfe ELSE 0]
        /\ IF keep \cap positive = {}
           THEN stage' = "no_finite" /\ UNCHANGED <<sample, separation>>
           ELSE /\ sample' = keep
                /\ separation' = SeparationMask(keep)
                /\ stage' = "irls"
  /\ UNCHANGED <<args, active0, initial, component, todo, full, certified, trimmed>>

\* _prune_iv_columns: nothing is left of the regressors or the instruments.
NotIdentified ==
  /\ setting.iv
  /\ stage = "irls" \/ (stage = "detect" /\ component = 0)
  /\ Fail("not_identified")

\* The IRLS loop, whose numbers PoissonIRLS is about, fails or converges; with
\* the mu method it flags any zero rows of the sample.
IrlsFails == stage \in {"irls", "irls_after_mu"} /\ Fail("not_converged")

IrlsConverges ==
  /\ stage = "irls"
  /\ \E flagged \in IF "mu" \in setting.methods THEN SUBSET (sample \ positive) ELSE {{}} :
       /\ separation' = separation \cup flagged
       /\ IF setting.iv \/ flagged = {}
          THEN /\ trimmed' = [mu |-> flagged, singletons |-> {}]
               /\ counts' = [counts EXCEPT !["mu"] = Cardinality(flagged)]
               /\ stage' = "done" /\ UNCHANGED sample
          ELSE LET keep == sample \ flagged
                   kept == IF setting.drop THEN Keep(keep, FrequencyUnits, FALSE) ELSE keep
               IN /\ trimmed' = [mu |-> flagged, singletons |-> keep \ kept]
                  /\ sample' = kept
                  /\ stage' = "irls_after_mu" /\ UNCHANGED counts
  /\ UNCHANGED <<args, active0, initial, component, todo, full, certified>>

\* The second fit of PPML, on the trimmed sample.
SecondFit ==
  /\ stage = "irls_after_mu"
  /\ counts' = [counts EXCEPT !["mu"] = Cardinality(trimmed.mu)]
  /\ stage' = "done"
  /\ UNCHANGED <<args, active0, initial, component, todo, full, certified,
                 sample, separation, trimmed>>

SampleNext ==
  \/ SelectInitial \/ StartComponent \/ SkipMethod
  \/ DetectFe \/ DetectSimplex \/ DetectRelu \/ UncertifiedRelu
  \/ NotIdentified \/ Survive \/ IrlsFails \/ IrlsConverges \/ SecondFit

SampleSpec == SampleInit /\ [][SampleNext]_sampleVars

-----------------------------------------------------------------------------
\* Singletons as the results report them: PPML takes the remainder, IV-PPML
\* adds up its masks.
NSingletons == IF setting.iv
               THEN Cardinality(initial.singletons)
                      + (IF setting.unified THEN Cardinality(full.singletons) ELSE 0)
               ELSE NObs - Cardinality(sample) - Cardinality(separation)

SampleTypeOK ==
  /\ IsFit([setting |-> setting, design |-> design, unit |-> unit])
  /\ active0 \subseteq Rows
  /\ initial \in [singletons : SUBSET Rows, separated : SUBSET Rows, nfe : 0..NObs]
  /\ todo \subseteq Methods /\ component \in 0..NObs
  /\ full \in [separated : SUBSET Rows, singletons : SUBSET Rows]
  /\ counts \in [Methods -> 0..NObs]
  /\ certified \in BOOLEAN
  /\ sample \subseteq Rows /\ separation \subseteq Rows
  /\ trimmed \in [mu : SUBSET Rows, singletons : SUBSET Rows]
  /\ stage \in {"select", "detect", "method", "irls", "irls_after_mu", "done",
             "empty", "no_finite", "uncertified",
             "not_identified", "not_converged"}

\* The report adds up: every row is in the sample, in the separation mask or
\* among the singletons, in one of them only (IV-PPML keeps mu rows in the
\* sample), and by_method counts the separated rows, those of the initial
\* stage included (fit_arrays of ppml/estimator.py and ppml_iv/estimator.py).
EveryRowAccounted ==
  /\ SampleTypeOK
  /\ stage = "done" =>
    /\ sample \cap separation = IF setting.iv THEN trimmed.mu ELSE {}
    /\ NSingletons + Cardinality(sample \cup separation) = NObs
    /\ ~setting.iv => NSingletons = Cardinality(initial.singletons)
                        + Cardinality(full.singletons) + Cardinality(trimmed.singletons)
    /\ MapThenSumSet(LAMBDA m : counts[m], setting.methods) = initial.nfe + Cardinality(full.separated)
                                      + Cardinality(trimmed.mu)

\* A row labelled separated before IRLS has a certificate in the data the fit
\* was given, whatever was removed before it: its mean goes to zero.
SeparatedRowsDiverge ==
  stage \in {"irls", "no_finite"} =>
    initial.separated \cup full.separated \subseteq Separated(Rows)

\* With a ReLU certificate (and no mu deletions) the sample is one and the
\* same for every order and choice of the other methods, dense or by block:
\* what is left of the rows that are not separated.  Compatibility mode with
\* frequencies counts rows first and frequencies later and is left out.  In all
\* settings what stays is what the policy would keep: no row alone at a level (in
\* frequencies), in unified mode no all-zero level when fe is requested,
\* and the report accounts for every row.
SampleIsCanonical ==
  /\ EveryRowAccounted
  /\ stage = "done" =>
    /\ (/\ certified /\ "relu" \in setting.methods /\ trimmed.mu = {}
        /\ setting.unified \/ ~setting.fweight)
         => sample = Keep(Rows \ Separated(Rows), FrequencyUnits, FALSE)
    /\ setting.drop \/ setting.unified =>
         Triggered(sample, FrequencyUnits, setting.unified /\ "fe" \in setting.methods) = {}

\* "Raise when no row with a positive outcome survives: no finite MLE exists."
\* (separation_survivors of models/poisson.py): no fit without a positive row.
FitHasPositiveRow == stage = "irls_after_mu" => sample \cap positive # {}
=============================================================================
