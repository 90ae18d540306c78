------------------------------ MODULE FEStructure ------------------------------
(***************************************************************************)
(* prepare_standard_fe_structure and absorbed_dof: from the absorbed terms *)
(* of a request to the fixed effects the absorber solves, the estimation   *)
(* sample and the absorbed degrees of freedom.                             *)
(*                                                                         *)
(* Pure intercept FEs spanned by a finer one are left out of the solve     *)
(* (canonicalize_fixed_effects), before the singleton rows are dropped and *)
(* once more when any was.  Inference keeps all that was requested.  The   *)
(* Poisson route (FEPlan) drops rows first and then canonicalizes.         *)
(*                                                                         *)
(* A dense code is here the first row of its level.  The work list that    *)
(* drops singleton rows is module SamplePeel; its result, the greatest     *)
(* stable set of rows, is one step here.                                   *)
(***************************************************************************)
EXTENDS CategoricalRank

CONSTANTS
  NRows,
  Inputs,      \* [table, terms, choice]: source columns, absorbed terms, options
  SampleSize,  \* rows of the sampled rejection test
  ClusterSets, \* sets of cluster partitions
  DofMethods

VARIABLES
  fe,          \* the FEs as encoded: [code, labels, columns, named, slopes, intercept]
  choice,      \* [route, canonicalize, drop, unit, slopeOnly, save]
  stage,       \* where the preparation is
  solved,      \* indices of the FEs the absorber gets
  rows,        \* the estimation sample
  plan,        \* FECanonicalization: [effective, levels, spannedBy]
  counted      \* what absorbed_dof was asked for: [method, clusters]

\* A request is a list of terms, each of some columns of the table.
ASSUME FEAssumption ==
  /\ NRows \in Nat /\ SampleSize \in Nat
  /\ \A q \in Inputs :
       q.terms \in Seq([columns : SUBSET DOMAIN q.table, named : BOOLEAN,
                       slopes : Seq([1..NRows -> Int]), intercept : BOOLEAN])

feVars == <<fe, choice, stage, solved, rows, plan, counted>>

AllRows == 1..NRows
FEs == DOMAIN fe
Pure(j) == fe[j].intercept /\ fe[j].slopes = <<>>

-----------------------------------------------------------------------------
(* _encode_absorb: a term's level is the combination of its columns' values. *)

Encode(table, term) ==
  [code |-> [i \in AllRows |->
               Min({k \in AllRows : \A c \in term.columns : table[c][i] = table[c][k]})],
   labels |-> [i \in AllRows |-> [c \in term.columns |-> table[c][i]]],
   columns |-> term.columns, named |-> term.named,
   slopes |-> term.slopes, intercept |-> term.intercept]
Code(j, i) == fe[j].code[i]
LevelsIn(j, R) == {Code(j, i) : i \in R}

-----------------------------------------------------------------------------
(* canonicalize_fixed_effects *)

Refines(fine, coarse, R) ==
  \A i, k \in R : Code(fine, i) = Code(fine, k) => Code(coarse, i) = Code(coarse, k)

\* Proved by the specification, e.g. year in city#year.
Contained(coarse, fine) ==
  /\ fe[coarse].named /\ fe[fine].named
  /\ fe[coarse].columns \subseteq fe[fine].columns

\* _sample_indices: the rows (in row order) of a test that can only reject.
Sampled(R) ==
  LET n == Cardinality(R)
      m == IF SampleSize < n THEN SampleSize ELSE n
      row == Ascending(R)
  IN IF m \in {0, n} THEN R
     ELSE {row[1 + (IF m = 1 THEN 0 ELSE (k * (n - 1)) \div (m - 1))] : k \in 0..(m - 1)}

Size(j, R) == Cardinality(LevelsIn(j, R))
Relation_SampleOnly(R) ==
  {r \in FEs \X FEs :
     /\ Pure(r[1]) /\ r[2] # r[1] /\ fe[r[2]].intercept /\ Size(r[2], R) >= Size(r[1], R)
     /\ Contained(r[1], r[2]) \/ Refines(r[2], r[1], Sampled(R))}
Relation(R) ==
  {r \in FEs \X FEs :
     LET coarse == r[1]  fine == r[2]
     IN /\ Pure(coarse) /\ fine # coarse /\ fe[fine].intercept
        /\ Size(fine, R) >= Size(coarse, R)
        /\ \/ Contained(coarse, fine)
           \/ Refines(fine, coarse, Sampled(R)) /\ Refines(fine, coarse, R)}

\* The parent of a removable FE is the finest, the earlier one among equals.
Canonical(R) ==
  LET rel == Relation(R)
      size == [j \in FEs |-> Size(j, R)]
      Finer(j, c) == size[j] > size[c] \/ (size[j] = size[c] /\ j < c)
      eligible == [c \in FEs |-> {j \in FEs : <<c, j>> \in rel /\ Finer(j, c)}]
      kept == {c \in FEs : eligible[c] = {}}
      Parent(c) == CHOOSE j \in eligible[c] : \A k \in eligible[c] \ {j} : Finer(j, k)
      \* _ultimate_parent: up the parents to one that is kept.
      Ultimate(c) == FoldLeft(LAMBDA j, k : IF j \in kept THEN j ELSE Parent(j), c, fe)
  IN [effective |-> kept,
      levels    |-> [j \in kept |-> size[j]],
      spannedBy |-> [c \in FEs \ kept |-> Ultimate(c)]]
Identity(R) == [effective |-> FEs, levels |-> [j \in FEs |-> Size(j, R)], spannedBy |-> <<>>]

-----------------------------------------------------------------------------
(* The rows that stay: the greatest set without a singleton. *)

\* Under the unified sample policy a slope-only FE drops a row its slopes fit.
MayDrop(j, i) ==
  choice.slopeOnly => fe[j].intercept \/ \E s \in DOMAIN fe[j].slopes : fe[j].slopes[s][i] # 0
Lone(S, j, i) == \A k \in S : Code(j, k) = Code(j, i) => k = i
Stable(S, J) ==
  \A i \in S \cap choice.unit : \A j \in J : Lone(S, j, i) => ~MayDrop(j, i)
Pruned(J) == IF choice.drop THEN UNION {S \in SUBSET AllRows : Stable(S, J)} ELSE AllRows

-----------------------------------------------------------------------------
FEInit ==
  /\ \E q \in Inputs :
       /\ choice = q.choice
       /\ fe = [j \in DOMAIN q.terms |-> Encode(q.table, q.terms[j])]
       /\ q.choice.route = "poisson" => \A j \in FEs : Pure(j)
  /\ stage = "encoded"
  /\ solved = {} /\ rows = {} /\ plan = <<>> /\ counted = <<>>

Asked == UNCHANGED <<fe, choice, counted>>

\* The first pass, on all input rows.
FirstPass ==
  /\ stage = "encoded" /\ choice.route = "linear"
  /\ plan' = IF choice.canonicalize THEN Canonical(AllRows) ELSE Identity(AllRows)
  /\ solved' = plan'.effective
  /\ stage' = "prune" /\ Asked /\ UNCHANGED rows

\* Pruning looks at the FEs the first pass left; a second pass starts again
\* from all that was requested, on the rows that stay.
Prune ==
  /\ stage = "prune"
  /\ rows' = Pruned(solved)
  /\ plan' = IF choice.canonicalize /\ rows' # AllRows THEN Canonical(rows') ELSE plan
  /\ solved' = plan'.effective
  /\ stage' = "ready" /\ Asked

\* FEPlan: rows are dropped on all FEs, the plan is taken to the rows that stay,
\* for_engine canonicalizes for the optimized engine.
PoissonPlan ==
  /\ stage = "encoded" /\ choice.route = "poisson"
  /\ rows' = Pruned(FEs)
  /\ plan' = IF choice.canonicalize /\ Len(fe) >= 2 THEN Canonical(rows')
             ELSE Identity(rows')
  /\ solved' = plan'.effective
  /\ stage' = "ready" /\ Asked

-----------------------------------------------------------------------------
(* absorbed_dof, on the requested FEs and the final rows.  A component is an *)
(* FE with the number of one of its slopes, 0 for its intercept.             *)

ComponentsOf(J) ==
  {c \in J \X (0..2) : IF c[2] = 0 THEN fe[c[1]].intercept ELSE c[2] \in DOMAIN fe[c[1]].slopes}
Nested(cl) ==
  {j \in FEs : fe[j].intercept
     /\ \E c \in cl : \A i, k \in rows : Code(j, i) = Code(j, k) => c[i] = c[k]}
Active(cl) == Ascending({j \in FEs : fe[j].intercept} \ Nested(cl))

\* pairwise_components: mobility groups of two FEs.
Mobility(j, k) ==
  Cardinality(Components({<<Code(j, i), NRows + Code(k, i)>> : i \in rows}))

\* categorical_prefix_ranks: ranks of the first p active FEs.
PrefixRank(active, p) ==
  DummyRank([q \in 1..p |->
    [i \in 1..Cardinality(rows) |-> Code(active[q], Ascending(rows)[i]) - 1]])

\* A slope is redundant in a level where it is constant, without an intercept
\* in a level where it is zero.
FlatLevels(j, s) ==
  LET x == fe[j].slopes[s]
  IN {v \in LevelsIn(j, rows) :
        \A i, k \in {i \in rows : Code(j, i) = v} :
          IF fe[j].intercept THEN x[i] = x[k] ELSE x[i] = 0}

InterceptRedundancy_Sums(j, method, cl) ==
  LET active == Active(cl)
      p == CHOOSE p \in DOMAIN active : active[p] = j
  IN Min({Size(j, rows), FoldLeft(LAMBDA n, q : n + Mobility(q, j), 0, SubSeq(active, 1, p - 1))})
InterceptRedundancy(j, method, cl) ==
  LET active == Active(cl)
      p == CHOOSE p \in DOMAIN active : active[p] = j
      anchored == p > 1 \/ Nested(cl) # {}
      floor == IF anchored THEN 1 ELSE 0
      added == PrefixRank(active, p) - PrefixRank(active, p - 1)
  IN CASE method = "exact" ->
            Min({Size(j, rows),
                 (Size(j, rows) - added) + (IF p = 1 /\ anchored THEN 1 ELSE 0)})
       [] method = "pairwise" -> Max({floor} \cup {Mobility(active[q], j) : q \in 1..(p - 1)})
       [] method = "firstpair" /\ p = 2 -> Max({floor, Mobility(active[1], j)})
       [] OTHER -> floor

Redundancy(c, method, cl) ==
  CASE c[2] # 0 -> Cardinality(FlatLevels(c[1], c[2]))
    [] c[2] = 0 /\ c[1] \in Nested(cl) -> Size(c[1], rows)
    [] OTHER -> InterceptRedundancy(c[1], method, cl)

ExactFlag(j, method, cl) ==
  LET active == Active(cl)
  IN \/ j \in Nested(cl) \/ method = "exact" \/ j = active[1]
     \/ method \in {"pairwise", "firstpair"} /\ j = active[2]

Absorbed(method, cl) ==
  MapThenSumSet(LAMBDA c : Size(c[1], rows) - Redundancy(c, method, cl), ComponentsOf(FEs))

CountDof ==
  /\ stage = "ready" /\ rows # {}
  /\ \E method \in DofMethods, cl \in ClusterSets : counted' = [method |-> method, clusters |-> cl]
  /\ stage' = "counted"
  /\ UNCHANGED <<fe, choice, solved, rows, plan>>

FENext == FirstPass \/ Prune \/ PoissonPlan \/ CountDof
FESpec == FEInit /\ [][FENext]_feVars

-----------------------------------------------------------------------------
\* Columns of the absorbed design: dummies, and slopes times dummies.
ColumnValue(c, i) == IF c[2] = 0 THEN 1 ELSE fe[c[1]].slopes[c[2]][i]
Number(c, v) == ((3 * c[1]) + c[2]) * NRows + v
DesignRow(i, J) ==
  LET cs == ComponentsOf(J)
      At(x) == {c \in cs : Number(c, Code(c[1], i)) = x}
  IN [x \in {Number(c, v) : c \in cs, v \in AllRows} |->
        IF At(x) = {} THEN 0 ELSE ColumnValue(CHOOSE c \in At(x) : TRUE, i)]
TrueRank(J, R) == Echelon({DesignRow(i, J) : i \in R}, 0)

\* The sample is the one all requested FEs ask for (the joint fixed point of
\* pruning and removal), whatever was left out when it was pruned; an FE left
\* out names a kept one that refines it on the very rows of the sample, and no
\* pure intercept FE is kept beside a strictly finer one.  The plan counts the
\* levels of the final sample, unless canonicalization is off and rows went.
StructureIsWhole ==
  stage = "ready" =>
    /\ rows = Pruned(FEs)
    /\ solved = plan.effective
    /\ \A c \in FEs \ solved : plan.spannedBy[c] \in solved /\ Refines(plan.spannedBy[c], c, rows)
    /\ choice.canonicalize =>
         \A c, f \in solved : Pure(c) /\ fe[f].intercept /\ Refines(f, c, rows) =>
                                Size(f, rows) <= Size(c, rows)
    /\ choice.canonicalize \/ choice.route = "poisson" \/ rows = AllRows =>
         plan.levels = [j \in solved |-> Size(j, rows)]

Coarser(method) == CASE method = "exact" -> "pairwise" [] method = "pairwise" -> "firstpair"
                     [] OTHER -> "none"

\* What the absorber gets takes, on the very rows of the sample, the rank of all
\* that was requested: the FEs left out are spanned by those that are left.
SpanIsKept == TrueRank(solved, rows) = TrueRank(FEs, rows)

\* The absorbed degrees of freedom are those of the request (SpanIsKept): they
\* never fall short of what its columns take beyond the FEs nested in a cluster;
\* a method counts the more the less it looks; an intercept count flagged exact
\* is the rank its FE adds, and the exact method without slopes or nesting
\* counts the rank.
DofIsHonest ==
  /\ stage = "ready" => SpanIsKept
  /\ stage = "counted" =>
     LET cl == counted.clusters
         method == counted.method
         df == Absorbed(method, cl)
         active == Active(cl)
         nested == Ascending(Nested(cl))
     IN /\ df >= TrueRank(FEs, rows) - PrefixRank(nested, Len(nested))
        /\ \A c \in ComponentsOf(FEs) : Redundancy(c, method, cl) \in 0..Size(c[1], rows)
        /\ Absorbed(method, cl) <= Absorbed(Coarser(method), cl)
        /\ Nested(cl) = {} =>
             \A p \in DOMAIN active :
               ExactFlag(active[p], method, cl) =>
                 Size(active[p], rows) - Redundancy(<<active[p], 0>>, method, cl)
                   = PrefixRank(active, p) - PrefixRank(active, p - 1)
=============================================================================
