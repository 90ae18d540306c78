------------------------------- MODULE Covariance -------------------------------
(***************************************************************************)
(* The covariance of estimates (econhdfe/compute/vcov.py, clusters.py,     *)
(* kernels.py, weights.py): robust, multiway-clustered and ordered meats   *)
(* of the scores x*e, each computed along the route its storage takes.     *)
(*                                                                         *)
(*   "dense"   streamed from X and e (sandwich_vcov_xe)                    *)
(*   "scores"  from a score matrix (score_covariance; GMM)                 *)
(*   "block"   block-local group tables, joined (sandwich_vcov_block_xe)   *)
(*   "kron"    Kronecker scores of the rank tests, in tiles of groups      *)
(*   "stream"  accumulators replayed over a stored QR (stable 2SLS)        *)
(*                                                                         *)
(* Scores are small integers and matrices are kept before the bread; the   *)
(* finite-sample factor is a fraction.  The spectral repair of indefinite  *)
(* multiway results (finalize_cluster_vcov) is left out.                   *)
(***************************************************************************)
EXTENDS Ordering

CONSTANTS CovCalls,      \* what a fit asks of inference
          KeyCeiling,    \* largest int64
          TableLimit,    \* cells of a table of group sums: 256 MiB
          TileCells,     \* cells of one tile of Kronecker group sums
          ScoreBudget,   \* cells the streamed accumulators may keep
          MaxClusterDims \* 10

VARIABLES vce,      \* the call, see CovCallType
          covAt,    \* "encode" -> "meat" -> "scale" -> "done" or "refused"
          codes,    \* the cluster dimensions as dense codes
          subsets,  \* subsets of dimensions still to add
          held,     \* cells the accumulators of "stream" hold
          meat,     \* the signed sum so far
          factor    \* finite-sample factor <<numerator, denominator>>, or why refused

covVars == <<vce, covAt, codes, subsets, held, meat, factor>>

ScoreRows(c) == DOMAIN c.left
ScoreWidth(c) == Len(c.left[1]) * Len(c.x[1])

ASSUME CovarianceAssumption ==
  /\ {KeyCeiling, TableLimit, TileCells, ScoreBudget, MaxClusterDims} \subseteq Nat \ {0}
  /\ \A c \in CovCalls : /\ c.form \in {"dense", "scores", "block", "kron", "stream"}
                         /\ c.weightType \in {"none", "fweight", "pweight"}
                         /\ DOMAIN c.x = DOMAIN c.left /\ DOMAIN c.weights = DOMAIN c.left

-----------------------------------------------------------------------------
\* Dense codes of labels, in the order of first appearance.
Factorize(a) ==
  [i \in DOMAIN a |-> Cardinality({a[k] : k \in {k \in DOMAIN a : k < Min({m \in DOMAIN a : a[m] = a[i]})}})]
CodeCount(a) == Max({a[i] : i \in DOMAIN a}) + 1

\* pweights turn an iid request into a robust one; clusters choose for an unset one.
ResolvedKind ==
  CASE vce.kind = "unset" /\ vce.clusters # <<>> -> "cluster"
    [] vce.kind = "unset" /\ vce.clusters = <<>> ->
         IF vce.weightType = "pweight" THEN "robust" ELSE "iid"
    [] vce.kind = "iid" /\ vce.weightType = "pweight" -> "robust"
    [] OTHER -> vce.kind

EffectiveN == IF vce.weightType = "fweight" THEN MapThenSumSet(LAMBDA i : vce.weights[i], ScoreRows(vce))
              ELSE Cardinality(ScoreRows(vce))

\* Rows of transformed data have scores w*x*e; under a robust VCE a frequency
\* weight counts once in the outer product, so its root leaves the score.
Root(w) == CHOOSE r \in 1..w : r * r = w
ScoreWeight(i) == IF vce.weightType = "fweight" /\ ResolvedKind = "robust"
                  THEN Root(vce.weights[i]) ELSE vce.weights[i]
Kron(l, r) == [a \in 1..(Len(l) * Len(r)) |-> l[((a - 1) \div Len(r)) + 1] * r[((a - 1) % Len(r)) + 1]]
Scaled(n, s) == [a \in DOMAIN s |-> n * s[a]]
Score == [i \in ScoreRows(vce) |-> Scaled(ScoreWeight(i), Kron(vce.left[i], vce.x[i]))]

\* Cross products over a set of keys of two tables of rows.
Columns == 1..ScoreWidth(vce)
Total(f) == MapThenSumSet(LAMBDA k : f[k], DOMAIN f)
Product(S, T, keys) == [ab \in Columns \X Columns |-> Total([k \in keys |-> S[k][ab[1]] * T[k][ab[2]]])]
Gram(S, keys) == Product(S, S, keys)
Plus(A, B) == [ab \in Columns \X Columns |-> A[ab] + B[ab]]
Times(n, A) == [ab \in Columns \X Columns |-> n * A[ab]]
NoMeat == [ab \in Columns \X Columns |-> 0]
Together(ms) == FoldSeq(Plus, NoMeat, ms)

GroupSums(S, R, c) ==
  [g \in {c[i] : i \in R} |-> [a \in Columns |-> Total([i \in {r \in R : c[r] = g} |-> S[i][a]])]]
SumsMeat(S, R, c) == LET T == GroupSums(S, R, c) IN Gram(T, DOMAIN T)

-----------------------------------------------------------------------------
\* One code per combination of labels.  A key in mixed radix is kept only while
\* it fits, otherwise the tuples themselves are factorized.
MixedRadix(key, a, width) == [i \in DOMAIN a |-> (key[i] * CodeCount(a) + a[i]) % width]
Fits(key, a) == Max({key[i] : i \in DOMAIN a}) <= (KeyCeiling - (CodeCount(a) - 1)) \div CodeCount(a)
JoinCodes_Wraps(arrays) ==
  Factorize(FoldSeq(LAMBDA a, key : MixedRadix(key, a, KeyCeiling + 1), arrays[1], Tail(arrays)))
JoinCodes(arrays) ==
  LET Wider(a, key) == IF key # <<>> /\ Fits(key, a) THEN MixedRadix(key, a, KeyCeiling + 1) ELSE <<>>
      key == FoldSeq(Wider, arrays[1], Tail(arrays))
  IN IF Len(arrays) = 1 THEN arrays[1]
     ELSE IF key # <<>> THEN Factorize(key)
     ELSE Factorize([i \in DOMAIN arrays[1] |-> [k \in DOMAIN arrays |-> arrays[k][i]]])

InCells(c) == {i \in DOMAIN c : \E k \in DOMAIN c \ {i} : c[k] = c[i]}

\* _cluster_meat and cluster_subset_meats_xe: HC0 when every cell is a single
\* row; HC0 and a correction for repeated cells when the table of group sums is
\* large and repeats are a minority; group sums otherwise.
DenseMeat(c) ==
  LET all == DOMAIN c
      again == InCells(c)
  IN IF again = {} THEN Gram(Score, all)
     ELSE IF CodeCount(c) * ScoreWidth(vce) > TableLimit /\ Cardinality(again) <= Cardinality(all) \div 2
     THEN Plus(Gram(Score, all), Plus(SumsMeat(Score, again, c), Times(-1, Gram(Score, again))))
     ELSE SumsMeat(Score, all, c)

\* block_cluster_subset_meats_xe: a table of group sums per row block, over its
\* own columns; clusters that span blocks are joined block by block.
BlockScore(b) == [i \in b.rows |-> [a \in Columns |-> IF a \in b.columns THEN Score[i][a] ELSE 0]]
BlockMeat(c) ==
  LET table == [k \in DOMAIN vce.blocks |-> GroupSums(BlockScore(vce.blocks[k]), vce.blocks[k].rows, c)]
      own(k) == Gram(table[k], DOMAIN table[k])
      cross(k, m) == Product(table[k], table[m], DOMAIN table[k] \cap DOMAIN table[m])
      both(k, m) == Plus(cross(k, m), [ab \in Columns \X Columns |-> cross(k, m)[<<ab[2], ab[1]>>]])
      n == Len(vce.blocks)
  IN Plus(Together([k \in 1..n |-> own(k)]),
          Together([k \in 1..n |-> Together([m \in 1..(n - k) |-> both(k, k + m)])]))

\* _cluster_kron_meat: tiles of whole groups.
KronMeat(c) ==
  LET tile == Max({1, TileCells \div ScoreWidth(vce)})
      rowsOf(t) == {i \in DOMAIN c : c[i] \div tile = t}
  IN IF InCells(c) = {} THEN Gram(Score, DOMAIN c)
     ELSE Together([t \in 1..((CodeCount(c) - 1) \div tile + 1) |-> SumsMeat(Score, rowsOf(t - 1), c)])

\* The accumulators of stable_2sls_inference: sums for repeated cells, HC0 for
\* single rows.
StreamMeat(c) == Plus(SumsMeat(Score, InCells(c), c), Gram(Score, DOMAIN c \ InCells(c)))
StreamCells(c) == Len(c) + CodeCount(c) + Cardinality({c[i] : i \in InCells(c)}) * ScoreWidth(vce)
                  + ScoreWidth(vce) * ScoreWidth(vce)

SubsetMeat(c) == CASE vce.form \in {"dense", "scores"} -> DenseMeat(c)
                   [] vce.form = "block" -> BlockMeat(c)
                   [] vce.form = "kron" -> KronMeat(c)
                   [] vce.form = "stream" -> StreamMeat(c)

-----------------------------------------------------------------------------
\* Ordered scores, with the smallest step between two times as the unit.  Kernel
\* weights are in units of 1/bandwidth: Bartlett, or truncated.
Step(T) == Min({p[1] - p[2] : p \in {q \in T \X T : q[1] > q[2]}})
KernelWeight(lag, b) ==
  CASE lag = 0 -> b
    [] lag > 0 /\ vce.kernel = "bartlett" -> Max({b - lag, 0})
    [] lag > 0 /\ vce.kernel = "truncated" -> IF lag <= b THEN b ELSE 0
\* automatic_bandwidth, for fewer than 28 periods.
Automatic(n) == Max({m \in 0..3 : m^9 * 10000 <= n * n * 262144} \cup {0}) + 1
Bandwidth(n) == IF vce.bandwidth = 0 THEN Automatic(n) ELSE vce.bandwidth
MaxLag(n, b) == Min({n - 1, b})

\* Cross products at every lag up to the limit; keys are <<panel, time>>.
LaggedMeat(table, step, periods) ==
  LET b == Bandwidth(periods)
      later(lag) == {k \in DOMAIN table : <<k[1], k[2] - lag * step>> \in DOMAIN table}
      cross(lag) == [ab \in Columns \X Columns |-> Total([k \in later(lag) |->
                        table[k][ab[1]] * table[<<k[1], k[2] - lag * step>>][ab[2]]])]
      both(lag) == [ab \in Columns \X Columns |-> cross(lag)[ab] + cross(lag)[<<ab[2], ab[1]>>]]
  IN Plus(Times(b, Gram(table, DOMAIN table)),
          Together([lag \in 1..MaxLag(periods, b) |-> Times(KernelWeight(lag, b), both(lag))]))

\* HAC scores without times are taken in the order of the rows.
Time(i) == IF vce.time = <<>> THEN i ELSE vce.time[i]
Periods == {Time(i) : i \in ScoreRows(vce)}
\* driscoll_kraay_meat: sums over each period first.
PeriodMeat ==
  LET key == [i \in ScoreRows(vce) |-> <<0, Time(i)>>]
  IN LaggedMeat(GroupSums(Score, ScoreRows(vce), key), IF Cardinality(Periods) > 1 THEN Step(Periods) ELSE 1,
                Cardinality(Periods))
\* hac_meat: one row per <<panel, time>>; the step is the smallest within a panel.
HacKey == [i \in ScoreRows(vce) |-> <<vce.panel[i], Time(i)>>]
HacStep ==
  LET gaps == {Time(p[1]) - Time(p[2]) : p \in {q \in ScoreRows(vce) \X ScoreRows(vce) :
                 vce.panel[q[1]] = vce.panel[q[2]] /\ Time(q[1]) > Time(q[2])}}
  IN IF gaps = {} THEN 1 ELSE Min(gaps)
HacMeat == LaggedMeat(GroupSums(Score, ScoreRows(vce), HacKey), HacStep, Cardinality(Periods))

-----------------------------------------------------------------------------
CovInit == /\ vce \in CovCalls
           /\ covAt = "encode" /\ codes = <<>> /\ subsets = <<>> /\ held = 0
           /\ meat = NoMeat /\ factor = <<1, 1>>

Halt(why) == /\ covAt' = "refused" /\ factor' = <<why>>
             /\ UNCHANGED <<vce, codes, subsets, held, meat>>

\* Linear frontends encode whatever they are given (cluster_arrays); Poisson
\* frontends refuse what no clustered covariance can use (normalize_vce_clusters).
EncodeClusters ==
  /\ covAt = "encode"
  /\ IF Len(vce.clusters) > MaxClusterDims THEN Halt("dimensions")
     ELSE /\ codes' = [d \in DOMAIN vce.clusters |-> Factorize(vce.clusters[d])]
          /\ covAt' = "meat"
          /\ UNCHANGED <<vce, subsets, held, meat, factor>>

NormalizeClusters ==
  /\ covAt = "encode" /\ ResolvedKind = "cluster" /\ vce.form \in {"dense", "block"}
  /\ IF vce.clusters = <<>> THEN Halt("no clusters")
     ELSE /\ \E d \in DOMAIN vce.clusters : CodeCount(Factorize(vce.clusters[d])) < 2
          /\ Halt("insufficient")

\* Subsets of dimensions as itertools.combinations yields them, by size.
SubsetBefore(A, B) == \/ Cardinality(A) < Cardinality(B)
                      \/ /\ Cardinality(A) = Cardinality(B) /\ A # B
                         /\ Min((A \ B) \cup (B \ A)) \in A
BySize(n) == Sorted(SUBSET (1..n) \ {{}}, SubsetBefore)
Groups == Min({CodeCount(codes[d]) : d \in DOMAIN codes})
Ratio(n, k) == <<n, Max({n - k, 1})>>
ScaleOf(n, g) == <<(n - 1) * g, (n - vce.k - vce.nested) * (g - 1)>>
Unscaled == vce.form = "kron"

Answer(m, f) == /\ meat' = m /\ factor' = f /\ covAt' = "done"
                /\ UNCHANGED <<vce, codes, subsets, held>>

Iid == /\ covAt = "meat" /\ ResolvedKind = "iid"
       /\ Answer([ab \in Columns \X Columns |->
                    Total([i \in ScoreRows(vce) |-> vce.weights[i] * vce.left[i][1] * vce.left[i][1]])],
                 <<1, Max({EffectiveN - vce.k, 1})>>)

Robust == /\ covAt = "meat" /\ ResolvedKind = "robust"
          /\ Answer(Gram(Score, ScoreRows(vce)), Ratio(EffectiveN, vce.k))

\* Block designs refuse kinds that need the order of all rows.
Hac == /\ covAt = "meat" /\ ResolvedKind = "hac"
       /\ IF vce.form = "block" THEN Halt("unsupported")
          ELSE IF \E i, k \in ScoreRows(vce) : i # k /\ HacKey[i] = HacKey[k] THEN Halt("duplicate time")
          ELSE Answer(HacMeat, Ratio(EffectiveN, vce.k))

\* _cluster_scale, or the reason it raises.
ClusterScale(n, g) ==
  CASE g <= 1 -> <<"insufficient">>
    [] g > 1 /\ n <= vce.k + vce.nested -> <<"degrees of freedom">>
    [] OTHER -> ScaleOf(n, g)

DriscollKraay ==
  /\ covAt = "meat" /\ ResolvedKind = "dkraay"
  /\ LET f == ClusterScale(EffectiveN, Cardinality(Periods))
     IN IF vce.form = "block" THEN Halt("unsupported")
        ELSE IF vce.time = <<>> THEN Halt("no time")
        ELSE IF Len(f) = 1 THEN Halt(f[1]) ELSE Answer(PeriodMeat, f)

StartClusters ==
  /\ covAt = "meat" /\ ResolvedKind = "cluster"
  /\ IF codes = <<>> THEN Halt("no clusters")
     ELSE IF Groups < 2 THEN Halt("insufficient")
     ELSE IF vce.form = "stream" /\ Len(ClusterScale(EffectiveN, Groups)) = 1
     THEN Halt(ClusterScale(EffectiveN, Groups)[1])
     ELSE /\ subsets' = BySize(Len(codes)) /\ covAt' = "add"
          /\ UNCHANGED <<vce, codes, held, meat, factor>>

\* One term of the inclusion-exclusion of Cameron, Gelbach and Miller.
Sign(S) == IF Cardinality(S) % 2 = 1 THEN 1 ELSE -1
Member(S) == JoinCodes([k \in 1..Cardinality(S) |-> codes[Ascending(S)[k]]])
AddSubset ==
  /\ covAt = "add" /\ subsets # <<>>
  /\ LET c == Member(Head(subsets))
         cells == held + StreamCells(c)
     IN IF vce.form = "stream" /\ cells > ScoreBudget THEN Halt("budget")
        ELSE /\ meat' = Plus(meat, Times(Sign(Head(subsets)), SubsetMeat(c)))
             /\ held' = IF vce.form = "stream" THEN cells ELSE 0
             /\ subsets' = Tail(subsets)
             /\ UNCHANGED <<vce, covAt, codes, factor>>

ScaleClusters ==
  /\ covAt = "add" /\ subsets = <<>>
  /\ LET f == ClusterScale(EffectiveN, Groups)
     IN IF Unscaled THEN Answer(meat, <<1, 1>>)
        ELSE IF Len(f) = 1 THEN Halt(f[1]) ELSE Answer(meat, f)

CovNext == EncodeClusters \/ NormalizeClusters \/ Iid \/ Robust \/ Hac \/ DriscollKraay
           \/ StartClusters \/ AddSubset \/ ScaleClusters
CovSpec == CovInit /\ [][CovNext]_covVars

-----------------------------------------------------------------------------
\* What a row stands for: a frequency weight for that many equal rows, any
\* other weight for a weighted score.
Replicas == IF vce.weightType = "fweight" THEN {<<i, r>> \in ScoreRows(vce) \X (1..4) : r <= vce.weights[i]}
            ELSE ScoreRows(vce) \X {1}
PlainWeight(p) == IF vce.weightType = "fweight" THEN 1 ELSE vce.weights[p[1]]
PlainScore(p) == Scaled(PlainWeight(p), Kron(vce.left[p[1]], vce.x[p[1]]))
SharesLabel(i, k) == \E d \in DOMAIN vce.clusters : vce.clusters[d][i] = vce.clusters[d][k]
Lag(i, k, step) ==
  LET gap == Max({Time(i) - Time(k), Time(k) - Time(i)})
  IN IF gap % step = 0 THEN gap \div step ELSE Bandwidth(Cardinality(Periods)) + 1
PairWeight(p, q) ==
  LET b == Bandwidth(Cardinality(Periods))
      dk == IF Cardinality(Periods) > 1 THEN Step(Periods) ELSE 1
  IN CASE ResolvedKind = "robust" -> IF p = q THEN 1 ELSE 0
       [] ResolvedKind = "cluster" -> IF SharesLabel(p[1], q[1]) THEN 1 ELSE 0
       [] ResolvedKind = "dkraay" -> KernelWeight(Lag(p[1], q[1], dk), b)
       [] ResolvedKind = "hac" -> IF vce.panel[p[1]] # vce.panel[q[1]] THEN 0
                                  ELSE KernelWeight(Lag(p[1], q[1], HacStep), b)
\* Lags are cut at the number of periods less one, which a gap in the times can
\* make less than the bandwidth reaches.
LagsReach ==
  LET n == Cardinality(Periods)
      step == IF ResolvedKind = "hac" THEN HacStep ELSE IF n > 1 THEN Step(Periods) ELSE 1
  IN Bandwidth(n) < n \/ Max(Periods) - Min(Periods) <= (n - 1) * step
Pairwise ==
  LET score == [p \in Replicas |-> PlainScore(p)]
      weight == [pq \in Replicas \X Replicas |-> PairWeight(pq[1], pq[2])]
  IN [ab \in Columns \X Columns |->
        Total([pq \in DOMAIN weight |-> weight[pq] * score[pq[1]][ab[1]] * score[pq[2]][ab[2]]])]
LabelCount(d) == Cardinality({vce.clusters[d][i] : i \in DOMAIN vce.clusters[d]})
Undersized == \E d \in DOMAIN vce.clusters : LabelCount(d) < 2

\* Whatever the route, the meat is a sum over pairs of rows: a row with itself
\* (robust), two rows that share a label of any dimension (cluster), or two rows
\* whose times are within the kernel's reach; rows with a frequency weight count
\* as that many rows with weight one.  Clustered inference is refused, never
\* answered, when a dimension has one observed label or no degree of freedom is
\* left, on every route alike.
MeatIsPairwise ==
  /\ covAt = "done" /\ ResolvedKind # "iid"
     /\ (ResolvedKind \in {"hac", "dkraay"} => LagsReach) => meat = Pairwise
  /\ covAt = "done" /\ ResolvedKind = "iid" =>
       \A ab \in DOMAIN meat :
         meat[ab] = Total([p \in Replicas |-> PlainWeight(p) * vce.left[p[1]][1] * vce.left[p[1]][1]])
  /\ covAt = "done" /\ ResolvedKind = "cluster" => ~Undersized /\ factor[2] > 0 /\ factor[1] > 0
  /\ covAt = "refused" /\ factor = <<"insufficient">> /\ ResolvedKind = "cluster" => Undersized
=============================================================================
