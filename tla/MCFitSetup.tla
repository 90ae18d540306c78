------------------------------- MODULE MCFitSetup -------------------------------
(***************************************************************************)
(* A linear fit, each piece explored on its own: the exact rank of         *)
(* categorical designs (CategoricalRank), the absorbed structure           *)
(* (FEStructure), the compiled regressors (DesignCompiler), the group      *)
(* problem (GroupIndividual), the numerical core of an absorber and one    *)
(* projection on it (CoreProjection), the fit from there on (LinearFit),   *)
(* the inference of IV (IVInference), covariances (Covariance), and new    *)
(* rows (Prediction) after the structure or the design is ready.           *)
(* `part` says which one moves; the others rest.                           *)
(***************************************************************************)
EXTENDS FEStructure, DesignCompiler, GroupIndividual, MCCoreProjection, MCLinearFit, IVInference,
        Covariance, Prediction

VARIABLE part

\* Partitions of four rows, as dense codes in the order of first appearance.
Dense4 == {f \in [1..4 -> 0..3] : f[1] = 0 /\ \A i \in 2..4 : f[i] <= 1 + Max({f[k] : k \in 1..(i-1)})}
Ascending4 == {f \in Dense4 : \A i \in 2..4 : f[i] >= f[i-1]}
Two4 == {f \in Dense4 : \A i \in 1..4 : f[i] <= 1}

\* Eight rows: two components that neither peeling nor the certificate settles.
HardDesign == << <<0,0,1,1,2,2,3,3>>, <<0,1,0,1,2,3,2,3>>, <<0,1,1,0,2,3,3,2>> >>
MCDesigns == {<<>>, << <<>>, <<>>, <<>> >>, HardDesign} \cup {<<f>> : f \in Two4}
             \cup (Ascending4 \X Two4) \cup (Ascending4 \X Two4 \X Two4)
Engine(b, has) == [backend |-> b, installed |-> has]
MCEngines == {Engine(b, has) : b \in {"auto", "flint"}, has \in {{}, {"flint"}}}
             \cup {Engine(b, has) : b \in {"auto", "sympy"}, has \in {{}, {"sympy"}}}
             \cup {Engine("native", {})}

-----------------------------------------------------------------------------
Term(cols, named, slopes, intercept) ==
  [columns |-> cols, named |-> named, slopes |-> slopes, intercept |-> intercept]
City == Term({"c"}, TRUE, <<>>, TRUE)
Year == Term({"y"}, TRUE, <<>>, TRUE)
CityYear == Term({"c", "y"}, TRUE, <<>>, TRUE)
Province == Term({"p"}, FALSE, <<>>, TRUE)
Trend == Term({"c"}, TRUE, << <<0,1,2,2>> >>, TRUE)
SlopeOnly == Term({"p"}, TRUE, << <<0,0,1,2>> >>, FALSE)
Opaque(t) == [t EXCEPT !.named = FALSE]

Option(route, can, drop, unit, so) ==
  [route |-> route, canonicalize |-> can, drop |-> drop, unit |-> unit, slopeOnly |-> so, save |-> FALSE]
Linear == {Option("linear", TRUE, TRUE, 1..4, FALSE), Option("linear", TRUE, TRUE, 1..4, TRUE),
           Option("linear", FALSE, TRUE, 1..4, FALSE), Option("linear", TRUE, FALSE, 1..4, FALSE),
           Option("linear", TRUE, TRUE, 2..4, FALSE)}
Poisson == {Option("poisson", can, TRUE, 1..4, FALSE) : can \in BOOLEAN}
Nested2 == {[c |-> c, y |-> y, p |-> c] : c \in Ascending4, y \in Dense4}
Crossed == {[c |-> c, y |-> y, p |-> p] : c \in Ascending4, y \in Two4, p \in {<<0,0,1,1>>, <<0,1,0,0>>}}
In(tables, requests, options) == [table : tables, terms : requests, choice : options]
PlainInputs == In(Crossed, {<<City, Year, Province>>}, Linear \cup Poisson)
            \cup In(Nested2, {<<Year, CityYear>>, <<City, Opaque(Year), Opaque(CityYear)>>},
                    Linear \cup Poisson)
            \cup In(Crossed, {<<SlopeOnly, Year, City>>, <<City, Trend, Province>>}, Linear)
\* Fits that keep their effects.
Saving == {[o EXCEPT !.save = TRUE] : o \in {Option("linear", TRUE, d, 1..4, FALSE) : d \in BOOLEAN}}
Few == {[c |-> c, y |-> y, p |-> p] : c \in {<<0,0,1,2>>, <<0,0,1,1>>, <<0,1,2,2>>}, y \in Two4,
          p \in {<<0,0,1,1>>, <<0,1,0,0>>}}
MCSaved == In(Few, {<<City, Year>>, <<City, Year, [Province EXCEPT !.named = TRUE]>>,
                    <<City, Province>>, <<Year, CityYear>>}, Saving)
MCNewRows == [{"c", "y", "p"} -> {0, 1, 2, 9}]
MCNewData ==
  [factors : [f : {0, 9}, g : {1, 9}, h : {0}], continuous : {[x |-> 2, z |-> 5]}]
MCInputs == PlainInputs \cup MCSaved
MCClusterSets == {{}, {<<0,0,1,1>>}}

-----------------------------------------------------------------------------
Factor(f, b) == [factor |-> f, base |-> b]
Reg(r, ps, m) == [role |-> r, parts |-> ps, monomial |-> m]
F == <<Factor("f", "none")>>
FBase == <<Factor("f", "first")>>
H == <<Factor("g", "none")>>
FH == <<Factor("f", "none"), Factor("g", "none")>>
FHBase == <<Factor("f", "freq"), Factor("g", "last")>>
FHK == <<Factor("f", "last"), Factor("g", "none"), Factor("h", "none")>>
MCTerms == {
  <<Reg(1, <<>>, <<"x">>), Reg(1, FBase, <<>>), Reg(1, FH, <<>>)>>,
  <<Reg(1, FHBase, <<>>), Reg(1, F, <<>>), Reg(1, H, <<>>)>>,
  <<Reg(1, F, <<"x">>), Reg(1, FH, <<"x">>), Reg(1, <<>>, <<"x">>)>>,
  <<Reg(1, FH, <<>>), Reg(1, F, <<>>)>>,
  <<Reg(1, F, <<"x">>), Reg(1, H, <<"x">>), Reg(1, FHK, <<>>)>>,
  <<Reg(1, H, <<>>), Reg(2, F, <<"x">>), Reg(3, FH, <<>>)>>,
  <<Reg(1, <<>>, <<"x">>), Reg(2, <<>>, <<"x", "z">>), Reg(3, FBase, <<>>), Reg(3, FH, <<"z">>)>> }
MCOmit == {<<[role |-> 1, factor |-> "f", level |-> 1]>>}
MCGroups == {<<>>, << <<0,0,1,1>> >>, << <<0,1,1,2>> >>, << <<0,0,1,1>>, <<0,1,2,2>> >>}
MCCalls ==
  [factors : [f : {<<0,0,1,1>>, <<0,1,1,2>>, <<0,1,2,3>>},
              g : {<<0,0,1,1>>, <<0,1,0,1>>, <<0,0,0,0>>}, h : {<<0,1,0,1>>}],
   continuous : {[x |-> <<1,2,0,1>>, z |-> <<1,1,2,3>>]},
   groups : MCGroups, terms : MCTerms, omit : {<<>>}, absorbed : BOOLEAN, structural : {TRUE}]
  \cup
  [factors : [f : {<<0,0,1,1>>, <<0,1,2,3>>}, g : {<<0,1,0,1>>}, h : {<<0,1,0,1>>}],
   continuous : {[x |-> <<1,2,0,1>>, z |-> <<1,1,2,3>>]},
   groups : MCGroups, terms : MCTerms, omit : MCOmit, absorbed : {FALSE}, structural : {TRUE}]
  \cup
  [factors : [f : {<<0,1,1,2>>}, g : {<<0,1,0,1>>}, h : {<<0,1,0,1>>}],
   continuous : {[x |-> <<1,2,0,1>>, z |-> <<1,1,2,3>>]},
   groups : MCGroups, terms : MCTerms, omit : {<<>>}, absorbed : {FALSE}, structural : {FALSE}]

-----------------------------------------------------------------------------
\* Six membership rows; labels have gaps and are out of order.
GLong == {<<3,3,5,5,9,9>>, <<3,5,5,9,9,9>>, <<9,3,5,3,2,5>>}
GPeople == {<<4,4,1,6,1,6>>} \cup {f \in [1..6 -> {1, 4, 6}] : f[1] = 4 /\ f[2] # 4}
Late == [r \in 1..6 |-> IF r = 6 THEN 1 ELSE 0]
ByGroup(g, S) == [r \in 1..6 |-> IF g[r] \in S THEN 7 ELSE 2]
Long(g, i) == [group |-> g, individual |-> i, effects |-> <<>>, outcome |-> [r \in 1..6 |-> 2 * g[r]],
               slope |-> <<>>, weight |-> <<>>, frequency |-> FALSE, cluster |-> <<>>,
               intercept |-> TRUE, mean |-> TRUE, drop |-> TRUE]
Slopes(g, i) == [Long(g, i) EXCEPT !.slope = <<1,2,0,1,3,1>>]
Balanced == Long(<<3,3,5,5,9,9>>, <<1,4,1,4,1,4>>)
MCRequests ==
  {[Long(g, i) EXCEPT !.effects = <<ByGroup(g, S)>>, !.mean = mean] :
     g \in GLong, i \in GPeople, S \in {{3, 5, 9}, {3, 9}, {5, 2}}, mean \in BOOLEAN}
  \cup {[Slopes(g, i) EXCEPT !.weight = [r \in 1..6 |-> g[r] \div 2], !.cluster = c,
                             !.mean = mean, !.intercept = mean] :
           g \in GLong, i \in GPeople, c \in {<<>>, Late}, mean \in BOOLEAN}
  \cup {[Slopes(g, i) EXCEPT !.drop = FALSE, !.mean = FALSE] : g \in GLong, i \in GPeople}
  \cup {[Long(g, <<>>) EXCEPT !.effects = <<ByGroup(g, S), ByGroup(g, T)>>, !.frequency = fr,
                              !.weight = [r \in 1..6 |-> g[r] \div 3]] :
           g \in GLong, S \in SUBSET {2, 3, 5, 9}, T \in SUBSET {2, 3, 5, 9}, fr \in BOOLEAN}
  \cup {[Balanced EXCEPT !.effects = <<Late>>], [Balanced EXCEPT !.effects = <<Late>>, !.individual = <<>>],
        [Balanced EXCEPT !.frequency = TRUE, !.weight = [r \in 1..6 |-> 2]]}

-----------------------------------------------------------------------------
IVCall(e, k, f, b, w, v, d) ==
  [estimator |-> e, kappa |-> k, fuller |-> f, block |-> b, weights |-> w, vce |-> v, doomed |-> d]
MCIVCalls ==
  {IVCall(e, k, f, b, w, "iid", FALSE) :
     e \in {"2sls", "liml", "kclass"}, k \in {"none", "one", "other"},
     f \in BOOLEAN, b \in BOOLEAN, w \in {"none", "zeros"}}
  \cup {IVCall("2sls", "none", FALSE, b, w, "cluster", d) :
           b \in BOOLEAN, d \in BOOLEAN, w \in {"none", "zeros"}}
  \cup {IVCall("gmm2s", "none", FALSE, FALSE, w, "cluster", d) : d \in BOOLEAN, w \in {"none", "zeros"}}

-----------------------------------------------------------------------------
CovX == << <<1,0>>, <<2,0>>, <<0,1>>, <<0,3>> >>
CovFull == << <<1,2>>, <<2,-1>>, <<0,1>>, <<-1,3>> >>
One4 == <<1,1,1,1>>
CovLeft == << <<1>>, <<-2>>, <<3>>, <<1>> >>
CovLeft2 == << <<1,0>>, <<-2,1>>, <<3,2>>, <<1,-1>> >>
CovBlocks == << [rows |-> {1,2}, columns |-> {1}], [rows |-> {3,4}, columns |-> {2}] >>
SharedBlocks == << [rows |-> {1,2}, columns |-> {1,2}], [rows |-> {3,4}, columns |-> {1,2}] >>
CovBase == [form |-> "dense", kind |-> "unset", x |-> CovFull, left |-> CovLeft, weights |-> One4,
            weightType |-> "none", clusters |-> <<>>, blocks |-> <<>>, k |-> 2, nested |-> 0,
            time |-> <<>>, panel |-> <<>>, bandwidth |-> 0, kernel |-> "bartlett"]
Labelled(c) == [i \in 1..4 |-> 5 - 2 * c[i]]
Formed(form) == CASE form = "block" -> [CovBase EXCEPT !.form = form, !.x = CovX, !.blocks = CovBlocks]
                  [] form = "kron" -> [CovBase EXCEPT !.form = form, !.left = CovLeft2]
                  [] OTHER -> [CovBase EXCEPT !.form = form]
CovForms == {"dense", "block", "kron", "stream"}
CovClustered ==
  {[Formed(f) EXCEPT !.clusters = <<Labelled(a), b>>] : f \in CovForms, a \in Dense4, b \in Two4}
  \cup {[Formed(f) EXCEPT !.clusters = <<a, b, c>>] : f \in {"scores", "stream"}, a \in {<<0,1,2,3>>, <<0,1,0,2>>, <<0,0,1,1>>}, b \in Two4, c \in {<<0,1,2,0>>, <<0,1,2,3>>}}
  \cup {[Formed(f) EXCEPT !.clusters = <<a>>, !.weights = w, !.weightType = t, !.k = k, !.nested = n] :
          f \in CovForms, a \in Dense4, w \in {<<1,4,1,4>>}, t \in {"fweight", "pweight"}, k \in {2, 3}, n \in {0, 1}}
  \cup {[Formed("dense") EXCEPT !.kind = "cluster"], [Formed("scores") EXCEPT !.clusters = <<One4, One4, One4, One4>>]}
CovTimes == {<<1,2,4,5>>, <<4,1,2,5>>, <<1,1,2,2>>, <<1,1,4,2>>, <<2,1,4,1>>, <<1,2,8,2>>, <<3,3,3,3>>}
CovOrdered ==
  {[Formed("scores") EXCEPT !.kind = "dkraay", !.time = t, !.bandwidth = b, !.kernel = kk, !.weights = <<1,4,1,1>>, !.weightType = w] :
     t \in CovTimes, b \in {0,1,2,3}, kk \in {"bartlett", "truncated"}, w \in {"none", "fweight"}}
  \cup {[Formed("scores") EXCEPT !.kind = "hac", !.time = t, !.panel = p, !.bandwidth = b, !.kernel = kk] :
     t \in CovTimes, p \in {One4, <<1,2,1,2>>}, b \in {0,1,2,3}, kk \in {"bartlett", "truncated"}}
CovPlain == {[Formed(f) EXCEPT !.kind = k, !.weights = w, !.weightType = t] :
     f \in {"dense", "block", "stream"}, k \in {"unset", "iid", "robust"}, w \in {<<1,4,1,4>>}, t \in {"fweight", "pweight"}}
CovOdd == {[Formed("block") EXCEPT !.kind = k, !.time = <<1,2,3,4>>, !.panel = One4] : k \in {"hac", "dkraay"}}
       \cup {[Formed("scores") EXCEPT !.kind = k, !.panel = One4] : k \in {"hac", "dkraay"}}
       \cup {[Formed("block") EXCEPT !.x = CovFull, !.blocks = SharedBlocks, !.clusters = <<a, b>>] :
                a \in Dense4, b \in {<<0,1,0,1>>, <<0,1,1,2>>}}
MCCovCalls == CovClustered \cup CovOrdered \cup CovPlain \cup CovOdd

-----------------------------------------------------------------------------
Some(S) == CHOOSE x \in S : TRUE
RankAtRest == /\ design = <<>> /\ engine = Engine("native", {}) /\ at = "done"
              /\ edges = {} /\ component = {} /\ rank = 0 /\ rankError = "none"
FEAtRest == /\ fe = <<>> /\ choice = Some(Linear) /\ stage = "idle"
            /\ solved = {} /\ rows = {} /\ plan = <<>> /\ counted = <<>>
GroupAtRest == /\ request = <<>> /\ step = "idle" /\ kept = {}
               /\ problem = <<>> /\ operator = <<>>
DesignAtRest == /\ call = <<>> /\ active = <<>> /\ reach = {} /\ cursor = <<1, 1>>
                /\ phase = "idle" /\ stored = <<>> /\ chosen = <<>>

LinearAtRest == /\ asked = <<>> /\ point = "idle" /\ forms = <<>> /\ buffer = <<>> /\ cut = <<>>
                /\ solver = <<>> /\ runs = <<>> /\ weak = <<>> /\ basis = <<>> /\ answer = NoAnswer
IVAtRest == /\ iv = <<>> /\ ivAt = "idle" /\ identity = <<>> /\ screen = <<>>
            /\ estimate = <<>> /\ events = <<>> /\ published = "none"
CovAtRest == /\ vce = CovBase /\ covAt = "idle" /\ codes = <<>> /\ subsets = <<>> /\ held = 0
             /\ meat = <<>> /\ factor = <<1, 1>>

\* One level in every term: there is nothing to peel.
OneLevel == [code |-> [j \in Terms |-> [i \in Rows |-> 0]], unit |-> Rows, positive |-> {},
             eligible |-> [j \in Terms |-> Rows], checkZero |-> FALSE, dropSingletons |-> TRUE]
CoreAtRest == /\ sample = OneLevel /\ alive = Rows /\ queue = <<>> /\ head = 1
              /\ counts = [j \in Terms |-> [v \in Levels |-> 0]] /\ rowSum = counts
              /\ coreCode = NoCore /\ pc = "count"
              /\ term = 0 /\ job = <<>> /\ index = <<>> /\ lost = <<>>
              /\ todo = {} /\ work = <<>> /\ scratch = <<>>

Pieces == {"rank", "core", "structure", "design", "group", "linear", "inference", "covariance"}
SetupInit ==
  /\ part \in Pieces
  /\ IF part = "rank" THEN RankInit ELSE RankAtRest
  /\ IF part = "structure" THEN FEInit ELSE FEAtRest
  /\ IF part = "design" THEN DesignInit ELSE DesignAtRest
  /\ IF part = "core" THEN CInit ELSE CoreAtRest
  /\ IF part = "group" THEN GroupInit ELSE GroupAtRest
  /\ IF part = "linear" THEN LinearInit ELSE LinearAtRest
  /\ IF part = "inference" THEN IVInit ELSE IVAtRest
  /\ IF part = "covariance" THEN CovInit ELSE CovAtRest
  /\ PredictionInit

SetupNext ==
  \/ part = "rank" /\ RankNext /\ UNCHANGED <<part, feVars, designVars, groupVars, cvars, linearVars, ivVars, covVars, predictionVars>>
  \/ part = "structure" /\ (stage # "ready" \/ ~choice.save) /\ FENext
     /\ UNCHANGED <<part, rankVars, designVars, groupVars, cvars, linearVars, ivVars, covVars, predictionVars>>
  \/ part = "design" /\ predicted = NoAnswerYet /\ DesignNext
     /\ UNCHANGED <<part, rankVars, feVars, groupVars, cvars, linearVars, ivVars, covVars, predictionVars>>
  \/ part = "group" /\ GroupNext
     /\ UNCHANGED <<part, rankVars, feVars, designVars, cvars, linearVars, ivVars, covVars, predictionVars>>
  \/ part = "core" /\ CNext
     /\ UNCHANGED <<part, rankVars, feVars, designVars, groupVars, linearVars, ivVars, covVars, predictionVars>>
  \/ part = "linear" /\ LinearNext
     /\ UNCHANGED <<part, rankVars, feVars, designVars, groupVars, cvars, ivVars, covVars, predictionVars>>
  \/ part = "inference" /\ IVNext
     /\ UNCHANGED <<part, rankVars, feVars, designVars, groupVars, cvars, linearVars, covVars, predictionVars>>
  \/ part = "covariance" /\ CovNext
     /\ UNCHANGED <<part, rankVars, feVars, designVars, groupVars, cvars, linearVars, ivVars, predictionVars>>
  \/ part \in {"structure", "design"} /\ PredictionNext
     /\ UNCHANGED <<part, rankVars, groupVars, cvars, linearVars, ivVars, covVars>>
setupVars == <<part, rankVars, feVars, designVars, groupVars, cvars, linearVars, ivVars, covVars, predictionVars>>

\* The compiled loops of the core go on while they are the part that moves.
SetupSpec == /\ SetupInit /\ [][SetupNext]_setupVars
             /\ WF_cvars(part = "core" /\ CNext)
=============================================================================
