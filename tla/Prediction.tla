------------------------------- MODULE Prediction -------------------------------
(***************************************************************************)
(* New rows after a linear fit: what the fit keeps for them                *)
(* (effects/prediction.py, effects/topology.py, prediction.py), and how    *)
(* predict_linear rebuilds regressors and fixed effects from the raw       *)
(* labels of the new rows (prediction_api.py).  Also the recovery of FE    *)
(* coefficients and their normalisation (effects/recover.py).              *)
(*                                                                         *)
(* A row of the new data gives each column a label; a label the sample does*)
(* not have is unknown.  The fixed effects and the regressors are those of *)
(* FEStructure and DesignCompiler, at the end of their preparation.        *)
(***************************************************************************)
EXTENDS FEStructure, DesignCompiler

CONSTANTS
  NewRows,     \* rows of FE columns: [column -> label]
  NewData,     \* rows of regressors: [factors, continuous]
  Policies     \* the unknown argument: "raise", "nan"

VARIABLES
  saved,       \* what save_fe keeps: [why, effective, component, identified, nesting]
  recovered,   \* recovered coefficients: [term -> [level -> value]]
  predicted    \* the answer: [how, rows], the rows that get a number

predictionVars == <<saved, recovered, predicted>>
NoAnswerYet == <<>>
NotSaved == [why |-> "no_save"]
PredictionInit == saved = NotSaved /\ recovered = <<>> /\ predicted = NoAnswerYet
FitOnly == UNCHANGED <<feVars, designVars>>

-----------------------------------------------------------------------------
(* identification_structure: levels are joined by the rows that have them.  *)
(* A component is a set of edges; G - 1 shifts leave it as it is, and it is  *)
(* identified when nothing else does.                                       *)

Vertex(j, v) == (j * (NRows + 1)) + v
EdgeOf(J, i) == [p \in DOMAIN J |-> Vertex(J[p], Code(J[p], i))]
EdgesOf(J) == {EdgeOf(J, i) : i \in rows}
Nullity(E) == Cardinality(Vertices(E)) - ExactRank(E)
Shifts(J) == Max({Len(J) - 1, 0})
Extra(J) == Max({Nullity(EdgesOf(J)) - (Cardinality(Components(EdgesOf(J))) * Shifts(J)), 0})

\* Ranks of single components are taken only when the whole leaves something over.
Identified_Always(J) == Components(EdgesOf(J))
Identified(J) ==
  IF Extra(J) = 0 THEN Components(EdgesOf(J))
  ELSE {E \in Components(EdgesOf(J)) : Nullity(E) <= Shifts(J)}

-----------------------------------------------------------------------------
(* saved_categorical_state *)

RepresentativeRow(j, v) == Min({i \in rows : Code(j, i) = v})
CoarseByFine(c) ==
  LET f == plan.spannedBy[c]
  IN [v \in LevelsIn(f, rows) |-> Code(c, RepresentativeRow(f, v))]

Unavailable(why) == saved' = [why |-> why]
SaveEffects ==
  /\ stage = "ready" /\ choice.save /\ rows # {} /\ saved = NotSaved
  /\ LET J == Ascending(plan.effective) IN
     \/ Unavailable("nonconverged")
     \/ /\ \E j \in FEs : ~Pure(j) \/ ~fe[j].named
        /\ Unavailable("requires_named_categorical_intercepts")
     \/ Len(J) > 2 /\ Unavailable("identification_resource_budget")
     \/ /\ \A j \in FEs : Pure(j) /\ fe[j].named
        /\ saved' = [why |-> "none", effective |-> J,
                     component |-> [v \in Vertices(EdgesOf(J)) |->
                                      CHOOSE E \in Components(EdgesOf(J)) : v \in Vertices(E)],
                     identified |-> Identified(J),
                     nesting |-> [c \in FEs \ plan.effective |->
                                    [fine |-> plan.spannedBy[c], map |-> CoarseByFine(c)]]]
  /\ FitOnly /\ UNCHANGED <<recovered, predicted>>

-----------------------------------------------------------------------------
(* predict_linear, kind="fe": _fe_chunk *)

\* The level of a new row in a fitted FE, 0 when the sample has none.
LevelOf(j, new) ==
  LET same == {i \in rows : \A c \in fe[j].columns : fe[j].labels[i][c] = new[c]}
  IN IF same = {} THEN 0 ELSE Code(j, Min(same))

KnownLevels(new) == \A j \in FEs : LevelOf(j, new) # 0
OneIdentifiedComponent(new) ==
  \E E \in saved.identified : \A p \in DOMAIN saved.effective :
    saved.component[Vertex(saved.effective[p], LevelOf(saved.effective[p], new))] = E
KeepsNesting(new) ==
  \A c \in DOMAIN saved.nesting :
    LET n == saved.nesting[c] IN n.map[LevelOf(n.fine, new)] = LevelOf(c, new)
Predictable(new) == KnownLevels(new) /\ OneIdentifiedComponent(new) /\ KeepsNesting(new)

Answered(batch, good, policy) ==
  predicted' = IF policy = "raise" /\ good # batch THEN [how |-> "refused", rows |-> {}]
               ELSE [how |-> "fe", rows |-> good]

InSample == {new \in NewRows : \E i \in rows : \A j \in FEs : \A c \in fe[j].columns :
                                 fe[j].labels[i][c] = new[c]}
PredictEffects ==
  /\ saved.why = "none" /\ predicted = NoAnswerYet
  /\ \E policy \in Policies, batch \in {NewRows, InSample} :
       Answered(batch, {new \in batch : Predictable(new)}, policy)
  /\ FitOnly /\ UNCHANGED <<saved, recovered>>

-----------------------------------------------------------------------------
(* recover_fixed_effects on the requested FEs.  Strict mode raises when no   *)
(* component is identified and leaves the others without values; then every *)
(* term but the baseline is centred, component by component.                *)

AllFEs == Ascending(FEs)
NaN == -1000
\* Coefficients that reproduce some fitted contribution, as a solver returns them.
Solution(j, v) == (j * j) + (3 * v)
Recover ==
  /\ stage = "ready" /\ choice.save /\ rows # {} /\ recovered = <<>> /\ predicted = NoAnswerYet
  /\ \A j \in FEs : Pure(j)
  /\ LET good == Identified(AllFEs) IN
     /\ good # {}
     /\ recovered' = [j \in FEs |-> [v \in LevelsIn(j, rows) |->
                        IF \E E \in good : Vertex(j, v) \in Vertices(E) THEN Solution(j, v) ELSE NaN]]
  /\ FitOnly /\ UNCHANGED <<saved, predicted>>

\* renormalize with one reference level a component, its first.
Renormalize(baseline, good) ==
  LET Home(j, v) == CHOOSE E \in Components(EdgesOf(AllFEs)) : Vertex(j, v) \in Vertices(E)
      Reference(j, E) == Min({v \in LevelsIn(j, rows) : Vertex(j, v) \in Vertices(E)})
      Center(j, E) == recovered[j][Reference(j, E)]
      Sum(E) == MapThenSumSet(LAMBDA j : Center(j, E), FEs \ {baseline})
  IN [j \in FEs |-> [v \in LevelsIn(j, rows) |->
        IF Home(j, v) \notin good THEN recovered[j][v]
        ELSE IF j = baseline THEN recovered[j][v] + Sum(Home(j, v))
        ELSE recovered[j][v] - Center(j, Home(j, v))]]
Normalize ==
  /\ recovered # <<>> /\ predicted = NoAnswerYet
  /\ \E baseline \in FEs : recovered' = Renormalize(baseline, Identified(AllFEs))
  /\ predicted' = [how |-> "normalized", rows |-> {}]
  /\ FitOnly /\ UNCHANGED saved

-----------------------------------------------------------------------------
(* predict_linear, kind="xb" and the regressors of "response".              *)

CoefficientRoles == RoleNames \cap {1, 2}

\* Positions in the coefficient vector: roles one after the other, and within a
\* role the estimated ones among the materialised columns.
Materialized(r) == Listed(ColumnsOf(r, active))
ActiveIndices(r) == Ascending({k \in DOMAIN Materialized(r) : Materialized(r)[k] \in chosen[r]})
RoleOffset(r) == MapThenSumSet(LAMBDA q : Cardinality(chosen[q]), {q \in CoefficientRoles : q < r})
Position(r, k) == RoleOffset(r) + (CHOOSE n \in DOMAIN ActiveIndices(r) : ActiveIndices(r)[n] = k)

\* _compiled_design: every term with a coefficient, its cells and their positions.
\* The cursor counts the columns of a term the estimation left out, too.
Cursor(t, c) ==
  Cardinality({col \in ColumnsOf(Role(t), active) : Before(col, <<t, c>>)}) + 1
CompiledCells(t) ==
  {<<c, Position(Role(t), Cursor(t, c))>> : c \in {c \in active[t] :
      Cursor(t, c) \in Range(ActiveIndices(Role(t)))}}
Compiled ==
  LET cells == [t \in {t \in TermIds : Role(t) \in CoefficientRoles} |-> CompiledCells(t)]
  IN [t \in {t \in DOMAIN cells : cells[t] # {}} |-> cells[t]]

\* _design_chunk: the cell of a new row among those of the sample.
NewCell(t, new) == FoldLeft(LAMBDA key, p : (key * RowCount) + new.factors[p.factor], 0, Parts(t))
KnownCell(t, new) ==
  /\ \A k \in DOMAIN Parts(t) : new.factors[Parts(t)[k].factor] \in FactorLevels(Parts(t)[k].factor)
  /\ NewCell(t, new) \in Observed(t)
NewMonomial(t, new) == FoldLeft(LAMBDA v, x : v * new.continuous[x], 1, call.terms[t].monomial)
NCoefficients == RoleOffset(4)
Rebuilt(new, compiled) ==
  LET cell == [t \in DOMAIN compiled |-> NewCell(t, new)]
  IN [n \in 1..NCoefficients |->
        MapThenSumSet(LAMBDA t : IF <<cell[t], n>> \in compiled[t] THEN NewMonomial(t, new) ELSE 0,
                      DOMAIN compiled)]

\* _has_automatic_regressor_omissions: columns left out that the user did not omit.
AutomaticOmissions == \E r \in CoefficientRoles : chosen[r] # ColumnsOf(r, Requested)

SampleRow(i) == [factors |-> [f \in DOMAIN call.factors |-> call.factors[f][i]],
                 continuous |-> [x \in DOMAIN call.continuous |-> call.continuous[x][i]]]
PredictRegressors ==
  /\ phase = "resolved" /\ predicted = NoAnswerYet
  /\ LET sample == {SampleRow(i) : i \in Obs}
         compiled == Compiled
         good == {new \in NewData \cup sample : \A t \in DOMAIN compiled : KnownCell(t, new)}
         x == {<<new, Rebuilt(new, compiled)>> : new \in good}
     IN \E policy \in Policies, kind \in {"xb", "response"} :
          predicted' = IF \/ kind = "response" /\ AutomaticOmissions
                          \/ policy = "raise" /\ good # NewData \cup sample
                       THEN [how |-> "refused", rows |-> {}]
                       ELSE [how |-> kind, rows |-> x]
  /\ FitOnly /\ UNCHANGED <<saved, recovered>>

PredictionNext == SaveEffects \/ PredictEffects \/ Recover \/ Normalize \/ PredictRegressors

-----------------------------------------------------------------------------
NewDummies(new) ==
  [x \in {Number(<<j, 0>>, v) : j \in FEs, v \in AllRows} |->
     IF \E j \in FEs : x = Number(<<j, 0>>, LevelOf(j, new)) THEN 1 ELSE 0]
FittedDummies == {[x \in {Number(<<j, 0>>, v) : j \in FEs, v \in AllRows} |->
                     IF \E j \in FEs : x = Number(<<j, 0>>, Code(j, i)) THEN 1 ELSE 0] : i \in rows}

\* A new row gets an FE contribution only when every coefficient vector that
\* reproduces the fit gives the same one: its dummies over all requested FEs
\* are in the row space of the sample, although the fit kept coefficients and
\* components of the effective FEs only.  Without a dependency beyond the
\* ordinary shifts no row of the sample is refused
\* (prediction_api.py:134, docs/development/postestimation-0.7.md).
EffectsAreIdentified ==
  /\ \A new \in predicted.rows :
       Echelon(FittedDummies \cup {NewDummies(new)}, 0) = Echelon(FittedDummies, 0)
  /\ Extra(saved.effective) = 0 => InSample \subseteq predicted.rows

\* Normalisation keeps the fitted contribution of every recovered row, a row
\* is recovered wholly or not at all (effects/recover.py:110).
RecoveryKeepsTheFit ==
  \A i \in rows :
    \/ \A j \in FEs : recovered[j][Code(j, i)] = NaN
    \/ /\ \A j \in FEs : recovered[j][Code(j, i)] # NaN
       /\ MapThenSumSet(LAMBDA j : recovered[j][Code(j, i)], FEs)
            = MapThenSumSet(LAMBDA j : Solution(j, Code(j, i)), FEs)

\* Rows of the sample get back the very columns that were estimated, in the
\* order of the coefficients, and a response is given only when the regressors
\* as requested are independent of each other and of the FEs, whoever left a
\* column out (prediction_api.py:66, 154).
RegressorsAreOfTheFit ==
  LET names == FoldLeft(LAMBDA s, r : s \o Listed(chosen[r]), <<>>, Ascending(CoefficientRoles))
      wanted == UNION {ColumnsOf(r, Requested) : r \in CoefficientRoles}
  IN IF predicted.how = "xb"
     THEN \A i \in Obs :
            <<SampleRow(i), [n \in DOMAIN names |-> ColumnOf(names[n][1], names[n][2])[i]]>>
               \in predicted.rows
     ELSE Span(Dummies \cup Values(wanted)) = Span(Dummies) + Cardinality(wanted)

\* Whatever is predicted or recovered after a fit is determined by the fit.
NewRowsAreIdentified ==
  predicted # NoAnswerYet =>
    /\ predicted.how = "fe" => EffectsAreIdentified
    /\ predicted.how = "normalized" => RecoveryKeepsTheFit
    /\ predicted.how \in {"xb", "response"} => RegressorsAreOfTheFit
=============================================================================
