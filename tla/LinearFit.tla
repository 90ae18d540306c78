------------------------------- MODULE LinearFit -------------------------------
(***************************************************************************)
(* olshdfe and ivhdfe from the merged options to the reported result: the  *)
(* projection of response and columns, the omission of collinear columns,  *)
(* the second projection of an ill-conditioned OLS design, the refinement  *)
(* of weak IV controls, and the fit in a stable basis.                     *)
(*                                                                         *)
(* All columns live in one owned buffer.  The response is always a view of *)
(* it; the columns of a role are a view while none of them was omitted and *)
(* a copy afterwards.  A basis change is made in place, in a view as well  *)
(* as in a copy.  Numbers are left out: what is kept of an array is the    *)
(* columns it holds, the projection it came from and its coordinates.      *)
(***************************************************************************)
EXTENDS Integers, FiniteSets, Sequences

CONSTANTS
  LinearCalls,  \* [iv, grouped, native, eligible, plain, allow, raises, columns, tol, field]
  DefaultTol,   \* of the argument and of the config field: equal to it counts as unset
  TightTol,     \* 1e-11; smaller is tighter
  MaxIters,     \* iterations a projection may report
  MaxWeak       \* weak directions of the retained controls

ASSUME LinearAssumption ==
  /\ DefaultTol \in Int /\ TightTol \in Int /\ MaxIters \in Nat \ {0} /\ MaxWeak \in Nat
  /\ \A c \in LinearCalls : c.tol \in Int /\ c.field \in Int /\ "exog" \in DOMAIN c.columns
                          /\ (c.iv => {"endog", "z"} \subseteq DOMAIN c.columns)

VARIABLES
  asked,   \* the call
  point,   \* where it is
  forms,   \* how each role is stored: dense or block
  buffer,  \* the owned buffer: [cols, by, coords]
  cut,     \* role -> its columns when they are a copy, <<>> while they are a view
  solver,  \* [tol, core, kept]: the tolerance the absorber has been given, whether its
           \* first projection compiled a core, and the tolerance that core keeps
  runs,    \* projections so far: [ok, it, tol, coords]
  weak,    \* refinement of the controls: [left, done, ok]
  basis,   \* [id, stage]: the basis the conditioning report names
  answer   \* what the caller gets

linearVars == <<asked, point, forms, buffer, cut, solver, runs, weak, basis, answer>>

Roles == DOMAIN asked.columns
AskedColumns == UNION {asked.columns[r] : r \in Roles}
Raw == 0         \* by: not projected
Own == 0         \* coords: the caller's units
Merged == answer.tol
NewSolver(t) == [tol |-> t, core |-> FALSE, kept |-> t]
NoBasis == [id |-> Own, stage |-> "none"]
NoAnswer == [how |-> "none", tol |-> DefaultTol]
Ends(why) == /\ answer' = [answer EXCEPT !.how = why] /\ point' = "done"

\* The columns of a role as whoever reads them sees them.
Array(r) == IF cut[r] # <<>> THEN cut[r] ELSE [buffer EXCEPT !.cols = buffer.cols \cap asked.columns[r]]
ActiveColumns == UNION {Array(r).cols : r \in Roles}

LinearInit ==
  /\ asked \in LinearCalls /\ point = "bound"
  /\ forms = [r \in Roles |-> "dense"]
  /\ buffer = [cols |-> {}, by |-> Raw, coords |-> Own]
  /\ cut = [r \in Roles |-> <<>>]
  /\ solver = NewSolver(DefaultTol) /\ runs = <<>>
  /\ weak = [left |-> 0, done |-> 0, ok |-> TRUE]
  /\ basis = NoBasis /\ answer = NoAnswer

-----------------------------------------------------------------------------
(* config_precedence: the set side wins, two different set sides conflict. *)

Set(v) == v # DefaultTol
ResolveOverride(value, config) == IF Set(value) \/ ~Set(config) THEN value ELSE config
MergeConfig ==
  /\ point = "bound"
  /\ IF Set(asked.tol) /\ Set(asked.field) /\ asked.tol # asked.field
     THEN Ends("conflict") /\ UNCHANGED solver
     ELSE LET tol == ResolveOverride(asked.tol, asked.field) IN
          /\ answer' = [answer EXCEPT !.tol = tol] /\ solver' = NewSolver(tol)
          /\ point' = "compile"
  /\ UNCHANGED <<asked, forms, buffer, cut, runs, weak, basis>>

-----------------------------------------------------------------------------
(* The designs, and the alignment of their storage.                        *)

Align(f, same) ==
  IF same /\ "block" \in {f[r] : r \in Roles} THEN [r \in Roles |-> "block"]
  ELSE [r \in Roles |-> "dense"]

Compile ==
  /\ point = "compile"
  /\ \E f \in [Roles -> IF asked.native THEN {"dense", "block"} ELSE {"dense"}], same \in BOOLEAN :
       /\ same \/ Cardinality({r \in Roles : f[r] = "block"}) > 1
       /\ forms' = Align(f, same)
  /\ buffer' = [cols |-> AskedColumns, by |-> Raw, coords |-> Own]
  /\ point' = "stacked"
  /\ UNCHANGED <<asked, cut, solver, runs, weak, basis, answer>>

BlockNative == "block" \in {forms[r] : r \in Roles}

-----------------------------------------------------------------------------
(* Projection                                                              *)

Tightened == IF TightTol < solver.tol THEN TightTol ELSE solver.tol

\* Where rows were peeled it is the core that projects, to the tolerance it was
\* compiled with.
RunsAt(s) == IF s.core THEN s.kept ELSE s.tol

\* Ask the solver for all of the buffer; it answers with its worst pool.
Projects(b, tol, ok, it, coords) ==
  /\ runs' = Append(runs, [ok |-> ok, it |-> it, tol |-> tol, coords |-> coords])
  /\ buffer' = [b EXCEPT !.by = Len(runs) + 1]

\* check_absorption, and the restored coordinates of what passes it
Checked(ok, next) == IF ~ok /\ ~asked.allow THEN Ends("unconverged") ELSE point' = next /\ UNCHANGED answer

\* OLS: an ill-conditioned design is transformed before the projection.
ProjectOls ==
  /\ point = "stacked" /\ ~asked.iv /\ ~asked.grouped /\ ~BlockNative
  /\ \E ok \in BOOLEAN, it \in 1..MaxIters, ill \in BOOLEAN, core \in BOOLEAN :
       /\ ill => asked.eligible /\ Cardinality(AskedColumns) >= 2
       /\ core => asked.eligible
       /\ solver' = LET t == IF ill THEN Tightened ELSE solver.tol
                    IN [tol |-> t, core |-> core, kept |-> t]
       /\ basis' = IF ill THEN [id |-> 1, stage |-> "before_absorption"] ELSE NoBasis
       /\ Projects(buffer, RunsAt(solver'), ok, it, basis'.id)
       /\ Checked(ok, "columns")
  /\ UNCHANGED <<asked, forms, cut, weak>>

ProjectIv ==
  /\ point = "stacked" /\ asked.iv /\ ~asked.grouped /\ ~BlockNative
  /\ \E ok \in BOOLEAN, it \in 1..MaxIters :
       Projects(buffer, solver.tol, ok, it, Own) /\ Checked(ok, "columns")
  /\ UNCHANGED <<asked, forms, cut, solver, weak, basis>>

ProjectNative ==
  /\ point = "stacked" /\ BlockNative
  /\ \E ok \in BOOLEAN, it \in 1..MaxIters :
       Projects(buffer, Merged, ok, it, Own) /\ Checked(ok, "columns")
  /\ UNCHANGED <<asked, forms, cut, solver, weak, basis>>

\* Group mode looks at convergence only when the fit is done (FinishGroup).
ProjectGroup ==
  /\ point = "stacked" /\ asked.grouped
  /\ \E ok \in BOOLEAN, it \in 1..MaxIters : Projects(buffer, solver.tol, ok, it, Own)
  /\ point' = "columns"
  /\ UNCHANGED <<asked, forms, cut, solver, weak, basis, answer>>

-----------------------------------------------------------------------------
(* Omitted columns                                                         *)

\* Keep some columns of a role; nothing omitted keeps the view.
Keeps(r, S) == cut' = [cut EXCEPT ![r] = IF S = Array(r).cols THEN @ ELSE [Array(r) EXCEPT !.cols = S]]
Omits(r, S, next) ==
  IF asked.raises /\ S # Array(r).cols THEN Ends("collinear") /\ UNCHANGED cut
  ELSE Keeps(r, S) /\ point' = next /\ UNCHANGED answer

OmitRegressors ==
  /\ point = "columns"
  /\ \E S \in SUBSET Array("exog").cols : Omits("exog", S, IF asked.iv THEN "controls" ELSE "condition")
  /\ UNCHANGED <<asked, forms, buffer, solver, runs, weak, basis>>

OmitEndogenous ==
  /\ point = "endogenous"
  /\ \E S \in SUBSET Array("endog").cols : Omits("endog", S, "instruments")
  /\ UNCHANGED <<asked, forms, buffer, solver, runs, weak, basis>>

OmitInstruments ==
  /\ point = "instruments"
  /\ \E S \in SUBSET Array("z").cols :
       IF S # Array("z").cols /\ asked.raises THEN Ends("collinear") /\ UNCHANGED cut
       ELSE /\ Keeps("z", S)
            /\ LET e == Cardinality(Array("endog").cols) IN
               IF e = 0 \/ Cardinality(S) < e THEN Ends("underidentified")
               ELSE point' = "fit" /\ UNCHANGED answer
  /\ UNCHANGED <<asked, forms, buffer, solver, runs, weak, basis>>

-----------------------------------------------------------------------------
(* refine_iv_control_absorption: one weak direction of the retained        *)
(* controls after the other, in place; the first that is not certified     *)
(* ends the refinement.                                                    *)

Refines_IV == asked.plain /\ ~asked.grouped /\ ~BlockNative /\ Cardinality(Array("exog").cols) >= 2

ScreenControls ==
  /\ point = "controls"
  /\ \E w \in 0..MaxWeak :
       /\ w > 0 => Refines_IV /\ w <= Cardinality(Array("exog").cols)
       /\ weak' = [weak EXCEPT !.left = w]
       /\ point' = IF w = 0 THEN "endogenous" ELSE "refine"
  /\ UNCHANGED <<asked, forms, buffer, cut, solver, runs, basis, answer>>

RefineDirection ==
  /\ point = "refine"
  /\ \E certified \in BOOLEAN :
       /\ weak' = [left |-> IF certified THEN weak.left - 1 ELSE 0,
                   done |-> weak.done + (IF certified THEN 1 ELSE 0), ok |-> certified]
       /\ IF weak'.left > 0 THEN UNCHANGED <<point, answer>> ELSE Checked(certified, "endogenous")
  /\ UNCHANGED <<asked, forms, buffer, cut, solver, runs, basis>>

-----------------------------------------------------------------------------
(* OLS: the retained design may be ill-conditioned only now.  Its original *)
(* columns go through the buffer once more.  The tolerance is assigned to  *)
(* the absorber; a core it compiled keeps its own.                         *)

Rebind_Response == cut' = cut
Rebind == cut' = [r \in Roles |-> <<>>]

Recondition ==
  /\ point = "condition"
  /\ \/ /\ point' = "fit" /\ UNCHANGED <<buffer, cut, solver, runs, basis, answer>>
     \/ /\ asked.eligible /\ ~BlockNative /\ basis = NoBasis /\ Cardinality(ActiveColumns) >= 2
        /\ solver' = [solver EXCEPT !.tol = Tightened]
        /\ \E ok \in BOOLEAN, it \in 1..MaxIters :
             /\ Projects([buffer EXCEPT !.cols = ActiveColumns], RunsAt(solver'), ok, it, 2)
             /\ Checked(ok, "fit")
        /\ Rebind
        /\ basis' = [id |-> 2, stage |-> "after_absorption"]
  /\ UNCHANGED <<asked, forms, weak>>

-----------------------------------------------------------------------------
(* The fit, and the stable coordinates it is made in.                      *)

InCoords(id) ==
  IF cut["exog"] = <<>> THEN buffer' = [buffer EXCEPT !.coords = id] /\ UNCHANGED cut
  ELSE cut' = [cut EXCEPT !["exog"].coords = id] /\ UNCHANGED buffer

\* fit_ols_in_basis; a basis of another width is formed again, and may not be needed
EnterBasis ==
  /\ point = "fit" /\ basis # NoBasis
  /\ \E id \in {Own, basis.id} :
       /\ id = Own => basis.id = 1 /\ ActiveColumns # AskedColumns
       /\ InCoords(id)
  /\ point' = "inside"
  /\ UNCHANGED <<asked, forms, solver, runs, weak, basis, answer>>

\* What is reported of the projections.
InfoOf(n) == [converged |-> runs[n].ok /\ weak.ok,
              iterations |-> IF n = 1 THEN runs[1].it ELSE runs[1].it + runs[2].it]

Result ==
  LET n == Len(runs) IN
  [how |-> "fitted", tol |-> answer.tol, names |-> ActiveColumns, info |-> InfoOf(n), basis |-> basis,
   conditionTol |-> solver.tol]

Fit ==
  /\ \/ point = "fit" /\ basis = NoBasis /\ UNCHANGED <<buffer, cut>>
     \/ point = "inside" /\ InCoords(Own)
  /\ \/ answer' = Result /\ point' = IF asked.grouped THEN "finish" ELSE "done"
     \/ Ends("numerical")
  /\ UNCHANGED <<asked, forms, solver, runs, weak, basis>>

FinishGroup ==
  /\ point = "finish"
  /\ IF ~answer.info.converged /\ ~asked.allow THEN Ends("unconverged")
     ELSE point' = "done" /\ UNCHANGED answer
  /\ UNCHANGED <<asked, forms, buffer, cut, solver, runs, weak, basis>>

LinearNext ==
  \/ MergeConfig \/ Compile
  \/ ProjectOls \/ ProjectIv \/ ProjectNative \/ ProjectGroup
  \/ OmitRegressors \/ ScreenControls \/ RefineDirection \/ OmitEndogenous \/ OmitInstruments
  \/ Recondition \/ EnterBasis \/ Fit \/ FinishGroup
LinearSpec == LinearInit /\ [][LinearNext]_linearVars

-----------------------------------------------------------------------------
\* What the fit reads: response and columns of one projection, the last one,
\* in the caller's units, the columns all retained ones and stored alike.
ReadsOneProjection ==
  /\ Len(runs) > 0 /\ buffer.by = Len(runs)
  /\ \A r \in Roles : Array(r).by = buffer.by /\ Array(r).coords = Own /\ forms[r] = forms["exog"]
  /\ \A r \in Roles : Array(r).cols \subseteq asked.columns[r]

\* What a result says of the projections behind it.  The tolerance reported with
\* a basis is that of its projection, but for a second one that went through the
\* core of the first.
ReportsItsProjection ==
  LET used == runs[buffer.by] IN
  /\ answer.info.converged => used.ok /\ weak.left = 0 /\ weak.ok
  /\ point = "done" /\ ~asked.allow => answer.info.converged
  /\ answer.info.iterations >= used.it
  /\ answer.basis.id = used.coords
  /\ used.tol <= answer.tol
  /\ used.coords # Own =>
       /\ answer.conditionTol <= TightTol
       /\ used.tol = IF solver.core /\ used.coords = 2 THEN runs[1].tol ELSE answer.conditionTol
  /\ answer.names = ActiveColumns

\* A linear fit is made from one whole projection - the buffer the second one
\* overwrites is where the response of the first still was -, its report covers
\* that projection, and the owned design is back in its own units however the
\* fit in stable coordinates ended (models/ols.py:67, 348, models/linear_iv/api.py:323).
FitIsOfOneProjection ==
  /\ point = "fit" => ReadsOneProjection
  /\ answer.how = "fitted" => ReadsOneProjection /\ ReportsItsProjection
  /\ point = "done" => \A r \in Roles : Array(r).coords = Own

\* What the release notes promise: "Triggered fits use an effective absorption
\* tolerance at most 1e-11" (docs/release/migration.md:196).
TriggeredFitsAreTight ==
  answer.how = "fitted" /\ answer.basis # NoBasis => runs[Len(runs)].tol <= TightTol
=============================================================================
