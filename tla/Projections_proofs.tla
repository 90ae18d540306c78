--------------------------- MODULE Projections_proofs ---------------------------
(***************************************************************************)
(* What is fitted is what was projected, and what was projected is right:  *)
(*  1. the linear fit, for any calls, columns and course of projections:   *)
(*     what is fitted and what is reported belong to one projection, the   *)
(*     last one;                                                           *)
(*  2. the inference of an IV fit, for any calls: nothing is told of a fit *)
(*     that was not tested, and everything told is in one unit;            *)
(*  3. the numerical core, for any codes: the peel by sums of indices      *)
(*     implements the order-free one and leaves the greatest stable core;  *)
(*  4. the kernels on that core, for any row index, block width and        *)
(*     interleaving of threads: every cell is centred once, on its level;  *)
(*  5. group mode, for any request: the largest sample, whole under its    *)
(*     new numbers, and one design in either representation.               *)
(*  6. the design compiler, for any request, storage and course: blocks    *)
(*     hold the dense design, and their sums and products are its own.     *)
(***************************************************************************)
EXTENDS LinearFit, IVInference, CoreProjection, GroupIndividual, DesignCompiler,
        Ordering_proofs, SequenceTheorems

-----------------------------------------------------------------------------
(* The linear fit.                                                            *)

Points == {"bound", "compile", "stacked", "columns", "controls", "refine", "endogenous",
           "instruments", "condition", "fit", "inside", "finish", "done"}
Early == {"bound", "compile", "stacked"}
Ended == {"finish", "done"}
Bases == {Own, 1, 2}
ArrayType == [cols : SUBSET AskedColumns, by : Nat, coords : Bases]
BasisType == [id : Bases, stage : {"none", "before_absorption", "after_absorption"}]
RunType == [ok : BOOLEAN, it : Nat, tol : Int, coords : Bases]
SolverType == [tol : Int, core : BOOLEAN, kept : Int]

Typed ==
  /\ asked \in LinearCalls /\ point \in Points
  /\ DOMAIN forms = Roles /\ DOMAIN cut = Roles
  /\ buffer \in ArrayType
  /\ \A r \in Roles : cut[r] = <<>> \/ cut[r] \in ArrayType
  /\ solver \in SolverType /\ runs \in Seq(RunType)
  /\ weak \in [left : Nat, done : Nat, ok : BOOLEAN]
  /\ basis \in BasisType
  /\ {"how", "tol"} \subseteq DOMAIN answer /\ answer.tol \in Int

\* Nothing is projected, compiled, transformed or copied yet.
Untouched == runs = <<>> /\ ~solver.core /\ basis = NoBasis /\ \A r \in Roles : cut[r] = <<>>

\* The copies made since the last projection hold its columns.
OfLastRun ==
  /\ Len(runs) \in {1, 2} /\ buffer.by = Len(runs)
  /\ \A r \in Roles : cut[r] # <<>> => cut[r].by = Len(runs) /\ cut[r].cols \subseteq asked.columns[r]

\* The last projection ran under the tolerance its basis asks for, unless a core
\* of the first one did it, and was accepted by the policy of the call (in group
\* mode only at the end).
Backed ==
  LET used == runs[Len(runs)] IN
  /\ used.tol <= answer.tol /\ used.coords = basis.id
  /\ basis.id # Own =>
       /\ solver.tol <= TightTol
       /\ used.tol = IF solver.core /\ basis.id = 2 THEN runs[1].tol ELSE solver.tol
  /\ solver.core => solver.kept = runs[1].tol
  /\ used.ok \/ asked.allow \/ asked.grouped

RefinementStands ==
  /\ point \in Early \cup {"columns", "controls"} => weak.left = 0 /\ weak.ok
  /\ point = "refine" => weak.left > 0 /\ weak.ok
  /\ point \in Points \ {"refine", "done"} => weak.left = 0 /\ (weak.ok \/ asked.allow)

\* Stable coordinates exist only inside the fit, in the one array of regressors.
CoordinatesStand ==
  /\ point # "inside" => buffer.coords = Own /\ \A r \in Roles : cut[r] # <<>> => cut[r].coords = Own
  /\ point = "inside" =>
       /\ buffer.coords = Own \/ cut["exog"] = <<>>
       /\ \A r \in Roles \ {"exog"} : cut[r] # <<>> => cut[r].coords = Own

FormsAligned == \A r \in Roles : forms[r] = forms["exog"]

AnswerStands ==
  /\ point \notin Ended => answer.how = "none"
  /\ point = "finish" => answer.how = "fitted"
  /\ answer.how = "fitted" => ReadsOneProjection /\ ReportsItsProjection

Progress ==
  /\ point \in Early => Untouched
  /\ point \notin Early \cup {"done"} => OfLastRun /\ Backed
  /\ point \notin {"bound", "compile", "done"} => FormsAligned
  /\ point \notin {"bound", "done"} => solver.tol <= answer.tol
  /\ point \in {"columns", "controls", "refine", "endogenous", "instruments", "condition"} => Len(runs) = 1
  /\ point \in {"controls", "refine", "endogenous", "instruments"} => asked.iv

IInv == Typed /\ Progress /\ RefinementStands /\ CoordinatesStand /\ AnswerStands

-----------------------------------------------------------------------------
\* An array is no empty sequence: it has fields.
LEMMA ArrayIsNoGap == \A a \in ArrayType : a # <<>>
<1> SUFFICES ASSUME NEW a \in ArrayType, a = <<>> PROVE FALSE
  OBVIOUS
<1>1. "cols" \in DOMAIN a
  BY DEF ArrayType
<1>2. DOMAIN <<>> = {}
  OBVIOUS
<1> QED
  BY <1>1, <1>2

LEMMA SameCall ==
  ASSUME asked' = asked
  PROVE  Roles' = Roles /\ AskedColumns' = AskedColumns /\ ArrayType' = ArrayType
  BY DEF Roles, AskedColumns, ArrayType

LEMMA CallFacts ==
  ASSUME Typed
  PROVE  asked.tol \in Int /\ asked.field \in Int /\ "exog" \in Roles
         /\ (asked.iv => {"endog", "z"} \subseteq Roles)
         /\ DefaultTol \in Int /\ TightTol \in Int
  BY LinearAssumption DEF Typed, Roles

\* What a reader of a role sees.
LEMMA ArrayFacts ==
  ASSUME Typed, NEW r \in Roles
  PROVE  /\ Array(r) \in ArrayType
         /\ cut[r] = <<>> => /\ Array(r).cols = buffer.cols \cap asked.columns[r]
                             /\ Array(r).by = buffer.by /\ Array(r).coords = buffer.coords
         /\ cut[r] # <<>> => Array(r) = cut[r]
  BY DEF Typed, Array, ArrayType

LEMMA ActiveAsked == ASSUME Typed PROVE ActiveColumns \subseteq AskedColumns
  BY ArrayFacts DEF ActiveColumns, ArrayType

\* A projection that is whole, aligned and in the caller's units can be read.
InCallersUnits == buffer.coords = Own /\ \A r \in Roles : cut[r] # <<>> => cut[r].coords = Own
LEMMA WholeIsReadable == Typed /\ OfLastRun /\ FormsAligned /\ InCallersUnits => ReadsOneProjection
<1> SUFFICES ASSUME Typed, OfLastRun, FormsAligned, InCallersUnits PROVE ReadsOneProjection
  OBVIOUS
<1>1. ASSUME NEW r \in Roles
      PROVE  /\ Array(r).by = buffer.by /\ Array(r).coords = Own
             /\ Array(r).cols \subseteq asked.columns[r]
  <2>1. CASE cut[r] = <<>>
    BY <2>1, ArrayFacts DEF InCallersUnits
  <2>2. CASE cut[r] # <<>>
    BY <2>2, ArrayFacts DEF OfLastRun, InCallersUnits
  <2> QED
    BY <2>1, <2>2
<1> QED
  BY <1>1 DEF ReadsOneProjection, OfLastRun, FormsAligned

LEMMA SameColumns ==
  ASSUME Typed, asked' = asked, buffer' \in ArrayType, buffer'.cols = buffer.cols,
         \A r \in Roles : /\ (cut'[r] = <<>>) <=> (cut[r] = <<>>)
                          /\ cut[r] # <<>> => cut'[r].cols = cut[r].cols
  PROVE  ActiveColumns' = ActiveColumns
<1>1. ASSUME NEW r \in Roles PROVE Array(r)'.cols = Array(r).cols
  <2>1. CASE cut[r] = <<>>
    <3>1. Array(r).cols = buffer.cols \cap asked.columns[r]
      BY <2>1, ArrayFacts
    <3>2. Array(r)' = [buffer' EXCEPT !.cols = buffer'.cols \cap asked.columns[r]]
      BY <2>1 DEF Array
    <3>3. Array(r)'.cols = buffer'.cols \cap asked.columns[r]
      BY <3>2 DEF ArrayType
    <3> QED
      BY <3>1, <3>3
  <2>2. CASE cut[r] # <<>>
    <3>1. Array(r) = cut[r] /\ Array(r)' = cut'[r]
      BY <2>2 DEF Array
    <3> QED
      BY <2>2, <3>1
  <2> QED
    BY <2>1, <2>2
<1>2. Roles' = Roles
  BY SameCall
<1>3. \A r \in Roles : Array(r)'.cols = Array(r).cols
  BY <1>1
<1>4. ActiveColumns' = UNION {Array(r)'.cols : r \in Roles}
  BY <1>2 DEF ActiveColumns
<1> QED
  BY <1>3, <1>4 DEF ActiveColumns

-----------------------------------------------------------------------------
LEMMA Initially == LinearInit => IInv
<1> SUFFICES ASSUME LinearInit PROVE IInv
  OBVIOUS
<1>1. DOMAIN forms = Roles /\ DOMAIN cut = Roles /\ \A r \in Roles : cut[r] = <<>>
  BY DEF LinearInit
<1>2. buffer \in ArrayType /\ basis \in BasisType
  <2>1. buffer = [cols |-> {}, by |-> 0, coords |-> 0] /\ basis = [id |-> 0, stage |-> "none"]
    BY DEF LinearInit, NoBasis, Own, Raw
  <2>2. {} \in SUBSET AskedColumns /\ 0 \in Bases
    BY DEF Bases, Own
  <2> QED
    BY <2>1, <2>2 DEF ArrayType, BasisType
<1>3. runs \in Seq(RunType)
  BY DEF LinearInit
<1>4. answer.how = "none" /\ answer.tol = DefaultTol /\ DOMAIN answer = {"how", "tol"}
  BY DEF LinearInit, NoAnswer
<1>5. Typed
  BY <1>1, <1>2, <1>3, <1>4, LinearAssumption DEF LinearInit, Typed, Points, NewSolver, SolverType
<1>6. Progress
  BY <1>1 DEF LinearInit, Progress, Untouched, Early, NewSolver
<1>7. RefinementStands /\ CoordinatesStand /\ AnswerStands
  BY <1>1, <1>4 DEF LinearInit, RefinementStands, CoordinatesStand, AnswerStands, Early, Ended, Own
<1> QED
  BY <1>5, <1>6, <1>7 DEF IInv

-----------------------------------------------------------------------------
(* Steps                                                                     *)

LEMMA StaysTyped ==
  ASSUME Typed, asked' = asked, point' \in Points, DOMAIN forms' = Roles, DOMAIN cut' = Roles,
         buffer' \in ArrayType, \A r \in Roles : cut'[r] = <<>> \/ cut'[r] \in ArrayType,
         solver' \in SolverType, runs' \in Seq(RunType),
         weak' \in [left : Nat, done : Nat, ok : BOOLEAN], basis' \in BasisType,
         {"how", "tol"} \subseteq DOMAIN answer', answer'.tol \in Int
  PROVE  Typed'
<1>1. Roles' = Roles /\ ArrayType' = ArrayType /\ asked' \in LinearCalls
  BY SameCall DEF Typed
<1> QED
  BY <1>1 DEF Typed

\* A call that is refused leaves its arrays in the caller's units.
LEMMA RefusalStands ==
  ASSUME Typed, asked' = asked, Typed', point' = "done", answer'.how # "fitted",
         buffer'.coords = Own, \A r \in Roles : cut'[r] # <<>> => cut'[r].coords = Own
  PROVE  IInv'
<1>1. Roles' = Roles
  BY SameCall
<1>2. Progress' /\ RefinementStands'
  BY DEF Progress, RefinementStands, Early
<1>3. CoordinatesStand'
  BY <1>1 DEF CoordinatesStand
<1>4. AnswerStands'
  BY DEF AnswerStands, Ended
<1> QED
  BY <1>2, <1>3, <1>4 DEF IInv

LEMMA EndsFacts ==
  ASSUME Typed, NEW why, Ends(why)
  PROVE  /\ point' = "done" /\ answer'.how = why /\ answer'.tol = answer.tol
         /\ {"how", "tol"} \subseteq DOMAIN answer'
  BY DEF Ends, Typed

LEMMA MergeSteps == ASSUME IInv, MergeConfig PROVE IInv'
<1>1. /\ point = "bound" /\ UNCHANGED <<asked, forms, buffer, cut, runs, weak, basis>>
  BY DEF MergeConfig
<1>2. Typed /\ Untouched /\ weak.left = 0 /\ weak.ok /\ buffer.coords = Own
  BY <1>1 DEF IInv, Progress, RefinementStands, CoordinatesStand, Early
<1>3. CASE Ends("conflict") /\ UNCHANGED solver
  <2>1. Typed'
    BY <1>1, <1>2, <1>3, EndsFacts, StaysTyped DEF Typed, Points
  <2> QED
    BY <1>1, <1>2, <1>3, <2>1, EndsFacts, RefusalStands DEF Untouched
<1>4. ASSUME NEW tol, tol = ResolveOverride(asked.tol, asked.field),
             answer' = [answer EXCEPT !.tol = tol], solver' = NewSolver(tol), point' = "compile"
      PROVE  IInv'
  <2>1. tol \in Int
    BY <1>2, <1>4, CallFacts DEF ResolveOverride, Set
  <2>2. answer'.tol = tol /\ answer'.how = "none" /\ DOMAIN answer' = DOMAIN answer
    BY <1>1, <1>2, <1>4 DEF Typed, IInv, AnswerStands, Ended
  <2>3. solver' \in SolverType /\ solver'.tol = tol /\ ~solver'.core
    BY <1>4, <2>1 DEF NewSolver, SolverType
  <2>4. Typed'
    BY <1>1, <1>2, <1>4, <2>1, <2>2, <2>3, StaysTyped DEF Typed, Points
  <2>5. Progress'
    BY <1>1, <1>2, <1>4, <2>1, <2>2, <2>3, SameCall DEF Progress, Untouched, Early
  <2>6. RefinementStands'
    BY <1>1, <1>2, <1>4 DEF RefinementStands, Early
  <2>7. CoordinatesStand'
    BY <1>1, <1>2, <1>4, SameCall DEF CoordinatesStand, Untouched
  <2>8. AnswerStands'
    BY <1>4, <2>2 DEF AnswerStands, Ended
  <2> QED
    BY <2>4, <2>5, <2>6, <2>7, <2>8 DEF IInv
<1> QED
  BY <1>3, <1>4 DEF MergeConfig

LEMMA AlignFacts ==
  ASSUME NEW f, NEW same
  PROVE  /\ DOMAIN Align(f, same) = Roles
         /\ \A r, s \in Roles : Align(f, same)[r] = Align(f, same)[s]
  BY DEF Align

LEMMA CompileSteps == ASSUME IInv, Compile PROVE IInv'
<1>1. /\ point = "compile" /\ point' = "stacked"
      /\ UNCHANGED <<asked, cut, solver, runs, weak, basis, answer>>
      /\ buffer' = [cols |-> AskedColumns, by |-> Raw, coords |-> Own]
  BY DEF Compile
<1>2. Typed /\ Untouched /\ weak.left = 0 /\ weak.ok /\ solver.tol <= answer.tol /\ answer.how = "none"
  BY <1>1 DEF IInv, Progress, RefinementStands, AnswerStands, Early, Ended
<1>3. PICK f, same : forms' = Align(f, same)
  BY DEF Compile
<1>4. DOMAIN forms' = Roles /\ \A r, s \in Roles : forms'[r] = forms'[s]
  BY <1>3, AlignFacts
<1>5. buffer' \in ArrayType /\ buffer'.coords = Own
  BY <1>1 DEF ArrayType, Raw, Bases
<1>6. Typed'
  BY <1>1, <1>2, <1>4, <1>5, StaysTyped DEF Typed, Points
<1>7. FormsAligned'
  BY <1>1, <1>2, <1>4, SameCall, CallFacts DEF FormsAligned
<1>8. Progress'
  BY <1>1, <1>2, <1>7, SameCall DEF Progress, Untouched, Early
<1>9. RefinementStands' /\ CoordinatesStand' /\ AnswerStands'
  BY <1>1, <1>2, <1>5, SameCall
     DEF RefinementStands, CoordinatesStand, AnswerStands, Untouched, Early, Ended
<1> QED
  BY <1>6, <1>8, <1>9 DEF IInv

-----------------------------------------------------------------------------
(* Projections                                                               *)

LEMMA TightenedFacts ==
  ASSUME Typed
  PROVE  Tightened \in Int /\ Tightened <= TightTol /\ Tightened <= solver.tol
  BY CallFacts DEF Tightened, Typed, SolverType

LEMMA ProjectsFacts ==
  ASSUME Typed, NEW b \in ArrayType, NEW tol \in Int, NEW ok \in BOOLEAN, NEW it \in 1..MaxIters,
         NEW coords \in Bases, Projects(b, tol, ok, it, coords)
  PROVE  /\ runs' \in Seq(RunType) /\ Len(runs') = Len(runs) + 1 /\ buffer' \in ArrayType
         /\ buffer'.cols = b.cols /\ buffer'.by = Len(runs') /\ buffer'.coords = b.coords
         /\ runs'[Len(runs')] = [ok |-> ok, it |-> it, tol |-> tol, coords |-> coords]
         /\ \A k \in 1..Len(runs) : runs'[k] = runs[k]
<1>1. [ok |-> ok, it |-> it, tol |-> tol, coords |-> coords] \in RunType
  BY LinearAssumption DEF RunType
<1>2. runs \in Seq(RunType) /\ Len(runs) + 1 \in Nat
  BY DEF Typed
<1>3. /\ runs' \in Seq(RunType) /\ Len(runs') = Len(runs) + 1
      /\ runs'[Len(runs')] = [ok |-> ok, it |-> it, tol |-> tol, coords |-> coords]
      /\ \A k \in 1..Len(runs) : runs'[k] = runs[k]
  BY <1>1, <1>2 DEF Projects
<1>4. buffer' = [b EXCEPT !.by = Len(runs) + 1]
  BY DEF Projects
<1> QED
  BY <1>2, <1>3, <1>4 DEF ArrayType

\* The first projection, of untouched columns, under a basis or none.
LEMMA FirstProjection ==
  ASSUME IInv, point = "stacked", NEW tol \in Int, NEW ok \in BOOLEAN, NEW it \in 1..MaxIters,
         Projects(buffer, tol, ok, it, basis'.id), UNCHANGED <<asked, forms, cut, weak>>,
         basis' \in BasisType, solver' \in SolverType,
         solver'.tol <= answer.tol, tol <= answer.tol,
         basis'.id # Own => solver'.tol <= TightTol /\ tol = solver'.tol,
         solver'.core => solver'.kept = tol,
         \/ asked.grouped /\ point' = "columns" /\ UNCHANGED answer
         \/ Checked(ok, "columns")
  PROVE  IInv'
<1>1. Typed /\ Untouched /\ FormsAligned /\ answer.how = "none" /\ weak.left = 0 /\ weak.ok
      /\ buffer.coords = Own /\ buffer \in ArrayType
  BY DEF IInv, Progress, RefinementStands, AnswerStands, CoordinatesStand, Typed, Early, Ended
<1>2. /\ runs' \in Seq(RunType) /\ Len(runs') = 1 /\ buffer' \in ArrayType
      /\ buffer'.by = 1 /\ buffer'.coords = Own
      /\ runs'[Len(runs')] = [ok |-> ok, it |-> it, tol |-> tol, coords |-> basis'.id]
  BY <1>1, ProjectsFacts DEF Untouched, BasisType
<1>3. CASE point' = "done" /\ Ends("unconverged")
  <2>1. Typed'
    BY <1>1, <1>2, <1>3, EndsFacts, StaysTyped DEF Typed, Points
  <2> QED
    BY <1>1, <1>2, <1>3, <2>1, EndsFacts, RefusalStands DEF Untouched
<1>4. CASE point' = "columns" /\ UNCHANGED answer /\ (ok \/ asked.allow \/ asked.grouped)
  <2>1. Typed'
    BY <1>1, <1>2, <1>4, StaysTyped DEF Typed, Points
  <2>2. Backed' /\ OfLastRun' /\ FormsAligned'
    BY <1>1, <1>2, <1>4, SameCall DEF Backed, OfLastRun, Untouched, FormsAligned
  <2>3. Progress'
    BY <1>2, <1>4, <2>2 DEF Progress, Early
  <2>4. RefinementStands' /\ CoordinatesStand' /\ AnswerStands'
    BY <1>1, <1>2, <1>4, SameCall
       DEF RefinementStands, CoordinatesStand, AnswerStands, Untouched, Early, Ended
  <2> QED
    BY <2>1, <2>3, <2>4 DEF IInv
<1> QED
  BY <1>3, <1>4 DEF Checked, Ends

LEMMA OlsSteps == ASSUME IInv, ProjectOls PROVE IInv'
<1> PICK ok \in BOOLEAN, it \in 1..MaxIters, ill \in BOOLEAN, core \in BOOLEAN :
       /\ solver' = LET t == IF ill THEN Tightened ELSE solver.tol
                    IN [tol |-> t, core |-> core, kept |-> t]
       /\ basis' = IF ill THEN [id |-> 1, stage |-> "before_absorption"] ELSE NoBasis
       /\ Projects(buffer, RunsAt(solver'), ok, it, basis'.id)
       /\ Checked(ok, "columns")
  BY DEF ProjectOls
<1> DEFINE t == IF ill THEN Tightened ELSE solver.tol
<1>1. point = "stacked" /\ UNCHANGED <<asked, forms, cut, weak>>
  BY DEF ProjectOls
<1>2. /\ Typed /\ solver.tol \in Int /\ answer.tol \in Int /\ TightTol \in Int
      /\ solver.tol <= answer.tol
  BY <1>1, CallFacts DEF IInv, Typed, Progress, SolverType
<1>3. t \in Int /\ t <= answer.tol /\ (ill => t <= TightTol)
  <2> DEFINE u == Tightened
  <2>1. u \in Int /\ u <= TightTol /\ u <= solver.tol
    BY <1>2, TightenedFacts
  <2>2. t = IF ill THEN u ELSE solver.tol
    OBVIOUS
  <2> HIDE DEF u, t
  <2> QED
    BY <1>2, <2>1, <2>2
<1>4. solver' = [tol |-> t, core |-> core, kept |-> t]
  OBVIOUS
<1> HIDE DEF t
<1>5. /\ solver' \in SolverType /\ solver'.tol = t /\ solver'.kept = t /\ RunsAt(solver') = t
      /\ basis' \in BasisType /\ (basis'.id # Own => ill)
  BY <1>3, <1>4 DEF Bases, Own, NoBasis, BasisType, SolverType, RunsAt
<1> QED
  BY <1>1, <1>3, <1>5, FirstProjection

LEMMA IvSteps == ASSUME IInv, ProjectIv \/ ProjectNative \/ ProjectGroup PROVE IInv'
<1>1. /\ point = "stacked" /\ UNCHANGED <<asked, forms, cut, weak, solver, basis>>
  BY DEF ProjectIv, ProjectNative, ProjectGroup
<1>2. /\ Typed /\ basis.id = Own /\ basis \in BasisType /\ ~solver.core
      /\ solver \in SolverType /\ answer.tol \in Int /\ solver.tol <= answer.tol
  BY <1>1 DEF IInv, Typed, Progress, Untouched, NoBasis, Early
<1>3. PICK ok \in BOOLEAN, it \in 1..MaxIters, tol \in {solver.tol, answer.tol} :
        /\ Projects(buffer, tol, ok, it, Own)
        /\ \/ asked.grouped /\ point' = "columns" /\ UNCHANGED answer
           \/ Checked(ok, "columns")
  BY DEF ProjectIv, ProjectNative, ProjectGroup, Merged
<1>4. tol \in Int /\ tol <= answer.tol
  BY <1>2, <1>3 DEF SolverType
<1> QED
  BY <1>1, <1>2, <1>3, <1>4, FirstProjection

-----------------------------------------------------------------------------
(* Omission and refinement: between two projections                          *)

Between == {"columns", "controls", "refine", "endogenous", "instruments", "condition"}

LEMMA BetweenFacts ==
  ASSUME IInv, point \in Between
  PROVE  /\ Typed /\ OfLastRun /\ Backed /\ FormsAligned /\ Len(runs) = 1 /\ answer.how = "none"
         /\ solver.tol <= answer.tol /\ buffer.coords = Own
         /\ \A r \in Roles : cut[r] # <<>> => cut[r].coords = Own
  BY DEF IInv, Progress, AnswerStands, CoordinatesStand, Between, Early, Ended

\* Taking some columns of a role keeps them a part of the last projection.
LEMMA KeepsFacts ==
  ASSUME IInv, point \in Between, NEW r \in Roles, NEW S \in SUBSET Array(r).cols, Keeps(r, S),
         asked' = asked, buffer' = buffer, runs' = runs
  PROVE  /\ DOMAIN cut' = Roles
         /\ \A s \in Roles : cut'[s] = <<>> \/ cut'[s] \in ArrayType
         /\ \A s \in Roles : cut'[s] # <<>> => cut'[s].coords = Own
         /\ OfLastRun'
<1> DEFINE a == Array(r)
           left == [a EXCEPT !.cols = S]
<1>1. /\ Typed /\ OfLastRun /\ buffer.coords = Own
      /\ \A s \in Roles : cut[s] # <<>> => cut[s].coords = Own
  BY BetweenFacts
<1>2. a \in ArrayType /\ a.by = Len(runs) /\ a.coords = Own /\ a.cols \subseteq asked.columns[r]
      /\ S \subseteq a.cols
  <2>1. CASE cut[r] = <<>>
    BY <1>1, <2>1, ArrayFacts DEF OfLastRun
  <2>2. CASE cut[r] # <<>>
    BY <1>1, <2>2, ArrayFacts DEF OfLastRun
  <2> QED
    BY <2>1, <2>2
<1>3. /\ left \in ArrayType /\ left.by = Len(runs) /\ left.coords = Own
      /\ left.cols \subseteq asked.columns[r]
  <2> HIDE DEF a
  <2> QED
    BY <1>2 DEF ArrayType
<1>4. cut' = [cut EXCEPT ![r] = IF S = a.cols THEN cut[r] ELSE left]
  BY DEF Keeps
<1> HIDE DEF left, a
<1>5. DOMAIN cut' = Roles /\ \A s \in Roles : cut'[s] = cut[s] \/ (s = r /\ cut'[s] = left)
  BY <1>1, <1>4 DEF Typed
<1>6. \A s \in Roles : cut'[s] = <<>> \/ cut'[s] \in ArrayType
  BY <1>1, <1>3, <1>5 DEF Typed
<1>7. \A s \in Roles : cut'[s] # <<>> =>
        cut'[s].coords = Own /\ cut'[s].by = Len(runs) /\ cut'[s].cols \subseteq asked.columns[s]
  BY <1>1, <1>3, <1>5 DEF OfLastRun
<1>8. OfLastRun'
  BY <1>1, <1>7, SameCall DEF OfLastRun
<1> QED
  BY <1>5, <1>6, <1>7, <1>8

\* A step that keeps the projection goes on, or refuses the call.
LEMMA GoesOn ==
  ASSUME IInv, point \in Between, Typed', RefinementStands', OfLastRun',
         UNCHANGED <<asked, forms, buffer, solver, runs, basis, answer>>,
         \A r \in Roles : cut'[r] # <<>> => cut'[r].coords = Own,
         \/ point' \in {"controls", "refine", "endogenous", "instruments"} /\ asked.iv
         \/ point' \in {"condition", "fit"}
  PROVE  IInv'
<1>1. /\ Backed /\ FormsAligned /\ Len(runs) = 1 /\ answer.how = "none"
      /\ solver.tol <= answer.tol /\ buffer.coords = Own
  BY BetweenFacts
<1>2. Progress'
  BY <1>1, SameCall DEF Progress, Backed, FormsAligned, Between, Early
<1>3. CoordinatesStand' /\ AnswerStands'
  BY <1>1, SameCall DEF CoordinatesStand, AnswerStands, Between, Ended
<1> QED
  BY <1>2, <1>3 DEF IInv

LEMMA Refused ==
  ASSUME IInv, point \in Between, NEW why \in {"unconverged", "collinear", "underidentified"}, Ends(why),
         UNCHANGED <<asked, forms, buffer, solver, runs, basis>>,
         weak' \in [left : Nat, done : Nat, ok : BOOLEAN],
         DOMAIN cut' = Roles, \A s \in Roles : cut'[s] = <<>> \/ cut'[s] \in ArrayType,
         \A s \in Roles : cut'[s] # <<>> => cut'[s].coords = Own
  PROVE  IInv'
<1>1. Typed /\ buffer.coords = Own
  BY BetweenFacts
<1>2. Typed'
  BY <1>1, EndsFacts, StaysTyped DEF Typed, Points
<1> QED
  BY <1>1, <1>2, EndsFacts, RefusalStands

LEMMA OmitSteps == ASSUME IInv, OmitRegressors \/ OmitEndogenous PROVE IInv'
<1>0. PICK r \in {"exog", "endog"}, next \in {"controls", "condition", "instruments"} :
        /\ \E S \in SUBSET Array(r).cols : Omits(r, S, next)
        /\ point = (IF r = "exog" THEN "columns" ELSE "endogenous")
        /\ next = (IF r = "endog" THEN "instruments" ELSE IF asked.iv THEN "controls" ELSE "condition")
        /\ UNCHANGED <<asked, forms, buffer, solver, runs, weak, basis>>
  BY DEF OmitRegressors, OmitEndogenous
<1>1. PICK S \in SUBSET Array(r).cols : Omits(r, S, next)
  BY <1>0
<1>2. /\ point \in {"columns", "endogenous"} /\ point \in Between
      /\ (r = "endog" => asked.iv) /\ (next # "condition" => asked.iv)
  BY <1>0 DEF Between, IInv, Progress
<1>3. Typed /\ weak.left = 0 /\ (weak.ok \/ asked.allow) /\ weak \in [left : Nat, done : Nat, ok : BOOLEAN]
      /\ (point = "columns" => weak.ok) /\ \A s \in Roles : cut[s] # <<>> => cut[s].coords = Own
  BY <1>2, BetweenFacts DEF IInv, RefinementStands, Points, Typed
<1>4. CASE Ends("collinear") /\ UNCHANGED cut
  BY <1>0, <1>1, <1>2, <1>3, <1>4, Refused DEF Typed
<1>5. CASE Keeps(r, S) /\ point' = next /\ UNCHANGED answer
  <2>1. r \in Roles
    BY <1>2, <1>3, CallFacts
  <2>2. /\ DOMAIN cut' = Roles
        /\ \A s \in Roles : cut'[s] = <<>> \/ cut'[s] \in ArrayType
        /\ \A s \in Roles : cut'[s] # <<>> => cut'[s].coords = Own
        /\ OfLastRun'
    BY <1>0, <1>1, <1>2, <1>5, <2>1, KeepsFacts
  <2>3. Typed'
    BY <1>0, <1>1, <1>3, <1>5, <2>2, StaysTyped DEF Typed, Points
  <2>4. RefinementStands'
    BY <1>0, <1>1, <1>3, <1>5 DEF RefinementStands, Early
  <2> QED
    BY <1>0, <1>1, <1>2, <1>5, <2>2, <2>3, <2>4, GoesOn
<1> QED
  BY <1>0, <1>1, <1>4, <1>5 DEF Omits

LEMMA InstrumentSteps == ASSUME IInv, OmitInstruments PROVE IInv'
<1>1. PICK S \in SUBSET Array("z").cols :
        \/ Ends("collinear") /\ UNCHANGED cut
        \/ /\ Keeps("z", S)
           /\ Ends("underidentified") \/ (point' = "fit" /\ UNCHANGED answer)
  BY DEF OmitInstruments
<1>2. /\ point = "instruments" /\ point \in Between /\ asked.iv
      /\ UNCHANGED <<asked, forms, buffer, solver, runs, weak, basis>>
  BY DEF OmitInstruments, Between, IInv, Progress
<1>3. Typed /\ weak.left = 0 /\ (weak.ok \/ asked.allow) /\ weak \in [left : Nat, done : Nat, ok : BOOLEAN]
      /\ "z" \in Roles /\ \A s \in Roles : cut[s] # <<>> => cut[s].coords = Own
  BY <1>2, BetweenFacts, CallFacts DEF IInv, RefinementStands, Points, Typed
<1>4. CASE Ends("collinear") /\ UNCHANGED cut
  BY <1>2, <1>3, <1>4, Refused DEF Typed
<1>5. CASE Keeps("z", S)
  <2>1. /\ DOMAIN cut' = Roles
        /\ \A s \in Roles : cut'[s] = <<>> \/ cut'[s] \in ArrayType
        /\ \A s \in Roles : cut'[s] # <<>> => cut'[s].coords = Own
        /\ OfLastRun'
    BY <1>2, <1>3, <1>5, KeepsFacts
  <2>2. CASE Ends("underidentified")
    BY <1>2, <1>3, <2>1, <2>2, Refused
  <2>3. CASE point' = "fit" /\ UNCHANGED answer
    <3>1. Typed'
      BY <1>2, <1>3, <2>1, <2>3, StaysTyped DEF Typed, Points
    <3>2. RefinementStands'
      BY <1>2, <1>3, <2>3 DEF RefinementStands, Early
    <3> QED
      BY <1>2, <2>1, <2>3, <3>1, <3>2, GoesOn
  <2>4. CASE Ends("collinear") /\ UNCHANGED cut
    BY <1>4, <2>4
  <2> QED
    BY <1>1, <2>2, <2>3, <2>4
<1> QED
  BY <1>1, <1>4, <1>5

LEMMA ScreenSteps == ASSUME IInv, ScreenControls PROVE IInv'
<1>1. PICK w \in 0..MaxWeak : /\ weak' = [weak EXCEPT !.left = w]
                              /\ point' = IF w = 0 THEN "endogenous" ELSE "refine"
  BY DEF ScreenControls
<1>2. /\ point = "controls" /\ point \in Between /\ asked.iv /\ w \in Nat
      /\ UNCHANGED <<asked, forms, buffer, cut, solver, runs, basis, answer>>
  BY LinearAssumption DEF ScreenControls, Between, IInv, Progress
<1>3. /\ Typed /\ OfLastRun /\ weak.ok /\ weak \in [left : Nat, done : Nat, ok : BOOLEAN]
      /\ \A s \in Roles : cut[s] # <<>> => cut[s].coords = Own
  BY <1>2, BetweenFacts DEF IInv, RefinementStands, Typed
<1>4. weak' \in [left : Nat, done : Nat, ok : BOOLEAN] /\ weak'.left = w /\ weak'.ok
  BY <1>1, <1>2, <1>3
<1>5. Typed'
  BY <1>1, <1>2, <1>3, <1>4, StaysTyped DEF Typed, Points
<1>6. OfLastRun' /\ RefinementStands'
  BY <1>1, <1>2, <1>3, <1>4, SameCall DEF OfLastRun, RefinementStands, Early
<1> QED
  BY <1>1, <1>2, <1>3, <1>5, <1>6, SameCall, GoesOn

LEMMA RefineSteps == ASSUME IInv, RefineDirection PROVE IInv'
<1>1. PICK certified \in BOOLEAN :
        /\ weak' = [left |-> IF certified THEN weak.left - 1 ELSE 0,
                    done |-> weak.done + (IF certified THEN 1 ELSE 0), ok |-> certified]
        /\ IF weak'.left > 0 THEN UNCHANGED <<point, answer>> ELSE Checked(certified, "endogenous")
  BY DEF RefineDirection
<1>2. /\ point = "refine" /\ point \in Between /\ asked.iv
      /\ UNCHANGED <<asked, forms, buffer, cut, solver, runs, basis>>
  BY DEF RefineDirection, Between, IInv, Progress
<1>3. /\ Typed /\ OfLastRun /\ weak.left > 0 /\ weak \in [left : Nat, done : Nat, ok : BOOLEAN]
      /\ \A s \in Roles : cut[s] # <<>> => cut[s].coords = Own
  BY <1>2, BetweenFacts DEF IInv, RefinementStands, Typed
<1>4. /\ weak' \in [left : Nat, done : Nat, ok : BOOLEAN] /\ weak'.ok = certified
      /\ ~certified => weak'.left = 0
  BY <1>1, <1>3
<1>5. CASE Ends("unconverged")
  BY <1>2, <1>3, <1>4, <1>5, Refused DEF Typed
<1>6. CASE UNCHANGED <<point, answer>> /\ weak'.left > 0
  <2>1. Typed'
    BY <1>2, <1>3, <1>4, <1>6, StaysTyped DEF Typed
  <2>2. OfLastRun' /\ RefinementStands'
    BY <1>2, <1>3, <1>4, <1>6, SameCall DEF OfLastRun, RefinementStands, Early
  <2> QED
    BY <1>2, <1>3, <1>6, <2>1, <2>2, SameCall, GoesOn
<1>7. CASE point' = "endogenous" /\ UNCHANGED answer /\ (certified \/ asked.allow) /\ ~(weak'.left > 0)
  <2>1. Typed'
    BY <1>2, <1>3, <1>4, <1>7, StaysTyped DEF Typed, Points
  <2>2. weak'.left = 0
    BY <1>4, <1>7
  <2>3. OfLastRun' /\ RefinementStands'
    BY <1>2, <1>3, <1>4, <1>7, <2>2, SameCall DEF OfLastRun, RefinementStands, Early
  <2> QED
    BY <1>2, <1>3, <1>7, <2>1, <2>3, SameCall, GoesOn
<1> QED
  BY <1>1, <1>5, <1>6, <1>7 DEF Checked

-----------------------------------------------------------------------------
(* The second projection, and the fit                                        *)

LEMMA ReconditionSteps == ASSUME IInv, Recondition PROVE IInv'
<1>1. /\ point = "condition" /\ point \in Between /\ UNCHANGED <<asked, forms, weak>>
  BY DEF Recondition, Between
<1>2. /\ Typed /\ OfLastRun /\ Backed /\ FormsAligned /\ Len(runs) = 1 /\ answer.how = "none"
      /\ solver.tol <= answer.tol /\ buffer.coords = Own
      /\ \A r \in Roles : cut[r] # <<>> => cut[r].coords = Own
  BY <1>1, BetweenFacts
<1>3. /\ weak.left = 0 /\ (weak.ok \/ asked.allow)
      /\ solver \in SolverType /\ answer.tol \in Int /\ TightTol \in Int /\ buffer \in ArrayType
      /\ runs[1] \in RunType
  <2>1. runs \in Seq(RunType) /\ 1 \in 1..Len(runs)
    BY <1>2 DEF Typed
  <2>2. runs[1] \in RunType
    BY <2>1
  <2> QED
    BY <1>1, <1>2, <2>2, CallFacts DEF IInv, RefinementStands, Points, Typed
<1>4. CASE point' = "fit" /\ UNCHANGED <<buffer, cut, solver, runs, basis, answer>>
  <2>1. Typed'
    BY <1>1, <1>2, <1>4, StaysTyped DEF Typed, Points
  <2>2. OfLastRun' /\ RefinementStands'
    BY <1>1, <1>2, <1>3, <1>4, SameCall DEF OfLastRun, RefinementStands, Early
  <2> QED
    BY <1>1, <1>2, <1>4, <2>1, <2>2, SameCall, GoesOn
<1>5. CASE /\ solver' = [solver EXCEPT !.tol = Tightened]
           /\ \E ok \in BOOLEAN, it \in 1..MaxIters :
                /\ Projects([buffer EXCEPT !.cols = ActiveColumns], RunsAt(solver'), ok, it, 2)
                /\ Checked(ok, "fit")
           /\ cut' = [r \in Roles |-> <<>>]
           /\ basis' = [id |-> 2, stage |-> "after_absorption"]
  <2> PICK ok \in BOOLEAN, it \in 1..MaxIters :
        /\ Projects([buffer EXCEPT !.cols = ActiveColumns], RunsAt(solver'), ok, it, 2)
        /\ Checked(ok, "fit")
    BY <1>5
  <2> DEFINE b == [buffer EXCEPT !.cols = ActiveColumns]
             tol == RunsAt(solver')
  <2>1. b \in ArrayType /\ b.coords = Own /\ 2 \in Bases
    BY <1>2, <1>3, ActiveAsked DEF ArrayType, Bases
  <2>2. /\ tol \in Int /\ tol <= answer.tol
        /\ solver' \in SolverType /\ solver'.tol <= TightTol /\ solver'.tol <= answer.tol
        /\ solver'.core = solver.core /\ solver'.kept = solver.kept
        /\ tol = IF solver.core THEN runs[1].tol ELSE solver'.tol
    <3> DEFINE t == Tightened
    <3>1. t \in Int /\ t <= TightTol /\ t <= solver.tol
      BY <1>2, TightenedFacts
    <3>2. solver' = [solver EXCEPT !.tol = t]
      BY <1>5
    <3> HIDE DEF t
    <3>3. t <= answer.tol
      BY <1>2, <1>3, <3>1 DEF SolverType
    <3>4. /\ solver' \in SolverType /\ solver'.tol = t
          /\ solver'.core = solver.core /\ solver'.kept = solver.kept
      BY <1>3, <3>1, <3>2 DEF SolverType
    <3>5. runs[1].tol <= answer.tol /\ (solver.core => solver.kept = runs[1].tol)
      BY <1>2 DEF Backed
    <3>6. tol = IF solver.core THEN runs[1].tol ELSE t
      BY <3>4, <3>5 DEF RunsAt
    <3> QED
      BY <1>3, <3>1, <3>3, <3>4, <3>5, <3>6 DEF RunType
  <2>3. Projects(b, tol, ok, it, 2) /\ (Ends("unconverged") \/ (point' = "fit" /\ UNCHANGED answer /\ (ok \/ asked.allow)))
    BY DEF Checked
  <2> HIDE DEF b
  <2>4. /\ runs' \in Seq(RunType) /\ Len(runs') = 2 /\ buffer' \in ArrayType
        /\ buffer'.by = 2 /\ buffer'.coords = Own
        /\ runs'[Len(runs')] = [ok |-> ok, it |-> it, tol |-> tol, coords |-> 2]
        /\ runs'[1] = runs[1]
    <3>1. /\ runs' \in Seq(RunType) /\ Len(runs') = Len(runs) + 1 /\ buffer' \in ArrayType
          /\ buffer'.by = Len(runs') /\ buffer'.coords = b.coords
          /\ runs'[Len(runs')] = [ok |-> ok, it |-> it, tol |-> tol, coords |-> 2]
          /\ \A k \in 1..Len(runs) : runs'[k] = runs[k]
      <4> HIDE DEF tol
      <4> QED
        BY <1>2, <2>1, <2>2, <2>3, ProjectsFacts
    <3>2. Len(runs) + 1 = 2 /\ 1 \in 1..Len(runs)
      BY <1>2
    <3> QED
      BY <2>1, <3>1, <3>2
  <2>5. DOMAIN cut' = Roles /\ \A r \in Roles : cut'[r] = <<>>
    BY <1>5
  <2>6. basis' \in BasisType /\ basis'.id = 2
    BY <1>5 DEF BasisType, Bases
  <2>7. CASE Ends("unconverged")
    <3>1. Typed'
      BY <1>1, <1>2, <2>2, <2>4, <2>5, <2>6, <2>7, EndsFacts, StaysTyped DEF Typed, Points
    <3> QED
      BY <1>1, <1>2, <2>4, <2>5, <2>7, <3>1, EndsFacts, RefusalStands
  <2>8. CASE point' = "fit" /\ UNCHANGED answer /\ (ok \/ asked.allow)
    <3>1. Typed'
      BY <1>1, <1>2, <2>2, <2>4, <2>5, <2>6, <2>8, StaysTyped DEF Typed, Points
    <3>2. OfLastRun' /\ FormsAligned'
      BY <1>1, <1>2, <2>4, <2>5, <2>8, SameCall DEF OfLastRun, FormsAligned
    <3>3. solver.core => solver.kept = runs[1].tol
      BY <1>2 DEF Backed
    <3> HIDE DEF tol
    <3>4. Backed'
      BY <1>1, <2>2, <2>4, <2>6, <2>8, <3>3 DEF Backed, Own
    <3>5. Progress'
      BY <2>2, <2>8, <3>2, <3>4 DEF Progress, Early
    <3>6. RefinementStands' /\ CoordinatesStand' /\ AnswerStands'
      BY <1>1, <1>2, <1>3, <2>4, <2>5, <2>8, SameCall
         DEF RefinementStands, CoordinatesStand, AnswerStands, Early, Ended
    <3> QED
      BY <3>1, <3>5, <3>6 DEF IInv
  <2> QED
    BY <2>3, <2>7, <2>8
<1> QED
  BY <1>4, <1>5 DEF Recondition, Rebind

\* A change of coordinates touches the one array of regressors.
LEMMA InCoordsFacts ==
  ASSUME Typed, OfLastRun, NEW id \in Bases, InCoords(id), asked' = asked, runs' = runs,
         buffer.coords = Own \/ cut["exog"] = <<>>,
         \A r \in Roles \ {"exog"} : cut[r] # <<>> => cut[r].coords = Own
  PROVE  /\ DOMAIN cut' = Roles /\ buffer' \in ArrayType
         /\ \A r \in Roles : cut'[r] = <<>> \/ cut'[r] \in ArrayType
         /\ OfLastRun'
         /\ buffer'.coords = Own \/ cut'["exog"] = <<>>
         /\ \A r \in Roles \ {"exog"} : cut'[r] # <<>> => cut'[r].coords = Own
         /\ id = Own => /\ buffer'.coords = Own
                        /\ \A r \in Roles : cut'[r] # <<>> => cut'[r].coords = Own
         /\ ActiveColumns' = ActiveColumns
<1>1. "exog" \in Roles /\ buffer \in ArrayType /\ DOMAIN cut = Roles
      /\ \A r \in Roles : cut[r] = <<>> \/ cut[r] \in ArrayType
  BY CallFacts DEF Typed
<1>2. CASE cut["exog"] = <<>> /\ buffer' = [buffer EXCEPT !.coords = id] /\ cut' = cut
  <2>1. buffer' \in ArrayType /\ buffer'.coords = id /\ buffer'.by = buffer.by
    BY <1>1, <1>2 DEF ArrayType
  <2>2. OfLastRun'
    BY <1>2, <2>1, SameCall DEF OfLastRun
  <2>3. buffer'.cols = buffer.cols
    BY <1>1, <1>2 DEF ArrayType
  <2>4. ActiveColumns' = ActiveColumns
    BY <1>2, <2>1, <2>3, SameColumns
  <2> QED
    BY <1>1, <1>2, <2>1, <2>2, <2>4
<1>3. CASE cut["exog"] # <<>> /\ cut' = [cut EXCEPT !["exog"].coords = id] /\ buffer' = buffer
  <2> DEFINE x == [cut["exog"] EXCEPT !.coords = id]
  <2>1. /\ x \in ArrayType /\ x.coords = id /\ x.by = cut["exog"].by /\ x.cols = cut["exog"].cols
    BY <1>1, <1>3 DEF ArrayType
  <2>2. cut' = [cut EXCEPT !["exog"] = x]
    BY <1>3
  <2> HIDE DEF x
  <2>3. DOMAIN cut' = Roles /\ cut'["exog"] = x /\ \A r \in Roles \ {"exog"} : cut'[r] = cut[r]
    BY <1>1, <2>2
  <2>4. /\ \A r \in Roles : cut'[r] # <<>> => cut'[r].by = Len(runs) /\ cut'[r].cols \subseteq asked.columns[r]
    BY <1>3, <2>1, <2>3 DEF OfLastRun
  <2>5. OfLastRun'
    BY <1>3, <2>4, SameCall DEF OfLastRun
  <2>6. \A r \in Roles : cut'[r] = <<>> \/ cut'[r] \in ArrayType
    BY <1>1, <2>1, <2>3
  <2>7. \A r \in Roles : /\ (cut'[r] = <<>>) <=> (cut[r] = <<>>)
                         /\ cut[r] # <<>> => cut'[r].cols = cut[r].cols
    BY <1>3, <2>1, <2>3, ArrayIsNoGap
  <2>8. ActiveColumns' = ActiveColumns
    BY <1>1, <1>3, <2>7, SameColumns
  <2> QED
    BY <1>1, <1>3, <2>1, <2>3, <2>5, <2>6, <2>8
<1> QED
  BY <1>2, <1>3 DEF InCoords

LEMMA FitFacts ==
  ASSUME IInv, point \in {"fit", "inside"}
  PROVE  /\ Typed /\ OfLastRun /\ Backed /\ FormsAligned /\ solver.tol <= answer.tol
         /\ weak.left = 0 /\ (weak.ok \/ asked.allow) /\ answer.how = "none"
         /\ buffer.coords = Own \/ cut["exog"] = <<>>
         /\ \A r \in Roles \ {"exog"} : cut[r] # <<>> => cut[r].coords = Own
         /\ point = "fit" => buffer.coords = Own /\ \A r \in Roles : cut[r] # <<>> => cut[r].coords = Own
  BY DEF IInv, Progress, RefinementStands, CoordinatesStand, AnswerStands, Early, Ended, Points

LEMMA EnterSteps == ASSUME IInv, EnterBasis PROVE IInv'
<1>1. PICK id \in {Own, basis.id} : InCoords(id)
  BY DEF EnterBasis
<1>2. point = "fit" /\ point' = "inside" /\ UNCHANGED <<asked, forms, solver, runs, weak, basis, answer>>
  BY DEF EnterBasis
<1>3. id \in Bases /\ Typed
  BY <1>2, FitFacts DEF Typed, BasisType, Bases
<1>4. /\ DOMAIN cut' = Roles /\ buffer' \in ArrayType
      /\ \A r \in Roles : cut'[r] = <<>> \/ cut'[r] \in ArrayType
      /\ OfLastRun'
      /\ buffer'.coords = Own \/ cut'["exog"] = <<>>
      /\ \A r \in Roles \ {"exog"} : cut'[r] # <<>> => cut'[r].coords = Own
  BY <1>1, <1>2, <1>3, FitFacts, InCoordsFacts
<1>5. Typed'
  BY <1>2, <1>3, <1>4, StaysTyped DEF Typed, Points
<1>6. Progress'
  BY <1>2, <1>4, FitFacts, SameCall DEF Progress, Backed, FormsAligned, Early
<1>7. RefinementStands' /\ AnswerStands'
  BY <1>2, FitFacts DEF RefinementStands, AnswerStands, Early, Ended
<1>8. CoordinatesStand'
  BY <1>2, <1>4, SameCall DEF CoordinatesStand
<1> QED
  BY <1>5, <1>6, <1>7, <1>8 DEF IInv

\* What a result says of the projections is true of the last one.
LEMMA ReportFacts ==
  ASSUME Typed, OfLastRun, Backed, weak.left = 0, weak.ok \/ asked.allow, solver.tol <= answer.tol,
         answer' = Result, UNCHANGED <<asked, runs, weak, solver>>, buffer'.by = Len(runs),
         ActiveColumns' = ActiveColumns,
         point' = "done" => ~asked.grouped
  PROVE  ReportsItsProjection'
<1> DEFINE used == runs[Len(runs)]
<1>1. Len(runs) \in {1, 2} /\ used \in RunType /\ runs[1] \in RunType
  <2>1. runs \in Seq(RunType) /\ Len(runs) \in {1, 2}
    BY DEF Typed, OfLastRun
  <2>2. 1 \in 1..Len(runs) /\ Len(runs) \in 1..Len(runs)
    <3> DEFINE n == Len(runs)
    <3>1. n = 1 \/ n = 2
      BY <2>1
    <3> HIDE DEF n
    <3>2. 1 \in 1..n /\ n \in 1..n
      BY <3>1
    <3> QED
      BY <3>2 DEF n
  <2>3. \A k \in 1..Len(runs) : runs[k] \in RunType
    BY <2>1
  <2> QED
    BY <2>1, <2>2, <2>3
<1>2. /\ answer'.info = [converged |-> used.ok /\ weak.ok,
                         iterations |-> IF Len(runs) = 1 THEN runs[1].it ELSE runs[1].it + runs[2].it]
      /\ answer'.tol = answer.tol /\ answer'.names = ActiveColumns /\ answer'.basis = basis
      /\ answer'.conditionTol = solver.tol
  BY DEF Result, InfoOf
<1>3. answer'.info.converged = (used.ok /\ weak.ok)
  BY <1>2
<1>4. answer'.info.iterations >= used.it
  BY <1>1, <1>2 DEF RunType
<1>5. runs'[buffer'.by] = used
  OBVIOUS
<1>6. answer'.info.converged => used.ok /\ weak'.left = 0 /\ weak'.ok
  BY <1>3
<1>7. point' = "done" /\ ~asked'.allow => answer'.info.converged
  BY <1>3 DEF Backed
<1>8. answer'.basis.id = used.coords /\ used.tol <= answer'.tol
  BY <1>2 DEF Backed
<1>9. used.coords # Own =>
        /\ answer'.conditionTol <= TightTol
        /\ used.tol = IF solver'.core /\ used.coords = 2 THEN runs'[1].tol ELSE answer'.conditionTol
  BY <1>2 DEF Backed
<1>10. answer'.names = ActiveColumns'
  BY <1>2
<1> HIDE DEF used
<1> QED
  BY <1>4, <1>5, <1>6, <1>7, <1>8, <1>9, <1>10 DEF ReportsItsProjection

LEMMA FitSteps == ASSUME IInv, Fit PROVE IInv'
<1>1. /\ point \in {"fit", "inside"} /\ UNCHANGED <<asked, forms, solver, runs, weak, basis>>
      /\ (point = "fit" /\ UNCHANGED <<buffer, cut>>) \/ (point = "inside" /\ InCoords(Own))
      /\ \/ answer' = Result /\ point' = IF asked.grouped THEN "finish" ELSE "done"
         \/ Ends("numerical")
  BY DEF Fit
<1>2. /\ Typed /\ OfLastRun /\ Backed /\ FormsAligned /\ solver.tol <= answer.tol
      /\ weak.left = 0 /\ (weak.ok \/ asked.allow)
  BY <1>1, FitFacts
<1>3. /\ DOMAIN cut' = Roles /\ buffer' \in ArrayType
      /\ \A r \in Roles : cut'[r] = <<>> \/ cut'[r] \in ArrayType
      /\ OfLastRun'
      /\ buffer'.coords = Own /\ \A r \in Roles : cut'[r] # <<>> => cut'[r].coords = Own
      /\ ActiveColumns' = ActiveColumns
  <2>1. CASE point = "fit" /\ UNCHANGED <<buffer, cut>>
    <3>1. buffer' \in ArrayType /\ buffer'.cols = buffer.cols
      BY <1>2, <2>1 DEF Typed
    <3>2. ActiveColumns' = ActiveColumns
      BY <1>1, <1>2, <2>1, <3>1, SameColumns
    <3> QED
      BY <1>1, <1>2, <2>1, <3>1, <3>2, FitFacts, SameCall DEF Typed, OfLastRun
  <2>2. CASE point = "inside" /\ InCoords(Own)
    <3>1. Own \in Bases
      BY DEF Bases
    <3> QED
      BY <1>1, <1>2, <2>2, <3>1, FitFacts, InCoordsFacts
  <2> QED
    BY <1>1, <2>1, <2>2
<1>4. CASE answer' = Result /\ point' = IF asked.grouped THEN "finish" ELSE "done"
  <2>1. /\ {"how", "tol"} \subseteq DOMAIN answer' /\ answer'.tol = answer.tol /\ answer'.how = "fitted"
    BY <1>4 DEF Result
  <2>2. Typed'
    BY <1>1, <1>2, <1>3, <1>4, <2>1, StaysTyped DEF Typed, Points
  <2>3. FormsAligned' /\ Backed' /\ InCallersUnits'
    BY <1>1, <1>2, <1>3, <2>1, SameCall DEF FormsAligned, Backed, InCallersUnits
  <2>4. ReadsOneProjection'
    BY <1>3, <2>2, <2>3, WholeIsReadable, PTL
  <2>5. buffer'.by = Len(runs)
    BY <1>1, <1>3 DEF OfLastRun
  <2>6. ReportsItsProjection'
    BY <1>1, <1>2, <1>3, <1>4, <2>5, ReportFacts
  <2>7. Progress'
    BY <1>1, <1>2, <1>3, <1>4, <2>1, <2>3 DEF Progress, Early
  <2>8. RefinementStands'
    BY <1>1, <1>2, <1>4 DEF RefinementStands, Early
  <2>9. CoordinatesStand'
    BY <1>1, <1>3, <1>4, SameCall DEF CoordinatesStand
  <2>10. AnswerStands'
    BY <1>4, <2>1, <2>4, <2>6 DEF AnswerStands, Ended
  <2> QED
    BY <2>2, <2>7, <2>8, <2>9, <2>10 DEF IInv
<1>5. CASE Ends("numerical")
  <2>1. Typed'
    BY <1>1, <1>2, <1>3, <1>5, EndsFacts, StaysTyped DEF Typed, Points
  <2> QED
    BY <1>1, <1>2, <1>3, <1>5, <2>1, EndsFacts, RefusalStands
<1> QED
  BY <1>1, <1>4, <1>5

LEMMA FinishSteps == ASSUME IInv, FinishGroup PROVE IInv'
<1>1. /\ point = "finish" /\ UNCHANGED <<asked, forms, buffer, cut, solver, runs, weak, basis>>
  BY DEF FinishGroup
<1>2. /\ Typed /\ OfLastRun /\ Backed /\ FormsAligned /\ answer.how = "fitted" /\ buffer.coords = Own
      /\ \A r \in Roles : cut[r] # <<>> => cut[r].coords = Own
      /\ ReadsOneProjection /\ ReportsItsProjection
  BY <1>1 DEF IInv, Progress, AnswerStands, CoordinatesStand, Early
<1>3. CASE Ends("unconverged")
  <2>1. Typed'
    BY <1>1, <1>2, <1>3, EndsFacts, StaysTyped DEF Typed, Points
  <2> QED
    BY <1>1, <1>2, <1>3, <2>1, EndsFacts, RefusalStands
<1>4. CASE point' = "done" /\ UNCHANGED answer /\ (answer.info.converged \/ asked.allow)
  <2>1. Typed'
    BY <1>1, <1>2, <1>4, StaysTyped DEF Typed, Points
  <2>2. ActiveColumns' = ActiveColumns
    BY <1>1, <1>2, SameColumns DEF Typed
  <2>3. \A r \in Roles : Array(r)' = Array(r)
    BY <1>1 DEF Array
  <2>4. ReadsOneProjection'
    BY <1>1, <1>2, <2>3, SameCall DEF ReadsOneProjection
  <2>5. ReportsItsProjection'
    BY <1>1, <1>2, <1>4, <2>2 DEF ReportsItsProjection
  <2>6. Progress' /\ RefinementStands'
    BY <1>4 DEF Progress, RefinementStands, Early
  <2>7. CoordinatesStand'
    BY <1>1, <1>2, <1>4, SameCall DEF CoordinatesStand
  <2>8. AnswerStands'
    BY <1>4, <2>4, <2>5 DEF AnswerStands, Ended
  <2> QED
    BY <2>1, <2>6, <2>7, <2>8 DEF IInv
<1> QED
  BY <1>3, <1>4 DEF FinishGroup

-----------------------------------------------------------------------------
\* The inductive invariant: where the fit stands, what its arrays hold.
THEOREM ArraysFollowTheFit == LinearSpec => []IInv
<1>1. LinearInit => IInv
  BY Initially
<1>2. IInv /\ [LinearNext]_linearVars => IInv'
  <2> SUFFICES ASSUME IInv, [LinearNext]_linearVars PROVE IInv'
    OBVIOUS
  <2>1. CASE MergeConfig \/ Compile
    BY <2>1, MergeSteps, CompileSteps
  <2>2. CASE ProjectOls \/ ProjectIv \/ ProjectNative \/ ProjectGroup
    BY <2>2, OlsSteps, IvSteps
  <2>3. CASE OmitRegressors \/ OmitEndogenous \/ OmitInstruments
    BY <2>3, OmitSteps, InstrumentSteps
  <2>4. CASE ScreenControls \/ RefineDirection
    BY <2>4, ScreenSteps, RefineSteps
  <2>5. CASE Recondition \/ EnterBasis \/ Fit \/ FinishGroup
    BY <2>5, ReconditionSteps, EnterSteps, FitSteps, FinishSteps
  <2>6. CASE UNCHANGED linearVars
    <3>1. Roles' = Roles /\ ArrayType' = ArrayType /\ ActiveColumns' = ActiveColumns
      BY <2>6 DEF linearVars, Roles, ArrayType, AskedColumns, ActiveColumns, Array
    <3>2. \A r \in Roles : Array(r)' = Array(r)
      BY <2>6 DEF linearVars, Array
    <3>3. Typed' /\ Progress' /\ RefinementStands' /\ CoordinatesStand'
      BY <2>6, <3>1 DEF linearVars, IInv, Typed, Progress, RefinementStands, CoordinatesStand,
                        Untouched, OfLastRun, Backed, FormsAligned
    <3>4. AnswerStands'
      BY <2>6, <3>1, <3>2 DEF linearVars, IInv, AnswerStands, ReadsOneProjection, ReportsItsProjection
    <3> QED
      BY <3>3, <3>4 DEF IInv
  <2> QED
    BY <2>1, <2>2, <2>3, <2>4, <2>5, <2>6 DEF LinearNext
<1> QED
  BY <1>1, <1>2, PTL DEF LinearSpec

LEMMA FollowingIsHonest == IInv => FitIsOfOneProjection
<1> SUFFICES ASSUME IInv PROVE FitIsOfOneProjection
  OBVIOUS
<1>1. Typed
  BY DEF IInv
<1>2. point = "fit" => ReadsOneProjection
  BY FitFacts, WholeIsReadable DEF InCallersUnits
<1>3. answer.how = "fitted" => ReadsOneProjection /\ ReportsItsProjection
  BY DEF IInv, AnswerStands
<1>4. ASSUME point = "done", NEW r \in Roles PROVE Array(r).coords = Own
  BY <1>1, <1>4, ArrayFacts DEF IInv, CoordinatesStand
<1> QED
  BY <1>2, <1>3, <1>4 DEF FitIsOfOneProjection

\* Every fit is made from one whole projection in the caller's units, and every
\* report is of that projection, for any columns, tolerances and outcomes: its
\* tolerance is the one reported, unless it was the second projection and went
\* through the core of the first, where it is the tolerance of the first.
THEOREM OneProjection == LinearSpec => []FitIsOfOneProjection
  BY ArraysFollowTheFit, FollowingIsHonest, PTL

-----------------------------------------------------------------------------
(* The inference of an IV fit.  What is told at the end was tested, if at     *)
(* all, at one of three earlier places, and what an array holds is a matter   *)
(* of which steps it has been through: so the invariant says, place by place, *)
(* what has been established, what the estimate looks like and what has been  *)
(* heard.                                                                     *)

Identified == Screened \/ screen.one => identity.partial <= Hard

Solvers == {"stable", "compressed", "roles", "core", "gmm"}

\* The estimate of solver r once inference, diagnostics and units are done.
Fields(r, scores, corrected, roles, units, meta) ==
  [route |-> r, units |-> units, residuals |-> Plainly, scores |-> scores,
   corrected |-> corrected, overidCorrected |-> 0, repairUnits |-> 0, roles |-> roles,
   fitted |-> Plainly, metaUnits |-> meta]
Once == IF Weighted THEN 1 ELSE 0
Inferred(r) == Fields(r, Weigh(Plainly), 1, 0, 0, 0)
Diagnosed(r) == Fields(r, Weigh(Plainly), 1, Once, 0, 0)
Restored(r) == Fields(r, Weigh(Plainly), 1, Once, 1, IF iv.estimator = "gmm2s" THEN 1 ELSE 0)

\* What a caller has heard after n stages.
Heard(n) == [i \in 1..n |-> [stage |-> Stages[i], units |-> 1]]

\* What is known of the roles before a solver has judged them: a test that was
\* put off is still to be made, on a ratio no better than the roles.
Screens ==
  /\ ~Screened => ~screen.one
  /\ Screened /\ ~Deferred => identity.partial <= Hard
  /\ Deferred => identity.partial <= screen.ratio

\* Where the fit stands: [r] the solver that ran, [n] the stages heard.
StandsIV(r) ==
  /\ ivAt \in {"moments", "kappa", "solve"} => events = <<>>
  /\ ivAt \in {"kappa", "solve"} => Screens
  /\ ivAt \in {"moments", "kappa"} => ~screen.one
  /\ ivAt = "inference" => Identified /\ events = <<>> /\ estimate = Estimate(r)
  /\ ivAt = "estimation" => Identified /\ events = <<>> /\ estimate = Inferred(r)
  /\ ivAt = "first_stage" => Identified /\ events = Heard(1) /\ estimate = Inferred(r)
  /\ ivAt = "diagnostics" => Identified /\ events = Heard(2) /\ estimate = Diagnosed(r)
  /\ ivAt = "restore" => Identified /\ events = Heard(3) /\ estimate = Diagnosed(r)
  /\ ivAt = "result" => Identified /\ events = Heard(3) /\ estimate = Restored(r)
  /\ ivAt = "done" => \E n \in 0..4 :
                        /\ events = Heard(n)
                        /\ n > 0 => Identified
                        /\ published = "result" <=> n = 4
                        /\ published = "result" => estimate = Restored(r)
  /\ ivAt # "done" => published = "none"

InferenceInv ==
  /\ ivAt \in {"moments", "kappa", "solve", "inference", "estimation", "first_stage",
               "diagnostics", "restore", "result", "done"}
  /\ identity \in [partial : Class, near : BOOLEAN]
  /\ screen = [ratio |-> screen.ratio, one |-> screen.one] /\ screen.ratio \in Class
  /\ \E r \in Solvers : StandsIV(r)

LEMMA SameIVCall ==
  ASSUME iv' = iv
  PROVE  /\ Screened' <=> Screened
         /\ Deferred' <=> Deferred
         /\ \A r : Estimate(r)' = Estimate(r) /\ Inferred(r)' = Inferred(r)
                   /\ Diagnosed(r)' = Diagnosed(r) /\ Restored(r)' = Restored(r)
         /\ \A n : Heard(n)' = Heard(n)
<1>1. Weighted' <=> Weighted
  BY DEF Weighted
<1>2. (Once' = Once) /\ Weigh(Plainly)' = Weigh(Plainly)
  BY <1>1 DEF Once, Weigh, Plainly
<1>3. \A r : Estimate(r)' = Estimate(r) /\ Inferred(r)' = Inferred(r)
             /\ Diagnosed(r)' = Diagnosed(r) /\ Restored(r)' = Restored(r)
  BY <1>2 DEF Estimate, Inferred, Diagnosed, Restored, Fields, Plainly
<1> QED
  BY <1>3 DEF Screened, Deferred, Plain, Heard, Stages

\* A fit that ends after n stages.
LEMMA EndsIV ==
  ASSUME NEW r \in Solvers, NEW n \in 0..3, NEW why, why # "result", IVFails(why),
         events' = Heard(n), n > 0 => Identified', identity' \in [partial : Class, near : BOOLEAN],
         (screen = [ratio |-> screen.ratio, one |-> screen.one])', (screen.ratio)' \in Class
  PROVE  InferenceInv'
<1>1. ivAt' = "done" /\ published' = why
  BY DEF IVFails
<1>2. Heard(n)' = Heard(n)
  BY DEF Heard, Stages
<1>3. n \in 0..4 /\ n # 4
  OBVIOUS
<1>4. StandsIV(r)'
  BY <1>1, <1>2, <1>3 DEF StandsIV
<1> QED
  BY <1>1, <1>4 DEF InferenceInv

LEMMA NothingHeard == Heard(0) = <<>>
BY DEF Heard

LEMMA OneMore ==
  ASSUME NEW n \in 0..3
  PROVE  Append(Heard(n), [stage |-> Stages[n + 1], units |-> 1]) = Heard(n + 1)
<1>1. \A k \in {0, 1, 2, 3, 4} : Heard(k) \in Seq([stage : {Stages[i] : i \in 1..4}, units : {1}])
                                 /\ Len(Heard(k)) = k
  BY DEF Heard
<1>2. n \in {0, 1, 2, 3}
  OBVIOUS
<1> QED
  BY <1>1, <1>2 DEF Heard

LEMMA MomentsStep ==
  ASSUME InferenceInv, CheckMoments
  PROVE  InferenceInv'
<1>1. PICK partial \in Class, near \in BOOLEAN :
        /\ identity' = [partial |-> partial, near |-> near]
        /\ \E m \in Moments(identity') :
             /\ screen' = [screen EXCEPT !.ratio = IF Screened THEN m ELSE Safe]
             /\ IF Screened /\ ~Deferred /\ m > Hard
                THEN IVFails(IF m = Deficient THEN "underidentified" ELSE "numerical")
                ELSE ivAt' = (IF iv.estimator = "gmm2s" THEN "solve" ELSE "kappa") /\ UNCHANGED published
  BY DEF CheckMoments
<1>2. PICK m \in Moments(identity') :
        /\ screen' = [screen EXCEPT !.ratio = IF Screened THEN m ELSE Safe]
        /\ IF Screened /\ ~Deferred /\ m > Hard
           THEN IVFails(IF m = Deficient THEN "underidentified" ELSE "numerical")
           ELSE ivAt' = (IF iv.estimator = "gmm2s" THEN "solve" ELSE "kappa") /\ UNCHANGED published
  BY <1>1
<1>3. m \in Class /\ partial <= m
  BY <1>1, <1>2 DEF Moments, Class, Safe, Deficient, Hard
<1>4. /\ ivAt = "moments" /\ iv' = iv /\ estimate' = estimate /\ events' = events
  BY DEF CheckMoments
<1>5. PICK r \in Solvers : StandsIV(r)
  BY DEF InferenceInv
<1>6. events = <<>> /\ published = "none" /\ ~screen.one
  BY <1>4, <1>5 DEF StandsIV
<1>7. PICK s : s = screen
  OBVIOUS
<1>8. s = [ratio |-> s.ratio, one |-> s.one]
  BY <1>7 DEF InferenceInv
<1>9. screen' = [ratio |-> IF Screened THEN m ELSE Safe, one |-> s.one]
  BY <1>2, <1>7, <1>8
<1>10. /\ (screen = [ratio |-> screen.ratio, one |-> screen.one])'
       /\ (screen.ratio)' = (IF Screened THEN m ELSE Safe)
       /\ (screen.ratio)' \in Class /\ ~(screen.one)'
       /\ identity' \in [partial : Class, near : BOOLEAN]
       /\ (identity.partial)' = partial
  <2>1. (IF Screened THEN m ELSE Safe) \in Class
    BY <1>3 DEF Class, Safe, Deficient
  <2>2. screen'.ratio = (IF Screened THEN m ELSE Safe) /\ screen'.one = s.one
    BY <1>9
  <2>3. identity'.partial = partial /\ identity' \in [partial : Class, near : BOOLEAN]
    BY <1>1
  <2>4. ~s.one
    BY <1>6, <1>7
  <2>5. screen' = [ratio |-> screen'.ratio, one |-> screen'.one]
    BY <1>9
  <2> QED
    BY <2>1, <2>2, <2>3, <2>4, <2>5
<1>11. /\ Screened' <=> Screened
       /\ Deferred' <=> Deferred
  BY <1>4, SameIVCall
<1>12. CASE Screened /\ ~Deferred /\ m > Hard
  <2>1. PICK why : why # "result" /\ IVFails(why)
    BY <1>2, <1>12
  <2>2. 0 \in 0..3 /\ events' = Heard(0) /\ ~(0 > 0)
    BY <1>4, <1>6, NothingHeard
  <2> QED
    BY <1>5, <1>10, <2>1, <2>2, EndsIV
<1>13. CASE ~(Screened /\ ~Deferred /\ m > Hard)
  <2>1. ivAt' \in {"kappa", "solve"} /\ published' = published
    BY <1>2, <1>13
  <2>2. Deferred => Screened
    BY DEF Deferred, Plain, Screened
  <2>3. m \in Int /\ partial \in Int /\ Hard \in Int
    BY <1>3 DEF Class, Safe, Deficient, Hard
  <2>4. Screens'
    BY <1>3, <1>10, <1>11, <1>13, <2>2, <2>3 DEF Screens, Hard
  <2>5. StandsIV(r)'
    BY <1>4, <1>6, <1>10, <2>1, <2>4 DEF StandsIV
  <2> QED
    BY <1>10, <2>1, <2>5 DEF InferenceInv
<1> QED
  BY <1>12, <1>13

LEMMA KappaStep ==
  ASSUME InferenceInv, ChooseKappa
  PROVE  InferenceInv'
<1>1. ivAt = "kappa" /\ iv' = iv /\ identity' = identity /\ estimate' = estimate /\ events' = events
  BY DEF ChooseKappa
<1>2. PICK r \in Solvers : StandsIV(r)
  BY DEF InferenceInv
<1>3. events = <<>> /\ published = "none" /\ Screens
  BY <1>1, <1>2 DEF StandsIV
<1>4. identity' \in [partial : Class, near : BOOLEAN]
  BY <1>1 DEF InferenceInv
<1>5. CASE iv.estimator = "kclass" /\ iv.kappa = "none"
  <2>1. IVFails("no_kappa") /\ screen' = screen
    BY <1>5 DEF ChooseKappa
  <2>2. 0 \in 0..3 /\ events' = Heard(0) /\ ~(0 > 0)
    BY <1>1, <1>3, NothingHeard
  <2>3. (screen = [ratio |-> screen.ratio, one |-> screen.one])' /\ (screen.ratio)' \in Class
    BY <2>1 DEF InferenceInv
  <2>4. "no_kappa" # "result"
    OBVIOUS
  <2> QED
    BY <1>2, <1>4, <2>1, <2>2, <2>3, <2>4, EndsIV
<1>6. CASE ~(iv.estimator = "kclass" /\ iv.kappa = "none")
  <2>1. PICK one \in One(iv.estimator, iv.kappa, iv.fuller) : screen' = [screen EXCEPT !.one = one]
    BY <1>6 DEF ChooseKappa
  <2>2. ivAt' = "solve" /\ published' = published
    BY <1>6 DEF ChooseKappa
  <2>3. ~Screened => ~one
    BY <1>6, <2>1 DEF One, Screened
  <2>4. PICK s : s = screen
    OBVIOUS
  <2>5. s = [ratio |-> s.ratio, one |-> s.one]
    BY <2>4 DEF InferenceInv
  <2>6. screen' = [ratio |-> s.ratio, one |-> one]
    BY <2>1, <2>4, <2>5
  <2>7. /\ (screen = [ratio |-> screen.ratio, one |-> screen.one])'
        /\ (screen.ratio)' = screen.ratio /\ (screen.ratio)' \in Class /\ (screen.one)' = one
    BY <2>4, <2>6 DEF InferenceInv
  <2>8. (Screened' <=> Screened) /\ (Deferred' <=> Deferred)
    BY <1>1, SameIVCall
  <2>9. Screens'
    BY <1>1, <1>3, <2>3, <2>7, <2>8 DEF Screens
  <2>10. StandsIV(r)'
    BY <1>1, <1>3, <2>2, <2>9 DEF StandsIV
  <2> QED
    BY <1>4, <2>2, <2>7, <2>10 DEF InferenceInv
<1> QED
  BY <1>5, <1>6

\* A solver is reached only by roles that were tested, or that it tests itself.
LEMMA SolveStep ==
  ASSUME InferenceInv, SolveStable \/ SolveCompressed \/ SolveRoles \/ SolveCore \/ SolveGmm
  PROVE  InferenceInv'
<1>1. /\ ivAt = "solve" /\ iv' = iv /\ identity' = identity /\ screen' = screen /\ events' = events
  BY DEF SolveStable, SolveCompressed, SolveRoles, SolveCore, SolveGmm
<1>2. PICK q \in Solvers : StandsIV(q)
  BY DEF InferenceInv
<1>3. events = <<>> /\ published = "none" /\ Screens
  BY <1>1, <1>2 DEF StandsIV
<1>4. /\ identity' \in [partial : Class, near : BOOLEAN]
      /\ (screen = [ratio |-> screen.ratio, one |-> screen.one])' /\ (screen.ratio)' \in Class
  BY <1>1 DEF InferenceInv
<1>5. (Screened' <=> Screened) /\ (Deferred' <=> Deferred)
      /\ \A r : Estimate(r)' = Estimate(r)
  BY <1>1, SameIVCall
<1>6. identity.partial \in 0..3 /\ screen.ratio \in 0..3
  BY DEF InferenceInv, Class, Safe, Deficient
<1>7. ASSUME NEW why, why # "result", IVFails(why) PROVE InferenceInv'
  <2>1. 0 \in 0..3 /\ events' = Heard(0) /\ ~(0 > 0)
    BY <1>1, <1>3, NothingHeard
  <2> QED
    BY <1>2, <1>4, <1>7, <2>1, EndsIV
<1>8. ASSUME NEW r \in Solvers, Solved(r), Identified PROVE InferenceInv'
  <2>1. estimate' = Estimate(r) /\ ivAt' = "inference" /\ published' = published
    BY <1>8 DEF Solved
  <2>2. Identified'
    BY <1>1, <1>5, <1>8 DEF Identified
  <2>3. StandsIV(r)'
    BY <1>1, <1>3, <1>5, <2>1, <2>2 DEF StandsIV
  <2> QED
    BY <1>4, <2>1, <2>3 DEF InferenceInv
<1>9. ~Deferred => Identified
  BY <1>3 DEF Screens, Identified
<1>10. CASE SolveStable
  <2>1. CASE IVFails("numerical") \/ IVFails("underidentified")
    <3>1. "numerical" # "result" /\ "underidentified" # "result"
      OBVIOUS
    <3> QED
      BY <1>7, <2>1, <3>1
  <2>2. CASE ~(IVFails("numerical") \/ IVFails("underidentified"))
    <3>1. Solved("stable") /\ identity.partial # Deficient /\ identity.partial # Unsafe
      BY <1>10, <2>2 DEF SolveStable, PartialCheck
    <3>2. Identified
      BY <1>6, <3>1 DEF Identified, Deficient, Unsafe, Hard
    <3>3. "stable" \in Solvers
      BY DEF Solvers
    <3> QED
      BY <1>8, <3>1, <3>2, <3>3
  <2> QED
    BY <2>1, <2>2
<1>11. ASSUME NEW r \in Solvers, Judged(r), Identified PROVE InferenceInv'
  <2>1. "numerical" # "result"
    OBVIOUS
  <2> QED
    BY <1>7, <1>8, <1>11, <2>1 DEF Judged
<1>12. CASE SolveCompressed
  <2>1. Judged("compressed") /\ ~Deferred /\ "compressed" \in Solvers
    BY <1>12 DEF SolveCompressed, Deferred, Solvers
  <2> QED
    BY <1>9, <1>11, <2>1
<1>13. CASE SolveRoles
  <2>1. Judged("roles") /\ Deferred /\ screen.ratio < Hard /\ "roles" \in Solvers
    BY <1>6, <1>13 DEF SolveRoles, Deferred, Difficult, Solvers, Hard
  <2>2. Identified
    BY <1>3, <1>6, <2>1 DEF Screens, Identified, Hard
  <2> QED
    BY <1>11, <2>1, <2>2
<1>14. CASE SolveCore
  <2>1. Judged("core") /\ ~Deferred /\ "core" \in Solvers
    BY <1>14 DEF SolveCore, Deferred, Solvers
  <2> QED
    BY <1>9, <1>11, <2>1
<1>15. CASE SolveGmm
  <2>1. Judged("gmm") /\ ~Deferred /\ "gmm" \in Solvers
    BY <1>15 DEF SolveGmm, Deferred, Plain, Solvers
  <2> QED
    BY <1>9, <1>11, <2>1
<1> QED
  BY <1>10, <1>12, <1>13, <1>14, <1>15

\* A step of the reports: it changes neither the call nor what was tested.
LEMMA ReportsIV ==
  ASSUME InferenceInv, NEW r \in Solvers,
         iv' = iv, identity' = identity, screen' = screen,
         ivAt' \in {"estimation", "first_stage", "diagnostics", "restore", "result", "done"},
         StandsIV(r)'
  PROVE  InferenceInv'
BY DEF InferenceInv

LEMMA CorrectedOnce ==
  ASSUME NEW r, NEW w, NEW e, e = Fields(r, w, 0, 0, 0, 0)
  PROVE  [e EXCEPT !.corrected = 1] = Fields(r, w, 1, 0, 0, 0)
BY DEF Fields

LEMMA InferStep ==
  ASSUME InferenceInv, InferStable \/ Infer
  PROVE  InferenceInv'
<1>1. /\ ivAt = "inference" /\ ivAt' = "estimation" /\ iv' = iv /\ identity' = identity
      /\ screen' = screen /\ events' = events /\ published' = published
  BY DEF InferStable, Infer
<1>2. PICK r \in Solvers : StandsIV(r)
  BY DEF InferenceInv
<1>3. Identified /\ events = <<>> /\ published = "none" /\ estimate = Estimate(r)
  BY <1>1, <1>2 DEF StandsIV
<1>4. estimate' = Inferred(r)
  <2>1. PICK e : e = estimate
    OBVIOUS
  <2>2. e = [route |-> r, units |-> 0, residuals |-> Plainly, scores |-> Plainly,
             corrected |-> 0, overidCorrected |-> 0, repairUnits |-> 0, roles |-> 0, fitted |-> Plainly,
             metaUnits |-> 0]
    BY <1>3, <2>1 DEF Estimate
  <2>30. e.residuals = Plainly /\ e.corrected = 0
    BY <2>2
  <2>31. PICK w : w = Weigh(Plainly)
    OBVIOUS
  <2>32. PICK one, two : one = [e EXCEPT !.scores = w] /\ two = [one EXCEPT !.corrected = 1]
    OBVIOUS
  <2>33. two = Inferred(r)
    <3>1. e = Fields(r, Plainly, 0, 0, 0, 0)
      BY <2>2 DEF Fields
    <3>2. one = Fields(r, w, 0, 0, 0, 0)
      BY <2>32, <3>1 DEF Fields
    <3>3. two = Fields(r, w, 1, 0, 0, 0)
      BY <2>32, <3>2, CorrectedOnce
    <3> QED
      BY <2>31, <3>3 DEF Inferred
  <2>34. two.residuals = Plainly /\ two.overidCorrected = 0
    BY <2>33 DEF Inferred, Fields
  <2>35. [two EXCEPT !.residuals = Plainly] = two /\ [two EXCEPT !.overidCorrected = 0] = two
    BY <2>33, <2>34 DEF Inferred, Fields
  <2>36. /\ [e EXCEPT !.scores = w, !.residuals = Plainly, !.corrected = 1] =
              [two EXCEPT !.residuals = Plainly]
         /\ [e EXCEPT !.scores = w, !.corrected = 1, !.overidCorrected = 0] =
              [two EXCEPT !.overidCorrected = 0]
    BY <2>2, <2>32
  <2>3. /\ e.residuals = Plainly /\ e.corrected = 0
        /\ [e EXCEPT !.scores = Weigh(Plainly), !.residuals = Plainly, !.corrected = 1] = Inferred(r)
        /\ [e EXCEPT !.scores = Weigh(Plainly), !.corrected = 1, !.overidCorrected = 0] = Inferred(r)
    BY <2>30, <2>31, <2>33, <2>35, <2>36
  <2>4. Unweigh(Weigh(Plainly), Plainly) = Plainly
    BY DEF Unweigh, Weigh, Plainly
  <2>5. CASE InferStable
    <3>1. estimate' = [e EXCEPT !.scores = Weigh(Plainly),
                                !.residuals = Unweigh(Weigh(Plainly), e.residuals), !.corrected = 1]
      BY <2>1, <2>5 DEF InferStable
    <3> QED
      BY <2>3, <2>4, <3>1
  <2>6. CASE Infer
    <3>1. estimate' = [e EXCEPT !.scores = Weigh(e.residuals), !.corrected = 1,
                                !.overidCorrected = IF Shared THEN e.corrected ELSE 0]
      BY <2>1, <2>6 DEF Infer
    <3> QED
      BY <2>3, <3>1
  <2> QED
    BY <2>5, <2>6
<1>5. StandsIV(r)'
  BY <1>1, <1>3, <1>4, SameIVCall DEF StandsIV, Identified
<1> QED
  BY <1>1, <1>5, ReportsIV

LEMMA EstimationStep ==
  ASSUME InferenceInv, EstimationReady
  PROVE  InferenceInv'
<1>1. /\ ivAt = "estimation" /\ ivAt' = "first_stage" /\ iv' = iv /\ identity' = identity
      /\ screen' = screen /\ estimate' = estimate /\ published' = published
  BY DEF EstimationReady
<1>2. PICK r \in Solvers : StandsIV(r)
  BY DEF InferenceInv
<1>3. Identified /\ events = <<>> /\ published = "none" /\ estimate = Inferred(r)
  BY <1>1, <1>2 DEF StandsIV
<1>4. events' = Heard(1)
  <2>1. estimate.units = 0
    BY <1>3 DEF Inferred, Fields
  <2>2. events' = Append(events, [stage |-> "estimation", units |-> estimate.units + 1])
    BY DEF EstimationReady, Tell
  <2>3. Stages[0 + 1] = "estimation" /\ 0 \in 0..3
    BY DEF Stages
  <2> QED
    BY <1>3, <2>1, <2>2, <2>3, NothingHeard, OneMore
<1>5. StandsIV(r)'
  BY <1>1, <1>3, <1>4, SameIVCall DEF StandsIV, Identified
<1> QED
  BY <1>1, <1>5, ReportsIV

LEMMA FirstStageStep ==
  ASSUME InferenceInv, FirstStage
  PROVE  InferenceInv'
<1>1. /\ ivAt = "first_stage" /\ iv' = iv /\ identity' = identity /\ screen' = screen
  BY DEF FirstStage
<1>2. PICK r \in Solvers : StandsIV(r)
  BY DEF InferenceInv
<1>3. Identified /\ events = Heard(1) /\ published = "none" /\ estimate = Inferred(r)
  BY <1>1, <1>2 DEF StandsIV
<1>4. estimate' = Diagnosed(r)
  <2> DEFINE stable == estimate.route = "stable"
             roles == IF stable THEN Weigh(Plainly) ELSE Plainly
             fitted == IF stable THEN Unweigh(Weigh(Plainly), Plainly) ELSE Plainly
  <2>1. PICK e : e = estimate
    OBVIOUS
  <2>2. e = [route |-> r, units |-> 0, residuals |-> Plainly, scores |-> Weigh(Plainly),
             corrected |-> 1, overidCorrected |-> 0, repairUnits |-> 0, roles |-> 0, fitted |-> Plainly,
             metaUnits |-> 0]
    BY <1>3, <2>1 DEF Inferred, Fields
  <2>3. [e EXCEPT !.fitted = Plainly, !.roles = Once] = Diagnosed(r)
    <3>1. PICK one : one = [e EXCEPT !.fitted = Plainly]
      OBVIOUS
    <3>2. one = e
      BY <2>2, <3>1
    <3>3. [e EXCEPT !.fitted = Plainly, !.roles = Once] = [one EXCEPT !.roles = Once]
      BY <3>1
    <3>4. [e EXCEPT !.roles = Once] = Diagnosed(r)
      BY <2>2 DEF Diagnosed, Fields
    <3> QED
      BY <3>2, <3>3, <3>4
  <2>4. fitted = Plainly /\ roles.weights + (IF Weighted /\ ~stable THEN 1 ELSE 0) = Once
    BY DEF Unweigh, Weigh, Plainly, Once
  <2>5. estimate' = [e EXCEPT !.fitted = fitted,
                              !.roles = roles.weights + (IF Weighted /\ ~stable THEN 1 ELSE 0)]
    BY <2>1 DEF FirstStage
  <2> HIDE DEF fitted, roles, stable
  <2> QED
    BY <2>3, <2>4, <2>5
<1>5. CASE Tell("first_stage", 1) /\ ivAt' = "diagnostics" /\ UNCHANGED published
  <2>1. events' = Heard(2)
    <3>1. Stages[1 + 1] = "first_stage" /\ 1 \in 0..3 /\ 1 + 1 = 2
      BY DEF Stages
    <3>2. events' = Append(Heard(1), [stage |-> Stages[1 + 1], units |-> 1])
      BY <1>3, <1>5, <3>1 DEF Tell
    <3> QED
      BY <3>1, <3>2, OneMore
  <2>2. StandsIV(r)'
    BY <1>1, <1>3, <1>4, <1>5, <2>1, SameIVCall DEF StandsIV, Identified
  <2> QED
    BY <1>1, <1>5, <2>2, ReportsIV
<1>6. CASE IVFails("diagnostics") /\ UNCHANGED events
  <2>1. 1 \in 0..3 /\ events' = Heard(1) /\ "diagnostics" # "result"
    BY <1>3, <1>6
  <2>2. Identified'
    BY <1>1, <1>3, SameIVCall DEF Identified
  <2>3. /\ identity' \in [partial : Class, near : BOOLEAN]
        /\ (screen = [ratio |-> screen.ratio, one |-> screen.one])' /\ (screen.ratio)' \in Class
    BY <1>1 DEF InferenceInv
  <2> QED
    BY <1>6, <2>1, <2>2, <2>3, EndsIV
<1> QED
  BY <1>5, <1>6 DEF FirstStage

LEMMA DiagnosticsStep ==
  ASSUME InferenceInv, Diagnostics
  PROVE  InferenceInv'
<1>1. /\ ivAt = "diagnostics" /\ iv' = iv /\ identity' = identity /\ screen' = screen
      /\ estimate' = estimate
  BY DEF Diagnostics
<1>2. PICK r \in Solvers : StandsIV(r)
  BY DEF InferenceInv
<1>3. Identified /\ events = Heard(2) /\ published = "none" /\ estimate = Diagnosed(r)
  BY <1>1, <1>2 DEF StandsIV
<1>4. CASE Tell("diagnostics", 1) /\ ivAt' = "restore" /\ UNCHANGED published
  <2>1. events' = Heard(3)
    <3>1. Stages[2 + 1] = "diagnostics" /\ 2 \in 0..3 /\ 2 + 1 = 3
      BY DEF Stages
    <3>2. events' = Append(Heard(2), [stage |-> Stages[2 + 1], units |-> 1])
      BY <1>3, <1>4, <3>1 DEF Tell
    <3> QED
      BY <3>1, <3>2, OneMore
  <2>2. StandsIV(r)'
    BY <1>1, <1>3, <1>4, <2>1, SameIVCall DEF StandsIV, Identified
  <2> QED
    BY <1>1, <1>4, <2>2, ReportsIV
<1>5. CASE IVFails("diagnostics") /\ UNCHANGED events
  <2>1. 2 \in 0..3 /\ events' = Heard(2) /\ "diagnostics" # "result"
    BY <1>3, <1>5
  <2>2. Identified'
    BY <1>1, <1>3, SameIVCall DEF Identified
  <2>3. /\ identity' \in [partial : Class, near : BOOLEAN]
        /\ (screen = [ratio |-> screen.ratio, one |-> screen.one])' /\ (screen.ratio)' \in Class
    BY <1>1 DEF InferenceInv
  <2> QED
    BY <1>5, <2>1, <2>2, <2>3, EndsIV
<1> QED
  BY <1>4, <1>5 DEF Diagnostics

LEMMA RestoreStep ==
  ASSUME InferenceInv, RestoreUnits
  PROVE  InferenceInv'
<1>1. /\ ivAt = "restore" /\ ivAt' = "result" /\ iv' = iv /\ identity' = identity
      /\ screen' = screen /\ events' = events /\ published' = published
  BY DEF RestoreUnits
<1>2. PICK r \in Solvers : StandsIV(r)
  BY DEF InferenceInv
<1>3. Identified /\ events = Heard(3) /\ published = "none" /\ estimate = Diagnosed(r)
  BY <1>1, <1>2 DEF StandsIV
<1>4. estimate' = Restored(r)
  <2> DEFINE gmm == IF iv.estimator = "gmm2s" THEN 1 ELSE 0
  <2>1. PICK e : e = estimate
    OBVIOUS
  <2>2. e = [route |-> r, units |-> 0, residuals |-> Plainly, scores |-> Weigh(Plainly),
             corrected |-> 1, overidCorrected |-> 0, repairUnits |-> 0, roles |-> Once, fitted |-> Plainly,
             metaUnits |-> 0]
    BY <1>3, <2>1 DEF Diagnosed, Fields
  <2>3. [e EXCEPT !.units = 1, !.metaUnits = gmm] = Restored(r)
    <3>1. PICK one : one = [e EXCEPT !.units = 1]
      OBVIOUS
    <3>2. one = [route |-> r, units |-> 1, residuals |-> Plainly, scores |-> Weigh(Plainly),
                 corrected |-> 1, overidCorrected |-> 0, repairUnits |-> 0, roles |-> Once, fitted |-> Plainly,
                 metaUnits |-> 0]
      BY <2>2, <3>1
    <3>3. [e EXCEPT !.units = 1, !.metaUnits = gmm] = [one EXCEPT !.metaUnits = gmm]
      BY <3>1
    <3> QED
      BY <3>2, <3>3 DEF Restored, Fields
  <2>4. estimate' = [e EXCEPT !.units = e.units + 1, !.metaUnits = e.metaUnits + gmm]
    BY <2>1 DEF RestoreUnits
  <2>5. e.units + 1 = 1 /\ e.metaUnits + gmm = gmm
    BY <2>2
  <2> HIDE DEF gmm
  <2> QED
    BY <2>3, <2>4, <2>5
<1>5. StandsIV(r)'
  BY <1>1, <1>3, <1>4, SameIVCall DEF StandsIV, Identified
<1> QED
  BY <1>1, <1>5, ReportsIV

LEMMA CompleteStep ==
  ASSUME InferenceInv, Complete
  PROVE  InferenceInv'
<1>1. /\ ivAt = "result" /\ iv' = iv /\ identity' = identity /\ screen' = screen
      /\ estimate' = estimate
  BY DEF Complete
<1>2. PICK r \in Solvers : StandsIV(r)
  BY DEF InferenceInv
<1>3. Identified /\ events = Heard(3) /\ published = "none" /\ estimate = Restored(r)
  BY <1>1, <1>2 DEF StandsIV
<1>4. Identified'
  BY <1>1, <1>3, SameIVCall DEF Identified
<1>5. CASE iv.doomed
  <2>1. 3 \in 0..3 /\ events' = Heard(3) /\ IVFails("not_converged") /\ "not_converged" # "result"
    BY <1>3, <1>5 DEF Complete
  <2>2. /\ identity' \in [partial : Class, near : BOOLEAN]
        /\ (screen = [ratio |-> screen.ratio, one |-> screen.one])' /\ (screen.ratio)' \in Class
    BY <1>1 DEF InferenceInv
  <2> QED
    BY <1>4, <2>1, <2>2, EndsIV
<1>6. CASE ~iv.doomed
  <2>1. ivAt' = "done" /\ published' = "result"
    BY <1>6 DEF Complete, IVFails
  <2>2. events' = Heard(4)
    <3>1. Stages[3 + 1] = "complete" /\ 3 \in 0..3 /\ 3 + 1 = 4 /\ estimate.units = 1
      BY <1>3 DEF Stages, Restored, Fields
    <3>2. events' = Append(Heard(3), [stage |-> Stages[3 + 1], units |-> 1])
      BY <1>3, <1>6, <3>1 DEF Complete, Tell
    <3> QED
      BY <3>1, <3>2, OneMore
  <2>3. 4 \in 0..4 /\ events' = Heard(4)' /\ estimate' = Restored(r)'
    BY <1>1, <1>3, <2>2, SameIVCall
  <2>4. StandsIV(r)'
    BY <1>4, <2>1, <2>3 DEF StandsIV
  <2> QED
    BY <1>1, <2>1, <2>4, ReportsIV
<1> QED
  BY <1>5, <1>6

\* InferenceInv is kept by every step of a fit.
THEOREM InferenceInductive == IVSpec => []InferenceInv
<1>1. IVInit => InferenceInv
  <2> SUFFICES ASSUME IVInit PROVE InferenceInv
    OBVIOUS
  <2>1. StandsIV("core") /\ "core" \in Solvers
    BY DEF IVInit, StandsIV, Solvers
  <2>2. identity \in [partial : Class, near : BOOLEAN]
    BY DEF IVInit, Class, Safe, Deficient
  <2>3. screen = [ratio |-> screen.ratio, one |-> screen.one] /\ screen.ratio \in Class
    BY DEF IVInit, Class, Safe, Deficient
  <2> QED
    BY <2>1, <2>2, <2>3 DEF IVInit, InferenceInv
<1>2. InferenceInv /\ [IVNext]_ivVars => InferenceInv'
  <2> SUFFICES ASSUME InferenceInv, [IVNext]_ivVars PROVE InferenceInv'
    OBVIOUS
  <2>1. CASE UNCHANGED ivVars
    <3>1. /\ iv' = iv /\ ivAt' = ivAt /\ identity' = identity /\ screen' = screen
          /\ estimate' = estimate /\ events' = events /\ published' = published
      BY <2>1 DEF ivVars
    <3>2. (Screens' <=> Screens) /\ (Identified' <=> Identified)
      BY <3>1, SameIVCall DEF Screens, Identified
    <3>3. \A r : StandsIV(r)' <=> StandsIV(r)
      BY <3>1, <3>2, SameIVCall DEF StandsIV
    <3> QED
      BY <3>1, <3>3 DEF InferenceInv
  <2> QED
    BY <2>1, MomentsStep, KappaStep, SolveStep, InferStep, EstimationStep, FirstStageStep,
       DiagnosticsStep, RestoreStep, CompleteStep DEF IVNext
<1> QED
  BY <1>1, <1>2, PTL DEF IVSpec

\* InferenceIsHonest, for any estimator, k-class parameter, weights and
\* covariance, any conditioning of the roles and any test that fails on the way
\* (fit_iv_kclass, fit_iv_kclass_block, fit_iv_gmm2s).
THEOREM InferenceHonest == IVSpec => []InferenceIsHonest
<1>1. InferenceInv => InferenceIsHonest
  <2> SUFFICES ASSUME InferenceInv PROVE InferenceIsHonest
    OBVIOUS
  <2>1. PICK r \in Solvers : StandsIV(r)
    BY DEF InferenceInv
  <2>2. PICK n \in 0..4 : /\ events = Heard(n)
                          /\ n > 0 => Identified
                          /\ published = "result" <=> n = 4
                          /\ published = "result" => estimate = Restored(r)
    <3>1. CASE ivAt \in {"moments", "kappa", "solve", "inference", "estimation"}
      <4>1. events = Heard(0) /\ published = "none" /\ 0 \in 0..4
        BY <2>1, <3>1, NothingHeard DEF StandsIV
      <4> QED
        BY <4>1
    <3>2. CASE ivAt \in {"first_stage", "diagnostics", "restore", "result"}
      <4>1. Identified /\ published = "none" /\ \E k \in 1..3 : events = Heard(k)
        BY <2>1, <3>2 DEF StandsIV
      <4> QED
        BY <4>1
    <3>3. CASE ivAt = "done"
      BY <2>1, <3>3 DEF StandsIV
    <3> QED
      BY <3>1, <3>2, <3>3 DEF InferenceInv
  <2>3. Len(events) = n /\ DOMAIN events = 1..n
        /\ \A i \in 1..n : events[i].stage = Stages[i] /\ events[i].units = 1
    <3>1. \A i \in 1..n : Heard(n)[i] = [stage |-> Stages[i], units |-> 1]
      BY DEF Heard
    <3>2. Len(Heard(n)) = n /\ DOMAIN Heard(n) = 1..n
      BY DEF Heard
    <3> QED
      BY <2>2, <3>1, <3>2
  <2>4. ToldOnlyIdentified
    BY <2>2, <2>3 DEF ToldOnlyIdentified, Identified
  <2>5. ASSUME published = "result"
        PROVE  /\ estimate.residuals = Plainly /\ estimate.fitted = Plainly
               /\ Weighted => estimate.scores.weights = 1 /\ estimate.roles = 1
               /\ estimate.units = 1 /\ estimate.corrected = 1 /\ estimate.overidCorrected = 0
               /\ estimate.metaUnits = IF iv.estimator = "gmm2s" THEN 1 ELSE 0
    BY <2>2, <2>5 DEF Restored, Fields, Once, Weigh, Plainly
  <2>6. WeightedOnce
    BY <2>5 DEF WeightedOnce
  <2>7. UnitsRestoredOnce
    BY <2>3, <2>5 DEF UnitsRestoredOnce
  <2> QED
    BY <2>2, <2>3, <2>4, <2>5, <2>6, <2>7 DEF InferenceIsHonest
<1> QED
  BY <1>1, InferenceInductive, PTL

-----------------------------------------------------------------------------
(* Index sums: what the fold of IndexSum gives for sets of rows.              *)

IndexSums(g, D) ==
  g = [s \in SUBSET D |-> IF s = {} THEN 0
                          ELSE ((CHOOSE x \in s : TRUE) - 1) + g[s \ {CHOOSE x \in s : TRUE}]]

LEMMA IndexSumDef ==
  ASSUME NEW S
  PROVE  IndexSum(S) = (CHOOSE g : IndexSums(g, S))[S]
BY DEF IndexSum, MapThenSumSet, MapThenFoldSet, IndexSums

LEMMA RowsFacts ==
  /\ IsFiniteSet(Rows)
  /\ \A i \in Rows : i \in Int /\ i - 1 \in Nat
  /\ \A s \in SUBSET Rows : IsFiniteSet(s) /\ Cardinality(s) \in Nat /\ Cardinality(s) <= NObs
<1>1. IsFiniteSet(Rows) /\ Cardinality(Rows) = NObs
  BY NumericalCoreAssumption, FS_Interval DEF Rows
<1>2. \A i \in Rows : i \in Int /\ i - 1 \in Nat
  BY NumericalCoreAssumption DEF Rows
<1>3. ASSUME NEW s \in SUBSET Rows
      PROVE  IsFiniteSet(s) /\ Cardinality(s) \in Nat /\ Cardinality(s) <= NObs
  <2>1. IsFiniteSet(s) /\ Cardinality(s) <= NObs
    BY <1>1, FS_Subset
  <2> QED
    BY <2>1, FS_CardinalityType
<1> QED
  BY <1>1, <1>2, <1>3

\* The recursion has a solution on the sets of rows.
LEMMA IndexSumsExist == \E g \in [SUBSET Rows -> Nat] : IndexSums(g, Rows)
<1> DEFINE Few(n) == {s \in SUBSET Rows : Cardinality(s) <= n}
           C(s) == CHOOSE x \in s : TRUE
           Solves(g, n) == /\ g \in [Few(n) -> Nat]
                           /\ \A s \in Few(n) : g[s] = IF s = {} THEN 0 ELSE (C(s) - 1) + g[s \ {C(s)}]
           Missing == {n \in Nat : ~ \E g : Solves(g, n)}
<1>1. \A s \in SUBSET Rows : IsFiniteSet(s) /\ Cardinality(s) \in Nat /\ Cardinality(s) <= NObs
  BY RowsFacts
<1>2. \A s \in SUBSET Rows : s # {} =>
         /\ C(s) \in s /\ C(s) - 1 \in Nat
         /\ Cardinality(s \ {C(s)}) = Cardinality(s) - 1
  <2> TAKE s \in SUBSET Rows
  <2>1. s # {} => C(s) \in s
    OBVIOUS
  <2> HIDE DEF C
  <2>2. s # {} => Cardinality(s \ {C(s)}) = Cardinality(s) - 1
    BY <1>1, <2>1, FS_RemoveElement
  <2> QED
    BY <2>1, <2>2, RowsFacts
<1> HIDE DEF C
<1>3. \A s \in SUBSET Rows : Cardinality(s) = 0 <=> s = {}
  BY <1>1, FS_EmptySet
<1>4. Solves([s \in Few(0) |-> 0], 0)
  <2>1. Few(0) = {{}}
    BY <1>1, <1>3
  <2> QED
    BY <2>1
<1>5. ASSUME NEW n \in Nat, NEW g, Solves(g, n) PROVE \E h : Solves(h, n + 1)
  <2> DEFINE h == [s \in Few(n + 1) |-> IF s = {} THEN 0 ELSE (C(s) - 1) + g[s \ {C(s)}]]
  <2>1. \A s \in Few(n + 1) : s # {} => s \ {C(s)} \in Few(n)
    BY <1>1, <1>2
  <2>2. Few(n) \subseteq Few(n + 1)
    BY <1>1
  <2>3. \A s \in Few(n) : h[s] = g[s]
    BY <1>5, <2>2
  <2>4. h \in [Few(n + 1) -> Nat]
    BY <2>1, <1>2, <1>5
  <2> HIDE DEF Few
  <2>5. ASSUME NEW s \in Few(n + 1)
        PROVE  h[s] = IF s = {} THEN 0 ELSE (C(s) - 1) + h[s \ {C(s)}]
    <3>1. h[s] = IF s = {} THEN 0 ELSE (C(s) - 1) + g[s \ {C(s)}]
      OBVIOUS
    <3>2. s # {} => h[s \ {C(s)}] = g[s \ {C(s)}]
      BY <2>1, <2>3
    <3> HIDE DEF h
    <3> QED
      BY <3>1, <3>2
  <2> QED
    BY <2>4, <2>5
<1>6. Missing = {}
  <2> SUFFICES ASSUME Missing # {} PROVE FALSE
    OBVIOUS
  <2>1. PICK m \in Missing : \A n \in Missing : m <= n
    BY LeastNat
  <2> HIDE DEF Solves, Few
  <2>2. m # 0
    BY <1>4
  <2>3. m - 1 \in Nat /\ m - 1 \notin Missing
    BY <2>1, <2>2
  <2>4. PICK g : Solves(g, m - 1)
    BY <2>3
  <2> QED
    BY <1>5, <2>3, <2>4, <2>1
<1>7. PICK g : Solves(g, NObs)
  <2> HIDE DEF Solves, Few
  <2> QED
    BY <1>6, NumericalCoreAssumption
<1>8. Few(NObs) = SUBSET Rows
  BY <1>1
<1>9. IndexSums(g, Rows)
  BY <1>7, <1>8 DEF IndexSums, C
<1> QED
  BY <1>7, <1>8, <1>9

\* A solution on all rows gives the index sum of every set of rows.
LEMMA IndexSumIs ==
  ASSUME NEW h \in [SUBSET Rows -> Nat], IndexSums(h, Rows), NEW S \in SUBSET Rows
  PROVE  IndexSum(S) = h[S]
<1> DEFINE C(s) == CHOOSE x \in s : TRUE
           k == [s \in SUBSET S |-> h[s]]
           g == CHOOSE f : IndexSums(f, S)
           Missing == {n \in Nat : \E s \in SUBSET S : Cardinality(s) = n /\ g[s] # h[s]}
<1>1. \A s \in SUBSET S : IsFiniteSet(s) /\ Cardinality(s) \in Nat
  BY RowsFacts
<1>2. \A s \in SUBSET S : \A x \in s : Cardinality(s \ {x}) = Cardinality(s) - 1
  BY <1>1, FS_RemoveElement
<1>3. \A s \in SUBSET S : h[s] = IF s = {} THEN 0 ELSE (C(s) - 1) + h[s \ {C(s)}]
  BY DEF IndexSums
<1>4. \A s \in SUBSET S : s # {} => C(s) \in s
  OBVIOUS
<1>5. IndexSums(k, S)
  <2> HIDE DEF C
  <2>1. \A s \in SUBSET S : k[s] = IF s = {} THEN 0 ELSE (C(s) - 1) + k[s \ {C(s)}]
    BY <1>3, <1>4
  <2> HIDE DEF k
  <2>2. k = [s \in SUBSET S |-> IF s = {} THEN 0 ELSE (C(s) - 1) + k[s \ {C(s)}]]
    BY <2>1 DEF k
  <2> QED
    BY <2>2 DEF IndexSums, C
<1>6. IndexSums(g, S)
  BY <1>5
<1>7. \A s \in SUBSET S : g[s] = IF s = {} THEN 0 ELSE (C(s) - 1) + g[s \ {C(s)}]
  <2> HIDE DEF g
  <2> QED
    BY <1>6 DEF IndexSums
<1> HIDE DEF C, g
<1>8. Missing = {}
  <2> SUFFICES ASSUME Missing # {} PROVE FALSE
    OBVIOUS
  <2>1. PICK m \in Missing : \A n \in Missing : m <= n
    BY LeastNat
  <2>2. PICK s \in SUBSET S : Cardinality(s) = m /\ g[s] # h[s]
    BY <2>1
  <2>3. s # {}
    BY <1>3, <1>7, <2>2
  <2>4. Cardinality(s \ {C(s)}) = m - 1
    BY <1>2, <1>4, <2>2, <2>3
  <2>5. m - 1 \in Nat
    BY <1>1, <2>4
  <2>6. m - 1 \notin Missing
    BY <2>1, <2>5
  <2>7. g[s \ {C(s)}] = h[s \ {C(s)}]
    BY <2>4, <2>5, <2>6
  <2> QED
    BY <1>3, <1>7, <2>2, <2>3, <2>7
<1>9. g[S] = h[S]
  BY <1>1, <1>8
<1> QED
  BY <1>9, IndexSumDef DEF g

\* An index sum is a number, and any row may be taken out of it first.
LEMMA IndexSumTakesOut ==
  /\ IndexSum({}) = 0
  /\ \A S \in SUBSET Rows :
       /\ IndexSum(S) \in Nat
       /\ \A i \in S : IndexSum(S) = Index(i) + IndexSum(S \ {i})
<1>1. PICK h \in [SUBSET Rows -> Nat] : IndexSums(h, Rows)
  BY IndexSumsExist
<1>2. \A S \in SUBSET Rows : IndexSum(S) = h[S]
  BY <1>1, IndexSumIs
<1> DEFINE C(s) == CHOOSE x \in s : TRUE
           Takes(s) == \A i \in s : h[s] = (i - 1) + h[s \ {i}]
           Missing == {n \in Nat : \E s \in SUBSET Rows : Cardinality(s) = n /\ ~Takes(s)}
<1>3. \A s \in SUBSET Rows : h[s] = IF s = {} THEN 0 ELSE (C(s) - 1) + h[s \ {C(s)}]
  BY <1>1 DEF IndexSums
<1>4. \A s \in SUBSET Rows : \A x \in s : Cardinality(s \ {x}) = Cardinality(s) - 1
  BY RowsFacts, FS_RemoveElement
<1>5. Missing = {}
  <2> SUFFICES ASSUME Missing # {} PROVE FALSE
    OBVIOUS
  <2>1. PICK m \in Missing : \A n \in Missing : m <= n
    BY LeastNat
  <2>2. PICK s \in SUBSET Rows : Cardinality(s) = m /\ ~Takes(s)
    BY <2>1
  <2>3. PICK x \in s : h[s] # (x - 1) + h[s \ {x}]
    BY <2>2
  <2> DEFINE y == C(s)
  <2>4. y \in s /\ h[s] = (y - 1) + h[s \ {y}]
    BY <1>3, <2>3
  <2> HIDE DEF y
  <2>5. x # y
    BY <2>3, <2>4
  <2>6. \A z \in s : Takes(s \ {z})
    <3> TAKE z \in s
    <3>1. Cardinality(s \ {z}) = m - 1
      BY <1>4, <2>2
    <3>2. m - 1 \in Nat
      BY RowsFacts, <3>1
    <3>3. m - 1 \notin Missing
      BY <2>1, <3>2
    <3> QED
      BY <3>1, <3>2, <3>3
  <2>7. h[s \ {x}] = (y - 1) + h[(s \ {x}) \ {y}]
    BY <2>4, <2>5, <2>6
  <2>8. h[s \ {y}] = (x - 1) + h[(s \ {y}) \ {x}]
    BY <2>4, <2>5, <2>6
  <2>9. (s \ {x}) \ {y} = (s \ {y}) \ {x}
    OBVIOUS
  <2>10. x - 1 \in Nat /\ y - 1 \in Nat /\ h[(s \ {x}) \ {y}] \in Nat
    BY <2>3, <2>4, RowsFacts
  <2>11. \A a, b, c \in Nat : a + (b + c) = b + (a + c)
    OBVIOUS
  <2>12. (x - 1) + ((y - 1) + h[(s \ {x}) \ {y}]) = (y - 1) + ((x - 1) + h[(s \ {x}) \ {y}])
    BY <2>10, <2>11
  <2> QED
    BY <2>3, <2>4, <2>7, <2>8, <2>9, <2>12
<1>6. \A s \in SUBSET Rows : Takes(s)
  BY RowsFacts, <1>5
<1>7. h[{}] = 0
  BY <1>3
<1> QED
  BY <1>2, <1>6, <1>7 DEF Index

\* The sum of one index names the row.
LEMMA IndexSumOfOne ==
  ASSUME NEW i \in Rows
  PROVE  IndexSum({i}) = Index(i)
<1>1. IndexSum({i}) = Index(i) + IndexSum({i} \ {i})
  BY IndexSumTakesOut
<1>2. {i} \ {i} = {}
  OBVIOUS
<1> QED
  BY <1>1, <1>2, IndexSumTakesOut, RowsFacts DEF Index

-----------------------------------------------------------------------------
(* The order of the vertices: InOrder lists a set of levels, each once.       *)

LevelNodes == Terms \X Levels

LEMMA VertexFacts ==
  /\ IsFiniteSet(LevelNodes)
  /\ \A x \in LevelNodes : x[1] \in Terms /\ x[2] \in Levels /\ x = <<x[1], x[2]>>
  /\ \A x \in LevelNodes : x[1] \in Nat /\ x[2] \in Nat
  /\ \A j \in Terms, v \in Levels : <<j, v>> \in LevelNodes
  /\ \A L \in SUBSET LevelNodes : IsFiniteSet(L) /\ Cardinality(L) \in Nat
<1>1. IsFiniteSet(Terms) /\ IsFiniteSet(Levels)
  BY NumericalCoreAssumption, FS_Interval DEF Terms, Levels
<1>2. IsFiniteSet(LevelNodes)
  BY <1>1, FS_Product DEF LevelNodes
<1>3. \A L \in SUBSET LevelNodes : IsFiniteSet(L)
  BY <1>2, FS_Subset
<1>4. \A L \in SUBSET LevelNodes : Cardinality(L) \in Nat
  BY <1>3, FS_CardinalityType
<1>5. \A j \in Terms : j \in Nat
  BY NumericalCoreAssumption DEF Terms
<1>6. \A v \in Levels : v \in Nat
  BY NumericalCoreAssumption DEF Levels
<1> QED
  BY <1>2, <1>3, <1>4, <1>5, <1>6 DEF LevelNodes

\* VertexBefore is a strict total order.
LEMMA VertexOrder ==
  /\ \A x \in LevelNodes : ~VertexBefore(x, x)
  /\ \A x, y, z \in LevelNodes : VertexBefore(x, y) /\ VertexBefore(y, z) => VertexBefore(x, z)
  /\ \A x, y \in LevelNodes : x # y => VertexBefore(x, y) \/ VertexBefore(y, x)
<1>1. \A x \in LevelNodes : ~VertexBefore(x, x)
  BY VertexFacts DEF VertexBefore
<1>2. \A x, y, z \in LevelNodes : VertexBefore(x, y) /\ VertexBefore(y, z) => VertexBefore(x, z)
  <2> TAKE x, y, z \in LevelNodes
  <2>1. x[1] \in Nat /\ x[2] \in Nat /\ y[1] \in Nat /\ y[2] \in Nat /\ z[1] \in Nat /\ z[2] \in Nat
    BY VertexFacts
  <2> QED
    BY <2>1 DEF VertexBefore
<1>3. \A x, y \in LevelNodes : x # y => VertexBefore(x, y) \/ VertexBefore(y, x)
  <2> TAKE x, y \in LevelNodes
  <2>1. x[1] \in Nat /\ x[2] \in Nat /\ y[1] \in Nat /\ y[2] \in Nat
    BY VertexFacts
  <2>2. x[1] = y[1] /\ x[2] = y[2] => x = y
    BY VertexFacts
  <2> QED
    BY <2>1, <2>2 DEF VertexBefore
<1> QED
  BY <1>1, <1>2, <1>3

\* The place of a level among those of L.
Rank(L, x) == Cardinality({y \in L : VertexBefore(y, x)})

LEMMA RankIsBijection ==
  ASSUME NEW L \in SUBSET LevelNodes
  PROVE  /\ \A x \in L : Rank(L, x) \in 0..(Cardinality(L) - 1)
         /\ \A x, y \in L : Rank(L, x) = Rank(L, y) => x = y
         /\ \A n \in 0..(Cardinality(L) - 1) : \E x \in L : Rank(L, x) = n
<1> DEFINE R == {p \in L \X L : VertexBefore(p[1], p[2])}
<1>1. \A x, y \in L : <<x, y>> \in R <=> VertexBefore(x, y)
  OBVIOUS
<1> HIDE DEF R
<1>2. StrictTotal(L, R)
  BY <1>1, VertexOrder DEF StrictTotal
<1>3. IsFiniteSet(L)
  BY VertexFacts
<1>4. \A x \in L : Rank(L, x) = Place(L, R, x)
  <2> TAKE x \in L
  <2>1. {y \in L : VertexBefore(y, x)} = {y \in L : <<y, x>> \in R}
    BY <1>1
  <2> QED
    BY <2>1 DEF Rank, Place
<1> QED
  BY <1>2, <1>3, <1>4, PlaceIsBijection

LEMMA InOrderLists ==
  ASSUME NEW L \in SUBSET LevelNodes
  PROVE  /\ InOrder(L) \in Seq(L)
         /\ Len(InOrder(L)) = Cardinality(L) /\ Cardinality(L) \in Nat
         /\ \A a, b \in 1..Cardinality(L) : InOrder(L)[a] = InOrder(L)[b] => a = b
         /\ \A x \in L : \E a \in 1..Cardinality(L) : InOrder(L)[a] = x
<1> DEFINE N == Cardinality(L)
           At(a) == CHOOSE x \in L : Rank(L, x) = a - 1
<1>1. N \in Nat
  BY VertexFacts
<1>2. InOrder(L) = [a \in 1..N |-> At(a)]
  BY DEF InOrder, Rank
<1>3. \A a \in 1..N : At(a) \in L /\ Rank(L, At(a)) = a - 1
  <2> TAKE a \in 1..N
  <2>1. a - 1 \in 0..(N - 1)
    BY <1>1
  <2>2. \E x \in L : Rank(L, x) = a - 1
    BY <2>1, RankIsBijection
  <2> QED
    BY <2>2
<1> HIDE DEF At
<1>4. InOrder(L) \in Seq(L) /\ Len(InOrder(L)) = N
  <2>1. InOrder(L) \in [1..N -> L]
    BY <1>2, <1>3
  <2> QED
    BY <1>1, <2>1
<1>5. \A a, b \in 1..N : At(a) = At(b) => a = b
  BY <1>1, <1>3
<1>6. \A x \in L : \E a \in 1..N : At(a) = x
  <2> TAKE x \in L
  <2>1. Rank(L, x) \in 0..(N - 1)
    BY RankIsBijection
  <2>2. Rank(L, x) + 1 \in 1..N /\ (Rank(L, x) + 1) - 1 = Rank(L, x)
    BY <1>1, <2>1
  <2>3. PICK a \in 1..N : a = Rank(L, x) + 1 /\ a - 1 = Rank(L, x)
    BY <2>2
  <2>4. At(a) \in L /\ Rank(L, At(a)) = Rank(L, x)
    BY <1>3, <2>3
  <2>5. \A y \in L : Rank(L, y) = Rank(L, x) => y = x
    BY RankIsBijection
  <2> QED
    BY <2>4, <2>5
<1> QED
  BY <1>1, <1>2, <1>4, <1>5, <1>6

-----------------------------------------------------------------------------
(* The inductive invariant.  A level is queued once because a level that is   *)
(* queued again would have come down to degree one twice, and every level in  *)
(* the queue already had degree one or none: that is Served.  SumNamesTheRow  *)
(* holds because counts and index sums are those of the active rows, which is *)
(* Counted.  Waiting is what makes the answer complete: a level of degree one *)
(* is still to be served.                                                     *)

Counted == pc # "count" =>
  \A j \in Terms, v \in Levels : /\ counts[j][v] = Cardinality(RowsAt(alive, j, v))
                                 /\ rowSum[j][v] = IndexSum(RowsAt(alive, j, v))
Served == pc # "count" => \A a \in 1..Len(queue) : counts[queue[a][1]][queue[a][2]] <= 1
Waiting == pc # "count" =>
  \A j \in Terms, v \in Levels :
    counts[j][v] = 1 => \E a \in 1..Len(queue) : a >= head /\ queue[a] = <<j, v>>
NotCounted == pc = "count" => alive = Rows /\ queue = <<>> /\ head = 1

CoreInv == /\ TypeOK /\ sample \in Samples
           /\ NotCounted /\ LevelQueuedOnce /\ Counted /\ Served /\ Waiting

LEMMA SampleFacts ==
  ASSUME sample \in Samples
  PROVE  /\ sample \in Peel!SampleType
         /\ \A j \in Terms, i \in Rows : sample.code[j][i] \in Levels
         /\ sample.unit = Rows /\ sample.dropSingletons = TRUE /\ sample.checkZero = FALSE
         /\ \A j \in Terms : sample.eligible[j] = Rows
<1>1. sample \in CoreSamples([Rows -> Levels])
  BY NumericalCoreAssumption
<1>2. /\ sample.code \in [Terms -> [Rows -> Levels]]
      /\ sample.unit = Rows /\ sample.dropSingletons = TRUE /\ sample.checkZero = FALSE
      /\ sample.positive = {}
      /\ sample.eligible = [j \in Terms |-> Rows]
      /\ sample = [code |-> sample.code, unit |-> sample.unit, positive |-> sample.positive,
                   eligible |-> sample.eligible, checkZero |-> sample.checkZero,
                   dropSingletons |-> sample.dropSingletons]
  BY <1>1 DEF CoreSamples
<1>3. \A j \in Terms : sample.code[j] \in [Rows -> Levels]
  BY <1>2
<1>4. sample \in Peel!SampleType
  BY <1>2 DEF Peel!SampleType, Peel!Terms, Peel!Rows, Peel!Levels, Terms, Rows, Levels
<1> QED
  BY <1>2, <1>3, <1>4

LEMMA RowsAtFacts ==
  ASSUME NEW S \in SUBSET Rows, NEW j, NEW v
  PROVE  /\ RowsAt(S, j, v) \in SUBSET Rows
         /\ IsFiniteSet(RowsAt(S, j, v))
         /\ Cardinality(RowsAt(S, j, v)) \in Nat
         /\ IndexSum(RowsAt(S, j, v)) \in Nat
<1>1. RowsAt(S, j, v) \in SUBSET Rows
  BY DEF RowsAt
<1> QED
  BY <1>1, RowsFacts, IndexSumTakesOut

\* What a level loses with a row.
LEMMA RowGoes ==
  ASSUME NEW S \in SUBSET Rows, NEW i \in S, NEW j, NEW v
  PROVE  /\ sample.code[j][i] # v => RowsAt(S \ {i}, j, v) = RowsAt(S, j, v)
         /\ sample.code[j][i] = v =>
              /\ Cardinality(RowsAt(S \ {i}, j, v)) = Cardinality(RowsAt(S, j, v)) - 1
              /\ IndexSum(RowsAt(S \ {i}, j, v)) = IndexSum(RowsAt(S, j, v)) - Index(i)
<1>1. sample.code[j][i] # v => RowsAt(S \ {i}, j, v) = RowsAt(S, j, v)
  BY DEF RowsAt
<1>2. ASSUME sample.code[j][i] = v
      PROVE  /\ Cardinality(RowsAt(S \ {i}, j, v)) = Cardinality(RowsAt(S, j, v)) - 1
             /\ IndexSum(RowsAt(S \ {i}, j, v)) = IndexSum(RowsAt(S, j, v)) - Index(i)
  <2>1. RowsAt(S \ {i}, j, v) = RowsAt(S, j, v) \ {i} /\ i \in RowsAt(S, j, v)
    BY <1>2 DEF RowsAt
  <2> DEFINE R == RowsAt(S, j, v)
  <2>2. R \in SUBSET Rows /\ IsFiniteSet(R)
    BY RowsAtFacts
  <2>4. R \ {i} \in SUBSET Rows
    BY <2>2
  <2> HIDE DEF R
  <2>3. Cardinality(R \ {i}) = Cardinality(R) - 1
    BY <2>1, <2>2, FS_RemoveElement DEF R
  <2>5. IndexSum(R) = Index(i) + IndexSum(R \ {i}) /\ IndexSum(R \ {i}) \in Nat /\ Index(i) \in Nat
    BY <2>1, <2>2, <2>4, IndexSumTakesOut, RowsFacts DEF R, Index
  <2>6. IndexSum(R \ {i}) = IndexSum(R) - Index(i)
    BY <2>5
  <2> QED
    BY <2>1, <2>3, <2>6 DEF R
<1> QED
  BY <1>1, <1>2

\* Counts and index sums of the active rows name the last row of a level.
LEMMA CountedNames ==
  ASSUME TypeOK, Counted
  PROVE  SumNamesTheRow
<1> SUFFICES ASSUME pc # "count", NEW j \in Terms, NEW v \in Levels, counts[j][v] = 1
             PROVE  RowsAt(alive, j, v) = {rowSum[j][v] + 1}
  BY DEF SumNamesTheRow
<1>1. RowsAt(alive, j, v) \in SUBSET Rows /\ IsFiniteSet(RowsAt(alive, j, v))
  BY RowsAtFacts DEF TypeOK
<1>2. PICK i : RowsAt(alive, j, v) = {i}
  BY <1>1, FS_Singleton DEF Counted
<1>3. i \in Rows /\ i \in Int
  BY <1>1, <1>2, RowsFacts
<1>4. rowSum[j][v] = i - 1
  BY <1>2, <1>3, IndexSumOfOne DEF Counted, Index
<1> QED
  BY <1>2, <1>3, <1>4

LEMMA InitCore == Init => CoreInv
<1> SUFFICES ASSUME Init PROVE CoreInv
  OBVIOUS
<1>1. sample \in Peel!SampleType
  BY SampleFacts DEF Init
<1>2. TypeOK
  BY <1>1 DEF Init, TypeOK
<1> QED
  BY <1>2 DEF Init, CoreInv, NotCounted, LevelQueuedOnce, Counted, Served, Waiting

LEMMA CountStep ==
  ASSUME CoreInv, Count
  PROVE  CoreInv'
<1>1. /\ alive = Rows /\ queue = <<>> /\ head = 1 /\ alive' = Rows /\ head' = 1
      /\ pc' = "peel" /\ sample' = sample /\ sample \in Samples
  BY DEF CoreInv, NotCounted, Count
<1>2. \A j \in Terms, v \in Levels :
         /\ counts'[j][v] = Cardinality(RowsAt(Rows, j, v)) /\ counts'[j][v] \in Nat
         /\ rowSum'[j][v] = IndexSum(RowsAt(Rows, j, v)) /\ rowSum'[j][v] \in Nat
  BY RowsAtFacts DEF Count
<1>3. counts' \in [Terms -> [Levels -> Nat]] /\ rowSum' \in [Terms -> [Levels -> Nat]]
  BY <1>2, RowsAtFacts DEF Count
<1> DEFINE L == DegreeOne(counts')
<1>4. L \in SUBSET LevelNodes
  BY DEF DegreeOne, LevelNodes
<1>5. \A lv \in L : counts'[lv[1]][lv[2]] = 1
  BY DEF DegreeOne
<1>6. \A j \in Terms, v \in Levels : counts'[j][v] = 1 => <<j, v>> \in L
  BY DEF DegreeOne
<1> HIDE DEF L
<1>7. queue' = InOrder(L)
  BY DEF Count, L
<1>8. /\ queue' \in Seq(L) /\ Len(queue') \in Nat
      /\ \A a, b \in 1..Len(queue') : queue'[a] = queue'[b] => a = b
      /\ \A x \in L : \E a \in 1..Len(queue') : queue'[a] = x
  BY <1>4, <1>7, InOrderLists
<1>9. \A a \in 1..Len(queue') : queue'[a] \in L
  BY <1>8
<1>10. queue' \in Seq(Terms \X Levels)
  BY <1>4, <1>8, SeqMonotonic DEF LevelNodes
<1>11. TypeOK'
  BY <1>1, <1>3, <1>10, SampleFacts DEF TypeOK
<1>12. LevelQueuedOnce'
  BY <1>8 DEF LevelQueuedOnce
<1>13. Counted'
  <2>1. \A j, v : RowsAt(Rows, j, v)' = RowsAt(Rows, j, v)
    BY <1>1 DEF RowsAt, Rows
  <2> QED
    BY <1>1, <1>2 DEF Counted, RowsAt
<1>14. Served'
  BY <1>5, <1>9 DEF Served
<1>15. Waiting'
  <2> SUFFICES ASSUME NEW j \in Terms, NEW v \in Levels, counts'[j][v] = 1
               PROVE  \E a \in 1..Len(queue') : a >= head' /\ queue'[a] = <<j, v>>
    BY DEF Waiting
  <2>1. PICK a \in 1..Len(queue') : queue'[a] = <<j, v>>
    BY <1>6, <1>8
  <2> QED
    BY <1>1, <1>8, <2>1
<1> QED
  BY <1>1, <1>11, <1>12, <1>13, <1>14, <1>15 DEF CoreInv, NotCounted

LEMMA SkipStep ==
  ASSUME CoreInv, SkipLevel
  PROVE  CoreInv'
<1>1. /\ pc = "peel" /\ head \in Nat \ {0} /\ head <= Len(queue) /\ head' = head + 1
      /\ UNCHANGED <<sample, alive, counts, rowSum, queue, coreCode, pc>>
      /\ Len(queue) \in Nat
  BY DEF CoreInv, TypeOK, SkipLevel, Serving
<1> DEFINE lv == queue[head]
<1>2. lv \in LevelNodes
  BY <1>1 DEF CoreInv, TypeOK, LevelNodes
<1>3. counts[lv[1]][lv[2]] # 1
  <2>1. counts[lv[1]][lv[2]] # 1 \/ Candidate(lv) \notin alive
    BY DEF SkipLevel
  <2>2. SumNamesTheRow
    BY CountedNames DEF CoreInv
  <2>3. lv[1] \in Terms /\ lv[2] \in Levels
    BY <1>2, VertexFacts
  <2> HIDE DEF lv
  <2>4. counts[lv[1]][lv[2]] = 1 => Candidate(lv) \in RowsAt(alive, lv[1], lv[2])
    BY <1>1, <2>2, <2>3 DEF SumNamesTheRow, Candidate
  <2>5. RowsAt(alive, lv[1], lv[2]) \subseteq alive
    BY DEF RowsAt
  <2> QED
    BY <2>1, <2>4, <2>5
<1>4. TypeOK'
  BY <1>1 DEF CoreInv, TypeOK
<1>5. LevelQueuedOnce' /\ Counted' /\ Served'
  BY <1>1 DEF CoreInv, LevelQueuedOnce, Counted, Served, RowsAt
<1>6. Waiting'
  <2> SUFFICES ASSUME NEW j \in Terms, NEW v \in Levels, counts[j][v] = 1
               PROVE  \E a \in 1..Len(queue) : a >= head + 1 /\ queue[a] = <<j, v>>
    BY <1>1 DEF Waiting
  <2>1. PICK a \in 1..Len(queue) : a >= head /\ queue[a] = <<j, v>>
    BY <1>1 DEF CoreInv, Waiting
  <2>2. a # head
    BY <1>3, <2>1
  <2> QED
    BY <1>1, <2>1, <2>2
<1> QED
  BY <1>1, <1>4, <1>5, <1>6 DEF CoreInv, NotCounted

\* The row that goes is the last one of the level that is served.
LEMMA PeelsLastRow ==
  ASSUME CoreInv, PeelRow
  PROVE  LET lv == queue[head]
             i == Candidate(lv)
         IN  /\ lv[1] \in Terms /\ lv[2] \in Levels
             /\ i \in alive /\ i \in Rows
             /\ RowsAt(alive, lv[1], lv[2]) = {i}
             /\ sample.code[lv[1]][i] = lv[2]
<1> DEFINE lv == queue[head]
           i == Candidate(lv)
<1>0. queue \in Seq(Terms \X Levels) /\ head \in Nat \ {0} /\ alive \subseteq Rows
  BY DEF CoreInv, TypeOK
<1>1. /\ pc = "peel" /\ head \in 1..Len(queue) /\ counts[lv[1]][lv[2]] = 1 /\ i \in alive
      /\ alive \subseteq Rows
  <2>1. pc = "peel" /\ head <= Len(queue) /\ counts[lv[1]][lv[2]] = 1 /\ i \in alive
    BY DEF PeelRow, Serving
  <2> QED
    BY <1>0, <2>1
<1>2. lv \in LevelNodes
  BY <1>0, <1>1 DEF LevelNodes
<1>3. lv[1] \in Terms /\ lv[2] \in Levels
  BY <1>2, VertexFacts
<1>4. SumNamesTheRow
  BY CountedNames DEF CoreInv
<1>5. RowsAt(alive, lv[1], lv[2]) = {i}
  <2> HIDE DEF lv
  <2> QED
    BY <1>1, <1>3, <1>4 DEF SumNamesTheRow, Candidate
<1>6. sample.code[lv[1]][i] = lv[2]
  <2> HIDE DEF lv, i
  <2> QED
    BY <1>5 DEF RowsAt
<1> QED
  BY <1>1, <1>3, <1>5, <1>6

LEMMA FinishStep ==
  ASSUME CoreInv, Finish
  PROVE  CoreInv'
<1>1. pc = "peel" /\ pc' = "done" /\ UNCHANGED <<sample, alive, counts, rowSum, queue, head>>
  BY DEF Finish
<1>2. TypeOK' /\ (sample \in Samples)'
  BY <1>1 DEF CoreInv, TypeOK
<1>3. LevelQueuedOnce' /\ NotCounted'
  BY <1>1 DEF CoreInv, LevelQueuedOnce, NotCounted
<1>4. Counted' /\ Served'
  BY <1>1 DEF CoreInv, Counted, Served, RowsAt
<1>5. Waiting'
  BY <1>1 DEF CoreInv, Waiting
<1> QED
  BY <1>2, <1>3, <1>4, <1>5 DEF CoreInv

LEMMA StutterStep ==
  ASSUME CoreInv, UNCHANGED vars
  PROVE  CoreInv'
<1>1. UNCHANGED <<sample, alive, counts, rowSum, queue, head, pc>>
  BY DEF vars
<1>2. TypeOK' /\ (sample \in Samples)'
  BY <1>1 DEF CoreInv, TypeOK
<1>3. LevelQueuedOnce' /\ NotCounted'
  BY <1>1 DEF CoreInv, LevelQueuedOnce, NotCounted
<1>4. Counted' /\ Served'
  BY <1>1 DEF CoreInv, Counted, Served, RowsAt
<1>5. Waiting'
  BY <1>1 DEF CoreInv, Waiting
<1> QED
  BY <1>2, <1>3, <1>4, <1>5 DEF CoreInv

\* The places of two sequences joined, the first m long and the second n.
LEMMA JoinedPlaces ==
  ASSUME NEW m \in Nat, NEW n \in Nat, NEW s, NEW p, NEW t, Len(s) = m + n,
         \A a \in 1..(m + n) : s[a] = IF a <= m THEN p[a] ELSE t[a - m]
  PROVE  \A a \in 1..Len(s) :
           /\ a <= m => a \in 1..m /\ s[a] = p[a]
           /\ a > m => a - m \in 1..n /\ s[a] = t[a - m]
<1> TAKE a \in 1..Len(s)
<1>1. a \in 1..(m + n) /\ a \in Nat
  OBVIOUS
<1>2. a <= m => s[a] = p[a]
  BY <1>1
<1>3. a > m => s[a] = t[a - m]
  BY <1>1
<1>4. a > m => a - m \in 1..n
  BY <1>1
<1> QED
  BY <1>1, <1>2, <1>3, <1>4

LEMMA PeelStep ==
  ASSUME CoreInv, PeelRow
  PROVE  CoreInv'
<1> DEFINE lv0 == queue[head]
           i0 == Candidate(lv0)
<1>1. /\ alive \subseteq Rows /\ counts \in [Terms -> [Levels -> Nat]]
      /\ rowSum \in [Terms -> [Levels -> Nat]] /\ queue \in Seq(LevelNodes)
      /\ head \in Nat \ {0} /\ sample \in Samples
  BY DEF CoreInv, TypeOK, LevelNodes
<1>2. PICK lv, i : lv = lv0 /\ i = i0
  OBVIOUS
<1>3. /\ pc = "peel" /\ head <= Len(queue) /\ lv = queue[head]
      /\ counts[lv[1]][lv[2]] = 1 /\ alive' = alive \ {i}
      /\ counts' = [j \in Terms |-> [counts[j] EXCEPT ![sample.code[j][i]] = @ - 1]]
      /\ rowSum' = [j \in Terms |-> [rowSum[j] EXCEPT ![sample.code[j][i]] = @ - Index(i)]]
      /\ queue' = queue \o InOrder(NewDegreeOne(counts', i))
      /\ head' = head + 1 /\ sample' = sample /\ pc' = pc
  BY <1>2 DEF PeelRow, Serving
<1>4. /\ lv[1] \in Terms /\ lv[2] \in Levels /\ i \in alive /\ i \in Rows
      /\ RowsAt(alive, lv[1], lv[2]) = {i} /\ sample.code[lv[1]][i] = lv[2]
  BY <1>2, PeelsLastRow
<1> HIDE DEF lv0, i0
<1>5. Len(queue) \in Nat /\ \A a \in 1..Len(queue) : queue[a] \in LevelNodes
  BY <1>1
<1>moved. head' = head + 1 /\ head <= Len(queue) /\ lv = queue[head]
  BY <1>3
<1>51. head \in 1..Len(queue)
  BY <1>1, <1>moved, <1>5
<1>52. alive \in SUBSET Rows /\ alive \ {i} \in SUBSET Rows
  BY <1>1
<1>6. lv = <<lv[1], lv[2]>>
  <2>1. lv \in LevelNodes
    BY <1>3, <1>5, <1>51
  <2> QED
    BY <2>1, VertexFacts
<1>7. \A j \in Terms : sample.code[j][i] \in Levels
  BY <1>1, <1>4, SampleFacts
<1>8. \A j \in Terms, v \in Levels :
         /\ counts[j][v] = Cardinality(RowsAt(alive, j, v)) /\ counts[j][v] \in Nat
         /\ rowSum[j][v] = IndexSum(RowsAt(alive, j, v)) /\ rowSum[j][v] \in Nat
  BY <1>1, <1>3 DEF CoreInv, Counted
<1>9. \A j \in Terms, v \in Levels :
         /\ counts'[j][v] = IF v = sample.code[j][i] THEN counts[j][v] - 1 ELSE counts[j][v]
         /\ rowSum'[j][v] = IF v = sample.code[j][i] THEN rowSum[j][v] - Index(i) ELSE rowSum[j][v]
  BY <1>1, <1>3
<1>10. \A j, v : RowsAt(alive, j, v)' = RowsAt(alive \ {i}, j, v)
  BY <1>3 DEF RowsAt
<1>11. \A j \in Terms, v \in Levels :
         /\ counts'[j][v] = Cardinality(RowsAt(alive \ {i}, j, v))
         /\ rowSum'[j][v] = IndexSum(RowsAt(alive \ {i}, j, v))
  <2> TAKE j \in Terms, v \in Levels
  <2>1. /\ sample.code[j][i] # v => RowsAt(alive \ {i}, j, v) = RowsAt(alive, j, v)
        /\ sample.code[j][i] = v =>
             /\ Cardinality(RowsAt(alive \ {i}, j, v)) = Cardinality(RowsAt(alive, j, v)) - 1
             /\ IndexSum(RowsAt(alive \ {i}, j, v)) = IndexSum(RowsAt(alive, j, v)) - Index(i)
    BY <1>4, <1>52, RowGoes
  <2> QED
    BY <1>8, <1>9, <2>1
<1>12. \A j \in Terms, v \in Levels : counts'[j][v] \in Nat /\ rowSum'[j][v] \in Nat
  <2>1. \A j, v : /\ Cardinality(RowsAt(alive \ {i}, j, v)) \in Nat
                   /\ IndexSum(RowsAt(alive \ {i}, j, v)) \in Nat
    BY <1>52, RowsAtFacts
  <2> QED
    BY <1>11, <2>1
<1>13. counts' \in [Terms -> [Levels -> Nat]] /\ rowSum' \in [Terms -> [Levels -> Nat]]
  <2>1. \A j \in Terms : counts'[j] \in [Levels -> Nat] /\ rowSum'[j] \in [Levels -> Nat]
    <3> TAKE j \in Terms
    <3>1. /\ counts'[j] = [counts[j] EXCEPT ![sample.code[j][i]] = @ - 1]
          /\ rowSum'[j] = [rowSum[j] EXCEPT ![sample.code[j][i]] = @ - Index(i)]
      BY <1>3
    <3>2. DOMAIN counts'[j] = Levels /\ DOMAIN rowSum'[j] = Levels
      BY <1>1, <3>1
    <3>3. counts'[j] = [v \in Levels |-> counts'[j][v]] /\ rowSum'[j] = [v \in Levels |-> rowSum'[j][v]]
      BY <1>1, <3>1, <3>2
    <3> QED
      BY <1>12, <3>3
  <2>2. counts' = [j \in Terms |-> counts'[j]] /\ rowSum' = [j \in Terms |-> rowSum'[j]]
    BY <1>3
  <2> QED
    BY <2>1, <2>2
<1> DEFINE L == NewDegreeOne(counts', i)
           q == InOrder(L)
<1>14. L \in SUBSET LevelNodes
  BY <1>7, VertexFacts DEF NewDegreeOne
<1>15. \A x \in L : /\ counts'[x[1]][x[2]] = 1
                    /\ \E j \in Terms : x = <<j, sample.code[j][i]>>
  BY DEF NewDegreeOne
<1>16. \A j \in Terms, v \in Levels :
         counts'[j][v] = 1 /\ v = sample.code[j][i] => <<j, v>> \in L
  BY DEF NewDegreeOne
<1> HIDE DEF L
<1>17. /\ q \in Seq(L) /\ Len(q) \in Nat
       /\ \A a, b \in 1..Len(q) : q[a] = q[b] => a = b
       /\ \A x \in L : \E a \in 1..Len(q) : q[a] = x
  BY <1>14, InOrderLists
<1>18. queue' = queue \o q
  BY <1>3 DEF L
<1> HIDE DEF q
<1>19. q \in Seq(LevelNodes) /\ \A a \in 1..Len(q) : q[a] \in L
  BY <1>14, <1>17, SeqMonotonic
<1>20. /\ queue' \in Seq(LevelNodes) /\ Len(queue') = Len(queue) + Len(q)
       /\ \A a \in 1..(Len(queue) + Len(q)) :
            queue'[a] = IF a <= Len(queue) THEN queue[a] ELSE q[a - Len(queue)]
  BY <1>1, <1>18, <1>19, ConcatProperties
<1>joined. \A a \in 1..Len(queue') :
             /\ a <= Len(queue) => a \in 1..Len(queue) /\ queue'[a] = queue[a]
             /\ a > Len(queue) => a - Len(queue) \in 1..Len(q) /\ queue'[a] = q[a - Len(queue)]
  <2>1. Len(queue) \in Nat
    BY <1>5
  <2> QED
    BY <1>17, <1>20, <2>1, JoinedPlaces
<1>21. \A a \in 1..Len(queue) : counts[queue[a][1]][queue[a][2]] <= 1
  BY <1>3 DEF CoreInv, Served
\* A level that comes down to degree one had degree two, so it was not queued.
<1>22. \A a \in 1..Len(queue), x \in L : queue[a] # x
  <2> TAKE a \in 1..Len(queue), x \in L
  <2>1. PICK j \in Terms : x = <<j, sample.code[j][i]>>
    BY <1>15
  <2>2. x[1] = j /\ x[2] = sample.code[j][i] /\ sample.code[j][i] \in Levels
    BY <1>7, <2>1
  <2>3. counts[x[1]][x[2]] = 2
    BY <1>8, <1>9, <1>15, <2>2
  <2> QED
    BY <1>21, <2>3
<1>23. TypeOK'
  <2>1. alive' \subseteq Rows /\ head' \in Nat \ {0} /\ pc' = "peel"
    BY <1>1, <1>3
  <2>2. (sample \in Peel!SampleType)'
    BY <1>3 DEF CoreInv, TypeOK
  <2> QED
    BY <2>1, <2>2, <1>13, <1>20 DEF TypeOK, LevelNodes
<1>24. LevelQueuedOnce'
  <2> SUFFICES ASSUME NEW a \in 1..Len(queue'), NEW b \in 1..Len(queue'), queue'[a] = queue'[b]
               PROVE  a = b
    BY DEF LevelQueuedOnce
  <2>1. \A c \in 1..Len(queue') : c > Len(queue) => queue'[c] = q[c - Len(queue)] /\ c - Len(queue) \in 1..Len(q)
    BY <1>joined
  <2>2. \A c \in 1..Len(queue') : c <= Len(queue) => queue'[c] = queue[c] /\ c \in 1..Len(queue)
    BY <1>joined
  <2>3. \A c, d \in 1..Len(queue) : queue[c] = queue[d] => c = d
    BY DEF CoreInv, LevelQueuedOnce
  <2>4. CASE a <= Len(queue) /\ b <= Len(queue)
    BY <2>2, <2>3, <2>4
  <2>5. CASE a > Len(queue) /\ b > Len(queue)
    <3>1. PICK c \in 1..Len(q), d \in 1..Len(q) :
            c = a - Len(queue) /\ d = b - Len(queue) /\ queue'[a] = q[c] /\ queue'[b] = q[d]
      BY <2>1, <2>5
    <3>2. c = d
      BY <1>17, <3>1
    <3>3. a \in Int /\ b \in Int
      BY <1>17, <1>5, <1>20
    <3> QED
      BY <1>5, <3>1, <3>2, <3>3
  <2>6. CASE a <= Len(queue) /\ b > Len(queue)
    BY <1>19, <1>22, <2>1, <2>2, <2>6
  <2>7. CASE a > Len(queue) /\ b <= Len(queue)
    BY <1>19, <1>22, <2>1, <2>2, <2>7
  <2> QED
    BY <1>5, <1>17, <1>20, <2>4, <2>5, <2>6, <2>7
<1>25. Counted'
  BY <1>10, <1>11 DEF Counted
<1>26. Served'
  <2> SUFFICES ASSUME NEW a \in 1..Len(queue')
               PROVE  counts'[queue'[a][1]][queue'[a][2]] <= 1
    BY DEF Served
  <2>1. CASE a <= Len(queue)
    <3>1. queue'[a] = queue[a] /\ a \in 1..Len(queue)
      BY <1>joined, <2>1
    <3>2. queue[a][1] \in Terms /\ queue[a][2] \in Levels
      BY <1>5, <3>1, VertexFacts
    <3>3. PICK j \in Terms, v \in Levels : j = queue[a][1] /\ v = queue[a][2]
      BY <3>2
    <3>4. counts[j][v] <= 1 /\ counts[j][v] \in Nat
      BY <1>8, <1>21, <3>1, <3>3
    <3>5. counts'[j][v] <= 1
      BY <1>9, <3>4
    <3> QED
      BY <3>1, <3>3, <3>5
  <2>2. CASE a > Len(queue)
    <3>1. queue'[a] = q[a - Len(queue)] /\ a - Len(queue) \in 1..Len(q)
      BY <1>joined, <2>2
    <3>2. queue'[a] \in L
      BY <1>19, <3>1
    <3> QED
      BY <1>15, <3>2
  <2> QED
    BY <1>5, <1>17, <1>20, <2>1, <2>2
<1>waits. \A j \in Terms, v \in Levels : counts[j][v] = 1 =>
            \E a \in 1..Len(queue) : a >= head /\ queue[a] = <<j, v>>
  <2>1. Waiting /\ pc = "peel"
    BY <1>3 DEF CoreInv
  <2> QED
    BY <2>1 DEF Waiting
<1>27. Waiting'
  <2> SUFFICES ASSUME NEW j \in Terms, NEW v \in Levels, counts'[j][v] = 1
               PROVE  \E a \in 1..Len(queue') : a >= head' /\ queue'[a] = <<j, v>>
    BY DEF Waiting
  <2>1. CASE v = sample.code[j][i]
    <3>1. PICK a \in 1..Len(q) : q[a] = <<j, v>>
      BY <1>16, <1>17, <2>1
    <3>2. /\ Len(queue) + a \in 1..Len(queue') /\ Len(queue) + a >= head'
          /\ queue'[Len(queue) + a] = q[a]
      <4>1. head' = head + 1 /\ head <= Len(queue) /\ head \in Nat /\ Len(queue) \in Nat
        BY <1>moved, <1>5, <1>51
      <4>2. a \in Nat /\ a >= 1 /\ a <= Len(q) /\ Len(q) \in Nat
        BY <1>17
      <4>3. Len(queue) + a \in 1..(Len(queue) + Len(q)) /\ ~(Len(queue) + a <= Len(queue))
            /\ (Len(queue) + a) - Len(queue) = a /\ Len(queue) + a >= head + 1
        BY <4>1, <4>2
      <4> QED
        BY <1>20, <4>1, <4>3
    <3> QED
      BY <3>1, <3>2
  <2>2. CASE v # sample.code[j][i]
    <3>1. counts[j][v] = 1
      BY <1>9, <2>2
    <3>2. PICK a \in 1..Len(queue) : a >= head /\ queue[a] = <<j, v>>
      BY <1>waits, <3>1
    <3>3. a # head
      <4> SUFFICES ASSUME a = head PROVE FALSE
        OBVIOUS
      <4>1. lv = <<j, v>>
        BY <1>moved, <3>2
      <4>2. lv[1] = j /\ lv[2] = v
        BY <4>1
      <4> QED
        BY <1>4, <2>2, <4>2
    <3>4. a \in 1..Len(queue') /\ a >= head' /\ queue'[a] = queue[a]
      <4>1. head' = head + 1 /\ head \in Nat /\ Len(queue) \in Nat /\ Len(q) \in Nat
        BY <1>moved, <1>5, <1>17, <1>51
      <4>2. a \in 1..(Len(queue) + Len(q)) /\ a <= Len(queue) /\ a >= head + 1
        BY <3>2, <3>3, <4>1
      <4> QED
        BY <1>20, <4>1, <4>2
    <3> QED
      BY <3>2, <3>4
  <2> QED
    BY <2>1, <2>2
<1> QED
  BY <1>1, <1>3, <1>23, <1>24, <1>25, <1>26, <1>27 DEF CoreInv, NotCounted

\* CoreInv is kept by every step of the kernel.
THEOREM CoreInductive == Spec => []CoreInv
<1>1. CoreInv /\ [Next]_vars => CoreInv'
  BY CountStep, SkipStep, PeelStep, FinishStep, StutterStep DEF Next
<1> QED
  BY <1>1, InitCore, PTL DEF Spec

\* IndexInvariant: no level enters the FIFO twice, so its array of one entry per
\* level is never overrun, and whenever the kernel believes a level has one row
\* left, the sum of indices names that row (build_numerical_core, row_sum).
THEOREM IndicesNameRows == Spec => []IndexInvariant
<1>1. CoreInv => IndexInvariant
  BY CountedNames DEF CoreInv, IndexInvariant
<1> QED
  BY <1>1, CoreInductive, PTL

-----------------------------------------------------------------------------
(* The kernel implements the order-free specification of peeling.             *)

LEMMA PeelNames == Peel!Rows = Rows /\ Peel!Terms = Terms /\ Peel!Levels = Levels
BY DEF Peel!Rows, Peel!Terms, Peel!Levels, Rows, Terms, Levels

\* In a pure intercept system a row is triggered when it is alone at a level.
LEMMA TriggeredAlone ==
  ASSUME sample \in Samples, NEW S \in SUBSET Rows, NEW i \in S
  PROVE  Peel!Triggered(S, i) <=> \E j \in Terms : RowsAt(S, j, sample.code[j][i]) = {i}
<1>1. \A j : Peel!AtLevel(S, j, i) = RowsAt(S, j, sample.code[j][i])
  BY DEF Peel!AtLevel, RowsAt
<1>2. ~Peel!ZeroLevel(S, i)
  BY SampleFacts DEF Peel!ZeroLevel, Peel!ZeroAt
<1>3. \A j \in Terms : Peel!SingletonAt(S, j, i) <=> RowsAt(S, j, sample.code[j][i]) = {i}
  BY <1>1, SampleFacts DEF Peel!SingletonAt
<1> QED
  BY <1>2, <1>3, PeelNames DEF Peel!Triggered, Peel!Singleton

\* Every step of the kernel removes one triggered row or leaves the survivors
\* as they are: the safety part of ImplementsPeel.
THEOREM CoreRefinement == Spec => Peel!Init /\ [][Peel!Next]_(Peel!vars)
<1>1. Init => Peel!Init
  BY PeelNames DEF Init, Peel!Init
<1>2. CoreInv /\ [Next]_vars => [Peel!Next]_(Peel!vars)
  <2> SUFFICES ASSUME CoreInv, [Next]_vars PROVE [Peel!Next]_(Peel!vars)
    OBVIOUS
  <2>1. CASE PeelRow
    <3>1. PICK lv, i : lv = queue[head] /\ i = Candidate(lv)
      OBVIOUS
    <3>2. /\ lv[1] \in Terms /\ i \in alive /\ i \in Rows
          /\ RowsAt(alive, lv[1], lv[2]) = {i} /\ sample.code[lv[1]][i] = lv[2]
      BY <2>1, <3>1, PeelsLastRow
    <3>3. alive' = alive \ {i} /\ sample' = sample
      BY <2>1, <3>1 DEF PeelRow
    <3>4. Peel!Triggered(alive, i)
      BY <3>2, TriggeredAlone DEF CoreInv, TypeOK
    <3>5. Peel!Remove(i)
      BY <3>2, <3>3, <3>4 DEF Peel!Remove, Peel!Without
    <3> QED
      BY <3>2, <3>5, PeelNames DEF Peel!Next
  <2>2. CASE Count \/ SkipLevel \/ Finish \/ UNCHANGED vars
    BY <2>2 DEF Count, SkipLevel, Finish, vars, Peel!vars
  <2> QED
    BY <2>1, <2>2 DEF Next
<1> QED
  BY <1>1, <1>2, CoreInductive, PTL DEF Spec

-----------------------------------------------------------------------------
(* What is left is the whole core and nothing else.                           *)

\* A row triggered among some rows is triggered among fewer of them.
LEMMA TriggerStays ==
  ASSUME sample \in Samples, NEW T \in SUBSET Rows, NEW S \in SUBSET T, NEW i \in S,
         Peel!Triggered(T, i)
  PROVE  Peel!Triggered(S, i)
<1>1. PICK j \in Terms : RowsAt(T, j, sample.code[j][i]) = {i}
  BY TriggeredAlone
<1>2. RowsAt(S, j, sample.code[j][i]) = {i}
  BY <1>1 DEF RowsAt
<1> QED
  BY <1>2, TriggeredAlone

\* The peel removes no row of a set without a triggered row.
LEMMA KeepsStable ==
  ASSUME CoreInv, Peel!KeepsEveryStable, [Next]_vars
  PROVE  Peel!KeepsEveryStable'
<1>0. sample' = sample
  BY DEF Next, Count, SkipLevel, PeelRow, Finish, vars
<1>1. \A S : Peel!Stable(S)' <=> Peel!Stable(S)
  BY <1>0 DEF Peel!Stable, Peel!Triggered, Peel!ZeroLevel, Peel!Singleton, Peel!ZeroAt,
              Peel!SingletonAt, Peel!AtLevel
<1>2. CASE PeelRow
  <2>1. PICK lv, i : lv = queue[head] /\ i = Candidate(lv)
    OBVIOUS
  <2>2. /\ lv[1] \in Terms /\ i \in alive /\ i \in Rows
        /\ RowsAt(alive, lv[1], lv[2]) = {i} /\ sample.code[lv[1]][i] = lv[2]
    BY <1>2, <2>1, PeelsLastRow
  <2>3. alive' = alive \ {i}
    BY <1>2, <2>1 DEF PeelRow
  <2>4. alive \in SUBSET Rows /\ sample \in Samples
    BY DEF CoreInv, TypeOK
  <2>5. Peel!Triggered(alive, i)
    BY <2>2, <2>4, TriggeredAlone
  <2>6. ASSUME NEW S \in SUBSET Rows, Peel!Stable(S) PROVE S \subseteq alive'
    <3>1. S \subseteq alive
      BY <2>6, PeelNames DEF Peel!KeepsEveryStable
    <3>2. i \notin S
      BY <2>4, <2>5, <2>6, <3>1, TriggerStays DEF Peel!Stable
    <3> QED
      BY <2>3, <3>1, <3>2
  <2> QED
    BY <1>1, <2>6, PeelNames DEF Peel!KeepsEveryStable
<1>3. CASE Count \/ SkipLevel \/ Finish \/ UNCHANGED vars
  <2>1. alive' = alive
    BY <1>3 DEF Count, SkipLevel, Finish, vars
  <2> QED
    BY <1>1, <2>1, PeelNames DEF Peel!KeepsEveryStable
<1> QED
  BY <1>2, <1>3 DEF Next

\* When the queue has run out no level has one row left.
CoreIsDone == pc = "done" => head > Len(queue)

\* The core is the largest set of rows in which every level has two rows or
\* more, whatever the data: the answer does not depend on the order in which
\* levels are queued (build_numerical_core, "recursively peel").
THEOREM CoreIsGreatest == Spec => [](pc = "done" => alive = Peel!GreatestStable)
<1>1. Init => Peel!KeepsEveryStable /\ CoreIsDone
  BY PeelNames DEF Init, Peel!KeepsEveryStable, CoreIsDone
<1>2. CoreInv /\ CoreIsDone /\ [Next]_vars => CoreIsDone'
  BY DEF CoreIsDone, Next, Count, SkipLevel, PeelRow, Finish, Serving, vars
<1>3. CoreInv /\ Peel!KeepsEveryStable /\ [Next]_vars => Peel!KeepsEveryStable'
  BY KeepsStable
<1>4. CoreInv /\ CoreIsDone /\ Peel!KeepsEveryStable =>
        (pc = "done" => alive = Peel!GreatestStable)
  <2> SUFFICES ASSUME CoreInv, CoreIsDone, Peel!KeepsEveryStable, pc = "done"
               PROVE  alive = Peel!GreatestStable
    OBVIOUS
  <2>1. alive \in SUBSET Rows /\ sample \in Samples
    BY DEF CoreInv, TypeOK
  <2>2. Peel!Stable(alive)
    <3> SUFFICES ASSUME NEW i \in alive, Peel!Triggered(alive, i) PROVE FALSE
      BY DEF Peel!Stable
    <3>1. PICK j \in Terms : RowsAt(alive, j, sample.code[j][i]) = {i}
      BY <2>1, TriggeredAlone
    <3>2. sample.code[j][i] \in Levels
      BY <2>1, SampleFacts
    <3>3. counts[j][sample.code[j][i]] = 1
      BY <3>1, <3>2, FS_Singleton DEF CoreInv, Counted
    <3>4. \E a \in 1..Len(queue) : a >= head
      BY <3>2, <3>3 DEF CoreInv, Waiting
    <3>5. head \in Nat /\ Len(queue) \in Nat
      BY DEF CoreInv, TypeOK
    <3> QED
      BY <3>4, <3>5 DEF CoreIsDone
  <2> QED
    BY <2>1, <2>2, PeelNames DEF Peel!KeepsEveryStable, Peel!GreatestStable
<1> QED
  BY <1>1, <1>2, <1>3, <1>4, CoreInductive, PTL DEF Spec

-----------------------------------------------------------------------------
(* The codes of the core.                                                     *)

\* The dense codes of a subset number its levels from 0 in ascending order.
LEMMA SubsetCodes ==
  ASSUME NEW S \in SUBSET Rows, NEW c \in [Rows -> Nat]
  PROVE  LET d == DenseSubset(c, S)
             V == {c[k] : k \in S}
         IN  /\ \A i, k \in S : d[i] = d[k] <=> c[i] = c[k]
             /\ {d[i] : i \in S} = 0..(Cardinality(V) - 1)
             /\ Cardinality(V) \in Nat
<1> DEFINE d == DenseSubset(c, S)
           V == {c[k] : k \in S}
           R == Below(V)
           f == [k \in S |-> c[k]]
<1>1. V \in SUBSET Int
  OBVIOUS
<1>2. IsFiniteSet(V) /\ Cardinality(V) \in Nat
  <2>1. IsFiniteSet(S)
    BY RowsFacts
  <2>2. f \in Surjection(S, V)
    BY DEF Surjection
  <2> HIDE DEF f, V
  <2> QED
    BY <2>1, <2>2, FS_Surjection, FS_CardinalityType
<1>3. \A i \in S : c[i] \in V /\ d[i] = Place(V, R, c[i])
  <2> TAKE i \in S
  <2>1. c[i] \in V
    OBVIOUS
  <2>2. d[i] = Cardinality({v \in V : v < c[i]})
    BY DEF DenseSubset
  <2> HIDE DEF d, V
  <2> QED
    BY <1>1, <1>2, <2>1, <2>2, NumbersInOrder DEF Place
<1>4. \A v \in V : \E i \in S : v = c[i]
  OBVIOUS
<1> HIDE DEF d, V
<1>5. StrictTotal(V, R)
  BY <1>1, <1>2, NumbersInOrder
<1> HIDE DEF R
<1>6. /\ \A x \in V : Place(V, R, x) \in 0..(Cardinality(V) - 1)
      /\ \A x, y \in V : Place(V, R, x) = Place(V, R, y) => x = y
      /\ \A n \in 0..(Cardinality(V) - 1) : \E x \in V : Place(V, R, x) = n
  BY <1>2, <1>5, PlaceIsBijection
<1>7. \A i, k \in S : d[i] = d[k] <=> c[i] = c[k]
  BY <1>3, <1>6
<1>8. {d[i] : i \in S} = 0..(Cardinality(V) - 1)
  <2>1. ASSUME NEW n \in 0..(Cardinality(V) - 1) PROVE \E i \in S : d[i] = n
    <3>1. PICK x \in V : Place(V, R, x) = n
      BY <1>6
    <3> QED
      BY <1>3, <1>4, <3>1
  <2>2. \A i \in S : d[i] \in 0..(Cardinality(V) - 1)
    BY <1>3, <1>6
  <2> QED
    BY <2>1, <2>2
<1> QED
  BY <1>2, <1>7, <1>8 DEF d, V

Coded == pc = "done" => coreCode = [j \in Terms |-> DenseSubset(sample.code[j], alive)]

LEMMA CodedMeans ==
  ASSUME CoreInv, Coded
  PROVE  /\ CoreCodesArePartition
         /\ pc = "done" =>
              \A j \in Terms :
                /\ Cardinality({coreCode[j][i] : i \in alive}) \in Nat
                /\ {coreCode[j][i] : i \in alive} =
                     0..(Cardinality({coreCode[j][i] : i \in alive}) - 1)
<1> SUFFICES ASSUME pc = "done", NEW j \in Terms
             PROVE  /\ \A i, k \in alive : coreCode[j][i] = coreCode[j][k]
                                             <=> sample.code[j][i] = sample.code[j][k]
                    /\ {coreCode[j][i] : i \in alive} =
                         0..(Cardinality({sample.code[j][i] : i \in alive}) - 1)
                    /\ Cardinality({coreCode[j][i] : i \in alive}) \in Nat
                    /\ {coreCode[j][i] : i \in alive} =
                         0..(Cardinality({coreCode[j][i] : i \in alive}) - 1)
  BY DEF CoreCodesArePartition
<1>1. alive \in SUBSET Rows /\ sample \in Samples
  BY DEF CoreInv, TypeOK
<1>2. sample.code[j] \in [Rows -> Nat]
  <2>1. sample.code \in [Terms -> [Rows -> Levels]]
    BY <1>1, NumericalCoreAssumption DEF CoreSamples
  <2>2. Levels \subseteq Nat
    BY NumericalCoreAssumption DEF Levels
  <2> QED
    BY <2>1, <2>2
<1> DEFINE d == DenseSubset(sample.code[j], alive)
           n == Cardinality({sample.code[j][k] : k \in alive})
<1>3. coreCode[j] = d
  BY DEF Coded
<1>4. /\ \A i, k \in alive : d[i] = d[k] <=> sample.code[j][i] = sample.code[j][k]
      /\ {d[i] : i \in alive} = 0..(n - 1)
      /\ n \in Nat
  BY <1>1, <1>2, SubsetCodes
<1>5. Cardinality(0..(n - 1)) = n
  BY <1>4, FS_Interval
<1> HIDE DEF d, n
<1>6. {coreCode[j][i] : i \in alive} = 0..(n - 1)
  BY <1>3, <1>4
<1> QED
  BY <1>3, <1>4, <1>5, <1>6 DEF n

\* CoreCodesArePartition: the codes of the core tell its rows apart exactly as
\* those of the sample do and leave no number out (_dense_subset_codes), so the
\* kernels may index by them.
THEOREM CoreCodesAreDense == Spec => []CoreCodesArePartition
<1>1. Init => Coded
  BY DEF Init, Coded
<1>2. Coded /\ CoreInv /\ [Next]_vars => Coded'
  <2> SUFFICES ASSUME Coded, CoreInv, [Next]_vars PROVE Coded'
    OBVIOUS
  <2>1. CASE Finish
    BY <2>1 DEF Finish, Coded, DenseSubset
  <2>2. CASE UNCHANGED vars
    BY <2>2 DEF vars, Coded, DenseSubset
  <2>3. CASE Count \/ SkipLevel \/ PeelRow
    BY <2>3 DEF Count, SkipLevel, PeelRow, Serving, Coded
  <2> QED
    BY <2>1, <2>2, <2>3 DEF Next
<1>3. CoreInv /\ Coded => CoreCodesArePartition
  BY CodedMeans
<1> QED
  BY <1>1, <1>2, <1>3, CoreInductive, PTL DEF Spec

-----------------------------------------------------------------------------
(* The row index of a term: a counting sort, so the rows of a level stand     *)
(* together in it, in ascending order.                                        *)

LEMMA DisjointUnion ==
  ASSUME NEW S, NEW T, IsFiniteSet(S), IsFiniteSet(T), S \cap T = {}
  PROVE  Cardinality(S \cup T) = Cardinality(S) + Cardinality(T)
<1>1. Cardinality(S) \in Nat /\ Cardinality(T) \in Nat
  BY FS_CardinalityType
<1>2. Cardinality(S \cap T) = 0
  BY FS_EmptySet
<1>3. Cardinality(S \cup T) = Cardinality(S) + Cardinality(T) - Cardinality(S \cap T)
  BY FS_Union
<1> QED
  BY <1>1, <1>2, <1>3

\* The kernels' module counts with the same Cardinality.
LEMMA KernelCardinality == \A S : K!Cardinality(S) = Cardinality(S)
BY DEF K!Cardinality, Cardinality

RowsWith(codes, g) == {i \in DOMAIN codes : codes[i] = g}

LEMMA CountingSort ==
  ASSUME NEW n \in Nat, NEW codes \in [1..n -> Nat]
  PROVE  /\ \A i \in 1..n : K!Cursor(codes, i) \in 0..(n - 1)
         /\ \A i, k \in 1..n : K!Cursor(codes, i) = K!Cursor(codes, k) => i = k
         /\ \A p \in 0..(n - 1) : \E i \in 1..n : K!Cursor(codes, i) = p
         /\ \A i, k \in 1..n : codes[i] = codes[k] /\ i < k => K!Cursor(codes, i) < K!Cursor(codes, k)
         /\ \A g \in Nat : K!Indptr(codes, g) \in Nat
         /\ \A i \in 1..n, g \in Nat :
              codes[i] = g <=> K!Indptr(codes, g) <= K!Cursor(codes, i)
                                 /\ K!Cursor(codes, i) < K!Indptr(codes, g + 1)
         /\ \A g \in Nat : /\ IsFiniteSet(RowsWith(codes, g))
                           /\ Cardinality(RowsWith(codes, g)) \in Nat
                           /\ K!Indptr(codes, g + 1) =
                                K!Indptr(codes, g) + Cardinality(RowsWith(codes, g))
<1> DEFINE D == 1..n
           R == {p \in D \X D : codes[p[1]] < codes[p[2]] \/ (codes[p[1]] = codes[p[2]] /\ p[1] < p[2])}
           Less(g) == {i \in D : codes[i] < g}
           Mates(i) == {k \in 1..(i - 1) : codes[k] = codes[i]}
           Prior(i) == {k \in D : <<k, i>> \in R}
<1>1. DOMAIN codes = D /\ \A i \in D : codes[i] \in Nat /\ i \in Int
  OBVIOUS
<1>2. \A S \in SUBSET D : IsFiniteSet(S) /\ Cardinality(S) \in Nat
  <2>1. IsFiniteSet(D)
    BY FS_Interval
  <2>2. \A S \in SUBSET D : IsFiniteSet(S)
    BY <2>1, FS_Subset
  <2> QED
    BY <2>2, FS_CardinalityType
<1>3. IsFiniteSet(D) /\ Cardinality(D) = n
  BY FS_Interval
<1>4. \A x, y \in D : <<x, y>> \in R <=> codes[x] < codes[y] \/ (codes[x] = codes[y] /\ x < y)
  OBVIOUS
<1> HIDE DEF R, D
<1>5. StrictTotal(D, R)
  <2>1. \A x \in D : <<x, x>> \notin R
    BY <1>1, <1>4
  <2>2. \A x, y, z \in D : <<x, y>> \in R /\ <<y, z>> \in R => <<x, z>> \in R
    BY <1>1, <1>4
  <2>3. \A x, y \in D : x # y => <<x, y>> \in R \/ <<y, x>> \in R
    BY <1>1, <1>4
  <2> QED
    BY <2>1, <2>2, <2>3 DEF StrictTotal
<1>6. \A g \in Nat : K!Indptr(codes, g) = Cardinality(Less(g)) /\ K!Indptr(codes, g) \in Nat
  <2> TAKE g \in Nat
  <2>1. Less(g) \in SUBSET D
    OBVIOUS
  <2>2. K!Indptr(codes, g) = Cardinality(Less(g))
    <3>1. {i \in DOMAIN codes : codes[i] < g} = Less(g)
      BY <1>1
    <3> QED
      BY <3>1, KernelCardinality DEF K!Indptr
  <2> HIDE DEF Less
  <2> QED
    BY <1>2, <2>1, <2>2
<1>7. ASSUME NEW i \in D
      PROVE  /\ K!Cursor(codes, i) = Cardinality(Less(codes[i])) + Cardinality(Mates(i))
             /\ K!Cursor(codes, i) = Place(D, R, i)
             /\ Cardinality(Mates(i)) \in Nat
  <2>1. Mates(i) \in SUBSET D /\ Less(codes[i]) \in SUBSET D
    BY DEF D
  <2>2. Less(codes[i]) \cap Mates(i) = {}
    BY <1>1 DEF D
  <2>3. Prior(i) = Less(codes[i]) \cup Mates(i)
    BY <1>1, <1>4 DEF D
  <2>4. K!Cursor(codes, i) = Cardinality(Less(codes[i])) + Cardinality(Mates(i))
    <3>1. K!Indptr(codes, codes[i]) = Cardinality(Less(codes[i]))
      BY <1>1, <1>6
    <3> QED
      BY <3>1, KernelCardinality DEF K!Cursor
  <2> HIDE DEF Less, Mates, Prior
  <2>5. /\ IsFiniteSet(Less(codes[i])) /\ IsFiniteSet(Mates(i))
        /\ Cardinality(Less(codes[i])) \in Nat /\ Cardinality(Mates(i)) \in Nat
    BY <1>2, <2>1
  <2>7. Cardinality(Prior(i)) = Cardinality(Less(codes[i])) + Cardinality(Mates(i))
    BY <2>2, <2>3, <2>5, DisjointUnion
  <2> QED
    BY <2>4, <2>5, <2>7 DEF Place, Prior
<1>71. \A i \in D : K!Cursor(codes, i) = Place(D, R, i)
  BY <1>7
<1>8. /\ \A i \in D : Place(D, R, i) \in 0..(n - 1)
      /\ \A i, k \in D : Place(D, R, i) = Place(D, R, k) => i = k
      /\ \A p \in 0..(n - 1) : \E i \in D : Place(D, R, i) = p
      /\ \A i, k \in D : <<i, k>> \in R => Place(D, R, i) < Place(D, R, k)
  BY <1>2, <1>3, <1>5, PlaceIsBijection
<1>9. \A i, k \in D : codes[i] = codes[k] /\ i < k => K!Cursor(codes, i) < K!Cursor(codes, k)
  <2> TAKE i, k \in D
  <2>1. codes[i] = codes[k] /\ i < k => <<i, k>> \in R
    BY <1>4
  <2> QED
    BY <1>71, <1>8, <2>1
<1>10. ASSUME NEW g \in Nat, NEW h \in Nat, g <= h
       PROVE  K!Indptr(codes, g) <= K!Indptr(codes, h)
  <2>1. Less(g) \subseteq Less(h)
    BY <1>1, <1>10
  <2>2. Less(h) \in SUBSET D
    OBVIOUS
  <2> HIDE DEF Less
  <2> QED
    BY <1>2, <1>6, <2>1, <2>2, FS_Subset
<1>11. ASSUME NEW i \in D
       PROVE  /\ K!Indptr(codes, codes[i]) <= K!Cursor(codes, i)
              /\ K!Cursor(codes, i) < K!Indptr(codes, codes[i] + 1)
  <2>1. K!Indptr(codes, codes[i]) <= K!Cursor(codes, i)
    <3>1. /\ K!Indptr(codes, codes[i]) = Cardinality(Less(codes[i]))
          /\ K!Indptr(codes, codes[i]) \in Nat
      BY <1>1, <1>6
    <3>2. /\ K!Cursor(codes, i) = Cardinality(Less(codes[i])) + Cardinality(Mates(i))
          /\ Cardinality(Mates(i)) \in Nat
      BY <1>7
    <3> HIDE DEF Less, Mates
    <3> QED
      BY <3>1, <3>2
  <2>2. Prior(i) \subseteq Less(codes[i] + 1) /\ i \notin Prior(i) /\ i \in Less(codes[i] + 1)
        /\ Less(codes[i] + 1) \in SUBSET D
    BY <1>1, <1>4
  <2>3. K!Cursor(codes, i) = Cardinality(Prior(i))
    BY <1>7 DEF Place
  <2>5. Prior(i) # Less(codes[i] + 1)
    BY <2>2
  <2> HIDE DEF Less, Prior
  <2>4. IsFiniteSet(Less(codes[i] + 1)) /\ Cardinality(Less(codes[i] + 1)) \in Nat
        /\ Cardinality(Prior(i)) \in Nat
    BY <1>2, <2>2
  <2>6. Cardinality(Prior(i)) <= Cardinality(Less(codes[i] + 1))
        /\ Cardinality(Prior(i)) # Cardinality(Less(codes[i] + 1))
    BY <2>2, <2>4, <2>5, FS_Subset
  <2>7. codes[i] + 1 \in Nat
    BY <1>1
  <2>8. K!Indptr(codes, codes[i] + 1) = Cardinality(Less(codes[i] + 1))
    BY <1>6, <2>7
  <2>9. K!Cursor(codes, i) < K!Indptr(codes, codes[i] + 1)
    BY <2>3, <2>4, <2>6, <2>8
  <2> QED
    BY <2>1, <2>9
<1>12. \A i \in D, g \in Nat :
         codes[i] = g <=> K!Indptr(codes, g) <= K!Cursor(codes, i)
                            /\ K!Cursor(codes, i) < K!Indptr(codes, g + 1)
  <2> TAKE i \in D, g \in Nat
  <2>1. codes[i] \in Nat /\ K!Cursor(codes, i) \in Nat
    <3>1. K!Cursor(codes, i) = Place(D, R, i) /\ Place(D, R, i) \in 0..(n - 1)
      BY <1>7, <1>8
    <3> QED
      BY <1>1, <3>1
  <2>2. \A h \in Nat : K!Indptr(codes, h) \in Nat
    BY <1>6
  <2>3. codes[i] < g => ~(K!Indptr(codes, g) <= K!Cursor(codes, i))
    <3>1. codes[i] < g => K!Indptr(codes, codes[i] + 1) <= K!Indptr(codes, g)
      BY <1>10, <2>1
    <3>2. K!Cursor(codes, i) < K!Indptr(codes, codes[i] + 1)
      BY <1>11
    <3>4. codes[i] + 1 \in Nat
      BY <2>1
    <3>3. K!Indptr(codes, codes[i] + 1) \in Nat /\ K!Indptr(codes, g) \in Nat
      BY <2>2, <3>4
    <3> QED
      BY <2>1, <3>1, <3>2, <3>3
  <2>4. codes[i] > g => ~(K!Cursor(codes, i) < K!Indptr(codes, g + 1))
    <3>1. codes[i] > g => K!Indptr(codes, g + 1) <= K!Indptr(codes, codes[i])
      BY <1>10, <2>1
    <3>2. K!Indptr(codes, codes[i]) <= K!Cursor(codes, i)
      BY <1>11
    <3>4. g + 1 \in Nat
      OBVIOUS
    <3>3. K!Indptr(codes, codes[i]) \in Nat /\ K!Indptr(codes, g + 1) \in Nat
      BY <2>1, <2>2, <3>4
    <3> QED
      BY <2>1, <3>1, <3>2, <3>3
  <2>5. /\ K!Indptr(codes, codes[i]) <= K!Cursor(codes, i)
        /\ K!Cursor(codes, i) < K!Indptr(codes, codes[i] + 1)
    BY <1>11
  <2> QED
    BY <2>1, <2>3, <2>4, <2>5
<1>13. ASSUME NEW g \in Nat
       PROVE  /\ IsFiniteSet(RowsWith(codes, g))
              /\ Cardinality(RowsWith(codes, g)) \in Nat
              /\ K!Indptr(codes, g + 1) = K!Indptr(codes, g) + Cardinality(RowsWith(codes, g))
  <2> DEFINE W == RowsWith(codes, g)
  <2>1. W \in SUBSET D /\ Less(g) \in SUBSET D /\ Less(g + 1) = Less(g) \cup W /\ Less(g) \cap W = {}
    BY <1>1 DEF RowsWith
  <2> HIDE DEF W, Less
  <2>2. IsFiniteSet(W) /\ IsFiniteSet(Less(g)) /\ Cardinality(W) \in Nat /\ Cardinality(Less(g)) \in Nat
    BY <1>2, <2>1
  <2>4. Cardinality(Less(g + 1)) = Cardinality(Less(g)) + Cardinality(W)
    BY <2>1, <2>2, DisjointUnion
  <2> QED
    BY <1>6, <2>2, <2>4 DEF W
<1>14. /\ \A i \in D : K!Cursor(codes, i) \in 0..(n - 1)
       /\ \A i, k \in D : K!Cursor(codes, i) = K!Cursor(codes, k) => i = k
       /\ \A p \in 0..(n - 1) : \E i \in D : K!Cursor(codes, i) = p
  BY <1>71, <1>8
<1>15. \A g \in Nat : K!Indptr(codes, g) \in Nat
  BY <1>6
<1> HIDE DEF Less, Mates, Prior
<1> QED
  BY <1>9, <1>12, <1>13, <1>14, <1>15 DEF D

\* What the kernel visits for a level is the level: read through the index, or
\* counted from its first row once the index is certified contiguous.
LEMMA IndexIsRight ==
  ASSUME NEW n \in Nat, NEW codes \in [1..n -> Nat], NEW ids \in SUBSET Nat
  PROVE  K!GroupIndex(codes, ids) = [g \in ids |-> RowsWith(codes, g)]
<1> DEFINE order == K!Order(codes)
           Lo(g) == K!Indptr(codes, g)
           Hi(g) == K!Indptr(codes, g + 1)
           Visited(g) == IF Lo(g) >= Hi(g) THEN {}
                         ELSE IF K!Contiguous(codes, order, ids)
                              THEN order[Lo(g)]..(order[Lo(g)] + Hi(g) - Lo(g) - 1)
                              ELSE {order[p] : p \in Lo(g)..(Hi(g) - 1)}
<1>1. K!GroupIndex(codes, ids) = [g \in ids |-> Visited(g)]
  BY DEF K!GroupIndex
<1>2. DOMAIN codes = 1..n /\ Len(codes) = n
  OBVIOUS
<1>3. /\ \A i \in 1..n : K!Cursor(codes, i) \in 0..(n - 1)
      /\ \A i, k \in 1..n : K!Cursor(codes, i) = K!Cursor(codes, k) => i = k
      /\ \A p \in 0..(n - 1) : \E i \in 1..n : K!Cursor(codes, i) = p
      /\ \A i, k \in 1..n : codes[i] = codes[k] /\ i < k => K!Cursor(codes, i) < K!Cursor(codes, k)
      /\ \A i \in 1..n, g \in Nat :
           codes[i] = g <=> Lo(g) <= K!Cursor(codes, i) /\ K!Cursor(codes, i) < Hi(g)
  BY CountingSort
<1>4. \A p \in 0..(n - 1) : order[p] \in 1..n /\ K!Cursor(codes, order[p]) = p
  <2>1. order = [p \in 0..(n - 1) |-> CHOOSE i \in 1..n : K!Cursor(codes, i) = p]
    BY <1>2 DEF K!Order
  <2> HIDE DEF order
  <2> QED
    BY <1>3, <2>1
<1>5. \A i \in 1..n : order[K!Cursor(codes, i)] = i
  BY <1>3, <1>4
<1>6. ASSUME NEW g \in ids PROVE Visited(g) = RowsWith(codes, g)
  <2> DEFINE W == RowsWith(codes, g)
             lo == Lo(g)
             hi == Hi(g)
  <2>1. lo \in Nat /\ hi \in Nat /\ IsFiniteSet(W) /\ Cardinality(W) \in Nat /\ hi = lo + Cardinality(W)
    <3>1. g + 1 \in Nat
      OBVIOUS
    <3> QED
      BY <3>1, CountingSort
  <2>2. \A i : i \in W <=> i \in 1..n /\ codes[i] = g
    BY <1>2 DEF RowsWith
  <2>3. \A i \in 1..n : i \in W <=> lo <= K!Cursor(codes, i) /\ K!Cursor(codes, i) < hi
    BY <1>3, <2>2
  <2> HIDE DEF order, lo, hi, W
  <2>4. CASE lo >= hi
    <3>1. W = {}
      <4> SUFFICES ASSUME NEW i \in W PROVE FALSE
        OBVIOUS
      <4>1. i \in 1..n /\ K!Cursor(codes, i) \in 0..(n - 1)
        BY <1>3, <2>2
      <4>2. lo <= K!Cursor(codes, i) /\ K!Cursor(codes, i) < hi
        BY <2>3, <4>1
      <4> QED
        BY <2>1, <2>4, <4>1, <4>2
    <3> QED
      BY <2>4, <3>1 DEF lo, hi, W
  <2>5. CASE lo < hi
    <3>1. W # {}
      BY <2>1, <2>5, FS_EmptySet
    <3>2. \A p \in lo..(hi - 1) : p \in 0..(n - 1) /\ order[p] \in W
      <4>1. hi <= n
        <5>1. W \subseteq 1..n
          BY <2>2
        <5>2. \A i \in 1..n : K!Cursor(codes, i) < n
          BY <1>3
        <5>3. CASE hi > n
          \* The place hi - 1 would be free, yet lo..(hi - 1) are as many places
          \* as there are rows of the level, each with a place of its own.
          <6>1. \A i \in W : K!Cursor(codes, i) \in lo..(hi - 2)
            <7> TAKE i \in W
            <7>1. i \in 1..n /\ K!Cursor(codes, i) \in 0..(n - 1)
              BY <1>3, <2>2
            <7>2. lo <= K!Cursor(codes, i)
              BY <2>3, <7>1
            <7> QED
              BY <2>1, <5>3, <7>1, <7>2
          <6> DEFINE f == [i \in W |-> K!Cursor(codes, i)]
          <6>2. f \in Injection(W, lo..(hi - 2))
            BY <1>3, <5>1, <6>1 DEF Injection, IsInjective
          <6>3. IsFiniteSet(lo..(hi - 2)) /\ Cardinality(lo..(hi - 2)) = hi - 2 - lo + 1
            <7>1. lo \in Int /\ hi - 2 \in Int
              BY <2>1
            <7>2. /\ IsFiniteSet(lo..(hi - 2))
                  /\ Cardinality(lo..(hi - 2)) = IF lo > hi - 2 THEN 0 ELSE (hi - 2) - lo + 1
              BY <7>1, FS_Interval
            <7>3. lo > hi - 2 => hi - 2 - lo + 1 = 0
              BY <2>1, <2>5
            <7> QED
              BY <2>1, <7>2, <7>3
          <6> HIDE DEF f
          <6>4. Cardinality(W) <= Cardinality(lo..(hi - 2))
            BY <6>2, <6>3, FS_Injection
          <6> QED
            BY <2>1, <6>3, <6>4
        <5> QED
          BY <2>1, <5>3
      <4>2. \A p \in lo..(hi - 1) : p \in 0..(n - 1)
        BY <2>1, <4>1
      <4>3. ASSUME NEW p \in lo..(hi - 1) PROVE order[p] \in W
        <5>1. order[p] \in 1..n /\ K!Cursor(codes, order[p]) = p
          BY <1>4, <4>2
        <5> QED
          BY <2>1, <2>3, <5>1
      <4> QED
        BY <4>2, <4>3
    <3>3. \A i \in W : K!Cursor(codes, i) \in lo..(hi - 1) /\ order[K!Cursor(codes, i)] = i
      <4> TAKE i \in W
      <4>1. i \in 1..n /\ K!Cursor(codes, i) \in 0..(n - 1)
        BY <1>3, <2>2
      <4>2. lo <= K!Cursor(codes, i) /\ K!Cursor(codes, i) < hi
        BY <2>3, <4>1
      <4> QED
        BY <1>5, <2>1, <4>1, <4>2
    <3>4. {order[p] : p \in lo..(hi - 1)} = W
      BY <3>2, <3>3
    <3>5. ASSUME K!Contiguous(codes, order, ids)
          PROVE  order[lo]..(order[lo] + hi - lo - 1) = W
      <4>1. order[hi - 1] - order[lo] = hi - lo - 1
        BY <2>5, <3>5 DEF K!Contiguous, lo, hi
      <4>2. lo \in lo..(hi - 1) /\ hi - 1 \in lo..(hi - 1)
        BY <2>1, <2>5
      <4>3. /\ order[lo] \in W /\ order[hi - 1] \in W
            /\ order[lo] \in 1..n /\ order[hi - 1] \in 1..n
            /\ K!Cursor(codes, order[lo]) = lo /\ K!Cursor(codes, order[hi - 1]) = hi - 1
        BY <1>4, <3>2, <4>2
      <4>4. \A i \in W : order[lo] <= i /\ i <= order[hi - 1]
        <5> TAKE i \in W
        <5>1. i \in 1..n /\ codes[i] = g /\ codes[order[lo]] = g /\ codes[order[hi - 1]] = g
          BY <2>2, <4>3
        <5>2. K!Cursor(codes, i) \in lo..(hi - 1)
          BY <3>3
        <5>3. i < order[lo] => K!Cursor(codes, i) < lo
          <6>1. PICK k \in 1..n : k = order[lo] /\ codes[k] = g /\ K!Cursor(codes, k) = lo
            BY <4>3, <5>1
          <6>2. i < k => K!Cursor(codes, i) < K!Cursor(codes, k)
            BY <1>3, <5>1, <6>1
          <6> QED
            BY <6>1, <6>2
        <5>4. order[hi - 1] < i => hi - 1 < K!Cursor(codes, i)
          <6>1. PICK k \in 1..n : k = order[hi - 1] /\ codes[k] = g /\ K!Cursor(codes, k) = hi - 1
            BY <4>3, <5>1
          <6>2. k < i => K!Cursor(codes, k) < K!Cursor(codes, i)
            BY <1>3, <5>1, <6>1
          <6> QED
            BY <6>1, <6>2
        <5> QED
          BY <2>1, <4>3, <5>1, <5>2, <5>3, <5>4
      <4>5. PICK a, b : a = order[lo] /\ b = order[hi - 1]
        OBVIOUS
      <4>51. a \in 1..n /\ b \in 1..n /\ b - a = hi - lo - 1
        BY <4>1, <4>3, <4>5
      <4>52. a \in Int /\ b \in Int
        BY <4>51
      <4>53. a <= b /\ a + hi - lo - 1 = b
        BY <2>1, <2>5, <4>51, <4>52
      <4> DEFINE I == a..b
      <4>6. W \in SUBSET I
        BY <2>2, <4>4, <4>5, <4>52
      <4>8. IsFiniteSet(I) /\ Cardinality(I) = b - a + 1
        BY <4>52, <4>53, FS_Interval
      <4> HIDE DEF I
      <4>9. Cardinality(I) = Cardinality(W)
        <5>1. PICK l, h, w : l = lo /\ h = hi /\ w = Cardinality(W)
          OBVIOUS
        <5>2. l \in Int /\ h \in Int /\ w \in Int /\ h = l + w /\ b - a = h - l - 1
          BY <2>1, <4>51, <5>1
        <5>3. b - a + 1 = w
          BY <4>52, <5>2
        <5> QED
          BY <4>8, <5>1, <5>3
      <4>10. I = W
        BY <4>6, <4>8, <4>9, FS_Subset
      <4>11. order[lo]..(order[lo] + hi - lo - 1) = I
        BY <4>5, <4>53 DEF I
      <4> QED
        BY <4>10, <4>11
    <3>6. ~(lo >= hi)
      BY <2>1, <2>5
    <3> QED
      BY <3>4, <3>5, <3>6 DEF lo, hi, W
  <2> QED
    BY <2>1, <2>4, <2>5
<1> HIDE DEF Visited
<1> QED
  BY <1>1, <1>6

-----------------------------------------------------------------------------
(* The blocks of columns: every column is in one block.                       *)

EachInOneBlock(B, k) ==
  /\ Len(B) \in Nat \ {0}
  /\ \A b \in 1..Len(B) : B[b] \subseteq 1..k
  /\ \A j \in 1..k : \E b \in 1..Len(B) : j \in B[b]
  /\ \A j \in 1..k : \A b, c \in 1..Len(B) : j \in B[b] /\ j \in B[c] => b = c

LEMMA DivFive ==
  ASSUME NEW k \in Nat
  PROVE  \E q \in Nat, r \in 0..4 : q = k \div 5 /\ r = k % 5 /\ k = 5 * q + r
<1>1. k \div 5 \in Nat /\ k % 5 \in 0..4
  OBVIOUS
<1>2. k % 5 = k - 5 * (k \div 5)
  OBVIOUS
<1>3. PICK q \in Nat, r \in 0..4 : q = k \div 5 /\ r = k % 5 /\ r = k - 5 * q
  BY <1>1, <1>2
<1>4. k = 5 * q + r
  BY <1>3
<1> QED
  BY <1>3, <1>4

LEMMA SplitByFive ==
  ASSUME NEW k \in Nat, k > 10
  PROVE  EachInOneBlock(K!Blocked5(k), k)
<1>0. PICK q \in Nat, r \in 0..4 : q = k \div 5 /\ r = k % 5 /\ k = 5 * q + r
  BY DivFive
<1> DEFINE s == [b \in 1..q |-> (5 * b - 4)..(5 * b)]
           t == [j \in 1..r |-> {(k - r) + j}]
           B == K!Blocked5(k)
<1>1. q \in Nat /\ r \in 0..4 /\ k = 5 * q + r
  BY <1>0
<1>2. B = s \o t
  BY <1>0 DEF K!Blocked5
<1>3. s \in Seq(SUBSET Int) /\ t \in Seq(SUBSET Int) /\ Len(s) = q /\ Len(t) = r
  <2>1. \A b \in 1..q : (5 * b - 4)..(5 * b) \in SUBSET Int
    BY <1>1
  <2>2. \A j \in 1..r : {(k - r) + j} \in SUBSET Int
    BY <1>1
  <2>3. s \in [1..q -> SUBSET Int] /\ t \in [1..r -> SUBSET Int]
    BY <2>1, <2>2
  <2> QED
    BY <1>1, <2>3
<1>4. /\ Len(B) = q + r
      /\ \A b \in 1..(q + r) : B[b] = IF b <= q THEN s[b] ELSE t[b - q]
  <2> HIDE DEF s, t, B
  <2> QED
    BY <1>2, <1>3, ConcatProperties
<1>5. \A b \in 1..(q + r) :
        B[b] = IF b <= q THEN (5 * b - 4)..(5 * b) ELSE {5 * q + (b - q)}
  <2> TAKE b \in 1..(q + r)
  <2>1. b <= q => b \in 1..q
    BY <1>1
  <2>2. ~(b <= q) => b - q \in 1..r
    BY <1>1
  <2>3. k - r = 5 * q
    BY <1>1
  <2> QED
    BY <1>4, <2>1, <2>2, <2>3
<1> HIDE DEF s, t, B
<1>6. Len(B) \in Nat \ {0}
  BY <1>1, <1>4
<1>7. ASSUME NEW b \in 1..(q + r) PROVE B[b] \subseteq 1..k
  <2>1. CASE b <= q
    <3>1. 5 * b - 4 >= 1 /\ 5 * b <= 5 * q /\ 5 * q <= k /\ b \in Int
      BY <1>1, <2>1
    <3>2. B[b] = (5 * b - 4)..(5 * b)
      BY <1>5, <2>1
    <3>3. \A x \in (5 * b - 4)..(5 * b) : x \in 1..k
      BY <1>1, <3>1
    <3> QED
      BY <3>2, <3>3
  <2>2. CASE ~(b <= q)
    <3>1. 5 * q + (b - q) \in 1..k
      BY <1>1, <2>2
    <3> QED
      BY <1>5, <2>2, <3>1
  <2> QED
    BY <2>1, <2>2
<1>8. ASSUME NEW j \in 1..k PROVE \E b \in 1..(q + r) : j \in B[b]
  <2>1. CASE j <= 5 * q
    <3>1. PICK c \in Nat : c = (j + 4) \div 5 /\ 5 * c <= j + 4 /\ j + 4 < 5 * c + 5
      <4>1. j + 4 \in Nat
        OBVIOUS
      <4>2. PICK c \in Nat, d \in 0..4 : c = (j + 4) \div 5 /\ j + 4 = 5 * c + d
        BY <4>1, DivFive
      <4> QED
        BY <4>2
    <3>2. c \in 1..q /\ j \in (5 * c - 4)..(5 * c)
      BY <1>1, <2>1, <3>1
    <3>3. c \in 1..(q + r) /\ c <= q
      BY <1>1, <3>2
    <3> QED
      BY <1>5, <3>2, <3>3
  <2>2. CASE j > 5 * q
    <3>1. q + (j - 5 * q) \in 1..(q + r) /\ ~(q + (j - 5 * q) <= q)
          /\ 5 * q + ((q + (j - 5 * q)) - q) = j
      BY <1>1, <2>2
    <3> QED
      BY <1>5, <3>1
  <2> QED
    BY <1>1, <2>1, <2>2
<1>9. ASSUME NEW j \in 1..k, NEW b \in 1..(q + r), NEW c \in 1..(q + r), j \in B[b], j \in B[c]
      PROVE  b = c
  <2>1. /\ b \in Int /\ c \in Int /\ j \in Int /\ b <= q + r /\ c <= q + r
        /\ b <= q => 5 * b - 4 <= j /\ j <= 5 * b
        /\ c <= q => 5 * c - 4 <= j /\ j <= 5 * c
        /\ ~(b <= q) => j = 5 * q + (b - q)
        /\ ~(c <= q) => j = 5 * q + (c - q)
    <3>1. b \in Int /\ c \in Int /\ j \in Int /\ b <= q + r /\ c <= q + r
      BY <1>1
    <3>2. ASSUME NEW x \in 1..(q + r), j \in B[x]
          PROVE  /\ x <= q => 5 * x - 4 <= j /\ j <= 5 * x
                 /\ ~(x <= q) => j = 5 * q + (x - q)
      <4>1. x <= q => B[x] = (5 * x - 4)..(5 * x)
        BY <1>5
      <4>2. ~(x <= q) => B[x] = {5 * q + (x - q)}
        BY <1>5
      <4> QED
        BY <1>1, <3>2, <4>1, <4>2
    <3> QED
      BY <1>9, <3>1, <3>2
  <2>2. b <= q /\ c <= q => b = c
    BY <1>1, <2>1
  <2>3. b <= q => c <= q
    BY <1>1, <2>1
  <2>4. c <= q => b <= q
    BY <1>1, <2>1
  <2>5. ~(b <= q) /\ ~(c <= q) => b = c
    BY <1>1, <2>1
  <2> QED
    BY <2>2, <2>3, <2>4, <2>5
<1> QED
  BY <1>4, <1>6, <1>7, <1>8, <1>9 DEF EachInOneBlock, B

LEMMA IndexedBlocksPartition ==
  ASSUME job.width \in Nat \ {0}, job.float64 \in BOOLEAN
  PROVE  EachInOneBlock(K!IndexedBlocks, job.width)
<1> DEFINE k == job.width
<1>1. ASSUME NEW B, B = <<1..k>> PROVE EachInOneBlock(B, k)
  BY <1>1 DEF EachInOneBlock
<1>2. ASSUME NEW B, B = [j \in 1..k |-> {j}] PROVE EachInOneBlock(B, k)
  <2>1. Len(B) = k
    BY <1>2
  <2> QED
    BY <1>2, <2>1 DEF EachInOneBlock
<1>3. CASE ~job.float64 \/ k < 2
  <2>1. K!IndexedBlocks = K!OneByOne(k)
    BY <1>3 DEF K!IndexedBlocks
  <2> QED
    BY <1>2, <2>1 DEF K!OneByOne
<1>4. CASE job.float64 /\ k > 10
  <2>1. K!IndexedBlocks = K!Blocked5(k)
    BY <1>4 DEF K!IndexedBlocks
  <2> QED
    BY <1>4, <2>1, SplitByFive
<1>5. CASE job.float64 /\ k \in 2..10
  <2>1. K!IndexedBlocks = <<1..k>>
    <3>2. CASE k = 2
      BY <1>5, <3>2 DEF K!IndexedBlocks, K!Unrolled, K!Scalar2
    <3>3. CASE k = 3
      BY <1>5, <3>3 DEF K!IndexedBlocks, K!Unrolled, K!Scalar3
    <3>4. CASE k = 4
      BY <1>5, <3>4 DEF K!IndexedBlocks, K!Unrolled, K!Scalar4
    <3>5. CASE k = 5
      BY <1>5, <3>5 DEF K!IndexedBlocks, K!Unrolled, K!Scalar5
    <3>6. CASE k = 6
      BY <1>5, <3>6 DEF K!IndexedBlocks, K!Unrolled, K!Scalar6
    <3>7. CASE k = 7
      BY <1>5, <3>7 DEF K!IndexedBlocks, K!Unrolled, K!Scalar7
    <3>8. CASE k = 8
      BY <1>5, <3>8 DEF K!IndexedBlocks, K!Unrolled, K!Scalar8
    <3>9. CASE k = 9
      BY <1>5, <3>9 DEF K!IndexedBlocks, K!Unrolled, K!Scalar9
    <3>10. CASE k = 10
      BY <1>5, <3>10 DEF K!IndexedBlocks, K!Unrolled, K!Scalar10
    <3> QED
      BY <1>5, <3>2, <3>3, <3>4, <3>5, <3>6, <3>7, <3>8, <3>9, <3>10
  <2> QED
    BY <1>1, <2>1
<1> QED
  BY <1>3, <1>4, <1>5

\* n is the block of column j exactly if it is (j - 1) \div b + 1.
LEMMA FusedBlocksPartition ==
  ASSUME job.width \in Nat \ {0}, job.fused \in Nat \ {0}
  PROVE  EachInOneBlock(K!FusedBlocks, job.width)
<1> DEFINE k == job.width
           b == job.fused
           m == (k + b - 1) \div b
           B == [n \in 1..m |-> {j \in 1..k : (n - 1) * b < j /\ j <= n * b}]
<1>1. K!FusedBlocks = B
  BY DEF K!FusedBlocks
<1>2. k \in Nat \ {0} /\ b \in Nat \ {0}
  OBVIOUS
<1> HIDE DEF k, b
<1>3. ASSUME NEW x \in Nat
      PROVE  x \div b \in Nat /\ b * (x \div b) <= x /\ x < b * (x \div b) + b
  BY <1>2
<1>4. \A x, y \in Int : x * b = b * x /\ (x + 1) * b = x * b + b /\ (x - 1) * b = x * b - b
  BY <1>2
<1>5. \A x, y \in Int : x <= y => x * b <= y * b
  BY <1>2
<1>6. m \in Nat /\ m * b <= k + b - 1 /\ k + b - 1 < m * b + b
  <2>1. k + b - 1 \in Nat
    BY <1>2
  <2>2. m \in Nat /\ b * m <= k + b - 1 /\ k + b - 1 < b * m + b
    BY <1>3, <2>1
  <2> HIDE DEF m
  <2> QED
    BY <1>4, <2>2
<1> HIDE DEF m
<1>7. m \in Nat \ {0} /\ k <= m * b
  <2>1. m = 0 => m * b = 0
    BY <1>2
  <2>2. m * b \in Int
    BY <1>2, <1>6
  <2>3. k - 1 < m * b
    BY <1>2, <1>6, <2>2
  <2> QED
    BY <1>2, <1>6, <2>1, <2>2, <2>3
<1>8. Len(B) = m
  BY <1>7
<1>9. ASSUME NEW j \in 1..k PROVE \E n \in 1..m : j \in B[n]
  <2>1. PICK n \in Nat : n = (j - 1) \div b /\ n * b <= j - 1 /\ j - 1 < n * b + b
    <3>1. j - 1 \in Nat
      BY <1>2
    <3>2. (j - 1) \div b \in Nat /\ b * ((j - 1) \div b) <= j - 1 /\ j - 1 < b * ((j - 1) \div b) + b
      BY <1>3, <3>1
    <3> QED
      BY <1>4, <3>2
  <2>2. (n + 1) - 1 = n /\ (n + 1) * b = n * b + b /\ n + 1 \in Nat /\ n * b \in Int
    BY <1>2, <1>4
  <2>3. n * b < j /\ j <= (n + 1) * b
    BY <1>2, <2>1, <2>2
  <2>4. n + 1 <= m
    <3>1. m <= n => m * b <= n * b
      BY <1>5, <1>7
    <3>2. m * b \in Int /\ j \in Int /\ j <= k
      BY <1>2, <1>7
    <3> QED
      BY <1>2, <1>7, <2>2, <2>3, <3>1, <3>2
  <2>5. n + 1 \in 1..m
    BY <1>7, <2>2, <2>4
  <2> QED
    BY <2>2, <2>3, <2>5
<1>10. ASSUME NEW j \in 1..k, NEW n \in 1..m, NEW o \in 1..m, j \in B[n], j \in B[o]
       PROVE  n = o
  <2>1. ASSUME NEW x \in 1..m, NEW y \in 1..m, j \in B[x], j \in B[y] PROVE ~(x < y)
    <3>1. x <= y - 1 => x * b <= (y - 1) * b
      BY <1>5, <1>7
    <3>2. j <= x * b /\ (y - 1) * b < j
      BY <2>1
    <3>3. j \in Int /\ x * b \in Int /\ (y - 1) * b \in Int
      BY <1>2, <1>7
    <3> QED
      BY <1>7, <3>1, <3>2, <3>3
  <2>2. ~(n < o) /\ ~(o < n)
    BY <1>10, <2>1
  <2> QED
    BY <1>7, <2>2
<1>11. \A n \in 1..m : B[n] \subseteq 1..k
  OBVIOUS
<1> HIDE DEF B
<1>12. EachInOneBlock(B, k)
  BY <1>7, <1>8, <1>9, <1>10, <1>11 DEF EachInOneBlock
<1> QED
  BY <1>1, <1>12 DEF k

LEMMA BlocksPartition ==
  ASSUME job.width \in Nat \ {0}, job.fused \in Nat \ {0}, job.float64 \in BOOLEAN
  PROVE  EachInOneBlock(K!Blocks, job.width)
BY IndexedBlocksPartition, FusedBlocksPartition DEF K!Blocks

-----------------------------------------------------------------------------
(* The kernels.  Whatever the schedule of the parallel loop, a cell is raw    *)
(* until the one thread that has its level writes its block of columns, and   *)
(* is centred for good from then on.                                          *)

\* What a projection leaves in a cell: see CentredOnce.
Final(c) ==
  IF K!ZeroDenominator(job.codes[c[1]]) THEN <<>>
  ELSE <<{d \in K!Cells : d[2] = c[2] /\ job.codes[d[1]] = job.codes[c[1]]}>>

\* The cell's column is in the block b or a later one.
NotYet(b, c) == \E x \in b..Len(K!Blocks) : c[2] \in K!Blocks[x]

Holds(t, c) == work[t] # K!Idle /\ work[t].level = job.codes[c[1]]

IndexedProgress ==
  /\ todo \subseteq K!KLevels
  /\ \A t \in Threads : work[t] # K!Idle =>
       /\ work[t].level \in K!KLevels \ todo
       /\ work[t].block \in 1..Len(K!Blocks)
       /\ ~K!ZeroDenominator(work[t].level)
       /\ \/ work[t].sums = <<>>
          \/ work[t].sums = [j \in K!Blocks[work[t].block] |-> index[work[t].level] \X {j}]
  /\ \A t, u \in Threads :
       work[t] # K!Idle /\ work[u] # K!Idle /\ work[t].level = work[u].level => t = u
  /\ \A c \in K!Cells :
       lost[c] = IF \/ job.codes[c[1]] \in todo
                    \/ \E t \in Threads : Holds(t, c) /\ NotYet(work[t].block, c)
                 THEN <<>> ELSE Final(c)

\* The fused kernel is at block b: no thread has started and b is the first, or
\* the one thread that has is there.
StandsAt(b) ==
  \/ b = 1 /\ \A t \in Threads : work[t] = K!Idle
  \/ \E t \in Threads : /\ work[t] # K!Idle /\ work[t].block = b
                        /\ \A u \in Threads \ {t} : work[u] = K!Idle

FusedProgress ==
  /\ todo = {} => /\ \A t \in Threads : work[t] = K!Idle
                  /\ \A c \in K!Cells : lost[c] = Final(c)
  /\ todo # {} => \E b \in 1..Len(K!Blocks) :
                    /\ StandsAt(b)
                    /\ \A c \in K!Cells : lost[c] = IF NotYet(b, c) THEN <<>> ELSE Final(c)

JobType ==
  /\ Len(job.codes) \in Nat /\ job.levels \in Nat
  /\ job.codes \in [1..Len(job.codes) -> 0..(job.levels - 1)]
  /\ job.width \in Nat \ {0} /\ job.fused \in Nat \ {0}
  /\ job.float64 \in BOOLEAN /\ job.indexed \in BOOLEAN

Assigned(w) == w = [level |-> w.level, block |-> w.block, sums |-> w.sums]

KernelInv ==
  /\ JobType
  /\ index = [g \in K!KLevels |-> RowsWith(job.codes, g)]
  /\ DOMAIN lost = K!Cells
  /\ DOMAIN work = Threads /\ \A t \in Threads : Assigned(work[t])
  /\ job.indexed => IndexedProgress
  /\ ~job.indexed => FusedProgress

\* What the definitions that read the job alone give.
LEMMA JobSame ==
  ASSUME job' = job
  PROVE  /\ (K!Blocks)' = K!Blocks /\ (K!Cells)' = K!Cells /\ (K!KLevels)' = K!KLevels
         /\ (K!Idle)' = K!Idle
         /\ \A g : K!ZeroDenominator(g)' <=> K!ZeroDenominator(g)
         /\ \A c : Final(c)' = Final(c)
         /\ \A b, c : NotYet(b, c)' <=> NotYet(b, c)
         /\ JobType' <=> JobType
         /\ \A g : RowsWith(job.codes, g)' = RowsWith(job.codes, g)
<1>1. (K!Cells)' = K!Cells /\ (K!KLevels)' = K!KLevels /\ (K!Idle)' = K!Idle
  BY DEF K!Cells, K!KRows, K!KLevels, K!Idle
<1>2. (K!Blocks)' = K!Blocks
  BY DEF K!Blocks, K!IndexedBlocks, K!FusedBlocks
<1>3. \A g : K!ZeroDenominator(g)' <=> K!ZeroDenominator(g)
  BY DEF K!ZeroDenominator, K!KRows
<1>4. \A c : Final(c)' = Final(c)
  BY <1>1, <1>3 DEF Final
<1>5. \A b, c : NotYet(b, c)' <=> NotYet(b, c)
  BY <1>2 DEF NotYet
<1>6. JobType' <=> JobType
  BY DEF JobType
<1>7. \A g : RowsWith(job.codes, g)' = RowsWith(job.codes, g)
  BY DEF RowsWith
<1> QED
  BY <1>1, <1>2, <1>3, <1>4, <1>5, <1>6, <1>7

\* Cells, levels and blocks.
LEMMA CellFacts ==
  ASSUME KernelInv
  PROVE  /\ EachInOneBlock(K!Blocks, job.width)
         /\ \A c \in K!Cells : /\ c[2] \in 1..job.width /\ job.codes[c[1]] \in K!KLevels
                               /\ c[1] \in index[job.codes[c[1]]]
         /\ \A c \in K!Cells, g \in K!KLevels :
              c[1] \in index[g] <=> job.codes[c[1]] = g
         /\ \A g \in K!KLevels, S \in SUBSET (1..job.width) :
              /\ index[g] \X S \subseteq K!Cells
              /\ \A c \in K!Cells : c \in index[g] \X S <=> job.codes[c[1]] = g /\ c[2] \in S
         /\ \A g \in K!KLevels, j \in 1..job.width :
              index[g] \X {j} = {d \in K!Cells : d[2] = j /\ job.codes[d[1]] = g}
<1>1. EachInOneBlock(K!Blocks, job.width)
  BY BlocksPartition DEF KernelInv, JobType
<1>2. /\ DOMAIN job.codes = K!KRows /\ K!Cells = K!KRows \X (1..job.width)
      /\ \A a \in K!KRows : job.codes[a] \in K!KLevels
  BY DEF KernelInv, JobType, K!KRows, K!Cells, K!KLevels
<1>3. \A g \in K!KLevels : index[g] = {a \in K!KRows : job.codes[a] = g}
  BY <1>2 DEF KernelInv, RowsWith
<1>4. \A c \in K!Cells : c[1] \in K!KRows /\ c[2] \in 1..job.width /\ c = <<c[1], c[2]>>
  BY <1>2
<1>5. \A a \in K!KRows, j \in 1..job.width : <<a, j>> \in K!Cells
  BY <1>2
<1>6. \A c \in K!Cells : /\ c[2] \in 1..job.width /\ job.codes[c[1]] \in K!KLevels
                         /\ c[1] \in index[job.codes[c[1]]]
  BY <1>2, <1>3, <1>4
<1>7. \A c \in K!Cells, g \in K!KLevels : c[1] \in index[g] <=> job.codes[c[1]] = g
  BY <1>3, <1>4
<1>8. ASSUME NEW g \in K!KLevels, NEW S \in SUBSET (1..job.width)
      PROVE  /\ index[g] \X S \subseteq K!Cells
             /\ \A c \in K!Cells : c \in index[g] \X S <=> job.codes[c[1]] = g /\ c[2] \in S
  <2>1. index[g] \subseteq K!KRows
    BY <1>3
  <2>2. index[g] \X S \subseteq K!Cells
    BY <1>2, <2>1
  <2>3. \A c \in K!Cells : c \in index[g] \X S <=> c[1] \in index[g] /\ c[2] \in S
    BY <1>4
  <2> QED
    BY <1>7, <2>2, <2>3
<1>9. ASSUME NEW g \in K!KLevels, NEW j \in 1..job.width
      PROVE  index[g] \X {j} = {d \in K!Cells : d[2] = j /\ job.codes[d[1]] = g}
  <2>1. /\ index[g] \X {j} \subseteq K!Cells
        /\ \A c \in K!Cells : c \in index[g] \X {j} <=> job.codes[c[1]] = g /\ c[2] \in {j}
    <3>1. {j} \in SUBSET (1..job.width)
      OBVIOUS
    <3> QED
      BY <1>8, <3>1
  <2> QED
    BY <2>1
<1> QED
  BY <1>1, <1>6, <1>7, <1>8, <1>9

LEMMA JobPartition == JobType => EachInOneBlock(K!Blocks, job.width)
BY BlocksPartition DEF JobType

LEMMA JobPartitionNext == JobType' => EachInOneBlock(K!Blocks, job.width)'
BY JobPartition, PTL

\* A kernel that has just been started owes every cell.
LEMMA StartKernel ==
  ASSUME NEW r, K!Start(r), JobType',
         \A g \in 0..(r.levels - 1) : index'[g] = RowsWith(r.codes, g),
         DOMAIN index' = 0..(r.levels - 1)
  PROVE  KernelInv'
<1>1. /\ job' = r /\ lost' = [c \in (1..Len(r.codes)) \X (1..r.width) |-> <<>>]
      /\ todo' = 0..(r.levels - 1) /\ work' = [t \in Threads |-> K!Idle]
      /\ index' = K!GroupIndex(r.codes, 0..(r.levels - 1))
  BY DEF K!Start
<1>2. (K!Cells)' = (1..Len(r.codes)) \X (1..r.width) /\ (K!KLevels)' = 0..(r.levels - 1)
      /\ (K!Idle)' = K!Idle
  BY <1>1 DEF K!Cells, K!KRows, K!KLevels, K!Idle
<1>3. (index = [g \in K!KLevels |-> RowsWith(job.codes, g)])'
  <2>1. index' = [g \in 0..(r.levels - 1) |-> index'[g]]
    BY <1>1 DEF K!GroupIndex
  <2> QED
    BY <1>1, <1>2, <2>1 DEF RowsWith
<1>4. (DOMAIN lost = K!Cells)' /\ \A c \in (K!Cells)' : lost'[c] = <<>>
  BY <1>1, <1>2
<1>5. (DOMAIN work = Threads)' /\ \A t \in Threads : work'[t] = K!Idle
  BY <1>1
<1>6. \A t \in Threads : Assigned(work[t])'
  BY <1>5 DEF Assigned, K!Idle
<1>7. EachInOneBlock(K!Blocks, job.width)'
  BY JobPartitionNext
<1>8. \A c \in (K!Cells)' : /\ job'.codes[c[1]] \in (K!KLevels)'
                            /\ NotYet(1, c)'
  <2> TAKE c \in (K!Cells)'
  <2>1. c[1] \in 1..Len(r.codes) /\ c[2] \in 1..r.width
    BY <1>2
  <2>2. job'.codes[c[1]] \in 0..(r.levels - 1)
    BY <1>1, <2>1 DEF JobType
  <2>3. NotYet(1, c)'
    BY <1>1, <1>7, <2>1 DEF EachInOneBlock, NotYet
  <2> QED
    BY <1>2, <2>2, <2>3
<1>9. IndexedProgress'
  <2>1. (todo \subseteq K!KLevels)'
    BY <1>1, <1>2
  <2>2. \A c \in (K!Cells)' : lost'[c] = <<>> /\ job'.codes[c[1]] \in todo'
    BY <1>1, <1>2, <1>4, <1>8
  <2>3. \A t \in Threads : work'[t] = (K!Idle)'
    BY <1>2, <1>5
  <2> QED
    BY <2>1, <2>2, <2>3 DEF IndexedProgress
<1>10. FusedProgress'
  <2>1. \A t \in Threads : work'[t] = (K!Idle)'
    BY <1>2, <1>5
  <2>2. ASSUME todo' = {} PROVE \A c \in (K!Cells)' : lost'[c] = Final(c)'
    BY <1>1, <1>2, <1>8, <2>2
  <2>3. 1 \in 1..Len((K!Blocks)') /\ StandsAt(1)'
    BY <1>7, <2>1 DEF EachInOneBlock, StandsAt
  <2>4. \A c \in (K!Cells)' : lost'[c] = IF NotYet(1, c)' THEN <<>> ELSE Final(c)'
    BY <1>4, <1>8
  <2> QED
    BY <2>1, <2>2, <2>3, <2>4 DEF FusedProgress
<1> QED
  BY <1>3, <1>4, <1>5, <1>6, <1>9, <1>10 DEF KernelInv

\* A level nobody has taken goes to a thread, or needs none.
LEMMA TakeStep ==
  ASSUME KernelInv, NEW t \in Threads, K!Take(t)
  PROVE  KernelInv'
<1>1. PICK g \in todo :
         /\ job.indexed /\ work[t] = K!Idle
         /\ todo' = todo \ {g}
         /\ work' = IF index[g] = {} \/ K!ZeroDenominator(g) THEN work
                    ELSE [work EXCEPT ![t] = [level |-> g, block |-> 1, sums |-> <<>>]]
         /\ job' = job /\ index' = index /\ lost' = lost
  BY DEF K!Take
<1>2. /\ (K!Blocks)' = K!Blocks /\ (K!Cells)' = K!Cells /\ (K!KLevels)' = K!KLevels
      /\ (K!Idle)' = K!Idle
      /\ \A h : K!ZeroDenominator(h)' <=> K!ZeroDenominator(h)
      /\ \A c : Final(c)' = Final(c)
      /\ \A b, c : NotYet(b, c)' <=> NotYet(b, c)
      /\ JobType' <=> JobType
      /\ \A h : RowsWith(job.codes, h)' = RowsWith(job.codes, h)
  BY <1>1, JobSame
<1>3. IndexedProgress
  BY <1>1 DEF KernelInv
<1>4. g \in K!KLevels /\ g \in Int /\ g # -1
  BY <1>1, <1>3 DEF IndexedProgress, K!KLevels, KernelInv, JobType
<1> DEFINE new == [level |-> g, block |-> 1, sums |-> <<>>]
<1>5. new # K!Idle /\ new.level = g /\ new.block = 1 /\ new.sums = <<>>
  BY <1>4 DEF K!Idle
<1>6. DOMAIN work = Threads /\ DOMAIN work' = Threads
  BY <1>1 DEF KernelInv
<1>7. ASSUME NEW u \in Threads PROVE work'[u] = work[u] \/ (u = t /\ work'[u] = new)
  BY <1>1, <1>6
<1>8. CASE index[g] = {} \/ K!ZeroDenominator(g)
  <2>1. work' = work
    BY <1>1, <1>8
  <2>2. \A c \in K!Cells : job.codes[c[1]] = g => Final(c) = <<>>
    BY <1>8, CellFacts DEF Final
  <2>3. IndexedProgress'
    <3>1. \A c \in K!Cells :
            lost[c] = IF \/ job.codes[c[1]] \in todo \ {g}
                         \/ \E u \in Threads : Holds(u, c) /\ NotYet(work[u].block, c)
                      THEN <<>> ELSE Final(c)
      BY <1>3, <2>2 DEF IndexedProgress
    <3> QED
      BY <1>1, <1>2, <1>3, <2>1, <3>1 DEF IndexedProgress, Holds
  <2> QED
    BY <1>1, <1>2, <2>1, <2>3 DEF KernelInv, Assigned
<1>9. CASE ~(index[g] = {} \/ K!ZeroDenominator(g))
  <2>1. work' = [work EXCEPT ![t] = new]
    BY <1>1, <1>9
  <2>2. work'[t] = new /\ \A u \in Threads \ {t} : work'[u] = work[u]
    BY <1>6, <2>1
  <2> HIDE DEF new
  <2>3. EachInOneBlock(K!Blocks, job.width)
    BY CellFacts
  <2>4. \A c \in K!Cells : NotYet(1, c)
    BY <2>3, CellFacts DEF NotYet, EachInOneBlock
  <2>5. \A u \in Threads : work[u] # K!Idle => work[u].level # g
    BY <1>1, <1>3 DEF IndexedProgress
  <2>6. IndexedProgress'
    <3>1. todo' \subseteq K!KLevels
      BY <1>1, <1>3 DEF IndexedProgress
    <3>2. ASSUME NEW u \in Threads, work'[u] # K!Idle
          PROVE  /\ work'[u].level \in K!KLevels \ todo'
                 /\ work'[u].block \in 1..Len(K!Blocks)
                 /\ ~K!ZeroDenominator(work'[u].level)
                 /\ \/ work'[u].sums = <<>>
                    \/ work'[u].sums = [j \in K!Blocks[work'[u].block] |-> index'[work'[u].level] \X {j}]
      <4>1. CASE u = t
        BY <1>1, <1>4, <1>5, <1>9, <2>2, <2>3, <4>1 DEF EachInOneBlock
      <4>2. CASE u # t
        BY <1>1, <1>3, <2>2, <3>2, <4>2 DEF IndexedProgress
      <4> QED
        BY <4>1, <4>2
    <3>3. ASSUME NEW u \in Threads, NEW v \in Threads, work'[u] # K!Idle, work'[v] # K!Idle,
                 work'[u].level = work'[v].level
          PROVE  u = v
      BY <1>3, <1>5, <2>2, <2>5, <3>3 DEF IndexedProgress
    <3>4. ASSUME NEW c \in K!Cells
          PROVE  lost[c] = IF \/ job.codes[c[1]] \in todo'
                              \/ \E u \in Threads : /\ work'[u] # K!Idle
                                                    /\ work'[u].level = job.codes[c[1]]
                                                    /\ NotYet(work'[u].block, c)
                           THEN <<>> ELSE Final(c)
      <4>1. CASE job.codes[c[1]] = g
        BY <1>1, <1>3, <1>5, <2>2, <2>4, <4>1 DEF IndexedProgress
      <4>2. CASE job.codes[c[1]] # g
        <5>1. \A u \in Threads : /\ work'[u] # K!Idle
                                 /\ work'[u].level = job.codes[c[1]]
                                 /\ NotYet(work'[u].block, c)
                <=> Holds(u, c) /\ NotYet(work[u].block, c)
          BY <1>1, <1>5, <2>2, <4>2 DEF Holds
        <5> QED
          BY <1>1, <1>3, <4>2, <5>1 DEF IndexedProgress
      <4> QED
        BY <4>1, <4>2
    <3> QED
      BY <1>1, <1>2, <3>1, <3>2, <3>3, <3>4 DEF IndexedProgress, Holds
  <2>7. \A u \in Threads : Assigned(work'[u])
    BY <1>5, <2>2 DEF KernelInv, Assigned, new
  <2> QED
    BY <1>1, <1>2, <1>6, <2>6, <2>7 DEF KernelInv, Assigned
<1> QED
  BY <1>8, <1>9

\* The cells a thread still owes are raw.
LEMMA OwedIsRaw ==
  ASSUME KernelInv, IndexedProgress, NEW t \in Threads, work[t] # K!Idle,
         NEW S \in SUBSET K!Blocks[work[t].block]
  PROVE  /\ index[work[t].level] \X S \subseteq K!Cells
         /\ \A c \in index[work[t].level] \X S : lost[c] = <<>>
<1>1. /\ work[t].level \in K!KLevels /\ work[t].block \in 1..Len(K!Blocks)
      /\ EachInOneBlock(K!Blocks, job.width)
  BY CellFacts DEF IndexedProgress
<1>2. S \in SUBSET (1..job.width) /\ Len(K!Blocks) \in Nat
  BY <1>1 DEF EachInOneBlock
<1>3. /\ index[work[t].level] \X S \subseteq K!Cells
      /\ \A c \in K!Cells : c \in index[work[t].level] \X S <=>
                              job.codes[c[1]] = work[t].level /\ c[2] \in S
  BY <1>1, <1>2, CellFacts
<1>4. ASSUME NEW c \in index[work[t].level] \X S PROVE lost[c] = <<>>
  <2>1. c \in K!Cells /\ job.codes[c[1]] = work[t].level /\ c[2] \in S
    BY <1>3
  <2>2. NotYet(work[t].block, c)
    <3>1. PICK b : b = work[t].block
      OBVIOUS
    <3>2. b \in 1..Len(K!Blocks) /\ c[2] \in K!Blocks[b]
      BY <1>1, <2>1, <3>1
    <3>3. b \in b..Len(K!Blocks)
      BY <1>2, <3>2
    <3>4. NotYet(b, c)
      BY <3>2, <3>3 DEF NotYet
    <3> QED
      BY <3>1, <3>4
  <2> QED
    BY <2>1, <2>2 DEF IndexedProgress, Holds
<1> QED
  BY <1>3, <1>4

\* First pass: what is summed is raw, so the sums are over the whole level.
LEMMA AccumulateStep ==
  ASSUME KernelInv, NEW t \in Threads, K!Accumulate(t)
  PROVE  KernelInv'
<1> DEFINE sums == [j \in K!Blocks[work[t].block] |-> K!Read(index[work[t].level] \X {j})]
<1>1. /\ job.indexed /\ work[t] # K!Idle /\ work[t].sums = <<>>
      /\ work' = [work EXCEPT ![t].sums = sums]
      /\ job' = job /\ index' = index /\ lost' = lost /\ todo' = todo
  BY DEF K!Accumulate
<1>2. /\ (K!Blocks)' = K!Blocks /\ (K!Cells)' = K!Cells /\ (K!KLevels)' = K!KLevels
      /\ (K!Idle)' = K!Idle
      /\ \A h : K!ZeroDenominator(h)' <=> K!ZeroDenominator(h)
      /\ \A c : Final(c)' = Final(c)
      /\ \A b, c : NotYet(b, c)' <=> NotYet(b, c)
      /\ JobType' <=> JobType
      /\ \A h : RowsWith(job.codes, h)' = RowsWith(job.codes, h)
  BY <1>1, JobSame
<1>3. IndexedProgress
  BY <1>1 DEF KernelInv
<1>4. sums = [j \in K!Blocks[work[t].block] |-> index[work[t].level] \X {j}]
  <2> SUFFICES ASSUME NEW j \in K!Blocks[work[t].block]
               PROVE  K!Read(index[work[t].level] \X {j}) = index[work[t].level] \X {j}
    OBVIOUS
  <2>1. {j} \in SUBSET K!Blocks[work[t].block]
    OBVIOUS
  <2>2. \A c \in index[work[t].level] \X {j} : lost[c] = <<>>
    BY <1>1, <1>3, <2>1, OwedIsRaw
  <2> QED
    BY <2>2 DEF K!Read
<1> HIDE DEF sums
<1>5. /\ DOMAIN work' = Threads
      /\ \A u \in Threads \ {t} : work'[u] = work[u]
      /\ work'[t] = [level |-> work[t].level, block |-> work[t].block, sums |-> sums]
  BY <1>1 DEF KernelInv, Assigned
<1>6. work'[t].level = work[t].level /\ work'[t].block = work[t].block /\ work'[t].sums = sums
  BY <1>5
<1>7. work[t].level \in Nat /\ K!Idle.level = -1
  <2>1. work[t].level \in K!KLevels
    BY <1>1, <1>3 DEF IndexedProgress
  <2>2. K!KLevels \subseteq Nat
    BY DEF K!KLevels, KernelInv, JobType
  <2>3. K!Idle.level = -1
    BY DEF K!Idle
  <2> QED
    BY <2>1, <2>2, <2>3
<1>8. work'[t] # K!Idle
  BY <1>6, <1>7
<1>9. \A u \in Threads : /\ work'[u] # K!Idle <=> work[u] # K!Idle
                         /\ work'[u].level = work[u].level /\ work'[u].block = work[u].block
  BY <1>1, <1>5, <1>6, <1>8
<1>10. \A u \in Threads : Assigned(work[u])'
  BY <1>5, <1>6 DEF KernelInv, Assigned
<1>11. IndexedProgress'
  <2>1. ASSUME NEW u \in Threads, work'[u] # K!Idle
        PROVE  /\ work'[u].level \in K!KLevels \ todo
               /\ work'[u].block \in 1..Len(K!Blocks)
               /\ ~K!ZeroDenominator(work'[u].level)
               /\ \/ work'[u].sums = <<>>
                  \/ work'[u].sums = [j \in K!Blocks[work'[u].block] |-> index[work'[u].level] \X {j}]
    <3>1. CASE u = t
      BY <1>1, <1>3, <1>4, <1>6, <3>1 DEF IndexedProgress
    <3>2. CASE u # t
      BY <1>3, <1>5, <2>1, <3>2 DEF IndexedProgress
    <3> QED
      BY <3>1, <3>2
  <2>2. \A u, v \in Threads :
          work'[u] # K!Idle /\ work'[v] # K!Idle /\ work'[u].level = work'[v].level => u = v
    BY <1>3, <1>9 DEF IndexedProgress
  <2>3. \A c \in K!Cells :
          lost[c] = IF \/ job.codes[c[1]] \in todo
                       \/ \E u \in Threads : /\ work'[u] # K!Idle
                                             /\ work'[u].level = job.codes[c[1]]
                                             /\ NotYet(work'[u].block, c)
                    THEN <<>> ELSE Final(c)
    BY <1>3, <1>9 DEF IndexedProgress, Holds
  <2> QED
    BY <1>1, <1>2, <1>3, <2>1, <2>2, <2>3 DEF IndexedProgress, Holds
<1> QED
  BY <1>1, <1>2, <1>5, <1>10, <1>11 DEF KernelInv

\* Second pass: every cell of the block is centred, and no cell of another one.
LEMMA WriteBackStep ==
  ASSUME KernelInv, NEW t \in Threads, K!WriteBack(t)
  PROVE  KernelInv'
<1>1. PICK g, b, sums : g = work[t].level /\ b = work[t].block /\ sums = work[t].sums
  OBVIOUS
<1> DEFINE now == IF b = Len(K!Blocks) THEN K!Idle
                  ELSE [level |-> g, block |-> b + 1, sums |-> <<>>]
           hit == index[g] \X K!Blocks[b]
<1>2. /\ job.indexed /\ work[t] # K!Idle /\ sums # <<>>
      /\ lost' = K!Subtract(hit, sums)
      /\ job' = job /\ index' = index /\ todo' = todo
  BY <1>1 DEF K!WriteBack
<1>3. work' = [work EXCEPT ![t] = now]
  BY <1>1 DEF K!WriteBack
<1>4. /\ (K!Blocks)' = K!Blocks /\ (K!Cells)' = K!Cells /\ (K!KLevels)' = K!KLevels
      /\ (K!Idle)' = K!Idle
      /\ \A h : K!ZeroDenominator(h)' <=> K!ZeroDenominator(h)
      /\ \A c : Final(c)' = Final(c)
      /\ \A x, c : NotYet(x, c)' <=> NotYet(x, c)
      /\ JobType' <=> JobType
      /\ \A h : RowsWith(job.codes, h)' = RowsWith(job.codes, h)
  BY <1>2, JobSame
<1>5. IndexedProgress
  BY <1>2 DEF KernelInv
<1>6. /\ g \in K!KLevels \ todo /\ b \in 1..Len(K!Blocks) /\ ~K!ZeroDenominator(g)
      /\ sums = [j \in K!Blocks[b] |-> index[g] \X {j}]
  BY <1>1, <1>2, <1>5 DEF IndexedProgress
<1>7. /\ EachInOneBlock(K!Blocks, job.width) /\ Len(K!Blocks) \in Nat
      /\ K!Blocks[b] \in SUBSET (1..job.width)
  BY <1>6, CellFacts DEF EachInOneBlock
<1>8. /\ hit \subseteq K!Cells
      /\ \A c \in K!Cells : c \in hit <=> job.codes[c[1]] = g /\ c[2] \in K!Blocks[b]
      /\ \A c \in hit : lost[c] = <<>>
  <2>1. \A c \in hit : lost[c] = <<>>
    BY <1>1, <1>2, <1>5, OwedIsRaw
  <2> QED
    BY <1>6, <1>7, <2>1, CellFacts
<1> HIDE DEF hit
<1>9. /\ DOMAIN lost' = K!Cells
      /\ \A c \in K!Cells : lost'[c] = IF c \in hit THEN Final(c) ELSE lost[c]
  <2>1. DOMAIN lost = K!Cells
    BY DEF KernelInv
  <2>2. lost' = [c \in K!Cells |-> IF c \in hit THEN Append(lost[c], sums[c[2]]) ELSE lost[c]]
    BY <1>2, <2>1 DEF K!Subtract
  <2>3. ASSUME NEW c \in hit PROVE Append(lost[c], sums[c[2]]) = Final(c)
    <3>1. c \in K!Cells /\ job.codes[c[1]] = g /\ c[2] \in K!Blocks[b] /\ lost[c] = <<>>
      BY <1>8
    <3>2. c[2] \in 1..job.width
      BY <1>7, <3>1
    <3>3. sums[c[2]] = {d \in K!Cells : d[2] = c[2] /\ job.codes[d[1]] = g}
      BY <1>6, <3>1, <3>2, CellFacts
    <3>4. Append(<<>>, sums[c[2]]) = <<sums[c[2]]>>
      OBVIOUS
    <3> QED
      BY <1>6, <3>1, <3>3, <3>4 DEF Final
  <2> QED
    BY <2>2, <2>3
<1>10. /\ DOMAIN work' = Threads
       /\ \A u \in Threads \ {t} : work'[u] = work[u]
       /\ work'[t] = now
  BY <1>3 DEF KernelInv
<1>11. g \in Nat /\ K!Idle.level = -1
  BY <1>6 DEF K!KLevels, KernelInv, JobType, K!Idle
<1>12. b # Len(K!Blocks) =>
         now # K!Idle /\ now.level = g /\ now.block = b + 1 /\ now.sums = <<>>
  BY <1>11
<1>13. b = Len(K!Blocks) => now = K!Idle
  OBVIOUS
<1>14. Assigned(now)
  BY DEF Assigned, K!Idle
<1> HIDE DEF now
\* Its own columns done, the thread owes the later blocks of its level.
<1>15. ASSUME NEW c \in K!Cells, job.codes[c[1]] = g
       PROVE  /\ now # K!Idle /\ NotYet(now.block, c) <=> NotYet(b, c) /\ c \notin hit
  <2>1. c[2] \in 1..job.width
    BY CellFacts
  <2>2. PICK x \in 1..Len(K!Blocks) : c[2] \in K!Blocks[x]
    BY <1>7, <2>1 DEF EachInOneBlock
  <2>3. \A y \in 1..Len(K!Blocks) : c[2] \in K!Blocks[y] <=> y = x
    BY <1>7, <2>1, <2>2 DEF EachInOneBlock
  <2>4. NotYet(b, c) <=> b <= x
    BY <1>6, <1>7, <2>2, <2>3 DEF NotYet
  <2>5. c \in hit <=> x = b
    BY <1>6, <1>8, <1>15, <2>3
  <2>6. b # Len(K!Blocks) => (NotYet(now.block, c) <=> b + 1 <= x)
    BY <1>6, <1>7, <1>12, <2>2, <2>3 DEF NotYet
  <2> QED
    BY <1>6, <1>7, <1>12, <1>13, <2>2, <2>4, <2>5, <2>6
<1>16. IndexedProgress'
  <2>1. ASSUME NEW u \in Threads, work'[u] # K!Idle
        PROVE  /\ work'[u].level \in K!KLevels \ todo
               /\ work'[u].block \in 1..Len(K!Blocks)
               /\ ~K!ZeroDenominator(work'[u].level)
               /\ \/ work'[u].sums = <<>>
                  \/ work'[u].sums = [j \in K!Blocks[work'[u].block] |-> index[work'[u].level] \X {j}]
    <3>1. CASE u = t
      <4>1. b # Len(K!Blocks)
        BY <1>10, <1>13, <2>1, <3>1
      <4>2. b + 1 \in 1..Len(K!Blocks)
        BY <1>6, <1>7, <4>1
      <4> QED
        BY <1>6, <1>10, <1>12, <3>1, <4>1, <4>2
    <3>2. CASE u # t
      BY <1>5, <1>10, <2>1, <3>2 DEF IndexedProgress
    <3> QED
      BY <3>1, <3>2
  <2>2. \A u \in Threads : work'[u] # K!Idle => work[u] # K!Idle /\ work'[u].level = work[u].level
    BY <1>1, <1>2, <1>10, <1>12, <1>13
  <2>3. \A u, v \in Threads :
          work'[u] # K!Idle /\ work'[v] # K!Idle /\ work'[u].level = work'[v].level => u = v
    BY <1>5, <2>2 DEF IndexedProgress
  <2>4. ASSUME NEW c \in K!Cells
        PROVE  lost'[c] = IF \/ job.codes[c[1]] \in todo
                             \/ \E u \in Threads : /\ work'[u] # K!Idle
                                                   /\ work'[u].level = job.codes[c[1]]
                                                   /\ NotYet(work'[u].block, c)
                          THEN <<>> ELSE Final(c)
    <3>1. lost[c] = IF \/ job.codes[c[1]] \in todo
                       \/ \E u \in Threads : /\ work[u] # K!Idle
                                             /\ work[u].level = job.codes[c[1]]
                                             /\ NotYet(work[u].block, c)
                    THEN <<>> ELSE Final(c)
      BY <1>5 DEF IndexedProgress, Holds
    <3>2. CASE job.codes[c[1]] = g
      <4>1. g \notin todo /\ \A u \in Threads : work[u] # K!Idle /\ work[u].level = g <=> u = t
        BY <1>1, <1>2, <1>5, <1>6 DEF IndexedProgress
      <4>2. \A u \in Threads : work'[u] # K!Idle /\ work'[u].level = g => u = t
        BY <2>2, <4>1
      <4>3. lost[c] = IF NotYet(b, c) THEN <<>> ELSE Final(c)
        BY <1>1, <3>1, <3>2, <4>1
      <4>4. (\E u \in Threads : /\ work'[u] # K!Idle /\ work'[u].level = g
                                /\ NotYet(work'[u].block, c))
              <=> NotYet(b, c) /\ c \notin hit
        <5>1. work'[t] # K!Idle => work'[t].level = g
          BY <1>10, <1>12, <1>13
        <5> QED
          BY <1>10, <1>15, <3>2, <4>2, <5>1
      <4>5. lost'[c] = IF c \in hit THEN Final(c) ELSE lost[c]
        BY <1>9
      <4>6. lost'[c] = IF NotYet(b, c) /\ c \notin hit THEN <<>> ELSE Final(c)
        BY <4>3, <4>5
      <4> QED
        BY <3>2, <4>1, <4>4, <4>6
    <3>3. CASE job.codes[c[1]] # g
      <4>1. \A u \in Threads : /\ work'[u] # K!Idle
                               /\ work'[u].level = job.codes[c[1]]
                               /\ NotYet(work'[u].block, c)
              <=> /\ work[u] # K!Idle
                  /\ work[u].level = job.codes[c[1]]
                  /\ NotYet(work[u].block, c)
        BY <1>1, <1>10, <2>2, <3>3
      <4>2. lost'[c] = lost[c]
        BY <1>8, <1>9, <3>3
      <4> QED
        BY <3>1, <4>1, <4>2
    <3> QED
      BY <3>2, <3>3
  <2> QED
    BY <1>2, <1>4, <1>5, <2>1, <2>3, <2>4 DEF IndexedProgress, Holds
<1>17. \A u \in Threads : Assigned(work[u])'
  BY <1>10, <1>14 DEF KernelInv, Assigned
<1> QED
  BY <1>2, <1>4, <1>9, <1>10, <1>16, <1>17 DEF KernelInv

\* The fused kernel: one thread, a block at a time, every level of it at once.
LEMMA FusedStep ==
  ASSUME KernelInv, NEW t \in Threads, K!FusedPass(t)
  PROVE  KernelInv'
<1> DEFINE here == IF work[t] = K!Idle THEN 1 ELSE work[t].block
<1>1. PICK b : b = here
  OBVIOUS
<1> DEFINE sum(g, j) == K!Read({c \in K!Cells : job.codes[c[1]] = g /\ c[2] = j})
           later == [level |-> 0, block |-> b + 1, sums |-> <<>>]
<1>2. /\ ~job.indexed /\ todo # {}
      /\ \A u \in Threads \ {t} : work[u] = K!Idle
      /\ job' = job /\ index' = index
  BY DEF K!FusedPass
<1>3. /\ (K!Blocks)' = K!Blocks /\ (K!Cells)' = K!Cells /\ (K!KLevels)' = K!KLevels
      /\ (K!Idle)' = K!Idle
      /\ \A h : K!ZeroDenominator(h)' <=> K!ZeroDenominator(h)
      /\ \A c : Final(c)' = Final(c)
      /\ \A x, c : NotYet(x, c)' <=> NotYet(x, c)
      /\ JobType' <=> JobType
      /\ \A h : RowsWith(job.codes, h)' = RowsWith(job.codes, h)
  BY <1>2, JobSame
<1>4. lost' = [c \in K!Cells |->
                 IF c[2] \in K!Blocks[b] /\ ~K!ZeroDenominator(job.codes[c[1]])
                 THEN Append(lost[c], (IF job.codes[c[1]] \in DOMAIN K!Cleared(b)
                                       THEN K!Cleared(b)[job.codes[c[1]]] ELSE {})
                                        \cup sum(job.codes[c[1]], c[2]))
                 ELSE lost[c]]
  BY <1>1 DEF K!FusedPass
<1>5. IF b = Len(K!Blocks)
      THEN todo' = {} /\ work' = [work EXCEPT ![t] = K!Idle]
      ELSE work' = [work EXCEPT ![t] = later] /\ todo' = todo
  BY <1>1 DEF K!FusedPass
<1>6. PICK x \in 1..Len(K!Blocks) :
         /\ StandsAt(x)
         /\ \A c \in K!Cells : lost[c] = IF NotYet(x, c) THEN <<>> ELSE Final(c)
  BY <1>2 DEF KernelInv, FusedProgress
<1>7. x = b
  BY <1>1, <1>2, <1>6 DEF StandsAt
<1>8. /\ EachInOneBlock(K!Blocks, job.width) /\ Len(K!Blocks) \in Nat /\ b \in 1..Len(K!Blocks)
      /\ K!Blocks[b] \in SUBSET (1..job.width)
  BY <1>6, <1>7, CellFacts DEF EachInOneBlock
<1>9. DOMAIN work = Threads
  BY DEF KernelInv
<1> HIDE DEF here, sum, later
\* A cell is owed from its block on.
<1>10. ASSUME NEW c \in K!Cells
       PROVE  /\ NotYet(b, c) <=> c[2] \in K!Blocks[b] \/ NotYet(b + 1, c)
              /\ ~(c[2] \in K!Blocks[b] /\ NotYet(b + 1, c))
              /\ b = Len(K!Blocks) => ~NotYet(b + 1, c)
  <2>1. c[2] \in 1..job.width
    BY CellFacts
  <2>2. PICK z \in 1..Len(K!Blocks) : c[2] \in K!Blocks[z]
    BY <1>8, <2>1 DEF EachInOneBlock
  <2>3. \A y \in 1..Len(K!Blocks) : c[2] \in K!Blocks[y] <=> y = z
    BY <1>8, <2>1, <2>2 DEF EachInOneBlock
  <2>4. NotYet(b, c) <=> b <= z
    BY <1>8, <2>2, <2>3 DEF NotYet
  <2>5. NotYet(b + 1, c) <=> b + 1 <= z
    BY <1>8, <2>2, <2>3 DEF NotYet
  <2>6. c[2] \in K!Blocks[b] <=> z = b
    BY <1>8, <2>3
  <2> QED
    BY <1>8, <2>2, <2>4, <2>5, <2>6
<1>11. ASSUME NEW c \in K!Cells, c[2] \in K!Blocks[b]
       PROVE  sum(job.codes[c[1]], c[2]) = {d \in K!Cells : d[2] = c[2] /\ job.codes[d[1]] = job.codes[c[1]]}
  <2> DEFINE S == {d \in K!Cells : job.codes[d[1]] = job.codes[c[1]] /\ d[2] = c[2]}
  <2>1. \A d \in S : lost[d] = <<>>
    <3> TAKE d \in S
    <3>1. d \in K!Cells /\ d[2] \in K!Blocks[b]
      BY <1>11
    <3>2. NotYet(b, d)
      BY <1>10, <3>1
    <3> QED
      BY <1>6, <1>7, <3>1, <3>2
  <2>2. sum(job.codes[c[1]], c[2]) = K!Read(S)
    BY DEF sum
  <2>3. S = {d \in K!Cells : d[2] = c[2] /\ job.codes[d[1]] = job.codes[c[1]]}
    OBVIOUS
  <2> HIDE DEF S
  <2>4. K!Read(S) = S
    BY <2>1 DEF K!Read
  <2> QED
    BY <2>2, <2>3, <2>4
<1>12. ASSUME NEW c \in K!Cells
       PROVE  lost'[c] = IF NotYet(b + 1, c) THEN <<>> ELSE Final(c)
  <2>1. lost[c] = IF NotYet(b, c) THEN <<>> ELSE Final(c)
    BY <1>6, <1>7
  <2>2. CASE c[2] \in K!Blocks[b]
    <3>1. lost[c] = <<>> /\ ~NotYet(b + 1, c)
      BY <1>10, <2>1, <2>2
    <3>2. CASE K!ZeroDenominator(job.codes[c[1]])
      BY <1>4, <3>1, <3>2 DEF Final
    <3>3. CASE ~K!ZeroDenominator(job.codes[c[1]])
      <4> DEFINE g == job.codes[c[1]]
                 stale == IF g \in DOMAIN K!Cleared(b) THEN K!Cleared(b)[g] ELSE {}
      <4>1. stale = {}
        BY DEF K!Cleared
      <4>2. lost'[c] = Append(<<>>, stale \cup sum(g, c[2]))
        BY <1>4, <2>2, <3>1, <3>3
      <4> HIDE DEF stale
      <4>3. stale \cup sum(g, c[2]) = sum(g, c[2])
        BY <4>1
      <4>4. \A S : Append(<<>>, S) = <<S>>
        OBVIOUS
      <4>5. lost'[c] = <<sum(g, c[2])>>
        BY <4>2, <4>3, <4>4
      <4> QED
        BY <1>11, <2>2, <3>1, <3>3, <4>5 DEF Final
    <3> QED
      BY <3>2, <3>3
  <2>3. CASE c[2] \notin K!Blocks[b]
    <3>1. lost'[c] = lost[c]
      BY <1>4, <2>3
    <3> QED
      BY <1>10, <2>1, <2>3, <3>1
  <2> QED
    BY <2>2, <2>3
<1>13. later.block = b + 1 /\ later # K!Idle /\ Assigned(later) /\ Assigned(K!Idle)
  BY <1>8 DEF later, K!Idle, Assigned
<1>14. DOMAIN work' = Threads /\ \A u \in Threads : Assigned(work'[u])
  BY <1>5, <1>9, <1>13 DEF KernelInv
<1>15. FusedProgress'
  <2>1. CASE b = Len(K!Blocks)
    <3>1. todo' = {} /\ \A u \in Threads : work'[u] = K!Idle
      BY <1>2, <1>5, <1>9, <2>1
    <3>2. \A c \in K!Cells : lost'[c] = Final(c)
      BY <1>10, <1>12, <2>1
    <3> QED
      BY <1>3, <3>1, <3>2 DEF FusedProgress
  <2>2. CASE b # Len(K!Blocks)
    <3>1. todo' = todo /\ b + 1 \in 1..Len(K!Blocks)
      BY <1>5, <1>8, <2>2
    <3>2. work'[t] = later /\ \A u \in Threads \ {t} : work'[u] = K!Idle
      BY <1>2, <1>5, <1>9, <2>2
    <3>3. StandsAt(b + 1)'
      <4>1. work'[t] # (K!Idle)' /\ work'[t].block = b + 1
            /\ \A u \in Threads \ {t} : work'[u] = (K!Idle)'
        BY <1>3, <1>13, <3>2
      <4> QED
        BY <4>1 DEF StandsAt
    <3>4. b + 1 \in 1..Len((K!Blocks)')
      BY <1>3, <3>1
    <3>5. \A c \in (K!Cells)' : lost'[c] = IF NotYet(b + 1, c)' THEN <<>> ELSE Final(c)'
      BY <1>3, <1>12
    <3> QED
      BY <1>2, <3>1, <3>3, <3>4, <3>5 DEF FusedProgress
  <2> QED
    BY <2>1, <2>2
<1>16. DOMAIN lost' = K!Cells
  BY <1>4
<1>17. \A u \in Threads : Assigned(work[u])'
  BY <1>14 DEF Assigned
<1>18. /\ JobType' /\ (~job.indexed)' /\ (DOMAIN lost = K!Cells)'
       /\ (index = [g \in K!KLevels |-> RowsWith(job.codes, g)])'
  BY <1>2, <1>3, <1>16 DEF KernelInv
<1> QED
  BY <1>14, <1>15, <1>17, <1>18 DEF KernelInv

\* Every step of a kernel, in whatever order its threads take them.
LEMMA KernelStep ==
  ASSUME KernelInv, K!Step
  PROVE  KernelInv'
<1>1. PICK t \in Threads : K!Take(t) \/ K!Accumulate(t) \/ K!WriteBack(t) \/ K!FusedPass(t)
  BY DEF K!Step
<1> QED
  BY <1>1, TakeStep, AccumulateStep, WriteBackStep, FusedStep

LEMMA KernelStutters ==
  ASSUME KernelInv, UNCHANGED kvars
  PROVE  KernelInv'
<1>1. /\ job' = job /\ index' = index /\ lost' = lost /\ todo' = todo /\ work' = work
  BY DEF kvars
<1>2. /\ (K!Blocks)' = K!Blocks /\ (K!Cells)' = K!Cells /\ (K!KLevels)' = K!KLevels
      /\ (K!Idle)' = K!Idle
      /\ \A h : K!ZeroDenominator(h)' <=> K!ZeroDenominator(h)
      /\ \A c : Final(c)' = Final(c)
      /\ \A x, c : NotYet(x, c)' <=> NotYet(x, c)
      /\ JobType' <=> JobType
      /\ \A h : RowsWith(job.codes, h)' = RowsWith(job.codes, h)
  BY <1>1, JobSame
<1>3. IndexedProgress' <=> IndexedProgress
  BY <1>1, <1>2 DEF IndexedProgress, Holds
<1>4. \A b : StandsAt(b)' <=> StandsAt(b)
  BY <1>1, <1>2 DEF StandsAt
<1>5. FusedProgress' <=> FusedProgress
  BY <1>1, <1>2, <1>4 DEF FusedProgress
<1>6. \A u \in Threads : Assigned(work[u])' <=> Assigned(work[u])
  BY <1>1 DEF Assigned
<1> QED
  BY <1>1, <1>2, <1>3, <1>5, <1>6 DEF KernelInv

\* Once the kernel has ended, no cell is owed.
LEMMA KernelEnds ==
  ASSUME KernelInv, K!Finished
  PROVE  \A c \in K!Cells : lost[c] = Final(c)
BY DEF KernelInv, K!Finished, IndexedProgress, FusedProgress, Holds

-----------------------------------------------------------------------------
(* The projection on the core.                                                *)

\* What a projection works on: the codes of one term of a finished core.
Projected ==
  term # 0 => /\ pc = "done" /\ alive # {} /\ term \in Terms
              /\ job.codes = [a \in 1..Cardinality(alive) |-> coreCode[term][CoreIndex(a)]]
              /\ KernelInv

ProjectionInv == CoreInv /\ Coded /\ Projected

LEMMA EveryPlaceTaken ==
  \A L, R : IsFiniteSet(L) /\ StrictTotal(L, R) =>
    \A n \in 0..(Cardinality(L) - 1) : \E x \in L : Place(L, R, x) = n
BY PlaceIsBijection

\* The a-th smallest member of a finite set of numbers.
LEMMA NthSmallest ==
  ASSUME NEW V \in SUBSET Int, IsFiniteSet(V), NEW a \in 1..Cardinality(V)
  PROVE  \E i \in V : Cardinality({k \in V : k <= i}) = a
<1> DEFINE R == Below(V)
           N == Cardinality(V)
<1>1. IsFiniteSet(V) /\ N \in Nat
  BY FS_CardinalityType
<1>2. StrictTotal(V, R) /\ \A i \in V : {y \in V : <<y, i>> \in R} = {y \in V : y < i}
  BY NumbersInOrder
<1> HIDE DEF R
<1>3. StrictTotal(V, R)
  BY <1>2
<1>4. \A n \in 0..(Cardinality(V) - 1) : \E x \in V : Place(V, R, x) = n
  BY <1>1, <1>3, EveryPlaceTaken
<1>5. a - 1 \in 0..(Cardinality(V) - 1) /\ a \in Int
  BY <1>1
<1>6. PICK i \in V : Place(V, R, i) = a - 1
  BY <1>4, <1>5
<1> DEFINE under == {y \in V : y < i}
           upto == {k \in V : k <= i}
<1>7. Cardinality(under) = a - 1
  BY <1>2, <1>6 DEF Place
<1>8. \A k \in V : k <= i <=> k < i \/ k = i
  OBVIOUS
<1>9. ~(i < i)
  OBVIOUS
<1>10. upto = under \cup {i} /\ i \notin under /\ under \in SUBSET V
  BY <1>8, <1>9
<1> HIDE DEF upto, under
<1>11. IsFiniteSet(under)
  BY <1>10, FS_Subset
<1>12. Cardinality(under \cup {i}) = Cardinality(under) + 1
  BY <1>10, <1>11, FS_AddElement
<1>13. Cardinality(upto) = a
  BY <1>5, <1>7, <1>10, <1>12
<1> QED
  BY <1>13 DEF upto

\* The a-th row of the compact block is a survivor.
LEMMA CoreIndexFacts ==
  ASSUME NEW a \in 1..Cardinality(alive), alive \in SUBSET Rows
  PROVE  CoreIndex(a) \in alive
<1>1. IsFiniteSet(alive) /\ alive \in SUBSET Int
  <2>1. IsFiniteSet(alive)
    BY RowsFacts
  <2>2. Rows \subseteq Int
    BY DEF Rows
  <2> QED
    BY <2>1, <2>2
<1>2. \E i \in alive : Cardinality({k \in alive : k <= i}) = a
  BY <1>1, NthSmallest
<1> QED
  BY <1>2 DEF CoreIndex

\* The kernel gets dense codes, and the index its threads read lists their levels.
LEMMA BeginStep ==
  ASSUME ProjectionInv, NEW j \in Terms, Begin(j)
  PROVE  ProjectionInv'
<1> DEFINE n == Cardinality(alive)
           codes == [a \in 1..n |-> coreCode[j][CoreIndex(a)]]
           levels == Cardinality({coreCode[j][i] : i \in alive})
<1>1. PICK q \in Jobs :
        K!Start([codes |-> codes, levels |-> levels,
                 width |-> q.width, float64 |-> q.float64, indexed |-> q.indexed,
                 fused |-> q.fused,
                 weights |-> IF q.weighted
                             THEN [a \in 1..n |-> IF CoreIndex(a) \in q.zero THEN 0 ELSE 1]
                             ELSE <<>>])
  BY DEF Begin
<1>2. PICK r : r = [codes |-> codes, levels |-> levels,
                    width |-> q.width, float64 |-> q.float64, indexed |-> q.indexed,
                    fused |-> q.fused,
                    weights |-> IF q.weighted
                                THEN [a \in 1..n |-> IF CoreIndex(a) \in q.zero THEN 0 ELSE 1]
                                ELSE <<>>]
  OBVIOUS
<1>3. /\ K!Start(r) /\ r.codes = codes /\ r.levels = levels /\ r.width = q.width
      /\ r.float64 = q.float64 /\ r.indexed = q.indexed /\ r.fused = q.fused
  BY <1>1, <1>2
<1>4. /\ q.width \in Nat \ {0} /\ q.fused \in Nat \ {0}
      /\ q.float64 \in BOOLEAN /\ q.indexed \in BOOLEAN
  BY CoreProjectionAssumption
<1>5. pc = "done" /\ alive # {} /\ term' = j /\ UNCHANGED vars
  BY DEF Begin
<1>6. /\ alive \in SUBSET Rows /\ n \in Nat /\ j # 0
      /\ levels \in Nat /\ {coreCode[j][i] : i \in alive} = 0..(levels - 1)
  <2>1. alive \in SUBSET Rows
    BY DEF ProjectionInv, CoreInv, TypeOK
  <2>2. n \in Nat
    BY <2>1, RowsFacts, FS_CardinalityType
  <2>3. levels \in Nat /\ {coreCode[j][i] : i \in alive} = 0..(levels - 1)
    BY <1>5, CodedMeans DEF ProjectionInv
  <2> QED
    BY <2>1, <2>2, <2>3, NumericalCoreAssumption DEF Terms
<1>7. \A a \in 1..n : CoreIndex(a) \in alive
  BY <1>6, CoreIndexFacts
<1>8. \A i \in alive : coreCode[j][i] \in 0..(levels - 1)
  BY <1>6
<1> HIDE DEF n, levels
<1>9. codes \in [1..n -> 0..(levels - 1)]
  BY <1>7, <1>8
<1> HIDE DEF codes
<1>10. Len(codes) = n /\ codes \in [1..n -> Nat]
  BY <1>6, <1>9
<1>11. job' = r
  BY <1>3 DEF K!Start
<1>12. JobType'
  BY <1>3, <1>4, <1>6, <1>9, <1>10, <1>11 DEF JobType
<1>13. /\ \A g \in 0..(r.levels - 1) : index'[g] = RowsWith(r.codes, g)
       /\ DOMAIN index' = 0..(r.levels - 1)
  <2> DEFINE ids == 0..(levels - 1)
  <2>1. ids \in SUBSET Nat
    BY <1>6
  <2> HIDE DEF ids
  <2>2. K!GroupIndex(codes, ids) = [g \in ids |-> RowsWith(codes, g)]
    BY <1>6, <1>10, <2>1, IndexIsRight
  <2>3. index' = K!GroupIndex(codes, ids)
    BY <1>3 DEF K!Start, ids
  <2> QED
    BY <1>3, <2>2, <2>3 DEF ids
<1>14. KernelInv'
  BY <1>3, <1>12, <1>13, StartKernel
<1>15. CoreInv'
  BY <1>5, StutterStep DEF ProjectionInv
<1>16. Coded'
  BY <1>5 DEF vars, Coded, DenseSubset, ProjectionInv
<1>17. \A a : CoreIndex(a)' = CoreIndex(a)
  BY <1>5 DEF vars, CoreIndex
<1>18. job'.codes = [a \in 1..Cardinality(alive') |-> coreCode'[j][CoreIndex(a)']]
  BY <1>3, <1>5, <1>11, <1>17 DEF vars, codes, n
<1>19. Projected'
  BY <1>5, <1>14, <1>18 DEF Projected, vars
<1> QED
  BY <1>15, <1>16, <1>19 DEF ProjectionInv

\* A step of the kernel, or none.
LEMMA ProjectStep ==
  ASSUME ProjectionInv, UNCHANGED <<vars, term>>, (term # 0 /\ K!Step) \/ UNCHANGED kvars
  PROVE  ProjectionInv'
<1>1. CoreInv'
  BY StutterStep DEF ProjectionInv
<1>2. Coded'
  BY DEF vars, Coded, DenseSubset, ProjectionInv
<1>3. \A a : CoreIndex(a)' = CoreIndex(a)
  BY DEF vars, CoreIndex
<1>4. term' = term /\ alive' = alive /\ pc' = pc /\ coreCode' = coreCode
  BY DEF vars
<1>5. term # 0 => KernelInv'
  BY KernelStep, KernelStutters DEF ProjectionInv, Projected
<1>6. job' = job
  BY DEF kvars, K!Step, K!Take, K!Accumulate, K!WriteBack, K!FusedPass
<1>7. Projected'
  <2> SUFFICES ASSUME term # 0
               PROVE  /\ pc' = "done" /\ alive' # {} /\ term' \in Terms
                      /\ job'.codes = [a \in 1..Cardinality(alive') |-> coreCode'[term'][CoreIndex(a)']]
                      /\ KernelInv'
    BY <1>4 DEF Projected
  <2>1. /\ pc = "done" /\ alive # {} /\ term \in Terms
        /\ job.codes = [a \in 1..Cardinality(alive) |-> coreCode[term][CoreIndex(a)]]
    BY DEF ProjectionInv, Projected
  <2> QED
    BY <1>3, <1>4, <1>5, <1>6, <2>1
<1> QED
  BY <1>1, <1>2, <1>7 DEF ProjectionInv

LEMMA CodedStep ==
  ASSUME Coded, CoreInv, [Next]_vars
  PROVE  Coded'
<1>1. CASE Finish
  BY <1>1 DEF Finish, Coded, DenseSubset
<1>2. CASE UNCHANGED vars
  BY <1>2 DEF vars, Coded, DenseSubset
<1>3. CASE Count \/ SkipLevel \/ PeelRow
  BY <1>3 DEF Count, SkipLevel, PeelRow, Serving, Coded
<1> QED
  BY <1>1, <1>2, <1>3 DEF Next

\* ProjectionInv is kept by every step of the core and of the kernels.
THEOREM ProjectionInductive == CSpec => []ProjectionInv
<1>1. CInit => ProjectionInv
  BY InitCore DEF CInit, ProjectionInv, Projected, Coded, Init
<1>2. ProjectionInv /\ [CNext]_cvars => ProjectionInv'
  <2> SUFFICES ASSUME ProjectionInv, [CNext]_cvars PROVE ProjectionInv'
    OBVIOUS
  <2>1. CASE CorePeel
    <3>1. CoreInv'
      BY <2>1, CountStep, SkipStep, PeelStep, FinishStep DEF CorePeel, Next, ProjectionInv
    <3>2. Coded'
      BY <2>1, CodedStep DEF CorePeel, ProjectionInv
    <3>3. pc # "done" /\ term' = term
      BY <2>1 DEF CorePeel, Next, Count, SkipLevel, PeelRow, Finish, Serving
    <3>4. Projected'
      BY <3>3 DEF ProjectionInv, Projected
    <3> QED
      BY <3>1, <3>2, <3>4 DEF ProjectionInv
  <2>2. ASSUME NEW j \in Terms, Begin(j) PROVE ProjectionInv'
    BY <2>2, BeginStep
  <2>3. CASE Project
    BY <2>3, ProjectStep DEF Project
  <2>4. CASE UNCHANGED cvars
    BY <2>4, ProjectStep DEF cvars
  <2> QED
    BY <2>1, <2>2, <2>3, <2>4 DEF CNext
<1> QED
  BY <1>1, <1>2, PTL DEF CSpec

\* The codes the kernel was given tell the rows apart as the sample's do.
LEMMA SameLevels ==
  ASSUME ProjectionInv, term # 0
  PROVE  /\ K!KRows = 1..Cardinality(alive)
         /\ \A a, b \in K!KRows :
              job.codes[a] = job.codes[b] <=>
                sample.code[term][CoreIndex(a)] = sample.code[term][CoreIndex(b)]
<1> DEFINE n == Cardinality(alive)
<1>1. /\ pc = "done" /\ term \in Terms /\ CoreInv /\ Coded /\ JobType
      /\ job.codes = [a \in 1..n |-> coreCode[term][CoreIndex(a)]]
  BY DEF ProjectionInv, Projected, KernelInv
<1>2. alive \in SUBSET Rows
  BY <1>1 DEF CoreInv, TypeOK
<1>3. n \in Nat
  BY <1>2, RowsFacts, FS_CardinalityType
<1>4. \A a \in 1..n : CoreIndex(a) \in alive
  BY <1>2, CoreIndexFacts
<1>5. \A i, k \in alive : coreCode[term][i] = coreCode[term][k] <=>
                            sample.code[term][i] = sample.code[term][k]
  BY <1>1, CodedMeans DEF CoreCodesArePartition
<1> HIDE DEF n
<1>6. K!KRows = 1..n
  BY <1>1, <1>3 DEF K!KRows
<1> QED
  BY <1>1, <1>4, <1>5, <1>6 DEF n

\* CoreCentred: when the kernel has ended, every cell of a surviving row has lost
\* one mean, the one over the survivors that share its level in the caller's
\* sample, and rows at a level without weight are left alone, whatever kernel
\* ran, however its threads interleaved and however wide its blocks were
\* (residualize on the core, demean_*_indexed_inplace).
THEOREM CoreIsCentred == CSpec => [](IndexInvariant /\ CoreCentred)
<1>1. ProjectionInv => IndexInvariant
  BY CountedNames DEF ProjectionInv, CoreInv, IndexInvariant
<1>2. ProjectionInv => CoreCodesArePartition
  BY CodedMeans DEF ProjectionInv
<1>3. ASSUME ProjectionInv, term # 0, K!Finished
      PROVE  LET weightless(i) ==
                   job.weights # <<>> /\ \A a \in 1..Cardinality(alive) :
                     sample.code[term][CoreIndex(a)] = sample.code[term][i] => job.weights[a] = 0
             IN \A a \in 1..Cardinality(alive), j \in 1..job.width :
                  lost[<<a, j>>] =
                    IF weightless(CoreIndex(a)) THEN <<>>
                    ELSE <<{b \in 1..Cardinality(alive) :
                              sample.code[term][CoreIndex(b)] = sample.code[term][CoreIndex(a)]} \X {j}>>
  <2> DEFINE n == Cardinality(alive)
             level(i) == sample.code[term][CoreIndex(i)]
             weightless(i) == job.weights # <<>> /\ \A a \in 1..n :
                                level(a) = sample.code[term][i] => job.weights[a] = 0
  <2>1. /\ K!KRows = 1..n
        /\ \A a, b \in 1..n : job.codes[a] = job.codes[b] <=> level(a) = level(b)
    BY <1>3, SameLevels
  <2>2. KernelInv /\ K!Cells = (1..n) \X (1..job.width)
    BY <1>3, <2>1 DEF ProjectionInv, Projected, K!Cells
  <2> HIDE DEF n
  <2>3. ASSUME NEW a \in 1..n, NEW j \in 1..job.width
        PROVE  lost[<<a, j>>] = IF weightless(CoreIndex(a)) THEN <<>>
                                ELSE <<{b \in 1..n : level(b) = level(a)} \X {j}>>
    <3>1. PICK c : c = <<a, j>>
      OBVIOUS
    <3>2. c \in K!Cells /\ c[1] = a /\ c[2] = j
      BY <2>2, <3>1
    <3>3. lost[c] = Final(c)
      BY <1>3, <2>2, <3>2, KernelEnds
    <3>4. K!ZeroDenominator(job.codes[a]) <=> weightless(CoreIndex(a))
      <4>1. K!ZeroDenominator(job.codes[a]) <=>
              \A i \in 1..n : level(i) = level(a) => job.weights # <<>> /\ job.weights[i] = 0
        BY <2>1 DEF K!ZeroDenominator
      <4>2. weightless(CoreIndex(a)) <=>
              job.weights # <<>> /\ \A i \in 1..n : level(i) = level(a) => job.weights[i] = 0
        OBVIOUS
      <4> HIDE DEF level, weightless
      <4> QED
        BY <4>1, <4>2
    <3>5. {d \in K!Cells : d[2] = j /\ job.codes[d[1]] = job.codes[a]} =
            {b \in 1..n : level(b) = level(a)} \X {j}
      <4> HIDE DEF level
      <4> DEFINE B == {b \in 1..n : level(b) = level(a)}
      <4>1. \A d \in K!Cells : d[1] \in 1..n /\ d = <<d[1], d[2]>>
        BY <2>2
      <4>2. \A b \in B : <<b, j>> \in K!Cells /\ job.codes[b] = job.codes[a]
        BY <2>1, <2>2
      <4>3. ASSUME NEW d \in K!Cells, d[2] = j, job.codes[d[1]] = job.codes[a]
            PROVE  d \in B \X {j}
        <5>1. d[1] \in B
          BY <2>1, <4>1, <4>3
        <5> HIDE DEF B
        <5> QED
          BY <4>1, <4>3, <5>1
      <4>4. ASSUME NEW d \in B \X {j}
            PROVE  d \in K!Cells /\ d[2] = j /\ job.codes[d[1]] = job.codes[a]
        <5>1. PICK b \in B : d = <<b, j>>
          OBVIOUS
        <5> QED
          BY <4>2, <5>1
      <4> HIDE DEF B
      <4> QED
        BY <4>3, <4>4 DEF B
    <3> HIDE DEF level, weightless
    <3> QED
      BY <3>1, <3>2, <3>3, <3>4, <3>5 DEF Final
  <2> QED
    BY <2>3 DEF n
<1>4. ProjectionInv => CoreCentred
  BY <1>2, <1>3 DEF CoreCentred
<1> QED
  BY <1>1, <1>4, ProjectionInductive, PTL

-----------------------------------------------------------------------------
(* Sums of a function over a finite set, whatever order they are taken in.    *)

AddsUp(h, f, D) ==
  /\ h \in [SUBSET D -> Int] /\ h[{}] = 0
  /\ \A s \in SUBSET D : \A x \in s : h[s] = f[x] + h[s \ {x}]

FoldSteps(g, f, D) ==
  g = [s \in SUBSET D |-> IF s = {} THEN 0 ELSE f[CHOOSE x \in s : TRUE] + g[s \ {CHOOSE x \in s : TRUE}]]

\* What adds f up over D is the library's sum there.
LEMMA SumIs ==
  ASSUME NEW D, IsFiniteSet(D), NEW f, NEW h, AddsUp(h, f, D)
  PROVE  SumFunctionOnSet(f, D) = h[D]
<1> DEFINE k == CHOOSE g : FoldSteps(g, f, D)
           C(s) == CHOOSE x \in s : TRUE
           Missing == {n \in Nat : \E s \in SUBSET D : Cardinality(s) = n /\ k[s] # h[s]}
<1>1. SumFunctionOnSet(f, D) = k[D]
  BY DEF SumFunctionOnSet, FoldFunctionOnSet, MapThenFoldSet, FoldSteps
<1>2. \A s \in SUBSET D : s # {} => C(s) \in s
  OBVIOUS
<1> HIDE DEF C
<1>3. h = [s \in SUBSET D |-> IF s = {} THEN 0 ELSE f[C(s)] + h[s \ {C(s)}]]
  <2>1. \A s \in SUBSET D : h[s] = IF s = {} THEN 0 ELSE f[C(s)] + h[s \ {C(s)}]
    BY <1>2 DEF AddsUp
  <2> QED
    BY <2>1 DEF AddsUp
<1>4. FoldSteps(h, f, D)
  BY <1>3 DEF FoldSteps, C
<1>5. FoldSteps(k, f, D)
  BY <1>4
<1> HIDE DEF k
<1>6. \A s \in SUBSET D : k[s] = IF s = {} THEN 0 ELSE f[C(s)] + k[s \ {C(s)}]
  BY <1>5 DEF FoldSteps, C
<1>7. \A s \in SUBSET D : h[s] = IF s = {} THEN 0 ELSE f[C(s)] + h[s \ {C(s)}]
  BY <1>3
<1>8. \A s \in SUBSET D : IsFiniteSet(s) /\ Cardinality(s) \in Nat
  BY FS_Subset, FS_CardinalityType
<1>9. \A s \in SUBSET D : \A x \in s : Cardinality(s \ {x}) = Cardinality(s) - 1
  BY <1>8, FS_RemoveElement
<1>10. Missing = {}
  <2> SUFFICES ASSUME Missing # {} PROVE FALSE
    OBVIOUS
  <2>1. PICK m \in Missing : \A n \in Missing : m <= n
    BY LeastNat
  <2>2. PICK s \in SUBSET D : Cardinality(s) = m /\ k[s] # h[s]
    BY <2>1
  <2>3. s # {}
    BY <1>6, <1>7, <2>2
  <2>4. Cardinality(s \ {C(s)}) = m - 1 /\ m - 1 \in Nat
    BY <1>2, <1>8, <1>9, <2>2, <2>3
  <2>5. m - 1 \notin Missing
    BY <2>1, <2>4
  <2>6. k[s \ {C(s)}] = h[s \ {C(s)}]
    BY <2>4, <2>5
  <2> QED
    BY <1>6, <1>7, <2>2, <2>3, <2>6
<1>11. k[D] = h[D]
  BY <1>8, <1>10
<1> QED
  BY <1>1, <1>11

\* Any function to the integers adds up.
LEMMA SumExists ==
  ASSUME NEW D, IsFiniteSet(D), NEW f, \A x \in D : f[x] \in Int
  PROVE  \E h : AddsUp(h, f, D)
<1> DEFINE Few(n) == {s \in SUBSET D : Cardinality(s) <= n}
           C(s) == CHOOSE x \in s : TRUE
           Solves(g, n) == /\ g \in [Few(n) -> Int]
                           /\ \A s \in Few(n) : g[s] = IF s = {} THEN 0 ELSE f[C(s)] + g[s \ {C(s)}]
           Missing == {n \in Nat : ~ \E g : Solves(g, n)}
<1>1. \A s \in SUBSET D : IsFiniteSet(s) /\ Cardinality(s) \in Nat /\ Cardinality(s) <= Cardinality(D)
  BY FS_Subset, FS_CardinalityType
<1>2. \A s \in SUBSET D : \A x \in s : Cardinality(s \ {x}) = Cardinality(s) - 1
  BY <1>1, FS_RemoveElement
<1>3. \A s \in SUBSET D : s # {} => C(s) \in s
  OBVIOUS
<1> HIDE DEF C
<1>4. \A s \in SUBSET D : Cardinality(s) = 0 <=> s = {}
  BY <1>1, FS_EmptySet
<1>5. Solves([s \in Few(0) |-> 0], 0)
  <2>1. Few(0) = {{}}
    BY <1>1, <1>4
  <2> QED
    BY <2>1
<1>6. ASSUME NEW n \in Nat, NEW g, Solves(g, n) PROVE \E h : Solves(h, n + 1)
  <2> DEFINE h == [s \in Few(n + 1) |-> IF s = {} THEN 0 ELSE f[C(s)] + g[s \ {C(s)}]]
  <2>1. \A s \in Few(n + 1) : s # {} => s \ {C(s)} \in Few(n)
    BY <1>1, <1>2, <1>3
  <2>2. Few(n) \subseteq Few(n + 1)
    BY <1>1
  <2>3. \A s \in Few(n) : h[s] = g[s]
    BY <1>6, <2>2
  <2>4. h \in [Few(n + 1) -> Int]
    BY <2>1, <1>3, <1>6
  <2> HIDE DEF Few
  <2>5. ASSUME NEW s \in Few(n + 1)
        PROVE  h[s] = IF s = {} THEN 0 ELSE f[C(s)] + h[s \ {C(s)}]
    <3>1. h[s] = IF s = {} THEN 0 ELSE f[C(s)] + g[s \ {C(s)}]
      OBVIOUS
    <3>2. s # {} => h[s \ {C(s)}] = g[s \ {C(s)}]
      BY <2>1, <2>3
    <3> HIDE DEF h
    <3> QED
      BY <3>1, <3>2
  <2> QED
    BY <2>4, <2>5
<1>7. Missing = {}
  <2> SUFFICES ASSUME Missing # {} PROVE FALSE
    OBVIOUS
  <2>1. PICK m \in Missing : \A n \in Missing : m <= n
    BY LeastNat
  <2> HIDE DEF Solves, Few
  <2>2. m # 0
    BY <1>5
  <2>3. m - 1 \in Nat /\ m - 1 \notin Missing
    BY <2>1, <2>2
  <2>4. PICK g : Solves(g, m - 1)
    BY <2>3
  <2> QED
    BY <1>6, <2>3, <2>4, <2>1
<1>8. PICK h : Solves(h, Cardinality(D))
  <2>1. Cardinality(D) \in Nat
    BY FS_CardinalityType
  <2> HIDE DEF Solves, Few
  <2> QED
    BY <1>7, <2>1
<1>9. Few(Cardinality(D)) = SUBSET D
  BY <1>1
<1>10. /\ h \in [SUBSET D -> Int] /\ h[{}] = 0
       /\ \A s \in SUBSET D : s # {} => h[s] = f[C(s)] + h[s \ {C(s)}]
  BY <1>8, <1>9
<1> HIDE DEF Solves, Few
\* Whichever element is taken out first.
<1> DEFINE Anyhow(s) == \A x \in s : h[s] = f[x] + h[s \ {x}]
           Wrong == {n \in Nat : \E s \in SUBSET D : Cardinality(s) = n /\ ~Anyhow(s)}
<1>11. Wrong = {}
  <2> SUFFICES ASSUME Wrong # {} PROVE FALSE
    OBVIOUS
  <2>1. PICK m \in Wrong : \A n \in Wrong : m <= n
    BY LeastNat
  <2>2. PICK s \in SUBSET D : Cardinality(s) = m /\ ~Anyhow(s)
    BY <2>1
  <2>3. PICK x \in s : h[s] # f[x] + h[s \ {x}]
    BY <2>2
  <2> PICK c : c = C(s)
    OBVIOUS
  <2>4. c \in s /\ h[s] = f[c] + h[s \ {c}]
    BY <1>3, <1>10, <2>3
  <2>5. x # c
    BY <2>3, <2>4
  <2>6. /\ Cardinality(s \ {c}) = m - 1 /\ Cardinality(s \ {x}) = m - 1
        /\ m - 1 \in Nat
    BY <1>1, <1>2, <2>2, <2>4
  <2>7. m - 1 \notin Wrong
    BY <2>1, <2>6
  <2>8. Anyhow(s \ {c}) /\ Anyhow(s \ {x})
    BY <2>6, <2>7
  <2>9. h[s \ {c}] = f[x] + h[(s \ {c}) \ {x}]
    BY <2>5, <2>8
  <2>10. h[s \ {x}] = f[c] + h[(s \ {x}) \ {c}]
    BY <2>4, <2>5, <2>8
  <2>11. (s \ {c}) \ {x} = (s \ {x}) \ {c}
    OBVIOUS
  <2>12. f[c] \in Int /\ f[x] \in Int /\ h[(s \ {x}) \ {c}] \in Int
    BY <1>10, <2>4
  <2> QED
    BY <2>3, <2>4, <2>9, <2>10, <2>11, <2>12
<1>12. \A s \in SUBSET D : Anyhow(s)
  BY <1>1, <1>11
<1> QED
  BY <1>10, <1>12 DEF AddsUp

\* With no term but one, a sum is that term.
LEMMA SumOfOne ==
  ASSUME NEW D, IsFiniteSet(D), NEW f, NEW x0 \in D, f[x0] \in Int, \A x \in D \ {x0} : f[x] = 0
  PROVE  SumFunctionOnSet(f, D) = f[x0]
<1> DEFINE h == [s \in SUBSET D |-> IF x0 \in s THEN f[x0] ELSE 0]
<1>1. h \in [SUBSET D -> Int] /\ h[{}] = 0
  OBVIOUS
<1>2. ASSUME NEW s \in SUBSET D, NEW x \in s PROVE h[s] = f[x] + h[s \ {x}]
  <2>1. CASE x = x0
    BY <2>1
  <2>2. CASE x # x0
    <3>1. f[x] = 0 /\ h[s \ {x}] = h[s] /\ h[s] \in Int
      BY <2>2
    <3> HIDE DEF h
    <3> QED
      BY <3>1
  <2> QED
    BY <2>1, <2>2
<1>3. h[D] = f[x0]
  OBVIOUS
<1> HIDE DEF h
<1>4. AddsUp(h, f, D)
  BY <1>1, <1>2 DEF AddsUp
<1> QED
  BY <1>3, <1>4, SumIs

\* With none, zero.
LEMMA SumOfNone ==
  ASSUME NEW D, IsFiniteSet(D), NEW f, \A x \in D : f[x] = 0
  PROVE  SumFunctionOnSet(f, D) = 0
<1> DEFINE h == [s \in SUBSET D |-> 0]
<1>1. AddsUp(h, f, D)
  BY DEF AddsUp
<1>2. h[D] = 0
  OBVIOUS
<1> HIDE DEF h
<1> QED
  BY <1>1, <1>2, SumIs

\* A sum over P is one over Q when the terms of P go one to one to those of Q
\* that are not zero.
LEMMA SumMoved ==
  ASSUME NEW P, IsFiniteSet(P), NEW Q, IsFiniteSet(Q), NEW a, NEW b, NEW m \in [P -> Q],
         \A x \in P : a[x] \in Int /\ b[m[x]] = a[x],
         \A x, y \in P : m[x] = m[y] => x = y,
         \A k \in Q : (\A x \in P : m[x] # k) => b[k] = 0
  PROVE  SumFunctionOnSet(a, P) = SumFunctionOnSet(b, Q)
<1>1. PICK g : AddsUp(g, a, P)
  BY SumExists
<1> DEFINE Pre(s) == {x \in P : m[x] \in s}
           h == [s \in SUBSET Q |-> g[Pre(s)]]
<1>2. \A s \in SUBSET Q : Pre(s) \in SUBSET P
  OBVIOUS
<1>3. h \in [SUBSET Q -> Int] /\ h[{}] = 0
  <2>1. Pre({}) = {}
    OBVIOUS
  <2>2. g \in [SUBSET P -> Int] /\ g[{}] = 0
    BY <1>1 DEF AddsUp
  <2> HIDE DEF Pre
  <2> QED
    BY <1>2, <2>1, <2>2
<1>4. ASSUME NEW s \in SUBSET Q, NEW k \in s PROVE h[s] = b[k] + h[s \ {k}]
  <2>1. h[s] = g[Pre(s)] /\ h[s \ {k}] = g[Pre(s \ {k})] /\ g[Pre(s)] \in Int /\ g[Pre(s \ {k})] \in Int
    <3> HIDE DEF Pre
    <3>1. h[s] = g[Pre(s)] /\ h[s \ {k}] = g[Pre(s \ {k})]
      OBVIOUS
    <3> HIDE DEF h
    <3> QED
      BY <1>3, <3>1
  <2>2. CASE \E x \in P : m[x] = k
    <3>1. PICK x \in P : m[x] = k
      BY <2>2
    <3>2. x \in Pre(s) /\ Pre(s \ {k}) = Pre(s) \ {x}
      BY <3>1
    <3>3. g[Pre(s)] = a[x] + g[Pre(s) \ {x}]
      BY <1>1, <1>2, <3>2 DEF AddsUp
    <3> HIDE DEF h, Pre
    <3> QED
      BY <2>1, <3>1, <3>2, <3>3
  <2>3. CASE ~ \E x \in P : m[x] = k
    <3>1. Pre(s \ {k}) = Pre(s)
      BY <2>3
    <3>2. b[k] = 0
      BY <2>3
    <3> HIDE DEF h, Pre
    <3> QED
      BY <2>1, <3>1, <3>2
  <2> QED
    BY <2>2, <2>3
<1>5. Pre(Q) = P
  OBVIOUS
<1>6. h[Q] = g[P]
  BY <1>5
<1> HIDE DEF h, Pre
<1>7. AddsUp(h, b, Q)
  BY <1>3, <1>4 DEF AddsUp
<1>8. SumFunctionOnSet(b, Q) = h[Q]
  BY <1>7, SumIs
<1>9. SumFunctionOnSet(a, P) = g[P]
  BY <1>1, SumIs
<1> QED
  BY <1>6, <1>8, <1>9

-----------------------------------------------------------------------------
(* Group mode: from the request to the operator.                              *)

\* The rows and columns of a request, from the assumption on requests.
LEMMA RequestFacts ==
  ASSUME request \in Requests
  PROVE  /\ IsFiniteSet(Members) /\ Members \subseteq Nat
         /\ \A r \in Members : GroupOf(r) \in GroupSet /\ r \in RowsIn(GroupOf(r))
         /\ GroupSet \subseteq Int /\ IsFiniteSet(GroupSet)
         /\ \A g \in GroupSet : /\ FirstRow(g) \in RowsIn(g) /\ RowsIn(g) \subseteq Members
                                /\ \A r \in RowsIn(g) : GroupOf(r) = g
         /\ request.outcome \in [Members -> Int] /\ request.effects \in Seq([Members -> Int])
         /\ \A column \in {request.individual, request.slope, request.weight} :
              column = <<>> \/ column \in [Members -> Int]
         /\ {request.drop, request.mean} \subseteq BOOLEAN
<1>1. /\ request.group \in Seq(Int) /\ request.outcome \in [Members -> Int]
      /\ request.effects \in Seq([Members -> Int])
      /\ \A column \in {request.individual, request.slope, request.weight} :
           column = <<>> \/ column \in [Members -> Int]
      /\ {request.drop, request.mean} \subseteq BOOLEAN
  BY GroupAssumption DEF Column, Members
<1>2. Members = 1..Len(request.group) /\ Len(request.group) \in Nat
  BY <1>1 DEF Members
<1>3. IsFiniteSet(Members) /\ Members \subseteq Nat
  BY <1>2, FS_Interval
<1>4. \A r \in Members : GroupOf(r) \in GroupSet /\ r \in RowsIn(GroupOf(r)) /\ GroupOf(r) \in Int
  BY <1>1, <1>2 DEF GroupSet, RowsIn, GroupOf
<1>5. GroupSet \subseteq Int
  BY <1>4 DEF GroupSet
<1>6. IsFiniteSet(GroupSet)
  <2> DEFINE f == [r \in Members |-> GroupOf(r)]
  <2>1. f \in Surjection(Members, GroupSet)
    BY DEF Surjection, GroupSet
  <2> HIDE DEF f
  <2> QED
    BY <1>3, <2>1, FS_Surjection
<1>7. ASSUME NEW g \in GroupSet PROVE /\ FirstRow(g) \in RowsIn(g) /\ RowsIn(g) \subseteq Members
                                      /\ \A r \in RowsIn(g) : GroupOf(r) = g
  <2>1. RowsIn(g) \subseteq Members /\ \A r \in RowsIn(g) : GroupOf(r) = g
    BY DEF RowsIn
  <2>2. RowsIn(g) # {}
    BY <1>4 DEF GroupSet
  <2>3. \E r \in RowsIn(g) : \A s \in RowsIn(g) : r <= s
    <3> HIDE DEF RowsIn
    <3> QED
      BY <1>3, <2>1, <2>2, LeastNat
  <2> QED
    BY <2>1, <2>3 DEF FirstRow, Min
<1> QED
  BY <1>1, <1>3, <1>4, <1>5, <1>6, <1>7

\* The codes np.unique gives: dense, and one to a label.
CodesFor(d, f, S) ==
  /\ DOMAIN d = S
  /\ \A x, y \in S : d[x] = d[y] <=> f[x] = f[y]
  /\ {d[x] : x \in S} = 0..(Cardinality({f[x] : x \in S}) - 1)

\* DenseCodes gives such codes for integer labels over a finite set.
LEMMA CodesOfLabels ==
  ASSUME NEW S, IsFiniteSet(S), NEW f, \A x \in S : f[x] \in Int
  PROVE  CodesFor(DenseCodes(f, S), f, S)
<1> DEFINE d == DenseCodes(f, S)
           V == {f[x] : x \in S}
           R == Below(V)
           g == [x \in S |-> f[x]]
<1>1. V \in SUBSET Int
  OBVIOUS
<1>2. IsFiniteSet(V) /\ Cardinality(V) \in Nat
  <2>1. g \in Surjection(S, V)
    BY DEF Surjection
  <2> HIDE DEF g, V
  <2> QED
    BY <2>1, FS_Surjection, FS_CardinalityType
<1>3. \A x \in S : f[x] \in V /\ d[x] = Place(V, R, f[x])
  <2> TAKE x \in S
  <2>1. f[x] \in V
    OBVIOUS
  <2>2. d[x] = Cardinality({v \in V : v < f[x]})
    BY DEF DenseCodes
  <2> HIDE DEF d, V
  <2> QED
    BY <1>1, <1>2, <2>1, <2>2, NumbersInOrder DEF Place
<1>4. \A v \in V : \E x \in S : v = f[x]
  OBVIOUS
<1>5. DOMAIN d = S
  BY DEF DenseCodes
<1> HIDE DEF d, V
<1>6. StrictTotal(V, R)
  BY <1>1, <1>2, NumbersInOrder
<1> HIDE DEF R
<1>7. /\ \A v \in V : Place(V, R, v) \in 0..(Cardinality(V) - 1)
      /\ \A u, v \in V : Place(V, R, u) = Place(V, R, v) => u = v
      /\ \A n \in 0..(Cardinality(V) - 1) : \E v \in V : Place(V, R, v) = n
  BY <1>2, <1>6, PlaceIsBijection
<1>8. \A x, y \in S : d[x] = d[y] <=> f[x] = f[y]
  BY <1>3, <1>7
<1>9. {d[x] : x \in S} = 0..(Cardinality(V) - 1)
  <2>1. ASSUME NEW n \in 0..(Cardinality(V) - 1) PROVE \E x \in S : d[x] = n
    <3>1. PICK v \in V : Place(V, R, v) = n
      BY <1>7
    <3> QED
      BY <1>3, <1>4, <3>1
  <2>2. \A x \in S : d[x] \in 0..(Cardinality(V) - 1)
    BY <1>3, <1>7
  <2> QED
    BY <2>1, <2>2
<1> QED
  BY <1>5, <1>8, <1>9 DEF d, V, CodesFor

-----------------------------------------------------------------------------
(* Pruning.                                                                   *)

\* No group of S would be flagged in a round over S.
Stable(S) == \A g \in S : ~Unlinked(g, S)

\* Among more groups a linked group stays linked.
LEMMA LinkedStaysLinked ==
  ASSUME request \in Requests, NEW T \in SUBSET GroupSet, NEW S \in SUBSET T,
         NEW g \in S, ~Unlinked(g, S)
  PROVE  ~Unlinked(g, T)
<1>1. \A D \in SUBSET GroupSet : /\ IsFiniteSet(D) /\ Cardinality(D) \in Nat
                                 /\ SumFunctionOnSet(EachOnce, D) = Cardinality(D)
  <2> SUFFICES ASSUME NEW D \in SUBSET GroupSet
               PROVE  /\ IsFiniteSet(D) /\ Cardinality(D) \in Nat
                      /\ SumFunctionOnSet(EachOnce, D) = Cardinality(D)
    OBVIOUS
  <2> DEFINE h == [s \in SUBSET D |-> Cardinality(s)]
  <2>1. IsFiniteSet(D)
    BY RequestFacts, FS_Subset
  <2>2. \A s \in SUBSET D : /\ IsFiniteSet(s) /\ Cardinality(s) \in Nat
                            /\ \A x \in s : Cardinality(s \ {x}) = Cardinality(s) - 1
    BY <2>1, FS_Subset, FS_CardinalityType, FS_RemoveElement
  <2>3. h \in [SUBSET D -> Int] /\ h[{}] = 0
    BY <2>2, FS_EmptySet
  <2>4. ASSUME NEW s \in SUBSET D, NEW x \in s PROVE h[s] = EachOnce[x] + h[s \ {x}]
    <3>1. EachOnce[x] = 1
      BY DEF EachOnce
    <3>2. h[s] = Cardinality(s) /\ h[s \ {x}] = Cardinality(s \ {x})
      OBVIOUS
    <3> QED
      BY <2>2, <3>1, <3>2
  <2>5. h[D] = Cardinality(D)
    OBVIOUS
  <2> HIDE DEF h
  <2>6. AddsUp(h, EachOnce, D)
    BY <2>3, <2>4 DEF AddsUp
  <2> QED
    BY <2>1, <2>2, <2>5, <2>6, SumIs
<1>2. ~AloneIn(g, T, EachOnce)
  <2> SUFFICES ASSUME NEW j \in DOMAIN request.effects
               PROVE  LET level == {h \in T : Compressed(request.effects[j])[h] = Compressed(request.effects[j])[g]}
                      IN  ~(SumFunctionOnSet(EachOnce, level) <= 1)
    BY DEF AloneIn
  <2> DEFINE Level(U) == {h \in U : Compressed(request.effects[j])[h] = Compressed(request.effects[j])[g]}
  <2>1. ~(SumFunctionOnSet(EachOnce, Level(S)) <= 1)
    BY DEF Unlinked, AloneIn
  <2>2. Level(S) \subseteq Level(T) /\ Level(T) \in SUBSET GroupSet /\ Level(S) \in SUBSET GroupSet
    OBVIOUS
  <2> HIDE DEF Level
  <2>3. Cardinality(Level(S)) <= Cardinality(Level(T))
    BY <1>1, <2>2, FS_Subset
  <2>4. ~(SumFunctionOnSet(EachOnce, Level(T)) <= 1)
    BY <1>1, <2>1, <2>2, <2>3
  <2> QED
    BY <2>4 DEF Level
<1>3. ASSUME NEW r \in RowsIn(g) PROVE ~(Cardinality(Memberships(request.individual[r], T)) <= 1)
  <2> DEFINE M(U) == Memberships(request.individual[r], U)
  <2>1. ~(Cardinality(M(S)) <= 1)
    BY DEF Unlinked
  <2>2. M(S) \subseteq M(T) /\ M(T) \subseteq Members
    BY DEF Memberships
  <2> HIDE DEF M
  <2>3. IsFiniteSet(M(T))
    BY <2>2, RequestFacts, FS_Subset
  <2>4. /\ Cardinality(M(S)) <= Cardinality(M(T))
        /\ Cardinality(M(S)) \in Nat /\ Cardinality(M(T)) \in Nat
    BY <2>2, <2>3, FS_Subset, FS_CardinalityType
  <2> QED
    BY <2>1, <2>4 DEF M
<1> QED
  BY <1>2, <1>3 DEF Unlinked

Working == {"prune", "check", "ready", "solving"}
GroupInv ==
  /\ request \in Requests
  /\ step \in {"start", "not_constant", "fweight", "repeated", "insufficient"} \cup Working
  /\ kept \subseteq GroupSet
  /\ step \in Working =>
       /\ HasIndividual => ~Repeated
       /\ \A column \in Constants : IsConstant(column)
       /\ request.drop /\ HasIndividual =>
            /\ \A S \in SUBSET GroupSet : Stable(S) => S \subseteq kept
            /\ step = "prune" \/ Stable(kept)
  /\ step = "prune" => request.drop
  /\ problem # <<>> => step \in {"ready", "solving"}
  /\ step \in {"ready", "solving"} => problem = Handed
  /\ operator # <<>> => step = "solving"
  /\ step = "solving" => HasIndividual /\ operator \in {CsrOperator, MatrixFree}

\* The request, what is kept and what is handed over fix what is built on them.
LEMMA HandedStays ==
  ASSUME request' = request, kept' = kept
  PROVE  Handed' = Handed
BY DEF Handed, Members, GroupOf, GroupSet, HasIndividual, RowsIn, FirstRow, Compressed, Renumbered

\* So does the sparse design.
LEMMA CsrStays ==
  ASSUME request' = request, kept' = kept, problem' = problem
  PROVE  CsrOperator' = CsrOperator
BY DEF CsrOperator, DesignColumns, Observations, CsrEntry, Weight, Compressed, FirstRow, GroupSet,
       RowsIn, Members, GroupOf, EffectEntry, Load, MemberScale, GroupRows, PersonColumns,
       EffectColumns, Real, People, PersonComponents

\* And the matrix-free one.
LEMMA MatrixFreeStays ==
  ASSUME request' = request, kept' = kept, problem' = problem
  PROVE  MatrixFree' = MatrixFree
BY DEF MatrixFree, DesignColumns, Observations, Matvec, Rmatvec, MemberSquare, Weight, Compressed,
       FirstRow, GroupSet, RowsIn, PersonRows, Members, GroupOf, EffectEntry, Load, MemberScale, GroupRows,
       PersonColumns, EffectColumns, Real, People, PersonComponents

\* The guards, and which sets of groups are stable, depend on the request alone.
LEMMA RequestStays ==
  ASSUME request' = request
  PROVE  /\ GroupSet' = GroupSet /\ HasIndividual' = HasIndividual /\ Repeated' = Repeated
         /\ Constants' = Constants /\ \A column : IsConstant(column)' = IsConstant(column)
         /\ \A S \in SUBSET GroupSet : Stable(S)' = Stable(S)
<1>1. /\ GroupSet' = GroupSet /\ HasIndividual' = HasIndividual /\ Repeated' = Repeated
      /\ Constants' = Constants
  BY DEF GroupSet, Members, GroupOf, HasIndividual, Repeated, Constants
<1>2. \A column : IsConstant(column)' = IsConstant(column)
  BY DEF IsConstant, Members, GroupOf, FirstRow, RowsIn
<1>3. \A S \in SUBSET GroupSet : Stable(S)' = Stable(S)
  BY DEF Stable, Unlinked, AloneIn, EachOnce, Compressed, FirstRow, RowsIn, Members, GroupOf,
         GroupSet, Memberships
<1> QED
  BY <1>1, <1>2, <1>3

\* The invariant is inductive.
THEOREM GroupInductive == GroupSpec => []GroupInv
<1>1. GroupInit => GroupInv
  BY DEF GroupInit, GroupInv, Working
<1>2. GroupInv /\ [GroupNext]_groupVars => GroupInv'
  <2> SUFFICES ASSUME GroupInv, [GroupNext]_groupVars PROVE GroupInv'
    OBVIOUS
  <2>1. CASE Compress
    <3>1. request' = request /\ step = "start" /\ problem' = problem /\ operator' = operator
      BY <2>1 DEF Compress, Fails
    <3>2. problem = <<>> /\ operator = <<>>
      BY <3>1 DEF GroupInv
    <3>3. \/ step' \in {"not_constant", "fweight", "repeated"} /\ kept' = kept
          \/ /\ step' \in {"prune", "check"} /\ kept' = GroupSet
             /\ HasIndividual => ~Repeated
             /\ \A column \in Constants : IsConstant(column)
             /\ step' = "prune" => request.drop
             /\ step' = "check" => ~request.drop
      BY <2>1 DEF Compress, Fails
    <3> QED
      BY RequestStays, <3>1, <3>2, <3>3 DEF GroupInv, Working
  <2>2. CASE PruneRound
    <3> DEFINE flagged == {g \in kept : Unlinked(g, kept)}
    <3>1. /\ request' = request /\ step = "prune" /\ HasIndividual /\ problem' = problem /\ operator' = operator
          /\ kept' = kept \ flagged /\ step' = IF flagged = {} THEN "check" ELSE "prune"
      BY <2>2 DEF PruneRound
    <3>2. problem = <<>> /\ operator = <<>> /\ request.drop /\ kept \subseteq GroupSet /\ request \in Requests
      BY <3>1 DEF GroupInv
    <3>3. ASSUME NEW S \in SUBSET GroupSet, Stable(S) PROVE S \subseteq kept'
      <4>1. S \subseteq kept
        BY <3>1, <3>2, <3>3 DEF GroupInv, Working
      <4>2. \A g \in S : ~Unlinked(g, kept)
        BY <3>2, <3>3, <4>1, LinkedStaysLinked DEF Stable
      <4> QED
        BY <3>1, <4>1, <4>2
    <3>4. step' = "prune" \/ Stable(kept')
      <4>1. CASE flagged = {}
        <5>1. kept' = kept /\ Stable(kept)
          BY <3>1, <4>1 DEF Stable
        <5> QED
          BY <5>1
      <4>2. CASE flagged # {}
        BY <3>1, <4>2
      <4> QED
        BY <4>1, <4>2
    <3>6. /\ kept' \subseteq GroupSet /\ step' \in {"prune", "check"}
          /\ HasIndividual => ~Repeated
          /\ \A column \in Constants : IsConstant(column)
      BY <3>1, <3>2 DEF GroupInv, Working
    <3> HIDE DEF flagged
    <3> QED
      BY RequestStays, <3>1, <3>2, <3>3, <3>4, <3>6 DEF GroupInv, Working
  <2>3. CASE PrunePlain
    <3>1. /\ request' = request /\ step = "prune" /\ ~HasIndividual /\ problem' = problem /\ operator' = operator
          /\ kept' \subseteq GroupSet /\ step' = "check"
      BY <2>3 DEF PrunePlain
    <3>2. problem = <<>> /\ operator = <<>> /\ \A column \in Constants : IsConstant(column)
      BY <3>1 DEF GroupInv, Working
    <3> QED
      BY RequestStays, <3>1, <3>2 DEF GroupInv, Working
  <2>4. CASE RestrictGroups
    <3>1. request' = request /\ kept' = kept /\ operator' = operator /\ step = "check"
      BY <2>4 DEF RestrictGroups, Fails
    <3>2. problem = <<>> /\ operator = <<>>
      BY <3>1 DEF GroupInv
    <3>3. \/ step' \in {"insufficient", "not_constant"} /\ problem' = problem
          \/ step' = "ready" /\ problem' = Handed
      BY <2>4 DEF RestrictGroups, Fails
    <3>4. Handed' = Handed
      BY <3>1, HandedStays
    <3>6. Stable(kept)' = Stable(kept)
      BY <3>1 DEF Stable, Unlinked, AloneIn, EachOnce, Compressed, FirstRow, RowsIn, Members, GroupOf,
             GroupSet, Memberships
    <3> QED
      BY RequestStays, <3>1, <3>2, <3>3, <3>4, <3>6 DEF GroupInv, Working
  <2>5. CASE MakeGroupAbsorber
    <3>1. /\ request' = request /\ kept' = kept /\ problem' = problem /\ step = "ready" /\ step' = "solving"
          /\ HasIndividual /\ operator' \in {CsrOperator, MatrixFree}
      BY <2>5 DEF MakeGroupAbsorber
    <3>2. Handed' = Handed /\ CsrOperator' = CsrOperator /\ MatrixFree' = MatrixFree
      BY <3>1, HandedStays, CsrStays, MatrixFreeStays
    <3>6. Stable(kept)' = Stable(kept)
      BY <3>1 DEF Stable, Unlinked, AloneIn, EachOnce, Compressed, FirstRow, RowsIn, Members, GroupOf,
             GroupSet, Memberships
    <3> QED
      BY RequestStays, <3>1, <3>2, <3>6 DEF GroupInv, Working
  <2>6. CASE UNCHANGED groupVars
    <3>1. request' = request /\ step' = step /\ kept' = kept /\ problem' = problem /\ operator' = operator
      BY <2>6 DEF groupVars
    <3>2. Handed' = Handed /\ CsrOperator' = CsrOperator /\ MatrixFree' = MatrixFree
      BY <3>1, HandedStays, CsrStays, MatrixFreeStays
    <3>3. Stable(kept)' = Stable(kept)
      BY <3>1 DEF Stable, Unlinked, AloneIn, EachOnce, Compressed, FirstRow, RowsIn, Members, GroupOf,
             GroupSet, Memberships
    <3> QED
      BY RequestStays, <3>1, <3>2, <3>3 DEF GroupInv, Working
  <2> QED
    BY <2>1, <2>2, <2>3, <2>4, <2>5, <2>6 DEF GroupNext
<1> QED
  BY <1>1, <1>2, PTL DEF GroupSpec

-----------------------------------------------------------------------------
(* What is pruned, and what is handed over.                                   *)

\* What is kept is stable and holds every stable set: the union of those.
LEMMA Pruned == ASSUME GroupInv PROVE PrunedToTheLargest
<1> SUFFICES ASSUME step \in {"check", "ready", "solving"}, request.drop, HasIndividual
             PROVE  kept = UNION {S \in SUBSET GroupSet : \A g \in S : ~Unlinked(g, S)}
  BY DEF PrunedToTheLargest
<1>1. /\ kept \subseteq GroupSet /\ \A S \in SUBSET GroupSet : Stable(S) => S \subseteq kept
      /\ Stable(kept)
  BY DEF GroupInv, Working
<1> QED
  BY <1>1 DEF Stable

\* What is handed over, with the kept groups in ascending order.
LEMMA HandedFacts ==
  ASSUME GroupInv, step \in {"ready", "solving"}
  PROVE  LET N == Cardinality(kept)
             groups == Ascending(kept)
             members == IF HasIndividual THEN {r \in Members : GroupOf(r) \in kept} ELSE {}
         IN  /\ request \in Requests /\ kept \subseteq GroupSet /\ IsFiniteSet(kept) /\ N \in Nat
             /\ DOMAIN groups = 1..N /\ Observations = 1..N
             /\ \A k \in 1..N : groups[k] \in kept /\ FirstRow(groups[k]) \in RowsIn(groups[k])
             /\ \A k, l \in 1..N : groups[k] = groups[l] => k = l
             /\ \A g \in kept : /\ Cardinality({h \in kept : h < g}) + 1 \in 1..N
                                /\ groups[Cardinality({h \in kept : h < g}) + 1] = g
             /\ problem.outcome = [k \in 1..N |-> request.outcome[FirstRow(groups[k])]]
             /\ problem.first = [k \in 1..N |-> FirstRow(groups[k])]
             /\ problem.effects = [j \in DOMAIN request.effects |->
                                     [k \in 1..N |-> DenseCodes(Compressed(request.effects[j]), kept)[groups[k]]]]
             /\ problem.group = [r \in members |-> Cardinality({h \in kept : h < GroupOf(r)})]
             /\ problem.person = DenseCodes(request.individual, members)
<1> DEFINE N == Cardinality(kept)
           groups == Ascending(kept)
           members == IF HasIndividual THEN {r \in Members : GroupOf(r) \in kept} ELSE {}
<1>1. /\ request \in Requests /\ kept \subseteq GroupSet /\ kept \subseteq Int /\ IsFiniteSet(kept)
  <2>1. request \in Requests /\ kept \subseteq GroupSet
    BY DEF GroupInv
  <2> QED
    BY <2>1, RequestFacts, FS_Subset
<1>2. /\ N \in Nat /\ DOMAIN groups = 1..N
      /\ \A k \in 1..N : groups[k] \in kept
      /\ \A x \in kept : /\ Cardinality({y \in kept : y < x}) + 1 \in 1..N
                         /\ groups[Cardinality({y \in kept : y < x}) + 1] = x
      /\ \A k, l \in 1..N : groups[k] = groups[l] => k = l
  BY <1>1, AscendingLists
<1> HIDE DEF groups, N
<1>3. \A k \in 1..N : groups[k] \in GroupSet /\ FirstRow(groups[k]) \in RowsIn(groups[k])
  BY <1>1, <1>2, RequestFacts
<1>4. \A r \in members : Renumbered(kept)[GroupOf(r)] = Cardinality({h \in kept : h < GroupOf(r)})
  <2> SUFFICES ASSUME NEW g \in kept PROVE Renumbered(kept)[g] = Cardinality({h \in kept : h < g})
    OBVIOUS
  <2>1. {[h \in kept |-> h][y] : y \in kept} = kept /\ [h \in kept |-> h][g] = g
    OBVIOUS
  <2> QED
    BY <2>1 DEF Renumbered, DenseCodes
<1>5. problem = Handed
  BY DEF GroupInv
<1>6. /\ problem.outcome = [k \in 1..N |-> request.outcome[FirstRow(groups[k])]]
      /\ problem.first = [k \in 1..N |-> FirstRow(groups[k])]
      /\ problem.group = [r \in members |-> Renumbered(kept)[GroupOf(r)]]
      /\ problem.person = DenseCodes(request.individual, members)
      /\ problem.effects = [j \in DOMAIN request.effects |->
                              [k \in 1..N |-> DenseCodes(Compressed(request.effects[j]), kept)[groups[k]]]]
  BY <1>2, <1>3, <1>5 DEF Handed, Compressed, groups
<1>7. Observations = 1..N
  BY <1>6 DEF Observations
<1> QED
  BY <1>1, <1>2, <1>3, <1>4, <1>6, <1>7 DEF groups, N

\* The problem is the kept groups and their memberships, one to one.
LEMMA Whole == ASSUME GroupInv PROVE HandedWhole
<1> SUFFICES ASSUME problem # <<>> PROVE HandedWhole
  BY DEF HandedWhole
<1> DEFINE groups == Ascending(kept)
           N == Cardinality(kept)
           members == IF HasIndividual THEN {r \in Members : GroupOf(r) \in kept} ELSE {}
           First(k) == FirstRow(groups[k])
<1>1. step \in {"ready", "solving"} /\ request.outcome \in Constants /\ \A column \in Constants : IsConstant(column)
  BY DEF GroupInv, Working, Constants
<1>2. /\ request \in Requests /\ kept \subseteq GroupSet /\ IsFiniteSet(kept) /\ N \in Nat
      /\ DOMAIN groups = 1..N /\ Observations = 1..N
      /\ \A k \in 1..N : groups[k] \in kept /\ First(k) \in RowsIn(groups[k])
      /\ \A g \in kept : /\ Cardinality({h \in kept : h < g}) + 1 \in 1..N
                         /\ groups[Cardinality({h \in kept : h < g}) + 1] = g
      /\ problem.outcome = [k \in 1..N |-> request.outcome[First(k)]]
      /\ problem.first = [k \in 1..N |-> First(k)]
      /\ problem.effects = [j \in DOMAIN request.effects |->
                              [k \in 1..N |-> DenseCodes(Compressed(request.effects[j]), kept)[groups[k]]]]
      /\ problem.group = [r \in members |-> Cardinality({h \in kept : h < GroupOf(r)})]
      /\ problem.person = DenseCodes(request.individual, members)
  BY <1>1, HandedFacts
<1> HIDE DEF groups, N, members
<1>3. Len(problem.outcome) = N
  BY <1>2
<1>4. ASSUME NEW k \in 1..N, NEW r \in RowsIn(groups[k]) PROVE request.outcome[r] = problem.outcome[k]
  <2>1. r \in Members /\ GroupOf(r) = groups[k] /\ request.outcome \in [Members -> Int]
    BY <1>2, RequestFacts
  <2>2. request.outcome # <<>>
    <3> SUFFICES ASSUME request.outcome = <<>> PROVE FALSE
      OBVIOUS
    <3>1. DOMAIN request.outcome = Members
      BY <2>1
    <3>2. DOMAIN request.outcome = {}
      OBVIOUS
    <3> QED
      BY <2>1, <3>1, <3>2
  <2>3. request.outcome[r] = request.outcome[FirstRow(GroupOf(r))]
    BY <1>1, <2>1, <2>2 DEF IsConstant
  <2> QED
    BY <1>2, <2>1, <2>3
<1>5. ASSUME NEW j \in DOMAIN request.effects
      PROVE  Recoded(problem.effects[j], [k \in 1..N |-> request.effects[j][problem.first[k]]], 1..N)
  <2> DEFINE f == Compressed(request.effects[j])
             d == DenseCodes(f, kept)
             V == {f[x] : x \in kept}
             new == problem.effects[j]
             old == [k \in 1..N |-> request.effects[j][problem.first[k]]]
  <2>1. request.effects[j] \in [Members -> Int]
    BY <1>2, RequestFacts
  <2>2. \A g \in kept : f[g] = request.effects[j][FirstRow(g)] /\ f[g] \in Int
    BY <1>2, <2>1, RequestFacts DEF Compressed
  <2>3. /\ \A x, y \in kept : d[x] = d[y] <=> f[x] = f[y]
        /\ {d[x] : x \in kept} = 0..(Cardinality(V) - 1)
    <3>1. IsFiniteSet(kept) /\ \A x \in kept : f[x] \in Int
      BY <1>2, <2>2
    <3> HIDE DEF f
    <3>2. CodesFor(d, f, kept)
      BY <3>1, CodesOfLabels
    <3> QED
      BY <3>2 DEF CodesFor
  <2>4. \A k \in 1..N : new[k] = d[groups[k]] /\ old[k] = f[groups[k]]
    BY <1>2, <2>2
  <2>5. {new[k] : k \in 1..N} = {d[x] : x \in kept} /\ {old[k] : k \in 1..N} = V
    <3>1. \A k \in 1..N : groups[k] \in kept
      BY <1>2
    <3>2. \A x \in kept : \E k \in 1..N : groups[k] = x
      BY <1>2
    <3> HIDE DEF new, old, d, f
    <3>3. {new[k] : k \in 1..N} = {d[x] : x \in kept}
      BY <2>4, <3>1, <3>2
    <3>4. {old[k] : k \in 1..N} = {f[x] : x \in kept}
      BY <2>4, <3>1, <3>2
    <3> QED
      BY <3>3, <3>4
  <2>6. \A k, l \in 1..N : new[k] = new[l] <=> old[k] = old[l]
    <3> HIDE DEF new, old, d, f
    <3> QED
      BY <1>2, <2>3, <2>4
  <2> HIDE DEF new, old, d, f
  <2>7. LevelCount([k \in 1..N |-> old[k]]) = Cardinality(V)
    <3>1. {[k \in 1..N |-> old[k]][x] : x \in DOMAIN [k \in 1..N |-> old[k]]} = {old[k] : k \in 1..N}
      OBVIOUS
    <3> QED
      BY <2>5, <3>1 DEF LevelCount
  <2>8. Recoded(new, old, 1..N)
    BY <2>3, <2>5, <2>6, <2>7 DEF Recoded
  <2> QED
    BY <2>8 DEF new, old
<1>6. ASSUME HasIndividual
      PROVE  /\ DOMAIN problem.group = UNION {RowsIn(g) : g \in kept}
             /\ \A r \in DOMAIN problem.group : groups[problem.group[r] + 1] = GroupOf(r)
             /\ Recoded(problem.person, request.individual, DOMAIN problem.person)
  <2>1. DOMAIN problem.group = members /\ members = {r \in Members : GroupOf(r) \in kept}
    BY <1>2, <1>6 DEF members
  <2>2. members = UNION {RowsIn(g) : g \in kept}
    BY <2>1 DEF RowsIn
  <2>3. \A r \in members : groups[problem.group[r] + 1] = GroupOf(r)
    BY <1>2, <2>1
  <2>4. request.individual \in [Members -> Int] /\ IsFiniteSet(members)
    BY <1>2, <1>6, <2>1, RequestFacts, FS_Subset DEF HasIndividual
  <2> DEFINE f == request.individual
             V == {f[x] : x \in members}
  <2>5. /\ DOMAIN problem.person = members
        /\ \A x, y \in members : problem.person[x] = problem.person[y] <=> f[x] = f[y]
        /\ {problem.person[x] : x \in members} = 0..(Cardinality(V) - 1)
    <3>1. \A x \in members : f[x] \in Int
      BY <2>1, <2>4
    <3>2. problem.person = DenseCodes(f, members)
      BY <1>2
    <3> HIDE DEF f
    <3>3. CodesFor(problem.person, f, members)
      BY <2>4, <3>1, <3>2, CodesOfLabels
    <3> QED
      BY <3>3 DEF CodesFor
  <2> HIDE DEF f
  <2>6. LevelCount([x \in members |-> f[x]]) = Cardinality(V)
    <3>1. {[x \in members |-> f[x]][y] : y \in DOMAIN [x \in members |-> f[x]]} = V
      OBVIOUS
    <3> QED
      BY <3>1 DEF LevelCount
  <2>7. Recoded(problem.person, f, members)
    BY <2>5, <2>6 DEF Recoded
  <2> QED
    BY <2>1, <2>2, <2>3, <2>5, <2>7 DEF f
<1> QED
  BY <1>2, <1>3, <1>4, <1>5, <1>6 DEF HandedWhole, groups, N

-----------------------------------------------------------------------------
(* The operator.                                                              *)

\* A share of Unit is exact for a size that divides it.
LEMMA SharesExact ==
  ASSUME NEW n \in Nat, n > 0, Unit % n = 0
  PROVE  Unit \div n \in Int /\ (Unit \div n) * n = Unit
BY GroupAssumption

\* The memberships of column c in observation k, one at most.
Linked(k, c) == {r \in GroupRows(k) : problem.person[r] = c[2]}

\* Observation k holds the memberships of the k-th kept group, and a person at
\* most once.
LEMMA MembershipFacts ==
  ASSUME GroupInv, step = "solving"
  PROVE  LET members == {r \in Members : GroupOf(r) \in kept}
         IN  /\ IsFiniteSet(members) /\ IsFiniteSet(Observations)
             /\ DOMAIN problem.group = members /\ DOMAIN problem.person = members
             /\ \A r \in members : problem.group[r] + 1 \in Observations /\ r \in GroupRows(problem.group[r] + 1)
                                   /\ problem.group[r] \in Int
             /\ \A k \in Observations :
                  /\ k \in Int /\ GroupRows(k) \subseteq members
                  /\ GroupRows(k) = RowsIn(Ascending(kept)[k]) /\ Ascending(kept)[k] \in kept
                  /\ \A r, s \in GroupRows(k) : problem.person[r] = problem.person[s] => r = s
<1> DEFINE groups == Ascending(kept)
           N == Cardinality(kept)
           members == {r \in Members : GroupOf(r) \in kept}
<1>0. HasIndividual /\ ~Repeated
  BY DEF GroupInv, Working
<1>1. /\ request \in Requests /\ kept \subseteq GroupSet /\ IsFiniteSet(kept) /\ N \in Nat
      /\ DOMAIN groups = 1..N /\ Observations = 1..N
      /\ \A k \in 1..N : groups[k] \in kept
      /\ \A k, l \in 1..N : groups[k] = groups[l] => k = l
      /\ \A g \in kept : /\ Cardinality({h \in kept : h < g}) + 1 \in 1..N
                         /\ groups[Cardinality({h \in kept : h < g}) + 1] = g
      /\ problem.group = [r \in members |-> Cardinality({h \in kept : h < GroupOf(r)})]
      /\ problem.person = DenseCodes(request.individual, members)
  BY <1>0, HandedFacts
<1> HIDE DEF groups, N
<1>2. IsFiniteSet(members) /\ IsFiniteSet(Observations)
  BY <1>1, RequestFacts, FS_Subset, FS_Interval
<1>3. ASSUME NEW r \in members
      PROVE  /\ problem.group[r] + 1 \in 1..N /\ groups[problem.group[r] + 1] = GroupOf(r)
             /\ problem.group[r] \in Int
  <2>1. problem.group[r] = Cardinality({h \in kept : h < GroupOf(r)})
    BY <1>1
  <2>2. IsFiniteSet({h \in kept : h < GroupOf(r)})
    BY <1>1, FS_Subset
  <2>3. problem.group[r] \in Int
    BY <2>1, <2>2, FS_CardinalityType
  <2> QED
    BY <1>1, <2>1, <2>3
<1>4. DOMAIN problem.group = members
  BY <1>1
<1>5. \A r \in members : r \in GroupRows(problem.group[r] + 1)
  BY <1>3, <1>4 DEF GroupRows
<1>6. ASSUME NEW k \in 1..N PROVE GroupRows(k) = RowsIn(groups[k]) /\ GroupRows(k) \subseteq members
  <2>1. \A r \in GroupRows(k) : r \in members /\ problem.group[r] + 1 = k
    BY <1>1, <1>3, <1>4 DEF GroupRows
  <2>2. \A r \in GroupRows(k) : GroupOf(r) = groups[k]
    BY <1>3, <2>1
  <2>3. \A r \in RowsIn(groups[k]) : r \in members /\ GroupOf(r) = groups[k]
    BY <1>1 DEF RowsIn
  <2>4. \A r \in RowsIn(groups[k]) : problem.group[r] + 1 = k
    BY <1>1, <1>3, <2>3
  <2>5. \A r \in RowsIn(groups[k]) : r \in GroupRows(k)
    BY <1>3, <1>4, <2>3, <2>4 DEF GroupRows
  <2>6. \A r \in GroupRows(k) : r \in RowsIn(groups[k])
    BY <2>1, <2>2 DEF RowsIn
  <2> QED
    BY <2>1, <2>5, <2>6
<1>7. request.individual \in [Members -> Int]
  BY <1>0, <1>1, RequestFacts DEF HasIndividual
<1>8. CodesFor(problem.person, request.individual, members)
  BY <1>1, <1>2, <1>7, CodesOfLabels
<1>9. \A r, s \in members : problem.person[r] = problem.person[s] => request.individual[r] = request.individual[s]
  BY <1>8 DEF CodesFor
<1>10. ASSUME NEW k \in 1..N, NEW r \in GroupRows(k), NEW s \in GroupRows(k),
              problem.person[r] = problem.person[s]
       PROVE  r = s
  <2>1. r \in members /\ s \in members /\ GroupOf(r) = groups[k] /\ GroupOf(s) = groups[k]
    BY <1>6 DEF RowsIn
  <2>2. request.individual[r] = request.individual[s]
    BY <1>9, <1>10, <2>1
  <2> QED
    BY <1>0, <2>1, <2>2 DEF Repeated
<1>11. DOMAIN problem.person = members
  BY <1>8 DEF CodesFor
<1> QED
  BY <1>1, <1>2, <1>3, <1>4, <1>5, <1>6, <1>10, <1>11 DEF groups, N

\* What a person's column takes from a membership is its share of Unit, times the slope.
LEMMA LoadFacts ==
  ASSUME GroupInv, step = "solving", NEW c \in DesignColumns, c[1] = 0,
         NEW k \in Observations, NEW r \in GroupRows(k)
  PROVE  LET x == IF c[3] = 0 THEN 1 ELSE request.slope[r]
         IN  /\ Load(r, c[3]) \in Int /\ x \in Int
             /\ Load(r, c[3]) * (IF request.mean THEN Cardinality(RowsIn(Ascending(kept)[k])) ELSE 1) = Unit * x
<1> DEFINE x == IF c[3] = 0 THEN 1 ELSE request.slope[r]
           g == Ascending(kept)[k]
           n == Cardinality(RowsIn(g))
<1>1. /\ request \in Requests /\ kept \subseteq GroupSet /\ g \in kept /\ r \in RowsIn(g)
      /\ GroupRows(k) = RowsIn(g) /\ r \in DOMAIN problem.group /\ r \in Members /\ k \in Int
  BY MembershipFacts DEF GroupInv
<1>2. c[3] \in PersonComponents
  <2>1. c \in PersonColumns \cup EffectColumns
    BY DEF DesignColumns
  <2>2. c \notin EffectColumns
    <3>1. DOMAIN problem.effects = DOMAIN request.effects /\ request.effects \in Seq([Members -> Int])
      BY <1>1, HandedFacts, RequestFacts
    <3>2. 0 \notin DOMAIN problem.effects
      BY <3>1
    <3> QED
      BY <3>2 DEF EffectColumns
  <2> QED
    BY <2>1, <2>2 DEF PersonColumns
<1>3. x \in Int
  <2>1. CASE c[3] = 0
    BY <2>1
  <2>2. CASE c[3] # 0
    <3>1. request.slope # <<>>
      BY <1>2, <2>2 DEF PersonComponents
    <3>2. request.slope \in [Members -> Int]
      BY <1>1, <3>1, RequestFacts
    <3> QED
      BY <1>1, <2>2, <3>2
  <2> QED
    BY <2>1, <2>2
<1>4. {s \in DOMAIN problem.group : problem.group[s] = problem.group[r]} = RowsIn(g)
  <2>1. problem.group[r] = k - 1
    BY DEF GroupRows
  <2> QED
    BY <1>1, <2>1 DEF GroupRows
<1>5. MemberScale(r) = IF request.mean THEN Unit \div n ELSE Unit
  BY <1>4 DEF MemberScale
<1>6. ASSUME request.mean PROVE Unit \div n \in Int /\ (Unit \div n) * n = Unit /\ n \in Int
  <2>1. RowsIn(g) = {s \in DOMAIN request.group : request.group[s] = g}
    BY DEF RowsIn, Members, GroupOf
  <2>2. g \in {request.group[s] : s \in DOMAIN request.group}
    BY <1>1 DEF GroupSet, Members, GroupOf
  <2>3. Unit % n = 0
    BY <1>1, <1>6, <2>1, <2>2, GroupAssumption
  <2>4. IsFiniteSet(RowsIn(g))
    BY <1>1, RequestFacts, FS_Subset
  <2>5. n \in Nat /\ n > 0
    BY <1>1, <2>4, FS_CardinalityType, FS_EmptySet
  <2> HIDE DEF n
  <2> QED
    BY <2>3, <2>5, SharesExact
<1>7. Load(r, c[3]) = MemberScale(r) * x
  BY DEF Load
<1> HIDE DEF x, n, g
<1>8. CASE request.mean
  <2>1. MemberScale(r) = Unit \div n
    BY <1>5, <1>8
  <2> DEFINE q == Unit \div n
  <2>2. q \in Int /\ n \in Int /\ q * n = Unit /\ Load(r, c[3]) = q * x
    BY <1>6, <1>7, <1>8, <2>1
  <2> HIDE DEF q
  <2>3. (q * x) * n = (q * n) * x /\ q * x \in Int
    BY <1>3, <2>2
  <2>4. Load(r, c[3]) \in Int
    BY <2>2, <2>3
  <2>5. Load(r, c[3]) * n = Unit * x
    <3>1. Load(r, c[3]) * n = (q * x) * n
      BY <2>2
    <3>2. (q * n) * x = Unit * x
      BY <2>2
    <3> QED
      BY <2>3, <3>1, <3>2, Zenon
  <2> QED
    BY <1>3, <1>8, <2>4, <2>5 DEF x, n, g
<1>9. CASE ~request.mean
  <2>1. MemberScale(r) = Unit
    BY <1>5, <1>9
  <2>2. Load(r, c[3]) \in Int /\ Load(r, c[3]) * 1 = Unit * x
    BY <1>3, <1>7, <2>1, GroupAssumption
  <2> QED
    BY <1>3, <1>9, <2>2 DEF x, n, g
<1> QED
  BY <1>8, <1>9

\* An observation's weight is its group's first one, or 1.
LEMMA WeightIsInt ==
  ASSUME GroupInv, step = "solving", NEW k \in Observations
  PROVE  Weight(k) \in Int
<1> DEFINE g == Ascending(kept)[k]
<1>1. request \in Requests /\ g \in GroupSet
  BY MembershipFacts DEF GroupInv
<1>2. FirstRow(g) \in Members
  BY <1>1, RequestFacts
<1>3. request.weight = <<>> \/ request.weight \in [Members -> Int]
  BY <1>1, RequestFacts
<1> QED
  BY <1>1, <1>2, <1>3 DEF Weight, Compressed

\* An entry of a person's column, however it is summed: the one membership's
\* load, or zero.
LEMMA EntryIsLoad ==
  ASSUME GroupInv, step = "solving", NEW c \in DesignColumns, c[1] = 0, NEW k \in Observations
  PROVE  /\ Linked(k, c) = {} => CsrEntry(k, c) = 0 /\ Matvec(c, k) = 0 /\ Rmatvec(k, c) = 0
         /\ \A r \in Linked(k, c) : /\ CsrEntry(k, c) = Load(r, c[3])
                                    /\ Matvec(c, k) = Load(r, c[3]) /\ Rmatvec(k, c) = Load(r, c[3])
<1> DEFINE S == Linked(k, c)
           own == GroupRows(k)
           P == PersonRows(c[2])
           fs == [r \in S |-> Load(r, c[3])]
           fg == [r \in own |-> IF problem.person[r] = c[2] THEN Load(r, c[3]) ELSE 0]
           fp == [r \in P |-> IF problem.group[r] = k - 1 THEN Load(r, c[3]) ELSE 0]
<1>1. /\ CsrEntry(k, c) = SumFunctionOnSet(fs, S)
      /\ Matvec(c, k) = SumFunctionOnSet(fg, own)
      /\ Rmatvec(k, c) = SumFunctionOnSet(fp, P)
  BY DEF CsrEntry, Matvec, Rmatvec, SumFunction, Linked
<1>2. IsFiniteSet(S) /\ IsFiniteSet(own) /\ IsFiniteSet(P)
  <2>1. S \subseteq own /\ own \subseteq {r \in Members : GroupOf(r) \in kept}
        /\ P \subseteq {r \in Members : GroupOf(r) \in kept}
    BY MembershipFacts DEF Linked, PersonRows
  <2> HIDE DEF S, own, P
  <2> QED
    BY <2>1, MembershipFacts, FS_Subset
<1>3. S = {r \in own : problem.person[r] = c[2]} /\ S = {r \in P : problem.group[r] = k - 1}
  BY MembershipFacts DEF Linked, PersonRows, GroupRows
<1>4. \A r, s \in S : r = s
  <2>1. \A r, s \in own : problem.person[r] = problem.person[s] => r = s
    BY MembershipFacts
  <2> QED
    BY <1>3, <2>1
<1>5. \A r \in S : Load(r, c[3]) \in Int
  BY <1>3, LoadFacts
<1> HIDE DEF S, own, P
<1>6. /\ \A r \in S : fs[r] = Load(r, c[3])
      /\ \A r \in own : fg[r] = IF r \in S THEN Load(r, c[3]) ELSE 0
      /\ \A r \in P : fp[r] = IF r \in S THEN Load(r, c[3]) ELSE 0
  BY <1>3
<1> HIDE DEF fs, fg, fp
<1>7. ASSUME S = {} PROVE CsrEntry(k, c) = 0 /\ Matvec(c, k) = 0 /\ Rmatvec(k, c) = 0
  <2>1. SumFunctionOnSet(fs, S) = 0
    BY <1>2, <1>7, SumOfNone
  <2>2. \A r \in own : fg[r] = 0
    BY <1>6, <1>7
  <2>3. \A r \in P : fp[r] = 0
    BY <1>6, <1>7
  <2>4. SumFunctionOnSet(fg, own) = 0
    BY <1>2, <2>2, SumOfNone
  <2>5. SumFunctionOnSet(fp, P) = 0
    BY <1>2, <2>3, SumOfNone
  <2> QED
    BY <1>1, <2>1, <2>4, <2>5
<1>8. ASSUME NEW r \in S
      PROVE  CsrEntry(k, c) = Load(r, c[3]) /\ Matvec(c, k) = Load(r, c[3]) /\ Rmatvec(k, c) = Load(r, c[3])
  <2>1. r \in own /\ r \in P /\ Load(r, c[3]) \in Int
    BY <1>3, <1>5
  <2>2. fs[r] = Load(r, c[3]) /\ fg[r] = Load(r, c[3]) /\ fp[r] = Load(r, c[3])
    BY <1>6, <2>1
  <2>3. (\A s \in S \ {r} : fs[s] = 0) /\ (\A s \in own \ {r} : fg[s] = 0) /\ (\A s \in P \ {r} : fp[s] = 0)
    BY <1>4, <1>6
  <2>4. SumFunctionOnSet(fs, S) = fs[r]
    BY <1>2, <2>1, <2>2, <2>3, SumOfOne
  <2>5. SumFunctionOnSet(fg, own) = fg[r]
    BY <1>2, <2>1, <2>2, <2>3, SumOfOne
  <2>6. SumFunctionOnSet(fp, P) = fp[r]
    BY <1>2, <2>1, <2>2, <2>3, SumOfOne
  <2> QED
    BY <1>1, <2>2, <2>4, <2>5, <2>6
<1> QED
  BY <1>7, <1>8 DEF S

\* Squares added over memberships are the squared length of the column.
LEMMA SquaresMoved ==
  ASSUME GroupInv, step = "solving", NEW c \in DesignColumns, c[1] = 0
  PROVE  MemberSquare(c) = SumFunction([k \in Observations |-> Weight(k) * Matvec(c, k) * Matvec(c, k)])
<1> DEFINE P == PersonRows(c[2])
           Q == Observations
           m == [r \in P |-> problem.group[r] + 1]
           a == [r \in P |-> Weight(problem.group[r] + 1) * Load(r, c[3]) * Load(r, c[3])]
           b == [k \in Q |-> Weight(k) * Matvec(c, k) * Matvec(c, k)]
<1>1. MemberSquare(c) = SumFunctionOnSet(a, P)
  BY DEF MemberSquare, SumFunction
<1>2. SumFunction(b) = SumFunctionOnSet(b, Q)
  BY DEF SumFunction
<1>3. IsFiniteSet(P) /\ IsFiniteSet(Q) /\ m \in [P -> Q]
  <2>1. P \subseteq {r \in Members : GroupOf(r) \in kept} /\ m \in [P -> Q]
    BY MembershipFacts DEF PersonRows
  <2> HIDE DEF P, m
  <2> QED
    BY <2>1, MembershipFacts, FS_Subset
<1>4. \A r \in P : r \in Linked(m[r], c) /\ m[r] \in Q
  BY MembershipFacts DEF PersonRows, Linked
<1>5. \A k \in Q : \A r \in Linked(k, c) : r \in P /\ m[r] = k
  BY MembershipFacts DEF PersonRows, Linked, GroupRows
<1>6. \A r \in P : a[r] = Weight(m[r]) * Load(r, c[3]) * Load(r, c[3])
  OBVIOUS
<1>7. \A k \in Q : b[k] = Weight(k) * Matvec(c, k) * Matvec(c, k)
  OBVIOUS
<1> HIDE DEF P, Q, m, a, b
<1>8. ASSUME NEW r \in P PROVE a[r] \in Int /\ b[m[r]] = a[r]
  <2>1. m[r] \in Observations /\ r \in Linked(m[r], c)
    BY <1>4 DEF Q
  <2>2. Matvec(c, m[r]) = Load(r, c[3])
    BY <2>1, EntryIsLoad
  <2>3. Weight(m[r]) \in Int
    BY <2>1, WeightIsInt
  <2>4. Load(r, c[3]) \in Int
    BY <2>1, LoadFacts DEF Linked
  <2> QED
    BY <1>4, <1>6, <1>7, <2>2, <2>3, <2>4
<1>9. ASSUME NEW x \in P, NEW y \in P, m[x] = m[y] PROVE x = y
  <2>1. /\ x \in GroupRows(m[x]) /\ y \in GroupRows(m[x]) /\ m[x] \in Observations
        /\ problem.person[x] = problem.person[y]
    BY <1>4, <1>9 DEF Linked, Q
  <2> QED
    BY <2>1, MembershipFacts
<1>10. ASSUME NEW k \in Q, \A x \in P : m[x] # k PROVE b[k] = 0
  <2>1. Linked(k, c) = {} /\ k \in Observations
    BY <1>5, <1>10 DEF Q
  <2>2. Matvec(c, k) = 0
    BY <2>1, EntryIsLoad
  <2>3. Weight(k) \in Int
    BY <2>1, WeightIsInt
  <2> QED
    BY <1>7, <2>2, <2>3
<1>11. SumFunctionOnSet(a, P) = SumFunctionOnSet(b, Q)
  BY <1>3, <1>8, <1>9, <1>10, SumMoved
<1> QED
  BY <1>1, <1>2, <1>11 DEF b, Q

\* Either representation is the design of the memberships, by cases on which.
LEMMA OneDesign == ASSUME GroupInv PROVE OperatorIsTheDesign
<1> SUFFICES ASSUME operator # <<>> PROVE OperatorIsTheDesign
  BY DEF OperatorIsTheDesign
<1>1. step = "solving" /\ operator \in {CsrOperator, MatrixFree}
  BY DEF GroupInv
<1>2. /\ DOMAIN operator.forward = DesignColumns
      /\ \A c \in DesignColumns : \A k \in Observations :
           \/ /\ operator = CsrOperator
              /\ operator.forward[c][k] = CsrEntry(k, c) /\ operator.adjoint[k][c] = CsrEntry(k, c)
           \/ /\ operator = MatrixFree
              /\ operator.forward[c][k] = Matvec(c, k) /\ operator.adjoint[k][c] = Rmatvec(k, c)
  BY <1>1 DEF CsrOperator, MatrixFree
<1>3. ASSUME NEW c \in DesignColumns
      PROVE  operator.diag[c] =
               SumFunction([k \in Observations |-> Weight(k) * operator.forward[c][k] * operator.forward[c][k]])
  <2>1. CASE operator = CsrOperator
    <3>1. \A k \in Observations : operator.forward[c][k] = CsrEntry(k, c)
      BY <2>1 DEF CsrOperator
    <3>2. operator.diag[c] = SumFunction([k \in Observations |-> Weight(k) * CsrEntry(k, c) * CsrEntry(k, c)])
      BY <2>1 DEF CsrOperator
    <3>3. [k \in Observations |-> Weight(k) * CsrEntry(k, c) * CsrEntry(k, c)]
            = [k \in Observations |-> Weight(k) * operator.forward[c][k] * operator.forward[c][k]]
      BY <3>1
    <3> QED
      BY <3>2, <3>3
  <2>2. CASE operator = MatrixFree
    <3>1. \A k \in Observations : operator.forward[c][k] = Matvec(c, k)
      BY <2>2 DEF MatrixFree
    <3>2. operator.diag[c] = MemberSquare(c)
      BY <2>2 DEF MatrixFree
    <3>3. MemberSquare(c) = SumFunction([k \in Observations |-> Weight(k) * Matvec(c, k) * Matvec(c, k)])
      <4>1. CASE c[1] = 0
        BY <1>1, <4>1, SquaresMoved
      <4>2. CASE c[1] # 0
        <5>1. \A k \in Observations : Matvec(c, k) = EffectEntry(k, c)
          BY <4>2 DEF Matvec
        <5>2. MemberSquare(c) = SumFunction([k \in Observations |-> Weight(k) * EffectEntry(k, c) * EffectEntry(k, c)])
          BY <4>2 DEF MemberSquare
        <5>3. [k \in Observations |-> Weight(k) * EffectEntry(k, c) * EffectEntry(k, c)]
                = [k \in Observations |-> Weight(k) * Matvec(c, k) * Matvec(c, k)]
          BY <5>1
        <5> QED
          BY <5>2, <5>3
      <4> QED
        BY <4>1, <4>2
    <3>4. [k \in Observations |-> Weight(k) * Matvec(c, k) * Matvec(c, k)]
            = [k \in Observations |-> Weight(k) * operator.forward[c][k] * operator.forward[c][k]]
      BY <3>1
    <3> QED
      BY <3>2, <3>3, <3>4
  <2> QED
    BY <1>1, <2>1, <2>2
<1>4. ASSUME NEW c \in DesignColumns, NEW k \in Observations PROVE operator.forward[c][k] = operator.adjoint[k][c]
  <2>1. CASE operator = CsrOperator
    BY <2>1 DEF CsrOperator
  <2>2. CASE operator = MatrixFree
    <3>1. operator.forward[c][k] = Matvec(c, k) /\ operator.adjoint[k][c] = Rmatvec(k, c)
      BY <2>2 DEF MatrixFree
    <3>2. CASE c[1] # 0
      BY <3>1, <3>2 DEF Matvec, Rmatvec
    <3>3. CASE c[1] = 0
      BY <1>1, <3>1, <3>3, EntryIsLoad
    <3> QED
      BY <3>2, <3>3
  <2> QED
    BY <1>1, <2>1, <2>2
<1>5. ASSUME NEW c \in DesignColumns, c[1] = 0, NEW k \in Observations
      PROVE  operator.forward[c][k] * (IF request.mean THEN Cardinality(RowsIn(Ascending(kept)[k])) ELSE 1)
               = Unit * SumFunction([r \in {r \in RowsIn(Ascending(kept)[k]) : problem.person[r] = c[2]} |->
                                     IF c[3] = 0 THEN 1 ELSE request.slope[r]])
  <2> DEFINE D == {r \in RowsIn(Ascending(kept)[k]) : problem.person[r] = c[2]}
             x == [r \in D |-> IF c[3] = 0 THEN 1 ELSE request.slope[r]]
             n == IF request.mean THEN Cardinality(RowsIn(Ascending(kept)[k])) ELSE 1
             v == operator.forward[c][k]
  <2>1. /\ Linked(k, c) = {} => v = 0
        /\ \A r \in Linked(k, c) : v = Load(r, c[3])
    BY <1>1, <1>2, <1>5, EntryIsLoad
  <2>2. D = Linked(k, c) /\ IsFiniteSet(D) /\ \A r, s \in D : r = s
    <3>1. D = Linked(k, c) /\ D \subseteq {r \in Members : GroupOf(r) \in kept}
      BY <1>1, MembershipFacts DEF Linked
    <3>2. \A r, s \in Linked(k, c) : r = s
      BY <1>1, MembershipFacts DEF Linked
    <3> HIDE DEF D
    <3> QED
      BY <1>1, <3>1, <3>2, MembershipFacts, FS_Subset
  <2>3. SumFunction(x) = SumFunctionOnSet(x, D)
    BY DEF SumFunction
  <2>4. n \in Int
    <3>1. IsFiniteSet(RowsIn(Ascending(kept)[k]))
      <4>1. RowsIn(Ascending(kept)[k]) \subseteq {r \in Members : GroupOf(r) \in kept}
        BY <1>1, MembershipFacts
      <4> QED
        BY <1>1, <4>1, MembershipFacts, FS_Subset
    <3> QED
      BY <3>1, FS_CardinalityType
  <2>5. \A r \in D : x[r] \in Int /\ Load(r, c[3]) * n = Unit * x[r]
    BY <1>1, <1>5, <2>2, LoadFacts DEF Linked
  <2> HIDE DEF D, x, n, v
  <2>6. CASE D = {}
    <3>1. SumFunctionOnSet(x, D) = 0
      BY <2>2, <2>6, SumOfNone
    <3>2. v = 0 /\ SumFunction(x) = 0
      BY <2>1, <2>2, <2>3, <2>6, <3>1
    <3>3. 0 * n = Unit * 0
      BY <2>4, GroupAssumption
    <3>4. v * n = Unit * SumFunction(x)
      BY <3>2, <3>3
    <3> QED
      BY <3>4 DEF n, v, x, D
  <2>7. CASE D # {}
    <3>1. PICK r \in D : TRUE
      BY <2>7
    <3>2. SumFunctionOnSet(x, D) = x[r]
      <4>1. \A s \in D \ {r} : x[s] = 0
        BY <2>2
      <4> QED
        BY <2>2, <2>5, <4>1, SumOfOne
    <3>3. v * n = Unit * SumFunction(x)
      <4>1. v = Load(r, c[3]) /\ Load(r, c[3]) * n = Unit * x[r]
        BY <2>1, <2>2, <2>5
      <4>2. SumFunction(x) = x[r]
        BY <2>3, <3>2
      <4> QED
        BY <4>1, <4>2
    <3> QED
      BY <3>3 DEF n, v, x, D
  <2> QED
    BY <2>6, <2>7
<1> QED
  BY <1>2, <1>3, <1>4, <1>5 DEF OperatorIsTheDesign

\* Group mode, for any request: the groups pruned leave the largest sample in
\* which none is alone; what is handed over is that sample, whole under dense
\* numbers; and either operator is the design of its memberships.
THEOREM GroupModeIsWhole == GroupSpec => []GroupProblemIsWhole
<1>1. GroupInv => GroupProblemIsWhole
  BY Pruned, Whole, OneDesign DEF GroupProblemIsWhole
<1> QED
  BY <1>1, GroupInductive, PTL

-----------------------------------------------------------------------------
(* The designs.  What a request for regressors is, and folds of integers.     *)

\* A sequence, as far as a fold goes along it.
Steps(p) == Len(p) \in Nat /\ DOMAIN p = 1..Len(p)

\* What a call is made of.
LEMMA RegressorFacts ==
  ASSUME call \in Calls
  PROVE  /\ RowCount \in Nat \ {0} /\ Obs = 1..RowCount /\ IsFiniteSet(Obs)
         /\ \A f \in DOMAIN call.factors : call.factors[f] \in [Obs -> Int]
         /\ \A x \in DOMAIN call.continuous : call.continuous[x] \in [Obs -> Int]
         /\ TermIds = 1..Len(call.terms) /\ Len(call.terms) \in Nat
         /\ \A t \in TermIds : /\ Role(t) \in 1..3
                               /\ Steps(call.terms[t].monomial) /\ Steps(Parts(t))
                               /\ \A k \in DOMAIN call.terms[t].monomial :
                                    call.terms[t].monomial[k] \in DOMAIN call.continuous
                               /\ \A k \in DOMAIN Parts(t) : Parts(t)[k].factor \in DOMAIN call.factors
<1> DEFINE Part == [factor : DOMAIN call.factors, base : {"none", "first", "last", "freq"}]
           Term == [role : 1..3, monomial : Seq(DOMAIN call.continuous), parts : Seq(Part)]
<1>1. /\ RowCount \in Nat \ {0} /\ call.terms \in Seq(Term)
      /\ \A f \in DOMAIN call.factors : call.factors[f] \in [Obs -> 0..(RowCount - 1)]
      /\ \A x \in DOMAIN call.continuous : call.continuous[x] \in [Obs -> Int]
  BY DesignAssumption, Zenon
<1>2. Obs = 1..RowCount /\ IsFiniteSet(Obs)
  BY <1>1, FS_Interval DEF Obs
<1>3. \A f \in DOMAIN call.factors : call.factors[f] \in [Obs -> Int]
  <2>1. 0..(RowCount - 1) \subseteq Int
    BY <1>1
  <2> QED
    BY <1>1, <2>1
<1>4. \A q \in Term : /\ q.role \in 1..3 /\ q.monomial \in Seq(DOMAIN call.continuous)
                       /\ q.parts \in Seq(Part)
  <2> HIDE DEF Part
  <2> QED
    OBVIOUS
<1>5. /\ TermIds = 1..Len(call.terms) /\ Len(call.terms) \in Nat
      /\ \A t \in TermIds : call.terms[t] \in Term
  <2> HIDE DEF Term
  <2> QED
    BY <1>1 DEF TermIds
<1> HIDE DEF Term
<1>6. ASSUME NEW t \in TermIds
      PROVE  /\ Role(t) \in 1..3
             /\ call.terms[t].monomial \in Seq(DOMAIN call.continuous) /\ Parts(t) \in Seq(Part)
  BY <1>4, <1>5 DEF Role, Parts
<1>7. \A p \in Part : p.factor \in DOMAIN call.factors
  OBVIOUS
<1> HIDE DEF Part
<1>8. ASSUME NEW t \in TermIds
      PROVE  /\ Steps(call.terms[t].monomial) /\ Steps(Parts(t))
             /\ \A k \in DOMAIN call.terms[t].monomial : call.terms[t].monomial[k] \in DOMAIN call.continuous
             /\ \A k \in DOMAIN Parts(t) : Parts(t)[k].factor \in DOMAIN call.factors
  <2>1. /\ Steps(call.terms[t].monomial)
        /\ \A k \in DOMAIN call.terms[t].monomial : call.terms[t].monomial[k] \in DOMAIN call.continuous
    BY <1>6 DEF Steps
  <2>2. Steps(Parts(t)) /\ \A k \in DOMAIN Parts(t) : Parts(t)[k] \in Part
    BY <1>6 DEF Steps
  <2> QED
    BY <1>7, <2>1, <2>2
<1> QED
  BY <1>1, <1>2, <1>3, <1>5, <1>6, <1>8

\* g solves the fold of a cell, of a product.
CellSteps(g, t, i) ==
  g = [s \in SUBSET DOMAIN Parts(t) |->
         IF s = {} THEN 0
         ELSE (g[s \ {Max(s)}] * RowCount) + call.factors[Parts(t)[Max(s)].factor][i]]
ProductSteps(g, m, i) ==
  g = [s \in SUBSET DOMAIN m |-> IF s = {} THEN 1 ELSE g[s \ {Max(s)}] * call.continuous[m[Max(s)]][i]]

\* The cell of row i: the fold of its digits.
LEMMA CellFold ==
  ASSUME NEW t, NEW i
  PROVE  Cell(t, i) = (CHOOSE g : CellSteps(g, t, i))[DOMAIN Parts(t)]
BY DEF Cell, FoldLeft, MapThenFoldSet, CellSteps

\* The product of continuous columns in row i, likewise.
LEMMA ProductFold ==
  ASSUME NEW t, NEW i
  PROVE  Monomial(t, i) = (CHOOSE g : ProductSteps(g, call.terms[t].monomial, i))[DOMAIN call.terms[t].monomial]
BY DEF Monomial, FoldLeft, MapThenFoldSet, ProductSteps

\* Such a fold exists, and it is an integer.
LEMMA IntegerFold ==
  ASSUME NEW n \in Nat, NEW b, b \in Int, NEW F,
         \A x \in 1..n : \A v \in Int : F[<<x, v>>] \in Int
  PROVE  \E g : Unrolls(g, 1..n, Lasts(n), b, F) /\ \A s \in SUBSET (1..n) : g[s] \in Int
<1> DEFINE V == [s \in SUBSET (1..n) |-> Int]
           c == Lasts(n)
<1>1. IsFiniteSet(1..n) /\ \A s \in SUBSET (1..n) : s # {} => c[s] \in s
  BY LastsFacts
<1>3. \A s \in SUBSET (1..n) : V[s] = Int
  OBVIOUS
<1> HIDE DEF V, c
<1>4. b \in V[{}]
  BY <1>3
<1>5. \A s \in SUBSET (1..n) : s # {} => \A v \in V[s \ {c[s]}] : F[<<c[s], v>>] \in V[s]
  <2> SUFFICES ASSUME NEW s \in SUBSET (1..n), s # {} PROVE \A v \in V[s \ {c[s]}] : F[<<c[s], v>>] \in V[s]
    OBVIOUS
  <2>1. c[s] \in 1..n /\ s \ {c[s]} \in SUBSET (1..n)
    BY <1>1
  <2> QED
    BY <1>3, <2>1
<1>6. PICK g : Unrolls(g, 1..n, c, b, F) /\ \A s \in SUBSET (1..n) : g[s] \in V[s]
  BY <1>1, <1>4, <1>5, FoldExists
<1> QED
  BY <1>3, <1>6 DEF c

\* Whatever takes such steps stays among the integers.
LEMMA IntegerFoldStays ==
  ASSUME NEW n \in Nat, NEW k, k[{}] \in Int,
         \A s \in SUBSET (1..n) : s # {} /\ k[s \ {Max(s)}] \in Int => k[s] \in Int
  PROVE  k[1..n] \in Int
<1> DEFINE V == [s \in SUBSET (1..n) |-> Int]
           c == Lasts(n)
<1>1. /\ IsFiniteSet(1..n) /\ \A s \in SUBSET (1..n) : s # {} => c[s] \in s
      /\ \A s \in SUBSET (1..n) : c[s] = Max(s)
  BY LastsFacts
<1>2. \A s \in SUBSET (1..n) : V[s] = Int /\ s \ {c[s]} \in SUBSET (1..n)
  OBVIOUS
<1> HIDE DEF c, V
<1>3. k[{}] \in V[{}]
  BY <1>2
<1>4. \A s \in SUBSET (1..n) : s # {} /\ k[s \ {c[s]}] \in V[s \ {c[s]}] => k[s] \in V[s]
  BY <1>1, <1>2
<1>5. \A s \in SUBSET (1..n) : k[s] \in V[s]
  BY <1>1, <1>3, <1>4, FoldStays
<1> QED
  BY <1>2, <1>5

-----------------------------------------------------------------------------
(* The cell and the product of a row.                                         *)

\* A cell is an integer.
LEMMA CellIsInt ==
  ASSUME call \in Calls, NEW t \in TermIds, NEW i \in Obs
  PROVE  Cell(t, i) \in Int
<1> DEFINE P == Parts(t)
           n == Len(P)
           a == [x \in 1..n |-> call.factors[P[x].factor][i]]
           F == [q \in (1..n) \X Int |-> (q[2] * RowCount) + a[q[1]]]
           k == CHOOSE g : CellSteps(g, t, i)
<1>1. n \in Nat /\ DOMAIN P = 1..n /\ RowCount \in Int /\ \A x \in 1..n : P[x].factor \in DOMAIN call.factors
  <2>1. Steps(P) /\ RowCount \in Int /\ \A x \in DOMAIN P : P[x].factor \in DOMAIN call.factors
    BY RegressorFacts
  <2> QED
    BY <2>1 DEF Steps
<1>2. \A x \in 1..n : a[x] \in Int
  BY <1>1, RegressorFacts
<1>3. \A x \in 1..n : \A v \in Int : F[<<x, v>>] = (v * RowCount) + a[x] /\ F[<<x, v>>] \in Int
  <2> HIDE DEF a, n
  <2> QED
    BY <1>1, <1>2
<1> HIDE DEF F
<1>4. PICK g : Unrolls(g, 1..n, Lasts(n), 0, F) /\ \A s \in SUBSET (1..n) : g[s] \in Int
  <2> HIDE DEF n, a
  <2>1. 0 \in Int /\ \A x \in 1..n : \A v \in Int : F[<<x, v>>] \in Int
    BY <1>3
  <2> QED
    BY <1>1, <2>1, IntegerFold, Zenon
<1>5. CellSteps(g, t, i)
  <2>1. ASSUME NEW s \in SUBSET (1..n), s # {}
        PROVE  F[<<Max(s), g[s \ {Max(s)}]>>] = (g[s \ {Max(s)}] * RowCount) + call.factors[P[Max(s)].factor][i]
    <3>1. Max(s) \in 1..n /\ g[s \ {Max(s)}] \in Int
      BY <1>1, <1>4, <2>1, LastOf
    <3> QED
      BY <1>3, <3>1
  <2>2. g = [s \in SUBSET (1..n) |-> IF s = {} THEN 0 ELSE F[<<Max(s), g[s \ {Max(s)}]>>]]
    <3> HIDE DEF n
    <3> QED
      BY <1>4 DEF Unrolls, Lasts
  <2>3. g = [s \in SUBSET (1..n) |-> IF s = {} THEN 0
               ELSE (g[s \ {Max(s)}] * RowCount) + call.factors[P[Max(s)].factor][i]]
    BY <2>1, <2>2
  <2> QED
    BY <1>1, <2>3 DEF CellSteps
<1>6. CellSteps(k, t, i)
  BY <1>5
<1> HIDE DEF k
<1>7. k[1..n] \in Int
  <2>1. \A s \in SUBSET (1..n) : k[s] = IF s = {} THEN 0
               ELSE (k[s \ {Max(s)}] * RowCount) + call.factors[P[Max(s)].factor][i]
    BY <1>1, <1>6 DEF CellSteps
  <2>2. k[{}] = 0
    BY <2>1
  <2>3. ASSUME NEW s \in SUBSET (1..n), s # {}, k[s \ {Max(s)}] \in Int PROVE k[s] \in Int
    <3>1. Max(s) \in 1..n
      BY <1>1, <2>3, LastOf
    <3>2. call.factors[P[Max(s)].factor][i] \in Int
      BY <1>2, <3>1
    <3> HIDE DEF P
    <3> QED
      BY <1>1, <2>1, <2>3, <3>2
  <2>4. k[{}] \in Int /\ \A s \in SUBSET (1..n) : s # {} /\ k[s \ {Max(s)}] \in Int => k[s] \in Int
    BY <2>2, <2>3
  <2> HIDE DEF n
  <2> QED
    BY <1>1, <2>4, IntegerFoldStays, Zenon
<1> QED
  BY <1>1, <1>7, CellFold DEF k

\* So is the product of continuous columns.
LEMMA MonomialIsInt ==
  ASSUME call \in Calls, NEW t \in TermIds, NEW i \in Obs
  PROVE  Monomial(t, i) \in Int
<1> DEFINE m == call.terms[t].monomial
           n == Len(m)
           a == [x \in 1..n |-> call.continuous[m[x]][i]]
           F == [q \in (1..n) \X Int |-> q[2] * a[q[1]]]
           k == CHOOSE g : ProductSteps(g, m, i)
<1>1. n \in Nat /\ DOMAIN m = 1..n /\ \A x \in 1..n : m[x] \in DOMAIN call.continuous
  <2>1. Steps(m) /\ \A x \in DOMAIN m : m[x] \in DOMAIN call.continuous
    BY RegressorFacts
  <2> QED
    BY <2>1 DEF Steps
<1>2. \A x \in 1..n : a[x] \in Int
  BY <1>1, RegressorFacts
<1>3. \A x \in 1..n : \A v \in Int : F[<<x, v>>] = v * a[x] /\ F[<<x, v>>] \in Int
  <2> HIDE DEF a, n
  <2> QED
    BY <1>1, <1>2
<1> HIDE DEF F
<1>4. PICK g : Unrolls(g, 1..n, Lasts(n), 1, F) /\ \A s \in SUBSET (1..n) : g[s] \in Int
  <2> HIDE DEF n, a
  <2>1. 1 \in Int /\ \A x \in 1..n : \A v \in Int : F[<<x, v>>] \in Int
    BY <1>3
  <2> QED
    BY <1>1, <2>1, IntegerFold, Zenon
<1>5. ProductSteps(g, m, i)
  <2>1. ASSUME NEW s \in SUBSET (1..n), s # {}
        PROVE  F[<<Max(s), g[s \ {Max(s)}]>>] = g[s \ {Max(s)}] * call.continuous[m[Max(s)]][i]
    <3>1. Max(s) \in 1..n /\ g[s \ {Max(s)}] \in Int
      BY <1>1, <1>4, <2>1, LastOf
    <3> QED
      BY <1>3, <3>1
  <2>2. g = [s \in SUBSET (1..n) |-> IF s = {} THEN 1 ELSE F[<<Max(s), g[s \ {Max(s)}]>>]]
    <3> HIDE DEF n
    <3> QED
      BY <1>4 DEF Unrolls, Lasts
  <2>3. g = [s \in SUBSET (1..n) |-> IF s = {} THEN 1
               ELSE g[s \ {Max(s)}] * call.continuous[m[Max(s)]][i]]
    BY <2>1, <2>2
  <2> QED
    BY <1>1, <2>3 DEF ProductSteps
<1>6. ProductSteps(k, m, i)
  BY <1>5
<1> HIDE DEF k
<1>7. k[1..n] \in Int
  <2>1. \A s \in SUBSET (1..n) : k[s] = IF s = {} THEN 1
               ELSE k[s \ {Max(s)}] * call.continuous[m[Max(s)]][i]
    BY <1>1, <1>6 DEF ProductSteps
  <2>2. k[{}] = 1
    BY <2>1
  <2>3. ASSUME NEW s \in SUBSET (1..n), s # {}, k[s \ {Max(s)}] \in Int PROVE k[s] \in Int
    <3>1. Max(s) \in 1..n
      BY <1>1, <2>3, LastOf
    <3>2. call.continuous[m[Max(s)]][i] \in Int
      BY <1>2, <3>1
    <3>3. k[s] = k[s \ {Max(s)}] * call.continuous[m[Max(s)]][i]
      BY <2>1, <2>3
    <3>4. \A v, w \in Int : v * w \in Int
      OBVIOUS
    <3> HIDE DEF m
    <3> QED
      BY <2>3, <3>2, <3>3, <3>4, Zenon
  <2>4. k[{}] \in Int /\ \A s \in SUBSET (1..n) : s # {} /\ k[s \ {Max(s)}] \in Int => k[s] \in Int
    BY <2>2, <2>3
  <2> HIDE DEF n
  <2> QED
    BY <1>1, <2>4, IntegerFoldStays, Zenon
<1> QED
  BY <1>1, <1>7, ProductFold DEF k

-----------------------------------------------------------------------------
(* The parts a union-find makes of a set of rows.                             *)

\* Parts of E, none empty, no two overlapping, that make up E.
Parted(p, E) ==
  /\ UNION p = E /\ {} \notin p
  /\ \A P, Q \in p : P # Q => P \cap Q = {}

\* A new row joins the parts it is near to.
Joined(parts, hit, e) == (parts \ hit) \cup {{e} \cup UNION hit}

\* Joining a row to the parts it is near to leaves a partition.
LEMMA JoinedIsParted ==
  ASSUME NEW s, NEW e \in s, NEW parts, Parted(parts, s \ {e}), NEW hit \in SUBSET parts
  PROVE  Parted(Joined(parts, hit, e), s)
<1>1. UNION Joined(parts, hit, e) = s
  <2>1. UNION parts = s \ {e}
    BY DEF Parted
  <2>2. \A P \in parts : P \subseteq s
    BY <2>1
  <2>3. \A x \in s : x = e \/ \E P \in parts : x \in P
    BY <2>1
  <2>4. \A x \in s : \E P \in Joined(parts, hit, e) : x \in P
    BY <2>3 DEF Joined
  <2>5. \A P \in Joined(parts, hit, e) : P \subseteq s
    BY <2>2 DEF Joined
  <2> QED
    BY <2>4, <2>5
<1>2. {} \notin Joined(parts, hit, e)
  BY DEF Parted, Joined
<1>3. ASSUME NEW P \in Joined(parts, hit, e), NEW Q \in Joined(parts, hit, e), P # Q, NEW x \in P, x \in Q
      PROVE  FALSE
  <2>1. \A S \in parts : e \notin S
    BY DEF Parted
  <2>2. \A S, T \in parts : S # T => S \cap T = {}
    BY DEF Parted
  <2>3. CASE P \in parts \ hit /\ Q \in parts \ hit
    BY <1>3, <2>2, <2>3
  <2>4. CASE P \in parts \ hit /\ Q = {e} \cup UNION hit
    <3>1. \E T \in hit : x \in T
      BY <1>3, <2>1, <2>4
    <3> QED
      BY <1>3, <2>2, <2>4, <3>1
  <2>5. CASE Q \in parts \ hit /\ P = {e} \cup UNION hit
    <3>1. \E T \in hit : x \in T
      BY <1>3, <2>1, <2>5
    <3> QED
      BY <1>3, <2>2, <2>5, <3>1
  <2> QED
    BY <1>3, <2>3, <2>4, <2>5 DEF Joined
<1> QED
  BY <1>1, <1>2, <1>3 DEF Parted

\* The partitions of every part of E, and the row taken out of it.
Partings(E) == [s \in SUBSET E |-> {p \in SUBSET SUBSET s : Parted(p, s)}]
Picks(E) == [s \in SUBSET E |-> CHOOSE x \in s : TRUE]
\* The step of the union-find: R says which rows are near.
JoinNear(R, E) == [q \in E \X SUBSET SUBSET E |->
                  Joined(q[2], {P \in q[2] : \E f \in P : <<q[1], f>> \in R}, q[1])]

\* A union-find takes any row that is left.
LEMMA PicksFacts ==
  ASSUME NEW E
  PROVE  \A s \in SUBSET E : Picks(E)[s] = (CHOOSE x \in s : TRUE) /\ (s # {} => Picks(E)[s] \in s)
BY DEF Picks

\* The partitions of every part of E.
LEMMA PartingsFacts ==
  ASSUME NEW E
  PROVE  /\ {} \in Partings(E)[{}]
         /\ \A s \in SUBSET E : \A p \in SUBSET SUBSET s : p \in Partings(E)[s] <=> Parted(p, s)
         /\ \A s \in SUBSET E : Partings(E)[s] \subseteq SUBSET SUBSET s
         /\ \A s \in SUBSET E : \A p : Parted(p, s) => p \in SUBSET SUBSET s
BY DEF Partings, Parted

\* A union-find ends, with a partition, for any nearness.
LEMMA ClassesExist ==
  ASSUME NEW E, IsFiniteSet(E), NEW R
  PROVE  \E g : Unrolls(g, E, Picks(E), {}, JoinNear(R, E)) /\ \A s \in SUBSET E : Parted(g[s], s)
<1> DEFINE c == Picks(E)
           V == Partings(E)
           F == JoinNear(R, E)
<1>1. \A s \in SUBSET E : s # {} => c[s] \in s
  BY PicksFacts
<1>2. /\ {} \in V[{}]
      /\ \A s \in SUBSET E : \A p \in SUBSET SUBSET s : p \in V[s] <=> Parted(p, s)
      /\ \A s \in SUBSET E : V[s] \subseteq SUBSET SUBSET s
      /\ \A s \in SUBSET E : \A p : Parted(p, s) => p \in SUBSET SUBSET s
  BY PartingsFacts
<1>3. ASSUME NEW e \in E, NEW p \in SUBSET SUBSET E
      PROVE  \E hit \in SUBSET p : F[<<e, p>>] = Joined(p, hit, e)
  BY DEF JoinNear
<1> HIDE DEF c, V, F
<1>4. \A s \in SUBSET E : s # {} => \A v \in V[s \ {c[s]}] : F[<<c[s], v>>] \in V[s]
  <2> SUFFICES ASSUME NEW s \in SUBSET E, s # {}, NEW v \in V[s \ {c[s]}] PROVE F[<<c[s], v>>] \in V[s]
    OBVIOUS
  <2> PICK e : e = c[s]
    OBVIOUS
  <2>1. e \in s /\ e \in E /\ s \ {e} \in SUBSET E
    BY <1>1
  <2>2. v \in SUBSET SUBSET (s \ {e}) /\ Parted(v, s \ {e}) /\ v \in SUBSET SUBSET E
    BY <1>2, <2>1
  <2>3. PICK hit \in SUBSET v : F[<<e, v>>] = Joined(v, hit, e)
    BY <1>3, <2>1, <2>2
  <2>4. Parted(F[<<e, v>>], s)
    BY <2>1, <2>2, <2>3, JoinedIsParted
  <2> QED
    BY <1>2, <2>4
<1>5. PICK g : Unrolls(g, E, c, {}, F) /\ \A s \in SUBSET E : g[s] \in V[s]
  <2>1. {} \in V[{}]
    BY <1>2
  <2> QED
    BY <1>1, <1>4, <2>1, FoldExists
<1>6. \A s \in SUBSET E : Parted(g[s], s)
  BY <1>2, <1>5
<1> QED
  BY <1>5, <1>6 DEF c, F

\* Whatever takes such steps gives a partition.
LEMMA ClassesStay ==
  ASSUME NEW E, IsFiniteSet(E), NEW k, k[{}] = {},
         \A s \in SUBSET E : s # {} =>
           \E hit \in SUBSET k[s \ {Picks(E)[s]}] :
             k[s] = Joined(k[s \ {Picks(E)[s]}], hit, Picks(E)[s])
  PROVE  Parted(k[E], E)
<1> DEFINE c == Picks(E)
           V == Partings(E)
<1>1. \A s \in SUBSET E : s # {} => c[s] \in s
  BY PicksFacts
<1>2. /\ {} \in V[{}]
      /\ \A s \in SUBSET E : \A p \in SUBSET SUBSET s : p \in V[s] <=> Parted(p, s)
      /\ \A s \in SUBSET E : V[s] \subseteq SUBSET SUBSET s
      /\ \A s \in SUBSET E : \A p : Parted(p, s) => p \in SUBSET SUBSET s
  BY PartingsFacts
<1>3. \A s \in SUBSET E : s # {} =>
        \E hit \in SUBSET k[s \ {c[s]}] : k[s] = Joined(k[s \ {c[s]}], hit, c[s])
  OBVIOUS
<1> HIDE DEF c, V
<1>4. \A s \in SUBSET E : s # {} /\ k[s \ {c[s]}] \in V[s \ {c[s]}] => k[s] \in V[s]
  <2> SUFFICES ASSUME NEW s \in SUBSET E, s # {}, k[s \ {c[s]}] \in V[s \ {c[s]}] PROVE k[s] \in V[s]
    OBVIOUS
  <2> PICK e : e = c[s]
    OBVIOUS
  <2>1. e \in s /\ s \ {e} \in SUBSET E
    BY <1>1
  <2>2. Parted(k[s \ {e}], s \ {e})
    BY <1>2, <2>1
  <2>3. PICK hit \in SUBSET k[s \ {e}] : k[s] = Joined(k[s \ {e}], hit, e)
    BY <1>3
  <2>4. Parted(Joined(k[s \ {e}], hit, e), s)
    BY <2>1, <2>2, JoinedIsParted, Zenon
  <2>5. Parted(k[s], s)
    BY <2>3, <2>4, Zenon
  <2> QED
    BY <1>2, <2>5
<1>5. k[{}] \in V[{}]
  BY <1>2
<1>6. \A s \in SUBSET E : k[s] \in V[s]
  BY <1>1, <1>4, <1>5, FoldStays
<1>7. k[E] \in V[E] /\ E \in SUBSET E
  BY <1>6
<1> QED
  BY <1>2, <1>7

-----------------------------------------------------------------------------
(* The blocks of rows: by absorbed level, and by support.                     *)

\* The row a union-find takes next, and the parts it joins by R.
Taken(s) == CHOOSE x \in s : TRUE
HitBy(R, e, p) == {P \in p : \E f \in P : <<e, f>> \in R}

\* So it does for the rows it takes in the order CHOOSE gives.
LEMMA NearSolved ==
  ASSUME NEW E, IsFiniteSet(E), NEW R
  PROVE  \E g : /\ g = [s \in SUBSET E |-> g[s]] /\ g[{}] = {}
                /\ \A s \in SUBSET E : Parted(g[s], s)
                /\ \A s \in SUBSET E : s # {} =>
                     g[s] = Joined(g[s \ {Taken(s)}], HitBy(R, Taken(s), g[s \ {Taken(s)}]), Taken(s))
<1> DEFINE c == Picks(E)
           F == JoinNear(R, E)
<1>1. PICK g : Unrolls(g, E, c, {}, F) /\ \A s \in SUBSET E : Parted(g[s], s)
  BY ClassesExist
<1>2. \A s \in SUBSET E : c[s] = Taken(s) /\ (s # {} => c[s] \in s)
  BY PicksFacts DEF Taken
<1>3. \A e \in E : \A p \in SUBSET SUBSET E : F[<<e, p>>] = Joined(p, HitBy(R, e, p), e)
  BY DEF JoinNear, HitBy
<1> HIDE DEF c, F
<1>4. g = [s \in SUBSET E |-> IF s = {} THEN {} ELSE F[<<c[s], g[s \ {c[s]}]>>]]
  BY <1>1 DEF Unrolls
<1>5. g = [s \in SUBSET E |-> g[s]] /\ g[{}] = {}
  BY <1>4
<1>6. ASSUME NEW s \in SUBSET E, s # {}
      PROVE  g[s] = Joined(g[s \ {Taken(s)}], HitBy(R, Taken(s), g[s \ {Taken(s)}]), Taken(s))
  <2> PICK e : e = Taken(s)
    OBVIOUS
  <2>1. e = c[s] /\ e \in E /\ s \ {e} \in SUBSET E
    BY <1>2, <1>6
  <2>2. g[s] = F[<<e, g[s \ {e}]>>]
    BY <1>4, <1>6, <2>1
  <2>3. UNION g[s \ {e}] \subseteq E
    BY <1>1, <2>1 DEF Parted
  <2>4. g[s \ {e}] \in SUBSET SUBSET E
    BY <2>3
  <2> QED
    BY <1>3, <2>1, <2>2, <2>4
<1> QED
  BY <1>1, <1>5, <1>6

\* The parts a row joins by a common level; g solves that union-find.
ShareHit(e, p) == {P \in p : \E f \in P : ShareFE(e, f)}
ShareSteps(g) ==
  g = [s \in SUBSET Obs |->
         IF s = {} THEN {}
         ELSE Joined(g[s \ {Taken(s)}], ShareHit(Taken(s), g[s \ {Taken(s)}]), Taken(s))]

\* Rows joined by a common absorbed level, as a fold.
LEMMA ShareFold == Classes(Obs, ShareFE) = (CHOOSE g : ShareSteps(g))[Obs]
BY DEF Classes, FoldSet, MapThenFoldSet, ShareSteps, Joined, ShareHit, Taken

\* They make a partition of the rows.
LEMMA ShareParted ==
  ASSUME IsFiniteSet(Obs)
  PROVE  Parted(Classes(Obs, ShareFE), Obs)
<1> DEFINE R == {q \in Obs \X Obs : ShareFE(q[1], q[2])}
           k == CHOOSE g : ShareSteps(g)
<1>1. PICK g : /\ g = [s \in SUBSET Obs |-> g[s]] /\ g[{}] = {}
               /\ \A s \in SUBSET Obs : Parted(g[s], s)
               /\ \A s \in SUBSET Obs : s # {} =>
                    g[s] = Joined(g[s \ {Taken(s)}], HitBy(R, Taken(s), g[s \ {Taken(s)}]), Taken(s))
  <2> HIDE DEF R
  <2> QED
    BY NearSolved
<1>2. \A e, f \in Obs : <<e, f>> \in R <=> ShareFE(e, f)
  OBVIOUS
<1> HIDE DEF R
<1>3. ASSUME NEW s \in SUBSET Obs, s # {}
      PROVE  g[s] = Joined(g[s \ {Taken(s)}], ShareHit(Taken(s), g[s \ {Taken(s)}]), Taken(s))
  <2> PICK e : e = Taken(s)
    OBVIOUS
  <2>1. e \in s /\ s \ {e} \in SUBSET Obs
    BY <1>3 DEF Taken
  <2>2. UNION g[s \ {e}] = s \ {e}
    BY <1>1, <2>1 DEF Parted
  <2>3. HitBy(R, e, g[s \ {e}]) = ShareHit(e, g[s \ {e}])
    <3>1. \A P \in g[s \ {e}] : P \subseteq Obs
      BY <2>1, <2>2
    <3> QED
      BY <1>2, <2>1, <3>1 DEF HitBy, ShareHit
  <2> QED
    BY <1>1, <1>3, <2>3
<1>4. ShareSteps(g)
  BY <1>1, <1>3 DEF ShareSteps
<1>5. ShareSteps(k)
  BY <1>4
<1> HIDE DEF k
<1>6. k[{}] = {}
  BY <1>5 DEF ShareSteps
<1>7. ASSUME NEW s \in SUBSET Obs, s # {}
      PROVE  \E hit \in SUBSET k[s \ {Picks(Obs)[s]}] :
               k[s] = Joined(k[s \ {Picks(Obs)[s]}], hit, Picks(Obs)[s])
  <2>1. Taken(s) = Picks(Obs)[s]
    BY PicksFacts DEF Taken
  <2>2. k[s] = Joined(k[s \ {Taken(s)}], ShareHit(Taken(s), k[s \ {Taken(s)}]), Taken(s))
    BY <1>5, <1>7 DEF ShareSteps
  <2>3. ShareHit(Taken(s), k[s \ {Taken(s)}]) \in SUBSET k[s \ {Taken(s)}]
    BY DEF ShareHit
  <2> QED
    BY <2>1, <2>2, <2>3
<1>8. Parted(k[Obs], Obs)
  BY <1>6, <1>7, ClassesStay
<1> QED
  BY <1>8, ShareFold DEF k

\* Rows joint blocks keep together, and the rows they hold.
Close(r, i, k) == ShareFE(i, k) \/ \E s \in Support(r) : {i, k} \subseteq s
Reached(r) == IF call.groups = <<>> THEN UNION Support(r) ELSE Obs
CloseHit(r, e, p) == {P \in p : \E f \in P : Close(r, e, f)}
CloseSteps(r, g) ==
  g = [s \in SUBSET Reached(r) |->
         IF s = {} THEN {}
         ELSE Joined(g[s \ {Taken(s)}], CloseHit(r, Taken(s), g[s \ {Taken(s)}]), Taken(s))]

\* Rows joined by a common absorbed level or the support of a term, as a fold.
LEMMA JointFold ==
  ASSUME NEW r
  PROVE  JointBlocks(r) = (CHOOSE g : CloseSteps(r, g))[Reached(r)]
BY DEF JointBlocks, Close, Reached, Classes, FoldSet, MapThenFoldSet, CloseSteps, Joined, CloseHit, Taken

\* They make a partition of the rows reached.
LEMMA JointParted ==
  ASSUME NEW r, IsFiniteSet(Reached(r))
  PROVE  Parted(JointBlocks(r), Reached(r))
<1> DEFINE R == {q \in Reached(r) \X Reached(r) : Close(r, q[1], q[2])}
           k == CHOOSE g : CloseSteps(r, g)
<1>1. PICK g : /\ g = [s \in SUBSET Reached(r) |-> g[s]] /\ g[{}] = {}
               /\ \A s \in SUBSET Reached(r) : Parted(g[s], s)
               /\ \A s \in SUBSET Reached(r) : s # {} =>
                    g[s] = Joined(g[s \ {Taken(s)}], HitBy(R, Taken(s), g[s \ {Taken(s)}]), Taken(s))
  <2> HIDE DEF R
  <2> QED
    BY NearSolved
<1>2. \A e, f \in Reached(r) : <<e, f>> \in R <=> Close(r, e, f)
  OBVIOUS
<1> HIDE DEF R
<1>3. ASSUME NEW s \in SUBSET Reached(r), s # {}
      PROVE  g[s] = Joined(g[s \ {Taken(s)}], CloseHit(r, Taken(s), g[s \ {Taken(s)}]), Taken(s))
  <2> PICK e : e = Taken(s)
    OBVIOUS
  <2>1. e \in s /\ s \ {e} \in SUBSET Reached(r)
    BY <1>3 DEF Taken
  <2>2. UNION g[s \ {e}] = s \ {e}
    BY <1>1, <2>1 DEF Parted
  <2>3. HitBy(R, e, g[s \ {e}]) = CloseHit(r, e, g[s \ {e}])
    <3>1. \A P \in g[s \ {e}] : P \subseteq Reached(r)
      BY <2>1, <2>2
    <3> QED
      BY <1>2, <2>1, <3>1 DEF HitBy, CloseHit
  <2> QED
    BY <1>1, <1>3, <2>3
<1>4. CloseSteps(r, g)
  BY <1>1, <1>3 DEF CloseSteps
<1>5. CloseSteps(r, k)
  BY <1>4
<1> HIDE DEF k
<1>6. k[{}] = {}
  BY <1>5 DEF CloseSteps
<1>7. ASSUME NEW s \in SUBSET Reached(r), s # {}
      PROVE  \E hit \in SUBSET k[s \ {Picks(Reached(r))[s]}] :
               k[s] = Joined(k[s \ {Picks(Reached(r))[s]}], hit, Picks(Reached(r))[s])
  <2>1. Taken(s) = Picks(Reached(r))[s]
    BY PicksFacts DEF Taken
  <2>2. k[s] = Joined(k[s \ {Taken(s)}], CloseHit(r, Taken(s), k[s \ {Taken(s)}]), Taken(s))
    BY <1>5, <1>7 DEF CloseSteps
  <2>3. CloseHit(r, Taken(s), k[s \ {Taken(s)}]) \in SUBSET k[s \ {Taken(s)}]
    BY DEF CloseHit
  <2> QED
    BY <2>1, <2>2, <2>3
<1>8. Parted(k[Reached(r)], Reached(r))
  BY <1>6, <1>7, ClassesStay
<1> QED
  BY <1>8, JointFold DEF k

-----------------------------------------------------------------------------
(* A sum over a set, part by part.                                            *)

\* The sum over a part.
LEMMA SumOfPart ==
  ASSUME NEW D, IsFiniteSet(D), NEW F, NEW h, AddsUp(h, F, D),
         NEW s \in SUBSET D, NEW f, \A x \in s : f[x] = F[x]
  PROVE  SumFunctionOnSet(f, s) = h[s]
<1> DEFINE k == [t \in SUBSET s |-> h[t]]
<1>1. AddsUp(k, f, s)
  <2>1. k \in [SUBSET s -> Int] /\ k[{}] = 0
    BY DEF AddsUp
  <2>2. ASSUME NEW t \in SUBSET s, NEW x \in t PROVE k[t] = f[x] + k[t \ {x}]
    <3>1. t \in SUBSET D /\ t \ {x} \in SUBSET s /\ x \in s
      OBVIOUS
    <3>2. h[t] = F[x] + h[t \ {x}]
      BY <3>1 DEF AddsUp
    <3> QED
      BY <3>1, <3>2
  <2> QED
    BY <2>1, <2>2 DEF AddsUp
<1>2. IsFiniteSet(s)
  BY FS_Subset
<1>3. k[s] = h[s]
  OBVIOUS
<1> HIDE DEF k
<1> QED
  BY <1>1, <1>2, <1>3, SumIs

\* Sums over parts that do not meet.
LEMMA SumOfTwo ==
  ASSUME NEW D, IsFiniteSet(D), NEW F, \A x \in D : F[x] \in Int, NEW h, AddsUp(h, F, D)
  PROVE  \A s, t \in SUBSET D : s \cap t = {} => h[s \cup t] = h[s] + h[t]
<1> SUFFICES ASSUME NEW s \in SUBSET D
             PROVE  \A t \in SUBSET D : s \cap t = {} => h[s \cup t] = h[s] + h[t]
  OBVIOUS
<1> DEFINE c == [t \in SUBSET D |-> CHOOSE x \in t : TRUE]
           V == [t \in SUBSET D |-> {v \in Int : s \cap t = {} => h[s \cup t] = h[s] + v}]
<1>1. \A t \in SUBSET D : t # {} => c[t] \in t
  OBVIOUS
<1>2. \A t \in SUBSET D : \A v \in Int : v \in V[t] <=> (s \cap t = {} => h[s \cup t] = h[s] + v)
  OBVIOUS
<1>3. \A t \in SUBSET D : h[t] \in Int /\ \A x \in t : h[t] = F[x] + h[t \ {x}]
  BY DEF AddsUp
<1>4. h[{}] = 0
  BY DEF AddsUp
<1> HIDE DEF c, V
<1>5. h[{}] \in V[{}]
  <2>1. {} \in SUBSET D /\ s \cup {} = s /\ h[s] \in Int /\ 0 \in Int
    BY <1>3
  <2>2. h[s \cup {}] = h[s] + 0
    BY <2>1
  <2> QED
    BY <1>2, <1>4, <2>1, <2>2, Zenon
<1>6. ASSUME NEW t \in SUBSET D, t # {}, h[t \ {c[t]}] \in V[t \ {c[t]}] PROVE h[t] \in V[t]
  <2> PICK x : x = c[t]
    OBVIOUS
  <2>1. x \in t /\ t \ {x} \in SUBSET D
    BY <1>1, <1>6
  <2>2. h[t \ {x}] \in Int /\ h[t] \in Int /\ h[s] \in Int /\ F[x] \in Int
    BY <1>3, <2>1
  <2>3. ASSUME s \cap t = {} PROVE h[s \cup t] = h[s] + h[t]
    <3>1. h[s \cup (t \ {x})] = h[s] + h[t \ {x}]
      <4>1. s \cap (t \ {x}) = {}
        BY <2>3
      <4>2. h[t \ {x}] \in V[t \ {x}]
        BY <1>6, Zenon
      <4> QED
        BY <1>2, <2>1, <2>2, <4>1, <4>2, Zenon
    <3>2. (s \cup t) \ {x} = s \cup (t \ {x}) /\ s \cup t \in SUBSET D /\ x \in s \cup t
      BY <2>1, <2>3
    <3>3. h[s \cup t] = F[x] + h[s \cup (t \ {x})]
      <4>1. h[s \cup t] = F[x] + h[(s \cup t) \ {x}]
        BY <1>3, <3>2, Zenon
      <4> QED
        BY <3>2, <4>1, Zenon
    <3>4. h[t] = F[x] + h[t \ {x}]
      BY <1>3, <2>1
    <3> QED
      BY <2>2, <3>1, <3>3, <3>4
  <2> QED
    BY <1>2, <2>2, <2>3
<1>7. \A t \in SUBSET D : h[t] \in V[t]
  BY <1>1, <1>5, <1>6, FoldStays
<1> QED
  BY <1>2, <1>3, <1>7

\* Nothing adds up to nothing.
LEMMA SumOfZeros ==
  ASSUME NEW D, IsFiniteSet(D), NEW F, NEW h, AddsUp(h, F, D),
         NEW s \in SUBSET D, \A x \in s : F[x] = 0
  PROVE  h[s] = 0
<1>1. IsFiniteSet(s)
  BY FS_Subset
<1>2. SumFunctionOnSet(F, s) = 0
  BY <1>1, SumOfNone
<1>3. SumFunctionOnSet(F, s) = h[s]
  BY SumOfPart
<1> QED
  BY <1>2, <1>3

\* w has the sums of F over parts of D that do not meet; elsewhere F is zero.
TakenApart(D, F, h, T, rows, w) ==
  /\ IsFiniteSet(D) /\ IsFiniteSet(T) /\ \A x \in D : F[x] \in Int
  /\ AddsUp(h, F, D)
  /\ \A p \in T : rows[p] \in SUBSET D /\ w[p] = h[rows[p]]
  /\ \A p, q \in T : p # q => rows[p] \cap rows[q] = {}
  /\ \A x \in D : (\A p \in T : x \notin rows[p]) => F[x] = 0

\* A sum taken part by part.
LEMMA SumByParts ==
  ASSUME NEW D, NEW F, NEW h, NEW T, NEW rows, NEW w, TakenApart(D, F, h, T, rows, w)
  PROVE  SumFunctionOnSet(w, T) = h[D]
<1> DEFINE All(S) == UNION {rows[p] : p \in S}
           k == [S \in SUBSET T |-> h[All(S)]]
<1> USE DEF TakenApart
<1>0. \A s, t \in SUBSET D : s \cap t = {} => h[s \cup t] = h[s] + h[t]
  BY SumOfTwo
<1>1. \A S \in SUBSET T : All(S) \in SUBSET D
  OBVIOUS
<1>2. All({}) = {}
  OBVIOUS
<1>3. ASSUME NEW S \in SUBSET T, NEW p \in S
      PROVE  All(S) = rows[p] \cup All(S \ {p}) /\ rows[p] \cap All(S \ {p}) = {}
  OBVIOUS
<1>4. All(T) \cap (D \ All(T)) = {} /\ All(T) \cup (D \ All(T)) = D
  BY <1>1
<1>5. \A x \in D \ All(T) : F[x] = 0
  OBVIOUS
<1>6. \A t \in SUBSET D : h[t] \in Int
  BY DEF AddsUp
<1> HIDE DEF All
<1>7. ASSUME NEW S \in SUBSET T, NEW p \in S PROVE k[S] = w[p] + k[S \ {p}]
  <2>1. S \ {p} \in SUBSET T /\ p \in T /\ rows[p] \in SUBSET D
    OBVIOUS
  <2>2. h[rows[p] \cup All(S \ {p})] = h[rows[p]] + h[All(S \ {p})]
    <3>1. All(S \ {p}) \in SUBSET D
      BY <1>1, <2>1
    <3>2. rows[p] \cap All(S \ {p}) = {}
      BY <1>3, Zenon
    <3> QED
      BY <1>0, <2>1, <3>1, <3>2, Zenon
  <2> QED
    BY <1>3, <2>1, <2>2
<1>8. AddsUp(k, w, T)
  <2>1. k \in [SUBSET T -> Int]
    BY <1>1, <1>6
  <2>2. k[{}] = 0
    BY <1>2 DEF AddsUp
  <2> QED
    BY <1>7, <2>1, <2>2 DEF AddsUp
<1>9. k[T] = h[All(T)]
  OBVIOUS
<1> HIDE DEF k
<1>10. SumFunctionOnSet(w, T) = h[All(T)]
  BY <1>8, <1>9, SumIs
<1>11. h[D] = h[All(T)] + h[D \ All(T)]
  <2>1. All(T) \in SUBSET D /\ D \ All(T) \in SUBSET D
    BY <1>1
  <2>2. h[All(T) \cup (D \ All(T))] = h[All(T)] + h[D \ All(T)]
    BY <1>0, <1>4, <2>1, Zenon
  <2> QED
    BY <1>4, <2>2
<1>12. h[D \ All(T)] = 0
  <2>1. D \ All(T) \in SUBSET D
    OBVIOUS
  <2> QED
    BY <1>5, <2>1, SumOfZeros
<1> QED
  BY <1>1, <1>6, <1>10, <1>11, <1>12

-----------------------------------------------------------------------------
(* What is left of a request for columns after the ranks.                     *)

\* The columns of a role in output order: each position holds one of them.
LEMMA ListedHolds ==
  ASSUME NEW cols \in SUBSET (Nat \X Int), IsFiniteSet(cols)
  PROVE  /\ Cardinality(cols) \in Nat /\ DOMAIN Listed(cols) = 1..Cardinality(cols)
         /\ \A k \in 1..Cardinality(cols) : Listed(cols)[k] \in cols
<1> DEFINE R == {q \in cols \X cols : Before(q[1], q[2])}
           n == Cardinality(cols)
<1>1. \A a, b \in cols : <<a, b>> \in R <=> Before(a, b)
  OBVIOUS
<1>2. \A a \in cols : a = <<a[1], a[2]>> /\ a[1] \in Nat /\ a[2] \in Int
  OBVIOUS
<1> HIDE DEF R
<1>3. StrictTotal(cols, R)
  <2>1. \A a \in cols : ~Before(a, a)
    BY <1>2 DEF Before
  <2>2. \A a, b, c \in cols : Before(a, b) /\ Before(b, c) => Before(a, c)
    BY <1>2 DEF Before
  <2>3. \A a, b \in cols : a # b => Before(a, b) \/ Before(b, a)
    BY <1>2 DEF Before
  <2> QED
    BY <1>1, <2>1, <2>2, <2>3 DEF StrictTotal
<1>4. Numbered(cols, R)
  BY <1>3, OrderNumbers
<1>5. \A x \in cols : Place(cols, R, x) = Cardinality({y \in cols : Before(y, x)})
  <2> TAKE x \in cols
  <2>1. {y \in cols : <<y, x>> \in R} = {y \in cols : Before(y, x)}
    BY <1>1
  <2> QED
    BY <2>1 DEF Place
<1>6. n \in Nat
  BY FS_CardinalityType
<1>7. Listed(cols) = [k \in 1..n |-> CHOOSE x \in cols : Cardinality({y \in cols : Before(y, x)}) = k - 1]
  BY DEF Listed, Sorted
<1>8. ASSUME NEW k \in 1..n PROVE \E x \in cols : Cardinality({y \in cols : Before(y, x)}) = k - 1
  <2>1. k - 1 \in 0..(n - 1)
    BY <1>6
  <2>2. \E x \in cols : Place(cols, R, x) = k - 1
    BY <1>4, <2>1 DEF Numbered
  <2> QED
    BY <1>5, <2>2
<1> QED
  BY <1>6, <1>7, <1>8

\* A step of resolve_collinearity.
KeptAfter(held, col, cols, protected) ==
  LET x == ColumnOf(col[1], col[2])
      original == Values({p \in cols : Before(p, col)})
  IN IF Adds(Dummies, x) /\ Adds(original, x)
        /\ Adds(Dummies \cup Values(protected) \cup Values(held), x)
     THEN held \cup {col} ELSE held
ResolveSteps(g, cols, protected) ==
  g = [s \in SUBSET DOMAIN Listed(cols) |->
         IF s = {} THEN {} ELSE KeptAfter(g[s \ {Max(s)}], Listed(cols)[Max(s)], cols, protected)]

\* The ranks are resolved one column after the other.
LEMMA ResolveFold ==
  ASSUME NEW cols, NEW protected
  PROVE  Resolved(cols, protected) = (CHOOSE g : ResolveSteps(g, cols, protected))[DOMAIN Listed(cols)]
BY DEF Resolved, FoldLeft, MapThenFoldSet, ResolveSteps, KeptAfter

\* What is kept is of the request.
LEMMA ResolvedOfRequest ==
  ASSUME NEW cols \in SUBSET (Nat \X Int), IsFiniteSet(cols), NEW protected
  PROVE  Resolved(cols, protected) \in SUBSET cols
<1> DEFINE n == Cardinality(cols)
           c == Lasts(n)
           V == [s \in SUBSET (1..n) |-> SUBSET cols]
           F == [q \in (1..n) \X SUBSET cols |-> KeptAfter(q[2], Listed(cols)[q[1]], cols, protected)]
           k == CHOOSE g : ResolveSteps(g, cols, protected)
<1>1. n \in Nat /\ DOMAIN Listed(cols) = 1..n /\ \A x \in 1..n : Listed(cols)[x] \in cols
  BY ListedHolds
<1>2. /\ IsFiniteSet(1..n) /\ \A s \in SUBSET (1..n) : s # {} => c[s] \in s
      /\ \A s \in SUBSET (1..n) : c[s] = Max(s)
  BY <1>1, LastsFacts
<1>3. \A s \in SUBSET (1..n) : V[s] = SUBSET cols /\ s \ {c[s]} \in SUBSET (1..n)
  OBVIOUS
<1>4. \A held \in SUBSET cols : \A col \in cols : KeptAfter(held, col, cols, protected) \in SUBSET cols
  BY DEF KeptAfter
<1>5. \A x \in 1..n : \A v \in SUBSET cols :
        F[<<x, v>>] = KeptAfter(v, Listed(cols)[x], cols, protected) /\ F[<<x, v>>] \in SUBSET cols
  BY <1>1, <1>4
<1> HIDE DEF n, c, V, F
<1>6. \E g : Unrolls(g, 1..n, c, {}, F) /\ \A s \in SUBSET (1..n) : g[s] \in V[s]
  <2>1. {} \in V[{}]
    BY <1>3
  <2>2. ASSUME NEW s \in SUBSET (1..n), s # {} PROVE \A v \in V[s \ {c[s]}] : F[<<c[s], v>>] \in V[s]
    <3>1. c[s] \in 1..n /\ V[s \ {c[s]}] = SUBSET cols /\ V[s] = SUBSET cols
      BY <1>2, <1>3, <2>2
    <3> QED
      BY <1>5, <3>1
  <2> QED
    BY <1>2, <2>1, <2>2, FoldExists
<1>7. PICK g : Unrolls(g, 1..n, c, {}, F) /\ \A s \in SUBSET (1..n) : g[s] \in SUBSET cols
  BY <1>3, <1>6
<1>8. ResolveSteps(g, cols, protected)
  <2>1. ASSUME NEW s \in SUBSET (1..n), s # {}
        PROVE  F[<<c[s], g[s \ {c[s]}]>>] = KeptAfter(g[s \ {Max(s)}], Listed(cols)[Max(s)], cols, protected)
    <3>1. c[s] = Max(s) /\ c[s] \in 1..n /\ g[s \ {c[s]}] \in SUBSET cols
      BY <1>2, <1>3, <1>7, <2>1
    <3> QED
      BY <1>5, <3>1
  <2>2. g = [s \in SUBSET (1..n) |-> IF s = {} THEN {} ELSE F[<<c[s], g[s \ {c[s]}]>>]]
    BY <1>7 DEF Unrolls
  <2>3. g = [s \in SUBSET (1..n) |-> IF s = {} THEN {}
               ELSE KeptAfter(g[s \ {Max(s)}], Listed(cols)[Max(s)], cols, protected)]
    BY <2>1, <2>2
  <2> QED
    BY <1>1, <2>3 DEF ResolveSteps
<1>9. ResolveSteps(k, cols, protected)
  BY <1>8
<1> HIDE DEF k
<1>10. \A s \in SUBSET (1..n) : k[s] \in V[s]
  <2>1. \A s \in SUBSET (1..n) : k[s] = IF s = {} THEN {}
               ELSE KeptAfter(k[s \ {Max(s)}], Listed(cols)[Max(s)], cols, protected)
    BY <1>1, <1>9 DEF ResolveSteps
  <2>2. k[{}] \in V[{}]
    BY <1>3, <2>1
  <2>3. ASSUME NEW s \in SUBSET (1..n), s # {}, k[s \ {c[s]}] \in V[s \ {c[s]}] PROVE k[s] \in V[s]
    <3>1. c[s] = Max(s) /\ c[s] \in 1..n /\ k[s \ {c[s]}] \in SUBSET cols
      BY <1>2, <1>3, <2>3
    <3>2. k[s] = KeptAfter(k[s \ {c[s]}], Listed(cols)[c[s]], cols, protected)
      BY <2>1, <2>3, <3>1
    <3>3. Listed(cols)[c[s]] \in cols
      BY <1>1, <3>1
    <3>4. KeptAfter(k[s \ {c[s]}], Listed(cols)[c[s]], cols, protected) \in SUBSET cols
      <4> PICK held \in SUBSET cols : held = k[s \ {c[s]}]
        BY <3>1
      <4> PICK col \in cols : col = Listed(cols)[c[s]]
        BY <3>3
      <4> QED
        BY <1>4
    <3>5. V[s] = SUBSET cols
      BY <1>3
    <3> QED
      BY <3>2, <3>4, <3>5
  <2> QED
    BY <1>2, <2>2, <2>3, FoldStays
<1>11. k[1..n] \in SUBSET cols
  BY <1>3, <1>10
<1> QED
  BY <1>1, <1>11, ResolveFold DEF k

-----------------------------------------------------------------------------
(* The columns of the request.                                                *)

\* Every term has some of its cells as columns, and no others.
ActiveTyped == DOMAIN active = TermIds /\ \A t \in TermIds : active[t] \subseteq Observed(t)

\* A column is an integer in each row, and zero outside the rows of its cell.
LEMMA ColumnsFacts ==
  ASSUME call \in Calls, ActiveTyped, NEW r
  PROVE  /\ ColumnsOf(r, active) \in SUBSET (Nat \X Int) /\ IsFiniteSet(ColumnsOf(r, active))
         /\ \A col \in ColumnsOf(r, active) :
              /\ col[2] \in Int
              /\ CellRows(col[1], col[2]) # {} /\ CellRows(col[1], col[2]) \subseteq Obs
              /\ \A i \in Obs : /\ Entry(col, i) \in Int
                                /\ i \notin CellRows(col[1], col[2]) => Entry(col, i) = 0
<1>1. /\ TermIds = 1..Len(call.terms) /\ Len(call.terms) \in Nat /\ IsFiniteSet(Obs)
  BY RegressorFacts
<1>2. \A t \in TermIds : \A i \in Obs : Cell(t, i) \in Int /\ Monomial(t, i) \in Int
  BY CellIsInt, MonomialIsInt
<1>3. \A t \in TermIds : Observed(t) \subseteq Int /\ IsFiniteSet(Observed(t))
  <2> TAKE t \in TermIds
  <2>1. Observed(t) \subseteq Int
    BY <1>2 DEF Observed
  <2> DEFINE f == [i \in Obs |-> Cell(t, i)]
  <2>2. f \in Surjection(Obs, Observed(t))
    BY DEF Surjection, Observed
  <2>3. IsFiniteSet(Observed(t))
    <3> HIDE DEF f
    <3> QED
      BY <1>1, <2>2, FS_Surjection
  <2> QED
    BY <2>1, <2>3
<1>4. \A t \in TermIds : t \in Nat /\ active[t] \subseteq Observed(t) /\ active[t] \subseteq Int
  BY <1>1, <1>3 DEF ActiveTyped
<1>5. \A col \in ColumnsOf(r, active) :
        /\ col[1] \in TermIds /\ col[2] \in active[col[1]] /\ col = <<col[1], col[2]>>
  BY DEF ColumnsOf, RoleTerms
<1>6. ColumnsOf(r, active) \in SUBSET (Nat \X Int)
  <2>1. \A col \in ColumnsOf(r, active) : col[1] \in Nat /\ col[2] \in Int
    BY <1>4, <1>5
  <2> QED
    BY <1>5, <2>1
<1>7. IsFiniteSet(ColumnsOf(r, active))
  <2>1. IsFiniteSet(TermIds) /\ RoleTerms(r) \subseteq TermIds
    BY <1>1, FS_Interval DEF RoleTerms
  <2>2. \A t \in RoleTerms(r) : IsFiniteSet({t} \X active[t])
    <3> TAKE t \in RoleTerms(r)
    <3>1. IsFiniteSet(active[t])
      BY <1>3, <1>4, <2>1, FS_Subset
    <3>2. IsFiniteSet({t})
      BY FS_Singleton
    <3> QED
      BY <3>1, <3>2, FS_Product
  <2>3. IsFiniteSet({{t} \X active[t] : t \in RoleTerms(r)})
    <3> DEFINE f == [t \in RoleTerms(r) |-> {t} \X active[t]]
    <3>1. f \in Surjection(RoleTerms(r), {{t} \X active[t] : t \in RoleTerms(r)})
      BY DEF Surjection
    <3>2. IsFiniteSet(RoleTerms(r))
      BY <2>1, FS_Subset
    <3> HIDE DEF f
    <3> QED
      BY <3>1, <3>2, FS_Surjection
  <2>4. \A S \in {{t} \X active[t] : t \in RoleTerms(r)} : IsFiniteSet(S)
    BY <2>2
  <2> QED
    BY <2>3, <2>4, FS_UNION DEF ColumnsOf
<1>8. ASSUME NEW col \in ColumnsOf(r, active)
      PROVE  /\ CellRows(col[1], col[2]) # {} /\ CellRows(col[1], col[2]) \subseteq Obs
             /\ \A i \in Obs : /\ Entry(col, i) \in Int
                               /\ i \notin CellRows(col[1], col[2]) => Entry(col, i) = 0
  <2>1. col[1] \in TermIds /\ col[2] \in Observed(col[1])
    BY <1>4, <1>5
  <2>2. \E i \in Obs : Cell(col[1], i) = col[2]
    BY <2>1 DEF Observed
  <2>3. \A i \in Obs : Entry(col, i) = IF Cell(col[1], i) = col[2] THEN Monomial(col[1], i) ELSE 0
    BY DEF Entry, ColumnOf
  <2> QED
    BY <1>2, <2>1, <2>2, <2>3 DEF CellRows
<1> QED
  BY <1>4, <1>5, <1>6, <1>7, <1>8

\* What the request alone decides.
CellOf(c, t, i) == FoldLeft(LAMBDA key, p : (key * RowCount) + c.factors[p.factor][i], 0, c.terms[t].parts)
MonomialOf(c, t, i) == FoldLeft(LAMBDA v, x : v * c.continuous[x][i], 1, c.terms[t].monomial)

\* Everything about a column is decided by the request, which no step changes.
LEMMA OfRequest ==
  ASSUME call' = call
  PROVE  /\ TermIds' = TermIds /\ RoleNames' = RoleNames
         /\ \A r : RoleTerms(r)' = RoleTerms(r)
         /\ \A t : Observed(t)' = Observed(t)
         /\ \A col, i : Entry(col, i)' = Entry(col, i)
         /\ \A r, act : ColumnsOf(r, act)' = ColumnsOf(r, act)
<1>1. \A t, i : Cell(t, i) = CellOf(call, t, i) /\ Monomial(t, i) = MonomialOf(call, t, i)
  BY DEF Cell, Monomial, Parts, CellOf, MonomialOf
<1>2. \A t, i : Cell(t, i)' = CellOf(call', t, i) /\ Monomial(t, i)' = MonomialOf(call', t, i)
  BY DEF Cell, Monomial, Parts, CellOf, MonomialOf, FoldLeft, MapThenFoldSet
<1>3. \A t, i : Cell(t, i)' = Cell(t, i) /\ Monomial(t, i)' = Monomial(t, i)
  BY <1>1, <1>2
<1>4. \A t : Role(t)' = Role(t)
  BY DEF Role
<1>5. TermIds' = TermIds
  BY DEF TermIds
<1>6. RoleNames' = RoleNames /\ \A r : RoleTerms(r)' = RoleTerms(r)
  BY <1>4, <1>5 DEF RoleNames, RoleTerms
<1>7. \A t : Observed(t)' = Observed(t)
  BY <1>3 DEF Observed
<1>8. ASSUME NEW col, NEW i PROVE Entry(col, i)' = Entry(col, i)
  BY <1>3 DEF Entry, ColumnOf
<1>9. ASSUME NEW r, NEW act PROVE ColumnsOf(r, act)' = ColumnsOf(r, act)
  BY <1>6 DEF ColumnsOf
<1> QED
  BY <1>5, <1>6, <1>7, <1>8, <1>9

-----------------------------------------------------------------------------
(* A design is whole: its blocks take every row once and hold its entries.    *)

\* The certified blocks take every row once.
LEMMA CertifiedParted ==
  ASSUME call \in Calls, NEW r, Certified(r) # {}
  PROVE  Parted(Certified(r), Obs)
<1>1. IsFiniteSet(Obs) /\ Obs # {}
  <2>1. IsFiniteSet(Obs) /\ Obs = 1..RowCount /\ RowCount \in Nat \ {0}
    BY RegressorFacts
  <2> QED
    BY <2>1
<1>2. CASE JointCertified(r)
  <2>1. UNION Support(r) \subseteq Obs
    BY DEF Support, CellRows
  <2>2. IsFiniteSet(Reached(r))
    BY <1>1, <2>1, FS_Subset DEF Reached
  <2>3. Parted(JointBlocks(r), Reached(r))
    BY <2>2, JointParted
  <2>4. UNION JointBlocks(r) = Obs
    BY <1>2 DEF JointCertified
  <2>5. Parted(JointBlocks(r), Obs)
    BY <2>3, <2>4 DEF Parted
  <2> QED
    BY <1>2, <2>5 DEF Certified
<1>3. CASE ~JointCertified(r)
  <2>1. Certified(r) = RowBlocks
    BY <1>3 DEF Certified
  <2>2. Parted({Obs}, Obs)
    BY <1>1 DEF Parted
  <2>3. Parted(Classes(Obs, ShareFE), Obs)
    BY <1>1, ShareParted
  <2> QED
    BY <2>1, <2>2, <2>3 DEF RowBlocks
<1> QED
  BY <1>2, <1>3

\* No two blocks have a row in common.
Apart(d) == \A a, b \in d.of : a # b => a.rows \cap b.rows = {}

\* A design of these columns whose blocks take every row once.
Covers(d, cols) ==
  /\ Apart(d) /\ UNION Partition(d) = Obs
  /\ SameEntries(d, cols)

\* None of its blocks is empty, and it has these columns only.
WholeDesign(d, cols) ==
  /\ Covers(d, cols)
  /\ \A b \in d.of : b.rows # {}
  /\ Cols(d) = cols

\* Blocks laid out along a partition of the rows are the design.
LEMMA BlocksWhole ==
  ASSUME call \in Calls, ActiveTyped, NEW r, NEW parts, Parted(parts, Obs),
         NEW d, d.of = Blocks(r, parts)
  PROVE  WholeDesign(d, ColumnsOf(r, active)) /\ Partition(d) = parts
<1> DEFINE cols == ColumnsOf(r, active)
<1>1. \A col \in cols : /\ CellRows(col[1], col[2]) # {} /\ CellRows(col[1], col[2]) \subseteq Obs
                        /\ \A i \in Obs : i \notin CellRows(col[1], col[2]) => Entry(col, i) = 0
  BY ColumnsFacts
<1>2. \A b \in d.of : \E P \in parts :
        /\ b.rows = P /\ b.cols = LocalColumns(r, P)
        /\ \A i \in P : \A col \in b.cols : b.values[i][col] = Entry(col, i)
  BY DEF Blocks, Block, Entry
<1>3. \A P \in parts : \E b \in d.of : b.rows = P /\ b.cols = LocalColumns(r, P)
  <2> TAKE P \in parts
  <2>1. Block(P, LocalColumns(r, P)) \in d.of
    BY DEF Blocks
  <2>2. /\ Block(P, LocalColumns(r, P)).rows = P
        /\ Block(P, LocalColumns(r, P)).cols = LocalColumns(r, P)
    BY DEF Block
  <2> QED
    BY <2>1, <2>2
<1>4. \A a, b \in d.of : a.rows = b.rows => a = b
  BY DEF Blocks, Block
<1>5. \A P \in parts : /\ LocalColumns(r, P) \subseteq cols
                       /\ \A col \in cols : col \in LocalColumns(r, P) <=> CellRows(col[1], col[2]) \cap P # {}
  BY DEF LocalColumns
<1>6. \A P \in parts : P # {} /\ P \subseteq Obs
  BY DEF Parted
<1>7. \A i \in Obs : \E P \in parts : i \in P
  BY DEF Parted
<1>8. Partition(d) = parts
  BY <1>2, <1>3 DEF Partition
<1>9. Apart(d)
  BY <1>2, <1>4 DEF Apart, Parted
<1>10. SameEntries(d, cols)
  <2> SUFFICES ASSUME NEW b \in d.of, NEW i \in b.rows, NEW col \in cols
               PROVE  Entry(col, i) = IF col \in b.cols THEN b.values[i][col] ELSE 0
    BY DEF SameEntries
  <2>1. PICK P \in parts : /\ b.rows = P /\ b.cols = LocalColumns(r, P)
                           /\ \A k \in P : \A q \in b.cols : b.values[k][q] = Entry(q, k)
    BY <1>2
  <2>2. col \notin b.cols => i \notin CellRows(col[1], col[2])
    BY <1>5, <2>1
  <2> QED
    BY <1>1, <1>6, <2>1, <2>2
<1>11. Cols(d) = cols
  <2>1. \A b \in d.of : b.cols \subseteq cols
    BY <1>2, <1>5
  <2>2. ASSUME NEW col \in cols PROVE \E b \in d.of : col \in b.cols
    <3>1. PICK i \in CellRows(col[1], col[2]) : i \in Obs
      BY <1>1
    <3>2. PICK P \in parts : i \in P
      BY <1>7, <3>1
    <3> QED
      BY <1>3, <1>5, <3>1, <3>2
  <2> QED
    BY <2>1, <2>2 DEF Cols
<1> QED
  BY <1>2, <1>6, <1>8, <1>9, <1>10, <1>11 DEF WholeDesign, Covers, Parted

\* So is the one dense block.
LEMMA DenseWhole ==
  ASSUME call \in Calls, ActiveTyped, NEW r, NEW d, d.of = Dense(r)
  PROVE  WholeDesign(d, ColumnsOf(r, active)) /\ Partition(d) = {Obs}
<1>1. Obs # {}
  <2>1. Obs = 1..RowCount /\ RowCount \in Nat \ {0}
    BY RegressorFacts
  <2> QED
    BY <2>1
<1>2. \E b : /\ d.of = {b} /\ b.rows = Obs /\ b.cols = ColumnsOf(r, active)
             /\ \A i \in Obs : \A col \in b.cols : b.values[i][col] = Entry(col, i)
  <2> DEFINE e == Block(Obs, ColumnsOf(r, active))
  <2>1. d.of = {e}
    BY DEF Dense
  <2>2. /\ e.rows = Obs /\ e.cols = ColumnsOf(r, active)
        /\ \A i \in Obs : \A col \in e.cols : e.values[i][col] = Entry(col, i)
    BY DEF Block, Entry
  <2> HIDE DEF e
  <2> QED
    BY <2>1, <2>2
<1>3. Partition(d) = {Obs}
  BY <1>2 DEF Partition
<1>4. Apart(d) /\ Cols(d) = ColumnsOf(r, active) /\ \A b \in d.of : b.rows # {}
  BY <1>1, <1>2 DEF Apart, Cols
<1>5. SameEntries(d, ColumnsOf(r, active))
  BY <1>2 DEF SameEntries
<1> QED
  BY <1>3, <1>4, <1>5 DEF WholeDesign, Covers

\* A dense design cut along the rows of another.
LEMMA AlignedWhole ==
  ASSUME call \in Calls, ActiveTyped, NEW r, NEW parts, Parted(parts, Obs),
         NEW d, d.form = "dense", d.of = Dense(r)
  PROVE  WholeDesign(Aligned(d, parts), ColumnsOf(r, active)) /\ Partition(Aligned(d, parts)) = parts
<1> DEFINE a == Aligned(d, parts)
           cols == ColumnsOf(r, active)
<1>1. PICK b : /\ d.of = {b} /\ b.rows = Obs /\ b.cols = cols
               /\ \A i \in Obs : \A col \in b.cols : b.values[i][col] = Entry(col, i)
  <2> DEFINE e == Block(Obs, ColumnsOf(r, active))
  <2>1. d.of = {e}
    BY DEF Dense
  <2>2. /\ e.rows = Obs /\ e.cols = ColumnsOf(r, active)
        /\ \A i \in Obs : \A col \in e.cols : e.values[i][col] = Entry(col, i)
    BY DEF Block, Entry
  <2> HIDE DEF e
  <2> QED
    BY <2>1, <2>2
<1>2. a.of = {[rows |-> P, cols |-> b.cols, values |-> [i \in P |-> b.values[i]]] : P \in parts}
  <2>1. b = CHOOSE q \in d.of : TRUE
    BY <1>1
  <2> QED
    BY <2>1 DEF Aligned
<1>3. \A P \in parts : P # {} /\ P \subseteq Obs
  BY DEF Parted
<1> HIDE DEF a, cols
<1>4. \A q \in a.of : /\ q.rows \in parts /\ q.cols = cols
                      /\ \A i \in q.rows : \A col \in cols : q.values[i][col] = Entry(col, i)
  BY <1>1, <1>2, <1>3
<1>5. \A P \in parts : \E q \in a.of : q.rows = P
  <2> TAKE P \in parts
  <2> PICK q : q = [rows |-> P, cols |-> b.cols, values |-> [i \in P |-> b.values[i]]]
    OBVIOUS
  <2>1. q \in a.of /\ q.rows = P
    BY <1>2
  <2> QED
    BY <2>1
<1>6. \A p, q \in a.of : p.rows = q.rows => p = q
  BY <1>2
<1>7. Partition(a) = parts
  BY <1>4, <1>5 DEF Partition
<1>8. Apart(a)
  BY <1>4, <1>6 DEF Apart, Parted
<1>9. SameEntries(a, cols)
  BY <1>4 DEF SameEntries
<1>10. Cols(a) = cols
  <2>1. parts # {}
    <3>1. Obs = 1..RowCount /\ RowCount \in Nat \ {0}
      BY RegressorFacts
    <3> QED
      BY <3>1 DEF Parted
  <2> QED
    BY <1>4, <1>5, <2>1 DEF Cols
<1> QED
  BY <1>3, <1>4, <1>7, <1>8, <1>9, <1>10 DEF WholeDesign, Covers, Parted, a, cols

\* Columns taken away.
LEMMA SelectedCovers ==
  ASSUME NEW d, NEW cols, NEW keep \in SUBSET cols, Covers(d, cols)
  PROVE  Covers(SelectColumns(d, keep), keep)
<1> DEFINE a == SelectColumns(d, keep)
<1>1. a.of = {[rows |-> b.rows, cols |-> b.cols \cap keep,
               values |-> [i \in b.rows |-> [col \in b.cols \cap keep |-> b.values[i][col]]]] : b \in d.of}
  BY DEF SelectColumns
<1> HIDE DEF a
<1>2. \A q \in a.of : \E b \in d.of :
        /\ q = [rows |-> b.rows, cols |-> b.cols \cap keep,
                values |-> [i \in b.rows |-> [col \in b.cols \cap keep |-> b.values[i][col]]]]
  BY <1>1
<1>3. \A b \in d.of : \E q \in a.of : q.rows = b.rows
  <2> TAKE b \in d.of
  <2> PICK q : q = [rows |-> b.rows, cols |-> b.cols \cap keep,
                    values |-> [i \in b.rows |-> [col \in b.cols \cap keep |-> b.values[i][col]]]]
    OBVIOUS
  <2>1. q \in a.of /\ q.rows = b.rows
    BY <1>1
  <2> QED
    BY <2>1
<1>4. Partition(a) = Partition(d)
  <2>1. \A q \in a.of : \E b \in d.of : q.rows = b.rows
    <3> TAKE q \in a.of
    <3> PICK b \in d.of : q = [rows |-> b.rows, cols |-> b.cols \cap keep,
                values |-> [i \in b.rows |-> [col \in b.cols \cap keep |-> b.values[i][col]]]]
      BY <1>2
    <3>1. q.rows = b.rows
      OBVIOUS
    <3> QED
      BY <3>1
  <2> QED
    BY <1>3, <2>1 DEF Partition
<1>5. Apart(a)
  <2> SUFFICES ASSUME NEW p \in a.of, NEW q \in a.of, p # q PROVE p.rows \cap q.rows = {}
    BY DEF Apart
  <2>1. PICK b \in d.of : p = [rows |-> b.rows, cols |-> b.cols \cap keep,
                values |-> [i \in b.rows |-> [col \in b.cols \cap keep |-> b.values[i][col]]]]
    BY <1>2
  <2>2. PICK c \in d.of : q = [rows |-> c.rows, cols |-> c.cols \cap keep,
                values |-> [i \in c.rows |-> [col \in c.cols \cap keep |-> c.values[i][col]]]]
    BY <1>2
  <2>3. b # c
    BY <2>1, <2>2
  <2>4. b.rows \cap c.rows = {}
    BY <2>3 DEF Covers, Apart
  <2> QED
    BY <2>1, <2>2, <2>4
<1>6. SameEntries(a, keep)
  <2> SUFFICES ASSUME NEW q \in a.of, NEW i \in q.rows, NEW col \in keep
               PROVE  Entry(col, i) = IF col \in q.cols THEN q.values[i][col] ELSE 0
    BY DEF SameEntries
  <2>1. PICK b \in d.of : q = [rows |-> b.rows, cols |-> b.cols \cap keep,
                values |-> [k \in b.rows |-> [c \in b.cols \cap keep |-> b.values[k][c]]]]
    BY <1>2
  <2>2. i \in b.rows /\ col \in cols
    BY <2>1
  <2>3. Entry(col, i) = IF col \in b.cols THEN b.values[i][col] ELSE 0
    BY <2>2 DEF Covers, SameEntries
  <2>4. col \in q.cols <=> col \in b.cols
    BY <2>1
  <2>5. col \in b.cols => q.values[i][col] = b.values[i][col]
    BY <2>1, <2>2
  <2> QED
    BY <2>3, <2>4, <2>5
<1> QED
  BY <1>4, <1>5, <1>6 DEF Covers, a

\* Rows taken away.
LEMMA SubsetStays ==
  ASSUME NEW d, NEW cols, NEW keep, Apart(d), SameEntries(d, cols)
  PROVE  Apart(SubsetRows(d, keep)) /\ SameEntries(SubsetRows(d, keep), cols)
<1> DEFINE a == SubsetRows(d, keep)
<1>1. a.of = {[rows |-> b.rows \cap keep, cols |-> b.cols,
               values |-> [i \in b.rows \cap keep |-> b.values[i]]] : b \in {b \in d.of : b.rows \cap keep # {}}}
  BY DEF SubsetRows
<1> HIDE DEF a
<1>2. \A q \in a.of : \E b \in d.of :
        q = [rows |-> b.rows \cap keep, cols |-> b.cols, values |-> [i \in b.rows \cap keep |-> b.values[i]]]
  BY <1>1
<1>3. Apart(a)
  <2> SUFFICES ASSUME NEW p \in a.of, NEW q \in a.of, p # q PROVE p.rows \cap q.rows = {}
    BY DEF Apart
  <2>1. PICK b \in d.of : p = [rows |-> b.rows \cap keep, cols |-> b.cols,
                               values |-> [i \in b.rows \cap keep |-> b.values[i]]]
    BY <1>2
  <2>2. PICK c \in d.of : q = [rows |-> c.rows \cap keep, cols |-> c.cols,
                               values |-> [i \in c.rows \cap keep |-> c.values[i]]]
    BY <1>2
  <2>3. b # c
    BY <2>1, <2>2
  <2>4. b.rows \cap c.rows = {}
    BY <2>3 DEF Apart
  <2> QED
    BY <2>1, <2>2, <2>4
<1>4. SameEntries(a, cols)
  <2> SUFFICES ASSUME NEW q \in a.of, NEW i \in q.rows, NEW col \in cols
               PROVE  Entry(col, i) = IF col \in q.cols THEN q.values[i][col] ELSE 0
    BY DEF SameEntries
  <2>1. PICK b \in d.of : q = [rows |-> b.rows \cap keep, cols |-> b.cols,
                               values |-> [k \in b.rows \cap keep |-> b.values[k]]]
    BY <1>2
  <2>2. i \in b.rows /\ i \in b.rows \cap keep /\ q.cols = b.cols /\ q.values[i] = b.values[i]
    BY <2>1
  <2>3. Entry(col, i) = IF col \in b.cols THEN b.values[i][col] ELSE 0
    BY <2>2 DEF SameEntries
  <2> QED
    BY <2>2, <2>3
<1> QED
  BY <1>3, <1>4 DEF a

-----------------------------------------------------------------------------
(* Cross products, block by block.                                            *)

\* There are finitely many blocks.
LEMMA BlocksFinite ==
  ASSUME IsFiniteSet(Obs), NEW d, NEW cols, WholeDesign(d, cols)
  PROVE  IsFiniteSet(d.of)
<1> DEFINE f == [P \in Partition(d) |-> CHOOSE b \in d.of : b.rows = P]
<1>1. Partition(d) \in SUBSET SUBSET Obs
  BY DEF WholeDesign, Covers
<1>2. IsFiniteSet(Partition(d))
  <2>1. IsFiniteSet(SUBSET Obs)
    BY FS_SUBSET
  <2> QED
    BY <1>1, <2>1, FS_Subset
<1>3. ASSUME NEW b \in d.of PROVE b.rows \in Partition(d) /\ f[b.rows] = b
  <2>1. b.rows \in Partition(d)
    BY DEF Partition
  <2>2. \A a \in d.of : a.rows = b.rows => a = b
    BY DEF WholeDesign, Covers, Apart
  <2> QED
    BY <2>1, <2>2
<1>4. \A P \in Partition(d) : f[P] \in d.of
  BY DEF Partition
<1>5. f \in Surjection(Partition(d), d.of)
  BY <1>3, <1>4 DEF Surjection
<1> HIDE DEF f
<1> QED
  BY <1>2, <1>5, FS_Surjection

\* Two designs with the same partition pair their blocks.
LEMMA Paired ==
  ASSUME NEW d, NEW e, Partition(d) = Partition(e)
  PROVE  /\ \A b \in d.of : \E p \in Matching(d, e) : p[1] = b
         /\ \A b \in e.of : \E p \in Matching(d, e) : p[2] = b
         /\ \A p \in Matching(d, e) : /\ p[1] \in d.of /\ p[2] \in e.of
                                      /\ p[1].rows = p[2].rows /\ p = <<p[1], p[2]>>
<1>1. \A b \in d.of : \E c \in e.of : b.rows = c.rows
  BY DEF Partition
<1>2. \A c \in e.of : \E b \in d.of : b.rows = c.rows
  BY DEF Partition
<1>3. \A b \in d.of : \A c \in e.of : b.rows = c.rows => <<b, c>> \in Matching(d, e)
  BY DEF Matching
<1>4. \A b, c : <<b, c>>[1] = b /\ <<b, c>>[2] = c
  OBVIOUS
<1>5. \A p \in Matching(d, e) : /\ p[1] \in d.of /\ p[2] \in e.of
                                /\ p[1].rows = p[2].rows /\ p = <<p[1], p[2]>>
  BY DEF Matching
<1> QED
  BY <1>1, <1>2, <1>3, <1>4, <1>5

\* An entry of a cross product, block by block.
LEMMA CrossEntry ==
  ASSUME IsFiniteSet(Obs), Obs \subseteq Int,
         NEW d, NEW C, WholeDesign(d, C), NEW e, NEW D, WholeDesign(e, D), Partition(d) = Partition(e),
         NEW x \in C, \A i \in Obs : Entry(x, i) \in Int,
         NEW y \in D, \A i \in Obs : Entry(y, i) \in Int
  PROVE  LET both == {p \in Matching(d, e) : x \in p[1].cols /\ y \in p[2].cols}
         IN SumFunction([p \in both |->
              SumFunction([i \in p[1].rows |-> [j \in Obs |-> j][i] * p[1].values[i][x] * p[2].values[i][y]])])
            = SumFunction([i \in Obs |-> i * Entry(x, i) * Entry(y, i)])
<1> DEFINE both == {p \in Matching(d, e) : x \in p[1].cols /\ y \in p[2].cols}
           F == [i \in Obs |-> i * Entry(x, i) * Entry(y, i)]
           part(p) == [i \in p[1].rows |-> [j \in Obs |-> j][i] * p[1].values[i][x] * p[2].values[i][y]]
           rows == [p \in both |-> p[1].rows]
           w == [p \in both |-> SumFunction(part(p))]
<1>1. \A i \in Obs : F[i] \in Int /\ F[i] = i * Entry(x, i) * Entry(y, i)
  <2> TAKE i \in Obs
  <2>1. i \in Int /\ Entry(x, i) \in Int /\ Entry(y, i) \in Int
    OBVIOUS
  <2>2. F[i] = i * Entry(x, i) * Entry(y, i)
    OBVIOUS
  <2> HIDE DEF F
  <2> QED
    BY <2>1, <2>2
<1>2. DOMAIN F = Obs
  OBVIOUS
<1> HIDE DEF F
<1>3. PICK h : AddsUp(h, F, Obs)
  BY <1>1, SumExists
<1>4. /\ \A b \in d.of : \E p \in Matching(d, e) : p[1] = b
      /\ \A p \in Matching(d, e) : /\ p[1] \in d.of /\ p[2] \in e.of
                                   /\ p[1].rows = p[2].rows /\ p = <<p[1], p[2]>>
  BY Paired
<1>5. /\ \A b \in d.of : /\ b.rows \subseteq Obs /\ \A a \in d.of : a # b => a.rows \cap b.rows = {}
                         /\ \A i \in b.rows : Entry(x, i) = IF x \in b.cols THEN b.values[i][x] ELSE 0
      /\ \A i \in Obs : \E b \in d.of : i \in b.rows
  <2>1. \A b \in d.of : b.rows \in Partition(d)
    BY DEF Partition
  <2>2. UNION Partition(d) = Obs
    BY DEF WholeDesign, Covers
  <2>3. \A b \in d.of : b.rows \subseteq Obs
    BY <2>1, <2>2
  <2>4. \A i \in Obs : \E b \in d.of : i \in b.rows
    BY <2>2 DEF Partition
  <2>5. \A a, b \in d.of : a # b => a.rows \cap b.rows = {}
    BY DEF WholeDesign, Covers, Apart
  <2>6. \A b \in d.of : \A i \in b.rows : Entry(x, i) = IF x \in b.cols THEN b.values[i][x] ELSE 0
    BY DEF WholeDesign, Covers, SameEntries
  <2> QED
    BY <2>3, <2>4, <2>5, <2>6
<1>6. /\ \A b \in e.of : /\ \A a \in e.of : a # b => a.rows \cap b.rows = {}
                         /\ b.rows # {}
                         /\ \A i \in b.rows : Entry(y, i) = IF y \in b.cols THEN b.values[i][y] ELSE 0
  BY DEF WholeDesign, Covers, SameEntries, Apart
<1>7. \A p \in both : /\ p \in Matching(d, e) /\ x \in p[1].cols /\ y \in p[2].cols
                      /\ rows[p] = p[1].rows /\ rows[p] \in SUBSET Obs
                      /\ w[p] = SumFunction(part(p))
  BY <1>4, <1>5
<1>8. IsFiniteSet(both)
  <2>1. IsFiniteSet(d.of \X e.of)
    BY BlocksFinite, FS_Product
  <2>2. both \subseteq d.of \X e.of
    BY DEF Matching
  <2> QED
    BY <2>1, <2>2, FS_Subset
<1>9. \A p, q \in both : p # q => rows[p] \cap rows[q] = {}
  <2> SUFFICES ASSUME NEW p \in both, NEW q \in both, rows[p] \cap rows[q] # {} PROVE p = q
    OBVIOUS
  <2>1. p[1].rows \cap q[1].rows # {} /\ p[2].rows \cap q[2].rows # {}
    BY <1>4, <1>7
  <2>2. p[1] = q[1]
    BY <1>4, <1>5, <1>7, <2>1
  <2>3. p[2] = q[2]
    BY <1>4, <1>6, <1>7, <2>1
  <2> QED
    BY <1>4, <1>7, <2>2, <2>3
<1>10. ASSUME NEW i \in Obs, \A p \in both : i \notin rows[p] PROVE F[i] = 0
  <2>1. PICK b \in d.of : i \in b.rows
    BY <1>5
  <2>2. PICK p \in Matching(d, e) : p[1] = b
    BY <1>4
  <2>3. p \notin both
    BY <1>7, <1>10, <2>1, <2>2
  <2>4. x \notin p[1].cols \/ y \notin p[2].cols
    BY <2>3
  <2>5. p[2] \in e.of /\ i \in p[2].rows
    BY <1>4, <2>1, <2>2
  <2>6. Entry(x, i) = 0 \/ Entry(y, i) = 0
    BY <1>5, <1>6, <2>1, <2>2, <2>4, <2>5
  <2>7. i \in Int /\ Entry(x, i) \in Int /\ Entry(y, i) \in Int
    OBVIOUS
  <2> QED
    BY <1>1, <2>6, <2>7
<1>11. ASSUME NEW p \in both PROVE w[p] = h[rows[p]]
  <2>1. rows[p] = p[1].rows /\ rows[p] \in SUBSET Obs /\ w[p] = SumFunction(part(p))
    BY <1>7
  <2>2. DOMAIN part(p) = p[1].rows
    OBVIOUS
  <2>3. ASSUME NEW i \in rows[p] PROVE part(p)[i] = F[i]
    <3>1. i \in p[1].rows /\ i \in Obs /\ p[1] \in d.of /\ p[2] \in e.of /\ i \in p[2].rows
      BY <1>4, <1>7, <2>3
    <3>2. Entry(x, i) = p[1].values[i][x] /\ Entry(y, i) = p[2].values[i][y]
      BY <1>5, <1>6, <1>7, <3>1
    <3>3. part(p)[i] = i * p[1].values[i][x] * p[2].values[i][y]
      BY <3>1
    <3> HIDE DEF part
    <3> QED
      BY <1>1, <3>1, <3>2, <3>3
  <2> HIDE DEF part, rows, w
  <2>4. SumFunctionOnSet(part(p), rows[p]) = h[rows[p]]
    BY <1>3, <2>1, <2>3, SumOfPart
  <2> QED
    BY <2>1, <2>2, <2>4 DEF SumFunction
<1>12. DOMAIN w = both
  OBVIOUS
<1> HIDE DEF both, rows, w, part
<1>13. SumFunctionOnSet(w, both) = h[Obs]
  <2>1. \A p \in both : rows[p] \in SUBSET Obs /\ w[p] = h[rows[p]]
    BY <1>7, <1>11
  <2>2. \A i \in Obs : (\A p \in both : i \notin rows[p]) => F[i] = 0
    BY <1>10
  <2>3. \A i \in Obs : F[i] \in Int
    BY <1>1
  <2>4. TakenApart(Obs, F, h, both, rows, w)
    BY <1>3, <1>8, <1>9, <2>1, <2>2, <2>3 DEF TakenApart
  <2> QED
    BY <2>4, SumByParts
<1>14. SumFunctionOnSet(F, Obs) = h[Obs]
  BY <1>3, SumIs
<1>15. SumFunction(w) = SumFunction(F)
  BY <1>2, <1>12, <1>13, <1>14 DEF SumFunction
<1> QED
  BY <1>15 DEF both, w, part, F

-----------------------------------------------------------------------------
(* Two designs side by side.                                                  *)

\* Two designs side by side have the columns of both.
LEMMA StackedColumns ==
  ASSUME NEW d, NEW C, WholeDesign(d, C), NEW e, NEW D, WholeDesign(e, D), Partition(d) = Partition(e)
  PROVE  Cols(HStack(d, e)) = C \cup D
<1> DEFINE all == HStack(d, e)
<1>1. all.of = {Beside(p[1], p[2]) : p \in Matching(d, e)}
  BY DEF HStack
<1>2. \A a, b : Beside(a, b).cols = a.cols \cup b.cols
  BY DEF Beside
<1> HIDE DEF all
<1>3. Cols(d) = C /\ Cols(e) = D
  BY DEF WholeDesign
<1>4. ASSUME NEW q \in all.of PROVE q.cols \subseteq C \cup D
  <2>1. PICK p \in Matching(d, e) : q = Beside(p[1], p[2])
    BY <1>1
  <2>2. p[1] \in d.of /\ p[2] \in e.of
    BY Paired
  <2> QED
    BY <1>2, <1>3, <2>1, <2>2 DEF Cols
<1>5. ASSUME NEW x \in C PROVE \E q \in all.of : x \in q.cols
  <2>1. PICK b \in d.of : x \in b.cols
    BY <1>3 DEF Cols
  <2>2. PICK p \in Matching(d, e) : p[1] = b
    BY Paired
  <2>3. Beside(p[1], p[2]) \in all.of
    BY <1>1
  <2> QED
    BY <1>2, <2>1, <2>2, <2>3
<1>6. ASSUME NEW x \in D PROVE \E q \in all.of : x \in q.cols
  <2>1. PICK b \in e.of : x \in b.cols
    BY <1>3 DEF Cols
  <2>2. PICK p \in Matching(d, e) : p[2] = b
    BY Paired
  <2>3. Beside(p[1], p[2]) \in all.of
    BY <1>1
  <2> QED
    BY <1>2, <2>1, <2>2, <2>3
<1> QED
  BY <1>4, <1>5, <1>6 DEF Cols, all

\* Each row is in one of its blocks, which has the entries of both designs.
LEMMA StackedRow ==
  ASSUME NEW d, NEW C, WholeDesign(d, C), NEW e, NEW D, WholeDesign(e, D), Partition(d) = Partition(e),
         NEW i \in Obs
  PROVE  LET b == CHOOSE b \in HStack(d, e).of : i \in b.rows
         IN /\ b.cols \subseteq C \cup D
            /\ \A x \in b.cols : b.values[i][x] = Entry(x, i)
            /\ \A x \in (C \cup D) \ b.cols : Entry(x, i) = 0
<1> DEFINE all == HStack(d, e)
           b == CHOOSE b \in all.of : i \in b.rows
<1>1. all.of = {Beside(p[1], p[2]) : p \in Matching(d, e)}
  BY DEF HStack
<1> HIDE DEF all
<1>2. \E q \in all.of : i \in q.rows
  <2>1. UNION Partition(d) = Obs
    BY DEF WholeDesign, Covers
  <2>2. PICK q \in d.of : i \in q.rows
    BY <2>1 DEF Partition
  <2>3. PICK p \in Matching(d, e) : p[1] = q
    BY Paired
  <2>4. Beside(p[1], p[2]) \in all.of /\ Beside(p[1], p[2]).rows = p[1].rows
    BY <1>1 DEF Beside
  <2> QED
    BY <2>2, <2>3, <2>4
<1>3. b \in all.of /\ i \in b.rows
  BY <1>2
<1> HIDE DEF b
<1>4. PICK p \in Matching(d, e) : b = Beside(p[1], p[2])
  BY <1>1, <1>3
<1>5. p[1] \in d.of /\ p[2] \in e.of /\ p[1].rows = p[2].rows
  BY Paired
<1>6. /\ b.rows = p[1].rows /\ b.cols = p[1].cols \cup p[2].cols
      /\ \A k \in b.rows : \A x \in b.cols :
           b.values[k][x] = IF x \in p[1].cols THEN p[1].values[k][x] ELSE p[2].values[k][x]
  BY <1>4 DEF Beside
<1>7. p[1].cols \subseteq C /\ p[2].cols \subseteq D
  BY <1>5 DEF WholeDesign, Cols
<1>8. \A x \in C : Entry(x, i) = IF x \in p[1].cols THEN p[1].values[i][x] ELSE 0
  BY <1>3, <1>5, <1>6 DEF WholeDesign, Covers, SameEntries
<1>9. \A x \in D : Entry(x, i) = IF x \in p[2].cols THEN p[2].values[i][x] ELSE 0
  BY <1>3, <1>5, <1>6 DEF WholeDesign, Covers, SameEntries
<1>10. \A x \in b.cols : b.values[i][x] = Entry(x, i)
  BY <1>3, <1>6, <1>7, <1>8, <1>9
<1>11. \A x \in (C \cup D) \ b.cols : Entry(x, i) = 0
  BY <1>6, <1>8, <1>9
<1> QED
  BY <1>6, <1>7, <1>10, <1>11 DEF b, all

\* Two sums of equal summands.
LEMMA SumsAgree ==
  ASSUME NEW Q, IsFiniteSet(Q), NEW P \in SUBSET Q, NEW a, NEW b, DOMAIN a = P, DOMAIN b = Q,
         \A x \in P : a[x] \in Int /\ b[x] = a[x], \A x \in Q \ P : b[x] = 0
  PROVE  SumFunction(a) = SumFunction(b)
<1> DEFINE m == [x \in P |-> x]
<1>1. m \in [P -> Q] /\ \A x \in P : m[x] = x
  OBVIOUS
<1>2. IsFiniteSet(P)
  BY FS_Subset
<1> HIDE DEF m
<1>3. /\ \A x \in P : a[x] \in Int /\ b[m[x]] = a[x]
      /\ \A x, y \in P : m[x] = m[y] => x = y
      /\ \A k \in Q : (\A x \in P : m[x] # k) => b[k] = 0
  BY <1>1
<1>4. SumFunctionOnSet(a, P) = SumFunctionOnSet(b, Q)
  BY <1>1, <1>2, <1>3, SumMoved
<1> QED
  BY <1>4 DEF SumFunction

\* The products of two designs with the same blocks are those of the dense ones.
LEMMA ProductsAgree ==
  ASSUME call \in Calls, ActiveTyped, NEW q, NEW r,
         WholeDesign(stored[q], ColumnsOf(q, active)), WholeDesign(stored[r], ColumnsOf(r, active)),
         Partition(stored[q]) = Partition(stored[r])
  PROVE  SameProducts(q, r)
<1> DEFINE d == stored[q]
           e == stored[r]
           C == ColumnsOf(q, active)
           D == ColumnsOf(r, active)
           all == HStack(d, e)
           row == [i \in Obs |-> i]
           beta == [col \in Cols(all) |-> 1 + col[2]]
<1>1. IsFiniteSet(Obs) /\ Obs \subseteq Int
  <2>1. IsFiniteSet(Obs) /\ Obs = 1..RowCount /\ RowCount \in Nat
    BY RegressorFacts
  <2> QED
    BY <2>1
<1>2. /\ IsFiniteSet(C) /\ IsFiniteSet(D)
      /\ \A x \in C \cup D : x[2] \in Int /\ \A i \in Obs : Entry(x, i) \in Int
  BY ColumnsFacts
<1>3. Cols(d) = C /\ Cols(e) = D
  BY DEF WholeDesign
<1> HIDE DEF d, e, C, D
<1>4. WholeDesign(d, C) /\ WholeDesign(e, D) /\ Partition(d) = Partition(e)
  BY DEF d, e, C, D
<1>5. CrossGram(d, e, row)
        = [xy \in C \X D |-> SumFunction([i \in Obs |-> i * Entry(xy[1], i) * Entry(xy[2], i)])]
  <2> DEFINE blockwise(x, y) ==
               LET both == {p \in Matching(d, e) : x \in p[1].cols /\ y \in p[2].cols}
               IN SumFunction([p \in both |->
                    SumFunction([i \in p[1].rows |-> row[i] * p[1].values[i][x] * p[2].values[i][y]])])
             dense(x, y) == SumFunction([i \in Obs |-> i * Entry(x, i) * Entry(y, i)])
  <2>1. ASSUME NEW x \in C, NEW y \in D PROVE blockwise(x, y) = dense(x, y)
    <3>1. (\A i \in Obs : Entry(x, i) \in Int) /\ \A i \in Obs : Entry(y, i) \in Int
      BY <1>2
    <3> QED
      BY <1>1, <1>4, <3>1, CrossEntry
  <2>2. CrossGram(d, e, row) = [xy \in C \X D |-> blockwise(xy[1], xy[2])]
    BY <1>3 DEF CrossGram
  <2> HIDE DEF blockwise, dense
  <2>3. [xy \in C \X D |-> blockwise(xy[1], xy[2])] = [xy \in C \X D |-> dense(xy[1], xy[2])]
    BY <2>1
  <2> QED
    BY <2>2, <2>3 DEF dense
<1>6. Cols(all) = C \cup D
  BY <1>4, StackedColumns
<1>7. MatVec(all, beta) = [i \in Obs |-> SumFunction([col \in Cols(all) |-> (1 + col[2]) * Entry(col, i)])]
  <2> DEFINE blockwise(i) == LET b == CHOOSE b \in all.of : i \in b.rows
                             IN SumFunction([col \in b.cols |-> b.values[i][col] * beta[col]])
             dense(i) == SumFunction([col \in Cols(all) |-> (1 + col[2]) * Entry(col, i)])
  <2>1. ASSUME NEW i \in Obs PROVE blockwise(i) = dense(i)
    <3> DEFINE b == CHOOSE b \in all.of : i \in b.rows
               f == [col \in b.cols |-> b.values[i][col] * beta[col]]
               g == [col \in Cols(all) |-> (1 + col[2]) * Entry(col, i)]
    <3>1. /\ b.cols \subseteq C \cup D
          /\ \A x \in b.cols : b.values[i][x] = Entry(x, i)
          /\ \A x \in (C \cup D) \ b.cols : Entry(x, i) = 0
      BY <1>4, StackedRow
    <3>2. IsFiniteSet(Cols(all))
      BY <1>2, <1>6, FS_Union
    <3>3. \A x \in Cols(all) : g[x] = (1 + x[2]) * Entry(x, i) /\ beta[x] = 1 + x[2]
      OBVIOUS
    <3>4. \A x \in b.cols : f[x] = b.values[i][x] * beta[x]
      OBVIOUS
    <3>5. DOMAIN f = b.cols /\ DOMAIN g = Cols(all)
      OBVIOUS
    <3> HIDE DEF b, f, g, beta, all
    <3>6. \A x \in b.cols : f[x] \in Int /\ g[x] = f[x]
      <4> TAKE x \in b.cols
      <4>1. x[2] \in Int /\ Entry(x, i) \in Int /\ x \in Cols(all)
        BY <1>2, <1>6, <3>1
      <4>2. f[x] = Entry(x, i) * (1 + x[2]) /\ g[x] = (1 + x[2]) * Entry(x, i)
        BY <3>1, <3>3, <3>4, <4>1
      <4> QED
        BY <4>1, <4>2
    <3>7. \A x \in Cols(all) \ b.cols : g[x] = 0
      <4> TAKE x \in Cols(all) \ b.cols
      <4>1. x[2] \in Int /\ Entry(x, i) = 0
        BY <1>2, <1>6, <3>1
      <4> QED
        BY <3>3, <4>1
    <3>8. SumFunction(f) = SumFunction(g)
      BY <1>6, <3>1, <3>2, <3>5, <3>6, <3>7, SumsAgree
    <3> QED
      BY <3>8 DEF b, f, g
  <2>2. MatVec(all, beta) = [i \in Obs |-> blockwise(i)]
    BY DEF MatVec
  <2> HIDE DEF blockwise, dense
  <2>3. [i \in Obs |-> blockwise(i)] = [i \in Obs |-> dense(i)]
    BY <2>1
  <2> QED
    BY <2>2, <2>3 DEF dense
<1> QED
  BY <1>4, <1>5, <1>6, <1>7 DEF SameProducts, d, e, C, D

-----------------------------------------------------------------------------
(* The invariant of the design compiler.                                      *)

\* Phases: nothing stored, stored as asked, after the ranks were resolved.
Unstored == {"start", "omit_unmatched", "structural", "store"}
Asked == {"stored", "combined", "underidentified"}
AfterRanks == {"resolved", "subset"}

\* What holds of a design in each phase.
DesignInv ==
  /\ call \in Calls /\ phase \in Unstored \cup Asked \cup AfterRanks
  /\ phase \notin {"start", "omit_unmatched"} => ActiveTyped
  /\ phase \in Unstored => stored = <<>>
  /\ phase \notin AfterRanks => chosen = <<>>
  /\ phase \in Asked =>
       DOMAIN stored = RoleNames /\ \A r \in RoleNames : WholeDesign(stored[r], ColumnsOf(r, active))
  /\ phase = "stored" =>
       \A r \in RoleNames : stored[r].form = "block" \/ (stored[r].form = "dense" /\ stored[r].of = Dense(r))
  /\ phase = "combined" => \A q, r \in RoleNames : Partition(stored[q]) = Partition(stored[r])
  /\ phase \in AfterRanks =>
       /\ DOMAIN stored = RoleNames /\ DOMAIN chosen = RoleNames
       /\ \A r \in RoleNames : Apart(stored[r]) /\ SameEntries(stored[r], chosen[r])
       /\ phase = "resolved" => \A r \in RoleNames : UNION Partition(stored[r]) = Obs

\* What the invariant says of a design makes its products the dense ones.
LEMMA DesignStands == DesignInv => BlocksAreDense
<1> SUFFICES ASSUME DesignInv PROVE BlocksAreDense
  OBVIOUS
<1>1. CASE phase \in Unstored
  BY <1>1 DEF DesignInv, BlocksAreDense, Unstored
<1>2. CASE phase \in Asked
  <2>1. /\ call \in Calls /\ ActiveTyped /\ chosen = <<>> /\ DOMAIN stored = RoleNames
        /\ \A r \in RoleNames : WholeDesign(stored[r], ColumnsOf(r, active))
    BY <1>2 DEF DesignInv, Asked, AfterRanks
  <2>2. ASSUME NEW r \in DOMAIN stored
        PROVE  EveryRowOnce(stored[r]) /\ SameEntries(stored[r], Estimated(r))
    <3>1. WholeDesign(stored[r], ColumnsOf(r, active)) /\ Estimated(r) = ColumnsOf(r, active)
      BY <2>1, <2>2 DEF Estimated
    <3> QED
      BY <3>1 DEF WholeDesign, Covers, Apart, EveryRowOnce
  <2>3. ASSUME phase = "combined", NEW q \in DOMAIN stored, NEW r \in DOMAIN stored
        PROVE  SameProducts(q, r)
    <3>1. Partition(stored[q]) = Partition(stored[r])
      BY <2>1, <2>3 DEF DesignInv
    <3> QED
      BY <2>1, <2>3, <3>1, ProductsAgree
  <2> QED
    BY <2>2, <2>3 DEF BlocksAreDense
<1>3. CASE phase \in AfterRanks
  <2>1. /\ DOMAIN stored = RoleNames /\ DOMAIN chosen = RoleNames
        /\ \A r \in RoleNames : Apart(stored[r]) /\ SameEntries(stored[r], chosen[r])
        /\ phase = "resolved" => \A r \in RoleNames : UNION Partition(stored[r]) = Obs
    BY <1>3 DEF DesignInv
  <2>2. ASSUME NEW r \in DOMAIN stored
        PROVE  EveryRowOnce(stored[r]) /\ SameEntries(stored[r], Estimated(r))
    <3>1. Estimated(r) = chosen[r]
      BY <2>1, <2>2 DEF Estimated
    <3>2. EveryRowOnce(stored[r])
      BY <1>3, <2>1, <2>2 DEF EveryRowOnce, Apart, AfterRanks
    <3> QED
      BY <2>1, <2>2, <3>1, <3>2
  <2> QED
    BY <1>3, <2>2 DEF BlocksAreDense, AfterRanks
<1> QED
  BY <1>1, <1>2, <1>3 DEF DesignInv

\* What a step leaves of a design when the request and its columns stand.
LEMMA StandsAfter ==
  ASSUME call' = call, active' = active
  PROVE  /\ ActiveTyped => ActiveTyped'
         /\ RoleNames' = RoleNames /\ \A r : Dense(r)' = Dense(r)
         /\ \A r : WholeDesign(stored'[r], ColumnsOf(r, active)) => WholeDesign(stored[r], ColumnsOf(r, active))'
         /\ \A r : SameEntries(stored'[r], chosen'[r]) => SameEntries(stored[r], chosen[r])'
<1>1. /\ TermIds' = TermIds /\ RoleNames' = RoleNames
      /\ \A t : Observed(t)' = Observed(t)
      /\ \A col, i : Entry(col, i)' = Entry(col, i)
      /\ \A r : ColumnsOf(r, active)' = ColumnsOf(r, active)
  <2>1. \A r, act : ColumnsOf(r, act)' = ColumnsOf(r, act)
    BY OfRequest
  <2>2. \A r : RoleTerms(r)' = RoleTerms(r)
    BY OfRequest
  <2>3. \A r : ColumnsOf(r, active)' = ColumnsOf(r, active)
    BY <2>2 DEF ColumnsOf
  <2> QED
    BY <2>3, OfRequest
<1>2. ActiveTyped => ActiveTyped'
  BY <1>1 DEF ActiveTyped
<1>3. ASSUME NEW r PROVE Dense(r)' = Dense(r)
  <2> DEFINE cols == ColumnsOf(r, active)
             values(i) == [col \in cols |-> Entry(col, i)]
  <2>1. \A i : values(i)' = values(i)
    BY <1>1
  <2>2. Dense(r) = {[rows |-> Obs, cols |-> cols, values |-> [i \in Obs |-> values(i)]]}
    BY DEF Dense, Block, Entry
  <2>3. Dense(r)' = {[rows |-> Obs, cols |-> cols', values |-> [i \in Obs |-> values(i)']]}
    BY DEF Dense, Block, Entry
  <2>4. cols' = cols
    BY <1>1
  <2> HIDE DEF cols, values
  <2>5. [i \in Obs |-> values(i)'] = [i \in Obs |-> values(i)]
    BY <2>1
  <2> QED
    BY <2>2, <2>3, <2>4, <2>5
<1>4. ASSUME NEW r, WholeDesign(stored'[r], ColumnsOf(r, active)) PROVE WholeDesign(stored[r], ColumnsOf(r, active))'
  BY <1>1, <1>4 DEF WholeDesign, Covers, SameEntries, Apart, Partition, Cols
<1>5. ASSUME NEW r, SameEntries(stored'[r], chosen'[r]) PROVE SameEntries(stored[r], chosen[r])'
  BY <1>1, <1>5 DEF SameEntries
<1> QED
  BY <1>1, <1>2, <1>3, <1>4, <1>5

-----------------------------------------------------------------------------
(* Every step keeps it.                                                       *)

\* The compiled terms have their observed cells, and nothing is stored yet.
LEMMA CompileKeeps == ASSUME DesignInv, CompileTerms PROVE DesignInv'
<1>1. call' = call /\ call \in Calls /\ stored' = <<>> /\ chosen' = <<>>
  BY DEF CompileTerms, Raise, DesignInv, Unstored, AfterRanks
<1>2. CASE active' = Requested /\ phase' \in {"structural", "store"}
  <2>1. \A t \in TermIds : Requested[t] \subseteq Observed(t) /\ DOMAIN Requested = TermIds
    BY DEF Requested, Selected
  <2>2. TermIds' = TermIds /\ \A t : Observed(t)' = Observed(t)
    BY <1>1, OfRequest
  <2>3. DOMAIN Requested = TermIds
    BY DEF Requested
  <2>4. ActiveTyped'
    BY <1>2, <2>1, <2>2, <2>3 DEF ActiveTyped
  <2> QED
    BY <1>1, <1>2, <2>4 DEF DesignInv, Unstored, Asked, AfterRanks
<1>3. CASE phase' = "omit_unmatched"
  BY <1>1, <1>3 DEF DesignInv, Unstored, Asked, AfterRanks
<1> QED
  BY <1>2, <1>3 DEF CompileTerms, Raise

\* The structural pass only takes cells away, before anything is stored.
LEMMA StructuralKeeps == ASSUME DesignInv, AgainstFE \/ AgainstTerm \/ NextTerm PROVE DesignInv'
<1>1. phase = "structural" /\ phase' \in {"structural", "store"} /\ UNCHANGED <<call, stored, chosen>>
  BY DEF AgainstFE, AgainstTerm, NextTerm, AtTerm, Reduced
<1>2. \/ active' = active
      \/ \E cells : active' = [active EXCEPT ![Here] = @ \ cells]
  BY DEF AgainstFE, AgainstTerm, NextTerm, AtTerm, Reduced
<1>3. TermIds' = TermIds /\ \A t : Observed(t)' = Observed(t)
  BY <1>1, OfRequest
<1>4. ActiveTyped
  BY <1>1 DEF DesignInv
<1>5. ActiveTyped'
  BY <1>2, <1>3, <1>4 DEF ActiveTyped
<1> QED
  BY <1>1, <1>5 DEF DesignInv, Unstored, Asked, AfterRanks

\* Storage by role: certified blocks or one dense block.
LEMMA StoreKeeps == ASSUME DesignInv, Store PROVE DesignInv'
<1>1. /\ phase = "store" /\ phase' = "stored" /\ call' = call /\ active' = active /\ chosen' = chosen
      /\ call \in Calls /\ ActiveTyped /\ chosen = <<>>
  BY DEF Store, DesignInv, Unstored, AfterRanks
<1>2. PICK blocked \in SUBSET RoleNames :
        /\ \A r \in blocked : Certified(r) # {}
        /\ stored' = [r \in RoleNames |->
                       [form |-> IF r \in blocked THEN "block" ELSE "dense",
                        of |-> IF r \in blocked THEN Blocks(r, Certified(r)) ELSE Dense(r)]]
  BY DEF Store
<1>3. ASSUME NEW r \in RoleNames
      PROVE  /\ WholeDesign(stored'[r], ColumnsOf(r, active))
             /\ stored'[r].form = "block" \/ (stored'[r].form = "dense" /\ stored'[r].of = Dense(r))
  <2>1. CASE r \in blocked
    <3>1. stored'[r].form = "block" /\ stored'[r].of = Blocks(r, Certified(r))
      BY <1>2, <2>1
    <3>2. Parted(Certified(r), Obs)
      BY <1>1, <1>2, <2>1, CertifiedParted
    <3> QED
      BY <1>1, <3>1, <3>2, BlocksWhole
  <2>2. CASE r \notin blocked
    <3>1. stored'[r].form = "dense" /\ stored'[r].of = Dense(r)
      BY <1>2, <2>2
    <3> QED
      BY <1>1, <3>1, DenseWhole
  <2> QED
    BY <2>1, <2>2
<1>4. /\ ActiveTyped' /\ RoleNames' = RoleNames /\ \A r : Dense(r)' = Dense(r)
      /\ \A r : WholeDesign(stored'[r], ColumnsOf(r, active)) => WholeDesign(stored[r], ColumnsOf(r, active))'
  BY <1>1, StandsAfter
<1>5. DOMAIN stored' = RoleNames
  BY <1>2
<1>6. \A r \in RoleNames : WholeDesign(stored[r], ColumnsOf(r, active))'
  BY <1>3, <1>4
<1> QED
  BY <1>1, <1>3, <1>4, <1>5, <1>6 DEF DesignInv, Unstored, Asked, AfterRanks

\* Roles stacked together are cut alike, or all made dense.
LEMMA CombineKeeps == ASSUME DesignInv, Combine PROVE DesignInv'
<1> DEFINE blocked == {r \in RoleNames : stored[r].form = "block"}
           r0 == CHOOSE r \in blocked : TRUE
           parts == Partition(stored[r0])
<1>1. /\ phase = "stored" /\ phase' = "combined" /\ call' = call /\ active' = active /\ chosen' = chosen
      /\ call \in Calls /\ ActiveTyped /\ chosen = <<>> /\ DOMAIN stored = RoleNames
      /\ \A r \in RoleNames : WholeDesign(stored[r], ColumnsOf(r, active))
      /\ \A r \in RoleNames : stored[r].form = "block" \/ (stored[r].form = "dense" /\ stored[r].of = Dense(r))
  BY DEF Combine, DesignInv, Asked, AfterRanks
<1>2. /\ blocked # {}
      /\ stored' = IF \A r, s \in blocked : Partition(stored[r]) = Partition(stored[s])
                   THEN [r \in RoleNames |-> Aligned(stored[r], parts)]
                   ELSE [r \in RoleNames |-> [form |-> "dense", of |-> Dense(r)]]
  BY DEF Combine
<1>3. r0 \in blocked /\ r0 \in RoleNames
  BY <1>2
<1>4. \A r \in blocked : r \in RoleNames /\ stored[r].form = "block"
  OBVIOUS
<1>5. \A r \in RoleNames \ blocked : stored[r].form = "dense" /\ stored[r].of = Dense(r)
  BY <1>1
<1> HIDE DEF blocked, r0
<1>6. Parted(parts, Obs)
  <2>1. WholeDesign(stored[r0], ColumnsOf(r0, active))
    BY <1>1, <1>3
  <2> QED
    BY <2>1 DEF WholeDesign, Covers, Apart, Partition, Parted
<1> HIDE DEF parts
<1>7. /\ DOMAIN stored' = RoleNames
      /\ \A r \in RoleNames : WholeDesign(stored'[r], ColumnsOf(r, active))
      /\ \A q, r \in RoleNames : Partition(stored'[q]) = Partition(stored'[r])
  <2>1. CASE \A r, s \in blocked : Partition(stored[r]) = Partition(stored[s])
    <3>1. DOMAIN stored' = RoleNames /\ \A r \in RoleNames : stored'[r] = Aligned(stored[r], parts)
      BY <1>2, <2>1
    <3>2. ASSUME NEW r \in RoleNames
          PROVE  WholeDesign(stored'[r], ColumnsOf(r, active)) /\ Partition(stored'[r]) = parts
      <4>1. CASE r \in blocked
        <5>1. stored'[r] = stored[r]
          BY <1>4, <3>1, <4>1 DEF Aligned
        <5>2. Partition(stored[r]) = parts
          BY <1>3, <2>1, <4>1 DEF parts
        <5> QED
          BY <1>1, <5>1, <5>2
      <4>2. CASE r \notin blocked
        <5>1. stored[r].form = "dense" /\ stored[r].of = Dense(r)
          BY <1>5, <4>2
        <5> QED
          BY <1>1, <1>6, <3>1, <5>1, AlignedWhole
      <4> QED
        BY <4>1, <4>2
    <3> QED
      BY <3>1, <3>2
  <2>2. CASE ~ \A r, s \in blocked : Partition(stored[r]) = Partition(stored[s])
    <3>1. DOMAIN stored' = RoleNames /\ \A r \in RoleNames : stored'[r].of = Dense(r)
      BY <1>2, <2>2
    <3>2. ASSUME NEW r \in RoleNames
          PROVE  WholeDesign(stored'[r], ColumnsOf(r, active)) /\ Partition(stored'[r]) = {Obs}
      BY <1>1, <3>1, DenseWhole
    <3> QED
      BY <3>1, <3>2
  <2> QED
    BY <2>1, <2>2
<1>8. /\ ActiveTyped' /\ RoleNames' = RoleNames
      /\ \A r : WholeDesign(stored'[r], ColumnsOf(r, active)) => WholeDesign(stored[r], ColumnsOf(r, active))'
  BY <1>1, StandsAfter
<1>9. \A r \in RoleNames : WholeDesign(stored[r], ColumnsOf(r, active))'
  BY <1>7, <1>8
<1>10. \A q, r \in RoleNames : (Partition(stored[q]) = Partition(stored[r]))'
  BY <1>7 DEF Partition
<1> QED
  BY <1>1, <1>7, <1>8, <1>9, <1>10 DEF DesignInv, Unstored, Asked, AfterRanks

\* A step that changes the phase alone, or nothing.
LEMMA RestKeeps ==
  ASSUME DesignInv, UNCHANGED <<call, active, stored, chosen>>,
         phase' = phase \/ (phase \in {"stored", "combined"} /\ phase' = "underidentified")
  PROVE  DesignInv'
<1>1. /\ ActiveTyped => ActiveTyped'
      /\ RoleNames' = RoleNames /\ \A r : Dense(r)' = Dense(r)
      /\ \A r : WholeDesign(stored'[r], ColumnsOf(r, active)) => WholeDesign(stored[r], ColumnsOf(r, active))'
      /\ \A r : SameEntries(stored'[r], chosen'[r]) => SameEntries(stored[r], chosen[r])'
  BY StandsAfter
<1>2. \A r : Partition(stored[r])' = Partition(stored[r]) /\ Apart(stored[r])' = Apart(stored[r])
  BY DEF Partition, Apart
<1>3. /\ call' \in Calls /\ phase' \in Unstored \cup Asked \cup AfterRanks
      /\ phase' \notin {"start", "omit_unmatched"} => ActiveTyped'
      /\ phase' \in Unstored => stored' = <<>>
      /\ phase' \notin AfterRanks => chosen' = <<>>
  BY <1>1 DEF DesignInv, Unstored, Asked, AfterRanks
<1>4. phase' \in Asked =>
        DOMAIN stored' = RoleNames' /\ \A r \in RoleNames' : WholeDesign(stored[r], ColumnsOf(r, active))'
  BY <1>1 DEF DesignInv, Asked
<1>5. phase' = "stored" =>
        \A r \in RoleNames' : stored'[r].form = "block" \/ (stored'[r].form = "dense" /\ stored'[r].of = Dense(r)')
  BY <1>1 DEF DesignInv
<1>6. phase' = "combined" => \A q, r \in RoleNames' : Partition(stored[q])' = Partition(stored[r])'
  BY <1>1, <1>2 DEF DesignInv
<1>7. phase' \in AfterRanks =>
       /\ DOMAIN stored' = RoleNames' /\ DOMAIN chosen' = RoleNames'
       /\ \A r \in RoleNames' : Apart(stored[r])' /\ SameEntries(stored[r], chosen[r])'
       /\ phase' = "resolved" => \A r \in RoleNames' : UNION Partition(stored[r])' = Obs
  BY <1>1, <1>2 DEF DesignInv, AfterRanks
<1> QED
  BY <1>3, <1>4, <1>5, <1>6, <1>7 DEF DesignInv

\* Columns the ranks reject leave every block.
LEMMA ResolveKeeps == ASSUME DesignInv, ResolveColumns PROVE DesignInv'
<1> DEFINE controls == Resolved(ColumnsOf(1, active), {})
           held == [r \in RoleNames |-> IF r = 1 THEN controls ELSE Resolved(ColumnsOf(r, active), controls)]
<1>1. /\ phase \in {"stored", "combined"} /\ call' = call /\ active' = active
      /\ call \in Calls /\ ActiveTyped /\ DOMAIN stored = RoleNames
      /\ \A r \in RoleNames : WholeDesign(stored[r], ColumnsOf(r, active))
  BY DEF ResolveColumns, Raise, DesignInv, Asked
<1>2. \A r : Resolved(ColumnsOf(r, active), {}) \in SUBSET ColumnsOf(r, active)
             /\ Resolved(ColumnsOf(r, active), controls) \in SUBSET ColumnsOf(r, active)
  <2> TAKE r
  <2>1. ColumnsOf(r, active) \in SUBSET (Nat \X Int) /\ IsFiniteSet(ColumnsOf(r, active))
    BY <1>1, ColumnsFacts
  <2> QED
    BY <2>1, ResolvedOfRequest
<1>3. DOMAIN held = RoleNames /\ \A r \in RoleNames : held[r] \in SUBSET ColumnsOf(r, active)
  BY <1>2
<1>4. \/ phase' = "underidentified" /\ UNCHANGED <<call, active, stored, chosen>>
      \/ /\ chosen' = held /\ phase' = "resolved"
         /\ stored' = [r \in RoleNames |-> SelectColumns(stored[r], held[r])]
  BY DEF ResolveColumns, Raise
<1> HIDE DEF held
<1>5. CASE phase' = "underidentified" /\ UNCHANGED <<call, active, stored, chosen>>
  BY <1>1, <1>5, RestKeeps
<1>6. CASE /\ chosen' = held /\ phase' = "resolved"
           /\ stored' = [r \in RoleNames |-> SelectColumns(stored[r], held[r])]
  <2>1. ASSUME NEW r \in RoleNames PROVE Covers(stored'[r], chosen'[r])
    <3>1. stored'[r] = SelectColumns(stored[r], held[r]) /\ chosen'[r] = held[r]
      BY <1>6
    <3>2. Covers(stored[r], ColumnsOf(r, active)) /\ held[r] \in SUBSET ColumnsOf(r, active)
      BY <1>1, <1>3 DEF WholeDesign
    <3> QED
      BY <3>1, <3>2, SelectedCovers
  <2>2. /\ ActiveTyped' /\ RoleNames' = RoleNames
        /\ \A r : SameEntries(stored'[r], chosen'[r]) => SameEntries(stored[r], chosen[r])'
    BY <1>1, StandsAfter
  <2>3. DOMAIN stored' = RoleNames /\ DOMAIN chosen' = RoleNames
    BY <1>3, <1>6
  <2>4. \A r \in RoleNames : SameEntries(stored[r], chosen[r])'
    BY <2>1, <2>2 DEF Covers
  <2>5. \A r \in RoleNames : Apart(stored[r])' /\ UNION Partition(stored[r])' = Obs
    <3>1. \A r \in RoleNames : Apart(stored'[r]) /\ UNION Partition(stored'[r]) = Obs
      BY <2>1 DEF Covers
    <3> QED
      BY <3>1 DEF Apart, Partition
  <2> QED
    BY <1>1, <1>6, <2>2, <2>3, <2>4, <2>5 DEF DesignInv, Unstored, Asked, AfterRanks
<1> QED
  BY <1>4, <1>5, <1>6

\* Rows that separation drops leave every block.
LEMMA DropKeeps == ASSUME DesignInv, DropRows PROVE DesignInv'
<1>1. /\ phase = "resolved" /\ phase' = "subset" /\ UNCHANGED <<call, active, chosen>>
      /\ call \in Calls /\ ActiveTyped /\ DOMAIN stored = RoleNames /\ DOMAIN chosen = RoleNames
      /\ \A r \in RoleNames : Apart(stored[r]) /\ SameEntries(stored[r], chosen[r])
  BY DEF DropRows, DesignInv, AfterRanks
<1>2. PICK keep : stored' = [r \in RoleNames |-> SubsetRows(stored[r], keep)]
  BY DEF DropRows
<1>3. ASSUME NEW r \in RoleNames PROVE Apart(stored'[r]) /\ SameEntries(stored'[r], chosen'[r])
  BY <1>1, <1>2, SubsetStays
<1>4. /\ ActiveTyped' /\ RoleNames' = RoleNames
      /\ \A r : SameEntries(stored'[r], chosen'[r]) => SameEntries(stored[r], chosen[r])'
  BY <1>1, StandsAfter
<1>5. DOMAIN stored' = RoleNames
  BY <1>2
<1>6. \A r \in RoleNames : Apart(stored[r])' /\ SameEntries(stored[r], chosen[r])'
  BY <1>3, <1>4 DEF Apart
<1> QED
  BY <1>1, <1>4, <1>5, <1>6 DEF DesignInv, Unstored, Asked, AfterRanks

\* The inductive invariant of the design compiler, for any request: what is
\* stored takes every row once and holds the entries of its columns, after
\* alignment and column selection too; rows dropped leave it so on the rest
\* (compute/block_design.py).
THEOREM DesignInductive == DesignSpec => []DesignInv
<1>1. DesignInit => DesignInv
  BY DEF DesignInit, DesignInv, Unstored, Asked, AfterRanks
<1>2. DesignInv /\ [DesignNext]_designVars => DesignInv'
  <2> SUFFICES ASSUME DesignInv, [DesignNext]_designVars PROVE DesignInv'
    OBVIOUS
  <2>1. CASE CompileTerms
    BY <2>1, CompileKeeps
  <2>2. CASE AgainstFE \/ AgainstTerm \/ NextTerm
    BY <2>2, StructuralKeeps
  <2>3. CASE Store
    BY <2>3, StoreKeeps
  <2>4. CASE Combine
    BY <2>4, CombineKeeps
  <2>5. CASE ResolveColumns
    BY <2>5, ResolveKeeps
  <2>6. CASE DropRows
    BY <2>6, DropKeeps
  <2>7. CASE UNCHANGED designVars
    BY <2>7, RestKeeps DEF designVars
  <2> QED
    BY <2>1, <2>2, <2>3, <2>4, <2>5, <2>6, <2>7 DEF DesignNext
<1> QED
  BY <1>1, <1>2, PTL DEF DesignSpec

\* Blocks are the dense design, for any request, storage and course: every row
\* is in one block, every entry a block leaves out is zero, and the sums and
\* products estimators take block by block are those of the dense columns
\* (BlockDesign.cross_gram, matvec, hstack_block_designs).
THEOREM BlocksStayDense == DesignSpec => []BlocksAreDense
BY DesignInductive, DesignStands, PTL

=================================================================================
