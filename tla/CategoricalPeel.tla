--------------------------- MODULE CategoricalPeel ---------------------------
(***************************************************************************)
(* What sample peeling promises, whatever the order in which rows go.      *)
(*                                                                         *)
(* A row of the estimation sample belongs to one level of every fixed      *)
(* effect (FE) term.  A row is triggered with respect to the surviving     *)
(* rows S when                                                             *)
(*   - it is the only row of S at an eligible level and stands for one     *)
(*     observation (a singleton), or                                       *)
(*   - zero checking is on and a level it belongs to has no positive       *)
(*     outcome left in S (a separated row).                                *)
(* A step removes one triggered row.  The two peels of the package,        *)
(* econhdfe/hdfe/sample.py (module SamplePeel) and                         *)
(* econhdfe/hdfe/numerical_core.py (module NumericalCore), are shown to    *)
(* implement this specification.                                           *)
(***************************************************************************)
EXTENDS Integers, FiniteSets

CONSTANTS NObs,     \* number of rows handed to the peel
          NTerms,   \* number of FE terms
          Samples   \* the samples a run may be given

Rows == 1..NObs
Terms == 1..NTerms
Levels == 0..(NObs - 1)     \* dense codes are checked to lie below nobs

\* Everything peel_sample is given.  The Boolean arrays are sets of rows.
SampleType == [code          : [Terms -> [Rows -> Levels]],
               unit          : SUBSET Rows,
               positive      : SUBSET Rows,
               eligible      : [Terms -> SUBSET Rows],
               checkZero     : BOOLEAN,
               dropSingletons: BOOLEAN]

\* peel_sample returns early without terms or rows, so both are positive here.
\* A hypothesis of the theorems; the modules that instantiate this one assume
\* the same of their constants.
PeelAssumption == /\ NObs \in Nat \ {0}
                  /\ NTerms \in Nat \ {0}
                  /\ Samples \subseteq SampleType

VARIABLES sample,   \* the input, never changed
          alive     \* rows not yet removed

vars == <<sample, alive>>

AtLevel(S, j, i) == {k \in S : sample.code[j][k] = sample.code[j][i]}

\* Level of row i in term j has no positive outcome left in S.
ZeroAt(S, j, i) == sample.checkZero /\ AtLevel(S, j, i) \cap sample.positive = {}

\* Row i is the only row of S at its level of term j, and may be dropped for it.
SingletonAt(S, j, i) == /\ sample.dropSingletons
                        /\ i \in sample.unit
                        /\ i \in sample.eligible[j]
                        /\ AtLevel(S, j, i) = {i}

ZeroLevel(S, i) == \E j \in Terms : ZeroAt(S, j, i)
Singleton(S, i) == \E j \in Terms : SingletonAt(S, j, i)

Triggered(S, i) == ZeroLevel(S, i) \/ Singleton(S, i)

Stable(S) == \A i \in S : ~Triggered(S, i)

Init == /\ sample \in Samples
        /\ alive = Rows

Without(i) == alive \ {i}

Remove(i) == /\ i \in alive
             /\ Triggered(alive, i)
             /\ alive' = Without(i)
             /\ UNCHANGED sample

Next == \E i \in Rows : Remove(i)

Spec == Init /\ [][Next]_vars /\ WF_vars(Next)

TypeOK == /\ sample \in SampleType
          /\ alive \subseteq Rows

\* Removal never costs more than it must: every sub-sample that has no
\* triggered row of its own survives whole (peel_sample, "the final keep mask
\* is the unique monotone fixed point and is independent of row/FE order").
KeepsEveryStable == \A S \in SUBSET Rows : Stable(S) => S \subseteq alive

\* The mask that is returned once no row is triggered: one answer, whatever
\* order the rows went in.
GreatestStable == UNION {S \in SUBSET Rows : Stable(S)}
ResultIsGreatest == Stable(alive) => alive = GreatestStable

\* Peeling comes to an end.
EventuallyStable == <>Stable(alive)
=============================================================================
