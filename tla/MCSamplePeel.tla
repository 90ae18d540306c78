----------------------------- MODULE MCSamplePeel -----------------------------
(* Samples for model checking SamplePeel.  Codes are canonical: level names  *)
(* appear in first-use order, as the package's dense encoders produce them.  *)
EXTENDS SamplePeel

\* Dense codes in first-use order.
Canonical == {c \in [Rows -> Levels] :
                 \A i \in Rows : \/ c[i] = 0
                                 \/ \E k \in Rows : k < i /\ c[k] >= c[i] - 1}

\* Rows sorted by the first term: every sample is one of these up to the names
\* of its rows.
SortedCodes == {c \in [Terms -> Canonical] :
                  \A i, k \in Rows : i < k => c[1][i] <= c[1][k]}

AllEligible == [j \in Terms |-> Rows]

\* Poisson peeling: any frequency weights (unit), any outcome signs.
PoissonSamples ==
  [code : SortedCodes, unit : SUBSET Rows, positive : SUBSET Rows,
   eligible : {AllEligible}, checkZero : {TRUE}, dropSingletons : BOOLEAN]

\* Linear peeling: no outcome check, any slope-only ineligible rows.
LinearSamples ==
  [code : SortedCodes, unit : {Rows, Rows \ {1}}, positive : {{}},
   eligible : [Terms -> SUBSET Rows], checkZero : {FALSE}, dropSingletons : {TRUE}]

AllSamples == PoissonSamples \cup LinearSamples
=============================================================================
