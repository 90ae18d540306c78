---------------------------- MODULE MCPoissonSample ----------------------------
(***************************************************************************)
(* Small designs on which the stages of PoissonSample interact.            *)
(***************************************************************************)
EXTENDS PoissonSample

One == [r \in Rows |-> 1]

\* Crossed FEs in which a trim leaves lone rows, with a regressor and without;
\* a regressor without FE.
Dense ==
  {[code |-> <<<<0, 0, 1, 1, 1>>, <<0, 1, 0, 0, 1>>>>, x |-> <<<<1, 0, 0, 0, 1>>>>,
    component |-> One, disjoint |-> TRUE],
   [code |-> <<<<0, 0, 1, 1, 1>>, <<0, 1, 1, 2, 2>>>>, x |-> <<>>,
    component |-> One, disjoint |-> TRUE],
   [code |-> <<>>, x |-> <<<<-1, 0, 0, 1, 1>>>>, component |-> One, disjoint |-> TRUE]}

\* Two components: a column each, and one column that both share.
Blocked ==
  {[code |-> <<<<0, 0, 1, 1, 1>>>>, x |-> <<<<0, 1, 0, 0, 0>>, <<0, 0, 1, -1, 0>>>>,
    component |-> <<1, 1, 2, 2, 2>>, disjoint |-> TRUE],
   [code |-> <<<<0, 0, 1, 1, 1>>>>, x |-> <<<<1, -1, -1, 1, 1>>>>,
    component |-> <<1, 1, 2, 2, 2>>, disjoint |-> FALSE]}

MCMethods == {{"fe"}, {"relu"}, {"fe", "simplex"}, {"fe", "simplex", "relu"},
              {"mu"}, {"fe", "relu", "mu"}, {"simplex", "mu"}}

\* relu_strict matters only where an uncertified ReLU may warn, frequencies
\* where rows go as singletons, blocks where there is more than one component.
FitKinds ==
  {s \in [iv : BOOLEAN, block : BOOLEAN, unified : BOOLEAN, methods : MCMethods,
          drop : BOOLEAN, strict : BOOLEAN, fweight : BOOLEAN] :
     /\ Accepted(s)
     /\ s.strict => "relu" \in s.methods /\ ~s.unified
     /\ s.fweight => s.drop}
Fit(s, d, u) == [setting |-> s, design |-> d, unit |-> u]

MCFits ==
  {Fit(s, d, u) : s \in {k \in FitKinds : k.fweight /\ ~k.block}, d \in Dense, u \in {{}, {1, 4}, {2, 3, 5}}}
  \cup {Fit(s, d, Rows) : s \in {k \in FitKinds : ~k.fweight /\ ~k.block}, d \in Dense}
  \cup {Fit(s, d, Rows) : s \in {k \in FitKinds : ~k.fweight}, d \in Blocked}
=============================================================================
