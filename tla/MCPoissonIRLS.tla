----------------------------- MODULE MCPoissonIRLS -----------------------------
(* Configurations of the two loops with the default tolerances (1e-4 to start, *)
(* 1e-8, 1e-9 for the projection) and others around them.                      *)
EXTENDS PoissonIRLS

Tolerances == {<<4, 8, 9>>, <<6, 3, 3>>, <<2, 12, 12>>, <<11, 14, 16>>}

Config(iv, t, min, iters, most, flags) ==
  [iv |-> iv, start |-> t[1], tol |-> t[2], target |-> t[3], minOk |-> min,
   maxIter |-> iters, maxHalving |-> most, fastSolver |-> flags[1],
   fastPartial |-> flags[2], detectMu |-> TRUE, manyGroups |-> flags[3], columns |-> TRUE]

MCConfigs ==
  {Config(FALSE, t, m, 6, 0, <<a, b, g>>) :
      t \in Tolerances, m \in {1, 2}, a \in BOOLEAN, b \in BOOLEAN, g \in BOOLEAN}
  \cup {Config(TRUE, t, m, 6, h, <<FALSE, FALSE, g>>) :
      t \in Tolerances, m \in {1, 2}, h \in {0, 2}, g \in BOOLEAN}

MCClasses == {0, 1, 3, 8, 9, 12, 16}
=============================================================================
