----------------------------- MODULE MCColumnPools -----------------------------
EXTENDS ColumnPools
MCSolvers == {1, 2} \X {"within", "twoway", "generic", "linear"}
MCNoSolver == <<0, "none">>
MCPositive == {<<1, "w">>, <<2, "w">>, <<2, "z">>}     \* z is zero on a row of the first
MCRoutes == {[engine |-> "within", method |-> "map", dims |-> 2],
             [engine |-> "optimized", method |-> "map", dims |-> 2],
             [engine |-> "within", method |-> "lsmr", dims |-> 3]}
=============================================================================
