--------------------------- MODULE MCPersistentStore ---------------------------
(* Two processes on one data file whose columns have two contents each. *)
EXTENDS PersistentStore

CONSTANTS p1, p2, v1, v2

Quiet == [validation : {"strict", "metadata"}, quiet : {TRUE}]

Strings == [labels : {"c1", "c2"}, hashable : {FALSE}]
OneCluster == [labels : {"c1"}, hashable : {TRUE}]

Symmetry == Permutations({p1, p2}) \cup Permutations({v1, v2})
=============================================================================
