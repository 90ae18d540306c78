-------------------------------- MODULE Ordering --------------------------------
(***************************************************************************)
(* A finite set listed in an order, and labels numbered in their order.    *)
(***************************************************************************)
EXTENDS Integers, Sequences, FiniteSets, SequencesExt, FiniteSetsExt

\* The element at position k has k - 1 before it.
Sorted(S, Less(_, _)) ==
  [k \in 1..Cardinality(S) |-> CHOOSE x \in S : Cardinality({y \in S : Less(y, x)}) = k - 1]
Ascending(S) == Sorted(S, <)
Descending(S) == Sorted(S, >)

\* np.unique(..., return_inverse=True): 0, 1, ... for the labels f takes on S.
DenseCodes(f, S) == [x \in S |-> Cardinality({v \in {f[y] : y \in S} : v < f[x]})]
=============================================================================
