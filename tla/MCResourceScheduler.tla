-------------------------- MODULE MCResourceScheduler --------------------------
(* Policies a user may give the shared model. *)
EXTENDS ResourceScheduler, TLC

Explicit == [threads |-> 1, memory |-> 2]

\* The threads of the pool are interchangeable.
PoolSymmetry == Permutations(Pool)
=============================================================================
