---------------------------- MODULE MCCoreProjection ----------------------------
(* Every pair of FE partitions of the rows, level names in first-use order, and *)
(* one projection of each kind on the core they leave.                          *)
EXTENDS CoreProjection

FirstUse == {c \in [Rows -> Levels] :
                 \A i \in Rows : \/ c[i] = 0
                                 \/ \E k \in Rows : k < i /\ c[k] >= c[i] - 1}

CanonicalSamples == CoreSamples(FirstUse)

IndexedJob(k, f64) == [width |-> k, float64 |-> f64, indexed |-> TRUE, fused |-> 1,
                       zero |-> {}, weighted |-> FALSE]

\* Widths on both sides of each switch: one column, an unrolled kernel, one
\* block of five with a tail, no tail; float32; a level without weight; and the
\* fused kernel with a last block that is short.
KernelJobs == {IndexedJob(2, TRUE), IndexedJob(11, TRUE), IndexedJob(2, FALSE),
               [IndexedJob(1, TRUE) EXCEPT !.weighted = TRUE, !.zero = {1, 2, 3}],
               [IndexedJob(3, TRUE) EXCEPT !.indexed = FALSE, !.fused = 2]}
=============================================================================
