--------------------------- MODULE ProjectionKernels ---------------------------
(***************************************************************************)
(* One projection of a block of columns on one intercept-only FE term:     *)
(* the compiled kernels of econhdfe/hdfe/projection.py and the fused pair  *)
(* of absorber.py, on the codes of one term.                               *)
(*                                                                         *)
(* What is abstracted is the arithmetic.  A mean is known by the cells it  *)
(* was summed over, and a cell by the means it has lost, so that a cell    *)
(* read after it was changed, counted twice, changed twice or forgotten    *)
(* can be told from the right one.  Indexed kernels run a parallel loop    *)
(* over levels: each thread sums a level, then subtracts, block of columns *)
(* by block, while other threads are anywhere in other levels.             *)
(***************************************************************************)
EXTENDS Integers, FiniteSets, Sequences

CONSTANTS Threads     \* the threads of a parallel loop

VARIABLES job,      \* [codes, levels, width, float64, indexed, weights, fused]:
                    \* codes[i] is the dense level of the i-th row
          index,    \* the rows of each level, as the group index lists them
          lost,     \* lost[c]: the means subtracted from cell c so far
          todo,     \* levels (indexed) no thread has taken yet
          work,     \* work[t]: the level and block a thread is at, and its sums
          scratch   \* the fused kernel's sums, kept between blocks

kvars == <<job, index, lost, todo, work, scratch>>

KRows == 1..Len(job.codes)
KLevels == 0..(job.levels - 1)
Cells == KRows \X (1..job.width)
Idle == [level |-> -1, block |-> 0, sums |-> <<>>]
Poison == {<<0, 0>>}   \* a sum over cells of which some had changed already

-----------------------------------------------------------------------------
\* The row index: a counting sort of the rows by level.
Indptr(codes, g) == Cardinality({i \in DOMAIN codes : codes[i] < g})

Cursor(codes, i) == Indptr(codes, codes[i])
                      + Cardinality({k \in 1..(i - 1) : codes[k] = codes[i]})

Order(codes) ==
  [p \in 0..(Len(codes) - 1) |-> CHOOSE i \in DOMAIN codes : Cursor(codes, i) = p]

\* Certified when every level's rows are consecutive; its kernels then count
\* rows from the first one instead of reading the index.
Contiguous_LastTwo(codes, order, levels) ==
  \A g \in levels :
    LET lo == Indptr(codes, g)  hi == Indptr(codes, g + 1)
    IN hi > lo + 1 => order[hi - 1] - order[hi - 2] = 1
Contiguous(codes, order, levels) ==
  \A g \in levels :
    LET lo == Indptr(codes, g)  hi == Indptr(codes, g + 1)
    IN hi > lo => order[hi - 1] - order[lo] = hi - lo - 1

\* The rows the kernel visits for each level.
GroupIndex(codes, levels) ==
  LET order == Order(codes)
      contiguous == Contiguous(codes, order, levels)
      visited(lo, hi) ==
        IF lo >= hi THEN {}
        ELSE IF contiguous THEN order[lo]..(order[lo] + hi - lo - 1)
        ELSE {order[p] : p \in lo..(hi - 1)}
  IN [g \in levels |-> visited(Indptr(codes, g), Indptr(codes, g + 1))]

\* A level without weight is left alone; the unweighted kernels count rows.
ZeroDenominator(g) ==
  \A i \in KRows : job.codes[i] = g => job.weights # <<>> /\ job.weights[i] = 0

-----------------------------------------------------------------------------
(* The kernels, by the columns each holds an accumulator for in one pass over *)
(* a level's rows.  Scalar kernels are unrolled by width; a wide block goes   *)
(* five columns at a time and its last columns one by one.                   *)
OneByOne(k) == [j \in 1..k |-> {j}]
Unrolled(k) == <<1..k>>
Scalar2 == Unrolled(2)
Scalar3 == Unrolled(3)
Scalar4 == Unrolled(4)
Scalar5 == Unrolled(5)
Scalar6 == Unrolled(6)
Scalar7 == Unrolled(7)
Scalar8 == Unrolled(8)
Scalar9 == Unrolled(9)
Scalar10 == Unrolled(10)
Blocked5_NoTail(k) == [b \in 1..(k \div 5) |-> (5 * b - 4)..(5 * b)]
Blocked5(k) == [b \in 1..(k \div 5) |-> (5 * b - 4)..(5 * b)]
                 \o [j \in 1..(k % 5) |-> {(k - (k % 5)) + j}]

\* The scalar and blocked kernels exist for float64 only.
IndexedBlocks ==
  LET k == job.width
  IN CASE ~job.float64 \/ k < 2 -> OneByOne(k)
       [] job.float64 /\ k = 2  -> Scalar2
       [] job.float64 /\ k = 3  -> Scalar3
       [] job.float64 /\ k = 4  -> Scalar4
       [] job.float64 /\ k = 5  -> Scalar5
       [] job.float64 /\ k = 6  -> Scalar6
       [] job.float64 /\ k = 7  -> Scalar7
       [] job.float64 /\ k = 8  -> Scalar8
       [] job.float64 /\ k = 9  -> Scalar9
       [] job.float64 /\ k = 10 -> Scalar10
       [] job.float64 /\ k > 10 -> Blocked5(k)

\* Without an index, as many columns at a time as the scratch budget admits.
FusedBlocks ==
  LET k == job.width  b == job.fused
  IN [n \in 1..((k + b - 1) \div b) |->
        {j \in 1..k : (n - 1) * b < j /\ j <= n * b}]

Blocks == IF job.indexed THEN IndexedBlocks ELSE FusedBlocks

-----------------------------------------------------------------------------
Read(S) == IF \A c \in S : lost[c] = <<>> THEN S ELSE Poison
Subtract(S, sum) == [c \in DOMAIN lost |-> IF c \in S THEN Append(lost[c], sum[c[2]])
                                           ELSE lost[c]]

\* Started on a raw block.  The scratch still holds an earlier call's sums.
Start(j) ==
  /\ job' = j
  /\ index' = GroupIndex(j.codes, 0..(j.levels - 1))
  /\ lost' = [c \in (1..Len(j.codes)) \X (1..j.width) |-> <<>>]
  /\ todo' = 0..(j.levels - 1)
  /\ work' = [t \in Threads |-> Idle]
  /\ UNCHANGED scratch

\* prange hands a level to a thread, in whatever order the schedule has.
Take(t) ==
  /\ job.indexed
  /\ work[t] = Idle
  /\ \E g \in todo :
       /\ todo' = todo \ {g}
       /\ work' = IF index[g] = {} \/ ZeroDenominator(g) THEN work
                  ELSE [work EXCEPT ![t] = [level |-> g, block |-> 1, sums |-> <<>>]]
  /\ UNCHANGED <<job, index, lost, scratch>>

\* First pass over the level's rows: one sum per column of the block.
Accumulate(t) ==
  /\ job.indexed
  /\ work[t] # Idle
  /\ work[t].sums = <<>>
  /\ work' = [work EXCEPT ![t].sums =
       [j \in Blocks[work[t].block] |-> Read(index[work[t].level] \X {j})]]
  /\ UNCHANGED <<job, index, lost, todo, scratch>>

\* Second pass: every column of the block loses its own mean.
WriteBack(t) ==
  /\ job.indexed
  /\ work[t] # Idle
  /\ work[t].sums # <<>>
  /\ lost' = Subtract(index[work[t].level] \X Blocks[work[t].block], work[t].sums)
  /\ work' = [work EXCEPT ![t] =
       IF work[t].block = Len(Blocks) THEN Idle
       ELSE [level |-> work[t].level, block |-> work[t].block + 1, sums |-> <<>>]]
  /\ UNCHANGED <<job, index, todo, scratch>>

\* The fused kernel sums every level of a block into the scratch, cleared first,
\* and subtracts in a second scan of the codes; one thread, no index.
Cleared(b) == [g \in KLevels |-> {}]

FusedPass(t) ==
  /\ ~job.indexed
  /\ todo # {}
  /\ \A u \in Threads \ {t} : work[u] = Idle
  /\ LET b == IF work[t] = Idle THEN 1 ELSE work[t].block
         sum(g, j) == Read({c \in Cells : job.codes[c[1]] = g /\ c[2] = j})
         clear == Cleared(b)
         stale(g) == IF g \in DOMAIN clear THEN clear[g] ELSE {}
     IN /\ scratch' = [g \in KLevels |-> UNION {sum(g, j) : j \in Blocks[b]}]
        /\ lost' = [c \in Cells |->
             IF c[2] \in Blocks[b] /\ ~ZeroDenominator(job.codes[c[1]])
             THEN Append(lost[c], stale(job.codes[c[1]]) \union sum(job.codes[c[1]], c[2]))
             ELSE lost[c]]
        /\ IF b = Len(Blocks)
           THEN todo' = {} /\ work' = [work EXCEPT ![t] = Idle]
           ELSE /\ work' = [work EXCEPT ![t] = [level |-> 0, block |-> b + 1, sums |-> <<>>]]
                /\ UNCHANGED todo
  /\ UNCHANGED <<job, index>>

Step == \E t \in Threads : Take(t) \/ Accumulate(t) \/ WriteBack(t) \/ FusedPass(t)

Finished == todo = {} /\ \A t \in Threads : work[t] = Idle

\* What one projection on a term is: every cell loses exactly one mean, taken
\* over the raw cells of its own column at its own level.
CentredOnce ==
  \A c \in Cells :
    lost[c] = IF ZeroDenominator(job.codes[c[1]]) THEN <<>>
              ELSE <<{d \in Cells : d[2] = c[2] /\ job.codes[d[1]] = job.codes[c[1]]}>>
=============================================================================
