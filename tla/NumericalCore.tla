----------------------------- MODULE NumericalCore -----------------------------
(***************************************************************************)
(* build_numerical_core of econhdfe/hdfe/numerical_core.py: the recursive  *)
(* peeling of degree-one FE levels that shrinks the system the iterative   *)
(* solver sees.                                                            *)
(*                                                                         *)
(* Here the FIFO holds levels, not rows.  The kernel never searches for    *)
(* the one row left at a level: it keeps, per level, the number of active  *)
(* rows and the sum of their indices, and reads the row off the sum.       *)
(***************************************************************************)
EXTENDS Integers, FiniteSets, Sequences, FiniteSetsExt

CONSTANTS NObs, NTerms, Samples

VARIABLES sample,    \* the FE codes (the other fields are those of a pure
                     \* degree-one peel, see CoreSamples)
          alive,     \* active: rows not yet peeled
          counts,    \* counts[j][v]: active rows at level v of term j
          rowSum,    \* row_sum[j][v]: sum of their zero-based indices
          queue,     \* the FIFO of levels <<j, v>>, its served prefix included
          head,      \* qh, one-based
          coreCode,  \* core_groups: dense codes of the surviving rows
          pc         \* "count" -> "peel"* -> "done"

Peel == INSTANCE CategoricalPeel

Rows == 1..NObs
Terms == 1..NTerms
Levels == 0..(NObs - 1)

\* A pure intercept system: every row may be peeled, outcomes play no part.
CoreSamples(codes) ==
  [code : [Terms -> codes], unit : {Rows}, positive : {{}},
   eligible : {[j \in Terms |-> Rows]}, checkZero : {FALSE}, dropSingletons : {TRUE}]

ASSUME NumericalCoreAssumption == /\ NObs \in Nat \ {0}
                                  /\ NTerms \in Nat \ {0}
                                  /\ Samples \subseteq CoreSamples([Rows -> Levels])

vars == <<sample, alive, counts, rowSum, queue, head, coreCode, pc>>

RowsAt(S, j, v) == {i \in S : sample.code[j][i] = v}
IndexSum_OneBased(S) == MapThenSumSet(LAMBDA i : i, S)
IndexSum(S) == MapThenSumSet(LAMBDA i : i - 1, S)

\* A set of levels as the kernel's loops over vertices meet it.
VertexBefore(x, y) == x[1] < y[1] \/ (x[1] = y[1] /\ x[2] < y[2])
InOrder(L) ==
  [a \in 1..Cardinality(L) |->
     CHOOSE x \in L : Cardinality({y \in L : VertexBefore(y, x)}) = a - 1]

\* The levels of degree one after the count.
DegreeOne(deg) == {lv \in Terms \X Levels : deg[lv[1]][lv[2]] = 1}

NoCore == [j \in Terms |-> <<>>]

Init == /\ sample \in Samples
        /\ alive = Rows
        /\ counts = [j \in Terms |-> [v \in Levels |-> 0]]
        /\ rowSum = [j \in Terms |-> [v \in Levels |-> 0]]
        /\ queue = <<>>
        /\ head = 1
        /\ coreCode = NoCore
        /\ pc = "count"

Count ==
  /\ pc = "count"
  /\ counts' = [j \in Terms |-> [v \in Levels |-> Cardinality(RowsAt(Rows, j, v))]]
  /\ rowSum' = [j \in Terms |-> [v \in Levels |-> IndexSum(RowsAt(Rows, j, v))]]
  /\ queue' = InOrder(DegreeOne(counts'))
  /\ pc' = "peel"
  /\ UNCHANGED <<sample, alive, head, coreCode>>

\* The row the kernel reads off a level it believes to have degree one.
Candidate(lv) == rowSum[lv[1]][lv[2]] + 1

Serving == pc = "peel" /\ head <= Len(queue)

\* The level changed since it was queued, or names no active row: continue.
SkipLevel ==
  /\ Serving
  /\ LET lv == queue[head]
     IN counts[lv[1]][lv[2]] # 1 \/ Candidate(lv) \notin alive
  /\ head' = head + 1
  /\ UNCHANGED <<sample, alive, counts, rowSum, queue, coreCode, pc>>

\* What a row takes out of a level's index sum when it goes.
Index_OneBased(i) == i
Index(i) == i - 1

\* The levels that losing a row brings down to degree one, in term order.
NewDegreeOne(deg, i) ==
  {<<j, sample.code[j][i]>> : j \in {t \in Terms : deg[t][sample.code[t][i]] = 1}}

PeelRow ==
  /\ Serving
  /\ LET lv == queue[head]
         i == Candidate(lv)
         at(j) == sample.code[j][i]
     IN /\ counts[lv[1]][lv[2]] = 1
        /\ i \in alive
        /\ alive' = alive \ {i}
        /\ counts' = [j \in Terms |-> [counts[j] EXCEPT ![at(j)] = @ - 1]]
        /\ rowSum' = [j \in Terms |-> [rowSum[j] EXCEPT ![at(j)] = @ - Index(i)]]
        /\ queue' = queue \o InOrder(NewDegreeOne(counts', i))
  /\ head' = head + 1
  /\ UNCHANGED <<sample, coreCode, pc>>

\* _dense_subset_codes: renumber the levels that survive, in ascending order.
DenseSubset_Gaps(c, S) == [i \in S |-> c[i]]
DenseSubset(c, S) ==
  [i \in S |-> Cardinality({v \in {c[k] : k \in S} : v < c[i]})]

Finish ==
  /\ pc = "peel"
  /\ head > Len(queue)
  /\ coreCode' = [j \in Terms |-> DenseSubset(sample.code[j], alive)]
  /\ pc' = "done"
  /\ UNCHANGED <<sample, alive, counts, rowSum, queue, head>>

Next == Count \/ SkipLevel \/ PeelRow \/ Finish

Spec == Init /\ [][Next]_vars /\ WF_vars(Next)

-----------------------------------------------------------------------------
TypeOK ==
  /\ sample \in Peel!SampleType
  /\ alive \subseteq Rows
  /\ counts \in [Terms -> [Levels -> Nat]]
  /\ rowSum \in [Terms -> [Levels -> Nat]]
  /\ queue \in Seq(Terms \X Levels)
  /\ head \in Nat \ {0}
  /\ pc \in {"count", "peel", "done"}

\* The FIFO is an array with one entry per level: no level is queued twice.
LevelQueuedOnce == \A a, b \in 1..Len(queue) : queue[a] = queue[b] => a = b

\* Whenever a level is believed to have degree one, the sum of its indices
\* names the one active row left there, so PeelRow never removes a wrong row
\* and the range test of the kernel never skips a level it should peel.
SumNamesTheRow ==
  pc # "count" =>
    \A j \in Terms, v \in Levels :
      counts[j][v] = 1 => RowsAt(alive, j, v) = {rowSum[j][v] + 1}

\* What the kernel relies on each time it serves a level.
IndexInvariant == TypeOK /\ LevelQueuedOnce /\ SumNamesTheRow

\* The core's codes describe the same partition of the surviving rows and are
\* dense, which is what the absorber that is built on them indexes by.
CoreCodesArePartition ==
  pc = "done" =>
    \A j \in Terms :
      /\ \A i, k \in alive : coreCode[j][i] = coreCode[j][k]
                               <=> sample.code[j][i] = sample.code[j][k]
      /\ {coreCode[j][i] : i \in alive} =
           0..(Cardinality({sample.code[j][i] : i \in alive}) - 1)

ImplementsPeel == Peel!Spec
=============================================================================
