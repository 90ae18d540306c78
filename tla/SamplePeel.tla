------------------------------ MODULE SamplePeel ------------------------------
(***************************************************************************)
(* peel_sample of econhdfe/hdfe/sample.py: the work-list that removes      *)
(* singleton rows and rows of all-zero FE levels.                          *)
(*                                                                         *)
(* The kernel _peel keeps two counters per FE level and a FIFO of rows.  A *)
(* pass of its outer loop is one Pop (take a row, label it, remove it) and *)
(* one Release per FE term (take the row out of its level of that term and *)
(* queue the rows this triggers).                                          *)
(***************************************************************************)
EXTENDS Integers, FiniteSets, Sequences

CONSTANTS NObs, NTerms, Samples

VARIABLES sample,      \* the arguments of peel_sample
          alive,       \* alive: rows not yet removed
          degree,      \* degree[j][v]: rows still counted at level v of term j
          npositive,   \* npositive[j][v]: those with a positive outcome
          zeroQueued,  \* zero_queued: levels whose zero rows were queued
          queue,       \* the FIFO, its served prefix included
          head,        \* index of the next row to serve
          queued,      \* queued: rows ever put on the FIFO
          reason,      \* reason: 0 kept, 1 singleton, 2 separated
          term,        \* the FE term whose counters the kernel updates next
          pc           \* "scan" -> ("pop" -> "term"*)* -> "done"

Peel == INSTANCE CategoricalPeel

Rows == 1..NObs
Terms == 1..NTerms
Levels == 0..(NObs - 1)

ASSUME SamplePeelAssumption == /\ NObs \in Nat \ {0}
                               /\ NTerms \in Nat \ {0}
                               /\ Samples \subseteq Peel!SampleType

counters == <<degree, npositive, zeroQueued>>
vars == <<sample, alive, degree, npositive, zeroQueued, queue, head, queued,
          reason, term, pc>>

\* Rows of S at level v of term j.
RowsAt(S, j, v) == {i \in S : sample.code[j][i] = v}

\* The sequences that list S in ascending row order: the order in which the
\* kernel's loops over rows and over a level's incidence list meet its rows.
Ascending(S) ==
  {s \in [1..Cardinality(S) -> S] :
      /\ {s[a] : a \in DOMAIN s} = S
      /\ \A a, b \in DOMAIN s : a < b => s[a] < s[b]}

Init == /\ sample \in Samples
        /\ alive = Rows
        /\ degree = [j \in Terms |-> [v \in Levels |-> 0]]
        /\ npositive = [j \in Terms |-> [v \in Levels |-> 0]]
        /\ zeroQueued = [j \in Terms |-> {}]
        /\ queue = <<>>
        /\ head = 1
        /\ queued = {}
        /\ reason = [i \in Rows |-> 0]
        /\ term = 1
        /\ pc = "scan"

\* What one row adds to the positive counters.
Positives_CountsRows(i) == 1
Positives(i) == IF i \in sample.positive THEN 1 ELSE 0

\* Rows the first pass queues, from the counters it has just filled.
FirstTaken_NoUnit(deg, pos) ==
  {i \in Rows : \E j \in Terms :
      LET v == sample.code[j][i]
      IN \/ sample.checkZero /\ pos[j][v] = 0
         \/ sample.dropSingletons /\ deg[j][v] = 1}
FirstTaken(deg, pos) ==
  {i \in Rows : \E j \in Terms :
      LET v == sample.code[j][i]
      IN \/ sample.checkZero /\ pos[j][v] = 0
         \/ /\ sample.dropSingletons
            /\ i \in sample.unit
            /\ deg[j][v] = 1
            /\ i \in sample.eligible[j]}

\* Count every level and queue the rows that are triggered at once.
Scan ==
  /\ pc = "scan"
  /\ degree' = [j \in Terms |-> [v \in Levels |-> Cardinality(RowsAt(Rows, j, v))]]
  /\ npositive' = [j \in Terms |-> [v \in Levels |->
                     Cardinality(RowsAt(sample.positive, j, v))]]
  /\ zeroQueued' = [j \in Terms |-> {v \in Levels : npositive'[j][v] = 0}]
  /\ queued' = FirstTaken(degree', npositive')
  /\ queue' \in Ascending(queued')
  /\ pc' = "pop"
  /\ UNCHANGED <<sample, alive, head, reason, term>>

\* The removal reason: a simultaneous trigger is put down to the all-zero level.
Why_SingletonFirst(i) ==
  IF \E j \in Terms : degree[j][sample.code[j][i]] = 1 THEN 1 ELSE 2
Why(i) ==
  IF sample.checkZero /\ \E j \in Terms : npositive[j][sample.code[j][i]] = 0
  THEN 2 ELSE 1

\* Serve the head of the FIFO.
Pop ==
  /\ pc = "pop"
  /\ head <= Len(queue)
  /\ LET i == queue[head]
     IN /\ reason' = [reason EXCEPT ![i] = Why(i)]
        /\ alive' = alive \ {i}
  /\ head' = head + 1
  /\ term' = 1
  /\ pc' = "term"
  /\ UNCHANGED <<sample, counters, queue, queued>>

\* Rows that leaving level v of term j triggers: all of the level when it has
\* just lost its last positive outcome, the unit singleton when one row is left.
Fresh_NeedsUnit(j, v, allZero, one) ==
  {o \in alive \ queued :
      /\ sample.code[j][o] = v
      /\ (allZero \/ one) /\ o \in sample.unit /\ o \in sample.eligible[j]}
Fresh(j, v, allZero, one) ==
  {o \in alive \ queued :
      /\ sample.code[j][o] = v
      /\ allZero \/ (one /\ o \in sample.unit /\ o \in sample.eligible[j])}

\* The inner loop over terms starts again with the next row.
NextTerm == IF term = NTerms THEN 1 ELSE term + 1

\* Take the row just served out of its level of one term.
Release ==
  /\ pc = "term"
  /\ LET i == queue[head - 1]
         v == sample.code[term][i]
         deg == degree[term][v] - 1
         pos == npositive[term][v] - Positives(i)
         allZero == sample.checkZero /\ pos = 0 /\ v \notin zeroQueued[term]
         one == sample.dropSingletons /\ deg = 1
         fresh == Fresh(term, v, allZero, one)
     IN /\ degree' = [degree EXCEPT ![term][v] = deg]
        /\ npositive' = [npositive EXCEPT ![term][v] = pos]
        /\ zeroQueued' = [zeroQueued EXCEPT ![term] =
                            IF allZero THEN @ \cup {v} ELSE @]
        /\ queued' = queued \cup fresh
        /\ \E s \in Ascending(fresh) : queue' = queue \o s
  /\ term' = NextTerm
  /\ pc' = IF term = NTerms THEN "pop" ELSE "term"
  /\ UNCHANGED <<sample, alive, head, reason>>

\* The FIFO is empty: alive and reason are returned.
Finish ==
  /\ pc = "pop"
  /\ head > Len(queue)
  /\ pc' = "done"
  /\ UNCHANGED <<sample, alive, counters, queue, head, queued, reason, term>>

Next == Scan \/ Pop \/ Release \/ Finish

Spec == Init /\ [][Next]_vars /\ WF_vars(Next)

-----------------------------------------------------------------------------
TypeOK ==
  /\ sample \in Peel!SampleType
  /\ alive \subseteq Rows
  /\ degree \in [Terms -> [Levels -> Int]]
  /\ npositive \in [Terms -> [Levels -> Int]]
  /\ zeroQueued \in [Terms -> SUBSET Levels]
  /\ queue \in Seq(Rows)
  /\ head \in Nat \ {0}
  /\ queued \subseteq Rows
  /\ reason \in [Rows -> 0..2]
  /\ term \in Terms
  /\ pc \in {"scan", "pop", "term", "done"}

\* The kernel writes queue[tail] into an array of n entries: no row is ever
\* put on the FIFO twice, so the write stays inside the array.
QueueFits ==
  /\ \A a, b \in 1..Len(queue) : queue[a] = queue[b] => a = b
  /\ Len(queue) <= NObs

\* The returned mask is the largest sub-sample without a triggered row; it
\* does not depend on the order in which the FIFO served the rows.
ReturnsGreatestStable == pc = "done" => alive = Peel!GreatestStable

\* A step that removes a row labels it by what is true of the sample at that
\* moment: separated exactly when one of its levels has no positive outcome
\* left, singleton only when it is alone at an eligible level.
LabelledByTrigger ==
  [][\A i \in alive \ alive' :
        /\ reason'[i] = 2 <=> Peel!ZeroLevel(alive, i)
        /\ reason'[i] = 1 => Peel!Singleton(alive, i)]_vars

\* "this never labels a positive outcome separated" (comment in _peel).
PositiveNeverSeparated == \A i \in sample.positive : reason[i] # 2

\* The kernel implements the order-free specification, termination included.
ImplementsPeel == Peel!Spec

\* The loop invariant of the kernel, in parts.
\* While a row is being released, the counters of the terms still to come
\* include it.
Serving == pc = "term"
Counted(j) == IF Serving /\ j >= term THEN alive \cup {queue[head - 1]} ELSE alive

\* The counters are what a recount of the level would give.
CountersExact ==
  pc # "scan" =>
    \A j \in Terms, v \in Levels :
      /\ degree[j][v] = Cardinality(RowsAt(Counted(j), j, v))
      /\ npositive[j][v] = Cardinality(RowsAt(Counted(j) \cap sample.positive, j, v))
      /\ v \in zeroQueued[j] => npositive[j][v] = 0

\* The rows that wait are triggered, and every triggered row waits.
WaitingIsTriggered ==
  /\ \A i \in queued \cap alive : Peel!Triggered(alive, i)
  /\ pc # "scan" => \A i \in alive \ queued, j \in Terms :
                       /\ ~ Peel!ZeroAt(Counted(j), j, i)
                       /\ ~ Peel!SingletonAt(Counted(j), j, i)

\* The FIFO is a served prefix of removed rows and a rest of rows still alive.
QueueSplit ==
  /\ queued = {queue[a] : a \in 1..Len(queue)}
  /\ Len(queue) = Cardinality(queued)
  /\ alive = Rows \ {queue[a] : a \in 1..(head - 1)}
  /\ head <= Len(queue) + 1
  /\ Serving => head > 1
  /\ pc = "scan" => queue = <<>> /\ head = 1
  /\ pc = "done" => head = Len(queue) + 1

LoopInvariant == QueueFits /\ CountersExact /\ WaitingIsTriggered /\ QueueSplit
=============================================================================
