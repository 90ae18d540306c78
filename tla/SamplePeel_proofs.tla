--------------------------- MODULE SamplePeel_proofs ---------------------------
(***************************************************************************)
(* For every sample: the FIFO kernel stays inside its arrays, labels rows  *)
(* truthfully, and returns the largest sub-sample without a triggered row. *)
(*                                                                         *)
(* The kernel never looks at the sample once it has counted it; it trusts  *)
(* its counters.  So the inductive invariant is that the counters are      *)
(* exact (up to the row being released), that the rows on the FIFO are     *)
(* triggered, and that no triggered row is missing from it.                *)
(*                                                                         *)
(* At the end, the specification it implements: peeling in any order.  The *)
(* argument there is that a trigger is monotone: removing rows never takes *)
(* it away.                                                                *)
(***************************************************************************)
EXTENDS SamplePeel, TLAPS, FiniteSetTheorems

IInv == TypeOK /\ LoopInvariant

-----------------------------------------------------------------------------
\* Facts about sets of rows.
LEMMA RowsFinite ==
  ASSUME NEW S \in SUBSET Rows
  PROVE  IsFiniteSet(S) /\ Cardinality(S) \in Nat /\ Cardinality(S) <= NObs
<1>1. IsFiniteSet(Rows) /\ Cardinality(Rows) = NObs
  BY SamplePeelAssumption, FS_Interval DEF Rows
<1> QED
  BY <1>1, FS_Subset, FS_CardinalityType

LEMMA RowsAtFinite ==
  ASSUME NEW S \in SUBSET Rows, NEW j, NEW v
  PROVE  /\ RowsAt(S, j, v) \in SUBSET Rows
         /\ IsFiniteSet(RowsAt(S, j, v))
         /\ Cardinality(RowsAt(S, j, v)) \in Nat
<1>1. RowsAt(S, j, v) \in SUBSET Rows
  BY DEF RowsAt
<1> QED
  BY <1>1, RowsFinite

\* A level's count is zero exactly when no row of S is there, and one exactly
\* when the only row there is a given one.
LEMMA CountZero ==
  ASSUME NEW S \in SUBSET Rows, NEW j, NEW v
  PROVE  Cardinality(RowsAt(S, j, v)) = 0 <=> RowsAt(S, j, v) = {}
  BY RowsAtFinite, FS_EmptySet

LEMMA CountOne ==
  ASSUME NEW S \in SUBSET Rows, NEW j, NEW i \in S
  PROVE  Cardinality(RowsAt(S, j, sample.code[j][i])) = 1
           <=> RowsAt(S, j, sample.code[j][i]) = {i}
<1> DEFINE R == RowsAt(S, j, sample.code[j][i])
<1>1. i \in R
  BY DEF RowsAt
<1>2. Cardinality(R) = 1 <=> \E x : R = {x}
  BY RowsAtFinite, FS_Singleton
<1> QED
  BY <1>1, <1>2

\* Taking row i out of S takes one off its level's count and off no other.
LEMMA CountRemove ==
  ASSUME NEW S \in SUBSET Rows, NEW i \in S, NEW j, NEW v
  PROVE  Cardinality(RowsAt(S \ {i}, j, v)) =
           IF sample.code[j][i] = v THEN Cardinality(RowsAt(S, j, v)) - 1
                                    ELSE Cardinality(RowsAt(S, j, v))
<1>1. CASE sample.code[j][i] = v
  <2>1. RowsAt(S \ {i}, j, v) = RowsAt(S, j, v) \ {i} /\ i \in RowsAt(S, j, v)
    BY <1>1 DEF RowsAt
  <2>2. Cardinality(RowsAt(S, j, v) \ {i}) = Cardinality(RowsAt(S, j, v)) - 1
    BY <2>1, RowsAtFinite, FS_RemoveElement
  <2> QED
    BY <1>1, <2>1, <2>2
<1>2. CASE sample.code[j][i] # v
  <2>1. RowsAt(S \ {i}, j, v) = RowsAt(S, j, v)
    BY <1>2 DEF RowsAt
  <2> QED
    BY <1>2, <2>1
<1> QED
  BY <1>1, <1>2

\* The triggers of the abstract specification, read off counts.
LEMMA ZeroByCount ==
  ASSUME NEW S \in SUBSET Rows, NEW i \in Rows, NEW j
  PROVE  Peel!ZeroAt(S, j, i) <=>
           /\ sample.checkZero
           /\ Cardinality(RowsAt(S \cap sample.positive, j, sample.code[j][i])) = 0
<1>1. RowsAt(S \cap sample.positive, j, sample.code[j][i])
        = Peel!AtLevel(S, j, i) \cap sample.positive
  BY DEF RowsAt, Peel!AtLevel
<1>2. S \cap sample.positive \in SUBSET Rows
  OBVIOUS
<1> QED
  BY <1>1, <1>2, CountZero DEF Peel!ZeroAt

LEMMA SingleByCount ==
  ASSUME NEW S \in SUBSET Rows, NEW i \in S, NEW j
  PROVE  Peel!SingletonAt(S, j, i) <=>
           /\ sample.dropSingletons
           /\ i \in sample.unit
           /\ i \in sample.eligible[j]
           /\ Cardinality(RowsAt(S, j, sample.code[j][i])) = 1
<1>1. RowsAt(S, j, sample.code[j][i]) = Peel!AtLevel(S, j, i)
  BY DEF RowsAt, Peel!AtLevel
<1> QED
  BY <1>1, CountOne DEF Peel!SingletonAt

\* Removing other rows never takes a trigger away.
LEMMA TriggerMonotone ==
  ASSUME NEW T, NEW S \in SUBSET T, NEW i \in S, Peel!Triggered(T, i)
  PROVE  Peel!Triggered(S, i)
<1>1. \A j : Peel!AtLevel(S, j, i) \subseteq Peel!AtLevel(T, j, i)
  BY DEF Peel!AtLevel
<1>2. \A j : i \in Peel!AtLevel(S, j, i)
  BY DEF Peel!AtLevel
<1>3. ASSUME NEW j, Peel!ZeroAt(T, j, i) PROVE Peel!ZeroAt(S, j, i)
  BY <1>1, <1>3 DEF Peel!ZeroAt
<1>4. ASSUME NEW j, Peel!SingletonAt(T, j, i) PROVE Peel!SingletonAt(S, j, i)
  <2>1. Peel!AtLevel(S, j, i) = {i}
    BY <1>1, <1>2, <1>4 DEF Peel!SingletonAt
  <2> QED
    BY <2>1, <1>4 DEF Peel!SingletonAt
<1> QED
  BY <1>3, <1>4 DEF Peel!Triggered, Peel!ZeroLevel, Peel!Singleton

\* What it means to be listed in ascending order.
LEMMA AscendingFacts ==
  ASSUME NEW S \in SUBSET Rows, NEW s \in Ascending(S)
  PROVE  /\ s \in Seq(Rows) /\ s \in Seq(S)
         /\ Len(s) = Cardinality(S)
         /\ {s[a] : a \in 1..Len(s)} = S
         /\ \A a, b \in 1..Len(s) : s[a] = s[b] => a = b
<1>1. Cardinality(S) \in Nat
  BY RowsFinite
<1>2. s \in [1..Cardinality(S) -> S] /\ DOMAIN s = 1..Cardinality(S)
  BY DEF Ascending
<1>3. s \in Seq(S) /\ Len(s) = Cardinality(S)
  BY <1>1, <1>2
<1>4. s \in Seq(Rows)
  BY <1>1, <1>2
<1>5. {s[a] : a \in 1..Len(s)} = S
  BY <1>2, <1>3 DEF Ascending
<1>6. ASSUME NEW a \in 1..Len(s), NEW b \in 1..Len(s), s[a] = s[b] PROVE a = b
  <2> a \in 1..Cardinality(S) /\ b \in 1..Cardinality(S)
    BY <1>3
  <2>0. s[a] \in S /\ s[b] \in S
    BY <1>2
  <2>1. s[a] \in Int /\ s[b] \in Int
    <3>1. S \subseteq Rows /\ Rows \subseteq Int
      BY SamplePeelAssumption DEF Rows
    <3> QED
      BY <2>0, <3>1
  <2>2. (a < b => s[a] < s[b]) /\ (b < a => s[b] < s[a])
    BY <1>2, <1>3 DEF Ascending
  <2> QED
    BY <2>1, <2>2, <1>6
<1> QED
  BY <1>3, <1>4, <1>5, <1>6

-----------------------------------------------------------------------------
\* Init: nothing is counted and nothing is queued.
LEMMA InitIInv == Init => IInv
<1> SUFFICES ASSUME Init PROVE IInv
  OBVIOUS
<1>1. TypeOK
  <2>1. sample \in Peel!SampleType
    BY SamplePeelAssumption DEF Init
  <2>2. 1 \in Terms
    BY SamplePeelAssumption DEF Terms
  <2> QED
    BY <2>1, <2>2 DEF Init, TypeOK
<1>2. QueueFits
  BY SamplePeelAssumption DEF Init, QueueFits
<1>3. CountersExact /\ WaitingIsTriggered
  BY DEF Init, CountersExact, WaitingIsTriggered
<1>4. QueueSplit
  BY FS_EmptySet DEF Init, QueueSplit, Serving
<1> QED
  BY <1>1, <1>2, <1>3, <1>4 DEF IInv, LoopInvariant

\* The sample's shape, in this module's names.
LEMMA SampleShape ==
  ASSUME TypeOK
  PROVE  /\ \A j \in Terms, i \in Rows : sample.code[j][i] \in Levels
         /\ sample.positive \in SUBSET Rows
<1>1. Rows = Peel!Rows /\ Terms = Peel!Terms /\ Levels = Peel!Levels
  BY DEF Peel!Rows, Peel!Terms, Peel!Levels, Rows, Terms, Levels
<1>2. /\ sample.code \in [Peel!Terms -> [Peel!Rows -> Peel!Levels]]
      /\ sample.positive \in SUBSET Peel!Rows
  BY DEF TypeOK, Peel!SampleType
<1>3. ASSUME NEW j \in Terms, NEW i \in Rows PROVE sample.code[j][i] \in Levels
  <2>1. sample.code[j] \in [Peel!Rows -> Peel!Levels]
    BY <1>1, <1>2
  <2> QED
    BY <1>1, <2>1
<1> QED
  BY <1>1, <1>2, <1>3

\* Scan: the first count is exact and queues exactly the triggered rows.
LEMMA ScanIInv ==
  ASSUME IInv, Scan
  PROVE  IInv'
<1> USE DEF IInv, LoopInvariant
<1>1. queued' \in SUBSET Rows /\ alive = Rows /\ head = 1
  <2>1. alive = Rows
    BY DEF Scan, QueueSplit
  <2> QED
    BY <2>1 DEF Scan, FirstTaken, QueueSplit
<1>2. /\ queue' \in Seq(Rows)
      /\ Len(queue') = Cardinality(queued')
      /\ {queue'[a] : a \in 1..Len(queue')} = queued'
      /\ \A a, b \in 1..Len(queue') : queue'[a] = queue'[b] => a = b
  BY <1>1, AscendingFacts DEF Scan
<1>3. \A j \in Terms, v \in Levels :
        /\ degree'[j][v] = Cardinality(RowsAt(Rows, j, v))
        /\ npositive'[j][v] = Cardinality(RowsAt(sample.positive, j, v))
        /\ zeroQueued'[j] = {u \in Levels : npositive'[j][u] = 0}
  BY DEF Scan
<1>4. TypeOK'
  <2>1. \A j \in Terms, v \in Levels :
          /\ Cardinality(RowsAt(Rows, j, v)) \in Int
          /\ Cardinality(RowsAt(sample.positive, j, v)) \in Int
    <3>1. Rows \in SUBSET Rows /\ sample.positive \in SUBSET Rows
      BY SampleShape
    <3>2. \A S \in SUBSET Rows : \A j, v : Cardinality(RowsAt(S, j, v)) \in Nat
      BY RowsAtFinite
    <3> QED
      BY <3>1, <3>2
  <2>2. degree' \in [Terms -> [Levels -> Int]] /\ npositive' \in [Terms -> [Levels -> Int]]
    BY <2>1 DEF Scan
  <2>3. zeroQueued' \in [Terms -> SUBSET Levels]
    BY DEF Scan
  <2> QED
    BY <1>1, <1>2, <2>2, <2>3 DEF Scan, TypeOK
<1>5. QueueFits'
  <2>1. Len(queue') <= NObs
    BY <1>1, <1>2, RowsFinite
  <2> QED
    BY <1>2, <2>1 DEF QueueFits
<1>6. \A j : Counted(j)' = Rows
  BY <1>1 DEF Scan, Counted, Serving
<1>7. CountersExact'
  <2>1. Rows \cap sample'.positive = sample.positive /\ sample' = sample
    BY SampleShape DEF Scan
  <2>2. \A S, j, v : RowsAt(S, j, v)' = RowsAt(S, j, v)
    BY <2>1 DEF RowsAt
  <2> QED
    BY <1>3, <1>6, <2>1, <2>2 DEF CountersExact, RowsAt
<1>8. \A i \in Rows : i \in queued' <=> Peel!Triggered(Rows, i)
  <2> SUFFICES ASSUME NEW i \in Rows
               PROVE  i \in queued' <=> Peel!Triggered(Rows, i)
    OBVIOUS
  <2>1. \A j \in Terms :
          /\ Peel!ZeroAt(Rows, j, i) <=>
                sample.checkZero /\ npositive'[j][sample.code[j][i]] = 0
          /\ Peel!SingletonAt(Rows, j, i) <=>
                /\ sample.dropSingletons
                /\ i \in sample.unit
                /\ degree'[j][sample.code[j][i]] = 1
                /\ i \in sample.eligible[j]
    <3> SUFFICES ASSUME NEW j \in Terms
                 PROVE  /\ Peel!ZeroAt(Rows, j, i) <=>
                              sample.checkZero /\ npositive'[j][sample.code[j][i]] = 0
                        /\ Peel!SingletonAt(Rows, j, i) <=>
                              /\ sample.dropSingletons
                              /\ i \in sample.unit
                              /\ degree'[j][sample.code[j][i]] = 1
                              /\ i \in sample.eligible[j]
      OBVIOUS
    <3>1. Rows \cap sample.positive = sample.positive /\ Rows \in SUBSET Rows
      BY SampleShape
    <3>2. sample.code[j][i] \in Levels
      BY SampleShape
    <3>3. /\ degree'[j][sample.code[j][i]] = Cardinality(RowsAt(Rows, j, sample.code[j][i]))
          /\ npositive'[j][sample.code[j][i]] =
               Cardinality(RowsAt(sample.positive, j, sample.code[j][i]))
      BY <1>3, <3>2
    <3>4. Peel!ZeroAt(Rows, j, i) <=>
            sample.checkZero /\ npositive'[j][sample.code[j][i]] = 0
      BY <3>1, <3>3, ZeroByCount
    <3>5. Peel!SingletonAt(Rows, j, i) <=>
            /\ sample.dropSingletons
            /\ i \in sample.unit
            /\ degree'[j][sample.code[j][i]] = 1
            /\ i \in sample.eligible[j]
      BY <3>1, <3>3, SingleByCount
    <3> QED
      BY <3>4, <3>5
  <2>2. i \in queued' <=> \E j \in Terms : Peel!ZeroAt(Rows, j, i) \/ Peel!SingletonAt(Rows, j, i)
    BY <2>1 DEF Scan, FirstTaken
  <2>3. Terms = Peel!Terms
    BY DEF Terms, Peel!Terms
  <2> QED
    BY <2>2, <2>3 DEF Peel!Triggered, Peel!ZeroLevel, Peel!Singleton
<1>9. WaitingIsTriggered'
  <2>1. \A S, i, j : /\ Peel!Triggered(S, i)' <=> Peel!Triggered(S, i)
                     /\ Peel!ZeroAt(S, j, i)' <=> Peel!ZeroAt(S, j, i)
                     /\ Peel!SingletonAt(S, j, i)' <=> Peel!SingletonAt(S, j, i)
    BY DEF Scan, Peel!Triggered, Peel!ZeroLevel, Peel!Singleton, Peel!ZeroAt,
           Peel!SingletonAt, Peel!AtLevel
  <2>2. Terms = Peel!Terms
    BY DEF Terms, Peel!Terms
  <2>3. alive' = Rows
    BY <1>1 DEF Scan
  <2>4. \A i \in Rows \ queued', j \in Terms :
           ~ Peel!ZeroAt(Rows, j, i) /\ ~ Peel!SingletonAt(Rows, j, i)
    BY <1>8, <2>2 DEF Peel!Triggered, Peel!ZeroLevel, Peel!Singleton
  <2> QED
    BY <1>6, <1>8, <2>1, <2>3, <2>4 DEF WaitingIsTriggered
<1>10. QueueSplit'
  <2>1. pc' = "pop" /\ head' = 1 /\ alive' = Rows
    BY <1>1 DEF Scan
  <2> QED
    BY <1>2, <2>1 DEF QueueSplit, Serving
<1> QED
  BY <1>4, <1>5, <1>7, <1>9, <1>10
-----------------------------------------------------------------------------
\* The sample does not change, so a trigger is a matter of the rows alone.
LEMMA SampleKept ==
  ASSUME sample' = sample
  PROVE  /\ \A S, i : Peel!Triggered(S, i)' <=> Peel!Triggered(S, i)
         /\ \A S, i, j : Peel!ZeroAt(S, j, i)' <=> Peel!ZeroAt(S, j, i)
         /\ \A S, i, j : Peel!SingletonAt(S, j, i)' <=> Peel!SingletonAt(S, j, i)
         /\ \A S, j, v : RowsAt(S, j, v)' = RowsAt(S, j, v)
  BY DEF Peel!Triggered, Peel!ZeroLevel, Peel!Singleton, Peel!ZeroAt,
         Peel!SingletonAt, Peel!AtLevel, RowsAt

\* The head of the FIFO is a triggered row that is still alive.
LEMMA HeadAlive ==
  ASSUME IInv, pc = "pop", head <= Len(queue)
  PROVE  /\ queue[head] \in Rows
         /\ queue[head] \in alive
         /\ queue[head] \in queued
         /\ Peel!Triggered(alive, queue[head])
<1> USE DEF IInv, LoopInvariant
<1>1. head \in 1..Len(queue) /\ queue[head] \in Rows
  BY DEF TypeOK
<1>2. queue[head] \in queued
  BY <1>1 DEF QueueSplit
<1>3. \A a \in 1..(head - 1) : queue[a] # queue[head]
  BY <1>1 DEF QueueFits
<1>4. queue[head] \in alive
  BY <1>1, <1>3 DEF QueueSplit
<1> QED
  BY <1>1, <1>2, <1>4 DEF WaitingIsTriggered

\* Pop: the row goes, the counters still include it until it is released.
LEMMA PopIInv ==
  ASSUME IInv, Pop
  PROVE  IInv'
<1> USE DEF IInv, LoopInvariant
<1> DEFINE i == queue[head]
<1>1. i \in Rows /\ i \in alive /\ alive \subseteq Rows /\ head \in 1..Len(queue)
  BY HeadAlive DEF Pop, TypeOK
<1>2. TypeOK'
  <2>1. reason' \in [Rows -> 0..2] /\ alive' \subseteq Rows
    BY <1>1 DEF Pop, Why, TypeOK
  <2>2. term' \in Terms /\ head' \in Nat \ {0}
    BY <1>1, SamplePeelAssumption DEF Pop, Terms
  <2> QED
    BY <2>1, <2>2 DEF Pop, TypeOK, counters
<1>3. QueueFits'
  BY DEF Pop, QueueFits
<1>4. \A j \in Terms : Counted(j)' = alive /\ Counted(j) = alive
  <2>1. pc' = "term" /\ term' = 1 /\ queue'[head' - 1] = i /\ alive' = alive \ {i}
    BY <1>1 DEF Pop
  <2>2. \A j \in Terms : j >= 1
    BY DEF Terms
  <2>3. alive' \cup {i} = alive
    BY <1>1, <2>1
  <2> QED
    BY <2>1, <2>2, <2>3 DEF Pop, Counted, Serving
<1>5. CountersExact'
  <2>1. sample' = sample /\ pc # "scan" /\ UNCHANGED counters
    BY DEF Pop
  <2> QED
    BY <1>4, <2>1, SampleKept DEF CountersExact, counters
<1>6. WaitingIsTriggered'
  <2>1. sample' = sample /\ pc # "scan" /\ queued' = queued /\ alive' = alive \ {i}
    BY DEF Pop
  <2>2. ASSUME NEW o \in queued' \cap alive' PROVE Peel!Triggered(alive, o)'
    <3>1. o \in queued \cap alive /\ Peel!Triggered(alive, o)
      BY <2>1, <2>2 DEF WaitingIsTriggered
    <3>2. Peel!Triggered(alive \ {i}, o)
      BY <2>1, <2>2, <3>1, TriggerMonotone
    <3> QED
      BY <2>1, <3>2, SampleKept
  <2>3. ASSUME NEW o \in alive' \ queued', NEW j \in Terms
        PROVE  /\ ~ Peel!ZeroAt(Counted(j), j, o)'
               /\ ~ Peel!SingletonAt(Counted(j), j, o)'
    <3>1. /\ ~ Peel!ZeroAt(Counted(j), j, o)
          /\ ~ Peel!SingletonAt(Counted(j), j, o)
      BY <2>1, <2>3 DEF WaitingIsTriggered
    <3> QED
      BY <1>4, <2>1, <3>1, SampleKept
  <2> QED
    BY <2>2, <2>3 DEF WaitingIsTriggered
<1>7. QueueSplit'
  <2>1. /\ pc' = "term" /\ head' = head + 1 /\ queue' = queue /\ queued' = queued
        /\ alive' = alive \ {i}
    BY DEF Pop
  <2>2. 1..(head' - 1) = 1..(head - 1) \cup {head}
    BY <1>1, <2>1
  <2>3. alive' = Rows \ {queue[a] : a \in 1..(head' - 1)}
    BY <2>1, <2>2 DEF QueueSplit
  <2>4. /\ queued' = {queue'[a] : a \in 1..Len(queue')}
        /\ Len(queue') = Cardinality(queued')
    BY <2>1 DEF QueueSplit
  <2>5. head' <= Len(queue') + 1 /\ head' > 1
    BY <1>1, <2>1
  <2> QED
    BY <2>1, <2>3, <2>4, <2>5 DEF QueueSplit, Serving
<1> QED
  BY <1>2, <1>3, <1>5, <1>6, <1>7

-----------------------------------------------------------------------------
\* Queueing a set of rows: what the lengthened FIFO holds, and where.
LEMMA AppendFacts ==
  ASSUME NEW q \in Seq(Rows), NEW S \in SUBSET Rows, NEW s \in Ascending(S)
  PROVE  /\ q \o s \in Seq(Rows)
         /\ Len(q \o s) = Len(q) + Len(s)
         /\ \A a \in 1..Len(q) : (q \o s)[a] = q[a]
         /\ \A a \in 1..Len(s) : (q \o s)[Len(q) + a] = s[a]
         /\ {(q \o s)[a] : a \in 1..Len(q \o s)} = {q[a] : a \in 1..Len(q)} \cup S
<1>1. s \in Seq(Rows) /\ {s[a] : a \in 1..Len(s)} = S
  BY AscendingFacts
<1>2. /\ q \o s \in Seq(Rows)
      /\ Len(q \o s) = Len(q) + Len(s)
      /\ Len(q) \in Nat /\ Len(s) \in Nat
  BY <1>1
<1>3. \A a \in 1..Len(q \o s) :
         (q \o s)[a] = IF a <= Len(q) THEN q[a] ELSE s[a - Len(q)]
  BY <1>1
<1>4. \A a \in 1..Len(q) : (q \o s)[a] = q[a]
  BY <1>2, <1>3
<1>5. ASSUME NEW a \in 1..Len(s) PROVE (q \o s)[Len(q) + a] = s[a]
  <2>1. Len(q) + a \in 1..Len(q \o s) /\ ~ (Len(q) + a <= Len(q)) /\ Len(q) + a - Len(q) = a
    BY <1>2, <1>5
  <2> QED
    BY <1>3, <2>1
<1>6. ASSUME NEW x
      PROVE  x \in {(q \o s)[a] : a \in 1..Len(q \o s)}
               <=> x \in {q[a] : a \in 1..Len(q)} \cup {s[a] : a \in 1..Len(s)}
  <2>1. ASSUME NEW a \in 1..Len(q \o s), x = (q \o s)[a]
        PROVE  x \in {q[b] : b \in 1..Len(q)} \cup {s[b] : b \in 1..Len(s)}
    <3>1. CASE a <= Len(q)
      BY <1>2, <1>3, <2>1, <3>1
    <3>2. CASE ~ (a <= Len(q))
      <4>1. a - Len(q) \in 1..Len(s)
        BY <1>2, <2>1, <3>2
      <4> QED
        BY <1>3, <2>1, <3>2, <4>1
    <3> QED
      BY <3>1, <3>2
  <2>2. ASSUME NEW b \in 1..Len(q), x = q[b]
        PROVE  x \in {(q \o s)[a] : a \in 1..Len(q \o s)}
    <3>1. b \in 1..Len(q \o s)
      BY <1>2
    <3> QED
      BY <1>4, <2>2, <3>1
  <2>3. ASSUME NEW b \in 1..Len(s), x = s[b]
        PROVE  x \in {(q \o s)[a] : a \in 1..Len(q \o s)}
    <3>1. Len(q) + b \in 1..Len(q \o s)
      BY <1>2
    <3> QED
      BY <1>5, <2>3, <3>1
  <2> QED
    BY <2>1, <2>2, <2>3
<1> QED
  BY <1>1, <1>2, <1>4, <1>5, <1>6

\* The counters decide the triggers of the rows counted.
TriggersFromCounters ==
  \A j \in Terms, o \in alive :
    /\ Peel!ZeroAt(Counted(j), j, o) <=>
         sample.checkZero /\ npositive[j][sample.code[j][o]] = 0
    /\ Peel!SingletonAt(Counted(j), j, o) <=>
         /\ sample.dropSingletons
         /\ o \in sample.unit
         /\ o \in sample.eligible[j]
         /\ degree[j][sample.code[j][o]] = 1

\* A row being released is a row of the sample and no longer alive.
LEMMA Released ==
  ASSUME IInv, Serving
  PROVE  /\ head - 1 \in 1..Len(queue)
         /\ queue[head - 1] \in Rows
         /\ queue[head - 1] \notin alive
<1> USE DEF IInv, LoopInvariant
<1>1. head - 1 \in 1..Len(queue)
  <2>1. head \in Nat /\ Len(queue) \in Nat
    BY DEF TypeOK
  <2>2. head > 1 /\ head <= Len(queue) + 1
    BY DEF QueueSplit
  <2> QED
    BY <2>1, <2>2
<1>2. queue[head - 1] \in Rows /\ head - 1 \in 1..(head - 1)
  BY <1>1 DEF TypeOK
<1> QED
  BY <1>1, <1>2 DEF QueueSplit

LEMMA CountedRows ==
  ASSUME IInv
  PROVE  \A j \in Terms : alive \subseteq Counted(j) /\ Counted(j) \in SUBSET Rows
<1>1. alive \subseteq Rows
  BY DEF IInv, TypeOK
<1> QED
  BY <1>1, Released DEF Counted

LEMMA CountersDecide ==
  IInv /\ pc # "scan" => TriggersFromCounters
<1> SUFFICES ASSUME IInv, pc # "scan", NEW j \in Terms, NEW o \in alive
             PROVE  /\ Peel!ZeroAt(Counted(j), j, o) <=>
                         sample.checkZero /\ npositive[j][sample.code[j][o]] = 0
                    /\ Peel!SingletonAt(Counted(j), j, o) <=>
                         /\ sample.dropSingletons
                         /\ o \in sample.unit
                         /\ o \in sample.eligible[j]
                         /\ degree[j][sample.code[j][o]] = 1
  BY DEF TriggersFromCounters
<1>1. Counted(j) \in SUBSET Rows /\ o \in Counted(j) /\ o \in Rows
  BY CountedRows
<1>2. sample.code[j][o] \in Levels
  BY <1>1, SampleShape DEF IInv
<1>3. /\ degree[j][sample.code[j][o]] = Cardinality(RowsAt(Counted(j), j, sample.code[j][o]))
      /\ npositive[j][sample.code[j][o]] =
           Cardinality(RowsAt(Counted(j) \cap sample.positive, j, sample.code[j][o]))
  BY <1>2 DEF IInv, LoopInvariant, CountersExact
<1>4. Peel!ZeroAt(Counted(j), j, o) <=>
        sample.checkZero /\ npositive[j][sample.code[j][o]] = 0
  BY <1>1, <1>3, ZeroByCount
<1>5. Peel!SingletonAt(Counted(j), j, o) <=>
        /\ sample.dropSingletons
        /\ o \in sample.unit
        /\ o \in sample.eligible[j]
        /\ degree[j][sample.code[j][o]] = 1
  BY <1>1, <1>3, SingleByCount
<1> QED
  BY <1>4, <1>5

LEMMA LengthType ==
  ASSUME NEW q \in Seq(Rows)
  PROVE  Len(q) \in Nat
  OBVIOUS

\* The FIFO lists the rows of Q, each once, within its array.
Lists(q, Q) ==
  /\ q \in Seq(Rows)
  /\ Q = {q[a] : a \in 1..Len(q)}
  /\ Len(q) = Cardinality(Q)
  /\ Len(q) <= NObs
  /\ \A a, b \in 1..Len(q) : q[a] = q[b] => a = b

\* It still does after rows it does not hold join.
LEMMA EnqueueFacts ==
  ASSUME NEW q, NEW Q \in SUBSET Rows, Lists(q, Q),
         NEW F \in SUBSET Rows, F \cap Q = {},
         NEW s \in Ascending(F)
  PROVE  /\ Lists(q \o s, Q \cup F)
         /\ Len(q \o s) >= Len(q)
         /\ \A a \in 1..Len(q) : (q \o s)[a] = q[a]
<1>0. /\ q \in Seq(Rows)
      /\ Q = {q[a] : a \in 1..Len(q)}
      /\ Len(q) = Cardinality(Q)
      /\ \A a, b \in 1..Len(q) : q[a] = q[b] => a = b
  BY DEF Lists
<1> DEFINE r == q \o s
<1>1. Len(q) \in Nat
  BY <1>0, LengthType
<1>2. /\ Len(s) = Cardinality(F) /\ Len(s) \in Nat
      /\ {s[a] : a \in 1..Len(s)} = F
      /\ \A a, b \in 1..Len(s) : s[a] = s[b] => a = b
  <2>1. /\ Len(s) = Cardinality(F)
        /\ {s[a] : a \in 1..Len(s)} = F
        /\ \A a, b \in 1..Len(s) : s[a] = s[b] => a = b
    BY AscendingFacts
  <2>2. Cardinality(F) \in Nat
    BY RowsFinite
  <2> QED
    BY <2>1, <2>2
<1>3. /\ r \in Seq(Rows)
      /\ Len(r) = Len(q) + Len(s)
      /\ \A a \in 1..Len(q) : r[a] = q[a]
      /\ \A a \in 1..Len(s) : r[Len(q) + a] = s[a]
      /\ {r[a] : a \in 1..Len(r)} = Q \cup F
  <2>1. /\ q \o s \in Seq(Rows)
        /\ Len(q \o s) = Len(q) + Len(s)
        /\ \A a \in 1..Len(q) : (q \o s)[a] = q[a]
        /\ \A a \in 1..Len(s) : (q \o s)[Len(q) + a] = s[a]
        /\ {(q \o s)[a] : a \in 1..Len(q \o s)} = {q[a] : a \in 1..Len(q)} \cup F
    <3>1. q \in Seq(Rows) /\ F \in SUBSET Rows /\ s \in Ascending(F)
      BY <1>0
    <3> QED
      BY ONLY <3>1, AppendFacts
  <2> QED
    BY <1>0, <2>1
<1>4. Len(r) = Cardinality(Q \cup F)
  <2>1. IsFiniteSet(Q) /\ IsFiniteSet(F)
    BY RowsFinite
  <2>2. Cardinality(Q \cap F) = 0
    <3>1. Q \cap F = {}
      OBVIOUS
    <3> QED
      BY <3>1, FS_EmptySet
  <2>3. Cardinality(Q \cup F) = Cardinality(Q) + Cardinality(F) - Cardinality(Q \cap F)
    BY <2>1, FS_Union
  <2>4. Cardinality(Q) \in Nat /\ Cardinality(F) \in Nat
    BY <2>1, FS_CardinalityType
  <2> QED
    BY <1>0, <1>2, <1>3, <2>2, <2>3, <2>4
<1>5. Len(r) <= NObs
  <2>1. Q \cup F \in SUBSET Rows
    OBVIOUS
  <2>2. Cardinality(Q \cup F) <= NObs
    BY <2>1, RowsFinite
  <2> QED
    BY <1>4, <2>2
<1> HIDE DEF r
<1>6. \A a \in 1..Len(r) :
         \/ a \in 1..Len(q) /\ r[a] = q[a] /\ r[a] \in Q
         \/ a - Len(q) \in 1..Len(s) /\ r[a] = s[a - Len(q)] /\ r[a] \in F
  <2> SUFFICES ASSUME NEW a \in 1..Len(r), a \notin 1..Len(q)
               PROVE  a - Len(q) \in 1..Len(s) /\ r[a] = s[a - Len(q)] /\ r[a] \in F
    BY <1>0, <1>3
  <2>1. a - Len(q) \in 1..Len(s) /\ Len(q) + (a - Len(q)) = a
    BY <1>1, <1>2, <1>3
  <2>2. r[a] = s[a - Len(q)]
    BY <1>3, <2>1
  <2> QED
    BY <1>2, <2>1, <2>2
<1>7. ASSUME NEW a \in 1..Len(r), NEW b \in 1..Len(r), r[a] = r[b]
      PROVE  a = b
  <2>1. CASE r[a] \in Q
    <3>1. /\ a \in 1..Len(q) /\ b \in 1..Len(q)
          /\ r[a] = q[a] /\ r[b] = q[b]
      BY <1>6, <1>7, <2>1
    <3> QED
      BY <1>0, <1>7, <3>1
  <2>2. CASE r[a] \notin Q
    <3>1. /\ a - Len(q) \in 1..Len(s) /\ b - Len(q) \in 1..Len(s)
          /\ r[a] = s[a - Len(q)] /\ r[b] = s[b - Len(q)]
      BY <1>6, <1>7, <2>2
    <3>2. a - Len(q) = b - Len(q)
      BY <1>2, <1>7, <3>1
    <3>3. a \in Int /\ b \in Int
      OBVIOUS
    <3> QED
      BY <1>1, <3>2, <3>3
  <2> QED
    BY <2>1, <2>2
<1>8. Len(r) >= Len(q)
  BY <1>1, <1>2, <1>3
<1> QED
  BY <1>3, <1>4, <1>5, <1>7, <1>8 DEF r, Lists

\* Release: one term's counters stop counting the row; the rows this triggers,
\* and no others, join the FIFO.
LEMMA ReleaseIInv ==
  ASSUME IInv, Release
  PROVE  IInv'
<1> DEFINE i == queue[head - 1]
           v == sample.code[term][i]
           deg == degree[term][v] - 1
           pos == npositive[term][v] - Positives(i)
           allZero == sample.checkZero /\ pos = 0 /\ v \notin zeroQueued[term]
           one == sample.dropSingletons /\ deg = 1
           fresh == Fresh(term, v, allZero, one)
<1>1. TypeOK /\ QueueFits /\ CountersExact /\ WaitingIsTriggered /\ QueueSplit
  BY DEF IInv, LoopInvariant
<1>2. /\ degree' = [degree EXCEPT ![term][v] = deg]
      /\ npositive' = [npositive EXCEPT ![term][v] = pos]
      /\ zeroQueued' = [zeroQueued EXCEPT ![term] = IF allZero THEN @ \cup {v} ELSE @]
      /\ queued' = queued \cup fresh
      /\ \E s \in Ascending(fresh) : queue' = queue \o s
      /\ term' = NextTerm
      /\ pc = "term" /\ pc' = IF term = NTerms THEN "pop" ELSE "term"
      /\ sample' = sample /\ alive' = alive /\ head' = head /\ reason' = reason
  BY DEF Release
<1>3. /\ Serving
      /\ head - 1 \in 1..Len(queue)
      /\ i \in Rows /\ i \notin alive
      /\ term \in Terms
      /\ v \in Levels
      /\ alive \in SUBSET Rows
  <2>1. Serving
    BY <1>2 DEF Serving
  <2>2. i \in Rows /\ i \notin alive /\ head - 1 \in 1..Len(queue)
    BY <2>1, Released
  <2>3. term \in Terms /\ alive \in SUBSET Rows
    BY <1>1 DEF TypeOK
  <2>4. v \in Levels
    BY <1>1, <2>2, <2>3, SampleShape
  <2> QED
    BY <2>1, <2>2, <2>3, <2>4
<1>4. \A o : o \in fresh <=>
              /\ o \in alive /\ o \notin queued
              /\ sample.code[term][o] = v
              /\ allZero \/ (one /\ o \in sample.unit /\ o \in sample.eligible[term])
  BY DEF Fresh
<1>5. Positives(i) \in {0, 1} /\ (Positives(i) = 1 <=> i \in sample.positive)
  BY DEF Positives
<1>6. degree[term][v] \in Int /\ npositive[term][v] \in Int /\ deg \in Int /\ pos \in Int
  BY <1>1, <1>3, <1>5 DEF TypeOK
<1>7. /\ deg = degree[term][v] - 1
      /\ pos = npositive[term][v] - Positives(i)
      /\ v = sample.code[term][i]
      /\ allZero <=> sample.checkZero /\ pos = 0 /\ v \notin zeroQueued[term]
      /\ one <=> sample.dropSingletons /\ deg = 1
  OBVIOUS
<1> HIDE DEF i, v, deg, pos, allZero, one, fresh
<1>8. fresh \in SUBSET Rows /\ fresh \subseteq alive /\ fresh \cap queued = {}
  BY <1>3, <1>4
<1>9. /\ Lists(queue', queued')
      /\ Len(queue') >= Len(queue)
      /\ \A a \in 1..Len(queue) : queue'[a] = queue[a]
  <2> PICK s \in Ascending(fresh) : queue' = queue \o s
    BY <1>2
  <2>1. Lists(queue, queued) /\ queued \in SUBSET Rows
    BY <1>1 DEF Lists, TypeOK, QueueSplit, QueueFits
  <2>2. /\ Lists(queue \o s, queued \cup fresh)
        /\ Len(queue \o s) >= Len(queue)
        /\ \A a \in 1..Len(queue) : (queue \o s)[a] = queue[a]
    BY <1>8, <2>1, EnqueueFacts
  <2> QED
    BY <1>2, <2>2
<1>10. TypeOK'
  <2>1. degree' \in [Terms -> [Levels -> Int]] /\ npositive' \in [Terms -> [Levels -> Int]]
    BY <1>1, <1>2, <1>3, <1>6 DEF TypeOK
  <2>2. zeroQueued' \in [Terms -> SUBSET Levels]
    BY <1>1, <1>2, <1>3 DEF TypeOK
  <2>3. term' \in Terms
    <3>1. term \in Int /\ 1 <= term /\ term <= NTerms /\ NTerms \in Int /\ 1 <= NTerms
      BY <1>3, SamplePeelAssumption DEF Terms
    <3>2. term' = IF term = NTerms THEN 1 ELSE term + 1
      BY <1>2 DEF NextTerm
    <3> QED
      BY <3>1, <3>2 DEF Terms
  <2>4. queued' \subseteq Rows
    BY <1>1, <1>2, <1>8 DEF TypeOK
  <2>5. pc' \in {"pop", "term"}
    BY <1>2
  <2> QED
    BY <1>1, <1>2, <1>9, <2>1, <2>2, <2>3, <2>4, <2>5 DEF TypeOK, Lists
<1>11. QueueFits'
  BY <1>9 DEF QueueFits, Lists
<1>12. QueueSplit'
  <2>1. \A a \in 1..(head - 1) : a \in 1..Len(queue) /\ queue'[a] = queue[a]
    <3>1. head \in Int /\ Len(queue) \in Int /\ head - 1 <= Len(queue)
      BY <1>1, <1>3 DEF TypeOK
    <3>2. \A a \in 1..(head - 1) : a \in 1..Len(queue)
      BY <3>1
    <3> QED
      BY <1>9, <3>2
  <2>2. alive' = Rows \ {queue'[a] : a \in 1..(head' - 1)}
    BY <1>1, <1>2, <2>1 DEF QueueSplit
  <2>3. head' <= Len(queue') + 1 /\ head' > 1
    <3>1. head \in Int /\ Len(queue) \in Int /\ Len(queue') \in Int
      BY <1>1, <1>10 DEF TypeOK
    <3> QED
      BY <1>2, <1>3, <1>9, <3>1
  <2>4. pc' \in {"pop", "term"}
    BY <1>2
  <2> QED
    BY <1>9, <2>2, <2>3, <2>4 DEF QueueSplit, Serving, Lists
<1>13. \A j \in Terms : Counted(j)' = IF j = term THEN alive ELSE Counted(j)
  <2> SUFFICES ASSUME NEW j \in Terms
               PROVE  Counted(j)' = IF j = term THEN alive ELSE Counted(j)
    OBVIOUS
  <2>1. j \in Int /\ term \in Int /\ j <= NTerms /\ term <= NTerms
    BY <1>3, SamplePeelAssumption DEF Terms
  <2>2. queue'[head' - 1] = queue[head - 1]
    BY <1>2, <1>3, <1>9
  <2>3. CASE term = NTerms
    <3>1. Counted(j)' = alive
      BY <1>2, <2>3 DEF Counted, Serving
    <3>2. j # term => Counted(j) = alive
      BY <2>1, <2>3 DEF Counted
    <3> QED
      BY <3>1, <3>2
  <2>4. CASE term # NTerms
    <3>1. pc' = "term" /\ term' = term + 1
      BY <1>2, <2>4 DEF NextTerm
    <3>2. j >= term' <=> j >= term /\ j # term
      BY <2>1, <3>1
    <3>3. Counted(j)' = IF j >= term' THEN alive \cup {queue[head - 1]} ELSE alive
      BY <1>2, <2>2, <3>1 DEF Counted, Serving
    <3>4. Counted(j) = IF j >= term THEN alive \cup {queue[head - 1]} ELSE alive
      BY <1>3 DEF Counted
    <3> QED
      BY <3>2, <3>3, <3>4
  <2> QED
    BY <2>3, <2>4
<1>14. /\ Counted(term) \in SUBSET Rows /\ i \in Counted(term)
       /\ Counted(term) \ {i} = alive
  <2>1. term >= term
    BY <1>3, SamplePeelAssumption DEF Terms
  <2>2. Counted(term) = alive \cup {i}
    BY <1>3, <2>1 DEF Counted, i
  <2> QED
    BY <1>3, <2>2
\* The new counts of the released level are those of the surviving rows.
<1>15. deg = Cardinality(RowsAt(alive, term, v))
  <2>1. degree[term][v] = Cardinality(RowsAt(Counted(term), term, v))
    BY <1>1, <1>2, <1>3 DEF CountersExact
  <2> QED
    BY <1>7, <1>14, <2>1, CountRemove
<1>16. pos = Cardinality(RowsAt(alive \cap sample.positive, term, v))
  <2>1. npositive[term][v] = Cardinality(RowsAt(Counted(term) \cap sample.positive, term, v))
    BY <1>1, <1>2, <1>3 DEF CountersExact
  <2> DEFINE P == Counted(term) \cap sample.positive
  <2>2. CASE i \in sample.positive
    <3>1. P \in SUBSET Rows /\ i \in P /\ P \ {i} = alive \cap sample.positive
      BY <1>14, <2>2
    <3>2. Cardinality(RowsAt(P \ {i}, term, v)) = Cardinality(RowsAt(P, term, v)) - 1
      BY <1>7, <3>1, CountRemove
    <3>3. pos = npositive[term][v] - 1
      BY <1>5, <1>7, <2>2
    <3>4. /\ npositive[term][v] = Cardinality(RowsAt(P, term, v))
          /\ Cardinality(RowsAt(alive \cap sample.positive, term, v))
               = Cardinality(RowsAt(P, term, v)) - 1
      BY <2>1, <3>1, <3>2, Zenon
    <3> QED
      BY <3>3, <3>4, Zenon
  <2>3. CASE i \notin sample.positive
    <3>1. P = alive \cap sample.positive
      BY <1>14, <2>3
    <3>2. pos = npositive[term][v]
      BY <1>5, <1>6, <1>7, <2>3
    <3>3. npositive[term][v] = Cardinality(RowsAt(alive \cap sample.positive, term, v))
      BY <2>1, <3>1, Zenon
    <3> QED
      BY <3>2, <3>3, Zenon
  <2> QED
    BY <2>2, <2>3
<1>17. pos \in Nat
  <2>1. alive \cap sample.positive \in SUBSET Rows
    BY <1>3
  <2> QED
    BY <1>16, <2>1, RowsAtFinite
<1>18. v \in zeroQueued[term] => npositive[term][v] = 0 /\ pos = 0
  <2>1. v \in zeroQueued[term] => npositive[term][v] = 0
    BY <1>1, <1>2, <1>3 DEF CountersExact
  <2> QED
    BY <1>5, <1>7, <1>17, <2>1
<1>19. \A j \in Terms, u \in Levels :
          /\ degree'[j][u] = IF j = term /\ u = v THEN deg ELSE degree[j][u]
          /\ npositive'[j][u] = IF j = term /\ u = v THEN pos ELSE npositive[j][u]
  BY <1>1, <1>2, <1>3 DEF TypeOK
<1>20. \A j \in Terms, u \in Levels : u \in zeroQueued'[j] =>
          u \in zeroQueued[j] \/ (j = term /\ u = v /\ allZero)
  BY <1>1, <1>2, <1>3 DEF TypeOK
\* The counts of other levels are untouched by the row that goes.
<1>21. \A u : u # v =>
          /\ RowsAt(alive, term, u) = RowsAt(Counted(term), term, u)
          /\ RowsAt(alive \cap sample.positive, term, u)
               = RowsAt(Counted(term) \cap sample.positive, term, u)
  BY <1>7, <1>14 DEF RowsAt
<1>22. CountersExact'
  <2> SUFFICES ASSUME NEW j \in Terms, NEW u \in Levels
               PROVE  /\ degree'[j][u] = Cardinality(RowsAt(Counted(j), j, u))'
                      /\ npositive'[j][u] =
                           Cardinality(RowsAt(Counted(j) \cap sample.positive, j, u))'
                      /\ u \in zeroQueued'[j] => npositive'[j][u] = 0
    BY DEF CountersExact
  <2>1. /\ degree[j][u] = Cardinality(RowsAt(Counted(j), j, u))
        /\ npositive[j][u] = Cardinality(RowsAt(Counted(j) \cap sample.positive, j, u))
        /\ u \in zeroQueued[j] => npositive[j][u] = 0
    BY <1>1, <1>2 DEF CountersExact
  <2>2. /\ Cardinality(RowsAt(Counted(j), j, u))'
              = Cardinality(RowsAt(IF j = term THEN alive ELSE Counted(j), j, u))
        /\ Cardinality(RowsAt(Counted(j) \cap sample.positive, j, u))'
              = Cardinality(RowsAt((IF j = term THEN alive ELSE Counted(j))
                                     \cap sample.positive, j, u))
    BY <1>2, <1>13, SampleKept
  <2>3. CASE j = term /\ u = v
    BY <1>7, <1>15, <1>16, <1>18, <1>19, <1>20, <2>2, <2>3
  <2>4. CASE j = term /\ u # v
    BY <1>19, <1>20, <1>21, <2>1, <2>2, <2>4
  <2>5. CASE j # term
    BY <1>19, <1>20, <2>1, <2>2, <2>5
  <2> QED
    BY <2>3, <2>4, <2>5
<1>23. WaitingIsTriggered'
  <2>1. \A j \in Terms, o \in alive :
          /\ Peel!ZeroAt(Counted(j), j, o) <=>
               sample.checkZero /\ npositive[j][sample.code[j][o]] = 0
          /\ Peel!SingletonAt(Counted(j), j, o) <=>
               /\ sample.dropSingletons
               /\ o \in sample.unit
               /\ o \in sample.eligible[j]
               /\ degree[j][sample.code[j][o]] = 1
    BY <1>2, CountersDecide DEF TriggersFromCounters
  \* The released term's triggers, read off the new counts.
  <2>2. \A o \in alive :
          /\ Peel!ZeroAt(alive, term, o) <=>
               sample.checkZero /\ npositive'[term][sample.code[term][o]] = 0
          /\ Peel!SingletonAt(alive, term, o) <=>
               /\ sample.dropSingletons
               /\ o \in sample.unit
               /\ o \in sample.eligible[term]
               /\ degree'[term][sample.code[term][o]] = 1
    <3> SUFFICES ASSUME NEW o \in alive
                 PROVE  /\ Peel!ZeroAt(alive, term, o) <=>
                              sample.checkZero /\ npositive'[term][sample.code[term][o]] = 0
                        /\ Peel!SingletonAt(alive, term, o) <=>
                              /\ sample.dropSingletons
                              /\ o \in sample.unit
                              /\ o \in sample.eligible[term]
                              /\ degree'[term][sample.code[term][o]] = 1
      OBVIOUS
    <3>1. o \in Rows /\ sample.code[term][o] \in Levels
      BY <1>1, <1>3, SampleShape
    <3>2. /\ degree'[term][sample.code[term][o]]
                = Cardinality(RowsAt(alive, term, sample.code[term][o]))
          /\ npositive'[term][sample.code[term][o]]
                = Cardinality(RowsAt(alive \cap sample.positive, term, sample.code[term][o]))
      <4>1. CASE sample.code[term][o] = v
        BY <1>3, <1>15, <1>16, <1>19, <4>1
      <4>2. CASE sample.code[term][o] # v
        <5>1. /\ degree[term][sample.code[term][o]]
                    = Cardinality(RowsAt(Counted(term), term, sample.code[term][o]))
              /\ npositive[term][sample.code[term][o]]
                    = Cardinality(RowsAt(Counted(term) \cap sample.positive, term,
                                         sample.code[term][o]))
          BY <1>1, <1>2, <1>3, <3>1 DEF CountersExact
        <5> QED
          BY <1>3, <1>19, <1>21, <3>1, <4>2, <5>1
      <4> QED
        BY <4>1, <4>2
    <3>3. Peel!ZeroAt(alive, term, o) <=>
            sample.checkZero /\ npositive'[term][sample.code[term][o]] = 0
      BY <1>3, <3>1, <3>2, ZeroByCount
    <3>4. Peel!SingletonAt(alive, term, o) <=>
            /\ sample.dropSingletons
            /\ o \in sample.unit
            /\ o \in sample.eligible[term]
            /\ degree'[term][sample.code[term][o]] = 1
      BY <1>3, <3>2, SingleByCount
    <3> QED
      BY <3>3, <3>4
  <2>3. ASSUME NEW o \in queued' \cap alive'
        PROVE  Peel!Triggered(alive, o)'
    <3>1. o \in alive /\ (o \in queued \/ o \in fresh)
      BY <1>2, <2>3
    <3>2. CASE o \in queued
      <4>1. Peel!Triggered(alive, o)
        BY <1>1, <3>1, <3>2 DEF WaitingIsTriggered
      <4> QED
        BY <1>2, <4>1, SampleKept
    <3>3. CASE o \in fresh
      <4>1. Peel!ZeroAt(alive, term, o) \/ Peel!SingletonAt(alive, term, o)
        BY <1>3, <1>4, <1>7, <1>19, <2>2, <3>1, <3>3
      <4>2. term \in Peel!Terms
        BY <1>3 DEF Terms, Peel!Terms
      <4>3. Peel!Triggered(alive, o)
        BY <4>1, <4>2 DEF Peel!Triggered, Peel!ZeroLevel, Peel!Singleton
      <4> QED
        BY <1>2, <4>3, SampleKept
    <3> QED
      BY <3>1, <3>2, <3>3
  <2>4. ASSUME NEW o \in alive' \ queued', NEW j \in Terms
        PROVE  /\ ~ Peel!ZeroAt(Counted(j), j, o)'
               /\ ~ Peel!SingletonAt(Counted(j), j, o)'
    <3>1. o \in alive /\ o \notin queued /\ o \notin fresh
      BY <1>2, <2>4
    <3>2. ~ Peel!ZeroAt(Counted(j), j, o) /\ ~ Peel!SingletonAt(Counted(j), j, o)
      BY <1>1, <1>2, <3>1 DEF WaitingIsTriggered
    <3>3. CASE j # term
      <4>1. Counted(j)' = Counted(j)
        BY <1>13, <3>3
      <4> QED
        BY <1>2, <3>2, <4>1, SampleKept
    <3>4. CASE j = term
      <4>1. Counted(j)' = alive
        BY <1>13, <3>4
      <4>2. sample.code[term][o] \in Levels
        BY <1>1, <1>3, <3>1, SampleShape
      <4>3. ~ Peel!ZeroAt(alive, term, o)
        <5>1. sample.checkZero => npositive[term][sample.code[term][o]] # 0
          BY <1>3, <2>1, <3>1, <3>2, <3>4
        <5>2. CASE sample.code[term][o] = v
          BY <1>3, <1>4, <1>7, <1>18, <1>19, <2>2, <3>1, <5>1, <5>2
        <5>3. CASE sample.code[term][o] # v
          BY <1>3, <1>19, <2>2, <3>1, <4>2, <5>1, <5>3
        <5> QED
          BY <5>2, <5>3
      <4>4. ~ Peel!SingletonAt(alive, term, o)
        <5>1. /\ sample.dropSingletons /\ o \in sample.unit /\ o \in sample.eligible[term]
              => degree[term][sample.code[term][o]] # 1
          BY <1>3, <2>1, <3>1, <3>2, <3>4
        <5>2. CASE sample.code[term][o] = v
          <6>1. degree'[term][sample.code[term][o]] = deg
            BY <1>3, <1>19, <5>2
          <6>2. ~ (one /\ o \in sample.unit /\ o \in sample.eligible[term])
            BY <1>4, <3>1, <5>2
          <6> QED
            BY <1>7, <2>2, <3>1, <6>1, <6>2
        <5>3. CASE sample.code[term][o] # v
          BY <1>3, <1>19, <2>2, <3>1, <4>2, <5>1, <5>3
        <5> QED
          BY <5>2, <5>3
      <4> QED
        BY <1>2, <3>4, <4>1, <4>3, <4>4, SampleKept
    <3> QED
      BY <3>3, <3>4
  <2> QED
    BY <2>3, <2>4 DEF WaitingIsTriggered
<1> QED
  BY <1>10, <1>11, <1>12, <1>22, <1>23 DEF IInv, LoopInvariant

\* Finish: only the program counter moves; the FIFO has been served whole.
LEMMA FinishIInv ==
  ASSUME IInv, Finish
  PROVE  IInv'
<1>1. TypeOK /\ QueueFits /\ CountersExact /\ WaitingIsTriggered /\ QueueSplit
  BY DEF IInv, LoopInvariant
<1>2. /\ pc = "pop" /\ pc' = "done" /\ head > Len(queue)
      /\ sample' = sample /\ alive' = alive /\ degree' = degree
      /\ npositive' = npositive /\ zeroQueued' = zeroQueued /\ queue' = queue
      /\ head' = head /\ queued' = queued /\ reason' = reason /\ term' = term
  BY DEF Finish, counters
<1>3. \A j : Counted(j)' = Counted(j)
  BY <1>2 DEF Counted, Serving
<1>4. TypeOK' /\ QueueFits'
  BY <1>1, <1>2 DEF TypeOK, QueueFits
<1>5. CountersExact'
  <2> SUFFICES ASSUME NEW j \in Terms, NEW u \in Levels
               PROVE  /\ degree'[j][u] = Cardinality(RowsAt(Counted(j), j, u))'
                      /\ npositive'[j][u] =
                           Cardinality(RowsAt(Counted(j) \cap sample.positive, j, u))'
                      /\ u \in zeroQueued'[j] => npositive'[j][u] = 0
    BY DEF CountersExact
  <2>1. /\ degree[j][u] = Cardinality(RowsAt(Counted(j), j, u))
        /\ npositive[j][u] = Cardinality(RowsAt(Counted(j) \cap sample.positive, j, u))
        /\ u \in zeroQueued[j] => npositive[j][u] = 0
    BY <1>1, <1>2 DEF CountersExact
  <2>2. /\ RowsAt(Counted(j), j, u)' = RowsAt(Counted(j), j, u)
        /\ RowsAt(Counted(j) \cap sample.positive, j, u)'
             = RowsAt(Counted(j) \cap sample.positive, j, u)
    BY <1>2, <1>3, SampleKept
  <2> QED
    BY <1>2, <2>1, <2>2
<1>6. WaitingIsTriggered'
  BY <1>1, <1>2, <1>3, SampleKept DEF WaitingIsTriggered
<1>7. QueueSplit'
  <2>1. head' = Len(queue') + 1
    <3>1. head \in Nat /\ queue \in Seq(Rows)
      BY <1>1 DEF TypeOK
    <3>2. Len(queue) \in Nat /\ head <= Len(queue) + 1
      BY <1>1, <3>1, LengthType DEF QueueSplit
    <3> QED
      BY <1>2, <3>1, <3>2
  <2> QED
    BY <1>1, <1>2, <2>1 DEF QueueSplit, Serving
<1> QED
  BY <1>4, <1>5, <1>6, <1>7 DEF IInv, LoopInvariant

LEMMA StutterIInv ==
  ASSUME IInv, UNCHANGED vars
  PROVE  IInv'
<1>1. TypeOK /\ QueueFits /\ CountersExact /\ WaitingIsTriggered /\ QueueSplit
  BY DEF IInv, LoopInvariant
<1>2. /\ pc' = pc
      /\ sample' = sample /\ alive' = alive /\ degree' = degree
      /\ npositive' = npositive /\ zeroQueued' = zeroQueued /\ queue' = queue
      /\ head' = head /\ queued' = queued /\ reason' = reason /\ term' = term
  BY DEF vars
<1>3. \A j : Counted(j)' = Counted(j)
  BY <1>2 DEF Counted, Serving
<1>4. TypeOK' /\ QueueFits'
  BY <1>1, <1>2 DEF TypeOK, QueueFits
<1>6. QueueSplit'
  <2>1. /\ queued = {queue[a] : a \in 1..Len(queue)}
        /\ Len(queue) = Cardinality(queued)
        /\ alive = Rows \ {queue[a] : a \in 1..(head - 1)}
        /\ head <= Len(queue) + 1
        /\ pc = "term" => head > 1
        /\ pc = "scan" => queue = <<>> /\ head = 1
        /\ pc = "done" => head = Len(queue) + 1
    BY <1>1 DEF QueueSplit, Serving
  <2>2. /\ queued' = {queue'[a] : a \in 1..Len(queue')}
        /\ Len(queue') = Cardinality(queued')
        /\ alive' = Rows \ {queue'[a] : a \in 1..(head' - 1)}
        /\ head' <= Len(queue') + 1
        /\ pc' = "term" => head' > 1
        /\ pc' = "scan" => queue' = <<>> /\ head' = 1
        /\ pc' = "done" => head' = Len(queue') + 1
    BY ONLY <1>2, <2>1
  <2> QED
    BY <2>2 DEF QueueSplit, Serving
<1>5. CountersExact' /\ WaitingIsTriggered'
  BY <1>1, <1>2, <1>3, SampleKept DEF CountersExact, WaitingIsTriggered
<1> QED
  BY <1>4, <1>5, <1>6 DEF IInv, LoopInvariant

THEOREM Inductive == Spec => []IInv
<1>1. IInv /\ [Next]_vars => IInv'
  BY ScanIInv, PopIInv, ReleaseIInv, FinishIInv, StutterIInv DEF Next
<1> QED
  BY InitIInv, <1>1, PTL DEF Spec

-----------------------------------------------------------------------------
\* TypeOK: every variable keeps its shape.
THEOREM TypeCorrect == Spec => []TypeOK
<1>1. IInv => TypeOK
  BY DEF IInv
<1> QED
  BY <1>1, Inductive, PTL

\* QueueFits: no row joins the FIFO twice, so the write queue[tail] of _peel
\* stays inside its array of n entries, for every sample.
THEOREM QueueStaysInArray == Spec => []QueueFits
<1>1. IInv => QueueFits
  BY DEF IInv, LoopInvariant
<1> QED
  BY <1>1, Inductive, PTL

\* LoopInvariant: the incremental counters of _peel never drift from a recount,
\* the rows on the FIFO are triggered and no triggered row is missing from it.
THEOREM CountersNeverDrift == Spec => []LoopInvariant
<1>1. IInv => LoopInvariant
  BY DEF IInv
<1> QED
  BY <1>1, Inductive, PTL

-----------------------------------------------------------------------------
\* What a pass of the loop does to the rows: Pop removes one triggered row, the
\* rest of the kernel only moves counters and the FIFO.
LEMMA PopRemovesTriggered ==
  ASSUME IInv, Pop
  PROVE  \E i \in Peel!Rows : Peel!Remove(i)
<1>1. pc = "pop" /\ head <= Len(queue) /\ alive' = alive \ {queue[head]} /\ sample' = sample
  BY DEF Pop
<1>2. queue[head] \in Rows /\ queue[head] \in alive /\ Peel!Triggered(alive, queue[head])
  BY <1>1, HeadAlive
<1>3. queue[head] \in Peel!Rows
  BY <1>2 DEF Rows, Peel!Rows
<1> QED
  BY <1>1, <1>2, <1>3 DEF Peel!Remove, Peel!Without

LEMMA StepOfPeel ==
  ASSUME IInv, [Next]_vars
  PROVE  [Peel!Next]_(Peel!vars)
<1>1. CASE Pop
  BY <1>1, PopRemovesTriggered DEF Peel!Next
<1>2. CASE Scan \/ Release \/ Finish \/ UNCHANGED vars
  <2>1. sample' = sample /\ alive' = alive
    BY <1>2 DEF Scan, Release, Finish, vars
  <2> QED
    BY <2>1 DEF Peel!vars
<1> QED
  BY <1>1, <1>2 DEF Next

\* The safety part of ImplementsPeel: the kernel starts where the order-free
\* peel starts and each of its steps removes one triggered row or none.
THEOREM Refinement == Spec => Peel!Init /\ [][Peel!Next]_(Peel!vars)
<1>1. Init => Peel!Init
  BY DEF Init, Peel!Init, Rows, Peel!Rows
<1>2. IInv /\ [Next]_vars => [Peel!Next]_(Peel!vars)
  BY StepOfPeel
<1> QED
  BY <1>1, <1>2, Inductive, PTL DEF Spec

-----------------------------------------------------------------------------
\* No removal costs a row of a stable sub-sample: its rows are not triggered in
\* it, hence not triggered in the survivors that contain it.
LEMMA StepKeepsStable ==
  ASSUME IInv, Peel!KeepsEveryStable, [Next]_vars
  PROVE  Peel!KeepsEveryStable'
<1>1. sample' = sample
  BY DEF Next, Scan, Pop, Release, Finish, vars
<1>2. \A S : Peel!Stable(S)' <=> Peel!Stable(S)
  BY <1>1, SampleKept DEF Peel!Stable
<1> SUFFICES ASSUME NEW S \in SUBSET Peel!Rows, Peel!Stable(S)
             PROVE  S \subseteq alive'
  BY <1>2 DEF Peel!KeepsEveryStable
<1>3. S \in SUBSET alive
  BY DEF Peel!KeepsEveryStable
<1>4. CASE Pop
  <2>1. alive' = alive \ {queue[head]} /\ Peel!Triggered(alive, queue[head])
    BY <1>4, HeadAlive DEF Pop
  <2>2. queue[head] \notin S
    BY <1>3, <2>1, TriggerMonotone DEF Peel!Stable
  <2> QED
    BY <1>3, <2>1, <2>2
<1>5. CASE Scan \/ Release \/ Finish \/ UNCHANGED vars
  BY <1>3, <1>5 DEF Scan, Release, Finish, vars
<1> QED
  BY <1>4, <1>5 DEF Next

\* A served FIFO leaves no triggered row.
LEMMA DoneIsStable ==
  ASSUME IInv, pc = "done"
  PROVE  Peel!Stable(alive)
<1>1. TypeOK /\ WaitingIsTriggered /\ QueueSplit
  BY DEF IInv, LoopInvariant
<1>2. alive \cap queued = {}
  <2>1. head = Len(queue) + 1 /\ queue \in Seq(Rows)
    BY <1>1 DEF TypeOK, QueueSplit
  <2>2. head - 1 = Len(queue)
    BY <2>1, LengthType
  <2> QED
    BY <1>1, <2>2 DEF QueueSplit
<1>3. \A j : Counted(j) = alive
  BY DEF Counted, Serving
<1>4. \A o \in alive, j \in Terms : ~ Peel!ZeroAt(alive, j, o) /\ ~ Peel!SingletonAt(alive, j, o)
  BY <1>1, <1>2, <1>3 DEF WaitingIsTriggered
<1>5. Terms = Peel!Terms
  BY DEF Terms, Peel!Terms
<1> QED
  BY <1>4, <1>5 DEF Peel!Stable, Peel!Triggered, Peel!ZeroLevel, Peel!Singleton

\* ReturnsGreatestStable: whatever the sample, the returned mask is the largest
\* sub-sample without a triggered row, hence the same in any row or term order.
THEOREM Result == Spec => []ReturnsGreatestStable
<1>1. Init => Peel!KeepsEveryStable
  BY DEF Init, Peel!KeepsEveryStable, Rows, Peel!Rows
<1>2. IInv /\ Peel!KeepsEveryStable /\ [Next]_vars => Peel!KeepsEveryStable'
  BY StepKeepsStable
<1>3. IInv /\ Peel!KeepsEveryStable => ReturnsGreatestStable
  <2> SUFFICES ASSUME IInv, Peel!KeepsEveryStable, pc = "done"
               PROVE  alive = Peel!GreatestStable
    BY DEF ReturnsGreatestStable
  <2>1. alive \in SUBSET Peel!Rows
    BY DEF IInv, TypeOK, Rows, Peel!Rows
  <2>2. Peel!Stable(alive)
    BY DoneIsStable
  <2> QED
    BY <2>1, <2>2 DEF Peel!KeepsEveryStable, Peel!GreatestStable
<1> QED
  BY <1>1, <1>2, <1>3, Inductive, PTL DEF Spec

-----------------------------------------------------------------------------
\* What Why says of the row at the head of the FIFO.
LEMMA WhyTruthful ==
  ASSUME IInv, Pop
  PROVE  /\ Why(queue[head]) = 2 <=> Peel!ZeroLevel(alive, queue[head])
         /\ Why(queue[head]) = 1 => Peel!Singleton(alive, queue[head])
<1> DEFINE i == queue[head]
<1>1. pc = "pop" /\ head <= Len(queue)
  BY DEF Pop
<1>2. i \in alive /\ Peel!Triggered(alive, i)
  BY <1>1, HeadAlive
<1>3. \A j : Counted(j) = alive
  BY <1>1 DEF Counted, Serving
<1>4. \A j \in Terms : Peel!ZeroAt(alive, j, i) <=>
                          sample.checkZero /\ npositive[j][sample.code[j][i]] = 0
  BY <1>1, <1>2, <1>3, CountersDecide DEF TriggersFromCounters
<1>5. Peel!ZeroLevel(alive, i) <=> \E j \in Terms : Peel!ZeroAt(alive, j, i)
  BY DEF Peel!ZeroLevel, Terms, Peel!Terms
<1> HIDE DEF i
<1>6. Why(i) = IF Peel!ZeroLevel(alive, i) THEN 2 ELSE 1
  BY <1>4, <1>5 DEF Why
<1> QED
  BY <1>2, <1>6 DEF Peel!Triggered, i

\* LabelledByTrigger: the reason written for a removed row is true of the
\* sample at the moment of its removal.
THEOREM ReasonsTruthful == Spec => LabelledByTrigger
<1> DEFINE Labels == \A i \in alive \ alive' :
                        /\ reason'[i] = 2 <=> Peel!ZeroLevel(alive, i)
                        /\ reason'[i] = 1 => Peel!Singleton(alive, i)
<1>1. IInv /\ [Next]_vars => Labels
  <2> SUFFICES ASSUME IInv, [Next]_vars PROVE Labels
    OBVIOUS
  <2>1. CASE Pop
    <3>1. /\ alive' = alive \ {queue[head]} /\ queue[head] \in Rows
          /\ reason' = [reason EXCEPT ![queue[head]] = Why(queue[head])]
          /\ reason \in [Rows -> 0..2]
      BY <2>1, HeadAlive DEF Pop, IInv, TypeOK
    <3>2. \A i \in alive \ alive' : i = queue[head] /\ reason'[i] = Why(queue[head])
      BY <3>1
    <3> QED
      BY <2>1, <3>2, WhyTruthful
  <2>2. CASE Scan \/ Release \/ Finish \/ UNCHANGED vars
    BY <2>2 DEF Scan, Release, Finish, vars
  <2> QED
    BY <2>1, <2>2 DEF Next
<1>2. IInv /\ [Next]_vars => [Labels]_vars
  BY <1>1
<1> QED
  BY <1>2, Inductive, PTL DEF Spec, LabelledByTrigger

\* PositiveNeverSeparated: no row with a positive outcome is labelled separated,
\* because its own levels always count it.
THEOREM PositiveSafe == Spec => []PositiveNeverSeparated
<1>1. Init => PositiveNeverSeparated
  <2> SUFFICES ASSUME Init PROVE \A i \in sample.positive : reason[i] # 2
    BY DEF PositiveNeverSeparated
  <2>1. TypeOK /\ reason = [i \in Rows |-> 0]
    BY InitIInv DEF IInv, Init
  <2> QED
    BY <2>1, SampleShape
<1>2. IInv /\ PositiveNeverSeparated /\ [Next]_vars => PositiveNeverSeparated'
  <2> SUFFICES ASSUME IInv, PositiveNeverSeparated, [Next]_vars,
                      NEW i \in sample'.positive
               PROVE  reason'[i] # 2
    BY DEF PositiveNeverSeparated
  <2>0. sample' = sample /\ reason[i] # 2
    BY DEF PositiveNeverSeparated, Next, Scan, Pop, Release, Finish, vars
  <2>1. CASE Pop
    <3>1. /\ queue[head] \in Rows /\ queue[head] \in alive
          /\ reason' = [reason EXCEPT ![queue[head]] = Why(queue[head])]
          /\ reason \in [Rows -> 0..2]
      BY <2>1, HeadAlive DEF Pop, IInv, TypeOK
    <3>2. CASE i = queue[head]
      <4>1. \A j : i \in Peel!AtLevel(alive, j, i) \cap sample.positive
        BY <2>0, <3>1, <3>2 DEF Peel!AtLevel
      <4>2. ~ Peel!ZeroLevel(alive, i)
        BY <4>1 DEF Peel!ZeroLevel, Peel!ZeroAt
      <4> QED
        BY <2>1, <3>1, <3>2, <4>2, WhyTruthful
    <3>3. CASE i # queue[head]
      BY <2>0, <3>1, <3>3
    <3> QED
      BY <3>2, <3>3
  <2>2. CASE Scan \/ Release \/ Finish \/ UNCHANGED vars
    BY <2>0, <2>2 DEF Scan, Release, Finish, vars
  <2> QED
    BY <2>1, <2>2 DEF Next
<1> QED
  BY <1>1, <1>2, Inductive, PTL DEF Spec
-----------------------------------------------------------------------------
\* The specification itself: peeling in any order.

\* The sample keeps its shape and the survivors stay rows of it.
THEOREM AnyOrderTypeCorrect == Peel!Spec => []Peel!TypeOK
<1>1. Peel!Init => Peel!TypeOK
  BY SamplePeelAssumption DEF Peel!Init, Peel!TypeOK
<1>2. Peel!TypeOK /\ [Peel!Next]_(Peel!vars) => Peel!TypeOK'
  BY DEF Peel!TypeOK, Peel!Next, Peel!Remove, Peel!Without, Peel!vars
<1> QED
  BY <1>1, <1>2, PTL DEF Peel!Spec

\* Whether a set of rows is stable is a matter of the sample alone.
LEMMA StableOfSample ==
  ASSUME NEW S, sample' = sample
  PROVE  Peel!Stable(S)' <=> Peel!Stable(S)
  BY DEF Peel!Stable, Peel!Triggered, Peel!ZeroLevel, Peel!Singleton, Peel!ZeroAt,
         Peel!SingletonAt, Peel!AtLevel

\* No removal hurts a stable sub-sample: its rows are not triggered in it, hence
\* by monotonicity not triggered in the survivors that contain it.
LEMMA RemoveKeepsStable ==
  ASSUME Peel!KeepsEveryStable, NEW i \in Peel!Rows, Peel!Remove(i)
  PROVE  Peel!KeepsEveryStable'
<1> SUFFICES ASSUME NEW S \in SUBSET Peel!Rows, Peel!Stable(S)'
             PROVE  S \subseteq alive'
  BY DEF Peel!KeepsEveryStable
<1>1. Peel!Stable(S)
  BY StableOfSample DEF Peel!Remove
<1>2. S \subseteq alive
  BY <1>1 DEF Peel!KeepsEveryStable
<1>3. i \notin S
  BY <1>1, <1>2, TriggerMonotone DEF Peel!Remove, Peel!Stable
<1> QED
  BY <1>2, <1>3 DEF Peel!Remove, Peel!Without

\* KeepsEveryStable: peeling removes no row it could have kept.
THEOREM RemovesNothingStable == Peel!Spec => []Peel!KeepsEveryStable
<1>1. Peel!Init => Peel!KeepsEveryStable
  BY DEF Peel!Init, Peel!KeepsEveryStable
<1>2. Peel!KeepsEveryStable /\ [Peel!Next]_(Peel!vars) => Peel!KeepsEveryStable'
  <2> SUFFICES ASSUME Peel!KeepsEveryStable, [Peel!Next]_(Peel!vars)
               PROVE  Peel!KeepsEveryStable'
    OBVIOUS
  <2>1. CASE Peel!Next
    BY <2>1, RemoveKeepsStable DEF Peel!Next
  <2>2. CASE UNCHANGED Peel!vars
    <3>1. \A S : Peel!Stable(S)' <=> Peel!Stable(S)
      BY <2>2, StableOfSample DEF Peel!vars
    <3> QED
      BY <2>2, <3>1 DEF Peel!vars, Peel!KeepsEveryStable
  <2> QED
    BY <2>1, <2>2
<1> QED
  BY <1>1, <1>2, PTL DEF Peel!Spec

\* A stable mask that keeps every stable sub-sample is the largest one.
LEMMA StableIsGreatest ==
  ASSUME Peel!TypeOK, Peel!KeepsEveryStable, Peel!Stable(alive)
  PROVE  alive = Peel!GreatestStable
  BY DEF Peel!TypeOK, Peel!KeepsEveryStable, Peel!GreatestStable

\* ResultIsGreatest: when no row is triggered any more, the survivors are the
\* largest sub-sample without a triggered row, so they are the same for every
\* order of removals ("the unique monotone fixed point", peel_sample).
THEOREM Confluence == Peel!Spec => []Peel!ResultIsGreatest
<1>1. Peel!TypeOK /\ Peel!KeepsEveryStable => Peel!ResultIsGreatest
  BY StableIsGreatest DEF Peel!ResultIsGreatest
<1> QED
  BY <1>1, AnyOrderTypeCorrect, RemovesNothingStable, PTL
=============================================================================
