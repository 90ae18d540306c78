---------------------------- MODULE Sessions_proofs ----------------------------
(***************************************************************************)
(* Proofs about what calls leave behind for later calls: the columns of    *)
(* sessions, in memory (SessionCache) and on disk (PersistentStore), the   *)
(* thread calibration, in the memory of each process and in a file         *)
(* (Calibration), and the plans and projectors of a Poisson model that is  *)
(* fitted again (ReusableModel).  The four parts do not use one another.   *)
(* In all of them what a call is served depends on entries that earlier    *)
(* calls left under other conditions, so the invariants speak of the       *)
(* entries.                                                                *)
(*                                                                         *)
(* SessionCache, for any columns, sessions, resource allocations and bound *)
(* on the versions of a column.  What a fit is served is not inductive,    *)
(* because it was cached before.  CacheInv says of the caches that the     *)
(* signature of an entry tells which versions its codes and weights are of,*)
(* that the copies of one column are paired, and which codes may be kept   *)
(* without an entry (Sound); and of the call under way that the entry in   *)
(* use was compiled for it, and how far the columns of its task, and of the*)
(* fits it has prewarmed, have come (Progress).                            *)
(*                                                                         *)
(* PersistentStore, for any number of processes and contents of the data   *)
(* file, and whatever is written, deleted or left behind by processes that *)
(* died.  The properties say what a session holds; they are not inductive, *)
(* because what it holds came from the directory or from the file.         *)
(* StoreInv therefore says, beside them, that every file on disk is a      *)
(* function of its own name (Named), and what a process holds between two  *)
(* file operations (Holds): its fingerprint, the columns it has found and  *)
(* read, and which of the columns it needs it has still to look up.  Both  *)
(* theorems are about a data file that rests while a session is open;      *)
(* otherwise a dataset of two versions is what the code gives.             *)
(*                                                                         *)
(* Calibration, for any number of processes: everything kept is a          *)
(* measurement (Filed, Remembered).                                        *)
(*                                                                         *)
(* ReusableModel, for any number of users, frames and budgets: every entry *)
(* of the model's cache was made from what its key says (Honest).          *)
(***************************************************************************)
EXTENDS SessionCache, PersistentStore, Calibration, ReusableModel, FiniteSetTheorems,
        SequenceTheorems, WellFoundedInduction, TLAPS

-----------------------------------------------------------------------------
(* The caches of one session.                                                *)

\* All specifications of the session have the same FE set, and no call fails.
OneSet == ~session.mayFail /\ \A s, t \in session.specs : s.absorb = t.absorb

\* A session whose shared codes cannot outlive the columns they were taken from: nothing is
\* kept between its calls, its FE columns rest, or all its specifications have the same FE set
\* and no call fails.  The run on a new FE set shows what happens otherwise.
CodesFollow == session.off \/ session.mutable \cap FE = {} \/ OneSet

\* Triples of caches.
Caches == [entries : Seq(Entry), components : [FE -> Copy], rawFull : [Num -> Copy]]

\* What is cached of a column is of the data, as it is after a read in this call.
Read(c, n) ==
  /\ c.rawFull[n] \in {Absent, data[n]}
  /\ \A a \in DOMAIN c.entries : c.entries[a].within[n] \in {Absent, data[n]}

Paired(c, e) ==
  \A n \in Num :
    e.within[n] # Absent => /\ e.raw[n] = e.within[n]
                            /\ c.rawFull[n] # Absent => e.within[n] = c.rawFull[n]

\* The signature of an entry says which versions its codes and weights are of.
Truthful(e) == /\ CodesFollow => \A f \in e.absorb : e.codes[f] = e.sig[f]
               /\ \A x \in Aux : e.aux[x] = e.sig[x]
               /\ e.absorb \in {s.absorb : s \in session.specs}

\* Codes left without the entry they were encoded for can still be used.
Shared(c) ==
  /\ session.off => \A f \in FE : c.components[f] \in {Absent, data[f]}
  /\ session.mutable \cap FE = {} => \A f \in FE : c.components[f] \in {Absent, data[f]}
  /\ OneSet => c.components = NoCodes \/ c.entries # <<>>

Sound(c) == /\ c \in Caches
            /\ \A a \in DOMAIN c.entries : Paired(c, c.entries[a]) /\ Truthful(c.entries[a])
            /\ Shared(c)

Task1 == Head(todo)
InCall == {"design", "check", "within", "fit"}

\* The entry in use is the last one, compiled for this call.
Entrance(c) ==
  /\ c.entries # <<>>
  /\ LET e == c.entries[Len(c.entries)]
     IN e.absorb = InUse /\ e.sig = Signature(InUse) /\ e.res = resources

\* How far the columns of the task have come.
Columned(c, n) ==
  /\ pc = "design" => n \in pending \/ (Read(c, n) /\ design[n] = data[n])
  /\ pc \in {"check", "within", "fit"} /\ session.ols /\ Task1.kind # "prewarm" =>
       Read(c, n) /\ design[n] = data[n]
  /\ pc = "within" =>
       \/ n \in pending
       \/ /\ Read(c, n)
          /\ Task1.kind = "fit" => n \in missing \/ c.entries[Len(c.entries)].within[n] = data[n]
  /\ pc = "fit" => Read(c, n) /\ c.entries[Len(c.entries)].within[n] = data[n]
  /\ pc = "next" => Read(c, n)

Noted(c, n) == Read(c, n) /\ c.entries[Len(c.entries)].raw[n] = data[n]

\* A fit that was prewarmed finds its columns read by then.
Ahead(c) ==
  \A k \in DOMAIN todo : todo[k].prewarmed =>
    \A n \in todo[k].cols : Read(c, n) \/ \E j \in 1..(k-1) : n \in todo[j].cols

Served ==
  \/ served = NotServed
  \/ /\ pc = "next"
     /\ CodesFollow => \A f \in served.absorb : served.codes[f] = data[f]
     /\ \A x \in Aux : served.aux[x] = data[x]
     /\ \A n \in DOMAIN served.cols : served.cols[n] = data[n]
     /\ served.res = resources

Progress(c) ==
  /\ pc \in InCall => Entrance(c)
  /\ pc # "idle" => /\ todo # <<>> /\ Task1.absorb \in {s.absorb : s \in session.specs}
                    /\ \A n \in Task1.cols : Columned(c, n)
                    /\ Ahead(c)
  /\ pc = "fit" => Task1.kind = "fit"
  /\ pc = "design" => session.ols /\ Task1.kind # "prewarm"
  /\ pc = "within" => \A n \in missing : Noted(c, n)

CacheInv ==
  /\ TypeOK
  /\ session.mutable \cap FE = {} => \A f \in FE : data[f] = 1
  /\ session.off /\ pc = "idle" => components = NoCodes
  /\ \A k \in DOMAIN todo : todo[k].absorb \in {s.absorb : s \in session.specs}
  /\ Sound(Now) /\ Progress(Now) /\ Served
-----------------------------------------------------------------------------
(* Sequences.                                                                *)

LEMMA LeastIndex ==
  ASSUME NEW S \in SUBSET Nat, S # {}
  PROVE  \E m \in S : \A n \in S : m <= n
<1> DEFINE Less == OpToRel(<, Nat)
<1>1. IsWellFoundedOn(Less, Nat)
  BY NatLessThanWellFounded
<1>2. \A i, j \in Nat : <<i, j>> \in Less <=> i < j
  BY DEF OpToRel
<1> HIDE DEF Less
<1>3. PICK m \in S : \A j \in S : ~(<<j, m>> \in Less)
  BY <1>1, WFMin
<1>4. \A j \in S : ~(j < m)
  BY <1>2, <1>3
<1> QED
  BY <1>4

LEMMA GreatestIndex ==
  ASSUME NEW n \in Nat, NEW S \in SUBSET (1..n), S # {}
  PROVE  \E m \in S : \A i \in S : i <= m
<1> DEFINE uppers == {k \in Nat : \A i \in S : i <= k}
<1>1. n \in uppers /\ uppers \in SUBSET Nat
  OBVIOUS
<1>2. PICK k \in uppers : \A l \in uppers : k <= l
  BY <1>1, LeastIndex
<1>3. k \in Nat /\ \A i \in S : i <= k
  BY <1>2
<1>4. k \in S
  <2>1. SUFFICES ASSUME k \notin S PROVE FALSE
    OBVIOUS
  <2>2. PICK i \in S : TRUE
    OBVIOUS
  <2>3. k - 1 \in Nat /\ \A j \in S : j <= k - 1
    BY <1>3, <2>1, <2>2
  <2>4. k - 1 \in uppers
    BY <2>3
  <2> HIDE DEF uppers
  <2> QED
    BY <1>2, <1>3, <2>4
<1> QED
  BY <1>3, <1>4

\* There is a k-th number in every finite set that has k of them.
LEMMA KthIndex ==
  ASSUME NEW n \in Nat, NEW S \in SUBSET (1..n), NEW k \in 1..Cardinality(S)
  PROVE  \E a \in S : Cardinality({b \in S : b <= a}) = k
<1> DEFINE upTo(a) == {b \in S : b <= a}
           below(a) == {b \in S : b < a}
           enough == {a \in S : k <= Cardinality(upTo(a))}
<1>0. \A i \in S : i \in Nat
  OBVIOUS
<1>1. IsFiniteSet(S) /\ Cardinality(S) \in Nat
  <2>1. IsFiniteSet(1..n)
    BY FS_Interval
  <2> QED
    BY <2>1, FS_Subset, FS_CardinalityType
<1>2. \A a : IsFiniteSet(upTo(a)) /\ IsFiniteSet(below(a))
             /\ Cardinality(upTo(a)) \in Nat /\ Cardinality(below(a)) \in Nat
  <2>1. \A a : upTo(a) \subseteq S /\ below(a) \subseteq S
    OBVIOUS
  <2> HIDE DEF upTo, below
  <2> QED
    BY <1>1, <2>1, FS_Subset, FS_CardinalityType
<1>3. S # {}
  BY FS_EmptySet
<1>4. PICK top \in S : \A i \in S : i <= top
  BY <1>3, GreatestIndex
<1>5. upTo(top) = S
  BY <1>4
<1>6. top \in enough
  BY <1>1, <1>5
<1>7. PICK a \in enough : \A b \in enough : a <= b
  <2>1. enough \subseteq S /\ enough # {}
    BY <1>6
  <2>2. enough \in SUBSET Nat
    BY <1>0, <2>1
  <2> HIDE DEF enough
  <2> QED
    BY <2>1, <2>2, LeastIndex
<1>8. a \in S /\ k <= Cardinality(upTo(a))
  BY <1>7
<1>9. Cardinality(upTo(a)) = Cardinality(below(a)) + 1
  <2>1. upTo(a) = below(a) \cup {a} /\ a \notin below(a)
    <3>1. a \in S /\ a \in Nat
      BY <1>0, <1>8
    <3>2. \A b \in S : b <= a <=> (b < a \/ b = a)
      BY <1>0, <3>1
    <3>3. \A b : b \in upTo(a) <=> b \in below(a) \/ b = a
      <4> HIDE DEF enough
      <4> QED
        BY <3>1, <3>2
    <3>4. a \notin below(a)
      BY <3>1
    <3> HIDE DEF upTo, below
    <3> QED
      BY <3>3, <3>4
  <2> HIDE DEF upTo, below
  <2> QED
    BY <1>2, <2>1, FS_AddElement
<1>10. Cardinality(below(a)) < k
  <2>1. CASE below(a) = {}
    <3>1. Cardinality(below(a)) = 0
      BY <2>1, FS_EmptySet
    <3> HIDE DEF below
    <3> QED
      BY <3>1
  <2>2. CASE below(a) # {}
    <3>1. below(a) \in SUBSET (1..n)
      OBVIOUS
    <3>2. PICK c \in below(a) : \A i \in below(a) : i <= c
      <4> HIDE DEF below
      <4> QED
        BY <2>2, <3>1, GreatestIndex
    <3>3. upTo(c) = below(a)
      <4>1. c \in Nat /\ a \in Nat /\ c < a
        BY <1>0, <1>8, <3>2
      <4>2. \A b \in S : b <= c <=> b < a
        BY <1>0, <3>2, <4>1
      <4> QED
        BY <4>2
    <3>4. c \notin enough
      BY <1>7, <3>2
    <3>5. c \in S
      BY <3>2
    <3> QED
      BY <1>2, <3>3, <3>4, <3>5
  <2> QED
    BY <2>1, <2>2
<1>11. Cardinality(upTo(a)) = k
  <2> HIDE DEF upTo, below, enough
  <2> QED
    BY <1>2, <1>8, <1>9, <1>10
<1> QED
  BY <1>8, <1>11

\* What is left of a sequence is of it, in particular its last element if that may stay.
LEMMA WithoutFacts ==
  ASSUME NEW S, NEW s \in Seq(S), NEW gone
  PROVE  /\ Without(s, gone) \in Seq(S)
         /\ \A k \in DOMAIN Without(s, gone) :
              \E a \in DOMAIN s : a \notin gone /\ Without(s, gone)[k] = s[a]
         /\ s # <<>> /\ Len(s) \notin gone =>
              /\ Without(s, gone) # <<>>
              /\ Without(s, gone)[Len(Without(s, gone))] = s[Len(s)]
<1> DEFINE kept == {a \in DOMAIN s : a \notin gone}
           upTo(a) == {b \in kept : b <= a}
           nth(k) == CHOOSE a \in kept : Cardinality(upTo(a)) = k
           size == Cardinality(kept)
           rest == [k \in 1..size |-> s[nth(k)]]
<1>1. Without(s, gone) = rest
  BY DEF Without
<1>2. Len(s) \in Nat /\ DOMAIN s = 1..Len(s) /\ kept \in SUBSET (1..Len(s))
  OBVIOUS
<1>3. IsFiniteSet(kept) /\ size \in Nat
  <2> HIDE DEF kept
  <2>1. IsFiniteSet(1..Len(s))
    BY <1>2, FS_Interval
  <2> QED
    BY <1>2, <2>1, FS_Subset, FS_CardinalityType
<1>4. \A k \in 1..size : nth(k) \in kept /\ Cardinality(upTo(nth(k))) = k
  <2> TAKE k \in 1..size
  <2>1. \E a \in kept : Cardinality({b \in kept : b <= a}) = k
    <3> HIDE DEF kept
    <3> QED
      BY <1>2, KthIndex
  <2> HIDE DEF kept
  <2> QED
    BY <2>1
<1>5. \A k \in 1..size : s[nth(k)] \in S
  <2> HIDE DEF nth, size, upTo
  <2>1. \A a \in kept : s[a] \in S
    OBVIOUS
  <2> QED
    BY <1>4, <2>1
<1>6. rest \in Seq(S) /\ Len(rest) = size /\ DOMAIN rest = 1..size
  <2> HIDE DEF nth, size
  <2> QED
    BY <1>3, <1>5
<1>7. \A k \in DOMAIN rest : \E a \in DOMAIN s : a \notin gone /\ rest[k] = s[a]
  <2> TAKE k \in DOMAIN rest
  <2>1. k \in 1..size /\ rest[k] = s[nth(k)]
    <3> HIDE DEF nth, size
    <3> QED
      BY <1>6
  <2>2. nth(k) \in kept
    BY <1>4, <2>1
  <2> HIDE DEF nth, rest
  <2> QED
    BY <2>1, <2>2
<1>8. ASSUME s # <<>>, Len(s) \notin gone
      PROVE  rest # <<>> /\ rest[Len(rest)] = s[Len(s)]
  <2> DEFINE n == Len(s)
  <2>1. n \in kept /\ n \in 1..Len(s)
    BY <1>2, <1>8
  <2>2. size # 0
    <3> HIDE DEF kept
    <3> QED
      BY <1>3, <2>1, FS_EmptySet
  <2>3. size \in 1..size
    <3> HIDE DEF size
    <3> QED
      BY <1>3, <2>2
  <2>4. nth(size) = n
    <3>1. SUFFICES ASSUME nth(size) # n PROVE FALSE
      OBVIOUS
    <3> DEFINE a == nth(size)
    <3>2. a \in kept /\ Cardinality(upTo(a)) = size
      BY <1>4, <2>3
    <3> HIDE DEF a
    <3>3. upTo(a) \subseteq kept /\ n \notin upTo(a)
      <4>1. a \in 1..n /\ a # n /\ n \in Nat
        BY <1>2, <3>1, <3>2 DEF a
      <4> QED
        BY <4>1
    <3>4. upTo(a) # kept
      BY <2>1, <3>3
    <3> HIDE DEF upTo, kept
    <3>5. Cardinality(upTo(a)) < Cardinality(kept)
      BY <1>3, <3>3, <3>4, FS_Subset, FS_CardinalityType
    <3> QED
      BY <1>3, <3>2, <3>5
  <2>5. rest[size] = s[n]
    <3> HIDE DEF nth, size
    <3> QED
      BY <2>3, <2>4
  <2> HIDE DEF rest, size, n
  <2> QED
    BY <1>6, <2>2, <2>5 DEF n
<1> HIDE DEF rest
<1> QED
  BY <1>1, <1>6, <1>7, <1>8

-----------------------------------------------------------------------------
(* What the operators do to a triple of caches.                              *)

Newest(c) == c.entries[Len(c.entries)]

LEMMA Numbers ==
  /\ Versions \subseteq Nat /\ Absent \notin Versions /\ Absent \in Copy /\ Versions \subseteq Copy
  /\ NoCodes \in [FE -> Copy] /\ NoColumns \in [Num -> Copy]
  /\ FE \subseteq Columns /\ Aux \subseteq Columns /\ Num \subseteq Columns
  BY SessionAssumption DEF Versions, Absent, Copy, NoCodes, NoColumns, Columns

\* d is what a trim may leave of c.
Remains(d, c) ==
  /\ d \in Caches
  /\ (d.components = c.components /\ d.entries = c.entries) \/ d.components = NoCodes
  /\ \A n \in Num : d.rawFull[n] \in {c.rawFull[n], Absent}
  /\ \A k \in DOMAIN d.entries : \E a \in DOMAIN c.entries : d.entries[k] = c.entries[a]

LEMMA PruneIs ==
  ASSUME NEW c \in Caches
  PROVE  /\ Prune(c) \in Caches
         /\ Prune(c).entries = c.entries /\ Prune(c).components = c.components
         /\ \A n \in Num : Prune(c).rawFull[n] \in {c.rawFull[n], Absent}
<1> DEFINE needed(n) == \E a \in DOMAIN c.entries : c.entries[a].raw[n] # Absent
                                                    \/ c.entries[a].within[n] # Absent
           full == [n \in Num |-> IF needed(n) THEN c.rawFull[n] ELSE Absent]
<1>1. Prune(c) = [c EXCEPT !.rawFull = full]
  BY DEF Prune
<1> HIDE DEF needed
<1>2. \A n \in Num : full[n] \in {c.rawFull[n], Absent}
  OBVIOUS
<1>3. full \in [Num -> Copy]
  BY Numbers DEF Caches
<1> HIDE DEF full
<1> QED
  BY <1>1, <1>2, <1>3 DEF Caches

LEMMA TrimIs ==
  ASSUME NEW c \in Caches, NEW protect, NEW d \in Trimmed(c, protect)
  PROVE  /\ Remains(d, c)
         /\ c.entries # <<>> /\ Newest(c).absorb = protect => d.entries # <<>> /\ Newest(d) = Newest(c)
<1> DEFINE removable == {a \in DOMAIN c.entries : c.entries[a].absorb # protect}
           oldest(k) == {a \in removable : Cardinality({b \in removable : b <= a}) <= k}
           left(k) == [c EXCEPT !.components = NoCodes, !.entries = Without(@, oldest(k))]
<1>1. d = c \/ \E k \in 0..Cardinality(removable) : d = Prune(left(k))
  BY DEF Trimmed
<1>2. CASE d = c
  BY <1>2 DEF Remains, Caches
<1>3. ASSUME NEW k, d = Prune(left(k))
      PROVE  /\ Remains(d, c)
             /\ c.entries # <<>> /\ Newest(c).absorb = protect =>
                  d.entries # <<>> /\ Newest(d) = Newest(c)
  <2> DEFINE gone == oldest(k)
             rest == Without(c.entries, gone)
  <2>1. Len(c.entries) \in gone => Newest(c).absorb # protect
    BY DEF Newest
  <2> HIDE DEF gone
  <2>2. c.entries \in Seq(Entry)
    BY DEF Caches
  <2>3. /\ rest \in Seq(Entry)
        /\ \A i \in DOMAIN rest : \E a \in DOMAIN c.entries : a \notin gone /\ rest[i] = c.entries[a]
        /\ c.entries # <<>> /\ Len(c.entries) \notin gone =>
             rest # <<>> /\ rest[Len(rest)] = c.entries[Len(c.entries)]
    BY <2>2, WithoutFacts
  <2>4. left(k) = [c EXCEPT !.components = NoCodes, !.entries = rest]
    BY DEF gone
  <2> DEFINE l == left(k)
  <2> HIDE DEF rest
  <2>5. /\ l \in Caches /\ l.entries = rest /\ l.components = NoCodes /\ l.rawFull = c.rawFull
    BY <2>3, <2>4, Numbers DEF Caches
  <2> HIDE DEF l
  <2>6. /\ d \in Caches /\ d.entries = rest /\ d.components = NoCodes
        /\ \A n \in Num : d.rawFull[n] \in {c.rawFull[n], Absent}
    BY <1>3, <2>5, PruneIs DEF l
  <2>7. Remains(d, c)
    BY <2>3, <2>6 DEF Remains
  <2> QED
    BY <2>1, <2>3, <2>6, <2>7 DEF Newest
<1> HIDE DEF left, removable
<1> QED
  BY <1>1, <1>2, <1>3

LEMMA RemainsSound ==
  ASSUME NEW c, NEW d, Sound(c), Remains(d, c)
  PROVE  Sound(d) /\ \A n \in Num : Read(c, n) => Read(d, n)
<1>1. \A k \in DOMAIN d.entries : Paired(d, d.entries[k]) /\ Truthful(d.entries[k])
  <2> TAKE k \in DOMAIN d.entries
  <2>1. PICK a \in DOMAIN c.entries : d.entries[k] = c.entries[a]
    BY DEF Remains
  <2>2. Paired(c, c.entries[a]) /\ Truthful(c.entries[a])
    BY DEF Sound
  <2>3. \A n \in Num : d.rawFull[n] # Absent => d.rawFull[n] = c.rawFull[n]
    BY DEF Remains
  <2>4. Paired(d, c.entries[a])
    BY <2>2, <2>3 DEF Paired
  <2> QED
    BY <2>1, <2>2, <2>4
<1>2. Shared(d)
  <2>1. CASE d.components = NoCodes
    BY <2>1 DEF Shared, NoCodes
  <2>2. CASE d.components = c.components /\ d.entries = c.entries
    BY <2>2 DEF Sound, Shared
  <2> QED
    BY <2>1, <2>2 DEF Remains
<1>3. \A n \in Num : Read(c, n) => Read(d, n)
  BY DEF Read, Remains
<1> QED
  BY <1>1, <1>2, <1>3 DEF Sound, Remains

LEMMA TrimKeeps ==
  ASSUME NEW c, Sound(c), NEW protect, NEW d \in Trimmed(c, protect)
  PROVE  /\ Sound(d) /\ d \in Caches
         /\ \A n \in Num : Read(c, n) => Read(d, n)
         /\ c.entries # <<>> /\ Newest(c).absorb = protect => d.entries # <<>> /\ Newest(d) = Newest(c)
<1>1. c \in Caches
  BY DEF Sound
<1> QED
  BY <1>1, TrimIs, RemainsSound DEF Sound

LEMMA DropIs ==
  ASSUME NEW e \in Entry, NEW n \in Num
  PROVE  /\ Drop(e, n) \in Entry
         /\ Drop(e, n).absorb = e.absorb /\ Drop(e, n).sig = e.sig /\ Drop(e, n).res = e.res
         /\ Drop(e, n).codes = e.codes /\ Drop(e, n).aux = e.aux
         /\ \A m \in Num : /\ Drop(e, n).raw[m] = IF m = n THEN Absent ELSE e.raw[m]
                           /\ Drop(e, n).within[m] = IF m = n THEN Absent ELSE e.within[m]
  BY Numbers DEF Drop, Entry

\* An entry but for what it has of column n.
Alike(e, d, n) ==
  /\ d.absorb = e.absorb /\ d.sig = e.sig /\ d.res = e.res
  /\ d.codes = e.codes /\ d.aux = e.aux
  /\ \A m \in Num \ {n} : d.raw[m] = e.raw[m] /\ d.within[m] = e.within[m]

LEMMA FullNumericIs ==
  ASSUME NEW c, Sound(c), NEW n \in Num, data \in [Columns -> Versions]
  PROVE  /\ Sound(FullNumeric(c, n)) /\ Read(FullNumeric(c, n), n)
         /\ Len(FullNumeric(c, n).entries) = Len(c.entries)
         /\ \A a \in DOMAIN c.entries : Alike(c.entries[a], FullNumeric(c, n).entries[a], n)
         /\ \A m \in Num : Read(c, m) => Read(FullNumeric(c, n), m)
<1> DEFINE d == FullNumeric(c, n)
<1>1. c \in Caches /\ c.entries \in Seq(Entry) /\ data[n] \in Versions /\ data[n] # Absent
  BY Numbers DEF Sound, Caches
<1>2. CASE c.rawFull[n] = data[n]
  <2>1. d = c
    BY <1>2 DEF FullNumeric
  <2>2. Read(c, n)
    BY <1>1, <1>2 DEF Read, Sound, Paired
  <2>3. \A a \in DOMAIN c.entries : Alike(c.entries[a], c.entries[a], n)
    BY DEF Alike
  <2> HIDE DEF d
  <2> QED
    BY <2>1, <2>2, <2>3 DEF d
<1>3. CASE c.rawFull[n] # data[n]
  <2> DEFINE dropped == [a \in DOMAIN c.entries |-> Drop(c.entries[a], n)]
             full == [c.rawFull EXCEPT ![n] = data[n]]
  <2>1. d = [c EXCEPT !.rawFull[n] = data[n], !.entries = dropped]
    BY <1>3 DEF FullNumeric
  <2>2. /\ Len(c.entries) \in Nat /\ DOMAIN c.entries = 1..Len(c.entries)
        /\ \A a \in DOMAIN c.entries : c.entries[a] \in Entry
    BY <1>1
  <2>3. \A a \in DOMAIN c.entries : dropped[a] = Drop(c.entries[a], n) /\ dropped[a] \in Entry
    BY <2>2, DropIs
  <2>4. dropped \in Seq(Entry) /\ Len(dropped) = Len(c.entries) /\ DOMAIN dropped = DOMAIN c.entries
    <3> DEFINE len == Len(c.entries)
    <3>1. dropped = [a \in 1..len |-> Drop(c.entries[a], n)]
      BY <2>2
    <3>2. \A a \in 1..len : Drop(c.entries[a], n) \in Entry
      BY <2>2, DropIs
    <3> HIDE DEF dropped, len
    <3> QED
      BY <2>2, <3>1, <3>2 DEF len
  <2> HIDE DEF dropped
  <2>5. /\ full \in [Num -> Copy] /\ full[n] = data[n]
        /\ \A m \in Num \ {n} : full[m] = c.rawFull[m]
    BY <1>1, Numbers DEF Caches
  <2>6. d.entries = dropped /\ d.rawFull = full /\ d.components = c.components /\ d \in Caches
    BY <1>1, <2>1, <2>4, <2>5 DEF Caches
  <2> HIDE DEF d, full
  <2>7. \A a \in DOMAIN c.entries : Alike(c.entries[a], dropped[a], n)
    BY <2>2, <2>3, DropIs DEF Alike
  <2>8. \A a \in DOMAIN c.entries : dropped[a].within[n] = Absent
    BY <2>2, <2>3, DropIs
  <2>9. \A a \in DOMAIN d.entries : Paired(d, d.entries[a]) /\ Truthful(d.entries[a])
    <3> TAKE a \in DOMAIN d.entries
    <3>1. a \in DOMAIN c.entries /\ d.entries[a] = dropped[a]
      BY <2>4, <2>6
    <3>2. Paired(c, c.entries[a]) /\ Truthful(c.entries[a])
      BY <3>1 DEF Sound
    <3>3. Truthful(dropped[a])
      BY <3>1, <3>2, <2>7 DEF Truthful, Alike
    <3>4. Paired(d, dropped[a])
      BY <3>1, <3>2, <2>5, <2>6, <2>7, <2>8 DEF Paired, Alike
    <3> QED
      BY <3>1, <3>3, <3>4
  <2>10. d.entries = <<>> <=> c.entries = <<>>
    BY <1>1, <2>4, <2>6
  <2>11. Shared(d)
    BY <2>6, <2>10 DEF Sound, Shared
  <2>12. \A m \in Num : Read(c, m) \/ m = n => Read(d, m)
    BY <2>4, <2>5, <2>6, <2>7, <2>8 DEF Read, Alike
  <2> QED
    BY <2>4, <2>6, <2>7, <2>9, <2>11, <2>12 DEF Sound, d
<1> HIDE DEF d
<1> QED
  BY <1>2, <1>3 DEF d

\* Another last entry, for the one in use.
LEMMA SetCurrentIs ==
  ASSUME NEW c, Sound(c), c.entries # <<>>, NEW e \in Entry, Paired(c, e), Truthful(e)
  PROVE  /\ Sound(SetCurrent(c, e)) /\ SetCurrent(c, e).entries # <<>> /\ Newest(SetCurrent(c, e)) = e
         /\ SetCurrent(c, e).rawFull = c.rawFull
         /\ \A n \in Num : Read(c, n) /\ e.within[n] \in {Absent, data[n]}
                             => Read(SetCurrent(c, e), n)
<1> DEFINE len == Len(c.entries)
           new == [c.entries EXCEPT ![len] = e]
           d == SetCurrent(c, e)
<1>1. c \in Caches /\ c.entries \in Seq(Entry)
  BY DEF Sound, Caches
<1>2. len \in Nat \ {0} /\ DOMAIN c.entries = 1..len
  BY <1>1
<1>3. new \in Seq(Entry) /\ Len(new) = len /\ DOMAIN new = 1..len /\ new # <<>>
  BY <1>1, <1>2
<1>4. new[len] = e /\ \A a \in 1..len : new[a] = e \/ new[a] = c.entries[a]
  BY <1>1, <1>2
<1>5. d = [c EXCEPT !.entries = new]
  BY DEF SetCurrent
<1> HIDE DEF new
<1>6. d \in Caches /\ d.entries = new /\ d.rawFull = c.rawFull /\ d.components = c.components
  BY <1>1, <1>3, <1>5 DEF Caches
<1> HIDE DEF d, len
<1>7. \A a \in DOMAIN d.entries : Paired(d, d.entries[a]) /\ Truthful(d.entries[a])
  <2> TAKE a \in DOMAIN d.entries
  <2>1. a \in 1..len /\ (d.entries[a] = e \/ d.entries[a] = c.entries[a])
    BY <1>3, <1>4, <1>6
  <2>2. Paired(c, d.entries[a]) /\ Truthful(d.entries[a])
    BY <1>2, <2>1 DEF Sound
  <2> QED
    BY <1>6, <2>2 DEF Paired
<1>8. Shared(d)
  BY <1>3, <1>6 DEF Sound, Shared
<1>9. ASSUME NEW n \in Num, Read(c, n), e.within[n] \in {Absent, data[n]}
      PROVE  Read(d, n)
  BY <1>2, <1>3, <1>4, <1>6, <1>9 DEF Read
<1> QED
  BY <1>3, <1>4, <1>6, <1>7, <1>8, <1>9 DEF Sound, Newest, d, len

LEMMA LastOf ==
  ASSUME NEW c, Sound(c), c.entries # <<>>
  PROVE  /\ Len(c.entries) \in DOMAIN c.entries /\ Newest(c) \in Entry
         /\ Paired(c, Newest(c)) /\ Truthful(Newest(c))
         /\ \A n \in Num : Read(c, n) => Newest(c).within[n] \in {Absent, data[n]}
<1>1. c.entries \in Seq(Entry)
  BY DEF Sound, Caches
<1>2. Len(c.entries) \in DOMAIN c.entries
  BY <1>1
<1>3. c.entries[Len(c.entries)] \in Entry
  BY <1>1, <1>2
<1> QED
  BY <1>2, <1>3 DEF Newest, Sound, Read

\* The entry in use with a raw column, or the partialled-out copies of several, put in.
WithRaw(c, n) == [Newest(c) EXCEPT !.raw[n] = data[n]]
WithCopies(c, which) ==
  [Newest(c) EXCEPT !.within = [n \in Num |-> IF n \in which THEN Newest(c).raw[n] ELSE @[n]]]

\* A column that has been read is kept in the entry in use.
LEMMA KeepsRaw ==
  ASSUME NEW c, Sound(c), c.entries # <<>>, NEW n \in Num, Read(c, n),
         data \in [Columns -> Versions], NEW e, e = WithRaw(c, n)
  PROVE  /\ Sound(SetCurrent(c, e)) /\ SetCurrent(c, e).entries # <<>>
         /\ Newest(SetCurrent(c, e)) = e /\ e \in Entry
         /\ Alike(Newest(c), e, n) /\ e.raw[n] = data[n] /\ e.within = Newest(c).within
         /\ \A m \in Num : Read(c, m) => Read(SetCurrent(c, e), m)
<1> DEFINE l == Newest(c)
<1>1. l \in Entry /\ Paired(c, l) /\ Truthful(l)
      /\ \A m \in Num : Read(c, m) => l.within[m] \in {Absent, data[m]}
  BY LastOf
<1>2. data[n] \in Copy /\ data[n] # Absent
  BY Numbers
<1> HIDE DEF l
<1>3. e = [l EXCEPT !.raw = [l.raw EXCEPT ![n] = data[n]]]
  BY DEF l, WithRaw
<1> DEFINE raws == [l.raw EXCEPT ![n] = data[n]]
<1>4. raws \in [Num -> Copy] /\ raws[n] = data[n] /\ \A m \in Num \ {n} : raws[m] = l.raw[m]
  BY <1>1, <1>2 DEF Entry
<1> HIDE DEF raws
<1>5. e \in Entry /\ e.raw = raws /\ e.within = l.within /\ e.absorb = l.absorb /\ e.sig = l.sig
      /\ e.res = l.res /\ e.codes = l.codes /\ e.aux = l.aux
  BY <1>1, <1>3, <1>4 DEF Entry, raws
<1>6. Alike(l, e, n) /\ e.raw[n] = data[n]
  BY <1>4, <1>5 DEF Alike
<1>7. Truthful(e)
  BY <1>1, <1>5 DEF Truthful
<1>8. Paired(c, e)
  BY <1>1, <1>4, <1>5 DEF Paired, Read
<1>9. \A m \in Num : Read(c, m) => e.within[m] \in {Absent, data[m]}
  BY <1>1, <1>5
<1> QED
  BY <1>5, <1>6, <1>7, <1>8, <1>9, SetCurrentIs DEF l

\* The missing columns are partialled out: their copies are of the data as they are.
LEMMA KeepsWithin ==
  ASSUME NEW c, Sound(c), c.entries # <<>>, NEW which \in SUBSET Num,
         \A n \in which : Read(c, n) /\ Newest(c).raw[n] = data[n],
         NEW e, e = WithCopies(c, which)
  PROVE  /\ Sound(SetCurrent(c, e)) /\ SetCurrent(c, e).entries # <<>>
         /\ Newest(SetCurrent(c, e)) = e /\ e \in Entry
         /\ e.absorb = Newest(c).absorb /\ e.sig = Newest(c).sig /\ e.res = Newest(c).res
         /\ \A n \in Num : e.within[n] = IF n \in which THEN data[n] ELSE Newest(c).within[n]
         /\ \A n \in Num : Read(c, n) => Read(SetCurrent(c, e), n)
<1> DEFINE l == Newest(c)
           copies == [n \in Num |-> IF n \in which THEN l.raw[n] ELSE l.within[n]]
<1>1. l \in Entry /\ Paired(c, l) /\ Truthful(l)
      /\ \A m \in Num : Read(c, m) => l.within[m] \in {Absent, data[m]}
  BY LastOf
<1> HIDE DEF l
<1>2. copies \in [Num -> Copy] /\ \A n \in Num : copies[n] = IF n \in which THEN data[n] ELSE l.within[n]
  BY <1>1 DEF Entry, l
<1>3. e = [l EXCEPT !.within = copies]
  BY DEF l, WithCopies
<1> HIDE DEF copies
<1>4. e \in Entry /\ e.within = copies /\ e.raw = l.raw /\ e.absorb = l.absorb /\ e.sig = l.sig
      /\ e.res = l.res /\ e.codes = l.codes /\ e.aux = l.aux
  BY <1>1, <1>2, <1>3 DEF Entry
<1>5. Truthful(e)
  BY <1>1, <1>4 DEF Truthful
<1>6. \A n \in which : l.raw[n] = data[n] /\ Read(c, n)
  BY DEF l
<1>7. Paired(c, e)
  BY <1>1, <1>2, <1>4, <1>6 DEF Paired, Read
<1>8. \A m \in Num : Read(c, m) => e.within[m] \in {Absent, data[m]}
  BY <1>1, <1>2, <1>4
<1> QED
  BY <1>2, <1>4, <1>5, <1>7, <1>8, SetCurrentIs DEF l

\* The situation of the columns, as far as operators on caches need it.
Times ==
  /\ data \in [Columns -> Versions] /\ resources \in Resources
  /\ session.mutable \cap FE = {} => \A f \in FE : data[f] = 1

LEMMA SignatureIs ==
  ASSUME Times, NEW absorb \in SUBSET FE
  PROVE  /\ Signature(absorb) \in [Columns -> Copy]
         /\ \A f \in absorb : Signature(absorb)[f] = data[f]
         /\ \A x \in Aux : Signature(absorb)[x] = data[x]
  BY Numbers DEF Signature, SourceColumns, Times

\* Codes that are reused are of the data.
LEMMA EncodeIs ==
  ASSUME Times, NEW c \in Caches, NEW fs \in SUBSET FE
  PROVE  /\ Encode(c, fs) \in Caches
         /\ Encode(c, fs).entries = c.entries /\ Encode(c, fs).rawFull = c.rawFull
         /\ \A f \in FE : /\ Encode(c, fs).components[f] \in {c.components[f], data[f]}
                          /\ Encoded(c, f) \in Copy
                          /\ c.components[f] \in {Absent, data[f]} => Encoded(c, f) = data[f]
<1> DEFINE comps == [f \in FE |-> IF f \in fs THEN Encoded(c, f) ELSE c.components[f]]
<1>1. Encode(c, fs) = [c EXCEPT !.components = comps]
  BY DEF Encode
<1>2. \A f \in FE : /\ Encoded(c, f) \in {c.components[f], data[f]} /\ data[f] \in Copy
                    /\ Encoded(c, f) \in Copy
                    /\ c.components[f] \in {Absent, data[f]} => Encoded(c, f) = data[f]
  BY Numbers DEF Encoded, Times, Caches
<1>3. comps \in [FE -> Copy] /\ \A f \in FE : comps[f] \in {c.components[f], data[f]}
  BY <1>2 DEF Caches
<1> HIDE DEF comps
<1> QED
  BY <1>1, <1>2, <1>3 DEF Caches

Group(absorb) == absorb \in {s.absorb : s \in session.specs}

\* A miss: the codes that are shared can be used, and what is compiled can be trusted.
LEMMA WithoutStaleIs ==
  ASSUME Times, NEW c, Sound(c), NEW absorb \in SUBSET FE, Group(absorb),
         NEW b, b = WithoutStale(c, absorb)
  PROVE  /\ Sound(b) /\ b.rawFull = c.rawFull
         /\ \A n \in Num : Read(c, n) => Read(b, n)
         /\ CodesFollow => \A f \in FE : b.components[f] \in {Absent, data[f]}
         /\ OneSet => b.components = NoCodes
<1>1. c \in Caches /\ c.entries \in Seq(Entry)
  BY DEF Sound, Caches
<1>2. CASE \E a \in DOMAIN c.entries : c.entries[a].absorb = absorb
  <2>1. b = [c EXCEPT !.entries = <<>>, !.components = NoCodes]
    BY <1>2 DEF WithoutStale
  <2>2. b \in Caches /\ b.entries = <<>> /\ b.components = NoCodes /\ b.rawFull = c.rawFull
    <3> DEFINE none == <<>>
    <3>1. none \in Seq(Entry) /\ NoCodes \in [FE -> Copy]
      BY Numbers
    <3>2. b = [c EXCEPT !.entries = none, !.components = NoCodes]
      BY <2>1
    <3> HIDE DEF none
    <3>3. b \in Caches /\ b.entries = none /\ b.components = NoCodes /\ b.rawFull = c.rawFull
      BY <1>1, <3>1, <3>2 DEF Caches
    <3> QED
      BY <3>3 DEF none
  <2> QED
    BY <2>2 DEF Sound, Shared, NoCodes, Read
<1>3. CASE ~\E a \in DOMAIN c.entries : c.entries[a].absorb = absorb
  <2>1. b = c
    BY <1>3 DEF WithoutStale
  <2>2. ASSUME OneSet PROVE c.entries = <<>>
    <3>1. \A a \in DOMAIN c.entries : c.entries[a].absorb = absorb
      BY <2>2 DEF Sound, Truthful, OneSet, Group
    <3>2. DOMAIN c.entries = {}
      BY <1>3, <3>1
    <3>3. Len(c.entries) = 0
      <4>1. Len(c.entries) \in Nat /\ DOMAIN c.entries = 1..Len(c.entries)
        BY <1>1
      <4>2. 1 \notin 1..Len(c.entries)
        BY <3>2, <4>1
      <4> QED
        BY <4>1, <4>2
    <3> QED
      BY <1>1, <3>3, EmptySeq
  <2>3. OneSet => c.components = NoCodes
    BY <2>2 DEF Sound, Shared
  <2>4. CodesFollow => \A f \in FE : c.components[f] \in {Absent, data[f]}
    BY <2>3 DEF Sound, Shared, CodesFollow, NoCodes
  <2> QED
    BY <2>1, <2>3, <2>4
<1> QED
  BY <1>2, <1>3

\* One entry more, the last one.
LEMMA OneMore ==
  ASSUME NEW d \in Caches, NEW s \in Seq(Entry), NEW e \in Entry, d.entries = Append(s, e),
         \A a \in DOMAIN s : Paired(d, s[a]) /\ Truthful(s[a]),
         Paired(d, e), Truthful(e), Shared(d)
  PROVE  /\ Sound(d) /\ d.entries # <<>> /\ Newest(d) = e
         /\ \A n \in Num : /\ d.rawFull[n] \in {Absent, data[n]}
                           /\ e.within[n] \in {Absent, data[n]}
                           /\ \A a \in DOMAIN s : s[a].within[n] \in {Absent, data[n]}
                           => Read(d, n)
<1> DEFINE new == Append(s, e)
<1>1. /\ Len(s) \in Nat /\ DOMAIN s = 1..Len(s) /\ new \in Seq(Entry) /\ Len(new) = Len(s) + 1
      /\ DOMAIN new = 1..(Len(s) + 1) /\ new # <<>> /\ new[Len(s) + 1] = e
      /\ \A a \in 1..Len(s) : new[a] = s[a]
  OBVIOUS
<1>2. \A a \in DOMAIN new : new[a] = e \/ (a \in DOMAIN s /\ new[a] = s[a])
  BY <1>1
<1> HIDE DEF new
<1> QED
  BY <1>1, <1>2 DEF Sound, Newest, Read, new

LEMMA RefreshedIs ==
  ASSUME Times, NEW e \in Entry
  PROVE  /\ Refreshed(e) \in Entry /\ Refreshed(e).res = resources
         /\ Refreshed(e).absorb = e.absorb /\ Refreshed(e).sig = e.sig
         /\ Refreshed(e).codes = e.codes /\ Refreshed(e).aux = e.aux
         /\ Refreshed(e).raw = e.raw /\ Refreshed(e).within = e.within
  BY DEF Refreshed, Entry, Times

LEMMA BuiltIs ==
  ASSUME Times, NEW b \in Caches, NEW absorb \in SUBSET FE, Group(absorb),
         CodesFollow => \A f \in FE : b.components[f] \in {Absent, data[f]}
  PROVE  /\ Built(b, absorb) \in Entry /\ Truthful(Built(b, absorb))
         /\ Built(b, absorb).absorb = absorb /\ Built(b, absorb).sig = Signature(absorb)
         /\ Built(b, absorb).res = resources
         /\ \A n \in Num : Built(b, absorb).within[n] = Absent
<1> DEFINE codes == [f \in FE |-> IF f \in absorb THEN Encoded(b, f) ELSE Absent]
           aux == [x \in Aux |-> data[x]]
           e == Built(b, absorb)
<1>1. \A f \in FE : /\ Encoded(b, f) \in Copy
                    /\ b.components[f] \in {Absent, data[f]} => Encoded(b, f) = data[f]
  BY EncodeIs
<1>2. codes \in [FE -> Copy] /\ \A f \in absorb : codes[f] = Encoded(b, f)
  BY <1>1, Numbers
<1>3. aux \in [Aux -> Copy] /\ \A x \in Aux : aux[x] = data[x]
  BY Numbers DEF Times
<1>4. e = [absorb |-> absorb, codes |-> codes, sig |-> Signature(absorb), aux |-> aux,
           res |-> resources, raw |-> NoColumns, within |-> NoColumns]
  BY DEF Built
<1> HIDE DEF codes, aux, e
<1>5. e \in Entry
  BY <1>2, <1>3, <1>4, SignatureIs, Numbers DEF Entry, Times
<1>6. Truthful(e)
  BY <1>1, <1>2, <1>3, <1>4, SignatureIs DEF Truthful, Group
<1> QED
  BY <1>4, <1>5, <1>6 DEF e, NoColumns

\* A hit or a miss leaves, last of the entries, one that was compiled for this call.
LEMMA EnteredIs ==
  ASSUME Times, NEW c, Sound(c), NEW absorb \in SUBSET FE, Group(absorb),
         NEW d, d = Entered(c, absorb)
  PROVE  /\ Sound(d) /\ d.entries # <<>>
         /\ Newest(d).absorb = absorb /\ Newest(d).sig = Signature(absorb) /\ Newest(d).res = resources
         /\ \A n \in Num : Read(c, n) => Read(d, n)
<1> DEFINE hits == FreshHits(c, absorb)
<1>1. c \in Caches /\ c.entries \in Seq(Entry)
  BY DEF Sound, Caches
<1>2. CASE hits # {}
  <2> DEFINE hit == CHOOSE a \in hits : TRUE
             e == Refreshed(c.entries[hit])
             rest == Without(c.entries, hits)
  <2>1. hit \in DOMAIN c.entries /\ c.entries[hit].absorb = absorb
        /\ c.entries[hit].sig = Signature(absorb)
    BY <1>2 DEF FreshHits
  <2>2. d = [c EXCEPT !.entries = Append(rest, e)]
    BY <1>2 DEF Entered
  <2> HIDE DEF hits, hit
  <2>3. c.entries[hit] \in Entry
    BY <1>1, <2>1
  <2>4. /\ e \in Entry /\ e.res = resources /\ e.absorb = absorb /\ e.sig = Signature(absorb)
        /\ e.codes = c.entries[hit].codes /\ e.aux = c.entries[hit].aux
        /\ e.raw = c.entries[hit].raw /\ e.within = c.entries[hit].within
    BY <2>1, <2>3, RefreshedIs
  <2> HIDE DEF e
  <2>5. /\ rest \in Seq(Entry)
        /\ \A i \in DOMAIN rest : \E a \in DOMAIN c.entries : rest[i] = c.entries[a]
    BY <1>1, WithoutFacts
  <2> HIDE DEF rest
  <2> DEFINE new == Append(rest, e)
  <2>6. new \in Seq(Entry) /\ new # <<>>
    BY <2>4, <2>5
  <2> HIDE DEF new
  <2>7. d \in Caches /\ d.entries = new /\ d.components = c.components /\ d.rawFull = c.rawFull
    BY <1>1, <2>2, <2>6 DEF Caches, new
  <2>8. Paired(c, c.entries[hit]) /\ Truthful(c.entries[hit])
    BY <2>1 DEF Sound
  <2>9. Paired(d, e) /\ Truthful(e)
    BY <2>1, <2>4, <2>7, <2>8 DEF Paired, Truthful
  <2>10. \A i \in DOMAIN rest : Paired(d, rest[i]) /\ Truthful(rest[i])
    BY <2>5, <2>7 DEF Paired, Sound
  <2>11. Shared(d)
    BY <2>6, <2>7 DEF Sound, Shared
  <2>12. /\ Sound(d) /\ d.entries # <<>> /\ Newest(d) = e
         /\ \A n \in Num : /\ d.rawFull[n] \in {Absent, data[n]}
                           /\ e.within[n] \in {Absent, data[n]}
                           /\ \A a \in DOMAIN rest : rest[a].within[n] \in {Absent, data[n]}
                           => Read(d, n)
    BY <2>4, <2>5, <2>7, <2>9, <2>10, <2>11, OneMore DEF new
  <2>13. \A n \in Num : Read(c, n) => Read(d, n)
    BY <2>1, <2>4, <2>5, <2>7, <2>12 DEF Read
  <2> QED
    BY <2>4, <2>12, <2>13
<1>3. CASE hits = {}
  <2> DEFINE b == WithoutStale(c, absorb)
             coded == Encode(b, absorb)
             e == Built(b, absorb)
  <2>1. d = [coded EXCEPT !.entries = Append(@, e)]
    BY <1>3 DEF Entered
  <2>2. /\ Sound(b) /\ b.rawFull = c.rawFull
        /\ \A n \in Num : Read(c, n) => Read(b, n)
        /\ CodesFollow => \A f \in FE : b.components[f] \in {Absent, data[f]}
    BY WithoutStaleIs
  <2> HIDE DEF b
  <2>3. b \in Caches /\ b.entries \in Seq(Entry)
    BY <2>2 DEF Sound, Caches
  <2>4. /\ coded \in Caches /\ coded.entries = b.entries /\ coded.rawFull = b.rawFull
        /\ \A f \in FE : coded.components[f] \in {b.components[f], data[f]}
    BY <2>3, EncodeIs
  <2>5. /\ e \in Entry /\ Truthful(e) /\ e.absorb = absorb /\ e.sig = Signature(absorb)
        /\ e.res = resources /\ \A n \in Num : e.within[n] = Absent
    BY <2>2, <2>3, BuiltIs
  <2> HIDE DEF coded, e
  <2> DEFINE new == Append(b.entries, e)
  <2>6. new \in Seq(Entry) /\ new # <<>>
    BY <2>3, <2>5
  <2> HIDE DEF new
  <2>7. d \in Caches /\ d.entries = new /\ d.components = coded.components /\ d.rawFull = b.rawFull
    BY <2>1, <2>4, <2>6 DEF Caches, new
  <2>8. Paired(d, e)
    BY <2>5 DEF Paired
  <2>9. \A i \in DOMAIN b.entries : Paired(d, b.entries[i]) /\ Truthful(b.entries[i])
    BY <2>2, <2>7 DEF Paired, Sound
  <2>10. Shared(d)
    BY <2>2, <2>4, <2>6, <2>7 DEF Sound, Shared
  <2>11. /\ Sound(d) /\ d.entries # <<>> /\ Newest(d) = e
         /\ \A n \in Num : /\ d.rawFull[n] \in {Absent, data[n]}
                           /\ e.within[n] \in {Absent, data[n]}
                           /\ \A a \in DOMAIN b.entries : b.entries[a].within[n] \in {Absent, data[n]}
                           => Read(d, n)
    BY <2>3, <2>5, <2>7, <2>8, <2>9, <2>10, OneMore DEF new
  <2>12. \A n \in Num : Read(c, n) => Read(d, n)
    BY <2>2, <2>5, <2>7, <2>11 DEF Read
  <2> QED
    BY <2>5, <2>11, <2>12
<1> QED
  BY <1>2, <1>3

\* A compilation that fails may leave codes, when calls may fail.
LEMMA HalfEncoded ==
  ASSUME Times, NEW c, Sound(c), NEW absorb \in SUBSET FE, Group(absorb), session.mayFail,
         NEW fs \in SUBSET absorb
  PROVE  Sound(Encode(WithoutStale(c, absorb), fs))
<1> DEFINE b == WithoutStale(c, absorb)
           d == Encode(b, fs)
<1>1. Sound(b) /\ b \in Caches
  BY WithoutStaleIs DEF Sound
<1> HIDE DEF b
<1>2. /\ d \in Caches /\ d.entries = b.entries /\ d.rawFull = b.rawFull
      /\ \A f \in FE : d.components[f] \in {b.components[f], data[f]}
  BY <1>1, EncodeIs
<1> HIDE DEF d
<1>3. \A a \in DOMAIN d.entries : Paired(d, d.entries[a]) /\ Truthful(d.entries[a])
  BY <1>1, <1>2 DEF Sound, Paired
<1>4. Shared(d)
  BY <1>1, <1>2 DEF Sound, Shared, OneSet
<1> QED
  BY <1>2, <1>3, <1>4 DEF Sound, b, d

LEMMA AlikeTrans ==
  ASSUME NEW e, NEW d, NEW r, NEW n \in Num, Alike(e, d, n), Alike(d, r, n)
  PROVE  Alike(e, r, n)
  BY DEF Alike

\* One column through the full-column cache, a trim, and its copy in the entry in use.
LEMMA OneColumn ==
  ASSUME NEW c, Sound(c), c.entries # <<>>, NEW n \in Num, data \in [Columns -> Versions],
         NEW d \in Trimmed(FullNumeric(c, n), Newest(c).absorb),
         NEW e, e = WithRaw(d, n),
         NEW r, r = SetCurrent(d, e)
  PROVE  /\ Sound(r) /\ r.entries # <<>> /\ Alike(Newest(c), Newest(r), n)
         /\ Newest(r).raw[n] = data[n] /\ Read(r, n)
         /\ \A m \in Num : Read(c, m) => Read(r, m)
<1> DEFINE full == FullNumeric(c, n)
<1>1. /\ Sound(full) /\ Read(full, n) /\ Len(full.entries) = Len(c.entries)
      /\ \A a \in DOMAIN c.entries : Alike(c.entries[a], full.entries[a], n)
      /\ \A m \in Num : Read(c, m) => Read(full, m)
  BY FullNumericIs
<1> HIDE DEF full
<1>2. full.entries # <<>>
  <2>1. c.entries \in Seq(Entry) /\ full.entries \in Seq(Entry)
    BY <1>1 DEF Sound, Caches
  <2> QED
    BY <1>1, <2>1
<1>3. Alike(Newest(c), Newest(full), n)
  BY <1>1, LastOf DEF Newest
<1>4. Newest(full).absorb = Newest(c).absorb
  BY <1>3 DEF Alike
<1>5. d \in Trimmed(full, Newest(c).absorb)
  BY DEF full
<1>6. /\ Sound(d) /\ d.entries # <<>> /\ Newest(d) = Newest(full)
      /\ \A m \in Num : Read(full, m) => Read(d, m)
  BY <1>1, <1>2, <1>4, <1>5, TrimKeeps
<1>7. Read(d, n)
  BY <1>1, <1>6
<1>8. /\ Sound(r) /\ r.entries # <<>> /\ Newest(r) = e /\ Alike(Newest(d), e, n)
      /\ e.raw[n] = data[n]
      /\ \A m \in Num : Read(d, m) => Read(r, m)
  <2>1. Sound(d) /\ d.entries # <<>> /\ Read(d, n)
    BY <1>6, <1>7
  <2>2. /\ Sound(SetCurrent(d, e)) /\ SetCurrent(d, e).entries # <<>>
        /\ Newest(SetCurrent(d, e)) = e /\ Alike(Newest(d), e, n) /\ e.raw[n] = data[n]
        /\ \A m \in Num : Read(d, m) => Read(SetCurrent(d, e), m)
    BY <2>1, KeepsRaw
  <2> QED
    BY <2>2
<1>9. Alike(Newest(c), Newest(r), n)
  BY <1>3, <1>6, <1>8, AlikeTrans
<1>10. \A m \in Num : Read(c, m) => Read(r, m)
  BY <1>1, <1>6, <1>8
<1> QED
  BY <1>7, <1>8, <1>9, <1>10

-----------------------------------------------------------------------------
(* Steps of a call.                                                          *)

Stands == /\ data' = data /\ session' = session

LEMMA Situation ==
  ASSUME CacheInv
  PROVE  /\ Times /\ Sound(Now) /\ Now \in Caches
         /\ pc # "idle" => /\ todo \in Seq(Task) /\ todo # <<>> /\ Task1 \in Task
                           /\ Task1 = todo[1]
                           /\ InUse \in SUBSET FE /\ Task1.cols \in SUBSET Num
                           /\ Task1.absorb = InUse /\ Group(InUse)
                           /\ Task1.kind \in {"prewarm", "group", "fit"}
         /\ pc \in InCall => Now.entries # <<>> /\ Newest(Now).absorb = InUse
<1>1. Times /\ Sound(Now) /\ Now \in Caches
  BY DEF CacheInv, TypeOK, Times, Sound
<1>2. ASSUME pc # "idle"
      PROVE  /\ todo \in Seq(Task) /\ todo # <<>> /\ Head(todo) \in Task /\ Head(todo) = todo[1]
             /\ Group(InUse)
  BY <1>2 DEF CacheInv, TypeOK, Progress, Group, InUse, Task1
<1>3. ASSUME pc \in InCall
      PROVE  Now.entries # <<>> /\ Newest(Now).absorb = InUse
  BY <1>3 DEF CacheInv, Progress, Entrance, Newest
<1> QED
  BY <1>1, <1>2, <1>3 DEF Task, Task1, InUse

LEMMA TasksAre ==
  ASSUME NEW s \in Seq(Task), NEW k \in DOMAIN s
  PROVE  s[k] \in Task /\ s[k].cols \in SUBSET Num /\ s[k].absorb \in SUBSET FE
<1>1. s[k] \in Task
  OBVIOUS
<1> QED
  BY <1>1 DEF Task

LEMMA Installed ==
  ASSUME NEW c \in Caches, Install(c)
  PROVE  Now' = c
  BY DEF Install, Now, Caches

LEMMA NowIs ==
  /\ Now.entries = entries /\ Now.components = components /\ Now.rawFull = rawFull
  /\ entries # <<>> => Newest(Now) = Current
  BY DEF Now, Newest, Current

LEMMA StaysSound ==
  ASSUME NEW c, Sound(c), Stands
  PROVE  Sound(c)'
  BY DEF Sound, Stands, Paired, Truthful, Shared, CodesFollow, OneSet, NoCodes, Caches, Copy, Versions, Entry

LEMMA StaysRead ==
  ASSUME NEW c, NEW n, data' = data
  PROVE  Read(c, n)' <=> Read(c, n)
  BY DEF Read

\* Where a step within a call has to lead.
Leads(c) ==
  /\ Stands /\ resources' \in Resources
  /\ Sound(c) /\ Install(c)
  /\ pc' \in {"entry", "next"} \cup InCall
  /\ todo' \in Seq(Task)
  /\ \A k \in DOMAIN todo' : Group(todo'[k].absorb)
  /\ pending' \subseteq Num /\ missing' \subseteq Num /\ design' \in [Num -> Copy]

LEMMA Arrives ==
  ASSUME CacheInv, NEW c, Leads(c), Progress(c)', Served'
  PROVE  CacheInv'
<1>1. c \in Caches /\ Now' = c
  BY Installed DEF Leads, Sound
<1>2. Sound(Now)' /\ Progress(Now)'
  BY <1>1, StaysSound DEF Leads
<1>3. TypeOK'
  <2>1. entries' \in Seq(Entry) /\ components' \in [FE -> Copy] /\ rawFull' \in [Num -> Copy]
    BY <1>1 DEF Leads, Install, Caches
  <2> QED
    BY <2>1 DEF CacheInv, TypeOK, Leads, Stands, InCall, Entry, Copy, Versions, Task
<1> QED
  BY <1>2, <1>3 DEF CacheInv, Leads, Stands, Group, InCall

LEMMA NothingServed ==
  ASSUME CacheInv, pc # "next"
  PROVE  served = NotServed
  BY DEF CacheInv, Served

\* The next task of a plan.
LEMMA GetEntryKeeps ==
  ASSUME CacheInv, GetEntry
  PROVE  CacheInv'
<1>1. pc = "entry" /\ pc # "idle"
  BY DEF GetEntry
<1>2. /\ Times /\ Sound(Now) /\ todo \in Seq(Task) /\ todo # <<>> /\ Task1 \in Task
      /\ InUse \in SUBSET FE /\ Task1.cols \in SUBSET Num /\ Task1.absorb = InUse
      /\ Group(InUse) /\ Task1.kind \in {"prewarm", "group", "fit"} /\ Task1 = todo[1]
  BY <1>1, Situation
<1>3. PICK t \in Trimmed(Now, InUse) : Install(Entered(t, InUse))
  BY DEF GetEntry, InUse
<1>4. Sound(t) /\ \A n \in Num : Read(Now, n) => Read(t, n)
  BY <1>2, <1>3, TrimKeeps
<1> PICK c : c = Entered(t, InUse)
  OBVIOUS
<1>5. /\ Sound(c) /\ c.entries # <<>> /\ Newest(c).absorb = InUse /\ Newest(c).sig = Signature(InUse)
      /\ Newest(c).res = resources
      /\ \A n \in Num : Read(t, n) => Read(c, n)
  BY <1>2, <1>4, EnteredIs
<1>6. /\ Stands /\ resources' = resources /\ todo' = todo /\ design' = NoColumns
      /\ missing' = missing /\ served' = served /\ Install(c)
      /\ \/ session.ols /\ Task1.kind \in {"group", "fit"} /\ pc' = "design" /\ pending' = Task1.cols
         \/ pc' = "check" /\ pending' = {} /\ ~(session.ols /\ Task1.kind # "prewarm")
  BY <1>2, <1>3 DEF GetEntry, Stands, Task1
<1>7. Leads(c)
  BY <1>2, <1>5, <1>6, Numbers DEF Leads, InCall, CacheInv, TypeOK, Group
<1>8. Progress(c)'
  <2>1. Entrance(c)'
    BY <1>5, <1>6 DEF Entrance, Newest, Signature, SourceColumns, InUse, Task1, Stands
  <2>2. Task1' = Task1
    BY <1>6 DEF Task1
  <2>3. \A k \in DOMAIN todo : todo[k].cols \in SUBSET Num
    BY <1>2, TasksAre
  <2>4. Ahead(c)'
    BY <1>1, <1>4, <1>5, <1>6, <2>3, StaysRead DEF CacheInv, Progress, Ahead, Stands
  <2>5. \A n \in Task1.cols : Columned(c, n)'
    BY <1>6, <2>2 DEF Columned, Stands
  <2> QED
    BY <1>2, <1>6, <2>1, <2>2, <2>4, <2>5 DEF Progress, InCall, Group, Stands
<1>9. Served'
  BY <1>1, <1>6, NothingServed DEF Served
<1> QED
  BY <1>7, <1>8, <1>9, Arrives

LEMMA ReadDesignKeeps ==
  ASSUME CacheInv, NEW n \in Num, ReadDesign(n)
  PROVE  CacheInv'
<1>1. pc = "design" /\ pc # "idle" /\ pc \in InCall /\ n \in pending
  BY DEF ReadDesign, InCall
<1>2. /\ Times /\ Sound(Now) /\ todo \in Seq(Task) /\ todo # <<>> /\ Task1.cols \in SUBSET Num
      /\ Now.entries # <<>> /\ Newest(Now).absorb = InUse
  BY <1>1, Situation
<1>3. PICK d \in Trimmed(FullNumeric(Now, n), InUse) : Install(SetCurrent(d, WithRaw(d, n)))
  BY DEF ReadDesign, WithRaw, Newest
<1> PICK c : c = SetCurrent(d, WithRaw(d, n))
  OBVIOUS
<1>4. /\ Sound(c) /\ c.entries # <<>> /\ Alike(Newest(Now), Newest(c), n)
      /\ Newest(c).raw[n] = data[n] /\ Read(c, n)
      /\ \A m \in Num : Read(Now, m) => Read(c, m)
  <2>1. d \in Trimmed(FullNumeric(Now, n), Newest(Now).absorb) /\ data \in [Columns -> Versions]
    BY <1>2, <1>3 DEF Times
  <2> QED
    BY <1>2, <2>1, OneColumn
<1>5. /\ Stands /\ resources' = resources /\ todo' = todo /\ design' = [design EXCEPT ![n] = data[n]]
      /\ missing' = missing /\ served' = served /\ Install(c)
      /\ pc' = pc /\ pending' = pending \ {n}
  BY <1>3 DEF ReadDesign, Stands
<1>6. Leads(c)
  BY <1>1, <1>2, <1>4, <1>5, Numbers DEF Leads, CacheInv, TypeOK, Group, Times
<1>7. Progress(c)'
  <2>1. Entrance(c)'
    BY <1>1, <1>4, <1>5
    DEF CacheInv, Progress, Entrance, Newest, Alike, Signature, SourceColumns, InUse, Stands
  <2>2. Task1' = Task1
    BY <1>5 DEF Task1
  <2>3. \A k \in DOMAIN todo : todo[k].cols \in SUBSET Num
    BY <1>2, TasksAre
  <2>4. Ahead(c)'
    BY <1>1, <1>4, <1>5, <2>3, StaysRead DEF CacheInv, Progress, Ahead, Stands
  <2>5. \A m \in Task1.cols : Columned(c, m)'
    <3> TAKE m \in Task1.cols
    <3>1. m \in Num /\ design'[m] = IF m = n THEN data[n] ELSE design[m]
      BY <1>2, <1>5 DEF CacheInv, TypeOK
    <3>2. m = n \/ m \in pending \/ (Read(Now, m) /\ design[m] = data[m])
      BY <1>1 DEF CacheInv, Progress, Columned
    <3>3. m \in pending' \/ (Read(c, m)' /\ design'[m] = data'[m])
      BY <1>4, <1>5, <3>1, <3>2, StaysRead DEF Stands
    <3> QED
      BY <1>1, <1>5, <3>3 DEF Columned
  <2> QED
    BY <1>1, <1>2, <1>5, <2>1, <2>2, <2>4, <2>5 DEF CacheInv, Progress, InCall, Group, Stands
<1>8. Served'
  BY <1>1, <1>5, NothingServed DEF Served
<1> QED
  BY <1>6, <1>7, <1>8, Arrives

LEMMA NowStands ==
  ASSUME UNCHANGED caches, NEW c, c = Now
  PROVE  Install(c)
  BY DEF Install, Now, caches

LEMMA StaysAhead ==
  ASSUME CacheInv, pc # "idle", NEW c, todo' = todo, Stands,
         \A n \in Num : Read(Now, n) => Read(c, n)
  PROVE  Ahead(c)'
<1>1. \A k \in DOMAIN todo : todo[k].cols \in SUBSET Num
  BY Situation, TasksAre
<1> QED
  BY <1>1, StaysRead DEF CacheInv, Progress, Ahead, Stands

\* The entry in use has what a fit takes from it.
LEMMA CurrentServes ==
  ASSUME CacheInv, pc \in InCall
  PROVE  /\ CodesFollow => \A f \in InUse : Current.codes[f] = data[f]
         /\ \A x \in Aux : Current.aux[x] = data[x]
         /\ Current.res = resources
         /\ Current = Newest(Now) /\ Current.absorb = InUse
<1>1. Sound(Now) /\ Now.entries # <<>> /\ pc # "idle"
  BY Situation DEF InCall
<1>2. Truthful(Newest(Now)) /\ Newest(Now) = Current
  BY <1>1, LastOf, NowIs
<1>3. Current.absorb = InUse /\ Current.sig = Signature(InUse) /\ Current.res = resources
  BY <1>2 DEF CacheInv, Progress, Entrance, Newest
<1>4. /\ \A f \in InUse : Signature(InUse)[f] = data[f]
      /\ \A x \in Aux : Signature(InUse)[x] = data[x]
  BY <1>1, Situation, SignatureIs
<1> QED
  BY <1>2, <1>3, <1>4 DEF Truthful

LEMMA FitInBasisKeeps ==
  ASSUME CacheInv, FitInBasis
  PROVE  CacheInv'
<1>1. pc = "design" /\ pc # "idle" /\ pc \in InCall /\ pending = {}
  BY DEF FitInBasis, InCall
<1>2. /\ Sound(Now) /\ todo \in Seq(Task) /\ todo # <<>> /\ Task1.cols \in SUBSET Num
  BY <1>1, Situation
<1> PICK c : c = Now
  OBVIOUS
<1>3. /\ Stands /\ resources' = resources /\ todo' = todo /\ design' = design
      /\ missing' = missing /\ pending' = pending /\ pc' = "next" /\ Install(c)
  BY NowStands DEF FitInBasis, Stands
<1>4. Leads(c)
  BY <1>1, <1>2, <1>3 DEF Leads, CacheInv, TypeOK, Group
<1>5. \A n \in Task1.cols : Read(Now, n) /\ design[n] = data[n]
  BY <1>1 DEF CacheInv, Progress, Columned
<1>6. Progress(c)'
  <2>1. Task1' = Task1
    BY <1>3 DEF Task1
  <2>2. \A n \in Task1.cols : Columned(c, n)'
    BY <1>3, <1>5, StaysRead DEF Columned, Stands
  <2>3. Ahead(c)'
    BY <1>1, <1>3, StaysAhead
  <2> QED
    BY <1>1, <1>2, <1>3, <2>1, <2>2, <2>3 DEF CacheInv, Progress, InCall, Stands
<1>7. Served'
  <2>1. served' = [by |-> "fit", absorb |-> InUse, codes |-> Current.codes,
                   aux |-> Current.aux, res |-> Current.res,
                   cols |-> [n \in Task1.cols |-> design[n]]]
    BY DEF FitInBasis, Task1
  <2>2. CodesFollow' = CodesFollow
    BY <1>3 DEF CodesFollow, OneSet, Stands
  <2> QED
    BY <1>1, <1>3, <1>5, <2>1, <2>2, CurrentServes DEF Served, Stands
<1> QED
  BY <1>4, <1>6, <1>7, Arrives

LEMMA StackDesignKeeps ==
  ASSUME CacheInv, StackDesign
  PROVE  CacheInv'
<1>1. pc = "design" /\ pc # "idle" /\ pc \in InCall /\ pending = {}
  BY DEF StackDesign, InCall
<1>2. /\ Sound(Now) /\ todo \in Seq(Task) /\ todo # <<>> /\ Task1.cols \in SUBSET Num
      /\ Now.entries # <<>> /\ Newest(Now).absorb = InUse
  BY <1>1, Situation
<1>3. PICK c \in Trimmed(Now, InUse) : Install(c)
  BY DEF StackDesign
<1>4. /\ Sound(c) /\ c.entries # <<>> /\ Newest(c) = Newest(Now)
      /\ \A n \in Num : Read(Now, n) => Read(c, n)
  BY <1>2, TrimKeeps
<1>5. /\ Stands /\ resources' = resources /\ todo' = todo /\ design' = design
      /\ missing' = missing /\ pending' = pending /\ pc' = "check" /\ served' = served
  BY DEF StackDesign, Stands
<1>6. Leads(c)
  BY <1>1, <1>2, <1>3, <1>4, <1>5 DEF Leads, CacheInv, TypeOK, Group, InCall
<1>7. Progress(c)'
  <2>1. Task1' = Task1 /\ InUse' = InUse
    BY <1>5 DEF Task1, InUse
  <2>2. \A n \in Task1.cols : Columned(c, n)'
    BY <1>1, <1>2, <1>4, <1>5, StaysRead DEF Columned, Stands, CacheInv, Progress
  <2>3. Ahead(c)'
    BY <1>1, <1>4, <1>5, StaysAhead
  <2>4. Entrance(c)'
    BY <1>1, <1>4, <1>5, <2>1
    DEF CacheInv, Progress, Entrance, Newest, Signature, SourceColumns, Stands
  <2> QED
    BY <1>1, <1>2, <1>5, <2>1, <2>2, <2>3, <2>4 DEF CacheInv, Progress, InCall, Stands
<1>8. Served'
  BY <1>1, <1>5, NothingServed DEF Served
<1> QED
  BY <1>6, <1>7, <1>8, Arrives

\* What has been prewarmed and is still there has been read in this call.
LEMMA CheckKeeps ==
  ASSUME CacheInv, Check
  PROVE  CacheInv'
<1>1. pc = "check" /\ pc # "idle" /\ pc \in InCall
  BY DEF Check, InCall
<1>2. /\ Sound(Now) /\ todo \in Seq(Task) /\ todo # <<>> /\ Task1.cols \in SUBSET Num
      /\ Now.entries # <<>> /\ Newest(Now).absorb = InUse
      /\ Task1 = todo[1] /\ Task1.kind \in {"prewarm", "group", "fit"}
  BY <1>1, Situation
<1> PICK c : c = Now
  OBVIOUS
<1>3. /\ Stands /\ resources' = resources /\ todo' = todo /\ design' = design
      /\ missing' = {} /\ pc' = "within" /\ served' = served /\ Install(c)
  BY NowStands DEF Check, Stands
<1>4. /\ session.ols /\ Task1.kind = "group" => pending' \subseteq Task1.cols
      /\ ~(session.ols /\ Task1.kind = "group") /\ NeedsWithin(Task1) => pending' = Task1.cols
      /\ ~(session.ols /\ Task1.kind = "group") /\ ~NeedsWithin(Task1) => pending' = {}
  BY DEF Check, Task1
<1>5. pending' \subseteq Num
  BY <1>2, <1>4
<1>6. Leads(c)
  BY <1>1, <1>2, <1>3, <1>5 DEF Leads, CacheInv, TypeOK, Group, InCall
<1>7. Task1.prewarmed => \A n \in Task1.cols : Read(Now, n)
  <2>1. 1 \in DOMAIN todo
    BY <1>2
  <2> QED
    BY <1>1, <1>2, <2>1 DEF CacheInv, Progress, Ahead
<1>8. ASSUME NEW n \in Task1.cols, n \notin pending'
      PROVE  Read(Now, n) /\ (Task1.kind = "fit" => Newest(Now).within[n] = data[n])
  <2>1. CASE session.ols /\ Task1.kind = "group"
    BY <1>1, <2>1 DEF CacheInv, Progress, Columned
  <2>2. CASE ~(session.ols /\ Task1.kind = "group")
    <3>1. ~NeedsWithin(Task1)
      BY <1>4, <1>8, <2>2
    <3>2. Task1.prewarmed /\ Current.within[n] # Absent
      BY <3>1 DEF NeedsWithin
    <3>3. Read(Now, n) /\ Current = Newest(Now)
      BY <1>1, <1>7, <3>2, CurrentServes
    <3>4. Newest(Now).within[n] \in {Absent, data[n]}
      BY <1>2, <3>3, LastOf
    <3> QED
      BY <3>2, <3>3, <3>4
  <2> QED
    BY <2>1, <2>2
<1>9. Progress(c)'
  <2>1. Task1' = Task1 /\ InUse' = InUse
    BY <1>3 DEF Task1, InUse
  <2>2. \A n \in Task1.cols : Columned(c, n)'
    <3> TAKE n \in Task1.cols
    <3>1. session.ols /\ Task1.kind # "prewarm" => Read(c, n) /\ design[n] = data[n]
      BY <1>1 DEF CacheInv, Progress, Columned
    <3>2. n \in pending' \/ (Read(c, n) /\ (Task1.kind = "fit" => Newest(c).within[n] = data[n]))
      BY <1>8
    <3> QED
      BY <1>3, <2>1, <3>1, <3>2, StaysRead DEF Columned, Stands, Newest
  <2>3. Ahead(c)'
    BY <1>1, <1>3, StaysAhead
  <2>4. Entrance(c)'
    BY <1>1, <1>3, <2>1
    DEF CacheInv, Progress, Entrance, Newest, Signature, SourceColumns, Stands
  <2> QED
    BY <1>1, <1>2, <1>3, <2>1, <2>2, <2>3, <2>4 DEF CacheInv, Progress, InCall, Stands
<1>10. Served'
  BY <1>1, <1>3, NothingServed DEF Served
<1> QED
  BY <1>6, <1>9, <1>10, Arrives

LEMMA ReadWithinKeeps ==
  ASSUME CacheInv, NEW n \in Num, ReadWithin(n)
  PROVE  CacheInv'
<1>1. pc = "within" /\ pc # "idle" /\ pc \in InCall /\ n \in pending
  BY DEF ReadWithin, InCall
<1>2. /\ Times /\ Sound(Now) /\ todo \in Seq(Task) /\ todo # <<>> /\ Task1.cols \in SUBSET Num
      /\ Now.entries # <<>> /\ Newest(Now).absorb = InUse /\ data \in [Columns -> Versions]
  BY <1>1, Situation DEF Times
<1> PICK full : full = FullNumeric(Now, n)
  OBVIOUS
<1>3. /\ Sound(full) /\ Read(full, n) /\ Len(full.entries) = Len(Now.entries)
      /\ \A a \in DOMAIN Now.entries : Alike(Now.entries[a], full.entries[a], n)
      /\ \A m \in Num : Read(Now, m) => Read(full, m)
  BY <1>2, FullNumericIs
<1>4. full.entries # <<>> /\ Alike(Newest(Now), Newest(full), n)
  <2>1. Now.entries \in Seq(Entry) /\ full.entries \in Seq(Entry)
    BY <1>2, <1>3 DEF Sound, Caches
  <2>2. full.entries # <<>>
    BY <1>2, <1>3, <2>1
  <2> QED
    BY <1>2, <1>3, <2>2, LastOf DEF Newest
<1>5. \/ Newest(full).within[n] # Absent /\ Install(full) /\ missing' = missing
      \/ /\ \E d \in Trimmed(full, InUse) : Install(SetCurrent(d, [Newest(full) EXCEPT !.raw[n] = data[n]]))
         /\ missing' = missing \cup {n}
  BY DEF ReadWithin, Newest
<1>6. /\ Stands /\ resources' = resources /\ todo' = todo /\ design' = design
      /\ served' = served /\ pc' = pc /\ pending' = pending \ {n}
  BY DEF ReadWithin, Stands
<1>7. PICK c : /\ Sound(c) /\ Install(c) /\ c.entries # <<>> /\ Alike(Newest(Now), Newest(c), n)
               /\ Read(c, n) /\ \A m \in Num : Read(Now, m) => Read(c, m)
               /\ \/ missing' = missing /\ Newest(c).within[n] = data[n]
                  \/ missing' = missing \cup {n}
               /\ n \in missing' => Newest(c).raw[n] = data[n]
  <2>1. CASE Newest(full).within[n] # Absent /\ Install(full) /\ missing' = missing
    <3>1. Newest(full).within[n] = data[n] /\ Paired(full, Newest(full))
      BY <1>3, <1>4, <2>1, LastOf
    <3>2. Newest(full).raw[n] = data[n]
      BY <2>1, <3>1 DEF Paired
    <3> QED
      BY <1>3, <1>4, <2>1, <3>1, <3>2
  <2>2. ASSUME NEW d \in Trimmed(full, InUse), missing' = missing \cup {n},
               Install(SetCurrent(d, [Newest(full) EXCEPT !.raw[n] = data[n]]))
        PROVE  \E c : /\ Sound(c) /\ Install(c) /\ c.entries # <<>> /\ Alike(Newest(Now), Newest(c), n)
                      /\ Read(c, n) /\ \A m \in Num : Read(Now, m) => Read(c, m)
                      /\ \/ missing' = missing /\ Newest(c).within[n] = data[n]
                         \/ missing' = missing \cup {n}
                      /\ n \in missing' => Newest(c).raw[n] = data[n]
    <3>1. Newest(full).absorb = InUse
      BY <1>2, <1>4 DEF Alike
    <3>2. Newest(d) = Newest(full)
      BY <1>3, <1>4, <3>1, TrimKeeps
    <3> PICK c : c = SetCurrent(d, WithRaw(d, n))
      OBVIOUS
    <3>3. Install(c)
      BY <2>2, <3>2 DEF WithRaw
    <3>4. d \in Trimmed(FullNumeric(Now, n), Newest(Now).absorb)
      BY <1>2
    <3>5. /\ Sound(c) /\ c.entries # <<>> /\ Alike(Newest(Now), Newest(c), n)
          /\ Newest(c).raw[n] = data[n] /\ Read(c, n)
          /\ \A m \in Num : Read(Now, m) => Read(c, m)
      BY <1>2, <3>4, OneColumn
    <3> QED
      BY <2>2, <3>3, <3>5
  <2> QED
    BY <1>5, <2>1, <2>2
<1>8. Leads(c)
  BY <1>1, <1>2, <1>6, <1>7 DEF Leads, CacheInv, TypeOK, Group, InCall
<1>9. Progress(c)'
  <2>1. Task1' = Task1 /\ InUse' = InUse
    BY <1>6 DEF Task1, InUse
  <2>2. \A m \in Task1.cols : Columned(c, m)'
    <3> TAKE m \in Task1.cols
    <3>0. m \in Num
      BY <1>2
    <3>1. session.ols /\ Task1.kind # "prewarm" => Read(c, m) /\ design[m] = data[m]
      BY <1>1, <1>7, <3>0 DEF CacheInv, Progress, Columned
    <3>2. m \in pending' \/ /\ Read(c, m)
                            /\ Task1.kind = "fit" => m \in missing' \/ Newest(c).within[m] = data[m]
      <4>1. CASE m = n
        BY <1>7, <4>1
      <4>2. CASE m # n
        <5>1. m \in pending \/ /\ Read(Now, m)
                               /\ Task1.kind = "fit" => m \in missing \/ Newest(Now).within[m] = data[m]
          BY <1>1 DEF CacheInv, Progress, Columned, Newest
        <5>2. Newest(c).within[m] = Newest(Now).within[m]
          BY <1>7, <3>0, <4>2 DEF Alike
        <5> QED
          BY <1>6, <1>7, <3>0, <4>2, <5>1, <5>2
      <4> QED
        BY <4>1, <4>2
    <3> QED
      BY <1>1, <1>6, <2>1, <3>1, <3>2, StaysRead DEF Columned, Stands, Newest
  <2>3. Ahead(c)'
    BY <1>1, <1>6, <1>7, StaysAhead
  <2>4. Entrance(c)'
    BY <1>1, <1>6, <1>7, <2>1
    DEF CacheInv, Progress, Entrance, Newest, Alike, Signature, SourceColumns, Stands
  <2>5. \A m \in missing' : Noted(c, m)'
    <3> TAKE m \in missing'
    <3>1. Read(c, m) /\ Newest(c).raw[m] = data[m]
      <4>1. CASE m = n
        BY <1>7, <4>1
      <4>2. CASE m # n
        <5>1. m \in missing /\ m \in Num
          BY <1>7, <4>2 DEF CacheInv, TypeOK
        <5>2. Read(Now, m) /\ Newest(Now).raw[m] = data[m]
          BY <1>1, <5>1 DEF CacheInv, Progress, Noted, Newest
        <5> QED
          BY <1>7, <4>2, <5>1, <5>2 DEF Alike
      <4> QED
        BY <4>1, <4>2
    <3> QED
      BY <1>6, <3>1, StaysRead DEF Noted, Newest, Stands
  <2> QED
    BY <1>1, <1>2, <1>6, <2>1, <2>2, <2>3, <2>4, <2>5 DEF CacheInv, Progress, InCall, Stands
<1>10. Served'
  BY <1>1, <1>6, NothingServed DEF Served
<1> QED
  BY <1>8, <1>9, <1>10, Arrives


LEMMA ResidualizeKeeps ==
  ASSUME CacheInv, Residualize
  PROVE  CacheInv'
<1>1. pc = "within" /\ pc # "idle" /\ pc \in InCall /\ pending = {}
  BY DEF Residualize, InCall
<1>2. /\ Sound(Now) /\ todo \in Seq(Task) /\ todo # <<>> /\ Task1.cols \in SUBSET Num
      /\ Now.entries # <<>> /\ Newest(Now).absorb = InUse /\ missing \in SUBSET Num
  BY <1>1, Situation DEF CacheInv, TypeOK
<1>3. /\ Stands /\ resources' = resources /\ todo' = todo /\ design' = design
      /\ missing' = {} /\ pending' = pending /\ served' = served
      /\ pc' = IF Task1.kind = "fit" THEN "fit" ELSE "next"
  BY DEF Residualize, Stands, Task1
<1>4. \A n \in missing : Read(Now, n) /\ Newest(Now).raw[n] = data[n]
  BY <1>1 DEF CacheInv, Progress, Noted, Newest
<1>5. PICK c : /\ Sound(c) /\ Install(c) /\ c.entries # <<>>
               /\ Newest(c).absorb = Newest(Now).absorb /\ Newest(c).sig = Newest(Now).sig
               /\ Newest(c).res = Newest(Now).res
               /\ \A n \in Num : Read(Now, n) => Read(c, n)
               /\ \A n \in Num : Newest(c).within[n] = IF n \in missing THEN data[n]
                                                     ELSE Newest(Now).within[n]
  <2>1. CASE missing = {}
    <3>1. Install(Now)
      BY <2>1, NowStands DEF Residualize
    <3> QED
      BY <1>2, <2>1, <3>1
  <2>2. CASE missing # {}
    <3>1. PICK d \in Trimmed(Now, InUse) :
            Install(SetCurrent(d, [Current EXCEPT !.within =
              [n \in Num |-> IF n \in missing THEN Current.raw[n] ELSE @[n]]]))
      BY <2>2 DEF Residualize
    <3>2. /\ Sound(d) /\ d.entries # <<>> /\ Newest(d) = Newest(Now)
          /\ \A n \in Num : Read(Now, n) => Read(d, n)
      BY <1>2, TrimKeeps
    <3>3. Current = Newest(d)
      BY <1>1, <3>2, CurrentServes
    <3> PICK e : e = WithCopies(d, missing)
      OBVIOUS
    <3>4. Install(SetCurrent(d, e))
      BY <3>1, <3>3 DEF WithCopies
    <3>5. \A n \in missing : Read(d, n) /\ Newest(d).raw[n] = data[n]
      BY <1>2, <1>4, <3>2
    <3>6. /\ Sound(SetCurrent(d, e)) /\ SetCurrent(d, e).entries # <<>>
          /\ Newest(SetCurrent(d, e)) = e
          /\ e.absorb = Newest(d).absorb /\ e.sig = Newest(d).sig /\ e.res = Newest(d).res
          /\ \A n \in Num : e.within[n] = IF n \in missing THEN data[n] ELSE Newest(d).within[n]
          /\ \A n \in Num : Read(d, n) => Read(SetCurrent(d, e), n)
      BY <1>2, <3>2, <3>5, KeepsWithin
    <3> QED
      BY <3>2, <3>4, <3>6
  <2> QED
    BY <2>1, <2>2
<1>6. Leads(c)
  BY <1>1, <1>2, <1>3, <1>5 DEF Leads, CacheInv, TypeOK, Group, InCall
<1>7. Progress(c)'
  <2>1. Task1' = Task1 /\ InUse' = InUse
    BY <1>3 DEF Task1, InUse
  <2>2. \A n \in Task1.cols : Columned(c, n)'
    <3> TAKE n \in Task1.cols
    <3>0. n \in Num
      BY <1>2
    <3>1. session.ols /\ Task1.kind # "prewarm" => Read(c, n) /\ design[n] = data[n]
      BY <1>1, <1>5, <3>0 DEF CacheInv, Progress, Columned
    <3>2. Read(Now, n) /\ (Task1.kind = "fit" => n \in missing \/ Newest(Now).within[n] = data[n])
      BY <1>1 DEF CacheInv, Progress, Columned, Newest
    <3>3. Read(c, n) /\ (Task1.kind = "fit" => Newest(c).within[n] = data[n])
      BY <1>5, <3>0, <3>2
    <3> QED
      BY <1>3, <2>1, <3>1, <3>3, StaysRead DEF Columned, Stands, Newest
  <2>3. Ahead(c)'
    BY <1>1, <1>3, <1>5, StaysAhead
  <2>4. Entrance(c)'
    BY <1>1, <1>3, <1>5, <2>1
    DEF CacheInv, Progress, Entrance, Newest, Signature, SourceColumns, Stands
  <2> QED
    BY <1>1, <1>2, <1>3, <2>1, <2>2, <2>3, <2>4 DEF CacheInv, Progress, InCall, Stands
<1>8. Served'
  BY <1>1, <1>3, NothingServed DEF Served
<1> QED
  BY <1>6, <1>7, <1>8, Arrives

LEMMA EstimateKeeps ==
  ASSUME CacheInv, Estimate
  PROVE  CacheInv'
<1>1. pc = "fit" /\ pc # "idle" /\ pc \in InCall
  BY DEF Estimate, InCall
<1>2. /\ Sound(Now) /\ todo \in Seq(Task) /\ todo # <<>> /\ Task1.cols \in SUBSET Num
      /\ Now.entries # <<>> /\ Newest(Now).absorb = InUse
  BY <1>1, Situation
<1>3. PICK c \in Trimmed(Now, InUse) : Install(c)
  BY DEF Estimate
<1>4. Sound(c) /\ \A n \in Num : Read(Now, n) => Read(c, n)
  BY <1>2, TrimKeeps
<1>5. /\ Stands /\ resources' = resources /\ todo' = todo /\ design' = design
      /\ missing' = missing /\ pending' = pending /\ pc' = "next"
  BY DEF Estimate, Stands
<1>6. Leads(c)
  BY <1>1, <1>2, <1>3, <1>4, <1>5 DEF Leads, CacheInv, TypeOK, Group
<1>7. /\ Task1.kind = "fit"
      /\ \A n \in Task1.cols : /\ Read(Now, n) /\ Newest(Now).within[n] = data[n]
                               /\ session.ols => design[n] = data[n]
  BY <1>1 DEF CacheInv, Progress, Columned, Newest
<1>8. Progress(c)'
  <2>1. Task1' = Task1
    BY <1>5 DEF Task1
  <2>2. \A n \in Task1.cols : Columned(c, n)'
    BY <1>2, <1>4, <1>5, <1>7, StaysRead DEF Columned, Stands
  <2>3. Ahead(c)'
    BY <1>1, <1>4, <1>5, StaysAhead
  <2> QED
    BY <1>1, <1>2, <1>5, <2>1, <2>2, <2>3 DEF CacheInv, Progress, InCall, Stands
<1>9. Served'
  <2>1. PICK columns \in {Current.within} \cup (IF session.ols THEN {design} ELSE {}) :
          served' = [by |-> "fit", absorb |-> InUse, codes |-> Current.codes,
                     aux |-> Current.aux, res |-> Current.res,
                     cols |-> [n \in Task1.cols |-> columns[n]]]
    BY DEF Estimate, Task1
  <2>2. \A n \in Task1.cols : columns[n] = data[n]
    BY <1>1, <1>7, CurrentServes
  <2>3. CodesFollow' = CodesFollow
    BY <1>5 DEF CodesFollow, OneSet, Stands
  <2> QED
    BY <1>1, <1>5, <2>1, <2>2, <2>3, CurrentServes DEF Served, Stands
<1> QED
  BY <1>6, <1>8, <1>9, Arrives

\* What the group of a task has prewarmed stays read until the task's turn comes.
LEMMA NextTaskKeeps ==
  ASSUME CacheInv, NextTask
  PROVE  CacheInv'
<1>1. pc = "next" /\ pc # "idle" /\ Len(todo) > 1
  BY DEF NextTask
<1>2. /\ Sound(Now) /\ todo \in Seq(Task) /\ todo # <<>> /\ Task1.cols \in SUBSET Num
      /\ Task1 = todo[1]
  BY <1>1, Situation
<1> PICK c : c = Now
  OBVIOUS
<1>3. /\ Stands /\ resources' = resources /\ todo' = Tail(todo) /\ design' = design
      /\ missing' = missing /\ pending' = pending /\ pc' = "entry" /\ served' = NotServed
      /\ Install(c)
  BY NowStands DEF NextTask, Stands
<1> DEFINE rest == Tail(todo)
<1>4. /\ rest \in Seq(Task) /\ rest # <<>> /\ Len(rest) = Len(todo) - 1
      /\ DOMAIN rest = 1..(Len(todo) - 1) /\ Len(todo) \in Nat
      /\ \A k \in DOMAIN rest : k \in Nat /\ k + 1 \in DOMAIN todo /\ rest[k] = todo[k + 1]
      /\ \A k \in DOMAIN todo : k \in Nat
  <2> DEFINE len == Len(todo)
  <2>1. len \in Nat /\ len > 1 /\ DOMAIN todo = 1..len
    BY <1>1, <1>2
  <2>2. rest \in Seq(Task) /\ Len(rest) = len - 1 /\ \A k \in 1..(len - 1) : rest[k] = todo[k + 1]
    BY <1>1, <1>2, HeadTailProperties
  <2> HIDE DEF rest, len
  <2>3. DOMAIN rest = 1..(len - 1) /\ rest # <<>>
    BY <2>1, <2>2
  <2> QED
    BY <2>1, <2>2, <2>3 DEF len
<1> HIDE DEF rest
<1>5. \A k \in DOMAIN rest : Group(rest[k].absorb)
  BY <1>4 DEF CacheInv, Group
<1>6. Leads(c)
  BY <1>1, <1>2, <1>3, <1>4, <1>5 DEF Leads, CacheInv, TypeOK, Group, rest
<1>7. \A n \in Task1.cols : Read(c, n)
  BY <1>1 DEF CacheInv, Progress, Columned
<1>8. ASSUME NEW k \in DOMAIN rest, rest[k].prewarmed, NEW n \in rest[k].cols
      PROVE  Read(c, n) \/ \E j \in 1..(k - 1) : n \in rest[j].cols
  <2>1. k \in Nat /\ k + 1 \in DOMAIN todo /\ rest[k] = todo[k + 1]
    BY <1>4
  <2>2. Read(c, n) \/ \E j \in 1..k : n \in todo[j].cols
    <3>1. Read(c, n) \/ \E j \in 1..((k + 1) - 1) : n \in todo[j].cols
      BY <1>1, <1>8, <2>1 DEF CacheInv, Progress, Ahead
    <3>2. (k + 1) - 1 = k
      BY <2>1
    <3> QED
      BY <3>1, <3>2
  <2>3. ASSUME NEW j \in 1..k, n \in todo[j].cols, j # 1
        PROVE  \E i \in 1..(k - 1) : n \in rest[i].cols
    <3>1. j - 1 \in 1..(k - 1) /\ j - 1 \in DOMAIN rest /\ (j - 1) + 1 = j
      BY <1>4, <2>1, <2>3
    <3>2. rest[j - 1] = todo[j]
      BY <1>4, <3>1
    <3> QED
      BY <2>3, <3>1, <3>2
  <2> QED
    BY <1>2, <1>7, <2>2, <2>3
<1>9. Ahead(c)'
  BY <1>3, <1>8, StaysRead DEF Ahead, Stands, rest
<1>10. Progress(c)'
  <2>1. Head(rest) = rest[1] /\ 1 \in DOMAIN rest
    BY <1>4
  <2>2. Task1' = rest[1]
    BY <1>3, <2>1 DEF Task1, rest
  <2>3. \A n \in Task1'.cols : Columned(c, n)'
    BY <1>3 DEF Columned
  <2> QED
    BY <1>3, <1>4, <1>5, <1>9, <2>1, <2>2, <2>3 DEF Progress, InCall, Group, Stands, rest
<1>11. Served'
  BY <1>3 DEF Served
<1> QED
  BY <1>6, <1>10, <1>11, Arrives

-----------------------------------------------------------------------------
(* The beginning and the end of a call.                                      *)

\* A plan names FE sets of the session's specifications only, and a fit it takes to be
\* prewarmed comes after the group that reads its columns.
Planned(plan) ==
  /\ plan \in Seq(Task) /\ plan # <<>>
  /\ \A k \in DOMAIN plan :
       /\ Group(plan[k].absorb)
       /\ plan[k].prewarmed =>
            \A n \in plan[k].cols : \E j \in 1..(k - 1) : n \in plan[j].cols

LEMMA SpecsAre ==
  ASSUME session \in Sessions
  PROVE  session.specs \subseteq SpecType /\ session.mutable \in SUBSET Columns
<1>1. session \in SessionType
  BY SessionAssumption
<1> QED
  BY <1>1 DEF SessionType

LEMMA OneTask ==
  ASSUME NEW t \in Task, Group(t.absorb), ~t.prewarmed
  PROVE  Planned(<<t>>)
<1> DEFINE plan == <<t>>
<1>1. plan \in Seq(Task) /\ plan # <<>> /\ DOMAIN plan = {1} /\ plan[1] = t
  OBVIOUS
<1> HIDE DEF plan
<1> QED
  BY <1>1 DEF Planned, plan

LEMMA GroupsThenFits ==
  ASSUME session \in Sessions, NEW b \in session.specs \X session.specs, NEW o \in GroupOrders(b)
  PROVE  Planned([k \in DOMAIN o |-> Prepare("group", o[k], ColsOf(b, o[k]))]
                   \o [i \in DOMAIN b |-> Fit(b[i], TRUE)])
<1> DEFINE A == {b[i].absorb : i \in DOMAIN b}
           size == Cardinality(A)
           groups == [k \in DOMAIN o |-> Prepare("group", o[k], ColsOf(b, o[k]))]
           fits == [i \in DOMAIN b |-> Fit(b[i], TRUE)]
<1>1. /\ DOMAIN b = 1..2 /\ b[1] \in session.specs /\ b[2] \in session.specs
      /\ \A i \in 1..2 : b[i] \in session.specs
  <2>1. PICK s \in session.specs, t \in session.specs : b = <<s, t>>
    OBVIOUS
  <2>2. DOMAIN b = 1..2 /\ b[1] = s /\ b[2] = t
    BY <2>1
  <2>3. \A i \in 1..2 : i = 1 \/ i = 2
    OBVIOUS
  <2> QED
    BY <2>2, <2>3
<1>2. \A s \in session.specs : s.absorb \in SUBSET FE /\ s.cols \in SUBSET Num /\ Group(s.absorb)
  BY SpecsAre DEF SpecType, Group
<1>3. \A i \in 1..2 : /\ b[i].absorb \in SUBSET FE /\ b[i].cols \in SUBSET Num
                      /\ Group(b[i].absorb) /\ b[i].absorb \in A
  BY <1>1, <1>2
<1>4. size \in Nat
  <2>1. A = {b[1].absorb, b[2].absorb}
    <3>1. \A i \in 1..2 : i = 1 \/ i = 2
      OBVIOUS
    <3> QED
      BY <1>1, <3>1
  <2>2. IsFiniteSet({b[1].absorb, b[2].absorb})
    <3> PICK p, q : p = b[1].absorb /\ q = b[2].absorb
      OBVIOUS
    <3>1. IsFiniteSet({p})
      BY FS_Singleton
    <3>2. IsFiniteSet({p} \cup {q})
      BY <3>1, FS_AddElement
    <3>3. {p} \cup {q} = {p, q}
      OBVIOUS
    <3> QED
      BY <3>2, <3>3
  <2> HIDE DEF A
  <2> QED
    BY <2>1, <2>2, FS_CardinalityType
<1>5. o \in [1..size -> A] /\ \A a \in A : \E k \in 1..size : o[k] = a
  BY DEF GroupOrders
<1>6. \A k \in 1..size : /\ o[k] \in SUBSET FE /\ Group(o[k])
                         /\ ColsOf(b, o[k]) \in SUBSET Num
  <2> TAKE k \in 1..size
  <2>1. PICK i \in 1..2 : o[k] = b[i].absorb
    BY <1>1, <1>5
  <2>2. \A j \in 1..2 : b[j].cols \subseteq Num
    BY <1>3
  <2>3. ColsOf(b, o[k]) \in SUBSET Num
    BY <1>1, <2>2 DEF ColsOf
  <2> QED
    BY <1>3, <2>1, <2>3
<1>7. /\ groups \in Seq(Task) /\ Len(groups) = size
      /\ \A k \in 1..size : /\ groups[k].absorb = o[k] /\ groups[k].prewarmed = FALSE
                            /\ groups[k].cols = ColsOf(b, o[k])
  <2>1. DOMAIN o = 1..size
    BY <1>5
  <2>2. \A k \in 1..size : Prepare("group", o[k], ColsOf(b, o[k])) \in Task
    BY <1>6 DEF Prepare, Task
  <2>3. groups = [k \in 1..size |-> Prepare("group", o[k], ColsOf(b, o[k]))]
    BY <2>1
  <2> HIDE DEF groups, size
  <2>4. groups \in Seq(Task) /\ Len(groups) = size
    BY <1>4, <2>2, <2>3
  <2>5. \A k \in 1..size : groups[k] = Prepare("group", o[k], ColsOf(b, o[k]))
    BY <2>3
  <2> QED
    BY <2>4, <2>5 DEF Prepare
<1>8. /\ fits \in Seq(Task) /\ Len(fits) = 2
      /\ \A i \in 1..2 : /\ fits[i].absorb = b[i].absorb /\ fits[i].cols = b[i].cols
  <2>1. \A i \in 1..2 : Fit(b[i], TRUE) \in Task
    BY <1>3 DEF Fit, Task
  <2>2. fits = [i \in 1..2 |-> Fit(b[i], TRUE)]
    BY <1>1
  <2> HIDE DEF fits
  <2>3. fits \in Seq(Task) /\ Len(fits) = 2
    <3> PICK n \in Nat : n = 2
      OBVIOUS
    <3> DEFINE asked(i) == Fit(b[i], TRUE)
    <3>1. fits = [i \in 1..n |-> asked(i)] /\ \A i \in 1..n : asked(i) \in Task
      BY <2>1, <2>2
    <3> HIDE DEF asked
    <3>2. fits \in Seq(Task) /\ Len(fits) = n
      BY <3>1
    <3> QED
      BY <3>2
  <2>4. \A i \in 1..2 : fits[i] = Fit(b[i], TRUE)
    BY <2>2
  <2> QED
    BY <2>3, <2>4 DEF Fit
<1>9. \A i \in 1..2 : \E j \in 1..size : b[i].cols \subseteq ColsOf(b, o[j])
  <2> TAKE i \in 1..2
  <2>1. PICK j \in 1..size : o[j] = b[i].absorb
    BY <1>3, <1>5
  <2>2. i \in {k \in DOMAIN b : b[k].absorb = o[j]}
    BY <1>1, <2>1
  <2>3. b[i].cols \subseteq ColsOf(b, o[j])
    BY <2>2 DEF ColsOf
  <2> QED
    BY <2>3
<1> HIDE DEF groups, fits, size, A
<1> DEFINE plan == groups \o fits
<1>10. /\ plan \in Seq(Task) /\ plan # <<>> /\ DOMAIN plan = 1..(size + 2)
       /\ \A k \in 1..size : plan[k] = groups[k]
       /\ \A k \in (size + 1)..(size + 2) : plan[k] = fits[k - size]
  <2>1. /\ Len(plan) = size + 2 /\ plan \in Seq(Task)
        /\ \A k \in 1..(size + 2) : plan[k] = IF k <= size THEN groups[k] ELSE fits[k - size]
    <3>1. /\ plan \in Seq(Task) /\ Len(plan) = Len(groups) + Len(fits)
          /\ \A k \in 1..(Len(groups) + Len(fits)) :
               plan[k] = IF k <= Len(groups) THEN groups[k] ELSE fits[k - Len(groups)]
      BY <1>7, <1>8, ConcatProperties
    <3> HIDE DEF plan
    <3> QED
      BY <1>7, <1>8, <3>1
  <2> HIDE DEF plan
  <2> QED
    BY <1>4, <2>1
<1> HIDE DEF plan
<1>11. ASSUME NEW k \in DOMAIN plan
       PROVE  /\ Group(plan[k].absorb)
              /\ plan[k].prewarmed =>
                   \A n \in plan[k].cols : \E j \in 1..(k - 1) : n \in plan[j].cols
  <2>1. CASE k \in 1..size
    BY <1>6, <1>7, <1>10, <2>1
  <2>2. CASE k \in (size + 1)..(size + 2)
    <3> PICK i \in 1..2 : i = k - size
      BY <1>4, <2>2
    <3>1. plan[k].absorb = b[i].absorb /\ plan[k].cols = b[i].cols
      BY <1>8, <1>10, <2>2
    <3>2. PICK j \in 1..size : b[i].cols \subseteq ColsOf(b, o[j])
      BY <1>9
    <3>3. j \in 1..(k - 1) /\ plan[j].cols = ColsOf(b, o[j])
      BY <1>4, <1>7, <1>10, <2>2, <3>2
    <3> QED
      BY <1>3, <3>1, <3>2, <3>3
  <2> QED
    BY <1>4, <1>10, <1>11, <2>1, <2>2
<1> QED
  BY <1>10, <1>11 DEF Planned, plan, groups, fits

LEMMA PlansAre ==
  ASSUME session \in Sessions, NEW plan \in Plans
  PROVE  Planned(plan)
<1>1. \A s \in session.specs : s.absorb \in SUBSET FE /\ s.cols \in SUBSET Num /\ Group(s.absorb)
  BY SpecsAre DEF SpecType, Group
<1>2. ASSUME NEW s \in session.specs PROVE Planned(<<Fit(s, FALSE)>>)
  <2>1. Fit(s, FALSE) \in Task /\ Group(Fit(s, FALSE).absorb) /\ ~Fit(s, FALSE).prewarmed
    BY <1>1 DEF Fit, Task
  <2> QED
    BY <2>1, OneTask
<1>3. ASSUME NEW s \in session.specs PROVE Planned(<<Prepare("prewarm", s.absorb, s.cols)>>)
  <2> DEFINE t == Prepare("prewarm", s.absorb, s.cols)
  <2>1. t \in Task /\ Group(t.absorb) /\ ~t.prewarmed
    BY <1>1 DEF Prepare, Task
  <2> HIDE DEF t
  <2>2. Planned(<<t>>)
    BY <2>1, OneTask
  <2> QED
    BY <2>2 DEF t
<1>4. \/ \E s \in session.specs : plan = <<Fit(s, FALSE)>>
      \/ \E s \in session.specs : plan = <<Prepare("prewarm", s.absorb, s.cols)>>
      \/ \E b \in session.specs \X session.specs : \E o \in GroupOrders(b) :
           plan = [k \in DOMAIN o |-> Prepare("group", o[k], ColsOf(b, o[k]))]
                    \o [i \in DOMAIN b |-> Fit(b[i], TRUE)]
  BY DEF Plans
<1> QED
  BY <1>2, <1>3, <1>4, GroupsThenFits

LEMMA EmptyIs ==
  ASSUME NEW c, c = Empty
  PROVE  Sound(c) /\ c.components = NoCodes /\ \A n \in Num : Read(c, n)
<1> DEFINE none == <<>>
<1>1. none \in Seq(Entry) /\ DOMAIN none = {}
  OBVIOUS
<1>2. c = [entries |-> none, components |-> NoCodes, rawFull |-> NoColumns]
  BY DEF Empty
<1> HIDE DEF none
<1>3. c \in Caches
  BY <1>1, <1>2, Numbers DEF Caches
<1> QED
  BY <1>1, <1>2, <1>3 DEF Sound, Shared, NoCodes, NoColumns, Read

\* What the cache policy leaves of a sound cache.
LEMMA AtBoundaryIs ==
  ASSUME NEW c, Sound(c), NEW d \in AtBoundary(c)
  PROVE  Sound(d) /\ (session.off => d.components = NoCodes)
<1>1. CASE session.off
  BY <1>1, EmptyIs DEF AtBoundary
<1>2. CASE ~session.off
  <2>1. d \in Trimmed(c, Nothing)
    BY <1>2 DEF AtBoundary
  <2> QED
    BY <1>2, <2>1, TrimKeeps
<1> QED
  BY <1>1, <1>2

LEMMA BeginKeeps ==
  ASSUME CacheInv, Begin
  PROVE  CacheInv'
<1>1. pc = "idle" /\ Sound(Now) /\ session \in Sessions
  BY Situation DEF Begin, CacheInv, TypeOK
<1>2. PICK plan \in Plans, c \in AtBoundary(Now) : todo' = plan /\ Install(c)
  BY DEF Begin
<1>3. Sound(c)
  BY <1>1, AtBoundaryIs
<1>4. Planned(plan)
  BY <1>1, PlansAre
<1>5. /\ Stands /\ resources' \in Resources /\ design' = design /\ missing' = missing
      /\ pending' = pending /\ pc' = "entry" /\ served' = NotServed
  BY DEF Begin, Stands
<1>6. Leads(c)
  BY <1>2, <1>3, <1>4, <1>5 DEF Leads, Planned, CacheInv, TypeOK
<1>7. Progress(c)'
  <2>1. 1 \in DOMAIN plan /\ Head(plan) = plan[1]
    <3>1. plan \in Seq(Task) /\ plan # <<>>
      BY <1>4 DEF Planned
    <3> QED
      BY <3>1
  <2>2. Task1' = plan[1]
    BY <1>2, <2>1 DEF Task1
  <2>3. Group(plan[1].absorb)
    BY <1>4, <2>1 DEF Planned
  <2>4. Ahead(c)'
    BY <1>2, <1>4 DEF Ahead, Planned
  <2>5. \A n \in Task1'.cols : Columned(c, n)'
    BY <1>5 DEF Columned
  <2> QED
    BY <1>2, <1>4, <1>5, <2>2, <2>3, <2>4, <2>5 DEF Progress, InCall, Group, Stands, Planned
<1>8. Served'
  BY <1>5 DEF Served
<1> QED
  BY <1>6, <1>7, <1>8, Arrives

LEMMA LeaveKeeps ==
  ASSUME CacheInv, NEW c, Sound(c), Leave(c)
  PROVE  CacheInv'
<1>1. PICK d \in AtBoundary(c) : Install(d)
  BY DEF Leave
<1>2. Sound(d) /\ d \in Caches /\ (session.off => d.components = NoCodes)
  BY AtBoundaryIs DEF Sound
<1>3. Now' = d
  BY <1>1, <1>2, Installed
<1>4. /\ Stands /\ resources' = resources /\ todo' = <<>> /\ pc' = "idle"
      /\ pending' = {} /\ missing' = {} /\ design' = NoColumns /\ served' = NotServed
  BY DEF Leave, Stands
<1>5. Sound(Now)'
  BY <1>2, <1>3, <1>4, StaysSound
<1>6. TypeOK'
  <2>1. entries' \in Seq(Entry) /\ components' \in [FE -> Copy] /\ rawFull' \in [Num -> Copy]
    BY <1>1, <1>2 DEF Install, Caches
  <2>2. todo' \in Seq(Task)
    <3> DEFINE none == <<>>
    <3>1. none \in Seq(Task)
      OBVIOUS
    <3> QED
      BY <1>4, <3>1
  <2> QED
    BY <1>4, <2>1, <2>2, Numbers DEF CacheInv, TypeOK, Stands, Entry, Copy, Versions, Task
<1>7. \A k \in DOMAIN todo' : FALSE
  <2>1. DOMAIN (<<>>) = {}
    OBVIOUS
  <2> QED
    BY <1>4, <2>1
<1>8. session'.off /\ pc' = "idle" => components' = NoCodes
  BY <1>1, <1>2, <1>4 DEF Install, Stands
<1>9. Progress(Now)' /\ Served'
  BY <1>4 DEF Progress, InCall, Served
<1> QED
  BY <1>4, <1>5, <1>6, <1>7, <1>8, <1>9 DEF CacheInv, Stands

LEMMA FailToCompileKeeps ==
  ASSUME CacheInv, FailToCompile
  PROVE  CacheInv'
<1>1. pc # "idle" /\ session.mayFail
  BY DEF FailToCompile
<1>2. Times /\ Sound(Now) /\ InUse \in SUBSET FE /\ Group(InUse)
  BY <1>1, Situation
<1>3. PICK c \in Trimmed(Now, InUse), fs \in SUBSET InUse :
        Leave(Encode(WithoutStale(c, InUse), fs))
  BY DEF FailToCompile, InUse
<1>4. Sound(c)
  BY <1>2, TrimKeeps
<1>5. Sound(Encode(WithoutStale(c, InUse), fs))
  BY <1>1, <1>2, <1>4, HalfEncoded
<1> QED
  BY <1>3, <1>5, LeaveKeeps

LEMMA MutateKeeps ==
  ASSUME CacheInv, NEW c \in Columns, Mutate(c)
  PROVE  CacheInv'
<1>1. pc = "idle" /\ c \in session.mutable /\ data \in [Columns -> Versions] /\ data[c] < MaxVersion
  BY DEF Mutate, CacheInv, TypeOK
<1>2. /\ UNCHANGED <<session, entries, components, rawFull, pc, todo, pending, missing,
                     resources, design, served>>
      /\ data' = [data EXCEPT ![c] = @ + 1]
  BY DEF Mutate, caches
<1>3. data' \in [Columns -> Versions] /\ \A e \in Columns : e # c => data'[e] = data[e]
  BY <1>1, <1>2, SessionAssumption DEF Versions
<1>4. Now' = Now /\ Sound(Now)
  BY <1>2, Situation DEF Now
<1>5. ASSUME session.mutable \cap FE = {}
      PROVE  \A f \in FE : data'[f] = data[f]
  BY <1>1, <1>3, <1>5, Numbers
<1>6. Shared(Now)'
  <2>1. session.off => \A f \in FE : Now.components[f] = Absent
    BY <1>1 DEF CacheInv, Now, NoCodes
  <2>2. OneSet' = OneSet
    BY <1>2 DEF OneSet
  <2> QED
    BY <1>2, <1>4, <1>5, <2>1, <2>2 DEF Shared, Sound, NoCodes
<1>7. Sound(Now)'
  <2>1. \A a \in DOMAIN Now.entries : Paired(Now, Now.entries[a]) /\ Truthful(Now.entries[a])
    BY <1>4 DEF Sound
  <2>2. \A a \in DOMAIN Now'.entries : Paired(Now, Now.entries[a])' /\ Truthful(Now.entries[a])'
    BY <1>2, <1>4, <2>1 DEF Paired, Truthful, CodesFollow, OneSet
  <2> QED
    BY <1>2, <1>4, <1>6, <2>2 DEF Sound, Caches, Entry, Copy, Versions, NoCodes
<1>8. TypeOK'
  BY <1>2, <1>3 DEF CacheInv, TypeOK, Entry, Copy, Versions, Task
<1>9. Progress(Now)' /\ Served'
  BY <1>1, <1>2, NothingServed DEF Progress, InCall, Served
<1> QED
  BY <1>1, <1>2, <1>5, <1>7, <1>8, <1>9 DEF CacheInv, NoCodes

LEMMA StutterKeeps ==
  ASSUME CacheInv, UNCHANGED vars
  PROVE  CacheInv'
<1>1. UNCHANGED <<session, data, entries, components, rawFull, pc, todo, pending, missing,
                  resources, design, served>>
  BY DEF vars, caches
<1>2. Now' = Now /\ Stands /\ Task1' = Task1 /\ InUse' = InUse
  BY <1>1 DEF Now, Stands, Task1, InUse
<1>3. Sound(Now)'
  BY <1>1, <1>2, StaysSound DEF CacheInv
<1>4. Progress(Now)'
  <2> PICK c : c = Now
    OBVIOUS
  <2>1. Progress(c)
    BY DEF CacheInv
  <2>2. Progress(c)'
    BY <1>1, <1>2, <2>1 DEF Progress, InCall, Entrance, Signature, SourceColumns, Columned, Noted,
                       Read, Ahead
  <2> QED
    BY <1>2, <2>2
<1>5. TypeOK' /\ Served'
  BY <1>1 DEF CacheInv, TypeOK, Served, CodesFollow, OneSet, Entry, Copy, Versions, Task
<1> QED
  BY <1>1, <1>3, <1>4, <1>5 DEF CacheInv

LEMMA Begins ==
  ASSUME Init
  PROVE  CacheInv
<1> DEFINE none == <<>>
<1>1. none \in Seq(Entry) /\ none \in Seq(Task) /\ DOMAIN none = {}
  OBVIOUS
<1> HIDE DEF none
<1>2. entries = none /\ todo = none /\ Now = Empty
  BY DEF Init, Now, Empty, none
<1>3. data \in [Columns -> Versions] /\ \A f \in FE : data[f] = 1
  BY SessionAssumption, Numbers DEF Init, Versions
<1>4. TypeOK
  BY <1>1, <1>2, <1>3, Numbers DEF Init, TypeOK
<1>5. Sound(Now)
  BY <1>2, EmptyIs
<1> QED
  BY <1>1, <1>2, <1>3, <1>4, <1>5 DEF Init, CacheInv, Progress, InCall, Served

LEMMA Steps ==
  ASSUME CacheInv, [Next]_vars
  PROVE  CacheInv'
<1>1. Sound(Now)
  BY DEF CacheInv
<1>2. ASSUME End PROVE CacheInv'
  BY <1>1, <1>2, LeaveKeeps DEF End
<1>3. ASSUME Fail PROVE CacheInv'
  BY <1>1, <1>3, LeaveKeeps DEF Fail
<1>4. ASSUME NEW c \in Columns, Mutate(c) PROVE CacheInv'
  BY <1>4, MutateKeeps
<1>5. ASSUME NEW n \in Num, ReadDesign(n) \/ ReadWithin(n) PROVE CacheInv'
  BY <1>5, ReadDesignKeeps, ReadWithinKeeps
<1> QED
  BY <1>2, <1>3, <1>4, <1>5, BeginKeeps, GetEntryKeeps, FitInBasisKeeps, StackDesignKeeps,
     CheckKeeps, ResidualizeKeeps, EstimateKeeps, NextTaskKeeps, FailToCompileKeeps, StutterKeeps
  DEF Next

LEMMA CacheInvAlways == Spec => []CacheInv
<1>1. Init => CacheInv
  BY Begins
<1>2. CacheInv /\ [Next]_vars => CacheInv'
  BY Steps
<1> QED
  BY <1>1, <1>2, PTL DEF Spec

-----------------------------------------------------------------------------
\* The caches of a session agree with one another, whatever is changed, trimmed or fails:
\* a partialled-out copy is of the cached full column and of the raw copy beside it, and
\* a fit runs on the absorber planned for its call.
THEOREM SessionsAgree == Spec => []CachesAgree
<1>1. CacheInv => CachesAgree
  <2> SUFFICES ASSUME CacheInv PROVE CachesAgree
    OBVIOUS
  <2>1. \A a \in DOMAIN entries : Paired(Now, entries[a])
    BY NowIs DEF CacheInv, Sound
  <2>2. CopiesOfOneRead /\ RawBesideWithin
    BY <2>1, NowIs DEF CopiesOfOneRead, RawBesideWithin, Paired
  <2>3. PlanOfThisCall
    BY DEF CacheInv, Served, PlanOfThisCall
  <2> QED
    BY <2>2, <2>3 DEF CacheInv, CachesAgree
<1> QED
  BY <1>1, CacheInvAlways, PTL

\* Weights, clusters, outcome and regressors of a fit are always of the data as they are
\* now; only FE codes can be older.
ColumnsServedFresh ==
  served # NotServed =>
    /\ \A x \in Aux : served.aux[x] = data[x]
    /\ \A n \in DOMAIN served.cols : served.cols[n] = data[n]

\* So it is for every session, also with several FE sets and calls that fail.
THEOREM ColumnsAreServedFresh == Spec => []ColumnsServedFresh
<1>1. CacheInv => ColumnsServedFresh
  BY DEF CacheInv, Served, ColumnsServedFresh
<1> QED
  BY <1>1, CacheInvAlways, PTL

\* A session that keeps nothing between calls, whose FE columns do not change, or whose
\* specifications have one FE set and no failing call, serves no fit from older data.
THEOREM FitsAreServedFresh ==
  ASSUME \A s \in Sessions : \/ s.off \/ s.mutable \cap FE = {}
                             \/ ~s.mayFail /\ \A p, q \in s.specs : p.absorb = q.absorb
  PROVE  Spec => []ServedFresh
<1>1. CacheInv => ServedFresh
  <2> SUFFICES ASSUME CacheInv PROVE ServedFresh
    OBVIOUS
  <2>1. CodesFollow
    BY DEF CacheInv, TypeOK, CodesFollow, OneSet
  <2> QED
    BY <2>1 DEF CacheInv, Served, ServedFresh
<1> QED
  BY <1>1, CacheInvAlways, PTL

-----------------------------------------------------------------------------
(* The store that sessions share.                                            *)

\* The data file rests while a session is open.
AlwaysQuiet == \A s \in Setups : s.quiet

\* Different clusters have different descriptors.  Arrays of Python strings do not, which is
\* the disagreement the run on such clusters finds.
DescribedApart == \A k, l \in Clusters : Descriptor(k) = Descriptor(l) => k = l

Saving == {"columns", "valid", "json"}
Fitting == {"key", "within", "npy", "manifest", "estimate", "result", "replace", "done"}
Places == {"closed", "idle"} \cup Saving \cup Fitting

\* The fingerprints a file can have had so far.
Prints == IF setup.validation = "strict" THEN {<<c>> : c \in Contents}
          ELSE {<<k>> : k \in 1 .. Len(history)}

\* What belongs under the key of a partialled-out column, and of a result.
WithinData(key) == [c \in {"y"} \cup key[1] |-> IF c = "y" THEN key[3] ELSE key[2][c]]
ResultData(key) == [c \in {"y"} \cup key[1] |-> key[2][c]]

Named ==
  \A n \in DOMAIN disk :
    /\ n[1] \in ColumnParts =>
         n[2] \in Prints /\ n[3] \in FileColumns /\ disk[n] = ContentOf(n[2])[n[3]]
    /\ n[1] \in {"npy", "manifest"} => disk[n] = WithinData(n[2])
    /\ n[1] = "result" => /\ disk[n].data = ResultData(n[2])
                          /\ disk[n].cluster \in Clusters
                          /\ Descriptor(disk[n].cluster) = n[2][3]

\* The outcome and FE columns of a fit, as the file is now.
InFile(p) == [c \in {"y"} \cup call[p] |-> File[c]]

\* The columns of a process have the content of the file.
Dataset(p) ==
  /\ DOMAIN loaded[p] \subseteq FileColumns
  /\ \A c \in DOMAIN loaded[p] : loaded[p][c].values = File[c] /\ loaded[p][c].sig = File[c]

Lookup(p) ==
  /\ lookedFor[p] \subseteq FileColumns /\ unfound[p] \subseteq FileColumns
  /\ DOMAIN fresh[p] \subseteq FileColumns /\ DOMAIN snaps[p] \subseteq FileColumns
  /\ \A c \in DOMAIN fresh[p] : fresh[p][c] = File[c]
  /\ \A c \in DOMAIN snaps[p] :
       /\ snaps[p][c] \in [values : Values \cup {None}, sig : Values]
       /\ snaps[p][c].sig = File[c]
       /\ c \notin lookedFor[p] => snaps[p][c].values = File[c]

Holds(p) ==
  /\ place[p] \in Places
  /\ call[p] \subseteq {"fe"}
  /\ cluster[p] \in Clusters
  /\ place[p] = "closed" => /\ loaded[p] = NoFiles
                            /\ DOMAIN snaps[p] = {} /\ DOMAIN fresh[p] = {}
  /\ place[p] # "closed" => memo[p] \in {<<>>, Fingerprint}
  /\ place[p] \in Saving =>
       /\ memo[p] = Fingerprint
       /\ {"y"} \cup call[p] \subseteq DOMAIN snaps[p] \cup lookedFor[p] \cup unfound[p]
  /\ place[p] # "columns" => lookedFor[p] = {}
  /\ place[p] \in Fitting => {"y"} \cup call[p] \subseteq DOMAIN loaded[p]
  /\ place[p] \in {"npy", "manifest", "estimate"} => within[p] = InFile(p)
  /\ place[p] \in {"result", "replace", "done"} =>
       /\ returned[p].data = InFile(p)
       /\ returned[p].cluster \in Clusters
       /\ Descriptor(returned[p].cluster) = Descriptor(cluster[p])

Functions1 == /\ DOMAIN place = Procs /\ DOMAIN memo = Procs /\ DOMAIN cluster = Procs
              /\ DOMAIN loaded = Procs /\ DOMAIN call = Procs
Functions2 == /\ DOMAIN lookedFor = Procs /\ DOMAIN unfound = Procs /\ DOMAIN fresh = Procs
              /\ DOMAIN snaps = Procs /\ DOMAIN saving = Procs
Functions3 == DOMAIN within = Procs /\ DOMAIN returned = Procs

Shapes ==
  /\ setup \in Setups
  /\ history \in Seq(Contents) /\ history # <<>>
  /\ Functions1 /\ Functions2 /\ Functions3
  /\ \A p \in Procs : \A c \in DOMAIN loaded[p] : loaded[p][c] \in [values : Values, sig : Values]

StoreInv == /\ Shapes
        /\ Named
        /\ \A p \in Procs : Holds(p) /\ Dataset(p) /\ Lookup(p)

-------------------------------------------------------------------------------
\* One more entry in a function.
LEMMA StepAt ==
  ASSUME NEW v, NEW p \in Procs, NEW x, DOMAIN v = Procs
  PROVE  DOMAIN Step(v, p, x) = Procs /\ \A q \in Procs : Step(v, p, x)[q] = IF q = p THEN x ELSE v[q]
BY DEF Step

LEMMA WithAt ==
  ASSUME NEW f, NEW k, NEW x
  PROVE  /\ DOMAIN With(f, k, x) = DOMAIN f \cup {k}
         /\ With(f, k, x)[k] = x
         /\ \A j \in DOMAIN f : j # k => With(f, k, x)[j] = f[j]
BY DEF With

\* The file has a fingerprint, and a fingerprint stands for one content.
LEMMA PrintsHaveContents ==
  ASSUME Shapes
  PROVE  /\ File \in Contents
         /\ Fingerprint \in Prints
         /\ ContentOf(Fingerprint) = File
         /\ \A fp \in Prints : ContentOf(fp) \in Contents
<1>1. Len(history) \in Nat /\ Len(history) > 0
  BY EmptySeq DEF Shapes
<1>2. \A k \in 1 .. Len(history) : history[k] \in Contents
  BY DEF Shapes
<1> QED
  BY <1>1, <1>2 DEF File, Fingerprint, Prints, ContentOf

\* A write of the data file keeps what earlier fingerprints stand for.
LEMMA PrintsStay ==
  ASSUME Shapes, NEW c \in Contents, history' = Append(history, c), setup' = setup
  PROVE  /\ history' \in Seq(Contents) /\ history' # <<>>
         /\ \A fp \in Prints : fp \in Prints' /\ ContentOf(fp)' = ContentOf(fp)
<1>1. Len(history) \in Nat /\ history \in Seq(Contents)
  BY DEF Shapes
<1>2. /\ history' \in Seq(Contents) /\ Len(history') = Len(history) + 1
      /\ \A k \in 1 .. Len(history) : history'[k] = history[k]
  BY <1>1
<1>3. history' # <<>>
  BY <1>1, <1>2
<1>4. CASE setup.validation = "strict"
  BY <1>2, <1>3, <1>4 DEF Prints, ContentOf
<1>5. CASE setup.validation # "strict"
  BY <1>1, <1>2, <1>3, <1>5 DEF Prints, ContentOf
<1> QED
  BY <1>4, <1>5

LEMMA SourceStays ==
  ASSUME UNCHANGED source
  PROVE  /\ File' = File /\ Fingerprint' = Fingerprint /\ Prints' = Prints
         /\ setup' = setup /\ history' = history
         /\ \A fp : ContentOf(fp)' = ContentOf(fp)
BY DEF source, File, Fingerprint, Prints, ContentOf

\* What a process sees of a step of another one.
SameFor(q) ==
  /\ place'[q] = place[q] /\ memo'[q] = memo[q] /\ cluster'[q] = cluster[q]
  /\ loaded'[q] = loaded[q] /\ call'[q] = call[q]
  /\ lookedFor'[q] = lookedFor[q] /\ unfound'[q] = unfound[q] /\ fresh'[q] = fresh[q]
  /\ snaps'[q] = snaps[q] /\ within'[q] = within[q] /\ returned'[q] = returned[q]

OnlyMoves(p) == /\ UNCHANGED source
                /\ Functions1' /\ Functions2' /\ Functions3'
                /\ \A q \in Procs \ {p} : SameFor(q)

LEMMA Untouched ==
  ASSUME NEW q \in Procs, UNCHANGED source, SameFor(q)
  PROVE  /\ Holds(q) => Holds(q)'
         /\ Dataset(q) => Dataset(q)'
         /\ Lookup(q) => Lookup(q)'
<1>1. File' = File /\ Fingerprint' = Fingerprint
  BY SourceStays
<1>2. InFile(q)' = InFile(q)
  BY <1>1 DEF InFile, SameFor
<1>3. ASSUME Holds(q) PROVE Holds(q)'
  BY <1>1, <1>2, <1>3 DEF Holds, SameFor
<1>4. ASSUME Dataset(q) PROVE Dataset(q)'
  BY <1>1, <1>4 DEF Dataset, SameFor
<1>5. ASSUME Lookup(q) PROVE Lookup(q)'
  BY <1>1, <1>5 DEF Lookup, SameFor
<1> QED
  BY <1>3, <1>4, <1>5

\* A step of one process has to be looked at for this process and for the directory.
LEMMA OneMoves ==
  ASSUME StoreInv, NEW p \in Procs, OnlyMoves(p), Named', Holds(p)', Dataset(p)', Lookup(p)',
         \A c \in DOMAIN loaded'[p] : loaded'[p][c] \in [values : Values, sig : Values]
  PROVE  StoreInv'
<1>1. UNCHANGED source /\ (Functions1 /\ Functions2 /\ Functions3)'
  BY DEF OnlyMoves
<1>2. ASSUME NEW q \in Procs, q # p
      PROVE  (Holds(q) /\ Dataset(q) /\ Lookup(q))' /\ loaded'[q] = loaded[q]
  BY <1>1, <1>2, Untouched DEF OnlyMoves, StoreInv, SameFor
<1>3. \A q \in Procs : \A c \in DOMAIN loaded'[q] : loaded'[q][c] \in [values : Values, sig : Values]
  BY <1>2 DEF StoreInv, Shapes
<1>4. Shapes'
  BY <1>1, <1>3, SourceStays DEF StoreInv, Shapes
<1> QED
  BY <1>2, <1>4 DEF StoreInv

\* The directory: one file less, one file more.
LEMMA FilesStay ==
  ASSUME Named, UNCHANGED source, DOMAIN disk' \subseteq DOMAIN disk,
         \A n \in DOMAIN disk' : disk'[n] = disk[n]
  PROVE  Named'
<1>1. Prints' = Prints /\ \A fp : ContentOf(fp)' = ContentOf(fp)
  BY SourceStays
<1> QED
  BY <1>1 DEF Named

LEMMA RemoveKeepsNamed ==
  ASSUME Named, UNCHANGED source, NEW name, RemoveFile(name)
  PROVE  Named'
BY FilesStay DEF RemoveFile, Restrict

LEMMA PutKeepsNamed ==
  ASSUME Named, UNCHANGED source, NEW name, NEW content, Put(name, content),
         /\ name[1] \in ColumnParts =>
              /\ name[2] \in Prints /\ name[3] \in FileColumns
              /\ content = ContentOf(name[2])[name[3]]
         /\ name[1] \in {"npy", "manifest"} => content = WithinData(name[2])
         /\ name[1] = "result" => /\ content.data = ResultData(name[2])
                                  /\ content.cluster \in Clusters
                                  /\ Descriptor(content.cluster) = name[2][3]
  PROVE  Named'
<1>1. Prints' = Prints /\ \A fp : ContentOf(fp)' = ContentOf(fp)
  BY SourceStays
<1>2. /\ DOMAIN disk' = DOMAIN disk \cup {name} /\ disk'[name] = content
      /\ \A n \in DOMAIN disk : n # name => disk'[n] = disk[n]
  BY DEF Put, With
<1> QED
  BY <1>1, <1>2 DEF Named

-------------------------------------------------------------------------------
\* The steps.
LEMMA OpenKeeps ==
  ASSUME StoreInv, NEW p \in Procs, Open(p)
  PROVE  StoreInv'
<1>1. OnlyMoves(p)
  BY DEF OnlyMoves, SameFor, Open, Step, Go, MemoAtOpen, source, lookup, StoreInv, Shapes,
         Functions1, Functions2, Functions3
<1>2. place'[p] = "idle" /\ memo'[p] = <<>> /\ place[p] = "closed"
  BY DEF Open, Step, Go, MemoAtOpen, StoreInv, Shapes, Functions1
<1>3. UNCHANGED <<source, disk, cluster, loaded, call, lookup, within, returned>>
  BY DEF Open
<1>4. Named'
  BY <1>3, FilesStay DEF StoreInv
<1>5. Holds(p) /\ Dataset(p) /\ Lookup(p)
  BY DEF StoreInv
<1>6. Holds(p)'
  BY <1>2, <1>3, <1>5 DEF Holds, Places, Saving, Fitting, lookup
<1>7. File' = File
  BY <1>3, SourceStays
<1>8. Dataset(p)' /\ Lookup(p)'
  BY <1>3, <1>5, <1>7 DEF Dataset, Lookup, lookup
<1>9. \A c \in DOMAIN loaded'[p] : loaded'[p][c] \in [values : Values, sig : Values]
  BY <1>3 DEF StoreInv, Shapes
<1> QED
  BY <1>1, <1>4, <1>6, <1>8, <1>9, OneMoves

LEMMA CloseKeeps ==
  ASSUME StoreInv, NEW p \in Procs, Close(p)
  PROVE  StoreInv'
<1>1. OnlyMoves(p)
  BY DEF OnlyMoves, SameFor, Close, Forget, Step, Go, source, lookup, StoreInv, Shapes,
         Functions1, Functions2, Functions3
<1>2. /\ place'[p] = "closed" /\ loaded'[p] = NoFiles /\ call'[p] = {}
      /\ lookedFor'[p] = {} /\ unfound'[p] = {} /\ fresh'[p] = NoFiles /\ snaps'[p] = NoFiles
  BY DEF Close, Forget, Step, Go, StoreInv, Shapes, Functions1, Functions2
<1>3. UNCHANGED <<source, disk, memo, cluster>>
  BY DEF Close
<1>4. Named'
  BY <1>3, FilesStay DEF StoreInv
<1>5. DOMAIN NoFiles = {}
  BY DEF NoFiles
<1>6. cluster[p] \in Clusters
  BY DEF StoreInv, Holds
<1>7. Holds(p)'
  BY <1>2, <1>3, <1>5, <1>6 DEF Holds, Places, Saving, Fitting
<1>8. Dataset(p)' /\ Lookup(p)'
  BY <1>2, <1>5 DEF Dataset, Lookup
<1> QED
  BY <1>1, <1>2, <1>4, <1>5, <1>7, <1>8, OneMoves

LEMMA BeginFitKeeps ==
  ASSUME StoreInv, NEW p \in Procs, BeginFit(p)
  PROVE  StoreInv'
<1>1. UNCHANGED <<source, disk, cluster, loaded, within, returned>> /\ place[p] = "idle"
  BY DEF BeginFit
<1>2. Holds(p) /\ Dataset(p) /\ Lookup(p)
  BY DEF StoreInv
<1>3. Named'
  BY <1>1, FilesStay DEF StoreInv
<1>4. File' = File /\ Fingerprint' = Fingerprint
  BY <1>1, SourceStays
<1>5. Dataset(p)'
  BY <1>1, <1>2, <1>4 DEF Dataset
<1>6. \A c \in DOMAIN loaded'[p] : loaded'[p][c] \in [values : Values, sig : Values]
  BY <1>1 DEF StoreInv, Shapes
<1>7. PICK absorb \in SUBSET {"fe"} :
        /\ call' = Step(call, p, absorb)
        /\ \/ /\ {"y"} \cup absorb \subseteq DOMAIN loaded[p]
              /\ Go(p, "key") /\ UNCHANGED <<memo, lookup>>
           \/ /\ memo' = Step(memo, p, IF memo[p] = <<>> THEN Fingerprint ELSE memo[p])
              /\ lookedFor' = Step(lookedFor, p, {"y"} \cup absorb \cup DOMAIN loaded[p])
              /\ Go(p, "columns")
              /\ UNCHANGED <<unfound, fresh, snaps, saving>>
  BY DEF BeginFit
<1>8. memo[p] \in {<<>>, Fingerprint}
  BY <1>1, <1>2 DEF Holds
<1>9. CASE UNCHANGED <<memo, lookup>> /\ Go(p, "key") /\ {"y"} \cup absorb \subseteq DOMAIN loaded[p]
  <2>1. OnlyMoves(p)
    BY <1>1, <1>7, <1>9 DEF OnlyMoves, SameFor, Step, Go, source, lookup, StoreInv, Shapes,
           Functions1, Functions2, Functions3
  <2>2. place'[p] = "key" /\ call'[p] = absorb
    BY <1>7, <1>9 DEF Step, Go, StoreInv, Shapes, Functions1
  <2>3. Holds(p)'
    BY <1>1, <1>2, <1>4, <1>8, <1>9, <2>2 DEF Holds, Places, Saving, Fitting, lookup
  <2>4. Lookup(p)'
    BY <1>2, <1>4, <1>9 DEF Lookup, lookup
  <2> QED
    BY <1>3, <1>5, <1>6, <2>1, <2>3, <2>4, OneMoves
<1>10. CASE /\ memo' = Step(memo, p, IF memo[p] = <<>> THEN Fingerprint ELSE memo[p])
            /\ lookedFor' = Step(lookedFor, p, {"y"} \cup absorb \cup DOMAIN loaded[p])
            /\ Go(p, "columns")
            /\ UNCHANGED <<unfound, fresh, snaps, saving>>
  <2>1. OnlyMoves(p)
    BY <1>1, <1>7, <1>10 DEF OnlyMoves, SameFor, Step, Go, source, lookup, StoreInv, Shapes,
           Functions1, Functions2, Functions3
  <2>2. /\ place'[p] = "columns" /\ call'[p] = absorb
        /\ lookedFor'[p] = {"y"} \cup absorb \cup DOMAIN loaded[p]
        /\ memo'[p] = Fingerprint
    BY <1>7, <1>8, <1>10 DEF Step, Go, StoreInv, Shapes, Functions1, Functions2
  <2>3. Holds(p)'
    BY <1>1, <1>2, <1>4, <1>10, <2>2 DEF Holds, Places, Saving, Fitting
  <2>4. lookedFor[p] \subseteq lookedFor'[p]
    BY <1>1, <1>2 DEF Holds
  <2>5. Lookup(p)'
    BY <1>2, <1>4, <1>10, <2>2, <2>4 DEF Lookup, Dataset, FileColumns
  <2> QED
    BY <1>3, <1>5, <1>6, <2>1, <2>3, <2>5, OneMoves
<1> QED
  BY <1>7, <1>9, <1>10

\* What holds of a process that looks up columns, whatever it finds next: its dataset and the
\* call stay, and so do the columns looked up so far.
LookupStep(p) ==
  /\ UNCHANGED <<source, memo, cluster, loaded, call, within, returned>>
  /\ OnlyMoves(p)
  /\ place[p] \in Saving /\ place'[p] \in Saving
  /\ place'[p] # "columns" => lookedFor'[p] = {}
  /\ DOMAIN snaps[p] \cup lookedFor[p] \cup unfound[p]
       \subseteq DOMAIN snaps'[p] \cup lookedFor'[p] \cup unfound'[p]

LEMMA LookupStepKeeps ==
  ASSUME StoreInv, NEW p \in Procs, LookupStep(p), Named', Lookup(p)'
  PROVE  StoreInv'
<1>1. UNCHANGED <<source, memo, cluster, loaded, call, within, returned>> /\ OnlyMoves(p)
  BY DEF LookupStep
<1>2. Holds(p) /\ Dataset(p)
  BY DEF StoreInv
<1>3. File' = File /\ Fingerprint' = Fingerprint
  BY <1>1, SourceStays
<1>4. Dataset(p)'
  BY <1>1, <1>2, <1>3 DEF Dataset
<1>5. \A c \in DOMAIN loaded'[p] : loaded'[p][c] \in [values : Values, sig : Values]
  BY <1>1 DEF StoreInv, Shapes
<1>6. Holds(p)'
  BY <1>1, <1>2, <1>3 DEF LookupStep, Holds, Places, Saving, Fitting
<1> QED
  BY <1>1, <1>4, <1>5, <1>6, OneMoves

\* One more column found, with its signature and, unless it is still looked for, its values.
LEMMA FoundColumn ==
  ASSUME NEW p \in Procs, Lookup(p), UNCHANGED source, NEW c \in FileColumns, NEW x,
         x \in [values : Values \cup {None}, sig : Values], x.sig = File[c],
         c \notin lookedFor'[p] => x.values = File[c],
         snaps'[p] = With(snaps[p], c, x),
         lookedFor[p] \ {c} \subseteq lookedFor'[p], lookedFor'[p] \subseteq FileColumns,
         unfound'[p] \subseteq FileColumns, fresh'[p] = fresh[p]
  PROVE  Lookup(p)' /\ DOMAIN snaps'[p] = DOMAIN snaps[p] \cup {c}
<1>1. File' = File
  BY SourceStays
<1>2. /\ DOMAIN snaps'[p] = DOMAIN snaps[p] \cup {c} /\ snaps'[p][c] = x
      /\ \A d \in DOMAIN snaps[p] : d # c => snaps'[p][d] = snaps[p][d]
  BY DEF With
<1> QED
  BY <1>1, <1>2 DEF Lookup

\* Signatures and values are contents of columns.
LEMMA FreshIsTyped ==
  ASSUME Shapes, NEW c \in FileColumns
  PROVE  /\ File[c] \in Values
         /\ [values |-> File[c], sig |-> File[c]] \in [values : Values \cup {None}, sig : Values]
         /\ [values |-> None, sig |-> File[c]] \in [values : Values \cup {None}, sig : Values]
BY PrintsHaveContents DEF Contents

\* A file of a column, found under the fingerprint of the process, has the file's content.
LEMMA ColumnOnDisk ==
  ASSUME StoreInv, NEW p \in Procs, place[p] \in Saving, NEW part \in ColumnParts,
         NEW c \in FileColumns, ColumnFile(part, memo[p], c) \in DOMAIN disk
  PROVE  disk[ColumnFile(part, memo[p], c)] = File[c]
<1>1. memo[p] = Fingerprint
  BY DEF StoreInv, Holds
<1>2. ContentOf(Fingerprint) = File
  BY PrintsHaveContents DEF StoreInv
<1> DEFINE n == ColumnFile(part, memo[p], c)
<1>3. n[1] = part /\ n[2] = memo[p] /\ n[3] = c
  BY DEF ColumnFile
<1>4. disk[n] = ContentOf(n[2])[n[3]]
  BY <1>3 DEF StoreInv, Named
<1> QED
  BY <1>1, <1>2, <1>3, <1>4

LEMMA NotFoundKeeps ==
  ASSUME StoreInv, NEW p \in Procs, NEW c \in FileColumns, UNCHANGED source,
         NotFound(p, c), lookedFor'[p] = lookedFor[p] \ {c}, fresh'[p] = fresh[p],
         c \notin DOMAIN snaps[p] \/ c \in DOMAIN fresh[p]
  PROVE  /\ Lookup(p)'
         /\ DOMAIN snaps[p] \cup lookedFor[p] \cup unfound[p]
              \subseteq DOMAIN snaps'[p] \cup lookedFor'[p] \cup unfound'[p]
<1>1. Lookup(p) /\ Shapes /\ Functions2
  BY DEF StoreInv, Shapes
<1>2. CASE c \in DOMAIN fresh[p]
  <2> DEFINE x == [values |-> fresh[p][c], sig |-> fresh[p][c]]
  <2>1. snaps'[p] = With(snaps[p], c, x) /\ unfound' = unfound
    BY <1>1, <1>2 DEF NotFound, Step, Functions2
  <2>2. x = [values |-> File[c], sig |-> File[c]]
    BY <1>1, <1>2 DEF Lookup
  <2>3. unfound'[p] \subseteq FileColumns /\ lookedFor'[p] \subseteq FileColumns
        /\ lookedFor[p] \ {c} \subseteq lookedFor'[p]
    BY <1>1, <2>1 DEF Lookup
  <2> HIDE DEF x
  <2>4. x \in [values : Values \cup {None}, sig : Values] /\ x.sig = File[c] /\ x.values = File[c]
    BY <1>1, <2>2, FreshIsTyped
  <2>5. Lookup(p)' /\ DOMAIN snaps'[p] = DOMAIN snaps[p] \cup {c}
    BY <1>1, <2>1, <2>3, <2>4, FoundColumn
  <2> QED
    BY <2>1, <2>5
<1>3. CASE c \notin DOMAIN fresh[p]
  <2>1. unfound'[p] = unfound[p] \cup {c} /\ snaps' = snaps
    BY <1>1, <1>3 DEF NotFound, Step, Functions2
  <2>2. File' = File
    BY SourceStays
  <2>3. Lookup(p)'
    BY <1>1, <1>3, <2>1, <2>2 DEF Lookup
  <2> QED
    BY <2>1, <2>3
<1> QED
  BY <1>2, <1>3

LEMMA ReadManifestKeeps ==
  ASSUME StoreInv, NEW p \in Procs, NEW c \in FileColumns, ReadManifest(p, c)
  PROVE  StoreInv'
<1>1. /\ UNCHANGED <<source, disk, place, memo, cluster, loaded, call, fresh, saving, within, returned>>
      /\ place[p] = "columns" /\ c \in lookedFor[p] /\ c \notin DOMAIN snaps[p]
  BY DEF ReadManifest
<1>2. Lookup(p) /\ Shapes /\ Functions1 /\ Functions2 /\ Functions3
  BY DEF StoreInv, Shapes
<1>3. Named'
  BY <1>1, FilesStay DEF StoreInv
<1> DEFINE names == {ColumnFile(q, memo[p], c) : q \in ColumnParts}
           x == [values |-> None, sig |-> disk[ColumnFile("json", memo[p], c)]]
<1>4. CASE Exists(names) /\ snaps' = Step(snaps, p, With(snaps[p], c, x))
           /\ UNCHANGED <<lookedFor, unfound>>
  <2>1. "json" \in ColumnParts /\ ColumnFile("json", memo[p], c) \in DOMAIN disk
    BY <1>4 DEF Exists, ColumnParts
  <2>2. disk[ColumnFile("json", memo[p], c)] = File[c]
    BY <1>1, <2>1, ColumnOnDisk DEF Saving
  <2>3. x = [values |-> None, sig |-> File[c]]
    BY <2>2
  <2> HIDE DEF x
  <2>4. snaps'[p] = With(snaps[p], c, x) /\ OnlyMoves(p)
    BY <1>1, <1>2, <1>4 DEF Step, OnlyMoves, SameFor, Functions1, Functions2, Functions3
  <2>5. Lookup(p)' /\ DOMAIN snaps'[p] = DOMAIN snaps[p] \cup {c}
    <3>1. x \in [values : Values \cup {None}, sig : Values] /\ x.sig = File[c]
      BY <1>2, <2>3, FreshIsTyped
    <3>2. lookedFor'[p] \subseteq FileColumns /\ unfound'[p] \subseteq FileColumns
          /\ c \in lookedFor'[p] /\ lookedFor[p] \ {c} \subseteq lookedFor'[p] /\ fresh'[p] = fresh[p]
      BY <1>1, <1>2, <1>4 DEF Lookup
    <3> QED
      BY <1>1, <1>2, <2>4, <3>1, <3>2, FoundColumn
  <2>6. LookupStep(p)
    BY <1>1, <1>4, <2>4, <2>5 DEF LookupStep, Saving
  <2> QED
    BY <1>3, <2>5, <2>6, LookupStepKeeps
<1>5. CASE NotFound(p, c) /\ lookedFor' = Step(lookedFor, p, lookedFor[p] \ {c})
  <2>1. OnlyMoves(p)
    BY <1>1, <1>2, <1>5
       DEF NotFound, Step, OnlyMoves, SameFor, Functions1, Functions2, Functions3
  <2>2. lookedFor'[p] = lookedFor[p] \ {c} /\ fresh'[p] = fresh[p]
    BY <1>1, <1>2, <1>5 DEF Step, Functions2
  <2>3. /\ Lookup(p)'
        /\ DOMAIN snaps[p] \cup lookedFor[p] \cup unfound[p]
             \subseteq DOMAIN snaps'[p] \cup lookedFor'[p] \cup unfound'[p]
    BY <1>1, <1>5, <2>2, NotFoundKeeps
  <2>4. LookupStep(p)
    BY <1>1, <2>1, <2>3 DEF LookupStep, Saving
  <2> QED
    BY <1>3, <2>3, <2>4, LookupStepKeeps
<1> QED
  BY <1>4, <1>5 DEF ReadManifest

LEMMA ReadArraysKeeps ==
  ASSUME StoreInv, NEW p \in Procs, NEW c \in FileColumns, ReadArrays(p, c)
  PROVE  StoreInv'
<1>1. /\ UNCHANGED <<source, disk, place, memo, cluster, loaded, call, fresh, saving, within, returned>>
      /\ place[p] = "columns" /\ c \in lookedFor[p] /\ c \in DOMAIN snaps[p]
      /\ lookedFor' = Step(lookedFor, p, lookedFor[p] \ {c})
  BY DEF ReadArrays
<1>2. Lookup(p) /\ Shapes /\ Functions1 /\ Functions2 /\ Functions3
  BY DEF StoreInv, Shapes
<1>3. Named'
  BY <1>1, FilesStay DEF StoreInv
<1>4. lookedFor'[p] = lookedFor[p] \ {c} /\ fresh'[p] = fresh[p]
  BY <1>1, <1>2 DEF Step, Functions2
<1> DEFINE there == Exists({ColumnFile("values", memo[p], c), ColumnFile("valid", memo[p], c)})
           x == [values |-> disk[ColumnFile("values", memo[p], c)], sig |-> snaps[p][c].sig]
<1>5. CASE there /\ snaps' = Step(snaps, p, With(snaps[p], c, x)) /\ UNCHANGED unfound
  <2>1. "values" \in ColumnParts /\ ColumnFile("values", memo[p], c) \in DOMAIN disk
    BY <1>5 DEF Exists, ColumnParts
  <2>2. disk[ColumnFile("values", memo[p], c)] = File[c]
    BY <1>1, <2>1, ColumnOnDisk DEF Saving
  <2>3. x = [values |-> File[c], sig |-> File[c]]
    BY <1>1, <1>2, <2>2 DEF Lookup
  <2> HIDE DEF x, there
  <2>4. snaps'[p] = With(snaps[p], c, x) /\ OnlyMoves(p)
    BY <1>1, <1>2, <1>5 DEF Step, OnlyMoves, SameFor, Functions1, Functions2, Functions3
  <2>5. Lookup(p)' /\ DOMAIN snaps'[p] = DOMAIN snaps[p] \cup {c}
    <3>1. x \in [values : Values \cup {None}, sig : Values] /\ x.sig = File[c] /\ x.values = File[c]
      BY <1>2, <2>3, FreshIsTyped
    <3>2. lookedFor'[p] \subseteq FileColumns /\ unfound'[p] \subseteq FileColumns
      BY <1>2, <1>4, <1>5 DEF Lookup
    <3> QED
      BY <1>1, <1>2, <1>4, <2>4, <3>1, <3>2, FoundColumn
  <2>6. LookupStep(p)
    BY <1>1, <1>4, <1>5, <2>4, <2>5 DEF LookupStep, Saving
  <2> QED
    BY <1>3, <2>5, <2>6, LookupStepKeeps
<1>6. CASE c \in DOMAIN fresh[p] /\ NotFound(p, c)
  <2>1. OnlyMoves(p)
    BY <1>1, <1>2, <1>6
       DEF NotFound, Step, OnlyMoves, SameFor, Functions1, Functions2, Functions3
  <2>2. /\ Lookup(p)'
        /\ DOMAIN snaps[p] \cup lookedFor[p] \cup unfound[p]
             \subseteq DOMAIN snaps'[p] \cup lookedFor'[p] \cup unfound'[p]
    BY <1>1, <1>4, <1>6, NotFoundKeeps
  <2>3. LookupStep(p)
    BY <1>1, <2>1, <2>2 DEF LookupStep, Saving
  <2> QED
    BY <1>3, <2>2, <2>3, LookupStepKeeps
<1>7. CASE /\ unfound' = Step(unfound, p, unfound[p] \cup {c})
           /\ snaps' = Step(snaps, p, Restrict(snaps[p], DOMAIN snaps[p] \ {c}))
  <2>1. /\ unfound'[p] = unfound[p] \cup {c}
        /\ snaps'[p] = [d \in DOMAIN snaps[p] \ {c} |-> snaps[p][d]]
        /\ OnlyMoves(p)
    BY <1>1, <1>2, <1>7
       DEF Restrict, Step, OnlyMoves, SameFor, Functions1, Functions2, Functions3
  <2>2. File' = File
    BY <1>1, SourceStays
  <2>3. Lookup(p)'
    BY <1>2, <1>4, <2>1, <2>2 DEF Lookup
  <2>4. LookupStep(p)
    BY <1>1, <1>4, <2>1 DEF LookupStep, Saving
  <2> QED
    BY <1>3, <2>3, <2>4, LookupStepKeeps
<1> QED
  BY <1>5, <1>6, <1>7 DEF ReadArrays

LEMMA MaterializeKeeps ==
  ASSUME StoreInv, NEW p \in Procs, Materialize(p)
  PROVE  StoreInv'
<1>1. /\ UNCHANGED <<source, disk, place, memo, cluster, loaded, call, lookedFor, unfound, snaps,
                     saving, within, returned>>
      /\ place[p] = "columns" /\ lookedFor[p] = {}
      /\ fresh' = Step(fresh, p, Restrict(File, unfound[p]))
  BY DEF Materialize, LookedUp
<1>2. Lookup(p) /\ Shapes /\ Functions1 /\ Functions2 /\ Functions3
  BY DEF StoreInv, Shapes
<1>3. Named'
  BY <1>1, FilesStay DEF StoreInv
<1>4. OnlyMoves(p) /\ fresh'[p] = [c \in unfound[p] |-> File[c]]
  BY <1>1, <1>2 DEF Restrict, Step, OnlyMoves, SameFor, Functions1, Functions2, Functions3
<1>5. File' = File
  BY <1>1, SourceStays
<1>6. Lookup(p)'
  BY <1>1, <1>2, <1>4, <1>5 DEF Lookup
<1>7. LookupStep(p)
  BY <1>1, <1>4 DEF LookupStep, Saving
<1> QED
  BY <1>3, <1>6, <1>7, LookupStepKeeps

LEMMA WriteColumnKeeps ==
  ASSUME StoreInv, NEW p \in Procs, NEW c \in FileColumns, NEW part \in ColumnParts,
         WriteColumn(p, c, part)
  PROVE  StoreInv'
<1>1. /\ UNCHANGED <<source, memo, cluster, loaded, call, fresh, snaps, within, returned>>
      /\ c \in unfound[p] /\ c \in DOMAIN fresh[p]
      /\ \/ part = "values" /\ LookedUp(p)
         \/ part # "values" /\ place[p] = part
      /\ Put(ColumnFile(part, memo[p], c), fresh[p][c])
  BY DEF WriteColumn
<1>2. Lookup(p) /\ Holds(p) /\ Shapes /\ Functions1 /\ Functions2 /\ Functions3 /\ Named
  BY DEF StoreInv, Shapes
<1>3. place[p] \in Saving /\ lookedFor[p] = {}
  BY <1>1, <1>2 DEF ColumnParts, LookedUp, Saving, Holds
<1>4. Named'
  <2> DEFINE n == ColumnFile(part, memo[p], c)
  <2>1. n[1] = part /\ n[2] = Fingerprint /\ n[3] = c
    BY <1>2, <1>3 DEF ColumnFile, Holds
  <2>2. Fingerprint \in Prints /\ fresh[p][c] = ContentOf(Fingerprint)[c]
    BY <1>1, <1>2, PrintsHaveContents DEF Lookup
  <2>3. part \notin {"npy", "manifest", "result"}
    BY DEF ColumnParts
  <2> QED
    BY <1>1, <1>2, <2>1, <2>2, <2>3, PutKeepsNamed
<1>5. File' = File
  BY <1>1, SourceStays
<1>6. CASE part = "json" /\ Go(p, "columns") /\ saving' = Step(saving, p, None)
           /\ unfound' = Step(unfound, p, unfound[p] \ {c}) /\ lookedFor' = Step(lookedFor, p, {c})
  <2>1. /\ place'[p] = "columns" /\ unfound'[p] = unfound[p] \ {c} /\ lookedFor'[p] = {c}
        /\ OnlyMoves(p)
    BY <1>1, <1>2, <1>6
       DEF Go, Step, OnlyMoves, SameFor, Functions1, Functions2, Functions3
  <2>2. Lookup(p)'
    BY <1>1, <1>2, <1>3, <1>5, <2>1 DEF Lookup
  <2>3. LookupStep(p)
    BY <1>1, <1>3, <2>1 DEF LookupStep, Saving
  <2> QED
    BY <1>4, <2>2, <2>3, LookupStepKeeps
<1>7. CASE part # "json" /\ Go(p, NextPart(part)) /\ saving' = Step(saving, p, c)
           /\ UNCHANGED <<unfound, lookedFor>>
  <2>1. /\ place'[p] = NextPart(part) /\ OnlyMoves(p)
    BY <1>1, <1>2, <1>7
       DEF Go, Step, OnlyMoves, SameFor, Functions1, Functions2, Functions3
  <2>2. NextPart(part) \in {"valid", "json"}
    BY <1>7 DEF ColumnParts, NextPart
  <2>3. Lookup(p)'
    BY <1>1, <1>2, <1>5, <1>7 DEF Lookup
  <2>4. LookupStep(p)
    BY <1>1, <1>3, <1>7, <2>1, <2>2 DEF LookupStep, Saving
  <2> QED
    BY <1>4, <2>3, <2>4, LookupStepKeeps
<1> QED
  BY <1>6, <1>7 DEF WriteColumn

LEMMA KeepUnsavedKeeps ==
  ASSUME StoreInv, NEW p \in Procs, NEW c \in FileColumns, KeepUnsaved(p, c)
  PROVE  StoreInv'
<1> DEFINE x == [values |-> fresh[p][c], sig |-> fresh[p][c]]
<1>1. /\ UNCHANGED <<source, disk, place, memo, cluster, loaded, call, lookedFor, fresh, saving,
                     within, returned>>
      /\ place[p] = "columns" /\ c \in unfound[p] /\ c \in DOMAIN fresh[p]
      /\ unfound' = Step(unfound, p, unfound[p] \ {c})
      /\ snaps' = Step(snaps, p, With(snaps[p], c, x))
  BY DEF KeepUnsaved, LookedUp
<1>2. Lookup(p) /\ Shapes /\ Functions1 /\ Functions2 /\ Functions3
  BY DEF StoreInv, Shapes
<1>3. Named'
  BY <1>1, FilesStay DEF StoreInv
<1>4. x = [values |-> File[c], sig |-> File[c]]
  BY <1>1, <1>2 DEF Lookup
<1> HIDE DEF x
<1>5. unfound'[p] = unfound[p] \ {c} /\ snaps'[p] = With(snaps[p], c, x) /\ OnlyMoves(p)
  BY <1>1, <1>2 DEF Step, OnlyMoves, SameFor, Functions1, Functions2, Functions3
<1>6. Lookup(p)' /\ DOMAIN snaps'[p] = DOMAIN snaps[p] \cup {c}
  <2>1. x \in [values : Values \cup {None}, sig : Values] /\ x.sig = File[c] /\ x.values = File[c]
    BY <1>2, <1>4, FreshIsTyped
  <2>2. lookedFor'[p] \subseteq FileColumns /\ unfound'[p] \subseteq FileColumns
        /\ lookedFor[p] \ {c} \subseteq lookedFor'[p] /\ fresh'[p] = fresh[p]
    BY <1>1, <1>2, <1>5 DEF Lookup
  <2> QED
    BY <1>1, <1>2, <1>5, <2>1, <2>2, FoundColumn
<1>7. LookupStep(p)
  <2>1. lookedFor'[p] = lookedFor[p] /\ place'[p] = "columns"
    BY <1>1
  <2> QED
    BY <1>1, <1>5, <1>6, <2>1 DEF LookupStep, Saving
<1> QED
  BY <1>3, <1>6, <1>7, LookupStepKeeps

LEMMA InstallDatasetKeeps ==
  ASSUME StoreInv, NEW p \in Procs, InstallDataset(p)
  PROVE  StoreInv'
<1>1. /\ UNCHANGED <<source, disk, memo, cluster, call, within, returned>>
      /\ place[p] = "columns" /\ lookedFor[p] = {} /\ unfound[p] = {}
  BY DEF InstallDataset, LookedUp
<1>2. Lookup(p) /\ Holds(p) /\ Shapes /\ Functions1 /\ Functions2 /\ Functions3
  BY DEF StoreInv, Shapes
<1>3. Named'
  BY <1>1, FilesStay DEF StoreInv
<1>4. OnlyMoves(p)
  BY <1>1, <1>2 DEF InstallDataset, Forget, Go, Step, OnlyMoves, SameFor, Functions1, Functions2,
                    Functions3
<1>5. /\ place'[p] = "key" /\ loaded'[p] = snaps[p]
      /\ lookedFor'[p] = {} /\ unfound'[p] = {} /\ fresh'[p] = NoFiles /\ snaps'[p] = NoFiles
  BY <1>2 DEF InstallDataset, Forget, Go, Step, Functions1, Functions2
<1>6. File' = File /\ Fingerprint' = Fingerprint /\ DOMAIN NoFiles = {}
  BY <1>1, SourceStays DEF NoFiles
<1>7. \A c \in DOMAIN snaps[p] :
        /\ c \in FileColumns /\ snaps[p][c].values = File[c] /\ snaps[p][c].sig = File[c]
        /\ snaps[p][c] \in [values : Values, sig : Values]
  <2> TAKE c \in DOMAIN snaps[p]
  <2>1. /\ c \in FileColumns /\ snaps[p][c].values = File[c] /\ snaps[p][c].sig = File[c]
        /\ snaps[p][c] \in [values : Values \cup {None}, sig : Values]
    BY <1>1, <1>2 DEF Lookup
  <2>2. File[c] \in Values
    BY <1>2, <2>1, FreshIsTyped
  <2> QED
    BY <2>1, <2>2
<1>8. Dataset(p)'
  BY <1>5, <1>6, <1>7 DEF Dataset
<1>9. Lookup(p)'
  BY <1>5, <1>6 DEF Lookup
<1>10. Holds(p)'
  BY <1>1, <1>2, <1>5, <1>6 DEF Holds, Places, Saving, Fitting
<1> QED
  BY <1>3, <1>4, <1>5, <1>7, <1>8, <1>9, <1>10, OneMoves

\* The keys of a process stand for the columns of its call, as the file is now.
LEMMA KeysAreOfThisData ==
  ASSUME StoreInv, NEW p \in Procs, place[p] \in Fitting
  PROVE  /\ WithinData(WithinKey(p)) = InFile(p)
         /\ ResultData(ResultKey(p)) = InFile(p)
         /\ ResultKey(p)[3] = Descriptor(cluster[p])
         /\ [c \in {"y"} \cup call[p] |-> loaded[p][c].values] = InFile(p)
<1> DEFINE cs == {"y"} \cup call[p]
<1>1. \A c \in cs : c \in DOMAIN loaded[p] /\ loaded[p][c].values = File[c] /\ loaded[p][c].sig = File[c]
  BY DEF StoreInv, Holds, Dataset
<1>2. call[p] \subseteq {"fe"}
  BY DEF StoreInv, Holds
<1>3. Signatures(p, cs) = [c \in cs |-> File[c]]
  BY <1>1 DEF Signatures
<1>4. ResultKey(p)[1] = call[p] /\ ResultKey(p)[2] = Signatures(p, cs)
      /\ ResultKey(p)[3] = Descriptor(cluster[p])
  BY DEF ResultKey
<1>5. ResultData(ResultKey(p)) = [c \in cs |-> File[c]]
  BY <1>3, <1>4 DEF ResultData
<1>6. /\ WithinKey(p)[1] = call[p] /\ WithinKey(p)[3] = File["y"]
      /\ \A c \in call[p] : WithinKey(p)[2][c] = File[c]
  BY <1>1 DEF WithinKey, Signatures
<1>7. WithinData(WithinKey(p)) = [c \in cs |-> File[c]]
  BY <1>2, <1>6 DEF WithinData
<1> QED
  BY <1>1, <1>4, <1>5, <1>7 DEF InFile

\* A step of a fit whose columns are loaded.
FitStep(p) ==
  /\ UNCHANGED <<source, memo, cluster, loaded, call, lookup>>
  /\ OnlyMoves(p)
  /\ place[p] \in Fitting /\ place'[p] \in Fitting \cup {"idle"}
  /\ place'[p] \in {"npy", "manifest", "estimate"} => within'[p] = InFile(p)
  /\ place'[p] \in {"result", "replace", "done"} =>
       /\ returned'[p].data = InFile(p)
       /\ returned'[p].cluster \in Clusters
       /\ Descriptor(returned'[p].cluster) = Descriptor(cluster[p])

LEMMA FitStepKeeps ==
  ASSUME StoreInv, NEW p \in Procs, FitStep(p), Named'
  PROVE  StoreInv'
<1>1. UNCHANGED <<source, memo, cluster, loaded, call, lookup>> /\ OnlyMoves(p)
  BY DEF FitStep
<1>2. Holds(p) /\ Dataset(p) /\ Lookup(p)
  BY DEF StoreInv
<1>3. File' = File /\ Fingerprint' = Fingerprint /\ InFile(p)' = InFile(p)
  BY <1>1, SourceStays DEF InFile
<1>4. Dataset(p)'
  BY <1>1, <1>2, <1>3 DEF Dataset
<1>5. Lookup(p)'
  BY <1>1, <1>2, <1>3 DEF Lookup, lookup
<1>6. \A c \in DOMAIN loaded'[p] : loaded'[p][c] \in [values : Values, sig : Values]
  BY <1>1 DEF StoreInv, Shapes
<1>7. lookedFor'[p] = {}
  BY <1>1, <1>2 DEF FitStep, Holds, Fitting, lookup
<1>8. Holds(p)'
  BY <1>1, <1>2, <1>3, <1>7 DEF FitStep, Holds, Places, Saving, Fitting
<1> QED
  BY <1>1, <1>4, <1>5, <1>6, <1>8, OneMoves

LEMMA LookUpResultKeeps ==
  ASSUME StoreInv, NEW p \in Procs, LookUpResult(p)
  PROVE  StoreInv'
<1> DEFINE name == <<"result", ResultKey(p)>>
<1>1. /\ UNCHANGED <<source, disk, memo, cluster, loaded, call, lookup, within>>
      /\ place[p] = "key"
  BY DEF LookUpResult
<1>2. Named /\ Shapes /\ Functions1 /\ Functions2 /\ Functions3
  BY DEF StoreInv, Shapes
<1>3. Named'
  BY <1>1, <1>2, FilesStay
<1>4. CASE Exists({name}) /\ returned' = Step(returned, p, disk[name]) /\ Go(p, "done")
  <2>1. name[1] = "result" /\ name[2] = ResultKey(p) /\ name \in DOMAIN disk
    BY <1>4 DEF Exists
  <2> HIDE DEF name
  <2>2. /\ disk[name].data = ResultData(ResultKey(p)) /\ disk[name].cluster \in Clusters
        /\ Descriptor(disk[name].cluster) = ResultKey(p)[3]
    BY <1>2, <2>1 DEF Named
  <2>3. place'[p] = "done" /\ returned'[p] = disk[name] /\ OnlyMoves(p)
    BY <1>1, <1>2, <1>4 DEF Go, Step, OnlyMoves, SameFor, source, lookup, Functions1, Functions2,
                           Functions3
  <2>4. FitStep(p)
    BY <1>1, <2>2, <2>3, KeysAreOfThisData DEF FitStep, Fitting
  <2> QED
    BY <1>3, <2>4, FitStepKeeps
<1>5. CASE Go(p, "within") /\ UNCHANGED returned
  <2>1. place'[p] = "within" /\ OnlyMoves(p)
    BY <1>1, <1>2, <1>5 DEF Go, Step, OnlyMoves, SameFor, source, lookup, Functions1, Functions2,
                           Functions3
  <2>2. FitStep(p)
    BY <1>1, <2>1 DEF FitStep, Fitting
  <2> QED
    BY <1>3, <2>2, FitStepKeeps
<1> QED
  BY <1>4, <1>5 DEF LookUpResult

LEMMA GetWithinKeeps ==
  ASSUME StoreInv, NEW p \in Procs, GetWithin(p)
  PROVE  StoreInv'
<1> DEFINE name == WithinFile("npy", p)
<1>1. /\ UNCHANGED <<source, disk, memo, cluster, loaded, call, lookup, returned>>
      /\ place[p] = "within"
  BY DEF GetWithin
<1>2. Named /\ Shapes /\ Functions1 /\ Functions2 /\ Functions3
  BY DEF StoreInv, Shapes
<1>3. Named'
  BY <1>1, <1>2, FilesStay
<1>4. place[p] \in Fitting
  BY <1>1 DEF Fitting
<1>5. CASE Exists({name, WithinFile("manifest", p)}) /\ within' = Step(within, p, disk[name])
           /\ Go(p, "estimate")
  <2>1. name[1] = "npy" /\ name[2] = WithinKey(p) /\ name \in DOMAIN disk
    BY <1>5 DEF Exists, WithinFile
  <2> HIDE DEF name
  <2>2. disk[name] = WithinData(WithinKey(p))
    BY <1>2, <2>1 DEF Named
  <2>3. place'[p] = "estimate" /\ within'[p] = disk[name] /\ OnlyMoves(p)
    BY <1>1, <1>2, <1>5 DEF Go, Step, OnlyMoves, SameFor, source, lookup, Functions1, Functions2,
                           Functions3
  <2>4. FitStep(p)
    BY <1>1, <1>4, <2>2, <2>3, KeysAreOfThisData DEF FitStep, Fitting
  <2> QED
    BY <1>3, <2>4, FitStepKeeps
<1>6. CASE within' = Step(within, p, [c \in {"y"} \cup call[p] |-> loaded[p][c].values])
           /\ Go(p, "npy")
  <2> DEFINE outcome == [c \in {"y"} \cup call[p] |-> loaded[p][c].values]
  <2>1. outcome = InFile(p)
    BY <1>4, KeysAreOfThisData
  <2> HIDE DEF outcome
  <2>2. place'[p] = "npy" /\ within'[p] = outcome /\ OnlyMoves(p)
    <3>1. within' = Step(within, p, outcome)
      BY <1>6 DEF outcome
    <3> QED
      BY <1>1, <1>2, <1>6, <3>1 DEF Go, Step, OnlyMoves, SameFor, source, lookup, Functions1,
                                    Functions2, Functions3
  <2>3. FitStep(p)
    BY <1>1, <1>4, <2>1, <2>2 DEF FitStep, Fitting
  <2> QED
    BY <1>3, <2>3, FitStepKeeps
<1> QED
  BY <1>5, <1>6 DEF GetWithin

LEMMA SaveWithinKeeps ==
  ASSUME StoreInv, NEW p \in Procs, NEW part \in {"npy", "manifest"}, SaveWithin(p, part)
  PROVE  StoreInv'
<1> DEFINE name == WithinFile(part, p)
<1>1. /\ UNCHANGED <<source, memo, cluster, loaded, call, lookup, within, returned>>
      /\ place[p] = part /\ Put(name, within[p])
      /\ Go(p, IF part = "npy" THEN "manifest" ELSE "estimate")
  BY DEF SaveWithin
<1>2. Named /\ Holds(p) /\ Shapes /\ Functions1 /\ Functions2 /\ Functions3
  BY DEF StoreInv, Shapes
<1>3. place[p] \in Fitting /\ within[p] = InFile(p)
  BY <1>1, <1>2 DEF Fitting, Holds
<1>4. name[1] = part /\ name[2] = WithinKey(p)
  BY DEF WithinFile
<1>5. part \notin ColumnParts /\ part # "result"
  BY DEF ColumnParts
<1> HIDE DEF name
<1>6. Named'
  BY <1>1, <1>2, <1>3, <1>4, <1>5, KeysAreOfThisData, PutKeepsNamed
<1>7. place'[p] \in {"manifest", "estimate"} /\ OnlyMoves(p)
  BY <1>1, <1>2 DEF Go, Step, OnlyMoves, SameFor, source, lookup, Functions1, Functions2, Functions3
<1>8. FitStep(p)
  BY <1>1, <1>3, <1>7 DEF FitStep, Fitting
<1> QED
  BY <1>6, <1>8, FitStepKeeps

LEMMA EstimateFitKeeps ==
  ASSUME StoreInv, NEW p \in Procs, EstimateFit(p)
  PROVE  StoreInv'
<1> DEFINE result == [data |-> within[p], cluster |-> cluster[p]]
<1>1. /\ UNCHANGED <<source, disk, memo, cluster, loaded, call, lookup, within>>
      /\ place[p] = "estimate" /\ returned' = Step(returned, p, result) /\ Go(p, "result")
  BY DEF EstimateFit
<1>2. Named /\ Holds(p) /\ Shapes /\ Functions1 /\ Functions2 /\ Functions3
  BY DEF StoreInv, Shapes
<1>3. Named'
  BY <1>1, <1>2, FilesStay
<1>4. result.data = InFile(p) /\ result.cluster = cluster[p] /\ cluster[p] \in Clusters
  BY <1>1, <1>2 DEF Holds
<1> HIDE DEF result
<1>5. place'[p] = "result" /\ returned'[p] = result /\ OnlyMoves(p)
  BY <1>1, <1>2 DEF Go, Step, OnlyMoves, SameFor, source, lookup, Functions1, Functions2, Functions3
<1>6. FitStep(p)
  BY <1>1, <1>4, <1>5 DEF FitStep, Fitting
<1> QED
  BY <1>3, <1>6, FitStepKeeps

\* Steps that only go on, and leave what was returned as it is.
LEMMA GoesOn ==
  ASSUME StoreInv, NEW p \in Procs, NEW where \in {"replace", "done"}, Named',
         UNCHANGED <<source, memo, cluster, loaded, call, lookup, within, returned>>,
         place[p] \in {"result", "replace"}, Go(p, where)
  PROVE  StoreInv'
<1>1. Holds(p) /\ Shapes /\ Functions1 /\ Functions2 /\ Functions3
  BY DEF StoreInv, Shapes
<1>2. place'[p] = where /\ OnlyMoves(p)
  BY <1>1 DEF Go, Step, OnlyMoves, SameFor, source, lookup, Functions1, Functions2, Functions3
<1>3. FitStep(p)
  BY <1>1, <1>2 DEF FitStep, Fitting, Holds
<1> QED
  BY <1>3, FitStepKeeps

LEMMA RemoveOldResultKeeps ==
  ASSUME StoreInv, NEW p \in Procs, RemoveOldResult(p)
  PROVE  StoreInv'
<1>1. /\ UNCHANGED <<source, memo, cluster, loaded, call, lookup, within, returned>>
      /\ place[p] = "result" /\ Go(p, "replace") /\ RemoveFile(<<"result", ResultKey(p)>>)
  BY DEF RemoveOldResult
<1>2. Named'
  BY <1>1, RemoveKeepsNamed DEF StoreInv
<1> QED
  BY <1>1, <1>2, GoesOn

LEMMA ReplaceResultKeeps ==
  ASSUME StoreInv, NEW p \in Procs, ReplaceResult(p)
  PROVE  StoreInv'
<1> DEFINE name == <<"result", ResultKey(p)>>
<1>1. /\ UNCHANGED <<source, memo, cluster, loaded, call, lookup, within, returned>>
      /\ place[p] = "replace" /\ Go(p, "done")
      /\ UNCHANGED disk \/ Put(name, returned[p])
  BY DEF ReplaceResult
<1>2. Named /\ Holds(p) /\ place[p] \in Fitting
  BY <1>1 DEF StoreInv, Fitting
<1>3. name[1] = "result" /\ name[2] = ResultKey(p)
  OBVIOUS
<1> HIDE DEF name
<1>4. "result" \notin ColumnParts \cup {"npy", "manifest"}
  BY DEF ColumnParts
<1>5. /\ returned[p].data = ResultData(name[2]) /\ returned[p].cluster \in Clusters
      /\ Descriptor(returned[p].cluster) = name[2][3]
  BY <1>1, <1>2, <1>3, KeysAreOfThisData DEF Holds
<1>6. Named'
  <2>1. CASE UNCHANGED disk
    BY <1>1, <1>2, <2>1, FilesStay
  <2>2. CASE Put(name, returned[p])
    BY <1>1, <1>2, <1>3, <1>4, <1>5, <2>2, PutKeepsNamed
  <2> QED
    BY <1>1, <2>1, <2>2
<1> QED
  BY <1>1, <1>6, GoesOn

LEMMA SkipResultKeeps ==
  ASSUME StoreInv, NEW p \in Procs, SkipResult(p)
  PROVE  StoreInv'
<1>1. /\ UNCHANGED <<source, disk, memo, cluster, loaded, call, lookup, within, returned>>
      /\ place[p] \in {"result", "replace"} /\ Go(p, "done")
  BY DEF SkipResult
<1>2. Named'
  BY <1>1, FilesStay DEF StoreInv
<1> QED
  BY <1>1, <1>2, GoesOn

LEMMA ReturnKeeps ==
  ASSUME StoreInv, NEW p \in Procs, Return(p)
  PROVE  StoreInv'
<1>1. /\ UNCHANGED <<source, disk, memo, cluster, loaded, call, lookup>>
      /\ place[p] = "done"
  BY DEF Return
<1>2. Named /\ Shapes /\ Functions1 /\ Functions2 /\ Functions3
  BY DEF StoreInv, Shapes
<1>3. Named'
  BY <1>1, <1>2, FilesStay
<1>4. place'[p] = "idle" /\ OnlyMoves(p)
  BY <1>1, <1>2 DEF Return, Go, Step, OnlyMoves, SameFor, source, lookup, Functions1, Functions2,
                    Functions3
<1>5. FitStep(p)
  BY <1>1, <1>4 DEF FitStep, Fitting
<1> QED
  BY <1>3, <1>5, FitStepKeeps

LEMMA WriteFailsKeeps ==
  ASSUME StoreInv, NEW p \in Procs, WriteFails(p)
  PROVE  StoreInv'
<1>1. UNCHANGED <<source, disk, memo, cluster, loaded, call, returned>>
  BY DEF WriteFails
<1>2. place[p] # "closed"
  BY DEF WriteFails, LookedUp
<1>3. Named /\ Holds(p) /\ Dataset(p) /\ Shapes /\ Functions1 /\ Functions2 /\ Functions3
  BY DEF StoreInv, Shapes
<1>4. Named'
  BY <1>1, <1>3, FilesStay
<1>5. OnlyMoves(p)
  BY <1>1, <1>3 DEF WriteFails, Forget, Go, Step, OnlyMoves, SameFor, Functions1, Functions2,
                    Functions3
<1>6. /\ place'[p] = "idle" /\ lookedFor'[p] = {} /\ unfound'[p] = {}
      /\ fresh'[p] = NoFiles /\ snaps'[p] = NoFiles
  BY <1>3 DEF WriteFails, Forget, Go, Step, Functions1, Functions2
<1>7. File' = File /\ Fingerprint' = Fingerprint /\ DOMAIN NoFiles = {}
  BY <1>1, SourceStays DEF NoFiles
<1>8. Dataset(p)' /\ Lookup(p)'
  BY <1>1, <1>3, <1>6, <1>7 DEF Dataset, Lookup
<1>9. Holds(p)'
  BY <1>1, <1>2, <1>3, <1>6, <1>7 DEF Holds, Places, Saving, Fitting
<1>10. \A c \in DOMAIN loaded'[p] : loaded'[p][c] \in [values : Values, sig : Values]
  BY <1>1, <1>3 DEF Shapes
<1> QED
  BY <1>4, <1>5, <1>8, <1>9, <1>10, OneMoves

\* A deletion is seen by nobody yet.
LEMMA DeleteKeeps ==
  ASSUME StoreInv, NEW name \in DOMAIN disk, Delete(name)
  PROVE  StoreInv'
<1>1. /\ UNCHANGED <<source, place, memo, cluster, loaded, call, lookup, within, returned>>
      /\ RemoveFile(name)
  BY DEF Delete
<1>2. Named'
  BY <1>1, RemoveKeepsNamed DEF StoreInv
<1>3. Shapes'
  BY <1>1 DEF StoreInv, Shapes, Functions1, Functions2, Functions3, source, lookup
<1>4. ASSUME NEW q \in Procs PROVE (Holds(q) /\ Dataset(q) /\ Lookup(q))'
  <2>1. SameFor(q)
    BY <1>1 DEF SameFor, lookup
  <2> QED
    BY <1>1, <2>1, Untouched DEF StoreInv
<1> QED
  BY <1>2, <1>3, <1>4 DEF StoreInv

\* The data file changes: no session is open, and the directory keeps the columns of the older
\* versions under their own fingerprints.
LEMMA RewriteKeeps ==
  ASSUME StoreInv, AlwaysQuiet, Rewrite
  PROVE  StoreInv'
<1>1. /\ UNCHANGED <<setup, disk, place, memo, cluster, loaded, call, lookup, within, returned>>
      /\ \A p \in Procs : place[p] = "closed"
  BY DEF StoreInv, Shapes, AlwaysQuiet, Rewrite
<1>2. PICK c \in Contents : history' = Append(history, c)
  BY DEF Rewrite
<1>3. /\ history' \in Seq(Contents) /\ history' # <<>>
      /\ \A fp \in Prints : fp \in Prints' /\ ContentOf(fp)' = ContentOf(fp)
  BY <1>1, <1>2, PrintsStay DEF StoreInv
<1>4. Shapes'
  BY <1>1, <1>3 DEF StoreInv, Shapes, Functions1, Functions2, Functions3, lookup
<1>5. Named'
  BY <1>1, <1>3 DEF StoreInv, Named
<1>6. ASSUME NEW p \in Procs PROVE (Holds(p) /\ Dataset(p) /\ Lookup(p))'
  <2>1. Holds(p) /\ Lookup(p) /\ place[p] = "closed" /\ DOMAIN NoFiles = {}
    BY <1>1 DEF StoreInv, NoFiles
  <2>2. /\ loaded[p] = NoFiles /\ DOMAIN snaps[p] = {} /\ DOMAIN fresh[p] = {}
        /\ call[p] \subseteq {"fe"} /\ cluster[p] \in Clusters /\ lookedFor[p] = {}
    BY <2>1 DEF Holds
  <2>3. Holds(p)'
    BY <1>1, <2>1, <2>2 DEF Holds, Places, Saving, Fitting, lookup
  <2>4. Dataset(p)' /\ Lookup(p)'
    BY <1>1, <2>1, <2>2 DEF Dataset, Lookup, lookup
  <2> QED
    BY <2>3, <2>4
<1> QED
  BY <1>4, <1>5, <1>6 DEF StoreInv

-------------------------------------------------------------------------------
LEMMA Starts ==
  ASSUME StoreInit
  PROVE  StoreInv
<1>1. PICK v \in Values : history = <<[k \in FileColumns |-> v]>>
  BY DEF StoreInit
<1>2. history \in Seq(Contents) /\ history # <<>>
  BY <1>1 DEF Contents
<1>3. DOMAIN NoFiles = {} /\ disk = NoFiles
  BY DEF NoFiles, StoreInit
<1>4. Functions1 /\ Functions2 /\ Functions3
  BY DEF StoreInit, Functions1, Functions2, Functions3
<1>5. \A p \in Procs : /\ place[p] = "closed" /\ loaded[p] = NoFiles /\ call[p] = {}
                       /\ lookedFor[p] = {} /\ unfound[p] = {} /\ fresh[p] = NoFiles
                       /\ snaps[p] = NoFiles /\ cluster[p] \in Clusters
  BY DEF StoreInit
<1>6. Shapes
  BY <1>2, <1>3, <1>4, <1>5 DEF Shapes, StoreInit
<1>7. Named
  BY <1>3 DEF Named
<1>8. \A p \in Procs : Holds(p)
  BY <1>3, <1>5 DEF Holds, Places, Saving, Fitting
<1>9. \A p \in Procs : Dataset(p) /\ Lookup(p)
  BY <1>3, <1>5 DEF Dataset, Lookup
<1> QED
  BY <1>6, <1>7, <1>8, <1>9 DEF StoreInv

LEMMA StoreStutters ==
  ASSUME StoreInv, UNCHANGED storeVars
  PROVE  StoreInv'
<1>1. /\ UNCHANGED <<source, disk, place, memo, cluster, loaded, call, lookup, within, returned>>
  BY DEF storeVars
<1>2. Named'
  BY <1>1, FilesStay DEF StoreInv
<1>3. Shapes'
  BY <1>1 DEF StoreInv, Shapes, Functions1, Functions2, Functions3, source, lookup
<1>4. ASSUME NEW q \in Procs PROVE (Holds(q) /\ Dataset(q) /\ Lookup(q))'
  <2>1. SameFor(q)
    BY <1>1 DEF SameFor, lookup
  <2> QED
    BY <1>1, <2>1, Untouched DEF StoreInv
<1> QED
  BY <1>2, <1>3, <1>4 DEF StoreInv

LEMMA NextKeeps ==
  ASSUME AlwaysQuiet, StoreInv, [StoreNext]_storeVars
  PROVE  StoreInv'
<1>1. CASE UNCHANGED storeVars
  BY <1>1, StoreStutters
<1>2. CASE Rewrite
  BY <1>2, RewriteKeeps
<1>3. ASSUME NEW name \in DOMAIN disk, Delete(name) PROVE StoreInv'
  BY <1>3, DeleteKeeps
<1>4. ASSUME NEW p \in Procs, Open(p) \/ Close(p) \/ BeginFit(p) PROVE StoreInv'
  BY <1>4, OpenKeeps, CloseKeeps, BeginFitKeeps
<1>5. ASSUME NEW p \in Procs, NEW c \in FileColumns,
             ReadManifest(p, c) \/ ReadArrays(p, c) \/ KeepUnsaved(p, c)
      PROVE  StoreInv'
  BY <1>5, ReadManifestKeeps, ReadArraysKeeps, KeepUnsavedKeeps
<1>6. ASSUME NEW p \in Procs, NEW c \in FileColumns, NEW part \in ColumnParts,
             WriteColumn(p, c, part)
      PROVE  StoreInv'
  BY <1>6, WriteColumnKeeps
<1>7. ASSUME NEW p \in Procs,
             Materialize(p) \/ InstallDataset(p) \/ LookUpResult(p) \/ GetWithin(p)
      PROVE  StoreInv'
  BY <1>7, MaterializeKeeps, InstallDatasetKeeps, LookUpResultKeeps, GetWithinKeeps
<1>8. ASSUME NEW p \in Procs, NEW part \in {"npy", "manifest"}, SaveWithin(p, part)
      PROVE  StoreInv'
  BY <1>8, SaveWithinKeeps
<1>9. ASSUME NEW p \in Procs, EstimateFit(p) \/ RemoveOldResult(p) \/ ReplaceResult(p)
      PROVE  StoreInv'
  BY <1>9, EstimateFitKeeps, RemoveOldResultKeeps, ReplaceResultKeeps
<1>10. ASSUME NEW p \in Procs, SkipResult(p) \/ Return(p) \/ WriteFails(p)
       PROVE  StoreInv'
  BY <1>10, SkipResultKeeps, ReturnKeeps, WriteFailsKeeps
<1> QED
  BY <1>1, <1>2, <1>3, <1>4, <1>5, <1>6, <1>7, <1>8, <1>9, <1>10 DEF StoreNext

THEOREM Inductive ==
  ASSUME AlwaysQuiet
  PROVE  StoreSpec => []StoreInv
<1>1. StoreInit => StoreInv
  BY Starts
<1>2. StoreInv /\ [StoreNext]_storeVars => StoreInv'
  BY NextKeeps
<1> QED
  BY <1>1, <1>2, PTL DEF StoreSpec

\* CurrentVersion: a column on disk is that of the file its directory is named after, and the
\* dataset of a session is the content of the file, however its columns were cached, lost, half
\* written and cached again by processes that died (data/persistent.py:238-289, 324-344).
THEOREM CachedColumnsAreCurrent ==
  ASSUME AlwaysQuiet
  PROVE  StoreSpec => []CurrentVersion
<1>1. StoreInv => CurrentVersion
  <2> SUFFICES ASSUME StoreInv PROVE CurrentVersion
    OBVIOUS
  <2>1. StoreTypeOK
    BY DEF StoreInv, Shapes, Holds, Dataset, Lookup, StoreTypeOK
  <2>2. \A n \in DOMAIN disk : n[1] \in {"values", "json"} => disk[n] = ContentOf(n[2])[n[3]]
    BY DEF StoreInv, Named, ColumnParts
  <2>3. \A p \in Procs, c \in FileColumns : c \in DOMAIN loaded[p] => loaded[p][c].values = File[c]
    BY DEF StoreInv, Dataset
  <2> QED
    BY <2>1, <2>2, <2>3 DEF CurrentVersion
<1> QED
  BY <1>1, Inductive, PTL

\* Clusters that can be viewed as bytes have descriptors of their own.
LEMMA HashableApart ==
  ASSUME \A k \in Clusters : k.hashable
  PROVE  DescribedApart
<1>1. \A k \in ClusterType : k = [labels |-> k.labels, hashable |-> k.hashable]
  BY DEF ClusterType
<1>2. ASSUME NEW k \in Clusters, NEW l \in Clusters, Descriptor(k) = Descriptor(l)
      PROVE  k = l
  <2>1. k \in ClusterType /\ l \in ClusterType /\ k.hashable /\ l.hashable
    BY StoreAssumption
  <2>2. k.labels = l.labels /\ k.hashable = l.hashable
    BY <2>1, <1>2 DEF Descriptor, ClusterType
  <2> QED
    BY <1>1, <2>1, <2>2
<1> QED
  BY <1>2 DEF DescribedApart

\* ResultForThisData: what a fit returns, whether it was computed, continued from a partialled-out
\* column or found complete, is of this session's dataset and clusters: the keys determine the
\* contents, as long as different clusters have different descriptors (sessions.py:548-580).
THEOREM StoredResultsFitTheirKeys ==
  ASSUME AlwaysQuiet, DescribedApart
  PROVE  StoreSpec => []ResultForThisData
<1>1. StoreInv => ResultForThisData
  <2> SUFFICES ASSUME StoreInv, NEW p \in Procs, place[p] \in {"result", "replace", "done"}
               PROVE  /\ returned[p].cluster = cluster[p]
                      /\ returned[p].data = [c \in {"y"} \cup call[p] |-> loaded[p][c].values]
    BY DEF ResultForThisData
  <2>1. /\ returned[p].data = InFile(p) /\ returned[p].cluster \in Clusters /\ cluster[p] \in Clusters
        /\ Descriptor(returned[p].cluster) = Descriptor(cluster[p])
    BY DEF StoreInv, Holds
  <2>2. returned[p].cluster = cluster[p]
    BY <2>1 DEF DescribedApart
  <2>3. place[p] \in Fitting
    BY DEF Fitting
  <2> QED
    BY <2>1, <2>2, <2>3, KeysAreOfThisData
<1> QED
  BY <1>1, Inductive, PTL

-------------------------------------------------------------------------------
\* Calibration.

Fields == {"at", "cap", "fingerprint", "deferred", "data", "from", "room", "measured"}

\* A measurement, unlike the single-thread answer of a call that failed.
Measured(m) == /\ m.source \in {"measured", "single_thread"}
               /\ m.cap \in Nat \ {0} /\ m.target \in Nat
Remembered(stored) == \A k \in DOMAIN stored : Measured(stored[k])
Filed(stored) == \A k \in DOMAIN stored : Measured(stored[k]) /\ SingleOrFull(stored[k])

\* What an answer owes the call it is given to.
Fits(c) == /\ c.measured.cap <= c.cap
           /\ c.from \in {"memory", "file"} =>
                /\ c.measured.fingerprint = c.fingerprint
                /\ \/ SingleOrFull(c.measured)
                   \/ c.deferred
                   \/ 2 * c.measured.target > Smaller(FullProbe, c.room)

Standing(c) ==
  /\ DOMAIN c = Fields /\ c.at \in {"load", "probe", "keep", "served"} /\ c.cap \in Nat \ {0}
  /\ c.at = "load" => c.from = "none"
  /\ c.at \in {"probe", "keep"} => Filed(c.data) /\ c.from = "none"
  /\ c.at = "keep" => Measured(c.measured) /\ c.measured.cap <= c.cap
  /\ c.at = "served" => Fits(c)

NoCall == [at |-> "idle"]

CalibrationInv ==
  /\ cpus \in Cpus /\ room \in Rooms
  /\ DOMAIN memory = Users /\ DOMAIN asking = Users
  /\ \A p \in Users : Remembered(memory[p])
  /\ \A p \in Users : asking[p] = NoCall \/ Standing(asking[p])
  /\ Filed(file)

-----------------------------------------------------------------------------
LEMMA CapsAreNumbers ==
  /\ Cpus \subseteq Nat \ {0} /\ Rooms \subseteq Nat /\ FullProbe \in Nat \ {0}
  BY CalibrationAssumption

LEMMA SmallerFacts ==
  ASSUME NEW a \in Nat, NEW b \in Nat
  PROVE  /\ Smaller(a, b) \in Nat /\ Smaller(a, b) <= a /\ Smaller(a, b) <= b
         /\ a > 0 /\ b > 0 => Smaller(a, b) > 0
  BY DEF Smaller

\* An entry that passes _valid_calibration fits the call it is served to.
LEMMA ValidFits ==
  ASSUME NEW m, Measured(m), NEW c, Valid(m, c), c.cap \in Nat, room \in Nat
  PROVE  /\ m.cap <= c.cap /\ m.fingerprint = c.fingerprint
         /\ SingleOrFull(m) \/ c.deferred \/ 2 * m.target > Smaller(FullProbe, room)
<1>1. m.cap = c.cap /\ m.fingerprint = c.fingerprint /\ m.target \in Nat
  BY DEF Valid, Measured
<1>2. SingleOrFull(m) \/ c.deferred \/ Smaller(FullProbe, room) < Smaller(FullProbe, 2 * m.target)
  BY DEF Valid, AllowedProbe
<1>3. Smaller(FullProbe, 2 * m.target) <= 2 * m.target /\ Smaller(FullProbe, room) \in Nat
      /\ Smaller(FullProbe, 2 * m.target) \in Nat /\ 2 * m.target \in Nat
  <2>1. FullProbe \in Nat /\ 2 * m.target \in Nat
    BY <1>1, CapsAreNumbers
  <2> QED
    BY <2>1, SmallerFacts
<1>4. ASSUME Smaller(FullProbe, room) < Smaller(FullProbe, 2 * m.target)
      PROVE  2 * m.target > Smaller(FullProbe, room)
  <2> DEFINE s == Smaller(FullProbe, room)
             t == Smaller(FullProbe, 2 * m.target)
             u == 2 * m.target
  <2>1. s \in Nat /\ t \in Nat /\ u \in Nat /\ s < t /\ t <= u
    BY <1>3, <1>4
  <2> HIDE DEF s, t, u
  <2>2. u > s
    BY <2>1
  <2> QED
    BY <2>2 DEF s, u
<1> QED
  BY <1>1, <1>2, <1>4

LEMMA EmptyIsFiled == Filed(NoEntries) /\ Remembered(NoEntries)
  BY DEF Filed, Remembered, NoEntries

LEMMA OneMoreEntry ==
  ASSUME NEW stored, NEW k, NEW m, Measured(m)
  PROVE  /\ Remembered(stored) => Remembered(WithEntry(k, m, stored))
         /\ Filed(stored) /\ SingleOrFull(m) => Filed(WithEntry(k, m, stored))
<1> DEFINE more == WithEntry(k, m, stored)
<1>1. DOMAIN more = {k} \cup DOMAIN stored
      /\ \A i \in DOMAIN more : more[i] = IF i = k THEN m ELSE stored[i]
  BY DEF WithEntry
<1> HIDE DEF more
<1>2. Remembered(stored) => Remembered(more)
  BY <1>1 DEF Remembered
<1>3. Filed(stored) /\ SingleOrFull(m) => Filed(more)
  BY <1>1 DEF Filed
<1> QED
  BY <1>2, <1>3 DEF more

-----------------------------------------------------------------------------
\* One call changes, the memory of its process and the file only grow by
\* measurements.
LEMMA CallSteps ==
  ASSUME CalibrationInv, NEW p \in Users, NEW next, asking' = [asking EXCEPT ![p] = next],
         next = NoCall \/ Standing(next),
         cpus' = cpus, room' = room,
         Filed(file'), DOMAIN memory' = Users, \A q \in Users : Remembered(memory'[q])
  PROVE  CalibrationInv'
<1>1. DOMAIN asking' = Users /\ \A q \in Users : asking'[q] = IF q = p THEN next ELSE asking[q]
  BY DEF CalibrationInv
<1>2. \A q \in Users : asking'[q] = NoCall \/ Standing(asking'[q])
  BY <1>1 DEF CalibrationInv
<1>3. Filed(file)'
  OBVIOUS
<1>4. \A q \in Users : Remembered(memory[q])'
  OBVIOUS
<1>5. \A q \in Users : (asking[q] = NoCall \/ Standing(asking[q]))'
  BY <1>2
<1> QED
  BY <1>1, <1>3, <1>4, <1>5 DEF CalibrationInv

LEMMA NotIdleStands ==
  ASSUME CalibrationInv, NEW p \in Users, asking[p].at # "idle"
  PROVE  Standing(asking[p])
  BY DEF CalibrationInv, NoCall

LEMMA AskSteps == ASSUME CalibrationInv, NEW p \in Users, Ask(p) PROVE CalibrationInv'
<1> PICK asked \in Cpus, deferred \in BOOLEAN :
       LET cap == EffectiveCap(asked)
           query == [at |-> "load", cap |-> cap, fingerprint |-> RuntimeFingerprint(cap),
                     deferred |-> deferred, data |-> NoEntries, from |-> "none", room |-> 0,
                     measured |-> [source |-> "none"]]
           held == memory[p]
       IN asking' = [asking EXCEPT ![p] =
            IF query.fingerprint \in DOMAIN held /\ Valid(held[query.fingerprint], query)
            THEN [query EXCEPT !.at = "served", !.from = "memory", !.room = room,
                                 !.measured = held[query.fingerprint]]
            ELSE query]
  BY DEF Ask
<1> DEFINE cap == EffectiveCap(asked)
           query == [at |-> "load", cap |-> cap, fingerprint |-> RuntimeFingerprint(cap),
                     deferred |-> deferred, data |-> NoEntries, from |-> "none", room |-> 0,
                     measured |-> [source |-> "none"]]
           held == memory[p]
           m == held[query.fingerprint]
           hit == [query EXCEPT !.at = "served", !.from = "memory", !.room = room, !.measured = m]
<1>1. cap \in Nat \ {0} /\ room \in Nat
  BY CapsAreNumbers DEF CalibrationInv, EffectiveCap, Smaller
<1>2. Standing(query)
  BY <1>1 DEF Standing, Fields
<1>3. ASSUME query.fingerprint \in DOMAIN held, Valid(m, query) PROVE Standing(hit)
  <2>1. Measured(m)
    BY <1>3 DEF CalibrationInv, Remembered
  <2>2. query.cap = cap
    OBVIOUS
  <2>3. /\ m.cap <= query.cap /\ m.fingerprint = query.fingerprint
        /\ SingleOrFull(m) \/ query.deferred \/ 2 * m.target > Smaller(FullProbe, room)
    BY <1>1, <1>3, <2>1, <2>2, ValidFits
  <2>4. /\ DOMAIN hit = Fields /\ hit.at = "served" /\ hit.from = "memory" /\ hit.room = room
        /\ hit.measured = m /\ hit.cap = query.cap /\ hit.fingerprint = query.fingerprint
        /\ hit.deferred = query.deferred
    BY DEF Fields
  <2> HIDE DEF hit, query, m
  <2>5. Fits(hit)
    BY <2>3, <2>4 DEF Fits
  <2> QED
    BY <1>1, <2>2, <2>4, <2>5 DEF Standing
<1>4. asking' = [asking EXCEPT ![p] =
                   IF query.fingerprint \in DOMAIN held /\ Valid(m, query) THEN hit ELSE query]
  OBVIOUS
<1>5. file' = file /\ memory' = memory /\ cpus' = cpus /\ room' = room
  BY DEF Ask
<1>6. Filed(file') /\ DOMAIN memory' = Users /\ \A q \in Users : Remembered(memory'[q])
  BY <1>5 DEF CalibrationInv
<1> HIDE DEF hit, query, m
<1>7. CASE query.fingerprint \in DOMAIN held /\ Valid(m, query)
  <2>1. asking' = [asking EXCEPT ![p] = hit] /\ Standing(hit)
    BY <1>3, <1>4, <1>7
  <2> QED
    BY <1>5, <1>6, <2>1, CallSteps
<1>8. CASE ~(query.fingerprint \in DOMAIN held /\ Valid(m, query))
  <2>1. asking' = [asking EXCEPT ![p] = query]
    BY <1>4, <1>8
  <2> QED
    BY <1>2, <1>5, <1>6, <2>1, CallSteps
<1> QED
  BY <1>7, <1>8

LEMMA LoadSteps == ASSUME CalibrationInv, NEW p \in Users, Load(p) PROVE CalibrationInv'
<1> DEFINE c == asking[p]
           m == file[c.fingerprint]
           hit == [c EXCEPT !.at = "served", !.from = "file", !.room = room, !.measured = m]
           miss == [c EXCEPT !.at = "probe", !.data = file]
<1>1. c.at = "load" /\ Standing(c)
  BY NotIdleStands DEF Load
<1>2. c.cap \in Nat \ {0} /\ DOMAIN c = Fields /\ c.from = "none" /\ room \in Nat
  BY <1>1, CapsAreNumbers DEF Standing, CalibrationInv
<1>3. UNCHANGED <<cpus, room, shifts, calls, file>>
  BY DEF Load
<1>4. CASE c.fingerprint \in DOMAIN file /\ Valid(file[c.fingerprint], c)
  <2>1. /\ memory' = [memory EXCEPT ![p] = WithEntry(c.fingerprint, m, @)]
        /\ asking' = [asking EXCEPT ![p] = hit]
    BY <1>4 DEF Load
  <2>2. Measured(m)
    BY <1>4 DEF CalibrationInv, Filed
  <2>3. /\ m.cap <= c.cap /\ m.fingerprint = c.fingerprint
        /\ SingleOrFull(m) \/ c.deferred \/ 2 * m.target > Smaller(FullProbe, room)
    BY <1>2, <1>4, <2>2, ValidFits
  <2>4. /\ DOMAIN hit = Fields /\ hit.at = "served" /\ hit.from = "file" /\ hit.room = room
        /\ hit.measured = m /\ hit.cap = c.cap /\ hit.fingerprint = c.fingerprint
        /\ hit.deferred = c.deferred
    BY <1>2 DEF Fields
  <2>5. Remembered(WithEntry(c.fingerprint, m, memory[p]))
    BY <2>2, OneMoreEntry DEF CalibrationInv
  <2>6. DOMAIN memory' = Users /\ \A q \in Users : Remembered(memory'[q])
    BY <2>1, <2>5 DEF CalibrationInv
  <2> HIDE DEF hit, c, m
  <2>7. Fits(hit)
    BY <2>3, <2>4 DEF Fits
  <2>8. Standing(hit)
    BY <1>2, <2>4, <2>7 DEF Standing
  <2>9. Filed(file')
    BY <1>3 DEF CalibrationInv
  <2> QED
    BY <1>3, <2>1, <2>6, <2>8, <2>9, CallSteps
<1>5. CASE ~(c.fingerprint \in DOMAIN file /\ Valid(file[c.fingerprint], c))
  <2>1. asking' = [asking EXCEPT ![p] = miss] /\ memory' = memory
    BY <1>5 DEF Load
  <2>2. /\ DOMAIN miss = Fields /\ miss.at = "probe" /\ miss.data = file /\ miss.cap = c.cap
        /\ miss.from = "none"
    BY <1>2 DEF Fields
  <2> HIDE DEF miss, c
  <2>3. Standing(miss)
    BY <1>2, <2>2 DEF Standing, CalibrationInv
  <2>4. Filed(file') /\ DOMAIN memory' = Users /\ \A q \in Users : Remembered(memory'[q])
    BY <1>3, <2>1 DEF CalibrationInv
  <2> QED
    BY <1>3, <2>1, <2>3, <2>4, CallSteps
<1> QED
  BY <1>4, <1>5

\* A fallback is an answer with one thread and nothing measured.
LEMMA ProbeSteps == ASSUME CalibrationInv, NEW p \in Users, Probe(p) PROVE CalibrationInv'
<1> DEFINE c == asking[p]
           cap == EffectiveCap(c.cap)
           m == [fingerprint |-> RuntimeFingerprint(cap), cap |-> cap,
                 target |-> IF cap = 1 THEN 0 ELSE AllowedProbe,
                 source |-> IF cap = 1 THEN "single_thread" ELSE "measured"]
           answered == [c EXCEPT !.at = "served", !.measured = Fallback(c), !.from = "none",
                                 !.data = NoEntries]
           taken == [c EXCEPT !.at = "keep", !.measured = m]
<1>1. c.at = "probe" /\ Standing(c)
  BY NotIdleStands DEF Probe
<1>2. c.cap \in Nat \ {0} /\ DOMAIN c = Fields /\ c.from = "none" /\ Filed(c.data)
  BY <1>1 DEF Standing
<1>3. UNCHANGED <<cpus, room, shifts, calls, memory, file>>
  BY DEF Probe
<1>4. Filed(file') /\ DOMAIN memory' = Users /\ \A q \in Users : Remembered(memory'[q])
  BY <1>3 DEF CalibrationInv
<1>5. CASE asking' = [asking EXCEPT ![p] = answered]
  <2>1. /\ DOMAIN answered = Fields /\ answered.at = "served" /\ answered.from = "none"
        /\ answered.cap = c.cap /\ answered.measured = Fallback(c)
    BY <1>2 DEF Fields
  <2>2. Fallback(c).cap = c.cap
    BY DEF Fallback
  <2> HIDE DEF answered, c
  <2>3. Standing(answered)
    BY <1>2, <2>1, <2>2 DEF Standing, Fits
  <2> QED
    BY <1>3, <1>4, <1>5, <2>3, CallSteps
<1>6. CASE asking' = [asking EXCEPT ![p] = taken]
  <2>1. /\ DOMAIN taken = Fields /\ taken.at = "keep" /\ taken.cap = c.cap
        /\ taken.data = c.data /\ taken.measured = m /\ taken.from = "none"
    BY <1>2 DEF Fields
  <2>2. cap \in Nat \ {0} /\ cap <= c.cap /\ AllowedProbe \in Nat
    BY <1>2, CapsAreNumbers DEF CalibrationInv, EffectiveCap, Smaller, AllowedProbe
  <2>3. Measured(m) /\ m.cap <= c.cap
    BY <2>2 DEF Measured
  <2> HIDE DEF taken, c, m
  <2>4. Standing(taken)
    BY <1>2, <2>1, <2>3 DEF Standing
  <2> QED
    BY <1>3, <1>4, <1>6, <2>4, CallSteps
<1> QED
  BY <1>5, <1>6 DEF Probe, Answer

LEMMA KeepSteps == ASSUME CalibrationInv, NEW p \in Users, Keep(p) PROVE CalibrationInv'
<1> DEFINE c == asking[p]
           answered == [c EXCEPT !.at = "served", !.measured = c.measured, !.from = "probe",
                                 !.data = NoEntries]
<1>1. c.at = "keep" /\ Standing(c)
  BY NotIdleStands DEF Keep
<1>2. /\ c.cap \in Nat \ {0} /\ DOMAIN c = Fields /\ Filed(c.data)
      /\ Measured(c.measured) /\ c.measured.cap <= c.cap
  BY <1>1 DEF Standing
<1>3. /\ UNCHANGED <<cpus, room, shifts, calls>>
      /\ memory' = [memory EXCEPT ![p] = WithEntry(c.fingerprint, c.measured, @)]
      /\ asking' = [asking EXCEPT ![p] = answered]
  BY DEF Keep, Answer
<1>4. Remembered(WithEntry(c.fingerprint, c.measured, memory[p]))
  BY <1>2, OneMoreEntry DEF CalibrationInv
<1>5. DOMAIN memory' = Users /\ \A q \in Users : Remembered(memory'[q])
  BY <1>3, <1>4 DEF CalibrationInv
<1>6. Filed(file')
  <2>1. CASE UNCHANGED file
    BY <2>1 DEF CalibrationInv
  <2>2. CASE SingleOrFull(c.measured) /\ file' = WithEntry(c.fingerprint, c.measured, c.data)
    BY <1>2, <2>2, OneMoreEntry
  <2> QED
    BY <2>1, <2>2 DEF Keep
<1>7. /\ DOMAIN answered = Fields /\ answered.at = "served" /\ answered.from = "probe"
      /\ answered.cap = c.cap /\ answered.measured = c.measured
  BY <1>2 DEF Fields
<1> HIDE DEF answered, c
<1>8. Standing(answered)
  BY <1>2, <1>7 DEF Standing, Fits
<1> QED
  BY <1>3, <1>5, <1>6, <1>8, CallSteps

LEMMA DieSteps == ASSUME CalibrationInv, NEW p \in Users, Die(p) PROVE CalibrationInv'
<1>1. /\ asking' = [asking EXCEPT ![p] = NoCall]
      /\ memory' = [memory EXCEPT ![p] = NoEntries] /\ UNCHANGED <<cpus, room, calls, file>>
  BY DEF Die, Shift, NoCall
<1>2. DOMAIN memory' = Users /\ \A q \in Users : Remembered(memory'[q])
  BY <1>1, EmptyIsFiled DEF CalibrationInv
<1>3. Filed(file')
  BY <1>1 DEF CalibrationInv
<1> QED
  BY <1>1, <1>2, <1>3, CallSteps

\* The machine and the file change under the calls.
LEMMA AccidentSteps == ASSUME CalibrationInv, ChangeMachine \/ LoseFile PROVE CalibrationInv'
<1>1. cpus' \in Cpus /\ room' \in Rooms
  BY DEF ChangeMachine, LoseFile, Shift, CalibrationInv
<1>2. memory' = memory /\ asking' = asking
  BY DEF ChangeMachine, LoseFile, Shift
<1>3. file' = file \/ file' = NoEntries
  BY DEF ChangeMachine, LoseFile, Shift
<1>4. Filed(file')
  BY <1>3, EmptyIsFiled DEF CalibrationInv
<1>5. Filed(file)'
  BY <1>4
<1>6. \A q \in Users : Remembered(memory[q])'
  BY <1>2 DEF CalibrationInv
<1>7. \A q \in Users : (asking[q] = NoCall \/ Standing(asking[q]))'
  BY <1>2 DEF CalibrationInv
<1> QED
  BY <1>1, <1>2, <1>5, <1>6, <1>7 DEF CalibrationInv

\* Memory and file hold measurements only, and every call stands on them,
\* whatever the processes, the machine and the file system do.
THEOREM KeepsMeasurements == CalibrationSpec => []CalibrationInv
<1>1. CalibrationInit => CalibrationInv
  BY EmptyIsFiled DEF CalibrationInit, CalibrationInv, NoCall
<1>2. CalibrationInv /\ [CalibrationNext]_calibrationVars => CalibrationInv'
  <2> SUFFICES ASSUME CalibrationInv, [CalibrationNext]_calibrationVars PROVE CalibrationInv'
    OBVIOUS
  <2>1. CASE \E p \in Users : Ask(p)
    BY <2>1, AskSteps
  <2>2. CASE \E p \in Users : Load(p)
    BY <2>2, LoadSteps
  <2>3. CASE \E p \in Users : Probe(p)
    BY <2>3, ProbeSteps
  <2>4. CASE \E p \in Users : Keep(p)
    BY <2>4, KeepSteps
  <2>5. CASE \E p \in Users : Die(p)
    BY <2>5, DieSteps
  <2>6. CASE ChangeMachine \/ LoseFile
    BY <2>6, AccidentSteps
  <2>7. CASE UNCHANGED calibrationVars
    BY <2>7 DEF calibrationVars, CalibrationInv
  <2> QED
    BY <2>1, <2>2, <2>3, <2>4, <2>5, <2>6, <2>7 DEF CalibrationNext
<1> QED
  BY <1>1, <1>2, PTL DEF CalibrationSpec

LEMMA MeasurementsFit == CalibrationInv => ServedCalibrationFits
<1> SUFFICES ASSUME CalibrationInv PROVE ServedCalibrationFits
  OBVIOUS
<1>1. ASSUME NEW p \in Users, asking[p].at = "served" PROVE Fits(asking[p])
  BY <1>1, NotIdleStands DEF Standing
<1>2. \A p \in Users : \A k \in DOMAIN memory[p] : memory[p][k].source # "fallback"
  BY DEF CalibrationInv, Remembered, Measured
<1>3. \A k \in DOMAIN file : SingleOrFull(file[k]) /\ file[k].source # "fallback"
  BY DEF CalibrationInv, Filed, Measured
<1> QED
  BY <1>1, <1>2, <1>3 DEF ServedCalibrationFits, Fits

\* No process is ever answered from memory or from the file with a calibration
\* of another machine state or of a smaller array than it could use.
THEOREM ServedFits == CalibrationSpec => []ServedCalibrationFits
  BY KeepsMeasurements, MeasurementsFit, PTL

-------------------------------------------------------------------------------
\* Reusable models.

Signed == compiled.validation = "signature"

\* KeptPlans of the frames, and what is kept of them.
WholePlans == {FromDataframe(f) : f \in Frames}
Samples == {"all", "fewer"}
KeptPlans == [plan : WholePlans, sample : Samples, engine : {"requested", "canonical"}]
Keys == [plan : KeptPlans] \cup [plan : KeptPlans, granted : Nat, auto : BOOLEAN]

\* A key says what its projector was made from.
Honest(e) == /\ e.made.plan = e.key.plan
             /\ "granted" \in DOMAIN e.key => e.made.granted = e.key.granted
Entries == {e \in [key : Keys, made : [plan : KeptPlans, granted : Nat], size : Nat] : Honest(e)}

\* The plan is one of the data as they once were, and its fingerprint theirs.
PlanOfFrame ==
  /\ DOMAIN compiled = {"plan", "validation", "source"}
  /\ \E f \in Frames : /\ compiled.plan = FromDataframe(f)
                       /\ Signed => compiled.source = <<f.labels, f.rows>>

CurrentPlan ==
  fitting.at \in {"current", "fit"} =>
    /\ compiled.plan.rows = dataframe.rows
    /\ Signed => compiled.plan = FromDataframe(dataframe)

FitUses ==
  \/ fitting = Idle
  \/ /\ DOMAIN fitting = {"at", "granted", "sample", "using"}
     /\ fitting.at \in {"admitted", "current", "fit"}
     /\ fitting.granted \in Nat /\ fitting.sample \in Samples
     /\ fitting.at # "fit" => fitting.using = {}
     /\ \A p \in fitting.using : /\ p.granted = fitting.granted /\ p.plan.sample = fitting.sample
                                 /\ p.plan.plan = compiled.plan

WithinCapacity == /\ allowed \in Capacities
                  /\ fitting.at # "fit" => RetainedBytes(cache, Protected) <= allowed
OffKeepsNothing == fitting # Idle /\ request.cache = "off" => cache = <<>>

ReuseInv == /\ dataframe \in Frames /\ request \in ModelPolicies
            /\ cache \in Seq(Entries)
            /\ PlanOfFrame /\ CurrentPlan /\ FitUses /\ WithinCapacity /\ OffKeepsNothing

LEMMA BytesOfNone ==
  ASSUME NEW protected
  PROVE  RetainedBytes(<<>>, protected) = 0
<1> DEFINE R(g) == g = [s \in SUBSET {} |-> IF s = {} THEN 0
                        ELSE g[s \ {Max(s)}] + Owned(<<>>[Max(s)], protected)]
<1>1. RetainedBytes(<<>>, protected) = (CHOOSE g : R(g))[{}]
  BY DEF RetainedBytes, FoldLeft, MapThenFoldSet
<1>2. R([s \in SUBSET {} |-> 0])
  OBVIOUS
<1>3. R(CHOOSE g : R(g))
  <2> HIDE DEF R
  <2> QED BY <1>2
<1> QED
  BY <1>1, <1>3

LEMMA BytesOfOne ==
  ASSUME NEW e, NEW protected, Owned(e, protected) \in Int
  PROVE  RetainedBytes(<<e>>, protected) = Owned(e, protected)
<1> DEFINE one == Owned(e, protected)
           V(g, s) == IF s = {} THEN 0 ELSE g[s \ {Max(s)}] + Owned(<<e>>[Max(s)], protected)
           R(g) == g = [s \in SUBSET {1} |-> V(g, s)]
           h == [s \in SUBSET {1} |-> IF s = {} THEN 0 ELSE one]
<1>1. RetainedBytes(<<e>>, protected) = (CHOOSE g : R(g))[{1}]
  BY DEF RetainedBytes, FoldLeft, MapThenFoldSet
<1>2. Max({1}) = 1 /\ <<e>>[1] = e /\ {1} \ {1} = {} /\ {1} # {}
  BY DEF Max
<1>3. \A s \in SUBSET {1} : s = {} \/ s = {1}
  OBVIOUS
<1>4. \A g : V(g, {}) = 0 /\ V(g, {1}) = g[{}] + one
  BY <1>2
<1>5. h[{}] = 0 /\ h[{1}] = one /\ one \in Int
  BY <1>2
<1> HIDE DEF V, one
<1>6. V(h, {}) = h[{}] /\ V(h, {1}) = h[{1}]
  BY <1>4, <1>5
<1>7. \A s \in SUBSET {1} : h[s] = V(h, s)
  BY <1>3, <1>6
<1>8. R(h)
  BY <1>7
<1>9. R(CHOOSE g : R(g))
  <2> HIDE DEF R, h
  <2> QED BY <1>8
<1> DEFINE c == CHOOSE g : R(g)
<1>10. c[{}] = V(c, {}) /\ c[{1}] = V(c, {1})
  <2>1. {} \in SUBSET {1} /\ {1} \in SUBSET {1}
    OBVIOUS
  <2> HIDE DEF c
  <2>2. c = [s \in SUBSET {1} |-> V(c, s)]
    BY <1>9 DEF c
  <2> QED BY <2>1, <2>2
<1> HIDE DEF c, h
<1>11. c[{1}] = one
  BY <1>4, <1>5, <1>10
<1> QED
  BY <1>1, <1>11 DEF c, one

LEMMA LeastNumber ==
  ASSUME NEW S \in SUBSET Nat, S # {}
  PROVE  \E m \in S : \A n \in S : m <= n
<1> DEFINE Less == OpToRel(<, Nat)
<1>1. IsWellFoundedOn(Less, Nat)
  BY NatLessThanWellFounded
<1>2. \A x, y \in Nat : <<x, y>> \in Less <=> x < y
  BY DEF OpToRel
<1> HIDE DEF Less
<1>3. PICK m \in S : \A y \in S : ~(<<y, m>> \in Less)
  BY <1>1, WFMin
<1>4. \A n \in S : ~(n < m)
  BY <1>2, <1>3
<1> QED
  BY <1>4

\* What stays after a trim is the youngest part of the cache, and fits.
LEMMA TrimFits ==
  ASSUME NEW S, NEW s \in Seq(S), NEW protected, NEW capacity \in Nat
  PROVE  /\ Trim(s, protected, capacity) \in Seq(S)
         /\ RetainedBytes(Trim(s, protected, capacity), protected) <= capacity
         /\ request.cache = "off" => Trim(s, protected, capacity) = <<>>
<1> DEFINE Rest(k) == SubSeq(s, k + 1, Len(s))
           fits == {k \in 0..Len(s) : RetainedBytes(Rest(k), protected) <= capacity}
           first == CHOOSE k \in fits : \A other \in fits : k <= other
<1>1. Len(s) \in Nat
  OBVIOUS
<1>2. \A k \in 0..Len(s) : Rest(k) \in Seq(S)
  <2> TAKE k \in 0..Len(s)
  <2>1. \A i \in k + 1 .. Len(s) : s[i] \in S
    BY <1>1
  <2> QED
    BY <1>1, <2>1, SubSeqProperties
<1>3. Rest(Len(s)) = <<>>
  BY <1>1, SubSeqEmpty
<1>4. Len(s) \in fits /\ fits \subseteq 0..Len(s)
  <2> HIDE DEF Rest
  <2>1. RetainedBytes(Rest(Len(s)), protected) = 0
    BY <1>3, BytesOfNone
  <2> QED
    BY <1>1, <2>1
<1>5. first \in fits
  <2> HIDE DEF fits
  <2>1. fits \in SUBSET Nat /\ fits # {}
    BY <1>1, <1>4
  <2> QED
    BY <2>1, LeastNumber
<1>6. Trim(s, protected, capacity) = IF request.cache = "off" THEN <<>> ELSE Rest(first)
  BY DEF Trim
<1>7. Rest(first) \in Seq(S) /\ RetainedBytes(Rest(first), protected) <= capacity
  <2> HIDE DEF first, Rest
  <2> QED BY <1>2, <1>4, <1>5
<1>8. <<>> \in Seq(S) /\ RetainedBytes(<<>>, protected) <= capacity
  BY BytesOfNone
<1> HIDE DEF first, Rest
<1> QED
  BY <1>6, <1>7, <1>8

LEMMA Unlists ==
  ASSUME NEW S, NEW s \in Seq(S), NEW key
  PROVE  /\ Unlisted(s, key) \in Seq(S)
         /\ Has(s, key) => EntryOf(s, key) \in S /\ EntryOf(s, key).key = key
<1>1. CASE ~Has(s, key)
  BY <1>1 DEF Unlisted
<1>2. CASE Has(s, key)
  <2> DEFINE k == Place(s, key)
  <2>1. k \in DOMAIN s /\ s[k].key = key
    BY <1>2 DEF Has, Place
  <2> HIDE DEF k
  <2>2. k \in 1..Len(s) /\ Len(s) \in Nat /\ s[k] \in S
    BY <2>1
  <2>3. SubSeq(s, 1, k - 1) \in Seq(S)
    <3>1. 1 \in Int /\ k - 1 \in Int /\ \A i \in 1 .. k - 1 : s[i] \in S
      BY <2>2
    <3> QED BY <3>1, SubSeqProperties
  <2>4. SubSeq(s, k + 1, Len(s)) \in Seq(S)
    <3>1. k + 1 \in Int /\ Len(s) \in Int /\ \A i \in k + 1 .. Len(s) : s[i] \in S
      BY <2>2
    <3> QED BY <3>1, SubSeqProperties
  <2>5. RemoveAt(s, k) \in Seq(S)
    BY <2>3, <2>4, ConcatProperties DEF RemoveAt
  <2> QED
    BY <1>2, <2>1, <2>2, <2>5 DEF Unlisted, EntryOf, k
<1> QED
  BY <1>1, <1>2

LEMMA Stores ==
  ASSUME NEW S, NEW s \in Seq(S), NEW e \in S, NEW protected, NEW capacity \in Nat
  PROVE  /\ Stored(s, e, protected, capacity) \in Seq(S)
         /\ RetainedBytes(Stored(s, e, protected, capacity), protected) <= capacity
         /\ request.cache = "off" => Stored(s, e, protected, capacity) = <<>>
<1>1. Append(Unlisted(s, e.key), e) \in Seq(S)
  BY Unlists
<1> QED
  BY <1>1, TrimFits DEF Stored

LEMMA Amounts ==
  /\ Capacities \subseteq Nat /\ Budgets \subseteq Nat \ {0} /\ 0 \in Capacities
  /\ \A r \in ModelPolicies : r.resources \in {0} \cup Budgets
  /\ \A f, g \in Frames : f.labels = g.labels /\ f.rows = g.rows => f.codes = g.codes
BY ReusableAssumption

\* What a plan and a projector put into the cache.
LEMMA EntryOfPlan ==
  ASSUME NEW f \in Frames
  PROVE  PlanEntry(FromDataframe(f)) \in Entries /\ PlanEntry(FromDataframe(f)).size = 1
<1>1. Subset(FromDataframe(f), "all") \in KeptPlans
  BY DEF KeptPlans, WholePlans, Samples, Subset
<1> DEFINE q == Subset(FromDataframe(f), "all")
<1>2. PlanEntry(FromDataframe(f)) = [key |-> [plan |-> q], made |-> [plan |-> q, granted |-> 0], size |-> 1]
  BY DEF PlanEntry
<1> HIDE DEF q
<1>3. [key |-> [plan |-> q], made |-> [plan |-> q, granted |-> 0], size |-> 1] \in Entries
  BY <1>1 DEF Entries, Keys, Honest, q
<1> QED
  BY <1>2, <1>3

LEMMA EntryOfProjector ==
  ASSUME NEW q \in KeptPlans, fitting.granted \in Nat
  PROVE  /\ ProjectorKey(q) \in [plan : KeptPlans, granted : Nat, auto : BOOLEAN]
         /\ [key |-> ProjectorKey(q), made |-> Made(q), size |-> 1] \in Entries
<1>1. ProjectorKey(q) \in [plan : KeptPlans, granted : Nat, auto : BOOLEAN]
  BY DEF ProjectorKey
<1>2. Made(q) \in [plan : KeptPlans, granted : Nat]
  BY DEF Made
<1>3. Made(q).plan = ProjectorKey(q).plan /\ Made(q).granted = ProjectorKey(q).granted
  BY DEF Made, ProjectorKey
<1> DEFINE k == ProjectorKey(q)
           m == Made(q)
<1> HIDE DEF k, m
<1>4. [key |-> k, made |-> m, size |-> 1] \in Entries
  BY <1>1, <1>2, <1>3 DEF Entries, Keys, Honest, k, m
<1> QED
  BY <1>1, <1>4 DEF k, m

\* The plans a fit projects with are those of its rows.
LEMMA PlansOfFit ==
  ASSUME PlanOfFrame, fitting.sample \in Samples, NEW q \in {ThisPlan, Canonicalized(ThisPlan)}
  PROVE  q \in KeptPlans /\ q.plan = compiled.plan /\ q.sample = fitting.sample
<1>1. compiled.plan \in WholePlans
  BY DEF PlanOfFrame, WholePlans
<1>2. ThisPlan = [plan |-> compiled.plan, sample |-> fitting.sample, engine |-> "requested"]
  BY DEF ThisPlan, Subset
<1>3. Canonicalized(ThisPlan) = [plan |-> compiled.plan, sample |-> fitting.sample, engine |-> "canonical"]
  BY <1>2 DEF Canonicalized
<1> QED
  BY <1>1, <1>2, <1>3 DEF KeptPlans

LEMMA HitIsOfKey ==
  ASSUME NEW e \in Entries, NEW q \in KeptPlans, fitting.granted \in Nat, e.key = ProjectorKey(q)
  PROVE  e.made.plan = q /\ e.made.granted = fitting.granted
<1>1. "granted" \in DOMAIN ProjectorKey(q) /\ ProjectorKey(q).plan = q
      /\ ProjectorKey(q).granted = fitting.granted
  BY DEF ProjectorKey
<1> QED
  BY <1>1 DEF Entries, Honest

\* A rebuilt plan owns the arrays of its entry.
LEMMA OwnPlanIsFree ==
  ASSUME NEW f \in Frames, NEW protected, protected = {Subset(FromDataframe(f), "all")}
  PROVE  RetainedBytes(<<PlanEntry(FromDataframe(f))>>, protected) = 0
<1> DEFINE e == PlanEntry(FromDataframe(f))
<1>1. Owned(e, protected) = 0
  BY DEF Owned, PlanEntry
<1> HIDE DEF e
<1> QED
  BY <1>1, BytesOfOne DEF e

LEMMA StoredAlone ==
  ASSUME NEW e, NEW protected, NEW capacity \in Nat
  PROVE  Stored(<<>>, e, protected, capacity) \in {<<>>, <<e>>}
<1> DEFINE s == <<e>>
           fits == {k \in 0..Len(s) : RetainedBytes(SubSeq(s, k + 1, Len(s)), protected) <= capacity}
           first == CHOOSE k \in fits : \A other \in fits : k <= other
<1>1. Append(Unlisted(<<>>, e.key), e) = s
  BY DEF Unlisted, Has
<1>2. Len(s) = 1 /\ s \in Seq({e})
  OBVIOUS
<1>3. Trim(s, protected, capacity) = IF request.cache = "off" THEN <<>> ELSE SubSeq(s, first + 1, Len(s))
  BY DEF Trim
<1>4. 1 \in fits
  <2>1. 1 + 1 \in Int /\ Len(s) \in Int /\ Len(s) < 1 + 1
    BY <1>2
  <2>2. SubSeq(s, 1 + 1, Len(s)) = <<>>
    BY <2>1, SubSeqEmpty
  <2> DEFINE rest == SubSeq(s, 1 + 1, Len(s))
  <2>3. RetainedBytes(rest, protected) <= capacity
    <3> HIDE DEF rest, s
    <3>1. RetainedBytes(rest, protected) = 0
      BY <2>2, BytesOfNone DEF rest
    <3> QED BY <3>1
  <2> QED
    BY <1>2, <2>3
<1>5. first \in {0, 1}
  <2>1. fits \subseteq {0, 1}
    BY <1>2
  <2> HIDE DEF fits
  <2>2. fits \in SUBSET Nat /\ fits # {}
    BY <1>4, <2>1
  <2> QED
    BY <2>1, <2>2, LeastNumber
<1>6. SubSeq(s, 1, 1) = s /\ SubSeq(s, 2, 1) = <<>>
  <2>1. SubSeq(s, 1, Len(s)) = s
    BY <1>2, SubSeqFull
  <2>2. SubSeq(s, 2, 1) = <<>>
    BY SubSeqEmpty
  <2> QED
    BY <1>2, <2>1, <2>2
<1> HIDE DEF first
<1>7. first = 0 \/ first = 1
  BY <1>5
<1>8. SubSeq(s, first + 1, Len(s)) \in {<<>>, s}
  BY <1>2, <1>6, <1>7
<1> QED
  BY <1>1, <1>3, <1>8 DEF Stored

LEMMA ReuseStarts ==
  ASSUME ReusableInit
  PROVE  ReuseInv
<1>1. PICK validation \in Validations, capacity \in Capacities :
        /\ compiled = [plan |-> FromDataframe(dataframe), validation |-> validation,
             source |-> IF validation = "signature" THEN <<dataframe.labels, dataframe.rows>> ELSE <<>>]
        /\ allowed = capacity
  BY DEF ReusableInit
<1>2. dataframe \in Frames /\ request \in ModelPolicies /\ fitting = Idle
      /\ cache \in {<<>>, <<PlanEntry(compiled.plan)>>}
  BY DEF ReusableInit
<1>3. compiled.plan = FromDataframe(dataframe)
  BY <1>1
<1>4. cache \in Seq(Entries)
  <2> DEFINE e == PlanEntry(FromDataframe(dataframe))
  <2>1. e \in Entries
    BY <1>2, EntryOfPlan
  <2>2. cache = <<>> \/ cache = <<e>>
    BY <1>2, <1>3
  <2> HIDE DEF e
  <2>3. <<>> \in Seq(Entries) /\ <<e>> \in Seq(Entries)
    BY <2>1
  <2> QED
    BY <2>2, <2>3
<1>5. PlanOfFrame
  BY <1>1, <1>2 DEF PlanOfFrame, Signed
<1>6. CurrentPlan /\ FitUses /\ OffKeepsNothing
  BY <1>2 DEF CurrentPlan, FitUses, OffKeepsNothing, Idle
<1>7. RetainedBytes(cache, Protected) = 0
  <2>1. CASE cache = <<>>
    BY <2>1, BytesOfNone
  <2>2. CASE cache = <<PlanEntry(FromDataframe(dataframe))>>
    BY <1>2, <1>3, <2>2, OwnPlanIsFree DEF Protected
  <2> QED BY <1>2, <1>3, <2>1, <2>2
<1>8. WithinCapacity
  BY <1>1, <1>7, Amounts DEF WithinCapacity
<1> QED
  BY <1>2, <1>4, <1>5, <1>6, <1>8 DEF ReuseInv

LEMMA ChangesKeep ==
  ASSUME ReuseInv, ChangeData \/ ChangePolicy
  PROVE  ReuseInv'
<1>1. /\ UNCHANGED <<compiled, cache, allowed, fitting>> /\ fitting = Idle
      /\ dataframe' \in Frames /\ request' \in ModelPolicies
  BY DEF ReuseInv, ChangeData, ChangePolicy
<1>2. Protected' = Protected /\ RetainedBytes(cache, Protected)' = RetainedBytes(cache, Protected)
  BY <1>1 DEF Protected
<1>3. PlanOfFrame'
  BY <1>1 DEF ReuseInv, PlanOfFrame, Signed
<1>4. (CurrentPlan /\ FitUses /\ OffKeepsNothing)'
  BY <1>1 DEF CurrentPlan, FitUses, OffKeepsNothing, Idle
<1>5. WithinCapacity'
  BY <1>1, <1>2 DEF ReuseInv, WithinCapacity
<1> QED
  BY <1>1, <1>3, <1>4, <1>5 DEF ReuseInv

LEMMA AdmitKeeps ==
  ASSUME ReuseInv, Admit
  PROVE  ReuseInv'
<1>1. PICK capacity \in Capacities, granted \in IF request.resources = 0 THEN Budgets ELSE {request.resources} :
        /\ cache' = Trim(IF signatures.policy \in {-1, request.resources} THEN cache ELSE <<>>,
                         Protected, capacity)
        /\ allowed' = capacity
        /\ fitting' = [at |-> "admitted", granted |-> granted, sample |-> "all", using |-> {}]
  BY DEF Admit
<1>2. UNCHANGED <<dataframe, changes, request, compiled>>
  BY DEF Admit
<1>3. granted \in Nat /\ capacity \in Nat
  BY <1>1, Amounts DEF ReuseInv
<1> DEFINE old == IF signatures.policy \in {-1, request.resources} THEN cache ELSE <<>>
<1>4. old \in Seq(Entries)
  BY DEF ReuseInv
<1> HIDE DEF old
<1>5. /\ cache' \in Seq(Entries) /\ RetainedBytes(cache', Protected) <= capacity
      /\ request.cache = "off" => cache' = <<>>
  BY <1>1, <1>3, <1>4, TrimFits DEF old
<1>6. Protected' = Protected
  BY <1>2 DEF Protected
<1>7. PlanOfFrame'
  BY <1>2 DEF ReuseInv, PlanOfFrame, Signed
<1>8. CurrentPlan' /\ FitUses'
  BY <1>1, <1>3 DEF CurrentPlan, FitUses, Samples
<1>9. OffKeepsNothing' /\ WithinCapacity'
  BY <1>1, <1>2, <1>5, <1>6 DEF OffKeepsNothing, WithinCapacity
<1> QED
  BY <1>2, <1>5, <1>7, <1>8, <1>9 DEF ReuseInv

\* A call under way.
LEMMA UnderWay ==
  ASSUME ReuseInv, fitting.at \in {"admitted", "current", "fit"}
  PROVE  /\ DOMAIN fitting = {"at", "granted", "sample", "using"} /\ fitting # Idle
         /\ fitting.granted \in Nat /\ fitting.sample \in Samples
         /\ fitting.at # "fit" => fitting.using = {}
         /\ \A p \in fitting.using : /\ p.granted = fitting.granted /\ p.plan.sample = fitting.sample
                                     /\ p.plan.plan = compiled.plan
BY DEF ReuseInv, FitUses, Idle

LEMMA EnsureCurrentKeeps ==
  ASSUME ReuseInv, EnsureCurrent
  PROVE  ReuseInv'
<1>1. /\ UNCHANGED <<dataframe, changes, request, signatures>> /\ fitting.at = "admitted"
      /\ fitting' = [fitting EXCEPT !.at = "current"]
  BY DEF EnsureCurrent
<1>2. /\ DOMAIN fitting' = {"at", "granted", "sample", "using"} /\ fitting'.at = "current"
      /\ fitting'.granted = fitting.granted /\ fitting'.sample = fitting.sample
      /\ fitting'.using = {} /\ fitting' # Idle
  BY <1>1, UnderWay DEF Idle
<1>3. FitUses'
  BY <1>1, <1>2, UnderWay DEF FitUses
<1>4. dataframe \in Frames /\ request \in ModelPolicies /\ cache \in Seq(Entries)
      /\ PlanOfFrame /\ WithinCapacity /\ OffKeepsNothing
  BY DEF ReuseInv
<1>5. CASE Outdated
  <2> DEFINE plan == FromDataframe(dataframe)
             e == PlanEntry(plan)
  <2>1. PICK capacity \in Capacities :
          allowed' = capacity /\ cache' = Stored(<<>>, e, {}, capacity)
    BY <1>5 DEF EnsureCurrent
  <2>2. compiled' = [compiled EXCEPT !.plan = plan, !.source = SourceFingerprint(dataframe)]
    BY <1>5 DEF EnsureCurrent
  <2>3. /\ DOMAIN compiled' = {"plan", "validation", "source"} /\ compiled'.plan = plan
        /\ compiled'.validation = compiled.validation
        /\ Signed => compiled'.source = <<dataframe.labels, dataframe.rows>>
    BY <1>4, <2>2 DEF PlanOfFrame, SourceFingerprint, Signed
  <2>4. e \in Entries /\ capacity \in Nat
    BY <1>4, EntryOfPlan, Amounts
  <2>5. Protected' = {Subset(plan, "all")}
    BY <2>3 DEF Protected
  <2>6. RetainedBytes(<<e>>, Protected') = 0
    BY <1>4, <2>5, OwnPlanIsFree
  <2>7. plan.rows = dataframe.rows
    BY DEF FromDataframe
  <2> HIDE DEF e, plan
  <2>8. cache' \in {<<>>, <<e>>} /\ cache' \in Seq(Entries)
        /\ (request.cache = "off" => cache' = <<>>)
    <3>1. Stored(<<>>, e, {}, capacity) \in {<<>>, <<e>>}
      BY <2>4, StoredAlone
    <3> DEFINE none == <<>>
    <3>2. none \in Seq(Entries)
      OBVIOUS
    <3> HIDE DEF none
    <3>3. /\ Stored(none, e, {}, capacity) \in Seq(Entries)
          /\ request.cache = "off" => Stored(none, e, {}, capacity) = <<>>
      BY <2>4, <3>2, Stores
    <3> QED
      BY <2>1, <3>1, <3>3 DEF none
  <2>9. RetainedBytes(cache', Protected') = 0
    BY <2>6, <2>8, BytesOfNone
  <2>10. PlanOfFrame'
    BY <1>1, <1>4, <2>3 DEF PlanOfFrame, Signed, plan
  <2>11. CurrentPlan'
    BY <1>1, <2>3, <2>7 DEF CurrentPlan, Signed, plan
  <2>12. WithinCapacity' /\ OffKeepsNothing'
    BY <1>1, <2>1, <2>4, <2>8, <2>9 DEF WithinCapacity, OffKeepsNothing
  <2> QED
    BY <1>1, <1>3, <1>4, <2>8, <2>10, <2>11, <2>12 DEF ReuseInv
<1>6. CASE ~Outdated
  <2>1. UNCHANGED <<compiled, cache, allowed>>
    BY <1>6 DEF EnsureCurrent
  <2>2. PlanOfFrame'
    BY <1>4, <2>1 DEF PlanOfFrame, Signed
  <2>3. compiled.plan.rows = dataframe.rows
    BY <1>6 DEF Outdated
  <2>4. ASSUME Signed PROVE compiled.plan = FromDataframe(dataframe)
    <3>1. PICK f \in Frames : compiled.plan = FromDataframe(f) /\ compiled.source = <<f.labels, f.rows>>
      BY <1>4, <2>4 DEF PlanOfFrame
    <3>2. compiled.source = <<dataframe.labels, dataframe.rows>>
      BY <1>6, <2>4 DEF Outdated, SourceFingerprint, Signed
    <3>3. f.labels = dataframe.labels /\ f.rows = dataframe.rows
      BY <3>1, <3>2
    <3>4. f.codes = dataframe.codes
      BY <1>4, <3>3, Amounts
    <3> QED
      BY <3>1, <3>3, <3>4 DEF FromDataframe
  <2>5. CurrentPlan'
    BY <1>1, <2>1, <2>3, <2>4 DEF CurrentPlan, Signed
  <2>6. Protected' = Protected
    BY <2>1 DEF Protected
  <2>7. WithinCapacity'
    BY <1>1, <1>4, <2>1, <2>6 DEF WithinCapacity
  <2>8. OffKeepsNothing'
    BY <1>1, <1>4, <2>1, UnderWay DEF OffKeepsNothing
  <2> QED
    BY <1>1, <1>3, <1>4, <2>1, <2>2, <2>5, <2>7, <2>8 DEF ReuseInv
<1> QED
  BY <1>5, <1>6

LEMMA EnterFitKeeps ==
  ASSUME ReuseInv, EnterFit
  PROVE  ReuseInv'
<1>1. PICK capacity \in Capacities, sample \in Samples :
        /\ cache' = Trim(IF signatures.resource \in {-1, fitting.granted} THEN cache ELSE <<>>,
                         Protected, capacity)
        /\ allowed' = capacity
        /\ fitting' = [fitting EXCEPT !.at = "fit", !.sample = sample]
  BY DEF EnterFit, Samples
<1>2. UNCHANGED <<dataframe, changes, request, compiled>> /\ fitting.at = "current"
  BY DEF EnterFit
<1>3. capacity \in Nat
  BY <1>1, Amounts
<1> DEFINE old == IF signatures.resource \in {-1, fitting.granted} THEN cache ELSE <<>>
<1>4. old \in Seq(Entries)
  BY DEF ReuseInv
<1> HIDE DEF old
<1>5. /\ cache' \in Seq(Entries) /\ RetainedBytes(cache', Protected) <= capacity
      /\ request.cache = "off" => cache' = <<>>
  BY <1>1, <1>3, <1>4, TrimFits DEF old
<1>6. /\ DOMAIN fitting' = {"at", "granted", "sample", "using"} /\ fitting'.at = "fit"
      /\ fitting'.granted = fitting.granted /\ fitting'.sample = sample /\ fitting'.using = {}
  BY <1>1, <1>2, UnderWay
<1>7. PlanOfFrame'
  BY <1>2 DEF ReuseInv, PlanOfFrame, Signed
<1>8. CurrentPlan'
  BY <1>2, <1>6 DEF ReuseInv, CurrentPlan, Signed
<1>9. FitUses'
  BY <1>2, <1>6, UnderWay DEF FitUses
<1>10. OffKeepsNothing' /\ WithinCapacity'
  BY <1>1, <1>2, <1>5, <1>6 DEF OffKeepsNothing, WithinCapacity
<1> QED
  BY <1>2, <1>5, <1>7, <1>8, <1>9, <1>10 DEF ReuseInv

\* A step inside a fit: what it uses, and the cache, may change.
FitGoesOn ==
  /\ UNCHANGED <<dataframe, request, compiled, allowed>> /\ fitting.at = "fit"
  /\ fitting' = fitting \/ \E m : /\ fitting' = [fitting EXCEPT !.using = @ \cup {m}]
                                  /\ m.granted = fitting.granted /\ m.plan.sample = fitting.sample
                                  /\ m.plan.plan = compiled.plan

LEMMA FitGoesOnKeeps ==
  ASSUME ReuseInv, FitGoesOn, cache' \in Seq(Entries), request.cache = "off" => cache' = <<>>
  PROVE  ReuseInv'
<1>1. UNCHANGED <<dataframe, request, compiled, allowed>> /\ fitting.at = "fit"
  BY DEF FitGoesOn
<1> DEFINE GoesOnAs(f) ==
             /\ DOMAIN f = {"at", "granted", "sample", "using"} /\ f.at = "fit"
             /\ f.granted = fitting.granted /\ f.sample = fitting.sample
             /\ \A p \in f.using : /\ p.granted = fitting.granted /\ p.plan.sample = fitting.sample
                                   /\ p.plan.plan = compiled.plan
<1>2. GoesOnAs(fitting')
  <2>1. CASE fitting' = fitting
    BY <1>1, <2>1, UnderWay
  <2>2. ASSUME NEW m, fitting' = [fitting EXCEPT !.using = @ \cup {m}],
               m.granted = fitting.granted, m.plan.sample = fitting.sample,
               m.plan.plan = compiled.plan
        PROVE  GoesOnAs(fitting')
    BY <1>1, <2>2, UnderWay
  <2> QED
    BY <2>1, <2>2 DEF FitGoesOn
<1>3. PlanOfFrame'
  BY <1>1 DEF ReuseInv, PlanOfFrame, Signed
<1>4. CurrentPlan'
  BY <1>1, <1>2 DEF ReuseInv, CurrentPlan, Signed
<1>5. FitUses'
  BY <1>1, <1>2, UnderWay DEF FitUses
<1>6. WithinCapacity' /\ OffKeepsNothing'
  BY <1>1, <1>2 DEF ReuseInv, WithinCapacity, OffKeepsNothing
<1> QED
  BY <1>1, <1>3, <1>4, <1>5, <1>6 DEF ReuseInv

LEMMA GetProjectorKeeps ==
  ASSUME ReuseInv, GetProjector
  PROVE  ReuseInv'
<1>1. UNCHANGED <<dataframe, changes, request, compiled, signatures, allowed>> /\ fitting.at = "fit"
  BY DEF GetProjector
<1>2. PICK plan \in {ThisPlan, Canonicalized(ThisPlan)}, capacity \in Capacities :
        LET key == ProjectorKey(plan)
            looked == Trim(cache, Protected, capacity)
        IN \/ /\ Has(looked, key)
              /\ cache' = Append(Unlisted(looked, key), EntryOf(looked, key))
              /\ fitting' = [fitting EXCEPT !.using = @ \cup {EntryOf(looked, key).made}]
           \/ /\ ~Has(looked, key)
              /\ \E later \in Capacities :
                   cache' = Stored(looked, [key |-> key, made |-> Made(plan), size |-> 1], Protected, later)
              /\ fitting' = [fitting EXCEPT !.using = @ \cup {Made(plan)}]
  BY DEF GetProjector
<1> DEFINE key == ProjectorKey(plan)
           looked == Trim(cache, Protected, capacity)
           entry == [key |-> key, made |-> Made(plan), size |-> 1]
<1>3. PlanOfFrame /\ cache \in Seq(Entries) /\ fitting.granted \in Nat /\ fitting.sample \in Samples
  BY <1>1, UnderWay DEF ReuseInv
<1>4. plan \in KeptPlans /\ plan.plan = compiled.plan /\ plan.sample = fitting.sample
  BY <1>2, <1>3, PlansOfFit
<1>5. looked \in Seq(Entries) /\ (request.cache = "off" => looked = <<>>)
  BY <1>2, <1>3, TrimFits, Amounts
<1>6. CASE /\ Has(looked, key)
           /\ cache' = Append(Unlisted(looked, key), EntryOf(looked, key))
           /\ fitting' = [fitting EXCEPT !.using = @ \cup {EntryOf(looked, key).made}]
  <2> HIDE DEF looked
  <2>1. Unlisted(looked, key) \in Seq(Entries) /\ EntryOf(looked, key) \in Entries
        /\ EntryOf(looked, key).key = key
    BY <1>5, <1>6, Unlists
  <2> DEFINE hit == EntryOf(looked, key)
  <2>2. hit.made.plan = plan /\ hit.made.granted = fitting.granted
    BY <1>3, <1>4, <2>1, HitIsOfKey
  <2>3. cache' \in Seq(Entries)
    BY <1>6, <2>1
  <2>4. request.cache # "off"
    BY <1>5, <1>6 DEF Has
  <2>5. FitGoesOn
    BY <1>1, <1>4, <1>6, <2>2 DEF FitGoesOn
  <2> QED
    BY <2>3, <2>4, <2>5, FitGoesOnKeeps
<1>7. CASE /\ ~Has(looked, key)
           /\ \E later \in Capacities : cache' = Stored(looked, entry, Protected, later)
           /\ fitting' = [fitting EXCEPT !.using = @ \cup {Made(plan)}]
  <2>1. entry \in Entries
    BY <1>3, <1>4, EntryOfProjector
  <2>2. Made(plan).plan = plan /\ Made(plan).granted = fitting.granted
    BY DEF Made
  <2>3. FitGoesOn
    BY <1>1, <1>4, <1>7, <2>2 DEF FitGoesOn
  <2> HIDE DEF looked, entry
  <2>4. PICK later \in Capacities : cache' = Stored(looked, entry, Protected, later)
    BY <1>7
  <2>5. cache' \in Seq(Entries) /\ (request.cache = "off" => cache' = <<>>)
    BY <1>5, <2>1, <2>4, Stores, Amounts
  <2> QED
    BY <2>3, <2>5, FitGoesOnKeeps
<1> QED
  BY <1>2, <1>6, <1>7

LEMMA BuildProjectorKeeps ==
  ASSUME ReuseInv, BuildProjector
  PROVE  ReuseInv'
<1>1. /\ UNCHANGED <<dataframe, changes, request, compiled, cache, signatures, allowed>>
      /\ fitting.at = "fit"
  BY DEF BuildProjector
<1>2. PICK plan \in {ThisPlan, Canonicalized(ThisPlan)} :
        fitting' = [fitting EXCEPT !.using = @ \cup {Made(plan)}]
  BY DEF BuildProjector
<1>3. plan.plan = compiled.plan /\ plan.sample = fitting.sample
  BY <1>1, <1>2, PlansOfFit, UnderWay DEF ReuseInv
<1>4. Made(plan).plan = plan /\ Made(plan).granted = fitting.granted
  BY DEF Made
<1>5. FitGoesOn
  BY <1>1, <1>2, <1>3, <1>4 DEF FitGoesOn
<1>6. cache' \in Seq(Entries) /\ (request.cache = "off" => cache' = <<>>)
  BY <1>1, UnderWay DEF ReuseInv, OffKeepsNothing
<1> QED
  BY <1>5, <1>6, FitGoesOnKeeps

LEMMA CompileKeeps ==
  ASSUME ReuseInv, Compile
  PROVE  ReuseInv'
<1>1. /\ UNCHANGED <<dataframe, changes, request, compiled, signatures, allowed, fitting>>
      /\ fitting.at = "fit"
  BY DEF Compile
<1>2. PICK k \in DOMAIN cache : cache' = [cache EXCEPT ![k].size = @ + 1]
  BY DEF Compile
<1>3. cache \in Seq(Entries)
  BY DEF ReuseInv
<1>4. cache[k] \in Entries /\ k \in 1..Len(cache)
  BY <1>2, <1>3
<1> DEFINE e == [cache[k] EXCEPT !.size = @ + 1]
<1>5. e \in Entries
  BY <1>4 DEF Entries, Honest
<1>6. cache' = [cache EXCEPT ![k] = e]
  BY <1>2
<1> HIDE DEF e
<1>7. cache' \in Seq(Entries)
  BY <1>3, <1>4, <1>5, <1>6
<1>8. request.cache # "off"
  BY <1>1, <1>2, UnderWay DEF ReuseInv, OffKeepsNothing
<1>9. FitGoesOn
  BY <1>1 DEF FitGoesOn
<1> QED
  BY <1>7, <1>8, <1>9, FitGoesOnKeeps

LEMMA LeaveFitKeeps ==
  ASSUME ReuseInv, LeaveFit
  PROVE  ReuseInv'
<1>1. UNCHANGED <<dataframe, changes, request, compiled, signatures>> /\ fitting' = Idle
  BY DEF LeaveFit
<1>2. PICK capacity \in Capacities : cache' = Trim(cache, Protected, capacity) /\ allowed' = capacity
  BY DEF LeaveFit
<1>3. cache \in Seq(Entries) /\ capacity \in Nat
  BY <1>2, Amounts DEF ReuseInv
<1>4. cache' \in Seq(Entries) /\ RetainedBytes(cache', Protected) <= capacity
  BY <1>2, <1>3, TrimFits
<1>5. Protected' = Protected
  BY <1>1 DEF Protected
<1>6. PlanOfFrame'
  BY <1>1 DEF ReuseInv, PlanOfFrame, Signed
<1>7. (CurrentPlan /\ FitUses /\ OffKeepsNothing)'
  BY <1>1 DEF CurrentPlan, FitUses, OffKeepsNothing, Idle
<1>8. WithinCapacity'
  BY <1>2, <1>4, <1>5 DEF WithinCapacity
<1> QED
  BY <1>1, <1>4, <1>6, <1>7, <1>8 DEF ReuseInv

LEMMA RaiseEarlyKeeps ==
  ASSUME ReuseInv, RaiseEarly
  PROVE  ReuseInv'
<1>1. /\ UNCHANGED <<dataframe, changes, request, compiled, cache, signatures, allowed>>
      /\ fitting' = Idle /\ fitting.at # "fit"
  BY DEF RaiseEarly
<1>2. Protected' = Protected
  BY <1>1 DEF Protected
<1>3. PlanOfFrame'
  BY <1>1 DEF ReuseInv, PlanOfFrame, Signed
<1>4. (CurrentPlan /\ FitUses /\ OffKeepsNothing)'
  BY <1>1 DEF CurrentPlan, FitUses, OffKeepsNothing, Idle
<1>5. WithinCapacity'
  BY <1>1, <1>2 DEF ReuseInv, WithinCapacity
<1> QED
  BY <1>1, <1>3, <1>4, <1>5 DEF ReuseInv

LEMMA ReuseStands ==
  ASSUME ReuseInv, UNCHANGED reusableVars
  PROVE  ReuseInv'
<1>1. UNCHANGED <<dataframe, changes, request, compiled, cache, signatures, allowed, fitting>>
  BY DEF reusableVars
<1>2. Protected' = Protected
  BY <1>1 DEF Protected
<1>3. PlanOfFrame' /\ CurrentPlan'
  BY <1>1 DEF ReuseInv, PlanOfFrame, CurrentPlan, Signed
<1>4. FitUses' /\ OffKeepsNothing'
  BY <1>1 DEF ReuseInv, FitUses, OffKeepsNothing
<1>5. WithinCapacity'
  BY <1>1, <1>2 DEF ReuseInv, WithinCapacity
<1> QED
  BY <1>1, <1>3, <1>4, <1>5 DEF ReuseInv

\* ReuseIsSound: a fit projects only with projectors of the plan the data have now, of its own rows
\* and resources, whatever was cached, evicted, rebuilt or raised before; outside a fit the cache
\* fits what the last trim allowed, and with the cache off a call finds nothing in it
\* (models/ppml/api.py:101-115, models/ppml/execution.py:33-74, compute/context.py:81-129).
THEOREM ModelsReuseSoundly == ReusableSpec => []ReuseIsSound
<1>1. ReusableInit => ReuseInv
  BY ReuseStarts
<1>2. ReuseInv /\ [ReusableNext]_reusableVars => ReuseInv'
  BY ChangesKeep, AdmitKeeps, EnsureCurrentKeeps, EnterFitKeeps, GetProjectorKeeps,
     BuildProjectorKeeps, CompileKeeps, LeaveFitKeeps, RaiseEarlyKeeps, ReuseStands DEF ReusableNext
<1>3. ReuseInv => ReuseIsSound
  <2> SUFFICES ASSUME ReuseInv PROVE ReuseIsSound
    OBVIOUS
  <2>1. ASSUME fitting.at = "fit"
        PROVE  /\ compiled.plan.rows = dataframe.rows
               /\ \A p \in fitting.using :
                    /\ p.granted = fitting.granted /\ p.plan.sample = fitting.sample
                    /\ p.plan.plan = IF compiled.validation = "signature"
                                     THEN FromDataframe(dataframe) ELSE compiled.plan
    BY <2>1, UnderWay DEF ReuseInv, CurrentPlan, Signed
  <2> QED
    BY <2>1 DEF ReuseInv, ReuseIsSound, WithinCapacity, OffKeepsNothing
<1> QED
  BY <1>1, <1>2, <1>3, PTL DEF ReusableSpec

=============================================================================
