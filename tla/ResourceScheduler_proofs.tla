------------------------ MODULE ResourceScheduler_proofs ------------------------
(***************************************************************************)
(* Proofs about ResourceScheduler.  The invariants come in layers, each    *)
(* resting on those before it:                                             *)
(*   Typed, Shapes   what the stacks of scopes look like                   *)
(*   ClaimInv        the ledger holds the claims of the open scopes        *)
(*   BlasInv         the BLAS limit, and the jobs in the order they began  *)
(*   OwnerInv        what the open calls on the shared model have saved    *)
(*   CapInv          every allocation fits the one it was made from        *)
(*   SliceInv        a replicate's own claims fit its slice                *)
(*   RunningInv      a job knows the threads that run its replicates       *)
(* First come the sums that a fold over a table of claims computes, then   *)
(* what each action does to the stacks (the lemmas named ...Moves).        *)
(***************************************************************************)
EXTENDS ResourceScheduler, FiniteSetTheorems, SequenceTheorems, WellFoundedInduction, TLAPS

-----------------------------------------------------------------------------
(* Sums of claims: what a fold over a finite table of natural amounts gives.  *)
(* Induction on a cardinality is by the least counterexample.                  *)

\* The recursion a fold over the subsets of D runs, for the entries f of a table.
IsTotal(g, f, D) ==
  g = [s \in SUBSET D |-> IF s = {} THEN 0
                          ELSE f[CHOOSE x \in s : TRUE] + g[s \ {CHOOSE x \in s : TRUE}]]

LEMMA ClaimedDef ==
  ASSUME NEW f
  PROVE Claimed(f) = (CHOOSE g : IsTotal(g, f, DOMAIN f))[DOMAIN f]
BY DEF Claimed, FoldFunction, FoldFunctionOnSet, MapThenFoldSet, IsTotal

LEMMA LeastOf ==
  ASSUME NEW S \in SUBSET Nat, S # {}
  PROVE \E m \in S : \A n \in S : m <= n
<1> DEFINE R == OpToRel(<, Nat)
<1>1. IsWellFoundedOn(R, Nat) BY NatLessThanWellFounded
<1>2. \A x, y \in Nat : <<x, y>> \in R <=> x < y BY DEF OpToRel
<1> HIDE DEF R
<1>3. PICK m \in S : \A y \in S : ~(<<y, m>> \in R) BY <1>1, WFMin
<1>4. \A n \in S : ~(n < m) BY <1>2, <1>3
<1> QED BY <1>4

\* The recursion has a solution.
LEMMA TotalExists ==
  ASSUME NEW D, IsFiniteSet(D), NEW f, \A x \in D : f[x] \in Nat
  PROVE \E g \in [SUBSET D -> Nat] : IsTotal(g, f, D)
<1> DEFINE Small(n) == {s \in SUBSET D : Cardinality(s) <= n}
           Part(g, n) == /\ g \in [Small(n) -> Nat]
                         /\ \A s \in Small(n) : g[s] = IF s = {} THEN 0 ELSE f[CHOOSE x \in s : TRUE] + g[s \ {CHOOSE x \in s : TRUE}]
           Missing == {n \in Nat : ~ \E g : Part(g, n)}
<1>1. \A s \in SUBSET D : IsFiniteSet(s) /\ Cardinality(s) \in Nat /\ Cardinality(s) <= Cardinality(D)
  BY FS_Subset, FS_CardinalityType
<1>2. \A s \in SUBSET D : s # {} =>
         /\ (CHOOSE x \in s : TRUE) \in s
         /\ Cardinality(s \ {CHOOSE x \in s : TRUE}) = Cardinality(s) - 1
  BY <1>1, FS_RemoveElement
<1>3. \A s \in SUBSET D : Cardinality(s) = 0 <=> s = {}
  BY <1>1, FS_EmptySet
<1>4. Part([s \in Small(0) |-> 0], 0)
  <2>1. Small(0) = {{}} BY <1>1, <1>3
  <2> QED BY <2>1
<1>5. ASSUME NEW n \in Nat, NEW g, Part(g, n) PROVE \E h : Part(h, n + 1)
  <2> DEFINE Rest(s) == s \ {CHOOSE x \in s : TRUE}
             h == [s \in Small(n + 1) |-> IF s = {} THEN 0 ELSE f[CHOOSE x \in s : TRUE] + g[Rest(s)]]
  <2>1. \A s \in Small(n + 1) : s # {} => Rest(s) \in Small(n)
    BY <1>1, <1>2
  <2>2. Small(n) \subseteq Small(n + 1) BY <1>1
  <2>3. \A s \in Small(n) : h[s] = g[s] BY <1>5, <2>2
  <2>4. h \in [Small(n + 1) -> Nat] BY <2>1, <1>2, <1>5
  <2> HIDE DEF Small
  <2>5. \A s \in Small(n + 1) : h[s] = IF s = {} THEN 0 ELSE f[CHOOSE x \in s : TRUE] + h[Rest(s)]
    BY <2>1, <2>3
  <2> QED BY <2>4, <2>5
<1>6. Missing = {}
  <2> SUFFICES ASSUME Missing # {} PROVE FALSE OBVIOUS
  <2>1. PICK m \in Missing : \A n \in Missing : m <= n BY LeastOf
  <2> HIDE DEF Part, Small
  <2>2. m # 0 BY <1>4
  <2>3. m - 1 \in Nat /\ m - 1 \notin Missing BY <2>1, <2>2
  <2>4. PICK g : Part(g, m - 1) BY <2>3
  <2> QED BY <1>5, <2>3, <2>4, <2>1
<1>7. PICK g : Part(g, Cardinality(D))
  <2>1. Cardinality(D) \in Nat BY FS_CardinalityType
  <2> HIDE DEF Part, Small
  <2> QED BY <1>6, <2>1
<1>8. Small(Cardinality(D)) = SUBSET D BY <1>1
<1>9. IsTotal(g, f, D) BY <1>7, <1>8 DEF IsTotal
<1> QED BY <1>7, <1>8, <1>9

\* What a solution gives: any element may be taken out first.
TakesOut(g, f, D) == /\ g[{}] = 0
                     /\ \A s \in SUBSET D : \A x \in s : g[s] = f[x] + g[s \ {x}]
LEMMA TotalTakesOut ==
  ASSUME NEW D, IsFiniteSet(D), NEW f, \A x \in D : f[x] \in Nat,
         NEW g \in [SUBSET D -> Nat], IsTotal(g, f, D)
  PROVE  TakesOut(g, f, D)
<1> DEFINE Takes(s) == \A x \in s : g[s] = f[x] + g[s \ {x}]
           Missing == {n \in Nat : \E s \in SUBSET D : Cardinality(s) = n /\ ~Takes(s)}
<1>0. \A s \in SUBSET D : g[s] = IF s = {} THEN 0
                          ELSE f[CHOOSE x \in s : TRUE] + g[s \ {CHOOSE x \in s : TRUE}]
  BY DEF IsTotal
<1>1. \A s \in SUBSET D : IsFiniteSet(s) /\ Cardinality(s) \in Nat
  BY FS_Subset, FS_CardinalityType
<1>2. \A s \in SUBSET D : \A x \in s : Cardinality(s \ {x}) = Cardinality(s) - 1
  BY <1>1, FS_RemoveElement
<1>3. Missing = {}
  <2> SUFFICES ASSUME Missing # {} PROVE FALSE OBVIOUS
  <2>1. PICK m \in Missing : \A n \in Missing : m <= n BY LeastOf
  <2>2. PICK s \in SUBSET D : Cardinality(s) = m /\ ~Takes(s) BY <2>1
  <2>3. PICK x \in s : g[s] # f[x] + g[s \ {x}] BY <2>2
  <2> DEFINE y == CHOOSE z \in s : TRUE
  <2>4. y \in s /\ g[s] = f[y] + g[s \ {y}] BY <1>0, <2>3
  <2> HIDE DEF y
  <2>5. x # y BY <2>3, <2>4
  <2>6. \A z \in s : Takes(s \ {z})
    <3> TAKE z \in s
    <3>1. Cardinality(s \ {z}) = m - 1 BY <1>2, <2>2
    <3>2. m - 1 \in Nat BY <1>1, <3>1
    <3>3. m - 1 \notin Missing BY <2>1, <3>2
    <3> QED BY <3>1, <3>2, <3>3
  <2>7. g[s \ {x}] = f[y] + g[(s \ {x}) \ {y}] BY <2>4, <2>5, <2>6
  <2>8. g[s \ {y}] = f[x] + g[(s \ {y}) \ {x}] BY <2>4, <2>5, <2>6
  <2>9. (s \ {x}) \ {y} = (s \ {y}) \ {x} OBVIOUS
  <2>10. /\ f[x] \in Nat /\ f[y] \in Nat /\ g[(s \ {x}) \ {y}] \in Nat BY <2>3, <2>4
  <2>11. \A a, b, c \in Nat : a + (b + c) = b + (a + c) OBVIOUS
  <2>12. f[x] + (f[y] + g[(s \ {x}) \ {y}]) = f[y] + (f[x] + g[(s \ {x}) \ {y}])
    BY <2>10, <2>11
  <2> QED BY <2>3, <2>4, <2>7, <2>8, <2>9, <2>12
<1>4. \A s \in SUBSET D : Takes(s) BY <1>1, <1>3
<1> QED BY <1>0, <1>4 DEF TakesOut

\* g is the total of the finitely many natural entries f has on D.
Totals(g, f, D) == /\ IsFiniteSet(D)
                   /\ \A x \in D : f[x] \in Nat
                   /\ g \in [SUBSET D -> Nat]
                   /\ IsTotal(g, f, D)

\* Tables that agree on a set have the same total there.
LEMMA TotalsAgree ==
  ASSUME NEW D, NEW f, NEW g, Totals(g, f, D), NEW E, NEW h, NEW k, Totals(k, h, E),
         \A x \in D \cap E : f[x] = h[x]
  PROVE  \A s \in SUBSET (D \cap E) : g[s] = k[s]
<1> DEFINE Missing == {n \in Nat : \E s \in SUBSET (D \cap E) : Cardinality(s) = n /\ g[s] # k[s]}
<1>1. \A s \in SUBSET (D \cap E) : IsFiniteSet(s) /\ Cardinality(s) \in Nat
  BY FS_Subset, FS_CardinalityType DEF Totals
<1>2. \A s \in SUBSET (D \cap E) : \A x \in s : Cardinality(s \ {x}) = Cardinality(s) - 1
  BY <1>1, FS_RemoveElement
<1>3. TakesOut(g, f, D) BY TotalTakesOut DEF Totals
<1>5. TakesOut(k, h, E) BY TotalTakesOut DEF Totals
<1>4. Missing = {}
  <2> SUFFICES ASSUME Missing # {} PROVE FALSE OBVIOUS
  <2>1. PICK m \in Missing : \A n \in Missing : m <= n BY LeastOf
  <2>2. PICK s \in SUBSET (D \cap E) : Cardinality(s) = m /\ g[s] # k[s] BY <2>1
  <2>3. PICK x \in s : TRUE BY <1>3, <1>5, <2>2 DEF TakesOut
  <2>4. Cardinality(s \ {x}) = m - 1 BY <1>2, <2>2
  <2>5. m - 1 \in Nat BY <1>1, <2>4
  <2>6. m - 1 \notin Missing BY <2>1, <2>5
  <2>7. g[s \ {x}] = k[s \ {x}] BY <2>4, <2>5, <2>6
  <2>8. g[s] = f[x] + g[s \ {x}] /\ k[s] = h[x] + k[s \ {x}]
    BY <1>3, <1>5 DEF TakesOut
  <2> QED BY <2>2, <2>7, <2>8
<1> QED BY <1>1, <1>4

\* The recursion has one solution.
LEMMA TotalUnique ==
  ASSUME NEW D, IsFiniteSet(D), NEW f, \A x \in D : f[x] \in Nat,
         NEW h \in [SUBSET D -> Nat], IsTotal(h, f, D),
         NEW g, IsTotal(g, f, D)
  PROVE  g \in [SUBSET D -> Nat]
<1> DEFINE Missing == {n \in Nat : \E s \in SUBSET D : Cardinality(s) = n /\ g[s] # h[s]}
           C(s) == CHOOSE x \in s : TRUE
<1>1. \A s \in SUBSET D : IsFiniteSet(s) /\ Cardinality(s) \in Nat
  BY FS_Subset, FS_CardinalityType
<1>2. \A s \in SUBSET D : \A x \in s : Cardinality(s \ {x}) = Cardinality(s) - 1
  BY <1>1, FS_RemoveElement
<1>3. \A s \in SUBSET D : g[s] = IF s = {} THEN 0 ELSE f[C(s)] + g[s \ {C(s)}]
  BY DEF IsTotal
<1>4. \A s \in SUBSET D : h[s] = IF s = {} THEN 0 ELSE f[C(s)] + h[s \ {C(s)}]
  BY DEF IsTotal
<1>5. \A s \in SUBSET D : s # {} => C(s) \in s OBVIOUS
<1> HIDE DEF C
<1>6. Missing = {}
  <2> SUFFICES ASSUME Missing # {} PROVE FALSE OBVIOUS
  <2>1. PICK m \in Missing : \A n \in Missing : m <= n BY LeastOf
  <2>2. PICK s \in SUBSET D : Cardinality(s) = m /\ g[s] # h[s] BY <2>1
  <2>3. s # {} BY <1>3, <1>4, <2>2
  <2>4. Cardinality(s \ {C(s)}) = m - 1 BY <1>2, <1>5, <2>2, <2>3
  <2>5. m - 1 \in Nat BY <1>1, <2>4
  <2>6. m - 1 \notin Missing BY <2>1, <2>5
  <2>7. g[s \ {C(s)}] = h[s \ {C(s)}] BY <2>4, <2>5, <2>6
  <2> QED BY <1>3, <1>4, <2>2, <2>3, <2>7
<1>7. \A s \in SUBSET D : g[s] = h[s] BY <1>1, <1>6
<1>8. DOMAIN g = SUBSET D /\ g = [s \in SUBSET D |-> g[s]] BY DEF IsTotal
<1> QED BY <1>7, <1>8

\* A claim table: finitely many keys, natural amounts.
IsTable(f) == IsFiniteSet(DOMAIN f) /\ \A x \in DOMAIN f : f[x] \in Nat

LEMMA ClaimedIsTotal ==
  ASSUME NEW f, IsTable(f)
  PROVE \E g \in [SUBSET DOMAIN f -> Nat] : IsTotal(g, f, DOMAIN f) /\ Claimed(f) = g[DOMAIN f]
<1>1. PICK h \in [SUBSET DOMAIN f -> Nat] : IsTotal(h, f, DOMAIN f)
  BY TotalExists DEF IsTable
<1> DEFINE g == CHOOSE k : IsTotal(k, f, DOMAIN f)
<1>2. IsTotal(g, f, DOMAIN f) BY <1>1
<1>3. Claimed(f) = g[DOMAIN f] BY ClaimedDef
<1> HIDE DEF g
<1>4. g \in [SUBSET DOMAIN f -> Nat] BY <1>1, <1>2, TotalUnique DEF IsTable
<1> QED BY <1>2, <1>3, <1>4

LEMMA ClaimedNat ==
  ASSUME NEW f, IsTable(f)
  PROVE  Claimed(f) \in Nat
<1>1. PICK g \in [SUBSET DOMAIN f -> Nat] : Claimed(f) = g[DOMAIN f] BY ClaimedIsTotal
<1> QED BY <1>1

LEMMA ClaimedNone ==
  ASSUME NEW f, DOMAIN f = {}
  PROVE  Claimed(f) = 0 /\ IsTable(f)
<1>1. IsTable(f) BY FS_EmptySet DEF IsTable
<1>2. PICK g \in [SUBSET DOMAIN f -> Nat] : IsTotal(g, f, DOMAIN f) /\ Claimed(f) = g[DOMAIN f]
  BY <1>1, ClaimedIsTotal
<1>3. TakesOut(g, f, DOMAIN f) BY <1>1, <1>2, TotalTakesOut DEF IsTable
<1> QED BY <1>1, <1>2, <1>3 DEF TakesOut

\* A table that differs from another in one key differs by that claim.
LEMMA ClaimedWithout ==
  ASSUME NEW f, IsTable(f), NEW x \in DOMAIN f,
         NEW h, DOMAIN h = DOMAIN f \ {x}, \A y \in DOMAIN h : h[y] = f[y]
  PROVE  IsTable(h) /\ Claimed(f) = f[x] + Claimed(h)
<1>1. IsTable(h) BY FS_RemoveElement DEF IsTable
<1>2. PICK g \in [SUBSET DOMAIN f -> Nat] : IsTotal(g, f, DOMAIN f) /\ Claimed(f) = g[DOMAIN f]
  BY ClaimedIsTotal
<1>3. PICK k \in [SUBSET DOMAIN h -> Nat] : IsTotal(k, h, DOMAIN h) /\ Claimed(h) = k[DOMAIN h]
  BY <1>1, ClaimedIsTotal
<1>4. TakesOut(g, f, DOMAIN f) BY <1>2, TotalTakesOut DEF IsTable
<1>5. g[DOMAIN f] = f[x] + g[DOMAIN f \ {x}] BY <1>4 DEF TakesOut
<1>6. \A s \in SUBSET (DOMAIN f \cap DOMAIN h) : g[s] = k[s]
  <2>1. Totals(g, f, DOMAIN f) BY <1>2 DEF Totals, IsTable
  <2>2. Totals(k, h, DOMAIN h) BY <1>1, <1>3 DEF Totals, IsTable
  <2> QED BY <2>1, <2>2, TotalsAgree
<1> QED BY <1>1, <1>2, <1>3, <1>5, <1>6

\* The same claims, the same total.
LEMMA ClaimedSame ==
  ASSUME NEW f, IsTable(f), NEW h, DOMAIN h = DOMAIN f, \A y \in DOMAIN h : h[y] = f[y]
  PROVE  IsTable(h) /\ Claimed(h) = Claimed(f)
<1>1. IsTable(h) BY DEF IsTable
<1>2. PICK g \in [SUBSET DOMAIN f -> Nat] : IsTotal(g, f, DOMAIN f) /\ Claimed(f) = g[DOMAIN f]
  BY ClaimedIsTotal
<1>3. PICK k \in [SUBSET DOMAIN h -> Nat] : IsTotal(k, h, DOMAIN h) /\ Claimed(h) = k[DOMAIN h]
  BY <1>1, ClaimedIsTotal
<1>6. \A s \in SUBSET (DOMAIN f \cap DOMAIN h) : g[s] = k[s]
  <2>1. Totals(g, f, DOMAIN f) BY <1>2 DEF Totals, IsTable
  <2>2. Totals(k, h, DOMAIN h) BY <1>1, <1>3 DEF Totals, IsTable
  <2> QED BY <2>1, <2>2, TotalsAgree
<1> QED BY <1>1, <1>2, <1>3, <1>6

\* Part of the claims is no more than all of them.
LEMMA ClaimedPart ==
  ASSUME NEW f, IsTable(f), NEW S \in SUBSET DOMAIN f
  PROVE  IsTable(Restrict(f, S)) /\ Claimed(Restrict(f, S)) <= Claimed(f)
<1> DEFINE Part(n) == \A T \in SUBSET DOMAIN f : Cardinality(T) = n =>
                         Claimed(Restrict(f, DOMAIN f \ T)) <= Claimed(f)
           Missing == {n \in Nat : ~Part(n)}
<1>1. \A T \in SUBSET DOMAIN f : IsFiniteSet(T) /\ Cardinality(T) \in Nat
  BY FS_Subset, FS_CardinalityType DEF IsTable
<1>2. \A T \in SUBSET DOMAIN f : \A x \in T : Cardinality(T \ {x}) = Cardinality(T) - 1
  BY <1>1, FS_RemoveElement
<1>3. \A T \in SUBSET DOMAIN f : IsTable(Restrict(f, DOMAIN f \ T))
  BY FS_Subset DEF IsTable, Restrict
<1>4. Missing = {}
  <2> SUFFICES ASSUME Missing # {} PROVE FALSE OBVIOUS
  <2>1. PICK m \in Missing : \A n \in Missing : m <= n BY LeastOf
  <2>2. PICK T \in SUBSET DOMAIN f : /\ Cardinality(T) = m
                                    /\ ~(Claimed(Restrict(f, DOMAIN f \ T)) <= Claimed(f))
    BY <2>1
  <2>3. CASE T = {}
    <3>1. /\ DOMAIN Restrict(f, DOMAIN f \ T) = DOMAIN f
          /\ \A y \in DOMAIN f : Restrict(f, DOMAIN f \ T)[y] = f[y]
      BY <2>3 DEF Restrict
    <3>2. Claimed(Restrict(f, DOMAIN f \ T)) = Claimed(f) BY <3>1, ClaimedSame
    <3> QED BY <2>2, <3>2, ClaimedNat
  <2>4. CASE T # {}
    <3>1. PICK x \in T : TRUE BY <2>4
    <3> DEFINE more == Restrict(f, DOMAIN f \ (T \ {x}))
               less == Restrict(f, DOMAIN f \ T)
    <3>2. /\ DOMAIN less = DOMAIN more \ {x} /\ x \in DOMAIN more
          /\ \A y \in DOMAIN less : less[y] = more[y]
      BY DEF Restrict
    <3>3. IsTable(more) BY <1>3
    <3>4. IsTable(less) BY <1>3
    <3>5. more[x] \in Nat BY <3>2, <3>3 DEF IsTable
    <3>6. Cardinality(T \ {x}) = m - 1 BY <1>2, <2>2
    <3>7. m - 1 \in Nat BY <1>1, <3>6
    <3>8. m - 1 \notin Missing BY <2>1, <3>7
    <3>9. Claimed(more) <= Claimed(f) BY <3>6, <3>7, <3>8
    <3> HIDE DEF more, less
    <3>10. Claimed(more) = more[x] + Claimed(less) BY <3>2, <3>3, ClaimedWithout
    <3>11. Claimed(more) \in Nat /\ Claimed(less) \in Nat /\ Claimed(f) \in Nat
      BY <3>3, <3>4, ClaimedNat
    <3>12. ~(Claimed(less) <= Claimed(f)) BY <2>2 DEF less
    <3> QED BY <3>5, <3>9, <3>10, <3>11, <3>12
  <2> QED BY <2>3, <2>4
<1>5. S = DOMAIN f \ (DOMAIN f \ S) OBVIOUS
<1>6. Cardinality(DOMAIN f \ S) \in Nat BY <1>1
<1>7. Claimed(Restrict(f, DOMAIN f \ (DOMAIN f \ S))) <= Claimed(f) BY <1>4, <1>6
<1> QED BY <1>3, <1>5, <1>7
-----------------------------------------------------------------------------
(* What is in a stack, whatever the machine's limits are. *)

Allocs == [root : Nat, caps : Seq(Amounts) \ {<<>>}, cpu : 0..Cpu]
CallFrames ==
  [kind : {"call"}, prev : Allocs, onOwner : BOOLEAN, saved : Policies, blas : 1..Cpu]
ReserveFrames ==
  [kind : {"reserve"}, key : Keys, reuse : BOOLEAN, previous : Nat, prevChain : SUBSET Keys]
WorkerFrames ==
  [kind : {"worker"}, prev : Allocs, prevChain : SUBSET Keys, slice : Allocs, job : Nat,
   dispatcher : Threads, estimate : Nat, phase : {"admission", "body", "end"}]
JobFrames ==
  [kind : {"replicates"}, prev : Allocs, job : Nat, child : Allocs, workers : 1..Cpu,
   estimate : Nat, pending : 0..MaxSeeds, running : SUBSET Threads, failed : BOOLEAN,
   blas : 0..Cpu]
Frames == CallFrames \cup ReserveFrames \cup WorkerFrames \cup JobFrames
Tables == UNION {[K -> Nat] : K \in {J \in SUBSET Keys : IsFiniteSet(J)}}

Typed ==
  /\ lock \in Threads \cup {NoThread}
  /\ envelope \in Seq([budget : Amounts, cpu : 1..Cpu])
  /\ ledger \in Seq(Tables) /\ Len(ledger) = Len(envelope)
  /\ current \in [Threads -> Allocs]
  /\ chain \in [Threads -> SUBSET Keys]
  /\ stack \in [Threads -> Seq(Frames)]
  /\ policy \in Policies
  /\ blas \in 1..Cpu
  /\ jobs \in Nat
  /\ ops \in [Threads -> Nat]

\* What a later step never changes in a frame.
Alike(f, g) ==
  /\ g.kind = f.kind
  /\ f.kind \in {"call", "reserve"} => g = f
  /\ f.kind = "worker" =>
       /\ g.prev = f.prev /\ g.prevChain = f.prevChain /\ g.slice = f.slice
       /\ g.job = f.job /\ g.dispatcher = f.dispatcher /\ g.estimate = f.estimate
  /\ f.kind = "replicates" =>
       /\ g.prev = f.prev /\ g.job = f.job /\ g.child = f.child
       /\ g.workers = f.workers /\ g.blas = f.blas

Kept(s, z) == Len(z) = Len(s) /\ \A i \in 1..Len(s) : Alike(s[i], z[i])
Pushed(s, z, f) ==
  /\ Len(z) = Len(s) + 1 /\ z[Len(s) + 1] = f
  /\ \A i \in 1..Len(s) : Alike(s[i], z[i])
Popped(s, z) ==
  /\ Len(s) > 0 /\ Len(z) = Len(s) - 1
  /\ \A i \in 1..Len(z) : Alike(s[i], z[i])

LEMMA AlikeSame == \A f : Alike(f, f)
BY DEF Alike

LEMMA AppendPushes ==
  ASSUME NEW S, NEW s \in Seq(S), NEW f \in S
  PROVE  Append(s, f) \in Seq(S) /\ Pushed(s, Append(s, f), f)
BY AlikeSame DEF Pushed

LEMMA SubSeqPops ==
  ASSUME NEW S, NEW s \in Seq(S), s # <<>>
  PROVE  SubSeq(s, 1, Len(s) - 1) \in Seq(S) /\ Popped(s, SubSeq(s, 1, Len(s) - 1))
<1>1. Len(s) \in Nat \ {0} OBVIOUS
<1>2. /\ SubSeq(s, 1, Len(s) - 1) \in Seq(S)
      /\ Len(SubSeq(s, 1, Len(s) - 1)) = Len(s) - 1
      /\ \A i \in 1..(Len(s) - 1) : SubSeq(s, 1, Len(s) - 1)[i] = s[i]
  <2> DEFINE n == Len(s) - 1
  <2>1. n \in Nat /\ \A i \in 1..n : s[i] \in S BY <1>1
  <2> HIDE DEF n
  <2>2. /\ SubSeq(s, 1, n) \in Seq(S)
        /\ Len(SubSeq(s, 1, n)) = IF 1 <= n THEN n - 1 + 1 ELSE 0
        /\ \A i \in 1..(n - 1 + 1) : SubSeq(s, 1, n)[i] = s[1 + i - 1]
    BY <2>1, SubSeqProperties
  <2>3. /\ Len(SubSeq(s, 1, n)) = n
        /\ \A i \in 1..n : SubSeq(s, 1, n)[i] = s[i]
    BY <2>1, <2>2
  <2> QED BY <2>2, <2>3 DEF n
<1> QED BY <1>1, <1>2, AlikeSame DEF Popped

LEMMA AlikeTrans == \A f, g, h : Alike(f, g) /\ Alike(g, h) => Alike(f, h)
BY DEF Alike

\* A frame's kind says which fields it has.
LEMMA FrameOfKind ==
  ASSUME NEW f \in Frames
  PROVE  /\ f.kind \in {"call", "reserve", "worker", "replicates"}
         /\ f.kind = "call" => f \in CallFrames
         /\ f.kind = "reserve" => f \in ReserveFrames
         /\ f.kind = "worker" => f \in WorkerFrames
         /\ f.kind = "replicates" => f \in JobFrames
BY DEF Frames, CallFrames, ReserveFrames, WorkerFrames, JobFrames

\* The top frame and what is under it.
LEMMA TopFrame ==
  ASSUME NEW t \in Threads, stack \in [Threads -> Seq(Frames)], stack[t] # <<>>
  PROVE  /\ Len(stack[t]) \in Nat \ {0}
         /\ Top(t) \in Frames /\ Top(t) = stack[t][Len(stack[t])]
         /\ Below(t) \in Seq(Frames) /\ Popped(stack[t], Below(t))
<1>1. stack[t] \in Seq(Frames) OBVIOUS
<1> QED BY <1>1, SubSeqPops DEF Top, Below

-----------------------------------------------------------------------------
(* Allocations and tables of claims. *)

LEMMA Constants ==
  /\ Cpu \in Nat \ {0} /\ Budget \in Nat \ {0} /\ OwnerPolicy \in Policies
  /\ AutoPolicy \in Policies /\ Callers \cap Pool = {} /\ NoThread \notin Threads
  /\ Requests \subseteq Nat /\ Estimates \subseteq Nat /\ MaxSeeds \in Nat
  /\ OwnerUsers \subseteq Threads /\ Floor = 1 /\ DefaultBlas = Cpu
BY SchedulerAssumption DEF Policies, AutoPolicy, Floor, DefaultBlas, Threads

LEMMA TableOf ==
  ASSUME NEW c \in Tables
  PROVE  IsTable(c) /\ DOMAIN c \subseteq Keys
BY DEF Tables, IsTable

LEMMA TableIn ==
  ASSUME NEW K \in SUBSET Keys, IsFiniteSet(K), NEW c \in [K -> Nat]
  PROVE  c \in Tables
BY DEF Tables

LEMMA CapOf ==
  ASSUME NEW al \in Allocs
  PROVE  /\ Cap(al) \in Amounts
         /\ \E i \in 1..Len(al.caps) : Cap(al) = al.caps[i]
         /\ \A i \in 1..Len(al.caps) : Cap(al) <= al.caps[i]
<1>1. al.caps \in Seq(Amounts) /\ Len(al.caps) \in Nat \ {0} BY DEF Allocs
<1>2. /\ Range(al.caps) \in SUBSET Nat /\ Range(al.caps) # {} /\ Range(al.caps) \subseteq Amounts
      /\ \A i \in 1..Len(al.caps) : al.caps[i] \in Range(al.caps)
      /\ \A x \in Range(al.caps) : \E i \in 1..Len(al.caps) : x = al.caps[i]
  <2>1. DOMAIN al.caps = 1..Len(al.caps) /\ \A i \in 1..Len(al.caps) : al.caps[i] \in Amounts
    BY <1>1
  <2>2. Amounts \subseteq Nat BY Constants DEF Amounts
  <2>3. 1 \in 1..Len(al.caps) BY <1>1
  <2> QED BY <2>1, <2>2, <2>3 DEF Range
<1>3. \E m \in Range(al.caps) : \A n \in Range(al.caps) : m <= n
  BY <1>2, LeastOf
<1>4. Cap(al) \in Range(al.caps) /\ \A n \in Range(al.caps) : Cap(al) <= n
  BY <1>3 DEF Cap, Min
<1> QED BY <1>2, <1>4

LEMMA LastCap ==
  ASSUME NEW al \in Allocs
  PROVE  /\ Len(al.caps) \in Nat \ {0}
         /\ al.caps[Len(al.caps)] \in Amounts
         /\ Cap(al) <= al.caps[Len(al.caps)]
BY CapOf DEF Allocs

\* A longer list of budgets bounds at least as much.
LEMMA CapShrinks ==
  ASSUME NEW al \in Allocs, NEW be \in Allocs, NEW x \in Amounts, be.caps = Append(al.caps, x)
  PROVE  Cap(be) <= Cap(al) /\ Cap(be) <= x /\ be.caps[Len(be.caps)] = x
<1>1. /\ Len(be.caps) = Len(al.caps) + 1 /\ Len(al.caps) \in Nat
      /\ be.caps[Len(al.caps) + 1] = x
      /\ \A i \in 1..Len(al.caps) : be.caps[i] = al.caps[i]
  BY DEF Allocs
<1>2. PICK i \in 1..Len(al.caps) : Cap(al) = al.caps[i] BY CapOf
<1>3. Cap(be) <= be.caps[i] /\ Cap(be) <= be.caps[Len(al.caps) + 1]
  <2>1. i \in 1..Len(be.caps) /\ Len(al.caps) + 1 \in 1..Len(be.caps) BY <1>1
  <2> QED BY <2>1, CapOf
<1> QED BY <1>1, <1>2, <1>3

LEMMA NestedAlloc ==
  ASSUME NEW al \in Allocs, NEW p \in Policies
  PROVE  /\ Nested(al, p) \in Allocs /\ Nested(al, p).root = al.root
         /\ \E x \in Amounts : Nested(al, p).caps = Append(al.caps, x)
                               /\ x <= al.caps[Len(al.caps)]
         /\ Nested(al, p).cpu <= al.cpu
<1> DEFINE b == al.caps[Len(al.caps)]
           x == IF p.memory = 0 THEN b ELSE Least(p.memory, b)
           c == Least(al.cpu, RootCpu(p))
<1>1. b \in Amounts BY LastCap
<1>2. p.memory \in Amounts /\ p.threads \in 0..Cpu BY DEF Policies, Amounts
<1>3. x \in Amounts /\ x <= b BY <1>1, <1>2, Constants DEF Least, Amounts
<1>4. c \in 0..Cpu /\ c <= al.cpu BY <1>2, Constants DEF Least, RootCpu, Allocs
<1>5. Nested(al, p) = [al EXCEPT !.caps = Append(@, x), !.cpu = c] BY DEF Nested
<1>6. Append(al.caps, x) \in Seq(Amounts) \ {<<>>} BY <1>3 DEF Allocs
<1> HIDE DEF x, c
<1>7. /\ Nested(al, p) \in Allocs /\ Nested(al, p).root = al.root
      /\ Nested(al, p).caps = Append(al.caps, x) /\ Nested(al, p).cpu = c
  BY <1>4, <1>5, <1>6 DEF Allocs
<1> QED BY <1>3, <1>4, <1>7 DEF b

LEMMA ResolvedPolicy ==
  ASSUME NEW al \in Allocs
  PROVE  Resolved(al) \in Policies
<1>1. al.cpu \in 0..Cpu /\ al.caps[Len(al.caps)] \in 0..(2 * Budget)
  BY LastCap DEF Allocs, Amounts
<1> QED BY <1>1 DEF Resolved, Policies

LEMMA ChildAlloc ==
  ASSUME NEW al \in Allocs, NEW k \in 1..Cpu
  PROVE  /\ Child(al, k) \in Allocs /\ Child(al, k).root = al.root
         /\ \E x \in Amounts : Child(al, k).caps = Append(al.caps, x)
                               /\ x = al.caps[Len(al.caps)] \div k
<1> DEFINE b == al.caps[Len(al.caps)]
           x == b \div k
           c == Most(1, al.cpu \div k)
<1>1. b \in Amounts BY LastCap
<1>2. x \in Amounts BY <1>1, Constants DEF Amounts
<1>3. c \in 0..Cpu BY Constants DEF Most, Allocs
<1>4. Child(al, k) = [al EXCEPT !.caps = Append(@, x), !.cpu = c] BY DEF Child, Allocs
<1>5. Append(al.caps, x) \in Seq(Amounts) \ {<<>>} BY <1>2 DEF Allocs
<1> HIDE DEF x, c
<1>6. /\ Child(al, k) \in Allocs /\ Child(al, k).root = al.root
      /\ Child(al, k).caps = Append(al.caps, x)
  BY <1>3, <1>4, <1>5 DEF Allocs
<1> QED BY <1>2, <1>6 DEF x, b

-----------------------------------------------------------------------------
(* The shape of the stacks, and who holds the lock. *)

\* Of the stack s of thread t, whose allocation is al, while h holds the lock and
\* so many root calls were made.
Shape(t, s, al, h, roots) ==
  /\ s = <<>> => al = NoAlloc
  /\ s # <<>> =>
       /\ al.root \in 1..roots
       /\ s[1].kind \in {"call", "worker"} /\ s[1].prev = NoAlloc
       /\ IF s[1].kind = "call" THEN h = t /\ t \in Callers ELSE t \in Pool
  /\ \A a \in 2..Len(s) : s[a].kind \in {"call", "worker", "replicates"} =>
                             s[a].prev.root = al.root
  /\ \A a \in 1..Len(s) : s[a].kind = "replicates" =>
                             /\ s[a].child.root = al.root
                             /\ a < Len(s) => s[a + 1].kind = "worker"
Shapes ==
  /\ lock # NoThread => stack[lock] # <<>> /\ stack[lock][1].kind = "call"
  /\ \A t \in Threads : Shape(t, stack[t], current[t], lock, Len(envelope))

\* A step moves one thread: it opens a scope f, or closes its innermost one.
Stays(t) == /\ \A u \in Threads \ {t} : Kept(stack[u], stack'[u])
            /\ \A u \in Threads \ {t} : current'[u] = current[u] /\ chain'[u] = chain[u]
Pushes(t, f) == Pushed(stack[t], stack'[t], f) /\ Stays(t)
Pops(t) == Popped(stack[t], stack'[t]) /\ Stays(t)

LEMMA KeptSame == \A s : Kept(s, s)
BY AlikeSame DEF Kept

LEMMA SharedPart ==
  ASSUME NEW t, NEW s \in Seq(Frames), NEW z \in Seq(Frames), NEW al, NEW h, NEW roots,
         Shape(t, s, al, h, roots), Kept(s, z)
  PROVE  Shape(t, z, al, h, roots)
<1>1. Len(s) = Len(z) /\ \A i \in 1..Len(s) : Alike(s[i], z[i]) BY DEF Kept
<1>2. s = <<>> <=> z = <<>> BY <1>1
<1>3. \A i \in 1..Len(s) :
        /\ z[i].kind = s[i].kind
        /\ s[i].kind \in {"call", "worker", "replicates"} => z[i].prev = s[i].prev
        /\ s[i].kind = "replicates" => z[i].child = s[i].child
  BY <1>1 DEF Alike
<1>4. Len(s) \in Nat /\ (s # <<>> => 1 \in 1..Len(s)) OBVIOUS
<1> QED BY <1>1, <1>2, <1>3, <1>4 DEF Shape

\* Opening a scope keeps the shape.
LEMMA PushShape ==
  ASSUME NEW t, NEW s \in Seq(Frames), NEW z \in Seq(Frames), NEW al, NEW h, NEW roots, NEW be,
         NEW f \in Frames, Shape(t, s, al, h, roots), Pushed(s, z, f), s # <<>>, be.root = al.root,
         f.kind \in {"call", "worker", "replicates"} => f.prev = al,
         f.kind = "replicates" => f.child.root = al.root,
         s[Len(s)].kind = "replicates" <=> f.kind = "worker"
  PROVE  Shape(t, z, be, h, roots)
<1> DEFINE n == Len(s)
<1>1. n \in Nat \ {0} /\ Len(z) = n + 1 /\ z[n + 1] = f
      /\ \A i \in 1..n : Alike(s[i], z[i])
  BY DEF Pushed
<1>2. \A i \in 1..n :
        /\ z[i].kind = s[i].kind
        /\ s[i].kind \in {"call", "worker", "replicates"} => z[i].prev = s[i].prev
        /\ s[i].kind = "replicates" => z[i].child = s[i].child
  BY <1>1 DEF Alike
<1>3. z # <<>> /\ 1 \in 1..n BY <1>1
<1>4. \A a \in 2..(n + 1) : z[a].kind \in {"call", "worker", "replicates"} =>
                             z[a].prev.root = be.root
  BY <1>1, <1>2 DEF Shape
<1>5. \A a \in 1..(n + 1) : z[a].kind = "replicates" =>
                             /\ z[a].child.root = be.root
                             /\ a < n + 1 => z[a + 1].kind = "worker"
  <2> TAKE a \in 1..(n + 1)
  <2>1. CASE a = n + 1 BY <2>1, <1>1
  <2>2. CASE a = n BY <2>2, <1>1, <1>2 DEF Shape
  <2>3. CASE a < n
    <3>1. a \in 1..n /\ a + 1 \in 1..n BY <1>1, <2>3
    <3> QED BY <3>1, <1>2, <2>3 DEF Shape
  <2> QED BY <1>1, <2>1, <2>2, <2>3
<1>6. /\ be.root \in 1..roots
      /\ z[1].kind \in {"call", "worker"} /\ z[1].prev = NoAlloc
      /\ IF z[1].kind = "call" THEN h = t /\ t \in Callers ELSE t \in Pool
  BY <1>2, <1>3 DEF Shape
<1> HIDE DEF n
<1> QED BY <1>1, <1>3, <1>4, <1>5, <1>6 DEF Shape

\* Closing one keeps it: the allocation is again the one from before.
LEMMA PopShape ==
  ASSUME NEW t, NEW s \in Seq(Frames), NEW z \in Seq(Frames), NEW al, NEW h, NEW roots, NEW be,
         Shape(t, s, al, h, roots), Popped(s, z),
         be = IF s[Len(s)].kind = "reserve" THEN al ELSE s[Len(s)].prev
  PROVE  Shape(t, z, be, h, roots)
<1> DEFINE n == Len(s)
<1>1. n \in Nat \ {0} /\ Len(z) = n - 1 /\ \A i \in 1..(n - 1) : Alike(s[i], z[i])
  BY DEF Popped
<1>2. \A i \in 1..(n - 1) :
        /\ z[i].kind = s[i].kind
        /\ s[i].kind \in {"call", "worker", "replicates"} => z[i].prev = s[i].prev
        /\ s[i].kind = "replicates" => z[i].child = s[i].child
  BY <1>1 DEF Alike
<1>3. s[n] \in Frames BY <1>1
<1>4. s[n].kind \in {"call", "reserve", "worker", "replicates"} BY <1>3, FrameOfKind
<1>5. CASE n = 1
  <2>1. z = <<>> BY <1>1, <1>5
  <2>2. be = NoAlloc BY <1>1, <1>5 DEF Shape
  <2> QED BY <2>1, <2>2, <1>1, <1>5 DEF Shape
<1>6. CASE n > 1
  <2>1. be.root = al.root BY <1>1, <1>4, <1>6 DEF Shape
  <2>2. z # <<>> /\ 1 \in 1..(n - 1) BY <1>1, <1>6
  <2>3. /\ be.root \in 1..roots
        /\ z[1].kind \in {"call", "worker"} /\ z[1].prev = NoAlloc
        /\ IF z[1].kind = "call" THEN h = t /\ t \in Callers ELSE t \in Pool
    BY <1>1, <1>2, <2>1, <2>2 DEF Shape
  <2>4. \A a \in 2..(n - 1) : z[a].kind \in {"call", "worker", "replicates"} =>
                             z[a].prev.root = be.root
    BY <1>1, <1>2, <2>1 DEF Shape
  <2>5. \A a \in 1..(n - 1) : z[a].kind = "replicates" =>
                             /\ z[a].child.root = be.root
                             /\ a < n - 1 => z[a + 1].kind = "worker"
    <3> TAKE a \in 1..(n - 1)
    <3>1. a \in 1..n /\ (a < n - 1 => a + 1 \in 1..(n - 1)) BY <1>1
    <3> QED BY <3>1, <1>2, <2>1 DEF Shape
  <2> HIDE DEF n
  <2> QED BY <1>1, <2>2, <2>3, <2>4, <2>5 DEF Shape
<1> QED BY <1>1, <1>5, <1>6

-----------------------------------------------------------------------------
(* What each action moves. *)

LEMMA TypedStep ==
  ASSUME Typed, NEW t \in Threads, NEW s \in Seq(Frames), NEW al \in Allocs,
         NEW ch \in SUBSET Keys
  PROVE  /\ [stack EXCEPT ![t] = s] \in [Threads -> Seq(Frames)]
         /\ [current EXCEPT ![t] = al] \in [Threads -> Allocs]
         /\ [chain EXCEPT ![t] = ch] \in [Threads -> SUBSET Keys]
BY DEF Typed

LEMMA StaysOne ==
  ASSUME NEW t \in Threads,
         \A u \in Threads \ {t} : stack'[u] = stack[u] /\ current'[u] = current[u] /\ chain'[u] = chain[u]
  PROVE  Stays(t)
BY KeptSame DEF Stays

LEMMA OpsTyped ==
  ASSUME Typed, NEW t \in Threads, Open(t)
  PROVE  ops' \in [Threads -> Nat]
BY DEF Typed, Open

LEMMA Callable == Callers \subseteq Threads /\ Pool \subseteq Threads
BY DEF Threads

LEMMA EnterRootMoves ==
  ASSUME Typed, NEW t \in Threads, EnterRoot(t)
  PROVE  /\ Typed'
         /\ t \in Callers /\ stack[t] = <<>> /\ lock = NoThread /\ lock' = t
         /\ Len(envelope') = Len(envelope) + 1 /\ Len(ledger') = Len(ledger) + 1
         /\ \A r \in 1..Len(envelope) : envelope'[r] = envelope[r] /\ ledger'[r] = ledger[r]
         /\ ledger'[Len(envelope) + 1] = <<>>
         /\ current'[t].root = Len(envelope) + 1 /\ chain' = chain /\ jobs' = jobs
         /\ current'[t].caps = <<envelope'[Len(envelope) + 1].budget>>
         /\ \E f \in CallFrames :
              /\ Pushes(t, f) /\ f.prev = NoAlloc /\ f.saved = policy /\ f.blas = blas
              /\ f.onOwner => t \in OwnerUsers
              /\ ~f.onOwner => policy' = policy
<1>1. PICK onOwner \in BOOLEAN, h \in Floor..Budget, relaxed \in BOOLEAN :
       LET p == IF onOwner THEN policy ELSE AutoPolicy
           b == RootBudget(p, h, relaxed)
           r == Len(envelope) + 1
           al == [root |-> r, caps |-> <<b>>, cpu |-> RootCpu(p)]
       IN /\ onOwner => t \in OwnerUsers
          /\ b >= Floor
          /\ envelope' = Append(envelope, [budget |-> b, cpu |-> al.cpu])
          /\ current' = [current EXCEPT ![t] = al]
          /\ policy' = IF onOwner THEN Resolved(al) ELSE policy
          /\ blas' = al.cpu
          /\ Push(t, [kind |-> "call", prev |-> NoAlloc, onOwner |-> onOwner,
                      saved |-> policy, blas |-> blas])
  <2>1. PICK onOwner \in (IF t \in OwnerUsers THEN BOOLEAN ELSE {FALSE}),
        h \in Floor..Budget, relaxed \in BOOLEAN :
       LET p == IF onOwner THEN policy ELSE AutoPolicy
           b == RootBudget(p, h, relaxed)
           r == Len(envelope) + 1
           al == [root |-> r, caps |-> <<b>>, cpu |-> RootCpu(p)]
       IN /\ b >= Floor
          /\ envelope' = Append(envelope, [budget |-> b, cpu |-> al.cpu])
          /\ current' = [current EXCEPT ![t] = al]
          /\ policy' = IF onOwner THEN Resolved(al) ELSE policy
          /\ blas' = al.cpu
          /\ Push(t, [kind |-> "call", prev |-> NoAlloc, onOwner |-> onOwner,
                      saved |-> policy, blas |-> blas])
    BY DEF EnterRoot
  <2>2. onOwner \in BOOLEAN /\ (onOwner => t \in OwnerUsers) BY <2>1
  <2> QED BY <2>1, <2>2
<1> DEFINE p == IF onOwner THEN policy ELSE AutoPolicy
           b == RootBudget(p, h, relaxed)
           r == Len(envelope) + 1
           c == RootCpu(p)
           al == [root |-> r, caps |-> <<b>>, cpu |-> c]
           f == [kind |-> "call", prev |-> NoAlloc, onOwner |-> onOwner,
                 saved |-> policy, blas |-> blas]
<1>2. /\ onOwner => t \in OwnerUsers
      /\ envelope' = Append(envelope, [budget |-> b, cpu |-> c])
      /\ current' = [current EXCEPT ![t] = al]
      /\ policy' = IF onOwner THEN Resolved(al) ELSE policy
      /\ blas' = c
      /\ stack' = [stack EXCEPT ![t] = Append(@, f)]
  BY <1>1 DEF Push
<1>3. p \in Policies BY Constants DEF Typed
<1>4. p.memory \in Amounts /\ p.threads \in 0..Cpu BY <1>3 DEF Policies, Amounts
<1>5. b \in Amounts BY <1>4, Constants DEF RootBudget, Least, Amounts
<1>6. c \in 1..Cpu BY <1>4, Constants DEF RootCpu, Least
<1>7. r \in Nat \ {0} /\ envelope \in Seq([budget : Amounts, cpu : 1..Cpu])
      /\ ledger \in Seq(Tables) /\ Len(ledger) = Len(envelope)
  BY DEF Typed
<1>8. NoAlloc \in Allocs
  <2>1. <<0>> \in Seq(Amounts) \ {<<>>} BY Constants DEF Amounts
  <2> QED BY <2>1, Constants DEF NoAlloc, Allocs
<1> HIDE DEF p, b, c, r
<1>9. al \in Allocs /\ al.root = r /\ al.caps = <<b>>
  <2>1. <<b>> \in Seq(Amounts) \ {<<>>} BY <1>5
  <2> QED BY <2>1, <1>6, <1>7 DEF Allocs
<1>10. f \in CallFrames /\ f.prev = NoAlloc /\ f.saved = policy /\ f.blas = blas /\ f.onOwner = onOwner
  BY <1>8, <1>1 DEF CallFrames, Typed
<1>11. f \in Frames BY <1>10 DEF Frames
<1> HIDE DEF al, f
<1>12. stack \in [Threads -> Seq(Frames)] /\ current \in [Threads -> Allocs] BY DEF Typed
<1>13. Pushes(t, f)
  <2>1. stack'[t] = Append(stack[t], f) BY <1>2, <1>12
  <2>2. Pushed(stack[t], stack'[t], f) BY <2>1, <1>11, <1>12, AppendPushes
  <2>3. \A u \in Threads \ {t} : stack'[u] = stack[u] /\ current'[u] = current[u] /\ chain'[u] = chain[u]
    BY <1>2, <1>12 DEF EnterRoot
  <2> QED BY <2>2, <2>3, StaysOne DEF Pushes
<1>14. <<>> \in Tables
  <2>1. DOMAIN <<>> = {} OBVIOUS
  <2>2. <<>> \in [{} -> Nat] BY <2>1
  <2>3. IsFiniteSet({}) BY FS_EmptySet
  <2> QED BY <2>2, <2>3, TableIn
<1>15. [budget |-> b, cpu |-> c] \in [budget : Amounts, cpu : 1..Cpu] BY <1>5, <1>6
<1>16. /\ envelope' \in Seq([budget : Amounts, cpu : 1..Cpu])
       /\ Len(envelope') = Len(envelope) + 1
       /\ \A i \in 1..Len(envelope) : envelope'[i] = envelope[i]
       /\ envelope'[Len(envelope) + 1].budget = b
  BY <1>2, <1>7, <1>15, AppendProperties
<1>17. /\ ledger' \in Seq(Tables) /\ Len(ledger') = Len(ledger) + 1
       /\ \A i \in 1..Len(ledger) : ledger'[i] = ledger[i]
       /\ ledger'[Len(ledger) + 1] = <<>>
  BY <1>7, <1>14, AppendProperties DEF EnterRoot
<1>18. policy' \in Policies BY <1>2, <1>9, ResolvedPolicy DEF Typed
<1>19. Append(stack[t], f) \in Seq(Frames) BY <1>11, <1>12, AppendPushes
<1>20. stack' \in [Threads -> Seq(Frames)] /\ current' \in [Threads -> Allocs]
  BY <1>2, <1>9, <1>12, <1>19
<1>21. Typed'
  BY <1>2, <1>6, <1>7, <1>16, <1>17, <1>18, <1>20, OpsTyped DEF Typed, EnterRoot
<1>22. current'[t] = al BY <1>2, <1>12
<1>23. /\ t \in Callers /\ stack[t] = <<>> /\ lock = NoThread /\ lock' = t
       /\ chain' = chain /\ jobs' = jobs
  BY DEF EnterRoot
<1>24. ~onOwner => policy' = policy BY <1>2
<1> QED BY <1>2, <1>7, <1>9, <1>10, <1>13, <1>16, <1>17, <1>21, <1>22, <1>23, <1>24 DEF r

\* be is al with one more budget, no larger than al's last one.
Narrowed(be, al) ==
  /\ be \in Allocs /\ be.root = al.root
  /\ \E x \in Amounts : be.caps = Append(al.caps, x) /\ x <= al.caps[Len(al.caps)]

LEMMA WorkingTop ==
  ASSUME NEW t \in Threads, Working(t)
  PROVE  stack[t] # <<>> /\ Top(t).kind \in {"call", "reserve", "worker"}
BY DEF Working, TopIs

LEMMA EnterNestedMoves ==
  ASSUME Typed, NEW t \in Threads, EnterNested(t)
  PROVE  /\ Typed' /\ Working(t)
         /\ UNCHANGED <<lock, envelope, ledger, chain, blas, jobs>>
         /\ Narrowed(current'[t], current[t])
         /\ \E f \in CallFrames :
              /\ Pushes(t, f) /\ f.prev = current[t] /\ f.saved = policy /\ f.blas = blas
              /\ f.onOwner => t \in OwnerUsers
              /\ ~f.onOwner => policy' = policy
<1>1. PICK onOwner \in BOOLEAN :
       LET al == Nested(current[t], IF onOwner THEN policy ELSE AutoPolicy)
       IN /\ onOwner => t \in OwnerUsers
          /\ current' = [current EXCEPT ![t] = al]
          /\ policy' = IF onOwner THEN Resolved(al) ELSE policy
          /\ Push(t, [kind |-> "call", prev |-> current[t], onOwner |-> onOwner,
                      saved |-> policy, blas |-> blas])
  <2>1. PICK onOwner \in (IF t \in OwnerUsers THEN BOOLEAN ELSE {FALSE}) :
       LET al == Nested(current[t], IF onOwner THEN policy ELSE AutoPolicy)
       IN /\ current' = [current EXCEPT ![t] = al]
          /\ policy' = IF onOwner THEN Resolved(al) ELSE policy
          /\ Push(t, [kind |-> "call", prev |-> current[t], onOwner |-> onOwner,
                      saved |-> policy, blas |-> blas])
    BY DEF EnterNested
  <2>2. onOwner \in BOOLEAN /\ (onOwner => t \in OwnerUsers) BY <2>1
  <2> QED BY <2>1, <2>2
<1> DEFINE p == IF onOwner THEN policy ELSE AutoPolicy
           al == Nested(current[t], p)
           f == [kind |-> "call", prev |-> current[t], onOwner |-> onOwner,
                 saved |-> policy, blas |-> blas]
<1>2. /\ onOwner => t \in OwnerUsers
      /\ current' = [current EXCEPT ![t] = al]
      /\ policy' = IF onOwner THEN Resolved(al) ELSE policy
      /\ stack' = [stack EXCEPT ![t] = Append(@, f)]
  BY <1>1 DEF Push
<1>3. p \in Policies BY Constants DEF Typed
<1>4. current[t] \in Allocs BY DEF Typed
<1> HIDE DEF p
<1>5. Narrowed(al, current[t]) BY <1>3, <1>4, NestedAlloc DEF Narrowed
<1>6. al \in Allocs BY <1>5 DEF Narrowed
<1>7. f \in CallFrames /\ f.prev = current[t] /\ f.saved = policy /\ f.blas = blas
      /\ f.onOwner = onOwner
  BY <1>4, <1>1 DEF CallFrames, Typed
<1>8. f \in Frames BY <1>7 DEF Frames
<1> HIDE DEF al, f
<1>9. stack \in [Threads -> Seq(Frames)] /\ current \in [Threads -> Allocs] BY DEF Typed
<1>10. Pushes(t, f)
  <2>1. stack'[t] = Append(stack[t], f) BY <1>2, <1>9
  <2>2. Pushed(stack[t], stack'[t], f) BY <2>1, <1>8, <1>9, AppendPushes
  <2>3. \A u \in Threads \ {t} : stack'[u] = stack[u] /\ current'[u] = current[u] /\ chain'[u] = chain[u]
    BY <1>2, <1>9 DEF EnterNested
  <2> QED BY <2>2, <2>3, StaysOne DEF Pushes
<1>11. policy' \in Policies BY <1>2, <1>6, ResolvedPolicy DEF Typed
<1>12. Append(stack[t], f) \in Seq(Frames) BY <1>8, <1>9, AppendPushes
<1>13. stack' \in [Threads -> Seq(Frames)] /\ current' \in [Threads -> Allocs]
  BY <1>2, <1>6, <1>9, <1>12
<1>14. Typed'
  BY <1>11, <1>13, OpsTyped DEF Typed, EnterNested
<1>15. current'[t] = al BY <1>2, <1>9
<1>16. ~onOwner => policy' = policy BY <1>2
<1> QED BY <1>2, <1>5, <1>7, <1>10, <1>14, <1>15, <1>16 DEF EnterNested

LEMMA ExitCallMoves ==
  ASSUME Typed, NEW t \in Threads, ExitCall(t)
  PROVE  /\ Typed' /\ Pops(t)
         /\ UNCHANGED <<envelope, ledger, chain, jobs>>
         /\ \E f \in CallFrames :
              /\ f = stack[t][Len(stack[t])]
              /\ current'[t] = f.prev
              /\ policy' = IF f.onOwner THEN f.saved ELSE policy
              /\ blas' = IF f.prev = NoAlloc THEN f.blas ELSE blas
              /\ lock' = IF f.prev = NoAlloc THEN NoThread ELSE lock
<1> DEFINE f == Top(t)
<1>1. /\ stack[t] # <<>> /\ f.kind = "call"
      /\ stack' = [stack EXCEPT ![t] = Below(t)]
      /\ current' = [current EXCEPT ![t] = f.prev]
  BY DEF ExitCall, TopIs
<1>2. stack \in [Threads -> Seq(Frames)] /\ current \in [Threads -> Allocs] BY DEF Typed
<1>3. f \in Frames /\ f = stack[t][Len(stack[t])] BY <1>1, <1>2, TopFrame
<1>4. f \in CallFrames BY <1>1, <1>3, FrameOfKind
<1>5. Below(t) \in Seq(Frames) /\ Popped(stack[t], Below(t)) BY <1>1, <1>2, TopFrame
<1>6. f.prev \in Allocs /\ f.saved \in Policies /\ f.blas \in 1..Cpu BY <1>4 DEF CallFrames
<1>7. /\ policy' = IF f.onOwner THEN f.saved ELSE policy
      /\ blas' = IF f.prev = NoAlloc THEN f.blas ELSE blas
      /\ lock' = IF f.prev = NoAlloc THEN NoThread ELSE lock
  BY DEF ExitCall, Restored, BlasAfter, LockAfter
<1> HIDE DEF f
<1>8. Pops(t)
  <2>1. stack'[t] = Below(t) BY <1>1, <1>2
  <2>2. \A u \in Threads \ {t} : stack'[u] = stack[u] /\ current'[u] = current[u] /\ chain'[u] = chain[u]
    BY <1>1, <1>2 DEF ExitCall
  <2> QED BY <2>1, <2>2, <1>5, StaysOne DEF Pops
<1>9. stack' \in [Threads -> Seq(Frames)] /\ current' \in [Threads -> Allocs]
  BY <1>1, <1>2, <1>5, <1>6
<1>10. Typed' BY <1>6, <1>7, <1>9 DEF Typed, ExitCall
<1>11. current'[t] = f.prev BY <1>1, <1>2
<1> QED BY <1>3, <1>4, <1>7, <1>8, <1>10, <1>11 DEF ExitCall

LEMMA NearestIn ==
  ASSUME NEW K \in SUBSET Keys, IsFiniteSet(K), K # {}
  PROVE  Nearest(K) \in K /\ \A k \in K : k[2] <= Nearest(K)[2]
<1> DEFINE Missing == {n \in Nat : \E J \in SUBSET K : J # {} /\ Cardinality(J) = n
                                   /\ ~\E k \in J : \A o \in J : o[2] <= k[2]}
<1>1. \A J \in SUBSET K : IsFiniteSet(J) /\ Cardinality(J) \in Nat
  BY FS_Subset, FS_CardinalityType
<1>2. \A J \in SUBSET K : \A x \in J : Cardinality(J \ {x}) = Cardinality(J) - 1
  BY <1>1, FS_RemoveElement
<1>3. \A k \in K : k[2] \in Nat BY DEF Keys
<1>4. Missing = {}
  <2> SUFFICES ASSUME Missing # {} PROVE FALSE OBVIOUS
  <2>1. PICK m \in Missing : \A n \in Missing : m <= n BY LeastOf
  <2>2. PICK J \in SUBSET K : J # {} /\ Cardinality(J) = m /\ ~\E k \in J : \A o \in J : o[2] <= k[2]
    BY <2>1
  <2>3. PICK x \in J : TRUE BY <2>2
  <2>4. Cardinality(J \ {x}) = m - 1 BY <1>2, <2>2
  <2>5. m - 1 \in Nat BY <1>1, <2>4
  <2>6. m - 1 \notin Missing BY <2>1, <2>5
  <2>7. CASE J \ {x} = {} BY <2>7, <2>2, <2>3, <1>3
  <2>8. CASE J \ {x} # {}
    <3>1. PICK k \in J \ {x} : \A o \in J \ {x} : o[2] <= k[2] BY <2>4, <2>5, <2>6, <2>8
    <3>2. k[2] \in Nat /\ x[2] \in Nat BY <1>3
    <3>3. \A o \in J : o[2] \in Nat BY <1>3
    <3> QED BY <2>2, <3>1, <3>2, <3>3
  <2> QED BY <2>7, <2>8
<1>5. \E k \in K : \A o \in K : o[2] <= k[2] BY <1>1, <1>4
<1> QED BY <1>5 DEF Nearest

LEMMA RootOf ==
  ASSUME Typed, Shapes, NEW t \in Threads, stack[t] # <<>>
  PROVE  /\ current[t] \in Allocs /\ current[t].root \in 1..Len(ledger)
         /\ ledger[current[t].root] \in Tables
         /\ envelope[current[t].root].budget \in Amounts
         /\ envelope[current[t].root].cpu \in 1..Cpu
<1>1. current[t] \in Allocs BY DEF Typed
<1>2. current[t].root \in 1..Len(envelope) BY DEF Shapes, Shape
<1>3. envelope[current[t].root] \in [budget : Amounts, cpu : 1..Cpu]
  <2>1. envelope \in Seq([budget : Amounts, cpu : 1..Cpu]) BY DEF Typed
  <2> QED BY <1>2, <2>1, ElementOfSeq
<1> QED BY <1>1, <1>2, <1>3 DEF Typed

\* What the admission test promises about the claims of the call and of the slice.
LEMMA Admission ==
  ASSUME Typed, Shapes, NEW t \in Threads, stack[t] # <<>>, NEW al \in Allocs,
         al.root = current[t].root, NEW creditOwn \in BOOLEAN,
         NEW used \in RssGrowth, NEW live \in LiveHeadroom
  PROVE  /\ Available(t, al, creditOwn, used, live) \in Int
         /\ Claimed(ledger[al.root]) \in Nat /\ Own(t, ledger[al.root]) \in Nat
         /\ Own(t, ledger[al.root]) <= Claimed(ledger[al.root])
         /\ ~creditOwn =>
              /\ Available(t, al, creditOwn, used, live)
                   <= Most(0, envelope[al.root].budget - Claimed(ledger[al.root]))
              /\ Available(t, al, creditOwn, used, live)
                   <= Most(0, Cap(al) - Own(t, ledger[al.root]))
<1> DEFINE claims == ledger[al.root]
           all == Claimed(claims)
           own == Own(t, claims)
           budget == envelope[al.root].budget
           cap == Cap(al)
<1>1. claims \in Tables /\ budget \in Amounts BY RootOf
<1>2. IsTable(claims) BY <1>1, TableOf
<1>3. all \in Nat BY <1>2, ClaimedNat
<1>4. /\ chain[t] \cap DOMAIN claims \in SUBSET DOMAIN claims
      /\ own = Claimed(Restrict(claims, chain[t] \cap DOMAIN claims))
  BY DEF Own
<1>5. own \in Nat /\ own <= all BY <1>2, <1>4, ClaimedPart, ClaimedNat
<1>6. cap \in Nat /\ budget \in Nat BY <1>1, CapOf, Constants DEF Amounts
<1>7. used \in Nat /\ live \in Nat BY Constants DEF RssGrowth, LiveHeadroom
<1> DEFINE charged == IF creditOwn THEN all - own ELSE all
           local == IF creditOwn THEN cap ELSE Most(0, cap - own)
<1>8. Available(t, al, creditOwn, used, live)
        = Least(local, Least(Most(0, budget - used - charged), Most(0, live - charged)))
  BY DEF Available
<1> HIDE DEF claims, all, own, budget, cap
<1>9. charged \in Int /\ local \in Int BY <1>3, <1>5, <1>6 DEF Most
<1>10. /\ Least(local, Least(Most(0, budget - used - charged), Most(0, live - charged))) \in Int
       /\ Least(local, Least(Most(0, budget - used - charged), Most(0, live - charged))) <= local
       /\ Least(local, Least(Most(0, budget - used - charged), Most(0, live - charged)))
            <= Most(0, budget - used - charged)
  BY <1>6, <1>7, <1>9 DEF Least, Most
<1>11. ~creditOwn => charged = all /\ local = Most(0, cap - own) OBVIOUS
<1>12. ~creditOwn => Most(0, budget - used - charged) <= Most(0, budget - all)
  BY <1>3, <1>6, <1>7, <1>11 DEF Most
<1>13. Most(0, budget - used - charged) \in Int /\ Most(0, budget - all) \in Int
  BY <1>3, <1>6, <1>7, <1>9 DEF Most
<1> DEFINE av == Available(t, al, creditOwn, used, live)
<1>14. av \in Int /\ av <= local /\ av <= Most(0, budget - used - charged) BY <1>8, <1>10
<1> HIDE DEF av, charged, local
<1>15. ~creditOwn => av <= Most(0, budget - all) /\ av <= Most(0, cap - own)
  BY <1>9, <1>11, <1>12, <1>13, <1>14
<1> QED BY <1>3, <1>5, <1>14, <1>15 DEF av, all, own, budget, cap, claims

\* The ledgers of the other calls stay as they are.
OtherLedgers(r) ==
  /\ Len(ledger') = Len(ledger)
  /\ \A i \in 1..Len(ledger) : i # r => ledger'[i] = ledger[i]

LEMMA LedgerStep ==
  ASSUME Typed, NEW r \in 1..Len(ledger), NEW c \in Tables, ledger' = [ledger EXCEPT ![r] = c]
  PROVE  ledger' \in Seq(Tables) /\ OtherLedgers(r) /\ ledger'[r] = c
BY DEF Typed, OtherLedgers

\* An addition by t: one more claim of its root call r, within what admission allows.
Added(t, amount, r, key) ==
  /\ stack' \in [Threads -> Seq(Frames)] /\ ledger' \in Seq(Tables)
  /\ chain' \in [Threads -> SUBSET Keys]
  /\ OtherLedgers(r) /\ key \in Keys
  /\ DOMAIN ledger'[r] = DOMAIN ledger[r] \cup {key} /\ ledger'[r][key] = amount
  /\ \A k \in DOMAIN ledger[r] \ {key} : ledger'[r][k] = ledger[r][k]
  /\ chain'[t] = Known(t) \cup {key}
  /\ amount <= Most(0, envelope[r].budget - Claimed(ledger[r]))
  /\ amount <= Most(0, Cap(current[t]) - Own(t, ledger[r]))
  /\ \E f \in ReserveFrames :
       /\ Pushes(t, f) /\ f.key = key /\ ~f.reuse /\ f.previous = 0
       /\ f.prevChain = chain[t]

LEMMA AdditiveMoves ==
  ASSUME Typed, Shapes, NEW t \in Threads, stack[t] # <<>>, NEW amount \in Nat,
         NEW frames \in Seq(Frames), Kept(stack[t], frames), current' = current,
         ReserveAdditive(t, amount, frames),
         NEW r, r = current[t].root, NEW key, key = <<t, Len(stack[t]) + 1>>
  PROVE  Added(t, amount, r, key)
<1> DEFINE f == [kind |-> "reserve", key |-> key, reuse |-> FALSE, previous |-> 0,
                 prevChain |-> chain[t]]
           c == [k \in DOMAIN ledger[r] \cup {key} |-> IF k = key THEN amount ELSE ledger[r][k]]
<1>1. /\ Len(frames) = Len(stack[t]) /\ Len(stack[t]) \in Nat BY DEF Kept, Typed
<1>2. key \in Keys BY <1>1 DEF Keys
<1>3. /\ Admitted(t, current[t], amount, amount)
      /\ ledger' = [ledger EXCEPT ![r] = c]
      /\ chain' = [chain EXCEPT ![t] = Known(t) \cup {key}]
      /\ stack' = [stack EXCEPT ![t] = Append(frames, f)]
  <2>1. key = <<t, Len(frames) + 1>> BY <1>1
  <2>2. r \in 1..Len(ledger) /\ ledger \in Seq(Tables) BY RootOf DEF Typed
  <2> QED BY <2>1, <2>2 DEF ReserveAdditive
<1>4. r \in 1..Len(ledger) /\ ledger[r] \in Tables BY RootOf
<1>5. DOMAIN ledger[r] \subseteq Keys /\ IsFiniteSet(DOMAIN ledger[r])
      /\ \A k \in DOMAIN ledger[r] : ledger[r][k] \in Nat
  BY <1>4, TableOf DEF IsTable
<1>6. c \in Tables
  <2>1. IsFiniteSet(DOMAIN ledger[r] \cup {key}) BY <1>5, FS_AddElement
  <2>2. c \in [DOMAIN ledger[r] \cup {key} -> Nat] BY <1>5
  <2>3. DOMAIN ledger[r] \cup {key} \in SUBSET Keys BY <1>2, <1>5
  <2> HIDE DEF c
  <2> QED BY <2>1, <2>2, <2>3, TableIn
<1>7. /\ DOMAIN c = DOMAIN ledger[r] \cup {key} /\ c[key] = amount
      /\ \A k \in DOMAIN ledger[r] \ {key} : c[k] = ledger[r][k]
  OBVIOUS
<1>8. f \in ReserveFrames /\ f.key = key /\ ~f.reuse /\ f.previous = 0 /\ f.prevChain = chain[t]
  BY <1>2 DEF ReserveFrames, Typed
<1> HIDE DEF f, c
<1>9. f \in Frames BY <1>8 DEF Frames
<1>10. stack \in [Threads -> Seq(Frames)] /\ chain \in [Threads -> SUBSET Keys] BY DEF Typed
<1>11. Append(frames, f) \in Seq(Frames) /\ Pushed(frames, Append(frames, f), f)
  BY <1>9, AppendPushes
<1>12. Pushed(stack[t], Append(frames, f), f)
  <2>1. \A i \in 1..Len(stack[t]) : Alike(stack[t][i], Append(frames, f)[i])
    BY <1>1, <1>11, AlikeTrans DEF Kept, Pushed
  <2> QED BY <1>1, <1>11, <2>1 DEF Pushed
<1>13. Pushes(t, f)
  <2>1. stack'[t] = Append(frames, f) BY <1>3, <1>10
  <2>2. \A u \in Threads \ {t} : stack'[u] = stack[u] /\ current'[u] = current[u] /\ chain'[u] = chain[u]
    BY <1>3, <1>10
  <2> QED BY <2>1, <2>2, <1>12, StaysOne DEF Pushes
<1>14. Known(t) \cup {key} \in SUBSET Keys BY <1>2, <1>10 DEF Known
<1>15. /\ stack' \in [Threads -> Seq(Frames)]
       /\ chain' \in [Threads -> SUBSET Keys] /\ chain'[t] = Known(t) \cup {key}
  BY <1>3, <1>10, <1>11, <1>14
<1>16. ledger' \in Seq(Tables) /\ OtherLedgers(r) /\ ledger'[r] = c
  BY <1>3, <1>4, <1>6, LedgerStep
<1>17. PICK used \in RssGrowth, live \in LiveHeadroom :
          amount <= Available(t, current[t], FALSE, used, live)
  BY <1>3 DEF Admitted
<1> DEFINE av == Available(t, current[t], FALSE, used, live)
           room == Most(0, envelope[r].budget - Claimed(ledger[r]))
           local == Most(0, Cap(current[t]) - Own(t, ledger[r]))
<1>18. av \in Int /\ av <= room /\ av <= local /\ amount <= av
  BY <1>17, RootOf, Admission
<1>19. room \in Int /\ local \in Int
  <2>1. /\ Claimed(ledger[r]) \in Nat /\ Own(t, ledger[r]) \in Nat BY RootOf, Admission
  <2>2. /\ envelope[r].budget \in Nat /\ Cap(current[t]) \in Nat
    BY RootOf, CapOf, Constants DEF Amounts
  <2> QED BY <2>1, <2>2 DEF Most
<1> HIDE DEF av, room, local
<1>20. amount <= room /\ amount <= local BY <1>18, <1>19
<1> QED BY <1>2, <1>7, <1>8, <1>13, <1>15, <1>16, <1>20 DEF room, local, Added

\* An extension by t of its nearest claim.
Extended(t, amount, r, key) ==
  /\ stack' \in [Threads -> Seq(Frames)] /\ ledger' \in Seq(Tables)
  /\ chain' \in [Threads -> SUBSET Keys]
  /\ OtherLedgers(r) /\ key \in Known(t) /\ \A k \in Known(t) : k[2] <= key[2]
  /\ DOMAIN ledger'[r] = DOMAIN ledger[r]
  /\ ledger'[r][key] = Most(ledger[r][key], amount)
  /\ \A k \in DOMAIN ledger[r] \ {key} : ledger'[r][k] = ledger[r][k]
  /\ chain'[t] = Known(t)
  /\ Most(ledger[r][key], amount) - ledger[r][key]
       <= Most(0, envelope[r].budget - Claimed(ledger[r]))
  /\ Most(ledger[r][key], amount) - ledger[r][key]
       <= Most(0, Cap(current[t]) - Own(t, ledger[r]))
  /\ \E f \in ReserveFrames :
       /\ Pushes(t, f) /\ f.key = key /\ f.reuse /\ f.previous = ledger[r][key]
       /\ f.prevChain = chain[t]

LEMMA ReuseMoves ==
  ASSUME Typed, Shapes, NEW t \in Threads, stack[t] # <<>>, NEW amount \in Nat,
         current' = current, ReserveReuse(t, amount),
         NEW r, r = current[t].root, NEW key, key = Nearest(Known(t))
  PROVE  Extended(t, amount, r, key)
<1> DEFINE previous == ledger[r][key]
           claimed == Most(previous, amount)
           f == [kind |-> "reserve", key |-> key, reuse |-> TRUE, previous |-> previous,
                 prevChain |-> chain[t]]
           c == [ledger[r] EXCEPT ![key] = claimed]
<1>1. r \in 1..Len(ledger) /\ ledger[r] \in Tables /\ ledger \in Seq(Tables)
  BY RootOf DEF Typed
<1>2. DOMAIN ledger[r] \subseteq Keys /\ IsFiniteSet(DOMAIN ledger[r])
      /\ \A k \in DOMAIN ledger[r] : ledger[r][k] \in Nat
  BY <1>1, TableOf DEF IsTable
<1>3. /\ Known(t) # {}
      /\ Admitted(t, current[t], amount, claimed - previous)
      /\ ledger' = [ledger EXCEPT ![r] = c]
      /\ chain' = [chain EXCEPT ![t] = Known(t)]
      /\ stack' = [stack EXCEPT ![t] = Append(@, f)]
  BY <1>1 DEF ReserveReuse, Push
<1>4. Known(t) \in SUBSET Keys /\ Known(t) \subseteq DOMAIN ledger[r] /\ IsFiniteSet(Known(t))
  <2>1. Known(t) \subseteq DOMAIN ledger[r] BY DEF Known
  <2> QED BY <2>1, <1>2, FS_Subset
<1>5. key \in Known(t) /\ \A k \in Known(t) : k[2] <= key[2] BY <1>3, <1>4, NearestIn
<1>6. previous \in Nat /\ claimed \in Nat /\ key \in Keys BY <1>2, <1>4, <1>5 DEF Most
<1> HIDE DEF previous, claimed
<1>7. c \in Tables
  <2>1. c \in [DOMAIN ledger[r] -> Nat]
    <3>1. ledger[r] \in [DOMAIN ledger[r] -> Nat]
      <4>1. PICK K \in {J \in SUBSET Keys : IsFiniteSet(J)} : ledger[r] \in [K -> Nat] BY <1>1 DEF Tables
      <4> QED BY <4>1
    <3> QED BY <3>1, <1>6
  <2>2. DOMAIN ledger[r] \in SUBSET Keys BY <1>2
  <2> HIDE DEF c
  <2> QED BY <2>1, <2>2, <1>2, TableIn
<1>8. /\ DOMAIN c = DOMAIN ledger[r] /\ c[key] = claimed
      /\ \A k \in DOMAIN ledger[r] \ {key} : c[k] = ledger[r][k]
  BY <1>4, <1>5
<1>9. f \in ReserveFrames /\ f.key = key /\ f.reuse /\ f.previous = previous /\ f.prevChain = chain[t]
  BY <1>6 DEF ReserveFrames, Typed
<1> HIDE DEF f, c
<1>10. f \in Frames BY <1>9 DEF Frames
<1>11. stack \in [Threads -> Seq(Frames)] /\ chain \in [Threads -> SUBSET Keys] BY DEF Typed
<1>12. Append(stack[t], f) \in Seq(Frames) /\ Pushed(stack[t], Append(stack[t], f), f)
  BY <1>10, <1>11, AppendPushes
<1>13. Pushes(t, f)
  <2>1. stack'[t] = Append(stack[t], f) BY <1>3, <1>11
  <2>2. \A u \in Threads \ {t} : stack'[u] = stack[u] /\ current'[u] = current[u] /\ chain'[u] = chain[u]
    BY <1>3, <1>11
  <2> QED BY <2>1, <2>2, <1>12, StaysOne DEF Pushes
<1>14. /\ stack' \in [Threads -> Seq(Frames)]
       /\ chain' \in [Threads -> SUBSET Keys] /\ chain'[t] = Known(t)
  BY <1>3, <1>4, <1>11, <1>12
<1>15. ledger' \in Seq(Tables) /\ OtherLedgers(r) /\ ledger'[r] = c
  BY <1>1, <1>3, <1>7, LedgerStep
<1>16. PICK used \in RssGrowth, live \in LiveHeadroom :
          claimed - previous <= Available(t, current[t], FALSE, used, live)
  BY <1>3 DEF Admitted
<1> DEFINE av == Available(t, current[t], FALSE, used, live)
           room == Most(0, envelope[r].budget - Claimed(ledger[r]))
           local == Most(0, Cap(current[t]) - Own(t, ledger[r]))
           more == claimed - previous
<1>17. av \in Int /\ av <= room /\ av <= local /\ more <= av
  BY <1>16, RootOf, Admission
<1>18. room \in Int /\ local \in Int /\ more \in Int
  <2>1. /\ Claimed(ledger[r]) \in Nat /\ Own(t, ledger[r]) \in Nat BY RootOf, Admission
  <2>2. /\ envelope[r].budget \in Nat /\ Cap(current[t]) \in Nat
    BY RootOf, CapOf, Constants DEF Amounts
  <2> QED BY <2>1, <2>2, <1>6 DEF Most
<1> HIDE DEF av, room, local, more
<1>19. more <= room /\ more <= local BY <1>17, <1>18
<1> QED BY <1>5, <1>8, <1>9, <1>13, <1>14, <1>15, <1>19 DEF room, local, more, claimed, previous, Extended

\* The end of a reservation of t.
ReservationEnds(t, r) ==
  /\ Typed' /\ Pops(t) /\ OtherLedgers(r)
  /\ UNCHANGED <<lock, envelope, current, policy, blas, jobs, ops>>
  /\ \E f \in ReserveFrames :
       /\ f = stack[t][Len(stack[t])] /\ chain'[t] = f.prevChain
       /\ f.reuse => /\ DOMAIN ledger'[r] = DOMAIN ledger[r]
                     /\ f.key \in DOMAIN ledger[r] => ledger'[r][f.key] = f.previous
       /\ ~f.reuse => DOMAIN ledger'[r] = DOMAIN ledger[r] \ {f.key}
       /\ \A k \in DOMAIN ledger[r] \ {f.key} : ledger'[r][k] = ledger[r][k]

LEMMA ExitReserveMoves ==
  ASSUME Typed, Shapes, NEW t \in Threads, ExitReserve(t), NEW r, r = current[t].root
  PROVE  ReservationEnds(t, r)
<1> DEFINE f == Top(t)
           c == Released(ledger[r], f)
<1>1. /\ stack[t] # <<>> /\ f.kind = "reserve"
      /\ stack' = [stack EXCEPT ![t] = Below(t)]
      /\ chain' = [chain EXCEPT ![t] = f.prevChain]
      /\ ledger' = [ledger EXCEPT ![r] = Released(@, f)]
  BY DEF ExitReserve, TopIs
<1>2. stack \in [Threads -> Seq(Frames)] /\ chain \in [Threads -> SUBSET Keys] BY DEF Typed
<1>3. f \in Frames /\ f = stack[t][Len(stack[t])] BY <1>1, <1>2, TopFrame
<1>4. f \in ReserveFrames BY <1>1, <1>3, FrameOfKind
<1>5. Below(t) \in Seq(Frames) /\ Popped(stack[t], Below(t)) BY <1>1, <1>2, TopFrame
<1>6. f.prevChain \in SUBSET Keys /\ f.previous \in Nat /\ f.reuse \in BOOLEAN /\ f.key \in Keys
  BY <1>4 DEF ReserveFrames
<1>7. r \in 1..Len(ledger) /\ ledger[r] \in Tables /\ ledger \in Seq(Tables)
  BY <1>1, RootOf DEF Typed
<1>8. DOMAIN ledger[r] \subseteq Keys /\ IsFiniteSet(DOMAIN ledger[r])
      /\ \A k \in DOMAIN ledger[r] : ledger[r][k] \in Nat
  BY <1>7, TableOf DEF IsTable
<1>9. ledger' = [ledger EXCEPT ![r] = c] BY <1>1, <1>7
<1> HIDE DEF f
<1>12. /\ c \in Tables
       /\ f.reuse => /\ DOMAIN c = DOMAIN ledger[r]
                     /\ f.key \in DOMAIN ledger[r] => c[f.key] = f.previous
       /\ ~f.reuse => DOMAIN c = DOMAIN ledger[r] \ {f.key}
       /\ \A k \in DOMAIN ledger[r] \ {f.key} : c[k] = ledger[r][k]
  <2>1. CASE f.reuse
    <3>1. c = [ledger[r] EXCEPT ![f.key] = f.previous] BY <2>1 DEF Released
    <3>2. c \in [DOMAIN ledger[r] -> Nat]
      <4>1. ledger[r] \in [DOMAIN ledger[r] -> Nat]
        <5>1. PICK K \in {J \in SUBSET Keys : IsFiniteSet(J)} : ledger[r] \in [K -> Nat] BY <1>7 DEF Tables
        <5> QED BY <5>1
      <4> QED BY <3>1, <4>1, <1>6
    <3>3. /\ DOMAIN c = DOMAIN ledger[r]
          /\ f.key \in DOMAIN ledger[r] => c[f.key] = f.previous
          /\ \A k \in DOMAIN ledger[r] \ {f.key} : c[k] = ledger[r][k]
      BY <3>1
    <3> HIDE DEF c
    <3>4. c \in Tables
      <4>1. DOMAIN ledger[r] \in SUBSET Keys BY <1>8
      <4> QED BY <3>2, <4>1, <1>8, TableIn
    <3> QED BY <3>3, <3>4, <2>1
  <2>2. CASE ~f.reuse
    <3>1. c = [k \in DOMAIN ledger[r] \ {f.key} |-> ledger[r][k]] BY <2>2 DEF Released, Restrict
    <3>2. c \in [DOMAIN ledger[r] \ {f.key} -> Nat] BY <3>1, <1>8
    <3>3. /\ DOMAIN c = DOMAIN ledger[r] \ {f.key}
          /\ \A k \in DOMAIN ledger[r] \ {f.key} : c[k] = ledger[r][k]
      BY <3>1
    <3> HIDE DEF c
    <3>4. c \in Tables
      <4>1. DOMAIN ledger[r] \ {f.key} \in SUBSET Keys BY <1>8
      <4>2. IsFiniteSet(DOMAIN ledger[r] \ {f.key}) BY <1>8, FS_RemoveElement
      <4> QED BY <3>2, <4>1, <4>2, TableIn
    <3> QED BY <3>3, <3>4, <2>2
  <2> HIDE DEF c
  <2> QED BY <2>1, <2>2, <1>6
<1> HIDE DEF c
<1>13. ledger' \in Seq(Tables) /\ OtherLedgers(r) /\ ledger'[r] = c
  <2>1. c \in Tables BY <1>12
  <2> QED BY <1>7, <1>9, <2>1, LedgerStep
<1>14. Pops(t)
  <2>1. stack'[t] = Below(t) BY <1>1, <1>2
  <2>2. \A u \in Threads \ {t} : stack'[u] = stack[u] /\ current'[u] = current[u] /\ chain'[u] = chain[u]
    BY <1>1, <1>2 DEF ExitReserve
  <2> QED BY <2>1, <2>2, <1>5, StaysOne DEF Pops
<1>15. stack' \in [Threads -> Seq(Frames)] /\ chain' \in [Threads -> SUBSET Keys]
       /\ chain'[t] = f.prevChain
  BY <1>1, <1>2, <1>5, <1>6
<1>16. Typed' BY <1>13, <1>15 DEF Typed, ExitReserve, OtherLedgers
<1> QED BY <1>3, <1>4, <1>12, <1>13, <1>14, <1>15, <1>16 DEF ExitReserve, ReservationEnds

\* A worker enters its body, or reserves its estimate before it.
LEMMA PhaseAlike ==
  ASSUME NEW f \in WorkerFrames, NEW x \in {"admission", "body", "end"}
  PROVE  [f EXCEPT !.phase = x] \in WorkerFrames /\ Alike(f, [f EXCEPT !.phase = x])
BY DEF WorkerFrames, Alike

LEMMA TopReplaced ==
  ASSUME Typed, NEW w \in Threads, stack[w] # <<>>, NEW g \in Frames, Alike(Top(w), g),
         NEW frames, frames = Append(Below(w), g)
  PROVE  frames \in Seq(Frames) /\ Kept(stack[w], frames)
<1>2. stack \in [Threads -> Seq(Frames)] BY DEF Typed
<1>3. /\ Len(stack[w]) \in Nat \ {0}
      /\ Top(w) \in Frames /\ Top(w) = stack[w][Len(stack[w])]
      /\ Below(w) \in Seq(Frames) /\ Popped(stack[w], Below(w))
  BY <1>2, TopFrame
<1>8. frames \in Seq(Frames) /\ Pushed(Below(w), frames, g) BY <1>3, AppendPushes
<1>9. Len(frames) = Len(stack[w]) BY <1>3, <1>8 DEF Pushed, Popped
<1>10. \A i \in 1..Len(stack[w]) : Alike(stack[w][i], frames[i])
  <2> TAKE i \in 1..Len(stack[w])
  <2>1. CASE i = Len(stack[w])
    <3>1. Len(Below(w)) + 1 = Len(stack[w]) BY <1>3 DEF Popped
    <3>2. frames[i] = g BY <2>1, <3>1, <1>8 DEF Pushed
    <3>3. stack[w][i] = Top(w) BY <2>1, <1>3
    <3> QED BY <3>2, <3>3
  <2>2. CASE i < Len(stack[w])
    <3>1. i \in 1..Len(Below(w)) BY <2>2, <1>3 DEF Popped
    <3>2. Alike(stack[w][i], Below(w)[i]) BY <3>1, <1>3 DEF Popped
    <3>3. Alike(Below(w)[i], frames[i]) BY <3>1, <1>8 DEF Pushed
    <3> QED BY <3>2, <3>3, AlikeTrans
  <2>3. Len(stack[w]) \in Nat BY <1>3
  <2>4. i = Len(stack[w]) \/ i < Len(stack[w]) BY <2>3
  <2> QED BY <2>1, <2>2, <2>4
<1> QED BY <1>8, <1>9, <1>10 DEF Kept

LEMMA EstimateFrames ==
  ASSUME Typed, NEW w \in Threads, TopIs(w, "worker"),
         NEW x \in {"admission", "body", "end"},
         NEW frames, frames = Append(Below(w), [Top(w) EXCEPT !.phase = x])
  PROVE  frames \in Seq(Frames) /\ Kept(stack[w], frames) /\ stack[w] # <<>>
         /\ Top(w) \in WorkerFrames /\ Top(w) = stack[w][Len(stack[w])]
<1> DEFINE g == [Top(w) EXCEPT !.phase = x]
<1>1. stack[w] # <<>> /\ Top(w).kind = "worker" BY DEF TopIs
<1>2. stack \in [Threads -> Seq(Frames)] BY DEF Typed
<1>3. Top(w) \in Frames /\ Top(w) = stack[w][Len(stack[w])] BY <1>1, <1>2, TopFrame
<1>4. Top(w) \in WorkerFrames BY <1>1, <1>3, FrameOfKind
<1>5. g \in WorkerFrames /\ Alike(Top(w), g) BY <1>4, PhaseAlike
<1> HIDE DEF g
<1>6. g \in Frames BY <1>5 DEF Frames
<1>7. frames = Append(Below(w), g) BY DEF g
<1> QED BY <1>1, <1>3, <1>4, <1>5, <1>6, <1>7, TopReplaced

LEMMA DispatchMoves ==
  ASSUME Typed, Shapes, NEW t \in Threads, Dispatch(t)
  PROVE  /\ Typed' /\ Working(t) /\ jobs' = jobs + 1
         /\ UNCHANGED <<lock, envelope, ledger, chain, policy>>
         /\ blas' = IF InReplicates(t) THEN blas ELSE 1
         /\ Narrowed(current'[t], current[t])
         /\ \E f \in JobFrames :
              /\ Pushes(t, f) /\ f.prev = current[t] /\ f.job = jobs + 1 /\ f.running = {}
              /\ f.blas = IF InReplicates(t) THEN 0 ELSE blas
              /\ f.child.root = current[t].root
              /\ \E x \in Amounts : /\ f.child.caps = Append(current'[t].caps, x)
                                    /\ x = current'[t].caps[Len(current'[t].caps)] \div f.workers
<1> DEFINE al == Nested(current[t], AutoPolicy)
<1>1. PICK seeds \in 1..MaxSeeds, e \in Estimates, used \in RssGrowth, live \in LiveHeadroom :
       LET remaining == Available(t, al, TRUE, used, live)
           k == Workers(al, remaining, Most(Floor, e), seeds)
           child == Child(al, k)
       IN /\ current' = [current EXCEPT ![t] = al]
          /\ blas' = JobBlas(t)
          /\ Push(t, [kind |-> "replicates", prev |-> current[t], job |-> jobs + 1,
                      child |-> child, workers |-> k, estimate |-> e, pending |-> seeds,
                      running |-> {}, failed |-> FALSE,
                      blas |-> IF InReplicates(t) THEN 0 ELSE blas])
  BY DEF Dispatch
<1> DEFINE remaining == Available(t, al, TRUE, used, live)
           k == Workers(al, remaining, Most(Floor, e), seeds)
           child == Child(al, k)
           limit == IF InReplicates(t) THEN 0 ELSE blas
           f == [kind |-> "replicates", prev |-> current[t], job |-> jobs + 1,
                 child |-> child, workers |-> k, estimate |-> e, pending |-> seeds,
                 running |-> {}, failed |-> FALSE, blas |-> limit]
<1>2. /\ current' = [current EXCEPT ![t] = al]
      /\ blas' = IF InReplicates(t) THEN blas ELSE 1
      /\ stack' = [stack EXCEPT ![t] = Append(@, f)]
  BY <1>1 DEF Push, JobBlas
<1>3. Working(t) BY DEF Dispatch
<1>4. stack[t] # <<>> BY <1>3, WorkingTop
<1>5. current[t] \in Allocs /\ AutoPolicy \in Policies BY Constants DEF Typed
<1>6. Narrowed(al, current[t]) BY <1>5, NestedAlloc DEF Narrowed
<1>7. al \in Allocs /\ al.root = current[t].root BY <1>6 DEF Narrowed
<1> HIDE DEF al
<1>8. remaining \in Int BY <1>4, <1>7, Admission
<1> HIDE DEF remaining
<1>9. k \in 1..Cpu
  <2>1. e \in Nat /\ seeds \in Nat \ {0} /\ Most(Floor, e) \in Nat \ {0} BY Constants DEF Most
  <2>2. al.cpu \in 0..Cpu BY <1>7 DEF Allocs
  <2> DEFINE m == Most(Floor, e)
             v == remaining \div m
  <2>3. v \in Int BY <1>8, <2>1
  <2> HIDE DEF v, m
  <2>4. k = Most(1, Least(seeds, Least(al.cpu, Most(1, v)))) BY DEF Workers, v, m
  <2> HIDE DEF k
  <2> QED BY <2>1, <2>2, <2>3, <2>4, Constants DEF Most, Least
<1> HIDE DEF k
<1>10. /\ child \in Allocs /\ child.root = al.root
       /\ \E x \in Amounts : child.caps = Append(al.caps, x)
                             /\ x = al.caps[Len(al.caps)] \div k
  BY <1>7, <1>9, ChildAlloc
<1>11. limit \in 0..Cpu /\ jobs + 1 \in Nat BY Constants DEF Typed
<1> HIDE DEF child, limit
<1>12. f \in JobFrames
  <2>1. seeds \in 0..MaxSeeds /\ e \in Nat BY Constants
  <2> QED BY <2>1, <1>5, <1>9, <1>10, <1>11 DEF JobFrames
<1>13. /\ f.prev = current[t] /\ f.job = jobs + 1 /\ f.running = {} /\ f.blas = limit
       /\ f.child = child /\ f.workers = k
  OBVIOUS
<1> HIDE DEF f
<1>14. f \in Frames BY <1>12 DEF Frames
<1>15. stack \in [Threads -> Seq(Frames)] /\ current \in [Threads -> Allocs] BY DEF Typed
<1>16. Append(stack[t], f) \in Seq(Frames) /\ Pushed(stack[t], Append(stack[t], f), f)
  BY <1>14, <1>15, AppendPushes
<1>17. Pushes(t, f)
  <2>1. stack'[t] = Append(stack[t], f) BY <1>2, <1>15
  <2>2. \A u \in Threads \ {t} : stack'[u] = stack[u] /\ current'[u] = current[u] /\ chain'[u] = chain[u]
    BY <1>2, <1>15 DEF Dispatch
  <2> QED BY <2>1, <2>2, <1>16, StaysOne DEF Pushes
<1>18. stack' \in [Threads -> Seq(Frames)] /\ current' \in [Threads -> Allocs]
  BY <1>2, <1>7, <1>15, <1>16
<1>19. blas' \in 1..Cpu BY <1>2, Constants DEF Typed
<1>20. jobs' = jobs + 1 /\ jobs' \in Nat BY <1>11 DEF Dispatch
<1>21. Typed' BY <1>18, <1>19, <1>20, OpsTyped DEF Typed, Dispatch
<1>22. current'[t] = al BY <1>2, <1>15
<1>23. f.blas = IF InReplicates(t) THEN 0 ELSE blas BY <1>13 DEF limit
<1>24. UNCHANGED <<lock, envelope, ledger, chain, policy>> BY DEF Dispatch
<1>25. \E x \in Amounts : /\ f.child.caps = Append(current'[t].caps, x)
                          /\ x = current'[t].caps[Len(current'[t].caps)] \div f.workers
  BY <1>10, <1>13, <1>22
<1> QED BY <1>2, <1>3, <1>6, <1>7, <1>10, <1>12, <1>13, <1>17, <1>20, <1>21, <1>22, <1>23, <1>24, <1>25

LEMMA EndJobMoves ==
  ASSUME Typed, NEW d \in Threads, EndJob(d)
  PROVE  /\ Typed' /\ Pops(d)
         /\ UNCHANGED <<lock, envelope, ledger, chain, policy, jobs, ops>>
         /\ \E f \in JobFrames :
              /\ f = stack[d][Len(stack[d])]
              /\ current'[d] = f.prev
              /\ blas' = IF f.blas = 0 THEN blas ELSE f.blas
<1> DEFINE f == Top(d)
<1>1. /\ stack[d] # <<>> /\ f.kind = "replicates"
      /\ stack' = [stack EXCEPT ![d] = Below(d)]
      /\ current' = [current EXCEPT ![d] = f.prev]
      /\ blas' = IF f.blas = 0 THEN blas ELSE f.blas
  BY DEF EndJob, TopIs
<1>2. stack \in [Threads -> Seq(Frames)] /\ current \in [Threads -> Allocs] BY DEF Typed
<1>3. f \in Frames /\ f = stack[d][Len(stack[d])] BY <1>1, <1>2, TopFrame
<1>4. f \in JobFrames BY <1>1, <1>3, FrameOfKind
<1>5. Below(d) \in Seq(Frames) /\ Popped(stack[d], Below(d)) BY <1>1, <1>2, TopFrame
<1>6. f.prev \in Allocs /\ f.blas \in 0..Cpu BY <1>4 DEF JobFrames
<1> HIDE DEF f
<1>7. Pops(d)
  <2>1. stack'[d] = Below(d) BY <1>1, <1>2
  <2>2. \A u \in Threads \ {d} : stack'[u] = stack[u] /\ current'[u] = current[u] /\ chain'[u] = chain[u]
    BY <1>1, <1>2 DEF EndJob
  <2> QED BY <2>1, <2>2, <1>5, StaysOne DEF Pops
<1>8. stack' \in [Threads -> Seq(Frames)] /\ current' \in [Threads -> Allocs]
  BY <1>1, <1>2, <1>5, <1>6
<1>9. blas' \in 1..Cpu BY <1>1, <1>6, Constants DEF Typed
<1>10. Typed' BY <1>8, <1>9 DEF Typed, EndJob
<1>11. current'[d] = f.prev BY <1>1, <1>2
<1> QED BY <1>1, <1>3, <1>4, <1>7, <1>10, <1>11 DEF EndJob

\* Only the counts of a job change while it runs.
LEMMA TakenAlike ==
  ASSUME NEW f \in JobFrames, NEW w \in Threads, f.pending > 0
  PROVE  /\ [f EXCEPT !.pending = @ - 1, !.running = @ \cup {w}] \in JobFrames
         /\ Alike(f, [f EXCEPT !.pending = @ - 1, !.running = @ \cup {w}])
<1>1. f.pending - 1 \in 0..MaxSeeds /\ f.running \cup {w} \in SUBSET Threads
  BY Constants DEF JobFrames
<1> QED BY <1>1 DEF JobFrames, Alike

LEMMA EndedAlike ==
  ASSUME NEW f \in JobFrames, NEW w \in Threads, NEW failure \in BOOLEAN,
         NEW g, g = [f EXCEPT !.running = @ \ {w}, !.failed = @ \/ failure]
  PROVE  g \in JobFrames /\ Alike(f, g)
<1> DEFINE x == f.failed \/ failure
<1>1. f.running \ {w} \in SUBSET Threads /\ x \in BOOLEAN BY DEF JobFrames
<1>2. g = [f EXCEPT !.running = f.running \ {w}, !.failed = x] OBVIOUS
<1> HIDE DEF x
<1>3. [f EXCEPT !.running = f.running \ {w}, !.failed = x] \in JobFrames
  BY <1>1 DEF JobFrames
<1>4. Alike(f, [f EXCEPT !.running = f.running \ {w}, !.failed = x])
  BY DEF JobFrames, Alike
<1> QED BY <1>2, <1>3, <1>4

LEMMA StartTaskMoves ==
  ASSUME Typed, NEW w \in Threads, NEW d \in Threads, StartTask(w, d)
  PROVE  /\ Typed'
         /\ UNCHANGED <<lock, envelope, ledger, policy, blas, jobs, ops>>
         /\ stack[d] # <<>> /\ chain'[w] = {}
         /\ w = d \/ (w \in Pool /\ stack[w] = <<>>)
         /\ \E f \in JobFrames, g \in WorkerFrames :
              /\ f = stack[d][Len(stack[d])] /\ Pushes(w, g)
              /\ g.prev = current[w] /\ g.prevChain = chain[w]
              /\ g.slice = f.child /\ g.job = f.job /\ current'[w] = f.child
<1> DEFINE f == Top(d)
           x == IF f.estimate = 0 THEN "body" ELSE "admission"
           g == [kind |-> "worker", prev |-> current[w], prevChain |-> chain[w],
                 slice |-> f.child, job |-> f.job, dispatcher |-> d, estimate |-> f.estimate,
                 phase |-> x]
           h == [f EXCEPT !.pending = @ - 1, !.running = @ \cup {w}]
           taken == Append(Below(d), h)
<1>1. /\ stack[d] # <<>> /\ f.kind = "replicates" /\ f.pending > 0
      /\ \/ w = d /\ stack' = [stack EXCEPT ![d] = Append(taken, g)]
         \/ /\ w \in Pool /\ stack[w] = <<>>
            /\ stack' = [stack EXCEPT ![d] = taken, ![w] = <<g>>]
      /\ current' = [current EXCEPT ![w] = f.child]
      /\ chain' = [chain EXCEPT ![w] = {}]
  BY DEF StartTask, TopIs, NoReservations
<1>2. /\ stack \in [Threads -> Seq(Frames)] /\ current \in [Threads -> Allocs]
      /\ chain \in [Threads -> SUBSET Keys]
  BY DEF Typed
<1>3. f \in Frames /\ f = stack[d][Len(stack[d])] BY <1>1, <1>2, TopFrame
<1>4. f \in JobFrames BY <1>1, <1>3, FrameOfKind
<1>5. f.child \in Allocs /\ f.job \in Nat /\ f.estimate \in Nat BY <1>4 DEF JobFrames
<1>6. h \in JobFrames /\ Alike(f, h) BY <1>1, <1>4, TakenAlike
<1>7. h \in Frames BY <1>6 DEF Frames
<1> HIDE DEF h
<1>8. taken \in Seq(Frames) /\ Kept(stack[d], taken) BY <1>1, <1>6, <1>7, TopReplaced
<1> HIDE DEF taken, f
<1>9. g \in WorkerFrames
  <2>1. x \in {"admission", "body", "end"} OBVIOUS
  <2> HIDE DEF x
  <2> QED BY <2>1, <1>2, <1>5 DEF WorkerFrames
<1>10. /\ g.prev = current[w] /\ g.prevChain = chain[w] /\ g.slice = f.child /\ g.job = f.job
  OBVIOUS
<1> HIDE DEF g
<1>11. g \in Frames BY <1>9 DEF Frames
<1>12. stack' \in [Threads -> Seq(Frames)] /\ Pushed(stack[w], stack'[w], g)
       /\ \A u \in Threads \ {w} : Kept(stack[u], stack'[u])
  <2>1. CASE w = d /\ stack' = [stack EXCEPT ![d] = Append(taken, g)]
    <3>1. Append(taken, g) \in Seq(Frames) /\ Pushed(taken, Append(taken, g), g)
      BY <1>8, <1>11, AppendPushes
    <3>2. Pushed(stack[w], Append(taken, g), g)
      <4>1. Len(taken) = Len(stack[w]) BY <1>8, <2>1 DEF Kept
      <4>2. \A i \in 1..Len(stack[w]) : Alike(stack[w][i], Append(taken, g)[i])
        BY <1>8, <2>1, <3>1, <4>1, AlikeTrans DEF Kept, Pushed
      <4> QED BY <3>1, <4>1, <4>2 DEF Pushed
    <3>3. stack'[w] = Append(taken, g) BY <2>1, <1>2
    <3>4. \A u \in Threads \ {w} : stack'[u] = stack[u] BY <2>1, <1>2
    <3> QED BY <2>1, <3>1, <3>2, <3>3, <3>4, <1>2, KeptSame
  <2>2. CASE /\ w \in Pool /\ stack[w] = <<>>
             /\ stack' = [stack EXCEPT ![d] = taken, ![w] = <<g>>]
    <3>1. w # d BY <2>2, <1>1
    <3>2. stack'[w] = <<g>> /\ stack'[d] = taken
          /\ \A u \in Threads \ {w, d} : stack'[u] = stack[u]
      BY <2>2, <3>1, <1>2
    <3>3. <<g>> \in Seq(Frames) BY <1>11
    <3>4. Pushed(stack[w], <<g>>, g) BY <2>2 DEF Pushed
    <3>5. stack' \in [Threads -> Seq(Frames)] BY <2>2, <3>3, <1>2, <1>8
    <3> QED BY <3>1, <3>2, <3>4, <3>5, <1>8, KeptSame
  <2> QED BY <1>1, <2>1, <2>2
<1>13. Pushes(w, g)
  <2>1. \A u \in Threads \ {w} : current'[u] = current[u] /\ chain'[u] = chain[u]
    BY <1>1, <1>2
  <2> QED BY <2>1, <1>12 DEF Pushes, Stays
<1>14. /\ current' \in [Threads -> Allocs] /\ chain' \in [Threads -> SUBSET Keys]
       /\ current'[w] = f.child /\ chain'[w] = {}
  BY <1>1, <1>2, <1>5
<1>15. UNCHANGED <<lock, envelope, ledger, policy, blas, jobs, ops>> BY DEF StartTask
<1>16. Typed' BY <1>12, <1>14, <1>15 DEF Typed
<1> QED BY <1>1, <1>3, <1>4, <1>9, <1>10, <1>13, <1>14, <1>15, <1>16

LEMMA EndTaskMoves ==
  ASSUME Typed, NEW w \in Threads, EndTask(w)
  PROVE  /\ Typed' /\ Pops(w)
         /\ UNCHANGED <<lock, envelope, ledger, policy, blas, jobs, ops>>
         /\ \E f \in WorkerFrames :
              /\ f = stack[w][Len(stack[w])]
              /\ current'[w] = f.prev /\ chain'[w] = f.prevChain
<1> DEFINE f == Top(w)
           d == f.dispatcher
           popped == [stack EXCEPT ![w] = Below(w)]
           s == popped[d]
<1>1. stack[w] # <<>> /\ f.kind = "worker"
      /\ current' = [current EXCEPT ![w] = f.prev]
      /\ chain' = [chain EXCEPT ![w] = f.prevChain]
  BY DEF EndTask, TopIs
<1>2. PICK failure \in BOOLEAN :
        stack' = [popped EXCEPT ![d] = Settled(@, f.job, w, failure)]
  <2>1. PICK failure \in (IF f.phase = "admission" THEN {TRUE} ELSE BOOLEAN) :
          stack' = [popped EXCEPT ![d] = Settled(@, f.job, w, failure)]
    BY DEF EndTask
  <2>2. failure \in BOOLEAN BY <2>1
  <2> QED BY <2>1, <2>2
<1>3. /\ stack \in [Threads -> Seq(Frames)] /\ current \in [Threads -> Allocs]
      /\ chain \in [Threads -> SUBSET Keys]
  BY DEF Typed
<1>4. f \in Frames /\ f = stack[w][Len(stack[w])] BY <1>1, <1>3, TopFrame
<1>5. f \in WorkerFrames BY <1>1, <1>4, FrameOfKind
<1>6. d \in Threads /\ f.prev \in Allocs /\ f.prevChain \in SUBSET Keys
  BY <1>5 DEF WorkerFrames
<1>7. Below(w) \in Seq(Frames) /\ Popped(stack[w], Below(w)) BY <1>1, <1>3, TopFrame
<1>8. popped \in [Threads -> Seq(Frames)] /\ popped[w] = Below(w)
      /\ \A u \in Threads \ {w} : popped[u] = stack[u]
  BY <1>3, <1>7
<1> HIDE DEF popped, f, d
<1> DEFINE z == Settled(s, f.job, w, failure)
<1>9. stack' = [popped EXCEPT ![d] = z] BY <1>2, <1>6, <1>8
<1>10. s \in Seq(Frames) BY <1>6, <1>8
<1> HIDE DEF s
<1>11. \A a \in DOMAIN s : z[a] \in Frames /\ Alike(s[a], z[a])
  <2> TAKE a \in DOMAIN s
  <2>1. s[a] \in Frames BY <1>10
  <2>2. CASE s[a].kind = "replicates" /\ s[a].job = f.job
    <3>1. s[a] \in JobFrames BY <2>1, <2>2, FrameOfKind
    <3>2. z[a] = [s[a] EXCEPT !.running = @ \ {w}, !.failed = @ \/ failure]
      BY <2>2 DEF Settled
    <3>3. z[a] \in JobFrames /\ Alike(s[a], z[a]) BY <3>1, <3>2, EndedAlike
    <3> QED BY <3>3 DEF Frames
  <2>3. CASE ~(s[a].kind = "replicates" /\ s[a].job = f.job)
    <3>1. z[a] = s[a] BY <2>3 DEF Settled
    <3> QED BY <2>1, <3>1, AlikeSame
  <2> QED BY <2>2, <2>3
<1>12. DOMAIN z = DOMAIN s /\ z = [a \in DOMAIN s |-> z[a]] BY DEF Settled
<1> HIDE DEF z
<1>13. z \in Seq(Frames) /\ Len(z) = Len(s)
  <2>1. DOMAIN s = 1..Len(s) /\ Len(s) \in Nat BY <1>10
  <2>2. z = [a \in 1..Len(s) |-> z[a]] BY <1>12, <2>1
  <2>3. z \in [1..Len(s) -> Frames] BY <1>11, <2>1, <2>2
  <2> QED BY <2>1, <2>3
<1>14. Kept(s, z)
  <2>1. DOMAIN s = 1..Len(s) BY <1>10
  <2> QED BY <1>11, <1>13, <2>1 DEF Kept
<1>15. stack' \in [Threads -> Seq(Frames)] /\ stack'[d] = z
       /\ \A u \in Threads \ {d} : stack'[u] = popped[u]
  BY <1>6, <1>8, <1>9, <1>13
<1>16. \A u \in Threads : Kept(popped[u], stack'[u])
  BY <1>14, <1>15, KeptSame DEF s
<1>17. Popped(stack[w], stack'[w])
  <2>1. /\ Len(stack[w]) > 0 /\ Len(popped[w]) = Len(stack[w]) - 1
        /\ Len(stack'[w]) = Len(popped[w])
    BY <1>7, <1>8, <1>16 DEF Popped, Kept
  <2>2. \A i \in 1..Len(popped[w]) :
           Alike(stack[w][i], popped[w][i]) /\ Alike(popped[w][i], stack'[w][i])
    BY <1>7, <1>8, <1>16 DEF Popped, Kept
  <2>3. \A i \in 1..Len(popped[w]) : Alike(stack[w][i], stack'[w][i]) BY <2>2, AlikeTrans
  <2> QED BY <2>1, <2>3 DEF Popped
<1>18. \A u \in Threads \ {w} : Kept(stack[u], stack'[u]) BY <1>8, <1>16
<1>19. \A u \in Threads \ {w} : current'[u] = current[u] /\ chain'[u] = chain[u]
  BY <1>1, <1>3
<1>20. Pops(w) BY <1>17, <1>18, <1>19 DEF Pops, Stays
<1>21. /\ current' \in [Threads -> Allocs] /\ chain' \in [Threads -> SUBSET Keys]
       /\ current'[w] = f.prev /\ chain'[w] = f.prevChain
  BY <1>1, <1>3, <1>6
<1>22. UNCHANGED <<lock, envelope, ledger, policy, blas, jobs, ops>> BY DEF EndTask
<1>23. Typed' BY <1>15, <1>21, <1>22 DEF Typed
<1> QED BY <1>4, <1>5, <1>20, <1>21, <1>22, <1>23

-----------------------------------------------------------------------------
(* Types and shapes are kept. *)

LEMMA TypedInit == Init => Typed
<1> SUFFICES ASSUME Init PROVE Typed OBVIOUS
<1>1. NoAlloc \in Allocs
  <2>1. <<0>> \in Seq(Amounts) \ {<<>>} BY Constants DEF Amounts
  <2> QED BY <2>1, Constants DEF NoAlloc, Allocs
<1>2. envelope \in Seq([budget : Amounts, cpu : 1..Cpu]) /\ ledger \in Seq(Tables)
      /\ Len(ledger) = Len(envelope)
  BY DEF Init
<1>3. stack \in [Threads -> Seq(Frames)] /\ chain \in [Threads -> SUBSET Keys]
      /\ ops \in [Threads -> Nat] /\ current \in [Threads -> Allocs]
  BY <1>1 DEF Init
<1> QED BY <1>2, <1>3, Constants DEF Init, Typed

LEMMA ShapesInit == Init => Shapes
BY DEF Init, Shapes, Shape

\* The other threads, when the lock changes hands at most with thread t.
LEMMA OthersShape ==
  ASSUME Typed, Typed', Shapes, NEW t \in Threads, Stays(t),
         Len(envelope) <= Len(envelope'), lock' = lock \/ lock \in {NoThread, t}
  PROVE  \A u \in Threads \ {t} : Shape(u, stack'[u], current'[u], lock', Len(envelope'))
<1> TAKE u \in Threads \ {t}
<1> DEFINE n == Len(envelope)
           m == Len(envelope')
<1>1. stack[u] \in Seq(Frames) /\ stack'[u] \in Seq(Frames) /\ n \in Nat /\ m \in Nat BY DEF Typed
<1>2. Kept(stack[u], stack'[u]) /\ current'[u] = current[u] BY DEF Stays
<1>3. Shape(u, stack[u], current[u], lock, n) BY DEF Shapes
<1>4. n <= m OBVIOUS
<1> HIDE DEF n, m
<1>5. u # NoThread BY Constants
<1>6. Shape(u, stack[u], current[u], lock', m)
  BY <1>1, <1>3, <1>4, <1>5 DEF Shape
<1>7. Shape(u, stack'[u], current[u], lock', m) BY <1>1, <1>2, <1>6, SharedPart
<1> QED BY <1>2, <1>7 DEF m

LEMMA PushShapes ==
  ASSUME Typed, Typed', Shapes, NEW t \in Threads, NEW f \in Frames, Pushes(t, f),
         stack[t] # <<>>, lock' = lock, Len(envelope') = Len(envelope),
         current'[t].root = current[t].root,
         f.kind \in {"call", "worker", "replicates"} => f.prev = current[t],
         f.kind = "replicates" => f.child.root = current[t].root,
         stack[t][Len(stack[t])].kind = "replicates" <=> f.kind = "worker"
  PROVE  Shapes'
<1> DEFINE n == Len(envelope)
<1>1. stack[t] \in Seq(Frames) /\ stack'[t] \in Seq(Frames) /\ n \in Nat BY DEF Typed
<1>2. Pushed(stack[t], stack'[t], f) /\ Stays(t) BY DEF Pushes
<1>3. \A u \in Threads \ {t} : Shape(u, stack'[u], current'[u], lock', Len(envelope'))
  BY <1>1, <1>2, OthersShape
<1>4. Shape(t, stack[t], current[t], lock, n) BY DEF Shapes
<1> HIDE DEF n
<1>5. Shape(t, stack'[t], current'[t], lock, n) BY <1>1, <1>2, <1>4, PushShape
<1>6. ASSUME lock # NoThread PROVE stack'[lock] # <<>> /\ stack'[lock][1].kind = "call"
  <2>1. lock \in Threads /\ stack[lock] # <<>> /\ stack[lock][1].kind = "call"
        /\ stack[lock] \in Seq(Frames) /\ stack'[lock] \in Seq(Frames)
    BY <1>6 DEF Shapes, Typed
  <2>2. 1 \in 1..Len(stack[lock]) /\ Len(stack[lock]) \in Nat BY <2>1
  <2>3. Alike(stack[lock][1], stack'[lock][1]) /\ Len(stack'[lock]) >= Len(stack[lock])
    BY <1>2, <2>1, <2>2 DEF Pushed, Stays, Kept
  <2> QED BY <2>1, <2>2, <2>3 DEF Alike
<1> QED BY <1>3, <1>5, <1>6 DEF Shapes, n

\* What the innermost scope says about the stack.
LEMMA RootFrame ==
  ASSUME Typed, Shapes, NEW t \in Threads, stack[t] # <<>>,
         NEW f, f = stack[t][Len(stack[t])], f.kind \in {"call", "worker", "replicates"}
  PROVE  /\ f.prev = NoAlloc <=> Len(stack[t]) = 1
         /\ f.prev = NoAlloc => f.kind # "replicates"
         /\ f.prev = NoAlloc /\ f.kind = "call" => lock = t
         /\ f.prev # NoAlloc => f.prev.root = current[t].root
<1>1. stack[t] \in Seq(Frames) BY DEF Typed
<1>2. Len(stack[t]) \in Nat \ {0} BY <1>1
<1>3. Shape(t, stack[t], current[t], lock, Len(envelope)) BY DEF Shapes
<1>4. Len(envelope) \in Nat BY DEF Typed
<1>5. NoAlloc.root = 0 BY DEF NoAlloc
<1>6. current[t].root # 0 BY <1>3, <1>4 DEF Shape
<1>7. CASE Len(stack[t]) = 1
  <2>1. f.prev = NoAlloc /\ f.kind \in {"call", "worker"} /\ (f.kind = "call" => lock = t)
    BY <1>3, <1>7 DEF Shape
  <2> QED BY <1>7, <2>1
<1>8. CASE Len(stack[t]) # 1
  <2>1. Len(stack[t]) \in 2..Len(stack[t])
    <3>1. \A n \in Nat \ {0} : n # 1 => n \in 2..n OBVIOUS
    <3> QED BY <1>2, <1>8, <3>1
  <2>2. f.prev.root = current[t].root BY <1>3, <2>1 DEF Shape
  <2>3. f.prev # NoAlloc BY <1>5, <1>6, <2>2
  <2> QED BY <1>8, <2>2, <2>3
<1> QED BY <1>7, <1>8

LEMMA PopShapes ==
  ASSUME Typed, Typed', Shapes, NEW t \in Threads, Pops(t), Len(envelope') = Len(envelope),
         NEW f, f = stack[t][Len(stack[t])],
         current'[t] = IF f.kind = "reserve" THEN current[t] ELSE f.prev,
         lock' = IF f.kind = "call" /\ f.prev = NoAlloc THEN NoThread ELSE lock
  PROVE  Shapes'
<1> DEFINE n == Len(envelope)
<1>1. stack[t] \in Seq(Frames) /\ stack'[t] \in Seq(Frames) /\ n \in Nat BY DEF Typed
<1>2. Popped(stack[t], stack'[t]) /\ Stays(t) BY DEF Pops
<1>3. stack[t] # <<>> /\ Len(stack[t]) \in Nat \ {0} BY <1>1, <1>2 DEF Popped
<1>4. f \in Frames BY <1>1, <1>3
<1>5. f.kind \in {"call", "reserve", "worker", "replicates"} BY <1>4, FrameOfKind
<1>6. f.kind # "reserve" =>
        /\ f.prev = NoAlloc <=> Len(stack[t]) = 1
        /\ f.prev = NoAlloc /\ f.kind = "call" => lock = t
  BY <1>3, <1>5, RootFrame
<1>7. lock' = lock \/ lock \in {NoThread, t} BY <1>6
<1>8. \A u \in Threads \ {t} : Shape(u, stack'[u], current'[u], lock', Len(envelope'))
  BY <1>1, <1>2, <1>7, OthersShape
<1>9. Shape(t, stack[t], current[t], lock, n) BY DEF Shapes
<1> HIDE DEF n
<1>10. Shape(t, stack'[t], current'[t], lock, n) BY <1>1, <1>2, <1>9, PopShape
<1>11. lock' # lock => stack'[t] = <<>> BY <1>1, <1>2, <1>5, <1>6 DEF Popped
<1>12. Shape(t, stack'[t], current'[t], lock', n)
  <2>1. CASE lock' = lock BY <2>1, <1>10
  <2>2. CASE lock' # lock
    <3>1. stack'[t] = <<>> /\ Len(stack'[t]) = 0 BY <1>11, <2>2
    <3> QED BY <3>1, <1>10 DEF Shape
  <2> QED BY <2>1, <2>2
<1>13. ASSUME lock' # NoThread PROVE stack'[lock'] # <<>> /\ stack'[lock'][1].kind = "call"
  <2>0. lock' = lock BY <1>13
  <2>1. lock \in Threads /\ stack[lock] # <<>> /\ stack[lock][1].kind = "call"
        /\ stack[lock] \in Seq(Frames) /\ stack'[lock] \in Seq(Frames)
    BY <1>13, <2>0 DEF Shapes, Typed
  <2>2. 1 \in 1..Len(stack[lock]) /\ Len(stack[lock]) \in Nat BY <2>1
  <2>3. CASE lock = t
    <3>1. Len(stack[t]) # 1
      <4>1. SUFFICES ASSUME Len(stack[t]) = 1 PROVE FALSE OBVIOUS
      <4>2. f.kind = "call" BY <2>1, <2>3, <4>1
      <4>3. f.prev = NoAlloc BY <1>6, <4>1, <4>2
      <4> QED BY <1>13, <4>2, <4>3
    <3>2. 1 \in 1..Len(stack'[t])
      <4>1. Len(stack'[t]) = Len(stack[t]) - 1 BY <1>2 DEF Popped
      <4>2. \A m \in Nat \ {0} : m # 1 => 1 \in 1..(m - 1) OBVIOUS
      <4> QED BY <1>3, <3>1, <4>1, <4>2
    <3>3. Alike(stack[t][1], stack'[t][1]) BY <1>2, <3>2 DEF Popped
    <3> QED BY <2>0, <2>1, <2>3, <3>2, <3>3 DEF Alike
  <2>4. CASE lock # t
    <3>1. Alike(stack[lock][1], stack'[lock][1]) /\ Len(stack'[lock]) = Len(stack[lock])
      BY <1>2, <2>1, <2>2, <2>4 DEF Stays, Kept
    <3> QED BY <2>0, <2>1, <2>2, <3>1 DEF Alike
  <2> QED BY <2>3, <2>4
<1> QED BY <1>8, <1>12, <1>13 DEF Shapes, n

\* A thread that had no scope open gets its first one.
LEMMA FirstShapes ==
  ASSUME Typed, Typed', Shapes, NEW t \in Threads, NEW f \in Frames, Pushes(t, f),
         stack[t] = <<>>, f.prev = NoAlloc, Len(envelope) <= Len(envelope'),
         current'[t].root \in 1..Len(envelope'),
         \/ f.kind = "call" /\ t \in Callers /\ lock = NoThread /\ lock' = t
         \/ f.kind = "worker" /\ t \in Pool /\ lock' = lock
  PROVE  Shapes'
<1> DEFINE m == Len(envelope')
<1>1. stack'[t] \in Seq(Frames) /\ m \in Nat BY DEF Typed
<1>2. Pushed(stack[t], stack'[t], f) /\ Stays(t) BY DEF Pushes
<1>3. \A u \in Threads \ {t} : Shape(u, stack'[u], current'[u], lock', m)
  BY <1>1, <1>2, OthersShape
<1>4. Len(stack'[t]) = 1 /\ stack'[t][1] = f BY <1>2 DEF Pushed
<1>5. stack'[t] # <<>> BY <1>4
<1>6. current'[t].root \in 1..m OBVIOUS
<1> HIDE DEF m
<1>7. Shape(t, stack'[t], current'[t], lock', m)
  <2>1. f.kind # "replicates" OBVIOUS
  <2>2. \A a \in 2..Len(stack'[t]) : FALSE BY <1>4
  <2>3. \A a \in 1..Len(stack'[t]) : stack'[t][a] = f BY <1>4
  <2>4. IF f.kind = "call" THEN lock' = t /\ t \in Callers ELSE t \in Pool OBVIOUS
  <2> QED BY <1>4, <1>5, <1>6, <2>1, <2>2, <2>3, <2>4 DEF Shape
<1>8. ASSUME lock' # NoThread PROVE stack'[lock'] # <<>> /\ stack'[lock'][1].kind = "call"
  <2>1. CASE lock' = t /\ f.kind = "call" BY <2>1, <1>4, <1>5
  <2>2. CASE f.kind = "worker" /\ lock' = lock
    <3>1. lock \in Threads /\ stack[lock] # <<>> /\ stack[lock][1].kind = "call"
          /\ stack[lock] \in Seq(Frames) /\ stack'[lock] \in Seq(Frames)
      BY <1>8, <2>2 DEF Shapes, Typed
    <3>2. 1 \in 1..Len(stack[lock]) /\ Len(stack[lock]) \in Nat /\ lock # t BY <3>1
    <3>3. Alike(stack[lock][1], stack'[lock][1]) /\ Len(stack'[lock]) = Len(stack[lock])
      BY <1>2, <3>1, <3>2 DEF Stays, Kept
    <3> QED BY <2>2, <3>1, <3>2, <3>3 DEF Alike
  <2> QED BY <2>1, <2>2
<1> QED BY <1>3, <1>7, <1>8 DEF Shapes, m

LEMMA WorkingScope ==
  ASSUME Typed, NEW t \in Threads, Working(t)
  PROVE  /\ stack[t] # <<>> /\ stack[t][Len(stack[t])] \in Frames
         /\ stack[t][Len(stack[t])].kind \in {"call", "reserve", "worker"}
<1>1. stack[t] # <<>> /\ Top(t).kind \in {"call", "reserve", "worker"} BY WorkingTop
<1>2. stack \in [Threads -> Seq(Frames)] BY DEF Typed
<1> QED BY <1>1, <1>2, TopFrame

LEMMA RootShapes ==
  ASSUME Typed, Shapes, NEW t \in Threads, EnterRoot(t)
  PROVE  Typed' /\ Shapes'
<1>1. PICK f \in CallFrames : Pushes(t, f) /\ f.prev = NoAlloc BY EnterRootMoves
<1>2. f \in Frames /\ f.kind = "call" BY <1>1 DEF Frames, CallFrames
<1>3. /\ Typed' /\ t \in Callers /\ stack[t] = <<>> /\ lock = NoThread /\ lock' = t
      /\ Len(envelope') = Len(envelope) + 1 /\ current'[t].root = Len(envelope) + 1
  BY EnterRootMoves
<1>4. Len(envelope) \in Nat BY DEF Typed
<1>5. Len(envelope) <= Len(envelope') /\ current'[t].root \in 1..Len(envelope') BY <1>3, <1>4
<1> QED BY <1>1, <1>2, <1>3, <1>5, FirstShapes

LEMMA NestedShapes ==
  ASSUME Typed, Shapes, NEW t \in Threads, EnterNested(t)
  PROVE  Typed' /\ Shapes'
<1>1. PICK f \in CallFrames : Pushes(t, f) /\ f.prev = current[t] BY EnterNestedMoves
<1>2. f \in Frames /\ f.kind = "call" BY <1>1 DEF Frames, CallFrames
<1>3. /\ Typed' /\ Working(t) /\ lock' = lock /\ envelope' = envelope
      /\ current'[t].root = current[t].root
  BY EnterNestedMoves DEF Narrowed
<1>4. stack[t] # <<>> /\ stack[t][Len(stack[t])].kind # "replicates" BY <1>3, WorkingScope
<1> QED BY <1>1, <1>2, <1>3, <1>4, PushShapes

LEMMA DispatchShapes ==
  ASSUME Typed, Shapes, NEW t \in Threads, Dispatch(t)
  PROVE  Typed' /\ Shapes'
<1>1. PICK f \in JobFrames : Pushes(t, f) /\ f.prev = current[t] /\ f.child.root = current[t].root
  BY DispatchMoves
<1>2. f \in Frames /\ f.kind = "replicates" BY <1>1 DEF Frames, JobFrames
<1>3. /\ Typed' /\ Working(t) /\ lock' = lock /\ envelope' = envelope
      /\ current'[t].root = current[t].root
  BY DispatchMoves DEF Narrowed
<1>4. stack[t] # <<>> /\ stack[t][Len(stack[t])].kind # "replicates" BY <1>3, WorkingScope
<1> QED BY <1>1, <1>2, <1>3, <1>4, PushShapes

\* A reservation is opened on the stack as it is, or when a worker leaves its phase.
LEMMA ClaimShapes ==
  ASSUME Typed, Shapes, NEW t \in Threads, NEW amount \in Nat, NEW frames \in Seq(Frames),
         Kept(stack[t], frames), stack[t] # <<>>, stack[t][Len(stack[t])].kind # "replicates",
         ReserveAdditive(t, amount, frames),
         UNCHANGED <<lock, envelope, current, policy, blas, jobs>>, ops' \in [Threads -> Nat]
  PROVE  Typed' /\ Shapes'
<1> DEFINE r == current[t].root
           key == <<t, Len(stack[t]) + 1>>
<1>0. /\ \E f \in ReserveFrames : Pushes(t, f)
      /\ stack' \in [Threads -> Seq(Frames)] /\ ledger' \in Seq(Tables)
      /\ chain' \in [Threads -> SUBSET Keys] /\ OtherLedgers(r)
  <2>1. r = current[t].root /\ key = <<t, Len(stack[t]) + 1>> OBVIOUS
  <2> HIDE DEF r, key
  <2>2. Added(t, amount, r, key) BY <2>1, AdditiveMoves
  <2> QED BY <2>2 DEF Added
<1> HIDE DEF r, key
<1>1. PICK f \in ReserveFrames : Pushes(t, f) BY <1>0
<1>2. f \in Frames /\ f.kind = "reserve" BY <1>1 DEF Frames, ReserveFrames
<1>3. /\ stack' \in [Threads -> Seq(Frames)] /\ ledger' \in Seq(Tables)
      /\ chain' \in [Threads -> SUBSET Keys] /\ Len(ledger') = Len(ledger)
  BY <1>0 DEF OtherLedgers
<1>4. Typed' BY <1>3 DEF Typed
<1> QED BY <1>1, <1>2, <1>4, PushShapes

LEMMA ExtendShapes ==
  ASSUME Typed, Shapes, NEW t \in Threads, NEW amount \in Nat,
         stack[t] # <<>>, stack[t][Len(stack[t])].kind # "replicates", ReserveReuse(t, amount),
         UNCHANGED <<lock, envelope, current, policy, blas, jobs>>, ops' \in [Threads -> Nat]
  PROVE  Typed' /\ Shapes'
<1>0. Extended(t, amount, current[t].root, Nearest(Known(t))) BY ReuseMoves
<1>1. PICK f \in ReserveFrames : Pushes(t, f) BY <1>0 DEF Extended
<1>2. f \in Frames /\ f.kind = "reserve" BY <1>1 DEF Frames, ReserveFrames
<1>3. /\ stack' \in [Threads -> Seq(Frames)] /\ ledger' \in Seq(Tables)
      /\ chain' \in [Threads -> SUBSET Keys] /\ Len(ledger') = Len(ledger)
  BY <1>0 DEF Extended, OtherLedgers
<1>4. Typed' BY <1>3 DEF Typed
<1> QED BY <1>1, <1>2, <1>4, PushShapes

\* reserve_memory, or the reservation of an estimate, is one of the two.
LEMMA ReserveForms ==
  ASSUME Typed, NEW t \in Threads, Reserve(t) \/ ReserveEstimate(t)
  PROVE  /\ UNCHANGED <<lock, envelope, current, policy, blas, jobs>>
         /\ ops' \in [Threads -> Nat]
         /\ stack[t] # <<>> /\ stack[t][Len(stack[t])].kind # "replicates"
         /\ \E amount \in Nat :
              \/ ReserveReuse(t, amount)
              \/ \E frames \in Seq(Frames) : /\ Kept(stack[t], frames)
                                             /\ ReserveAdditive(t, amount, frames)
<1>1. CASE Reserve(t)
  <2>1. Working(t) /\ Open(t) /\ UNCHANGED <<lock, envelope, current, policy, blas, jobs>>
    BY <1>1 DEF Reserve
  <2>2. PICK amount \in Requests : ReserveAdditive(t, amount, stack[t]) \/ ReserveReuse(t, amount)
    BY <1>1 DEF Reserve
  <2>3. amount \in Nat /\ stack[t] \in Seq(Frames) /\ Kept(stack[t], stack[t])
    BY Constants, KeptSame DEF Typed
  <2> QED BY <2>1, <2>2, <2>3, OpsTyped, WorkingScope
<1>2. CASE ReserveEstimate(t)
  <2> DEFINE frames == Append(Below(t), [Top(t) EXCEPT !.phase = "end"])
  <2>1. /\ TopIs(t, "worker") /\ ReserveAdditive(t, Top(t).estimate, frames)
        /\ UNCHANGED <<lock, envelope, current, policy, blas, jobs, ops>>
    BY <1>2 DEF ReserveEstimate
  <2>2. frames \in Seq(Frames) /\ Kept(stack[t], frames) /\ stack[t] # <<>>
        /\ Top(t) \in WorkerFrames /\ Top(t) = stack[t][Len(stack[t])]
    BY <2>1, EstimateFrames
  <2>3. Top(t).estimate \in Nat /\ Top(t).kind = "worker" BY <2>2 DEF WorkerFrames
  <2>4. ops' \in [Threads -> Nat] BY <2>1 DEF Typed
  <2> HIDE DEF frames
  <2> QED BY <2>1, <2>2, <2>3, <2>4
<1> QED BY <1>1, <1>2

LEMMA ReserveShapes ==
  ASSUME Typed, Shapes, NEW t \in Threads, Reserve(t) \/ ReserveEstimate(t)
  PROVE  Typed' /\ Shapes'
<1>1. PICK amount \in Nat :
         \/ ReserveReuse(t, amount)
         \/ \E frames \in Seq(Frames) : /\ Kept(stack[t], frames)
                                        /\ ReserveAdditive(t, amount, frames)
  BY ReserveForms
<1>2. /\ UNCHANGED <<lock, envelope, current, policy, blas, jobs>>
      /\ ops' \in [Threads -> Nat]
      /\ stack[t] # <<>> /\ stack[t][Len(stack[t])].kind # "replicates"
  BY ReserveForms
<1>3. CASE ReserveReuse(t, amount) BY <1>2, <1>3, ExtendShapes
<1>4. CASE \E frames \in Seq(Frames) : Kept(stack[t], frames) /\ ReserveAdditive(t, amount, frames)
  BY <1>2, <1>4, ClaimShapes
<1> QED BY <1>1, <1>3, <1>4

LEMMA StartShapes ==
  ASSUME Typed, Shapes, NEW w \in Threads, NEW d \in Threads, StartTask(w, d)
  PROVE  Typed' /\ Shapes'
<1>1. PICK f \in JobFrames, g \in WorkerFrames :
              /\ f = stack[d][Len(stack[d])] /\ Pushes(w, g)
              /\ g.prev = current[w] /\ g.prevChain = chain[w]
              /\ g.slice = f.child /\ g.job = f.job /\ current'[w] = f.child
  BY StartTaskMoves
<1>2. /\ Typed' /\ lock' = lock /\ envelope' = envelope /\ stack[d] # <<>>
      /\ w = d \/ (w \in Pool /\ stack[w] = <<>>)
  BY StartTaskMoves
<1>3. f.kind = "replicates" /\ g.kind = "worker" /\ g \in Frames
  BY DEF JobFrames, WorkerFrames, Frames
<1>4. Shape(d, stack[d], current[d], lock, Len(envelope)) BY DEF Shapes
<1>5. Len(stack[d]) \in Nat \ {0}
  <2>1. stack[d] \in Seq(Frames) BY DEF Typed
  <2> QED BY <2>1, <1>2
<1>6. f.child.root = current[d].root /\ current[d].root \in 1..Len(envelope)
  <2>1. Len(stack[d]) \in 1..Len(stack[d]) BY <1>5
  <2> QED BY <1>1, <1>2, <1>3, <1>4, <2>1 DEF Shape
<1>7. CASE w = d BY <1>1, <1>2, <1>3, <1>6, <1>7, PushShapes
<1>8. CASE w \in Pool /\ stack[w] = <<>>
  <2>1. Shape(w, stack[w], current[w], lock, Len(envelope)) BY DEF Shapes
  <2>2. g.prev = NoAlloc BY <1>1, <1>8, <2>1 DEF Shape
  <2>3. Len(envelope) <= Len(envelope') BY <1>2 DEF Typed
  <2>4. current'[w].root \in 1..Len(envelope') BY <1>1, <1>2, <1>6
  <2> QED BY <1>1, <1>2, <1>3, <1>8, <2>2, <2>3, <2>4, FirstShapes
<1> QED BY <1>2, <1>7, <1>8

LEMMA LeaveShapes ==
  ASSUME Typed, Shapes, NEW t \in Threads,
         ExitCall(t) \/ ExitReserve(t) \/ EndTask(t) \/ EndJob(t)
  PROVE  Typed' /\ Shapes'
<1>1. CASE ExitCall(t)
  <2>1. PICK f \in CallFrames :
              /\ f = stack[t][Len(stack[t])] /\ current'[t] = f.prev
              /\ lock' = IF f.prev = NoAlloc THEN NoThread ELSE lock
    BY <1>1, ExitCallMoves
  <2>2. Typed' /\ Pops(t) /\ envelope' = envelope BY <1>1, ExitCallMoves
  <2>3. f.kind = "call" BY DEF CallFrames
  <2> QED BY <2>1, <2>2, <2>3, PopShapes
<1>2. CASE ExitReserve(t)
  <2>0. ReservationEnds(t, current[t].root) BY <1>2, ExitReserveMoves
  <2>1. PICK f \in ReserveFrames : f = stack[t][Len(stack[t])] BY <2>0 DEF ReservationEnds
  <2>2. Typed' /\ Pops(t) /\ envelope' = envelope /\ lock' = lock /\ current' = current
    BY <2>0 DEF ReservationEnds
  <2>3. f.kind = "reserve" BY DEF ReserveFrames
  <2> QED BY <2>1, <2>2, <2>3, PopShapes
<1>3. CASE EndTask(t)
  <2>1. PICK f \in WorkerFrames : f = stack[t][Len(stack[t])] /\ current'[t] = f.prev
    BY <1>3, EndTaskMoves
  <2>2. Typed' /\ Pops(t) /\ envelope' = envelope /\ lock' = lock BY <1>3, EndTaskMoves
  <2>3. f.kind = "worker" BY DEF WorkerFrames
  <2> QED BY <2>1, <2>2, <2>3, PopShapes
<1>4. CASE EndJob(t)
  <2>1. PICK f \in JobFrames : f = stack[t][Len(stack[t])] /\ current'[t] = f.prev
    BY <1>4, EndJobMoves
  <2>2. Typed' /\ Pops(t) /\ envelope' = envelope /\ lock' = lock BY <1>4, EndJobMoves
  <2>3. f.kind = "replicates" BY DEF JobFrames
  <2> QED BY <2>1, <2>2, <2>3, PopShapes
<1> QED BY <1>1, <1>2, <1>3, <1>4

LEMMA ShapesNext ==
  ASSUME Typed, Shapes, [Next]_vars
  PROVE  Typed' /\ Shapes'
<1>1. CASE UNCHANGED vars
  <2>1. Typed' BY <1>1 DEF Typed, vars
  <2>2. Shapes' BY <1>1 DEF Shapes, vars
  <2> QED BY <2>1, <2>2
<1>2. CASE Next
  <2>1. PICK t \in Threads : Step(t) BY <1>2 DEF Next
  <2>2. CASE EnterRoot(t) BY <2>2, RootShapes
  <2>3. CASE EnterNested(t) BY <2>3, NestedShapes
  <2>4. CASE ExitCall(t) \/ ExitReserve(t) \/ EndTask(t) \/ EndJob(t) BY <2>4, LeaveShapes
  <2>5. CASE Reserve(t) \/ ReserveEstimate(t) BY <2>5, ReserveShapes
  <2>6. CASE Dispatch(t) BY <2>6, DispatchShapes
  <2>7. CASE \E d \in Threads : StartTask(t, d) BY <2>7, StartShapes
  <2> QED BY <2>1, <2>2, <2>3, <2>4, <2>5, <2>6, <2>7 DEF Step
<1> QED BY <1>1, <1>2

LEMMA ShapesInvariant == Spec => [](Typed /\ Shapes)
<1>1. Init => Typed /\ Shapes BY TypedInit, ShapesInit
<1>2. Typed /\ Shapes /\ [Next]_vars => (Typed /\ Shapes)' BY ShapesNext
<1> QED BY <1>1, <1>2, PTL DEF Spec

-----------------------------------------------------------------------------
(* Which claims a thread may count as its own. *)

Additive(f) == f.kind = "reserve" /\ ~f.reuse

\* The scopes of a stack that made a claim, and the claims of thread t among the
\* first n scopes that were made since its innermost replicate there began.
Opened(s) == {b \in 1..Len(s) : Additive(s[b])}
OwnScopes(s, n) == {b \in 1..n : Additive(s[b]) /\ \A c \in b..n : s[c].kind # "worker"}
OwnKeys(t, s, n) == {<<t, b>> : b \in OwnScopes(s, n)}

LEMMA OwnSame ==
  ASSUME NEW t, NEW s, NEW z, NEW n \in Nat, \A i \in 1..n : Alike(s[i], z[i])
  PROVE  OwnKeys(t, z, n) = OwnKeys(t, s, n)
<1>1. \A i \in 1..n : z[i].kind = s[i].kind /\ (Additive(z[i]) <=> Additive(s[i]))
  BY DEF Alike, Additive
<1>2. OwnScopes(z, n) = OwnScopes(s, n) BY <1>1 DEF OwnScopes
<1> QED BY <1>2 DEF OwnKeys

LEMMA OwnNext ==
  ASSUME NEW t, NEW s, NEW n \in Nat
  PROVE  /\ s[n + 1].kind = "worker" => OwnKeys(t, s, n + 1) = {}
         /\ Additive(s[n + 1]) => OwnKeys(t, s, n + 1) = OwnKeys(t, s, n) \cup {<<t, n + 1>>}
         /\ s[n + 1].kind # "worker" /\ ~Additive(s[n + 1]) =>
              OwnKeys(t, s, n + 1) = OwnKeys(t, s, n)
<1>1. s[n + 1].kind = "worker" => OwnScopes(s, n + 1) = {}
  BY DEF OwnScopes
<1>2. Additive(s[n + 1]) => OwnScopes(s, n + 1) = OwnScopes(s, n) \cup {n + 1}
  <2> SUFFICES ASSUME Additive(s[n + 1]) PROVE OwnScopes(s, n + 1) = OwnScopes(s, n) \cup {n + 1}
    OBVIOUS
  <2>1. s[n + 1].kind # "worker" BY DEF Additive
  <2>2. ASSUME NEW b \in 1..n
        PROVE (\A c \in b..(n + 1) : s[c].kind # "worker") <=> (\A c \in b..n : s[c].kind # "worker")
    <3>1. b..(n + 1) = (b..n) \cup {n + 1} OBVIOUS
    <3> QED BY <2>1, <3>1
  <2>3. \A c \in (n + 1)..(n + 1) : c = n + 1 OBVIOUS
  <2>4. 1..(n + 1) = (1..n) \cup {n + 1} OBVIOUS
  <2> QED BY <2>1, <2>2, <2>3, <2>4 DEF OwnScopes
<1>3. s[n + 1].kind # "worker" /\ ~Additive(s[n + 1]) => OwnScopes(s, n + 1) = OwnScopes(s, n)
  <2> SUFFICES ASSUME s[n + 1].kind # "worker", ~Additive(s[n + 1])
               PROVE OwnScopes(s, n + 1) = OwnScopes(s, n)
    OBVIOUS
  <2>2. ASSUME NEW b \in 1..n
        PROVE (\A c \in b..(n + 1) : s[c].kind # "worker") <=> (\A c \in b..n : s[c].kind # "worker")
    <3>1. b..(n + 1) = (b..n) \cup {n + 1} OBVIOUS
    <3> QED BY <3>1
  <2>4. 1..(n + 1) = (1..n) \cup {n + 1} OBVIOUS
  <2> QED BY <2>2, <2>4 DEF OwnScopes
<1> QED BY <1>1, <1>2, <1>3 DEF OwnKeys

\* chain[t] and what the open scopes of t remember are the claims of t's slice.
Linked(t, s, a) ==
  /\ s[a].kind \in {"reserve", "worker"} => s[a].prevChain = OwnKeys(t, s, a - 1)
  /\ s[a].kind = "reserve" => IF s[a].reuse THEN s[a].key \in OwnKeys(t, s, a - 1)
                              ELSE s[a].key = <<t, a>> /\ s[a].previous = 0
Chained(t, s, ch) ==
  /\ ch = OwnKeys(t, s, Len(s))
  /\ \A a \in 1..Len(s) : Linked(t, s, a)

LEMMA ChainedPart ==
  ASSUME NEW t, NEW s \in Seq(Frames), NEW z \in Seq(Frames), NEW ch, Chained(t, s, ch),
         NEW n \in Nat, n <= Len(s), n <= Len(z), \A i \in 1..n : Alike(s[i], z[i])
  PROVE  /\ \A a \in 0..n : OwnKeys(t, z, a) = OwnKeys(t, s, a)
         /\ \A a \in 1..n : Linked(t, z, a)
<1>1. \A a \in 0..n : OwnKeys(t, z, a) = OwnKeys(t, s, a)
  <2> TAKE a \in 0..n
  <2>1. \A i \in 1..a : Alike(s[i], z[i]) OBVIOUS
  <2> QED BY <2>1, OwnSame
<1>2. Len(s) \in Nat OBVIOUS
<1>3. ASSUME NEW a \in 1..n
      PROVE Linked(t, z, a)
  <2>1. OwnKeys(t, z, a - 1) = OwnKeys(t, s, a - 1) BY <1>1
  <2>2. Alike(s[a], z[a]) /\ a \in 1..Len(s) BY <1>2
  <2>3. CASE s[a].kind = "reserve"
    <3>1. z[a] = s[a] BY <2>2, <2>3 DEF Alike
    <3> QED BY <2>1, <2>2, <2>3, <3>1 DEF Chained, Linked
  <2>4. CASE s[a].kind # "reserve"
    <3>1. z[a].kind = s[a].kind /\ (s[a].kind = "worker" => z[a].prevChain = s[a].prevChain)
      BY <2>2 DEF Alike
    <3> QED BY <2>1, <2>2, <2>4, <3>1 DEF Chained, Linked
  <2> QED BY <2>3, <2>4
<1> QED BY <1>1, <1>3

LEMMA ChainedKept ==
  ASSUME NEW t, NEW s \in Seq(Frames), NEW z \in Seq(Frames), NEW ch, Chained(t, s, ch), Kept(s, z)
  PROVE  Chained(t, z, ch)
<1> DEFINE n == Len(s)
<1>1. n \in Nat /\ n <= Len(s) /\ n <= Len(z) /\ \A i \in 1..n : Alike(s[i], z[i])
  BY DEF Kept
<1>3. Len(z) = n /\ ch = OwnKeys(t, s, n) BY DEF Chained, Kept
<1> HIDE DEF n
<1>2. /\ \A a \in 0..n : OwnKeys(t, z, a) = OwnKeys(t, s, a)
      /\ \A a \in 1..n : Linked(t, z, a)
  BY <1>1, ChainedPart
<1>4. ch = OwnKeys(t, z, n) BY <1>1, <1>2, <1>3
<1> QED BY <1>1, <1>2, <1>3, <1>4 DEF Chained

LEMMA ChainedPush ==
  ASSUME NEW t, NEW s \in Seq(Frames), NEW z \in Seq(Frames), NEW ch, Chained(t, s, ch),
         NEW f \in Frames, Pushed(s, z, f), NEW after,
         f.kind \in {"reserve", "worker"} => f.prevChain = ch,
         f.kind = "reserve" => IF f.reuse THEN f.key \in ch
                               ELSE f.key = <<t, Len(s) + 1>> /\ f.previous = 0,
         f.kind = "worker" => after = {},
         Additive(f) => after = ch \cup {<<t, Len(s) + 1>>},
         f.kind # "worker" /\ ~Additive(f) => after = ch
  PROVE  Chained(t, z, after)
<1> DEFINE n == Len(s)
<1>1. /\ n \in Nat /\ Len(z) = n + 1 /\ z[n + 1] = f /\ n <= Len(s) /\ n <= Len(z)
      /\ \A i \in 1..n : Alike(s[i], z[i])
  BY DEF Pushed
<1>2. /\ ch = OwnKeys(t, s, n)
      /\ f.kind = "reserve" => IF f.reuse THEN f.key \in ch
                               ELSE f.key = <<t, n + 1>> /\ f.previous = 0
      /\ Additive(f) => after = ch \cup {<<t, n + 1>>}
  BY DEF Chained
<1> HIDE DEF n
<1>3. /\ \A a \in 0..n : OwnKeys(t, z, a) = OwnKeys(t, s, a)
      /\ \A a \in 1..n : Linked(t, z, a)
  BY <1>1, ChainedPart
<1>4. OwnKeys(t, z, n) = ch BY <1>1, <1>2, <1>3
<1>5. after = OwnKeys(t, z, n + 1) BY <1>1, <1>2, <1>4, OwnNext
<1>6. ASSUME NEW a \in 1..(n + 1)
      PROVE Linked(t, z, a)
  <2>1. CASE a \in 1..n BY <2>1, <1>3
  <2>2. CASE a = n + 1
    <3>1. a - 1 = n BY <1>1, <2>2
    <3> QED BY <1>1, <1>2, <1>4, <2>2, <3>1 DEF Linked
  <2> QED BY <1>1, <2>1, <2>2
<1> QED BY <1>1, <1>5, <1>6 DEF Chained

LEMMA ChainedPop ==
  ASSUME NEW t, NEW s \in Seq(Frames), NEW z \in Seq(Frames), NEW ch, Chained(t, s, ch),
         Popped(s, z), NEW f, f = s[Len(s)], NEW after,
         after = IF f.kind \in {"reserve", "worker"} THEN f.prevChain ELSE ch
  PROVE  Chained(t, z, after)
<1> DEFINE n == Len(z)
<1>1. /\ n \in Nat /\ Len(s) = n + 1 /\ f = s[n + 1] /\ n <= Len(s) /\ n <= Len(z)
      /\ \A i \in 1..n : Alike(s[i], z[i])
  BY DEF Popped
<1> HIDE DEF n
<1>3. /\ \A a \in 0..n : OwnKeys(t, z, a) = OwnKeys(t, s, a)
      /\ \A a \in 1..n : Linked(t, z, a)
  BY <1>1, ChainedPart
<1>4. after = OwnKeys(t, s, n)
  <2>1. CASE f.kind \in {"reserve", "worker"}
    <3>1. n + 1 \in 1..Len(s) /\ (n + 1) - 1 = n BY <1>1
    <3>2. s[n + 1].prevChain = OwnKeys(t, s, (n + 1) - 1) BY <1>1, <2>1, <3>1 DEF Chained, Linked
    <3> QED BY <1>1, <2>1, <3>1, <3>2
  <2>2. CASE f.kind \notin {"reserve", "worker"}
    <3>1. ~Additive(f) /\ f.kind # "worker" BY <2>2 DEF Additive
    <3>2. OwnKeys(t, s, n + 1) = OwnKeys(t, s, n) BY <1>1, <3>1, OwnNext
    <3> QED BY <1>1, <2>2, <3>2 DEF Chained
  <2> QED BY <2>1, <2>2
<1>5. Len(z) = n /\ after = OwnKeys(t, z, n) BY <1>1, <1>3, <1>4 DEF n
<1> QED BY <1>3, <1>5 DEF Chained

LEMMA OpenedKept ==
  ASSUME NEW s \in Seq(Frames), NEW z \in Seq(Frames)
  PROVE  /\ Kept(s, z) => Opened(z) = Opened(s)
         /\ \A f : Pushed(s, z, f) => Opened(z) = IF Additive(f) THEN Opened(s) \cup {Len(s) + 1}
                                                  ELSE Opened(s)
         /\ Popped(s, z) => Opened(z) = Opened(s) \ {Len(s)}
<1>1. \A i : Alike(s[i], z[i]) => (Additive(z[i]) <=> Additive(s[i]))
  BY DEF Alike, Additive
<1>2. Len(s) \in Nat /\ Len(z) \in Nat OBVIOUS
<1>3. Kept(s, z) => Opened(z) = Opened(s) BY <1>1, <1>2 DEF Kept, Opened
<1>4. ASSUME NEW f, Pushed(s, z, f)
      PROVE Opened(z) = IF Additive(f) THEN Opened(s) \cup {Len(s) + 1} ELSE Opened(s)
  <2>1. 1..Len(z) = 1..Len(s) \cup {Len(s) + 1} BY <1>2, <1>4 DEF Pushed
  <2>2. \A i \in 1..Len(s) : Additive(z[i]) <=> Additive(s[i]) BY <1>1, <1>4 DEF Pushed
  <2>3. z[Len(s) + 1] = f BY <1>4 DEF Pushed
  <2> QED BY <2>1, <2>2, <2>3 DEF Opened
<1>5. ASSUME Popped(s, z) PROVE Opened(z) = Opened(s) \ {Len(s)}
  <2>1. 1..Len(z) = 1..Len(s) \ {Len(s)} BY <1>2, <1>5 DEF Popped
  <2>2. \A i \in 1..Len(z) : Additive(z[i]) <=> Additive(s[i]) BY <1>1, <1>5 DEF Popped
  <2> QED BY <2>1, <2>2 DEF Opened
<1> QED BY <1>3, <1>4, <1>5

-----------------------------------------------------------------------------
(* The ledger holds the claims of open scopes, and fits the envelope. *)

\* One claim of a table changes.
LEMMA ClaimedChange ==
  ASSUME NEW f, IsTable(f), NEW g, IsTable(g), DOMAIN g = DOMAIN f, NEW x \in DOMAIN f,
         \A y \in DOMAIN f \ {x} : g[y] = f[y]
  PROVE  Claimed(g) + f[x] = Claimed(f) + g[x]
<1> DEFINE h == Restrict(f, DOMAIN f \ {x})
<1>1. DOMAIN h = DOMAIN f \ {x} /\ \A y \in DOMAIN h : h[y] = f[y] /\ h[y] = g[y]
  BY DEF Restrict
<1> HIDE DEF h
<1>2. IsTable(h) /\ Claimed(f) = f[x] + Claimed(h) BY <1>1, ClaimedWithout
<1>3. Claimed(g) = g[x] + Claimed(h) BY <1>1, ClaimedWithout
<1>4. f[x] \in Nat /\ g[x] \in Nat /\ Claimed(h) \in Nat BY <1>2, ClaimedNat DEF IsTable
<1> QED BY <1>2, <1>3, <1>4

\* An extension remembers what it extended, and is ended before the one it extends.
Extending(f) == f.kind = "reserve" /\ f.reuse
Extension(s, claims, a) ==
  Extending(s[a]) =>
    /\ s[a].previous <= claims[s[a].key]
    /\ \A b \in 1..(a - 1) : Extending(s[b]) /\ s[b].key = s[a].key => s[b].previous <= s[a].previous
Extends(s, claims) == \A a \in 1..Len(s) : Extension(s, claims, a)

ThreadClaims(t) ==
  /\ Chained(t, stack[t], chain[t])
  /\ stack[t] # <<>> => Extends(stack[t], ledger[current[t].root])
  /\ \A r \in 1..Len(ledger) : \A b \in Nat :
       <<t, b>> \in DOMAIN ledger[r] <=> current[t].root = r /\ b \in Opened(stack[t])
Sums == \A r \in 1..Len(ledger) : Claimed(ledger[r]) <= envelope[r].budget
ClaimInv == Sums /\ \A t \in Threads : ThreadClaims(t)

LEMMA OwnOpened ==
  ASSUME NEW t, NEW s \in Seq(Frames), NEW n \in Nat, n <= Len(s)
  PROVE  \A k \in OwnKeys(t, s, n) : \E b \in Opened(s) : b <= n /\ k = <<t, b>>
<1>1. Len(s) \in Nat OBVIOUS
<1> QED BY <1>1 DEF OwnKeys, OwnScopes, Opened

LEMMA SelfKeys ==
  ASSUME Typed, Shapes, NEW t \in Threads, ThreadClaims(t), stack[t] # <<>>,
         NEW r, r = current[t].root
  PROVE  /\ r \in 1..Len(ledger)
         /\ Known(t) = chain[t] /\ chain[t] \subseteq DOMAIN ledger[r]
         /\ \A a \in 1..Len(stack[t]) : Extending(stack[t][a]) =>
              \E b \in 1..(a - 1) : stack[t][a].key = <<t, b>> /\ <<t, b>> \in DOMAIN ledger[r]
<1>1. r \in 1..Len(ledger) BY RootOf
<1>2. stack[t] \in Seq(Frames) /\ Len(stack[t]) \in Nat BY DEF Typed
<1>3. \A b \in Opened(stack[t]) : b \in Nat /\ b >= 1 /\ <<t, b>> \in DOMAIN ledger[r]
  BY <1>1, <1>2 DEF ThreadClaims, Opened
<1>4. chain[t] = OwnKeys(t, stack[t], Len(stack[t])) BY DEF ThreadClaims, Chained
<1>5. chain[t] \subseteq DOMAIN ledger[r] BY <1>2, <1>3, <1>4, OwnOpened
<1>6. ASSUME NEW a \in 1..Len(stack[t]), Extending(stack[t][a])
      PROVE  \E b \in 1..(a - 1) : stack[t][a].key = <<t, b>> /\ <<t, b>> \in DOMAIN ledger[r]
  <2>1. stack[t][a].key \in OwnKeys(t, stack[t], a - 1)
    BY <1>6 DEF ThreadClaims, Chained, Linked, Extending
  <2>2. a - 1 \in Nat /\ a - 1 <= Len(stack[t]) BY <1>2
  <2>3. PICK b \in Opened(stack[t]) : b <= a - 1 /\ stack[t][a].key = <<t, b>>
    BY <1>2, <2>1, <2>2, OwnOpened
  <2> QED BY <1>3, <2>2, <2>3
<1> QED BY <1>1, <1>5, <1>6 DEF Known

LEMMA ExtendsPart ==
  ASSUME NEW s \in Seq(Frames), NEW z \in Seq(Frames), NEW claims, Extends(s, claims),
         NEW n \in Nat, n <= Len(s), \A i \in 1..n : Alike(s[i], z[i]), NEW after,
         \A i \in 1..n : Extending(s[i]) => s[i].previous <= after[s[i].key]
  PROVE  \A a \in 1..n : Extension(z, after, a)
<1>1. \A i \in 1..n : /\ Extending(z[i]) <=> Extending(s[i])
                      /\ Extending(s[i]) => z[i] = s[i]
  BY DEF Alike, Extending
<1>2. Len(s) \in Nat OBVIOUS
<1>3. \A a \in 1..n : a \in 1..Len(s) BY <1>2
<1> QED BY <1>1, <1>3 DEF Extension, Extends

\* The claims of the other threads stay as they are.
OtherClaims(t) ==
  /\ Len(ledger) <= Len(ledger')
  /\ \A r \in 1..Len(ledger) : \A u \in Threads \ {t}, b \in Nat :
       /\ <<u, b>> \in DOMAIN ledger[r] <=> <<u, b>> \in DOMAIN ledger'[r]
       /\ <<u, b>> \in DOMAIN ledger[r] => ledger'[r][<<u, b>>] = ledger[r][<<u, b>>]
  /\ \A r \in (Len(ledger) + 1)..Len(ledger') : DOMAIN ledger'[r] = {}

LEMMA RootBound ==
  ASSUME Typed, Shapes, NEW t \in Threads
  PROVE  current[t].root \in 0..Len(ledger) /\ (stack[t] # <<>> => current[t].root \in 1..Len(ledger))
<1>1. Shape(t, stack[t], current[t], lock, Len(envelope)) BY DEF Shapes
<1>2. Len(envelope) \in Nat /\ Len(ledger) = Len(envelope) BY DEF Typed
<1>3. NoAlloc.root = 0 BY DEF NoAlloc
<1> QED BY <1>1, <1>2, <1>3 DEF Shape

LEMMA OthersClaims ==
  ASSUME Typed, Typed', Shapes, ClaimInv, NEW t \in Threads, Stays(t), OtherClaims(t)
  PROVE  \A u \in Threads \ {t} : ThreadClaims(u)'
<1> TAKE u \in Threads \ {t}
<1>1. stack[u] \in Seq(Frames) /\ stack'[u] \in Seq(Frames) /\ Len(stack[u]) \in Nat
      /\ Len(ledger) \in Nat /\ Len(ledger') \in Nat
  BY DEF Typed
<1>2. Kept(stack[u], stack'[u]) /\ current'[u] = current[u] /\ chain'[u] = chain[u]
  BY DEF Stays
<1>3. ThreadClaims(u) BY DEF ClaimInv
<1>4. Chained(u, stack'[u], chain'[u]) BY <1>1, <1>2, <1>3, ChainedKept DEF ThreadClaims
<1>5. ASSUME stack'[u] # <<>> PROVE Extends(stack'[u], ledger'[current'[u].root])
  <2> DEFINE r == current[u].root
             n == Len(stack[u])
  <2>1. Len(stack'[u]) = n /\ n \in Nat /\ \A i \in 1..n : Alike(stack[u][i], stack'[u][i])
    BY <1>1, <1>2 DEF Kept
  <2>2. stack[u] # <<>> BY <1>1, <1>5, <2>1
  <2>3. r \in 1..Len(ledger) BY <2>2, RootBound
  <2>4. Extends(stack[u], ledger[r]) BY <1>3, <2>2 DEF ThreadClaims
  <2> HIDE DEF n
  <2>5. ASSUME NEW i \in 1..n, Extending(stack[u][i])
        PROVE  stack[u][i].previous <= ledger'[r][stack[u][i].key]
    <3>1. PICK b \in 1..(i - 1) : stack[u][i].key = <<u, b>> /\ <<u, b>> \in DOMAIN ledger[r]
      BY <1>3, <2>2, <2>5, SelfKeys DEF n
    <3>2. b \in Nat BY <2>1
    <3>3. ledger'[r][<<u, b>>] = ledger[r][<<u, b>>] BY <2>3, <3>1, <3>2 DEF OtherClaims
    <3>4. stack[u][i].previous <= ledger[r][stack[u][i].key]
      BY <2>4, <2>5 DEF Extends, Extension, n
    <3> QED BY <3>1, <3>3, <3>4
  <2>6. n <= Len(stack[u]) BY <1>1 DEF n
  <2> HIDE DEF r
  <2>7. \A a \in 1..n : Extension(stack'[u], ledger'[r], a)
    BY <1>1, <2>1, <2>4, <2>5, <2>6, ExtendsPart
  <2> QED BY <1>2, <2>1, <2>7 DEF Extends, r
<1>6. ASSUME NEW r \in 1..Len(ledger'), NEW b \in Nat
      PROVE <<u, b>> \in DOMAIN ledger'[r] <=> current'[u].root = r /\ b \in Opened(stack'[u])
  <2>1. Opened(stack'[u]) = Opened(stack[u]) BY <1>1, <1>2, OpenedKept
  <2>2. CASE r \in 1..Len(ledger)
    <3>1. <<u, b>> \in DOMAIN ledger[r] <=> <<u, b>> \in DOMAIN ledger'[r]
      BY <2>2 DEF OtherClaims
    <3> QED BY <1>2, <1>3, <2>1, <2>2, <3>1 DEF ThreadClaims
  <2>3. CASE r \in (Len(ledger) + 1)..Len(ledger')
    <3>1. DOMAIN ledger'[r] = {} BY <2>3 DEF OtherClaims
    <3>2. current[u].root \in 0..Len(ledger) BY RootBound
    <3>3. current[u].root # r BY <1>1, <2>3, <3>2
    <3> QED BY <1>2, <3>1, <3>3
  <2> QED BY <1>1, <2>2, <2>3
<1> QED BY <1>4, <1>5, <1>6 DEF ThreadClaims

\* Opening a scope that claims nothing.
QuietLedger ==
  /\ Len(ledger) <= Len(ledger')
  /\ \A r \in 1..Len(ledger) : ledger'[r] = ledger[r]
  /\ \A r \in (Len(ledger) + 1)..Len(ledger') : DOMAIN ledger'[r] = {}

LEMMA QuietPush ==
  ASSUME Typed, Typed', Shapes, NEW t \in Threads, ThreadClaims(t), NEW f \in Frames,
         Pushes(t, f), f.kind \in {"call", "worker", "replicates"}, QuietLedger,
         chain'[t] = IF f.kind = "worker" THEN {} ELSE chain[t],
         f.kind = "worker" => f.prevChain = chain[t],
         stack[t] # <<>> => current'[t].root = current[t].root
  PROVE  ThreadClaims(t)'
<1> DEFINE n == Len(stack[t])
<1>1. stack[t] \in Seq(Frames) /\ stack'[t] \in Seq(Frames) /\ n \in Nat
      /\ Len(ledger) \in Nat /\ Len(ledger') \in Nat
  BY DEF Typed
<1>2. Pushed(stack[t], stack'[t], f) BY DEF Pushes
<1>3. ~Additive(f) /\ ~Extending(f) BY DEF Additive, Extending
<1>4. Chained(t, stack'[t], chain'[t])
  BY <1>1, <1>2, <1>3, ChainedPush DEF ThreadClaims
<1>5. /\ Len(stack'[t]) = n + 1 /\ stack'[t][n + 1] = f
      /\ \A i \in 1..n : Alike(stack[t][i], stack'[t][i])
  BY <1>2 DEF Pushed
<1>6. Opened(stack'[t]) = Opened(stack[t]) BY <1>1, <1>2, <1>3, OpenedKept
<1>7. stack[t] = <<>> => n = 0 /\ Opened(stack[t]) = {} BY DEF Opened
<1>8. stack[t] # <<>> => current[t].root \in 1..Len(ledger) BY RootBound
<1>9. \A a \in 1..n : Extension(stack'[t], ledger'[current'[t].root], a)
  <2>1. CASE stack[t] = <<>> BY <1>7, <2>1
  <2>2. CASE stack[t] # <<>>
    <3> DEFINE c == ledger[current[t].root]
    <3>1. Extends(stack[t], c) BY <2>2 DEF ThreadClaims
    <3>2. ledger'[current'[t].root] = c BY <1>8, <2>2 DEF QuietLedger
    <3>3. n <= Len(stack[t]) BY <1>1
    <3> HIDE DEF c, n
    <3>4. \A i \in 1..n : Extending(stack[t][i]) => stack[t][i].previous <= c[stack[t][i].key]
      BY <3>1 DEF Extends, Extension, n
    <3>5. \A a \in 1..n : Extension(stack'[t], c, a)
      BY <1>1, <1>5, <3>1, <3>3, <3>4, ExtendsPart
    <3> QED BY <3>2, <3>5
  <2> QED BY <2>1, <2>2
<1>10. Extension(stack'[t], ledger'[current'[t].root], n + 1) BY <1>3, <1>5 DEF Extension
<1>11. Extends(stack'[t], ledger'[current'[t].root])
  <2> HIDE DEF n
  <2>1. \A a \in 1..(n + 1) : a \in 1..n \/ a = n + 1 BY <1>1
  <2> QED BY <1>5, <1>9, <1>10, <2>1 DEF Extends
<1>12. ASSUME NEW r \in 1..Len(ledger'), NEW b \in Nat
       PROVE <<t, b>> \in DOMAIN ledger'[r] <=> current'[t].root = r /\ b \in Opened(stack'[t])
  <2>1. CASE r \in 1..Len(ledger)
    <3>1. <<t, b>> \in DOMAIN ledger'[r] <=> current[t].root = r /\ b \in Opened(stack[t])
      BY <2>1 DEF QuietLedger, ThreadClaims
    <3> QED BY <1>6, <1>7, <3>1
  <2>2. CASE r \in (Len(ledger) + 1)..Len(ledger')
    <3>1. DOMAIN ledger'[r] = {} BY <2>2 DEF QuietLedger
    <3>2. stack[t] # <<>> => current'[t].root # r BY <1>1, <1>8, <2>2
    <3> QED BY <1>6, <1>7, <3>1, <3>2
  <2> QED BY <1>1, <2>1, <2>2
<1> QED BY <1>4, <1>11, <1>12 DEF ThreadClaims

\* Closing one.
LEMMA QuietPop ==
  ASSUME Typed, Typed', Shapes, NEW t \in Threads, ThreadClaims(t),
         NEW f, f = stack[t][Len(stack[t])], Pops(t),
         f.kind \in {"call", "worker", "replicates"}, ledger' = ledger,
         chain'[t] = IF f.kind = "worker" THEN f.prevChain ELSE chain[t],
         stack'[t] # <<>> => current'[t].root = current[t].root
  PROVE  ThreadClaims(t)'
<1> DEFINE n == Len(stack'[t])
<1>1. stack[t] \in Seq(Frames) /\ stack'[t] \in Seq(Frames) /\ n \in Nat BY DEF Typed
<1>2. Popped(stack[t], stack'[t]) BY DEF Pops
<1>3. ~Additive(f) BY DEF Additive
<1>4. Chained(t, stack'[t], chain'[t])
  BY <1>1, <1>2, ChainedPop DEF ThreadClaims
<1>5. /\ Len(stack[t]) = n + 1 /\ n <= Len(stack[t]) /\ stack[t] # <<>>
      /\ \A i \in 1..n : Alike(stack[t][i], stack'[t][i])
  BY <1>1, <1>2 DEF Popped
<1>6. Opened(stack'[t]) = Opened(stack[t])
  <2>1. Len(stack[t]) \notin Opened(stack[t]) BY <1>3 DEF Opened
  <2>2. Opened(stack'[t]) = Opened(stack[t]) \ {Len(stack[t])} BY <1>1, <1>2, OpenedKept
  <2> QED BY <2>1, <2>2
<1>7. stack'[t] = <<>> => Opened(stack'[t]) = {} BY DEF Opened
<1>8. ASSUME stack'[t] # <<>> PROVE Extends(stack'[t], ledger'[current'[t].root])
  <2> DEFINE c == ledger[current[t].root]
  <2>1. Extends(stack[t], c) BY <1>5 DEF ThreadClaims
  <2>2. ledger'[current'[t].root] = c BY <1>8
  <2> HIDE DEF c, n
  <2>3. \A i \in 1..n : i \in 1..Len(stack[t]) BY <1>1, <1>5
  <2>4. \A i \in 1..n : Extending(stack[t][i]) => stack[t][i].previous <= c[stack[t][i].key]
    BY <2>1, <2>3 DEF Extends, Extension
  <2>5. \A a \in 1..n : Extension(stack'[t], c, a)
    BY <1>1, <1>5, <2>1, <2>4, ExtendsPart
  <2> QED BY <2>2, <2>5 DEF Extends, n
<1>9. ASSUME NEW r \in 1..Len(ledger'), NEW b \in Nat
      PROVE <<t, b>> \in DOMAIN ledger'[r] <=> current'[t].root = r /\ b \in Opened(stack'[t])
  <2>1. <<t, b>> \in DOMAIN ledger'[r] <=> current[t].root = r /\ b \in Opened(stack[t])
    BY DEF ThreadClaims
  <2> QED BY <1>6, <1>7, <2>1
<1> QED BY <1>4, <1>8, <1>9 DEF ThreadClaims

\* What a reservation of t changes of the ledger: one claim of t, in its root call.
OneClaim(t, r, key) ==
  /\ OtherLedgers(r)
  /\ \E b \in Nat : key = <<t, b>>
  /\ DOMAIN ledger'[r] \ {key} = DOMAIN ledger[r] \ {key}
  /\ \A k \in DOMAIN ledger[r] \ {key} : ledger'[r][k] = ledger[r][k]

LEMMA OneClaimOthers ==
  ASSUME Typed, NEW t \in Threads, NEW r \in 1..Len(ledger), NEW key, OneClaim(t, r, key)
  PROVE  OtherClaims(t)
<1>1. Len(ledger') = Len(ledger) /\ Len(ledger) \in Nat BY DEF OneClaim, OtherLedgers, Typed
<1>2. ASSUME NEW i \in 1..Len(ledger), NEW u \in Threads \ {t}, NEW b \in Nat
      PROVE /\ <<u, b>> \in DOMAIN ledger[i] <=> <<u, b>> \in DOMAIN ledger'[i]
            /\ <<u, b>> \in DOMAIN ledger[i] => ledger'[i][<<u, b>>] = ledger[i][<<u, b>>]
  <2>1. <<u, b>> # key BY DEF OneClaim
  <2>2. CASE i = r BY <2>1, <2>2 DEF OneClaim
  <2>3. CASE i # r
    <3>1. ledger'[i] = ledger[i] BY <2>3 DEF OneClaim, OtherLedgers
    <3> QED BY <3>1
  <2> QED BY <2>2, <2>3
<1>3. \A i \in (Len(ledger) + 1)..Len(ledger') : DOMAIN ledger'[i] = {} BY <1>1
<1> QED BY <1>1, <1>2, <1>3 DEF OtherClaims

LEMMA ClaimPush ==
  ASSUME Typed, Typed', Shapes, NEW t \in Threads, ThreadClaims(t), stack[t] # <<>>,
         NEW f \in ReserveFrames, Pushes(t, f), current' = current, NEW r, r = current[t].root,
         OtherLedgers(r), f.prevChain = chain[t],
         \/ /\ ~f.reuse /\ f.previous = 0 /\ f.key = <<t, Len(stack[t]) + 1>>
            /\ chain'[t] = Known(t) \cup {f.key}
            /\ DOMAIN ledger'[r] = DOMAIN ledger[r] \cup {f.key}
         \/ /\ f.reuse /\ f.key \in Known(t) /\ f.previous = ledger[r][f.key]
            /\ chain'[t] = Known(t)
            /\ DOMAIN ledger'[r] = DOMAIN ledger[r]
            /\ ledger'[r][f.key] >= f.previous,
         \A k \in DOMAIN ledger[r] \ {f.key} : ledger'[r][k] = ledger[r][k]
  PROVE  ThreadClaims(t)' /\ OneClaim(t, r, f.key)
         /\ (~f.reuse => f.key \notin DOMAIN ledger[r])
<1> DEFINE n == Len(stack[t])
<1>1. stack[t] \in Seq(Frames) /\ stack'[t] \in Seq(Frames) /\ n \in Nat BY DEF Typed
<1>2. Pushed(stack[t], stack'[t], f) BY DEF Pushes
<1>3. /\ f \in Frames /\ f.kind = "reserve" /\ f.reuse \in BOOLEAN /\ f.previous \in Nat
      /\ Additive(f) <=> ~f.reuse
      /\ Extending(f) <=> f.reuse
  BY DEF ReserveFrames, Frames, Additive, Extending
<1>4. r \in 1..Len(ledger) /\ Known(t) = chain[t] /\ chain[t] \subseteq DOMAIN ledger[r]
      /\ \A a \in 1..n : Extending(stack[t][a]) =>
           \E b \in 1..(a - 1) : stack[t][a].key = <<t, b>> /\ <<t, b>> \in DOMAIN ledger[r]
  BY SelfKeys
<1>5. Chained(t, stack[t], chain[t]) BY DEF ThreadClaims
<1>6. chain'[t] = IF f.reuse THEN chain[t] ELSE chain[t] \cup {<<t, Len(stack[t]) + 1>>}
  BY <1>3, <1>4
<1>7. Chained(t, stack'[t], chain'[t])
  <2>1. IF f.reuse THEN f.key \in chain[t] ELSE f.key = <<t, Len(stack[t]) + 1>> /\ f.previous = 0
    BY <1>3, <1>4
  <2> QED BY <1>1, <1>2, <1>3, <1>5, <1>6, <2>1, ChainedPush
<1>8. /\ Len(stack'[t]) = n + 1 /\ stack'[t][n + 1] = f
      /\ \A i \in 1..n : Alike(stack[t][i], stack'[t][i])
  BY <1>2 DEF Pushed
<1>9. Opened(stack'[t]) = IF f.reuse THEN Opened(stack[t]) ELSE Opened(stack[t]) \cup {n + 1}
  <2>1. Opened(stack'[t]) = IF Additive(f) THEN Opened(stack[t]) \cup {Len(stack[t]) + 1}
                            ELSE Opened(stack[t])
    BY <1>1, <1>2, OpenedKept
  <2> QED BY <1>3, <2>1
<1>10. n + 1 \notin Opened(stack[t]) BY <1>1 DEF Opened
<1>11. \A b \in Nat : <<t, b>> \in DOMAIN ledger[r] <=> b \in Opened(stack[t])
  BY <1>4 DEF ThreadClaims
<1>12. ~f.reuse => f.key \notin DOMAIN ledger[r]
  <2> SUFFICES ASSUME ~f.reuse PROVE f.key \notin DOMAIN ledger[r] OBVIOUS
  <2>1. f.key = <<t, n + 1>> /\ n + 1 \in Nat BY <1>1
  <2> QED BY <2>1, <1>10, <1>11
<1>13. DOMAIN ledger'[r] = IF f.reuse THEN DOMAIN ledger[r] ELSE DOMAIN ledger[r] \cup {f.key}
  BY <1>3
<1>14. f.key \in Keys /\ \E b \in Nat : f.key = <<t, b>>
  <2>1. CASE ~f.reuse BY <1>1, <2>1, <1>3 DEF ReserveFrames
  <2>2. CASE f.reuse
    <3>1. f.key \in OwnKeys(t, stack[t], n) BY <1>3, <1>4, <1>5, <2>2 DEF Chained
    <3>2. n <= Len(stack[t]) BY <1>1
    <3>3. PICK b \in Opened(stack[t]) : f.key = <<t, b>> BY <1>1, <3>1, <3>2, OwnOpened
    <3>4. b \in Nat BY <1>1 DEF Opened
    <3> QED BY <3>3, <3>4 DEF Keys
  <2> QED BY <1>3, <2>1, <2>2
<1>15. OneClaim(t, r, f.key)
  <2>1. DOMAIN ledger'[r] \ {f.key} = DOMAIN ledger[r] \ {f.key} BY <1>13
  <2> QED BY <1>14, <2>1 DEF OneClaim
<1>16. \A a \in 1..n : Extending(stack[t][a]) => stack[t][a].key \in DOMAIN ledger[r]
  BY <1>4
<1>17. Extends(stack[t], ledger[r]) BY DEF ThreadClaims
<1> DEFINE c == ledger[r]
           d == ledger'[r]
<1>18. /\ \A k \in DOMAIN c : c[k] \in Nat /\ d[k] \in Nat
  <2>1. c \in Tables /\ d \in Tables
    <3>1. ledger \in Seq(Tables) /\ ledger' \in Seq(Tables) /\ Len(ledger') = Len(ledger)
      BY DEF Typed, OtherLedgers
    <3> QED BY <1>4, <3>1
  <2>2. DOMAIN c \subseteq DOMAIN d BY <1>13
  <2> QED BY <2>1, <2>2, TableOf DEF IsTable
<1>19. \A k \in DOMAIN c : c[k] <= d[k]
  <2> TAKE k \in DOMAIN c
  <2>1. CASE k # f.key BY <2>1, <1>18
  <2>2. CASE k = f.key BY <2>2, <1>3, <1>12, <1>18
  <2> QED BY <2>1, <2>2
<1>20. \A a \in 1..n : Extending(stack[t][a]) => stack[t][a].previous \in Nat
  <2> TAKE a \in 1..n
  <2>1. stack[t][a] \in Frames BY <1>1
  <2> QED BY <2>1, FrameOfKind DEF Extending, ReserveFrames
<1> HIDE DEF c, d
<1>21. \A a \in 1..n : Extension(stack'[t], d, a)
  <2>1. \A i \in 1..n : Extending(stack[t][i]) => stack[t][i].previous <= c[stack[t][i].key]
    BY <1>17 DEF Extends, Extension, c
  <2>2. \A i \in 1..n : Extending(stack[t][i]) => stack[t][i].previous <= d[stack[t][i].key]
    <3> SUFFICES ASSUME NEW i \in 1..n, Extending(stack[t][i])
                 PROVE stack[t][i].previous <= d[stack[t][i].key]
      OBVIOUS
    <3> DEFINE k == stack[t][i].key
    <3>1. k \in DOMAIN c BY <1>16 DEF c
    <3>2. stack[t][i].previous <= c[k] /\ stack[t][i].previous \in Nat BY <2>1, <1>20
    <3> QED BY <3>1, <3>2, <1>18, <1>19
  <2>3. n <= Len(stack[t]) /\ Extends(stack[t], c) BY <1>1, <1>17 DEF c
  <2> HIDE DEF n
  <2> QED BY <1>1, <1>8, <2>2, <2>3, ExtendsPart
<1>22. Extension(stack'[t], d, n + 1)
  <2>1. CASE ~f.reuse BY <2>1, <1>3, <1>8 DEF Extension
  <2>2. CASE f.reuse
    <3>1. f.previous <= d[f.key] BY <1>3, <1>4, <1>18, <2>2 DEF c, d
    <3>2. f.previous = c[f.key] BY <1>3, <2>2 DEF c
    <3>3. \A b \in 1..n : Extending(stack'[t][b]) /\ stack'[t][b].key = f.key
                            => stack'[t][b].previous <= f.previous
      <4> SUFFICES ASSUME NEW b \in 1..n, Extending(stack'[t][b]), stack'[t][b].key = f.key
                   PROVE stack'[t][b].previous <= f.previous
        OBVIOUS
      <4>1. Alike(stack[t][b], stack'[t][b]) BY <1>8
      <4>2. stack'[t][b] = stack[t][b] BY <4>1 DEF Alike, Extending
      <4>3. stack[t][b].previous <= c[stack[t][b].key]
        BY <4>2, <1>17 DEF Extends, Extension, c
      <4> QED BY <3>2, <4>2, <4>3
    <3>4. (n + 1) - 1 = n BY <1>1
    <3> HIDE DEF n
    <3> QED BY <1>8, <3>1, <3>3, <3>4 DEF Extension
  <2> QED BY <2>1, <2>2
<1>23. Extends(stack'[t], ledger'[current'[t].root])
  <2> HIDE DEF n
  <2>1. \A a \in 1..(n + 1) : a \in 1..n \/ a = n + 1 BY <1>1
  <2> QED BY <1>8, <1>21, <1>22, <2>1 DEF Extends, d
<1>24. ASSUME NEW i \in 1..Len(ledger'), NEW b \in Nat
       PROVE <<t, b>> \in DOMAIN ledger'[i] <=> current'[t].root = i /\ b \in Opened(stack'[t])
  <2>1. i \in 1..Len(ledger) BY DEF OtherLedgers
  <2>2. CASE i # r
    <3>1. ledger'[i] = ledger[i] BY <2>1, <2>2 DEF OtherLedgers
    <3>2. <<t, b>> \in DOMAIN ledger[i] <=> current[t].root = i /\ b \in Opened(stack[t])
      BY <2>1 DEF ThreadClaims
    <3> QED BY <2>2, <3>1, <3>2
  <2>3. CASE i = r
    <3>1. <<t, b>> \in DOMAIN ledger'[r] <=> b \in Opened(stack'[t])
      <4>1. CASE f.reuse BY <4>1, <1>9, <1>11, <1>13
      <4>2. CASE ~f.reuse
        <5>1. f.key = <<t, n + 1>> BY <4>2
        <5>2. <<t, b>> = f.key <=> b = n + 1 BY <5>1
        <5> HIDE DEF n
        <5> QED BY <4>2, <5>2, <1>9, <1>11, <1>13
      <4> QED BY <4>1, <4>2
    <3> QED BY <2>3, <3>1
  <2> QED BY <2>2, <2>3
<1> QED BY <1>7, <1>12, <1>15, <1>23, <1>24 DEF ThreadClaims

LEMMA ClaimPop ==
  ASSUME Typed, Typed', Shapes, NEW t \in Threads, ThreadClaims(t), NEW f \in ReserveFrames,
         f = stack[t][Len(stack[t])], Pops(t), current' = current, NEW r, r = current[t].root,
         OtherLedgers(r), chain'[t] = f.prevChain,
         f.reuse => /\ DOMAIN ledger'[r] = DOMAIN ledger[r]
                    /\ f.key \in DOMAIN ledger[r] => ledger'[r][f.key] = f.previous,
         ~f.reuse => DOMAIN ledger'[r] = DOMAIN ledger[r] \ {f.key},
         \A k \in DOMAIN ledger[r] \ {f.key} : ledger'[r][k] = ledger[r][k]
  PROVE  ThreadClaims(t)' /\ OneClaim(t, r, f.key) /\ f.key \in DOMAIN ledger[r]
         /\ (f.reuse => f.previous <= ledger[r][f.key])
<1> DEFINE n == Len(stack'[t])
<1>1. stack[t] \in Seq(Frames) /\ stack'[t] \in Seq(Frames) /\ n \in Nat BY DEF Typed
<1>2. Popped(stack[t], stack'[t]) BY DEF Pops
<1>3. /\ f \in Frames /\ f.kind = "reserve" /\ f.reuse \in BOOLEAN /\ f.previous \in Nat
      /\ Additive(f) <=> ~f.reuse
      /\ Extending(f) <=> f.reuse
  BY DEF ReserveFrames, Frames, Additive, Extending
<1>5. /\ Len(stack[t]) = n + 1 /\ n <= Len(stack[t]) /\ stack[t] # <<>>
      /\ n + 1 \in 1..Len(stack[t]) /\ f = stack[t][n + 1]
      /\ \A i \in 1..n : Alike(stack[t][i], stack'[t][i]) /\ i \in 1..Len(stack[t])
  BY <1>1, <1>2 DEF Popped
<1>4. r \in 1..Len(ledger) /\ Known(t) = chain[t] /\ chain[t] \subseteq DOMAIN ledger[r]
      /\ \A a \in 1..Len(stack[t]) : Extending(stack[t][a]) =>
           \E b \in 1..(a - 1) : stack[t][a].key = <<t, b>> /\ <<t, b>> \in DOMAIN ledger[r]
  BY <1>5, SelfKeys
<1>6. Chained(t, stack'[t], chain'[t])
  <2>1. Chained(t, stack[t], chain[t]) BY DEF ThreadClaims
  <2> QED BY <1>1, <1>2, <1>3, <2>1, ChainedPop
<1>7. Opened(stack'[t]) = Opened(stack[t]) \ {n + 1}
  <2>1. Opened(stack'[t]) = Opened(stack[t]) \ {Len(stack[t])} BY <1>1, <1>2, OpenedKept
  <2> QED BY <1>5, <2>1
<1>8. f.reuse => n + 1 \notin Opened(stack[t]) BY <1>3, <1>5 DEF Opened
<1>9. ~f.reuse => f.key = <<t, n + 1>> /\ n + 1 \in Opened(stack[t])
  BY <1>3, <1>5 DEF ThreadClaims, Chained, Linked, Opened
<1>10. \A b \in Nat : <<t, b>> \in DOMAIN ledger[r] <=> b \in Opened(stack[t])
  BY <1>4 DEF ThreadClaims
<1>11. f.key \in DOMAIN ledger[r] /\ \E b \in Nat : f.key = <<t, b>>
  <2>1. CASE ~f.reuse
    <3>1. n + 1 \in Nat BY <1>1
    <3> QED BY <2>1, <3>1, <1>9, <1>10
  <2>2. CASE f.reuse
    <3>1. PICK b \in 1..((n + 1) - 1) : f.key = <<t, b>> /\ <<t, b>> \in DOMAIN ledger[r]
      BY <1>3, <1>4, <1>5, <2>2
    <3>2. b \in Nat BY <1>1
    <3> QED BY <3>1, <3>2
  <2> QED BY <1>3, <2>1, <2>2
<1>12. Extends(stack[t], ledger[r]) BY <1>5 DEF ThreadClaims
<1>13. f.reuse => f.previous <= ledger[r][f.key]
  BY <1>3, <1>5, <1>12 DEF Extends, Extension
<1>14. OneClaim(t, r, f.key)
  <2>1. DOMAIN ledger'[r] \ {f.key} = DOMAIN ledger[r] \ {f.key} BY <1>3
  <2> QED BY <1>11, <2>1 DEF OneClaim
<1>15. ASSUME NEW a \in 1..n, Extending(stack[t][a])
       PROVE  stack[t][a].previous <= ledger'[r][stack[t][a].key]
  <2> DEFINE k == stack[t][a].key
  <2>1. PICK b \in 1..(a - 1) : k = <<t, b>> /\ <<t, b>> \in DOMAIN ledger[r]
    BY <1>4, <1>5, <1>15
  <2>2. stack[t][a].previous <= ledger[r][k] BY <1>5, <1>12, <1>15 DEF Extends, Extension
  <2>3. CASE k # f.key BY <2>1, <2>2, <2>3
  <2>4. CASE k = f.key
    <3>1. f.reuse
      <4>1. SUFFICES ASSUME ~f.reuse PROVE FALSE BY <1>3
      <4>2. b = n + 1 BY <1>9, <2>1, <2>4, <4>1
      <4> QED BY <1>1, <2>1, <4>2
    <3>2. a \in 1..((n + 1) - 1) BY <1>1
    <3>3. stack[t][a].previous <= f.previous
      BY <1>3, <1>5, <1>12, <1>15, <2>4, <3>1, <3>2 DEF Extends, Extension
    <3>4. ledger'[r][f.key] = f.previous BY <1>11, <3>1
    <3> QED BY <2>4, <3>3, <3>4
  <2> QED BY <2>3, <2>4
<1>16. Extends(stack'[t], ledger'[current'[t].root])
  <2> DEFINE c == ledger[r]
             d == ledger'[r]
  <2>1. Extends(stack[t], c) /\ \A i \in 1..n : Extending(stack[t][i])
                                  => stack[t][i].previous <= d[stack[t][i].key]
    BY <1>12, <1>15
  <2>2. ledger'[current'[t].root] = d OBVIOUS
  <2> HIDE DEF c, d, n
  <2>3. \A a \in 1..n : Extension(stack'[t], d, a) BY <1>1, <1>5, <2>1, ExtendsPart
  <2> QED BY <2>2, <2>3 DEF Extends, n
<1>17. ASSUME NEW i \in 1..Len(ledger'), NEW b \in Nat
       PROVE <<t, b>> \in DOMAIN ledger'[i] <=> current'[t].root = i /\ b \in Opened(stack'[t])
  <2>1. i \in 1..Len(ledger) BY DEF OtherLedgers
  <2>2. CASE i # r
    <3>1. ledger'[i] = ledger[i] BY <2>1, <2>2 DEF OtherLedgers
    <3>2. <<t, b>> \in DOMAIN ledger[i] <=> current[t].root = i /\ b \in Opened(stack[t])
      BY <2>1 DEF ThreadClaims
    <3> QED BY <2>2, <3>1, <3>2
  <2>3. CASE i = r
    <3>1. <<t, b>> \in DOMAIN ledger'[r] <=> b \in Opened(stack'[t])
      <4>1. CASE f.reuse BY <4>1, <1>7, <1>8, <1>10
      <4>2. CASE ~f.reuse
        <5>1. f.key = <<t, n + 1>> BY <1>9, <4>2
        <5>2. <<t, b>> = f.key <=> b = n + 1 BY <5>1
        <5> HIDE DEF n
        <5> QED BY <4>2, <5>2, <1>7, <1>10
      <4> QED BY <1>3, <4>1, <4>2
    <3> QED BY <2>3, <3>1
  <2> QED BY <2>2, <2>3
<1> QED BY <1>6, <1>11, <1>13, <1>14, <1>16, <1>17 DEF ThreadClaims

\* The sums.
LEMMA SumsStep ==
  ASSUME Typed, Sums, NEW r \in 1..Len(ledger), OtherLedgers(r), envelope' = envelope,
         Claimed(ledger'[r]) <= envelope[r].budget
  PROVE  Sums'
BY DEF Sums, OtherLedgers

LEMMA TablesAt ==
  ASSUME Typed, NEW r \in 1..Len(ledger)
  PROVE  ledger[r] \in Tables /\ envelope[r].budget \in Amounts
<1>1. ledger \in Seq(Tables) /\ envelope \in Seq([budget : Amounts, cpu : 1..Cpu])
      /\ Len(ledger) = Len(envelope)
  BY DEF Typed
<1>2. envelope[r] \in [budget : Amounts, cpu : 1..Cpu] BY <1>1, ElementOfSeq
<1> QED BY <1>1, <1>2

\* An addition, an extension and a release within the call's budget.
LEMMA AddedSum ==
  ASSUME NEW c \in Tables, NEW d \in Tables, NEW key, NEW amount \in Nat, NEW budget \in Nat,
         key \notin DOMAIN c, DOMAIN d = DOMAIN c \cup {key}, d[key] = amount,
         \A k \in DOMAIN c \ {key} : d[k] = c[k],
         Claimed(c) <= budget, amount <= Most(0, budget - Claimed(c))
  PROVE  Claimed(d) <= budget /\ Claimed(d) = amount + Claimed(c)
<1>1. IsTable(c) /\ IsTable(d) BY TableOf
<1>2. DOMAIN c = DOMAIN d \ {key} /\ key \in DOMAIN d OBVIOUS
<1>5. \A k \in DOMAIN c : c[k] = d[k] OBVIOUS
<1>3. Claimed(d) = amount + Claimed(c)
  <2>1. Claimed(d) = d[key] + Claimed(c) BY <1>1, <1>2, <1>5, ClaimedWithout
  <2> QED BY <2>1
<1>4. Claimed(c) \in Nat BY <1>1, ClaimedNat
<1> QED BY <1>3, <1>4 DEF Most

LEMMA ExtendedSum ==
  ASSUME NEW c \in Tables, NEW d \in Tables, NEW key \in DOMAIN c, NEW budget \in Nat,
         DOMAIN d = DOMAIN c, \A k \in DOMAIN c \ {key} : d[k] = c[k],
         Claimed(c) <= budget, d[key] - c[key] <= Most(0, budget - Claimed(c))
  PROVE  Claimed(d) <= budget /\ Claimed(d) = Claimed(c) + (d[key] - c[key])
<1>1. IsTable(c) /\ IsTable(d) BY TableOf
<1>2. Claimed(d) + c[key] = Claimed(c) + d[key] BY <1>1, ClaimedChange
<1>3. Claimed(c) \in Nat /\ Claimed(d) \in Nat BY <1>1, ClaimedNat
<1>4. c[key] \in Nat /\ d[key] \in Nat BY <1>1 DEF IsTable
<1> QED BY <1>2, <1>3, <1>4 DEF Most

LEMMA ReleasedSum ==
  ASSUME NEW c \in Tables, NEW d \in Tables, NEW key \in DOMAIN c,
         \A k \in DOMAIN c \ {key} : d[k] = c[k],
         \/ DOMAIN d = DOMAIN c \ {key}
         \/ DOMAIN d = DOMAIN c /\ d[key] <= c[key]
  PROVE  Claimed(d) <= Claimed(c)
<1>1. IsTable(c) /\ IsTable(d) BY TableOf
<1>2. Claimed(c) \in Nat /\ Claimed(d) \in Nat /\ c[key] \in Nat
  BY <1>1, ClaimedNat DEF IsTable
<1>3. CASE DOMAIN d = DOMAIN c \ {key}
  <2>1. Claimed(c) = c[key] + Claimed(d) BY <1>1, <1>3, ClaimedWithout
  <2> QED BY <1>2, <2>1
<1>4. CASE DOMAIN d = DOMAIN c /\ d[key] <= c[key]
  <2>1. Claimed(d) + c[key] = Claimed(c) + d[key] BY <1>1, <1>4, ClaimedChange
  <2>2. d[key] \in Nat BY <1>1, <1>4 DEF IsTable
  <2> QED BY <1>2, <1>4, <2>1, <2>2
<1> QED BY <1>3, <1>4

LEMMA ClaimInit == Init => ClaimInv
<1> SUFFICES ASSUME Init PROVE ClaimInv OBVIOUS
<1>1. Len(ledger) = 0 /\ \A r \in 1..Len(ledger) : FALSE BY DEF Init
<1>2. \A t \in Threads : stack[t] = <<>> /\ chain[t] = {} BY DEF Init
<1>3. ASSUME NEW t \in Threads PROVE Chained(t, stack[t], chain[t])
  <2>1. Len(stack[t]) = 0 /\ (\A a \in 1..Len(stack[t]) : FALSE) BY <1>2
  <2>2. OwnKeys(t, stack[t], Len(stack[t])) = {} BY <2>1 DEF OwnKeys, OwnScopes
  <2> QED BY <1>2, <2>1, <2>2 DEF Chained
<1> QED BY <1>1, <1>2, <1>3 DEF ClaimInv, Sums, ThreadClaims

LEMMA QuietOthers ==
  ASSUME QuietLedger
  PROVE  \A t : OtherClaims(t)
BY DEF QuietLedger, OtherClaims

\* Entering a call, a job or a replicate.
LEMMA QuietPushInv ==
  ASSUME Typed, Typed', Shapes, ClaimInv, NEW t \in Threads, NEW f \in Frames,
         Pushes(t, f), f.kind \in {"call", "worker", "replicates"}, QuietLedger, Sums',
         chain'[t] = IF f.kind = "worker" THEN {} ELSE chain[t],
         f.kind = "worker" => f.prevChain = chain[t],
         stack[t] # <<>> => current'[t].root = current[t].root
  PROVE  ClaimInv'
<1>1. ThreadClaims(t) BY DEF ClaimInv
<1>2. ThreadClaims(t)' BY <1>1, QuietPush
<1>3. Stays(t) /\ OtherClaims(t) BY QuietOthers DEF Pushes
<1>4. \A u \in Threads \ {t} : ThreadClaims(u)' BY <1>3, OthersClaims
<1> QED BY <1>2, <1>4 DEF ClaimInv

\* Leaving one.
LEMMA QuietPopInv ==
  ASSUME Typed, Typed', Shapes, ClaimInv, NEW t \in Threads,
         NEW f, f = stack[t][Len(stack[t])], Pops(t),
         f.kind \in {"call", "worker", "replicates"}, ledger' = ledger, envelope' = envelope,
         chain'[t] = IF f.kind = "worker" THEN f.prevChain ELSE chain[t], current'[t] = f.prev
  PROVE  ClaimInv'
<1>1. ThreadClaims(t) BY DEF ClaimInv
<1>2. QuietLedger
  <2>1. Len(ledger) \in Nat /\ Len(ledger') = Len(ledger) BY DEF Typed
  <2> QED BY <2>1 DEF QuietLedger
<1>3. Stays(t) /\ OtherClaims(t) /\ Popped(stack[t], stack'[t]) BY <1>2, QuietOthers DEF Pops
<1>4. stack'[t] # <<>> => current'[t].root = current[t].root
  <2>1. stack[t] # <<>> BY <1>3 DEF Popped
  <2>2. /\ f.prev = NoAlloc <=> Len(stack[t]) = 1
        /\ f.prev # NoAlloc => f.prev.root = current[t].root
    BY <2>1, RootFrame
  <2>3. stack'[t] \in Seq(Frames) BY DEF Typed
  <2>4. Len(stack'[t]) = Len(stack[t]) - 1 BY <1>3 DEF Popped
  <2>5. stack'[t] # <<>> => Len(stack[t]) # 1 BY <2>3, <2>4
  <2> QED BY <2>2, <2>5
<1>5. ThreadClaims(t)' BY <1>1, <1>4, QuietPop
<1>6. \A u \in Threads \ {t} : ThreadClaims(u)' BY <1>3, OthersClaims
<1>7. Sums' BY DEF ClaimInv, Sums
<1> QED BY <1>5, <1>6, <1>7 DEF ClaimInv

LEMMA ReserveClaims ==
  ASSUME Typed, Shapes, ClaimInv, NEW t \in Threads, Reserve(t) \/ ReserveEstimate(t)
  PROVE  ClaimInv'
<1>1. PICK amount \in Nat :
         \/ ReserveReuse(t, amount)
         \/ \E frames \in Seq(Frames) : /\ Kept(stack[t], frames)
                                        /\ ReserveAdditive(t, amount, frames)
  BY ReserveForms
<1>2. envelope' = envelope /\ current' = current /\ stack[t] # <<>> BY ReserveForms
<1>3. Typed' BY ReserveShapes
<1> DEFINE r == current[t].root
           c == ledger[r]
           d == ledger'[r]
           budget == envelope[r].budget
<1>4. r \in 1..Len(ledger) /\ c \in Tables /\ budget \in Nat
  BY <1>2, RootOf, Constants DEF Amounts
<1>5. ThreadClaims(t) /\ Claimed(c) <= budget
  <2>1. \A i \in 1..Len(ledger) : Claimed(ledger[i]) <= envelope[i].budget BY DEF ClaimInv, Sums
  <2> QED BY <1>4, <2>1 DEF ClaimInv
<1>6. ASSUME OtherLedgers(r), ledger' \in Seq(Tables) PROVE d \in Tables
  <2>1. r \in 1..Len(ledger') BY <1>4, <1>6 DEF OtherLedgers
  <2> QED BY <1>6, <2>1
<1>7. ASSUME NEW f \in ReserveFrames, Pushes(t, f), OneClaim(t, r, f.key), ThreadClaims(t)',
             Claimed(d) <= budget
      PROVE  ClaimInv'
  <2>1. OtherClaims(t) /\ Stays(t) BY <1>4, <1>7, OneClaimOthers DEF Pushes
  <2>2. \A u \in Threads \ {t} : ThreadClaims(u)' BY <1>3, <2>1, OthersClaims
  <2>3. OtherLedgers(r) BY <1>7 DEF OneClaim
  <2>4. Sums BY DEF ClaimInv
  <2>5. Sums' BY <1>2, <1>4, <1>7, <2>3, <2>4, SumsStep
  <2> QED BY <1>7, <2>2, <2>5 DEF ClaimInv
<1>8. CASE ReserveReuse(t, amount)
  <2> DEFINE key == Nearest(Known(t))
  <2>0. r = current[t].root /\ key = Nearest(Known(t)) OBVIOUS
  <2> HIDE DEF key, r, c, d, budget
  <2>9. Extended(t, amount, r, key) BY <1>2, <1>8, <2>0, ReuseMoves
  <2>1. /\ ledger' \in Seq(Tables) /\ OtherLedgers(r) /\ key \in Known(t)
        /\ DOMAIN ledger'[r] = DOMAIN ledger[r]
        /\ ledger'[r][key] = Most(ledger[r][key], amount)
        /\ \A k \in DOMAIN ledger[r] \ {key} : ledger'[r][k] = ledger[r][k]
        /\ chain'[t] = Known(t)
        /\ Most(ledger[r][key], amount) - ledger[r][key]
              <= Most(0, envelope[r].budget - Claimed(ledger[r]))
    BY <2>9 DEF Extended
  <2>2. PICK f \in ReserveFrames :
              /\ Pushes(t, f) /\ f.key = key /\ f.reuse /\ f.previous = ledger[r][key]
              /\ f.prevChain = chain[t]
    BY <2>9 DEF Extended
  <2>3. key \in DOMAIN ledger[r] BY <2>0, <2>1 DEF Known
  <2>4. ledger[r][key] \in Nat BY <1>4, <2>3, TableOf DEF c, IsTable
  <2>5. ledger'[r][f.key] >= f.previous BY <2>1, <2>2, <2>4 DEF Most
  <2>6. ThreadClaims(t)' /\ OneClaim(t, r, f.key)
    <3>1. /\ f.reuse /\ f.key \in Known(t) /\ f.previous = ledger[r][f.key]
          /\ chain'[t] = Known(t)
          /\ DOMAIN ledger'[r] = DOMAIN ledger[r]
          /\ ledger'[r][f.key] >= f.previous
          /\ \A k \in DOMAIN ledger[r] \ {f.key} : ledger'[r][k] = ledger[r][k]
      BY <2>1, <2>2, <2>5
    <3> QED BY <1>2, <1>3, <1>5, <2>0, <2>1, <2>2, <3>1, ClaimPush
  <2>7. Claimed(d) <= budget
    <3>1. d \in Tables BY <1>6, <2>1
    <3>2. /\ key \in DOMAIN c /\ DOMAIN d = DOMAIN c /\ \A k \in DOMAIN c \ {key} : d[k] = c[k]
          /\ d[key] - c[key] <= Most(0, budget - Claimed(c))
      BY <2>1, <2>3 DEF c, d, budget
    <3> QED BY <1>4, <1>5, <3>1, <3>2, ExtendedSum
  <2> QED BY <1>7, <2>2, <2>6, <2>7
<1>9. CASE \E frames \in Seq(Frames) : Kept(stack[t], frames) /\ ReserveAdditive(t, amount, frames)
  <2> DEFINE key == <<t, Len(stack[t]) + 1>>
  <2>0. r = current[t].root /\ key = <<t, Len(stack[t]) + 1>> OBVIOUS
  <2> HIDE DEF key, r, c, d, budget
  <2>a. PICK frames \in Seq(Frames) : Kept(stack[t], frames) /\ ReserveAdditive(t, amount, frames)
    BY <1>9
  <2>9. Added(t, amount, r, key) BY <1>2, <2>a, <2>0, AdditiveMoves
  <2>1. /\ ledger' \in Seq(Tables) /\ OtherLedgers(r)
        /\ DOMAIN ledger'[r] = DOMAIN ledger[r] \cup {key} /\ ledger'[r][key] = amount
        /\ \A k \in DOMAIN ledger[r] \ {key} : ledger'[r][k] = ledger[r][k]
        /\ chain'[t] = Known(t) \cup {key}
        /\ amount <= Most(0, envelope[r].budget - Claimed(ledger[r]))
    BY <2>9 DEF Added
  <2>2. PICK f \in ReserveFrames :
              /\ Pushes(t, f) /\ f.key = key /\ ~f.reuse /\ f.previous = 0
              /\ f.prevChain = chain[t]
    BY <2>9 DEF Added
  <2>6. ThreadClaims(t)' /\ OneClaim(t, r, f.key) /\ key \notin DOMAIN ledger[r]
    <3>1. /\ ~f.reuse /\ f.previous = 0 /\ f.key = <<t, Len(stack[t]) + 1>>
          /\ chain'[t] = Known(t) \cup {f.key}
          /\ DOMAIN ledger'[r] = DOMAIN ledger[r] \cup {f.key}
          /\ \A k \in DOMAIN ledger[r] \ {f.key} : ledger'[r][k] = ledger[r][k]
      BY <2>0, <2>1, <2>2
    <3>2. OtherLedgers(r) /\ Pushes(t, f) /\ f.prevChain = chain[t] BY <2>1, <2>2
    <3>3. ThreadClaims(t)' /\ OneClaim(t, r, f.key) /\ (~f.reuse => f.key \notin DOMAIN ledger[r])
      BY <1>2, <1>3, <1>5, <2>0, <3>1, <3>2, ClaimPush
    <3> QED BY <2>2, <3>3
  <2>7. Claimed(d) <= budget
    <3>1. d \in Tables BY <1>6, <2>1
    <3>2. /\ key \notin DOMAIN c /\ DOMAIN d = DOMAIN c \cup {key} /\ d[key] = amount
          /\ \A k \in DOMAIN c \ {key} : d[k] = c[k]
          /\ amount <= Most(0, budget - Claimed(c))
      BY <2>1, <2>6 DEF c, d, budget
    <3> QED BY <1>4, <1>5, <3>1, <3>2, AddedSum
  <2> QED BY <1>7, <2>2, <2>6, <2>7
<1> QED BY <1>1, <1>8, <1>9

LEMMA ReleaseClaims ==
  ASSUME Typed, Shapes, ClaimInv, NEW t \in Threads, ExitReserve(t)
  PROVE  ClaimInv'
<1> DEFINE r == current[t].root
           c == ledger[r]
           d == ledger'[r]
           budget == envelope[r].budget
<1>0. r = current[t].root OBVIOUS
<1>1. stack[t] # <<>> BY DEF ExitReserve, TopIs
<1>2. r \in 1..Len(ledger) /\ c \in Tables /\ budget \in Nat
  BY <1>1, RootOf, Constants DEF Amounts
<1>3. ThreadClaims(t) /\ Claimed(c) <= budget
  <2>1. \A i \in 1..Len(ledger) : Claimed(ledger[i]) <= envelope[i].budget BY DEF ClaimInv, Sums
  <2> QED BY <1>2, <2>1 DEF ClaimInv
<1> HIDE DEF r, c, d, budget
<1>12. ReservationEnds(t, r) BY <1>0, ExitReserveMoves
<1>4. Typed' /\ Pops(t) /\ OtherLedgers(r) /\ envelope' = envelope /\ current' = current
  BY <1>12 DEF ReservationEnds
<1>5. PICK f \in ReserveFrames :
              /\ f = stack[t][Len(stack[t])] /\ chain'[t] = f.prevChain
              /\ f.reuse => /\ DOMAIN ledger'[r] = DOMAIN ledger[r]
                            /\ f.key \in DOMAIN ledger[r] => ledger'[r][f.key] = f.previous
              /\ ~f.reuse => DOMAIN ledger'[r] = DOMAIN ledger[r] \ {f.key}
              /\ \A k \in DOMAIN ledger[r] \ {f.key} : ledger'[r][k] = ledger[r][k]
  BY <1>12 DEF ReservationEnds
<1>6. /\ ThreadClaims(t)' /\ OneClaim(t, r, f.key) /\ f.key \in DOMAIN ledger[r]
      /\ f.reuse => f.previous <= ledger[r][f.key]
  BY <1>0, <1>3, <1>4, <1>5, ClaimPop
<1>7. d \in Tables
  <2>1. r \in 1..Len(ledger') /\ ledger' \in Seq(Tables) BY <1>2, <1>4 DEF OtherLedgers, Typed
  <2> QED BY <2>1 DEF d
<1>8. Claimed(d) <= budget
  <2>1. f.reuse \in BOOLEAN BY DEF ReserveFrames
  <2>2. \/ DOMAIN d = DOMAIN c \ {f.key}
        \/ DOMAIN d = DOMAIN c /\ d[f.key] <= c[f.key]
    BY <1>5, <1>6, <2>1 DEF c, d
  <2>3. f.key \in DOMAIN c /\ \A k \in DOMAIN c \ {f.key} : d[k] = c[k]
    BY <1>5, <1>6 DEF c, d
  <2>4. Claimed(d) <= Claimed(c) BY <1>2, <1>7, <2>2, <2>3, ReleasedSum
  <2>5. Claimed(d) \in Nat /\ Claimed(c) \in Nat BY <1>2, <1>7, TableOf, ClaimedNat
  <2> QED BY <1>2, <1>3, <2>4, <2>5
<1>9. OtherClaims(t) /\ Stays(t) BY <1>2, <1>4, <1>6, OneClaimOthers DEF Pops
<1>10. \A u \in Threads \ {t} : ThreadClaims(u)' BY <1>4, <1>9, OthersClaims
<1>11. Sums'
  <2>1. Sums BY DEF ClaimInv
  <2> QED BY <1>2, <1>4, <1>8, <2>1, SumsStep DEF d, budget
<1> QED BY <1>6, <1>10, <1>11 DEF ClaimInv

LEMMA RootClaims ==
  ASSUME Typed, Shapes, ClaimInv, NEW t \in Threads, EnterRoot(t)
  PROVE  ClaimInv'
<1>1. PICK f \in CallFrames : Pushes(t, f) BY EnterRootMoves
<1>2. f \in Frames /\ f.kind = "call" BY DEF Frames, CallFrames
<1>3. /\ Typed' /\ stack[t] = <<>> /\ chain' = chain
      /\ Len(envelope') = Len(envelope) + 1 /\ Len(ledger') = Len(ledger) + 1
      /\ \A r \in 1..Len(envelope) : envelope'[r] = envelope[r] /\ ledger'[r] = ledger[r]
      /\ ledger'[Len(envelope) + 1] = <<>>
  BY EnterRootMoves
<1>4. Len(ledger) = Len(envelope) /\ Len(ledger) \in Nat BY DEF Typed
<1>5. \A r \in 1..Len(ledger') : r \in 1..Len(ledger) \/ r = Len(envelope) + 1 BY <1>3, <1>4
<1>6. DOMAIN <<>> = {} OBVIOUS
<1>7. QuietLedger
  <2>1. \A r \in (Len(ledger) + 1)..Len(ledger') : r = Len(envelope) + 1 BY <1>3, <1>4
  <2>2. \A r \in (Len(ledger) + 1)..Len(ledger') : DOMAIN ledger'[r] = {} BY <1>3, <1>6, <2>1
  <2> QED BY <1>3, <1>4, <2>2 DEF QuietLedger
<1>8. Sums'
  <2> DEFINE m == Len(envelope) + 1
  <2>1. Claimed(ledger'[m]) = 0 BY <1>3, <1>6, ClaimedNone
  <2>2. m \in 1..Len(envelope') /\ envelope' \in Seq([budget : Amounts, cpu : 1..Cpu])
    BY <1>3, <1>4 DEF Typed
  <2>3. envelope'[m] \in [budget : Amounts, cpu : 1..Cpu] BY <2>2, ElementOfSeq
  <2>4. envelope'[m].budget \in Nat BY <2>3, Constants DEF Amounts
  <2>5. \A r \in 1..Len(ledger) : Claimed(ledger'[r]) <= envelope'[r].budget
    BY <1>3, <1>4 DEF ClaimInv, Sums
  <2>6. Claimed(ledger'[m]) <= envelope'[m].budget BY <2>1, <2>4
  <2> QED BY <1>5, <2>5, <2>6 DEF Sums
<1> QED BY <1>1, <1>2, <1>3, <1>7, <1>8, QuietPushInv

LEMMA OpenClaims ==
  ASSUME Typed, Shapes, ClaimInv, NEW t \in Threads, EnterNested(t) \/ Dispatch(t)
  PROVE  ClaimInv'
<1>1. PICK f \in Frames : Pushes(t, f) /\ f.kind \in {"call", "replicates"}
  <2>1. CASE EnterNested(t)
    <3>1. PICK f \in CallFrames : Pushes(t, f) BY <2>1, EnterNestedMoves
    <3>2. f \in Frames /\ f.kind = "call" BY DEF Frames, CallFrames
    <3> QED BY <3>1, <3>2
  <2>2. CASE Dispatch(t)
    <3>1. PICK f \in JobFrames : Pushes(t, f) BY <2>2, DispatchMoves
    <3>2. f \in Frames /\ f.kind = "replicates" BY DEF Frames, JobFrames
    <3> QED BY <3>1, <3>2
  <2> QED BY <2>1, <2>2
<1>2. /\ Typed' /\ envelope' = envelope /\ ledger' = ledger /\ chain' = chain
      /\ current'[t].root = current[t].root
  BY EnterNestedMoves, DispatchMoves DEF Narrowed
<1>3. QuietLedger
  <2>1. Len(ledger) \in Nat /\ Len(ledger') = Len(ledger) BY <1>2 DEF Typed
  <2> QED BY <1>2, <2>1 DEF QuietLedger
<1>4. Sums' BY <1>2 DEF ClaimInv, Sums
<1> QED BY <1>1, <1>2, <1>3, <1>4, QuietPushInv

LEMMA StartClaims ==
  ASSUME Typed, Shapes, ClaimInv, NEW w \in Threads, NEW d \in Threads, StartTask(w, d)
  PROVE  ClaimInv'
<1>1. PICK f \in JobFrames, g \in WorkerFrames :
              /\ f = stack[d][Len(stack[d])] /\ Pushes(w, g)
              /\ g.prevChain = chain[w] /\ current'[w] = f.child
  BY StartTaskMoves
<1>2. /\ Typed' /\ ledger' = ledger /\ envelope' = envelope /\ stack[d] # <<>> /\ chain'[w] = {}
      /\ w = d \/ (w \in Pool /\ stack[w] = <<>>)
  BY StartTaskMoves
<1>3. f.kind = "replicates" /\ g.kind = "worker" /\ g \in Frames
  BY DEF JobFrames, WorkerFrames, Frames
<1>4. stack[w] # <<>> => current'[w].root = current[w].root
  <2> SUFFICES ASSUME stack[w] # <<>> PROVE current'[w].root = current[w].root OBVIOUS
  <2>1. w = d BY <1>2
  <2>2. Shape(d, stack[d], current[d], lock, Len(envelope)) BY DEF Shapes
  <2>3. Len(stack[d]) \in 1..Len(stack[d])
    <3>1. stack[d] \in Seq(Frames) BY DEF Typed
    <3> QED BY <1>2, <3>1
  <2>4. f.child.root = current[d].root BY <1>1, <1>3, <2>2, <2>3 DEF Shape
  <2> QED BY <1>1, <2>1, <2>4
<1>5. QuietLedger
  <2>1. Len(ledger) \in Nat /\ Len(ledger') = Len(ledger) BY <1>2 DEF Typed
  <2> QED BY <1>2, <2>1 DEF QuietLedger
<1>6. Sums' BY <1>2 DEF ClaimInv, Sums
<1> QED BY <1>1, <1>2, <1>3, <1>4, <1>5, <1>6, QuietPushInv

LEMMA LeaveClaims ==
  ASSUME Typed, Shapes, ClaimInv, NEW t \in Threads, ExitCall(t) \/ EndTask(t) \/ EndJob(t)
  PROVE  ClaimInv'
<1>1. CASE ExitCall(t)
  <2>1. PICK f \in CallFrames : f = stack[t][Len(stack[t])] /\ current'[t] = f.prev
    BY <1>1, ExitCallMoves
  <2>2. Typed' /\ Pops(t) /\ envelope' = envelope /\ ledger' = ledger /\ chain' = chain
    BY <1>1, ExitCallMoves
  <2>3. f.kind = "call" BY DEF CallFrames
  <2> QED BY <2>1, <2>2, <2>3, QuietPopInv
<1>2. CASE EndTask(t)
  <2>1. PICK f \in WorkerFrames :
           f = stack[t][Len(stack[t])] /\ current'[t] = f.prev /\ chain'[t] = f.prevChain
    BY <1>2, EndTaskMoves
  <2>2. Typed' /\ Pops(t) /\ envelope' = envelope /\ ledger' = ledger BY <1>2, EndTaskMoves
  <2>3. f.kind = "worker" BY DEF WorkerFrames
  <2> QED BY <2>1, <2>2, <2>3, QuietPopInv
<1>3. CASE EndJob(t)
  <2>1. PICK f \in JobFrames : f = stack[t][Len(stack[t])] /\ current'[t] = f.prev
    BY <1>3, EndJobMoves
  <2>2. Typed' /\ Pops(t) /\ envelope' = envelope /\ ledger' = ledger /\ chain' = chain
    BY <1>3, EndJobMoves
  <2>3. f.kind = "replicates" BY DEF JobFrames
  <2> QED BY <2>1, <2>2, <2>3, QuietPopInv
<1> QED BY <1>1, <1>2, <1>3

LEMMA ClaimNext ==
  ASSUME Typed, Shapes, ClaimInv, [Next]_vars
  PROVE  ClaimInv'
<1>1. CASE UNCHANGED vars BY <1>1 DEF ClaimInv, Sums, ThreadClaims, vars
<1>2. CASE Next
  <2>1. PICK t \in Threads : Step(t) BY <1>2 DEF Next
  <2>2. CASE EnterRoot(t) BY <2>2, RootClaims
  <2>3. CASE EnterNested(t) \/ Dispatch(t) BY <2>3, OpenClaims
  <2>4. CASE ExitCall(t) \/ EndTask(t) \/ EndJob(t) BY <2>4, LeaveClaims
  <2>5. CASE Reserve(t) \/ ReserveEstimate(t) BY <2>5, ReserveClaims
  <2>6. CASE ExitReserve(t) BY <2>6, ReleaseClaims
  <2>7. CASE \E d \in Threads : StartTask(t, d) BY <2>7, StartClaims
  <2> QED BY <2>1, <2>2, <2>3, <2>4, <2>5, <2>6, <2>7 DEF Step
<1> QED BY <1>1, <1>2

LEMMA ClaimInvariant == Spec => []ClaimInv
<1>1. Init => ClaimInv BY ClaimInit
<1>2. Typed /\ Shapes /\ ClaimInv /\ [Next]_vars => ClaimInv' BY ClaimNext
<1> QED BY <1>1, <1>2, ShapesInvariant, PTL DEF Spec

-----------------------------------------------------------------------------
(* Jobs are numbered as they begin, and the process-wide BLAS limit follows the *)
(* outermost one.                                                              *)

\* In the stack s, when j jobs began so far.
Staged(s, j) ==
  \A a \in 1..Len(s) :
    /\ s[a].kind \in {"worker", "replicates"} => s[a].job \in 1..j
    /\ s[a].kind = "worker" /\ a > 1 => s[a - 1].kind = "replicates"
    /\ s[a].kind = "replicates" =>
         /\ s[a].blas = 0 <=> \E b \in 1..(a - 1) : s[b].kind = "worker"
         /\ \A b \in 1..(a - 1) : s[b].kind = "worker" => s[b].job < s[a].job
Serving(s) == \E a \in 1..Len(s) : s[a].kind = "replicates"

BlasInv ==
  /\ jobs <= MaxJobs
  /\ \A t \in Threads : Staged(stack[t], jobs)
  /\ lock = NoThread => blas = DefaultBlas
  /\ lock # NoThread => /\ stack[lock][1].blas = DefaultBlas
                        /\ Serving(stack[lock]) => blas = 1

LEMMA StagedPart ==
  ASSUME NEW s \in Seq(Frames), NEW z \in Seq(Frames), NEW j \in Nat, NEW k \in Nat, j <= k,
         Staged(s, j), Len(z) <= Len(s), \A i \in 1..Len(z) : Alike(s[i], z[i])
  PROVE  Staged(z, k)
<1>1. Len(s) \in Nat /\ Len(z) \in Nat OBVIOUS
<1>2. \A i \in 1..Len(z) :
        /\ i \in 1..Len(s) /\ z[i].kind = s[i].kind
        /\ s[i].kind \in {"worker", "replicates"} => z[i].job = s[i].job
        /\ s[i].kind = "replicates" => z[i].blas = s[i].blas
  BY <1>1 DEF Alike
<1>3. ASSUME NEW a \in 1..Len(z)
      PROVE /\ z[a].kind \in {"worker", "replicates"} => z[a].job \in 1..k
            /\ z[a].kind = "worker" /\ a > 1 => z[a - 1].kind = "replicates"
            /\ z[a].kind = "replicates" =>
                 /\ z[a].blas = 0 <=> \E b \in 1..(a - 1) : z[b].kind = "worker"
                 /\ \A b \in 1..(a - 1) : z[b].kind = "worker" => z[b].job < z[a].job
  <2>1. \A b \in 1..(a - 1) : b \in 1..Len(z) BY <1>1
  <2>2. a > 1 => a - 1 \in 1..Len(z) BY <1>1
  <2>3. a \in 1..Len(s) BY <1>2
  <2>4. z[a].kind \in {"worker", "replicates"} => z[a].job \in 1..k
    BY <1>2, <2>3 DEF Staged
  <2>5. z[a].kind = "worker" /\ a > 1 => z[a - 1].kind = "replicates"
    BY <1>2, <2>2, <2>3 DEF Staged
  <2>6. z[a].kind = "replicates" =>
           (z[a].blas = 0 <=> \E b \in 1..(a - 1) : z[b].kind = "worker")
    BY <1>2, <2>1, <2>3 DEF Staged
  <2>7. z[a].kind = "replicates" =>
           \A b \in 1..(a - 1) : z[b].kind = "worker" => z[b].job < z[a].job
    BY <1>2, <2>1, <2>3 DEF Staged
  <2> QED BY <2>4, <2>5, <2>6, <2>7
<1> QED BY <1>3 DEF Staged

LEMMA StagedPush ==
  ASSUME NEW s \in Seq(Frames), NEW z \in Seq(Frames), NEW j \in Nat, NEW k \in Nat, j <= k,
         Staged(s, j), NEW f, Pushed(s, z, f),
         f.kind \in {"worker", "replicates"} => f.job \in 1..k,
         f.kind = "worker" /\ s # <<>> => s[Len(s)].kind = "replicates",
         f.kind = "replicates" => f.job > j /\ (f.blas = 0 <=> \E b \in 1..Len(s) : s[b].kind = "worker")
  PROVE  Staged(z, k)
<1> DEFINE n == Len(s)
<1>1. /\ n \in Nat /\ Len(z) = n + 1 /\ z[n + 1] = f
      /\ \A i \in 1..n : Alike(s[i], z[i])
      /\ \A i \in 1..n : i \in 1..Len(s)
  BY DEF Pushed
<1>2. \A i \in 1..n :
        /\ z[i].kind = s[i].kind
        /\ s[i].kind \in {"worker", "replicates"} => z[i].job = s[i].job
        /\ s[i].kind = "replicates" => z[i].blas = s[i].blas
  BY <1>1 DEF Alike
<1>3. n >= 1 => s # <<>> OBVIOUS
<1>4. /\ f.kind = "worker" /\ n >= 1 => s[n].kind = "replicates"
      /\ f.kind = "replicates" => f.job > j /\ (f.blas = 0 <=> \E b \in 1..n : s[b].kind = "worker")
  BY <1>3
<1> HIDE DEF n
<1>5. ASSUME NEW a \in 1..(n + 1)
      PROVE /\ z[a].kind \in {"worker", "replicates"} => z[a].job \in 1..k
            /\ z[a].kind = "worker" /\ a > 1 => z[a - 1].kind = "replicates"
            /\ z[a].kind = "replicates" =>
                 /\ z[a].blas = 0 <=> \E b \in 1..(a - 1) : z[b].kind = "worker"
                 /\ \A b \in 1..(a - 1) : z[b].kind = "worker" => z[b].job < z[a].job
  <2>1. CASE a \in 1..n
    <3>1. \A b \in 1..(a - 1) : b \in 1..n BY <1>1, <2>1
    <3>2. a > 1 => a - 1 \in 1..n BY <1>1, <2>1
    <3>3. a \in 1..Len(s) BY <1>1, <2>1
    <3>4. z[a].kind \in {"worker", "replicates"} => z[a].job \in 1..k
      BY <1>2, <2>1, <3>3 DEF Staged
    <3>5. z[a].kind = "worker" /\ a > 1 => z[a - 1].kind = "replicates"
      BY <1>2, <2>1, <3>2, <3>3 DEF Staged
    <3>6. z[a].kind = "replicates" =>
             (z[a].blas = 0 <=> \E b \in 1..(a - 1) : z[b].kind = "worker")
      BY <1>2, <2>1, <3>1, <3>3 DEF Staged
    <3>7. z[a].kind = "replicates" =>
             \A b \in 1..(a - 1) : z[b].kind = "worker" => z[b].job < z[a].job
      BY <1>2, <2>1, <3>1, <3>3 DEF Staged
    <3> QED BY <3>4, <3>5, <3>6, <3>7
  <2>2. CASE a = n + 1
    <3>1. z[a] = f /\ a - 1 = n BY <1>1, <2>2
    <3>2. z[a].kind = "worker" /\ a > 1 => z[a - 1].kind = "replicates"
      <4>1. a > 1 => n \in 1..n BY <1>1, <2>2
      <4> QED BY <1>1, <1>2, <1>4, <3>1, <4>1
    <3>3. \A b \in 1..n : z[b].kind = "worker" <=> s[b].kind = "worker" BY <1>2
    <3>4. f.kind = "replicates" => \A b \in 1..n : z[b].kind = "worker" => z[b].job < f.job
      <4> SUFFICES ASSUME f.kind = "replicates", NEW b \in 1..n, z[b].kind = "worker"
                   PROVE z[b].job < f.job
        OBVIOUS
      <4>1. z[b].job = s[b].job /\ s[b].kind = "worker" /\ b \in 1..Len(s) BY <1>1, <1>2
      <4>2. s[b].job \in 1..j BY <4>1 DEF Staged
      <4> QED BY <1>4, <4>1, <4>2
    <3> QED BY <1>4, <3>1, <3>2, <3>3, <3>4
  <2> QED BY <1>1, <2>1, <2>2
<1> QED BY <1>1, <1>5 DEF Staged

LEMMA ServingSame ==
  ASSUME NEW s \in Seq(Frames), NEW z \in Seq(Frames)
  PROVE  /\ Kept(s, z) \/ Popped(s, z) => (Serving(z) => Serving(s))
         /\ \A f : Pushed(s, z, f) /\ f.kind # "replicates" => (Serving(z) => Serving(s))
<1>1. Len(s) \in Nat /\ Len(z) \in Nat OBVIOUS
<1>2. \A i : Alike(s[i], z[i]) => z[i].kind = s[i].kind BY DEF Alike
<1>3. ASSUME Kept(s, z) \/ Popped(s, z), Serving(z) PROVE Serving(s)
  <2>1. PICK a \in 1..Len(z) : z[a].kind = "replicates" BY <1>3 DEF Serving
  <2>2. Alike(s[a], z[a]) /\ a \in 1..Len(s) BY <1>1, <1>3 DEF Kept, Popped
  <2> QED BY <1>2, <2>1, <2>2 DEF Serving
<1>4. ASSUME NEW f, Pushed(s, z, f), f.kind # "replicates", Serving(z) PROVE Serving(s)
  <2>1. PICK a \in 1..Len(z) : z[a].kind = "replicates" BY <1>4 DEF Serving
  <2>2. a # Len(s) + 1 BY <1>4, <2>1 DEF Pushed
  <2>3. Alike(s[a], z[a]) /\ a \in 1..Len(s) BY <1>1, <1>4, <2>2 DEF Pushed
  <2> QED BY <1>2, <2>1, <2>3 DEF Serving
<1> QED BY <1>3, <1>4

LEMMA BlasInit == Init => BlasInv
<1> SUFFICES ASSUME Init PROVE BlasInv OBVIOUS
<1>1. \A t \in Threads : Len(stack[t]) = 0 /\ (\A a \in 1..Len(stack[t]) : FALSE) BY DEF Init
<1>2. 0 <= MaxJobs BY SchedulerAssumption
<1> QED BY <1>1, <1>2 DEF Init, BlasInv, Staged

\* The other threads, and the stack of the thread that holds the lock.
LEMMA StagedOthers ==
  ASSUME Typed, Typed', BlasInv, NEW t \in Threads, Stays(t), jobs <= jobs'
  PROVE  \A u \in Threads \ {t} : Staged(stack'[u], jobs')
<1> TAKE u \in Threads \ {t}
<1>1. stack[u] \in Seq(Frames) /\ stack'[u] \in Seq(Frames) /\ jobs \in Nat /\ jobs' \in Nat
  BY DEF Typed
<1>2. Len(stack'[u]) = Len(stack[u]) /\ \A i \in 1..Len(stack'[u]) : Alike(stack[u][i], stack'[u][i])
  BY DEF Stays, Kept
<1>3. Staged(stack[u], jobs) /\ Len(stack'[u]) <= Len(stack[u]) BY <1>1, <1>2 DEF BlasInv
<1> QED BY <1>1, <1>2, <1>3, StagedPart

LEMMA HolderKept ==
  ASSUME Typed, Typed', Shapes, NEW t \in Threads, lock # NoThread,
         (\E f : Pushes(t, f)) \/ (Pops(t) /\ ~(lock = t /\ Len(stack[t]) = 1))
  PROVE  /\ stack'[lock][1].blas = stack[lock][1].blas
         /\ lock # t => (Serving(stack'[lock]) => Serving(stack[lock]))
<1>1. lock \in Threads /\ stack[lock] # <<>> /\ stack[lock][1].kind = "call"
      /\ stack[lock] \in Seq(Frames) /\ stack'[lock] \in Seq(Frames)
      /\ Len(stack[lock]) \in Nat \ {0} /\ Len(stack'[lock]) \in Nat
  BY DEF Shapes, Typed
<1>2. Alike(stack[lock][1], stack'[lock][1])
  <2>1. CASE lock # t
    <3>1. Kept(stack[lock], stack'[lock]) BY <1>1, <2>1 DEF Pushes, Pops, Stays
    <3> QED BY <1>1, <3>1 DEF Kept
  <2>2. CASE lock = t /\ \E f : Pushes(t, f) BY <1>1, <2>2 DEF Pushes, Pushed
  <2>3. CASE lock = t /\ Pops(t) /\ Len(stack[t]) # 1
    <3>1. Len(stack'[t]) = Len(stack[t]) - 1 BY <2>3 DEF Pops, Popped
    <3>2. \A n \in Nat \ {0} : n # 1 => 1 \in 1..(n - 1) OBVIOUS
    <3>3. 1 \in 1..Len(stack'[t]) BY <1>1, <2>3, <3>1, <3>2
    <3> QED BY <2>3, <3>3 DEF Pops, Popped
  <2> QED BY <2>1, <2>2, <2>3
<1>3. stack'[lock][1] = stack[lock][1] BY <1>1, <1>2 DEF Alike
<1>4. ASSUME lock # t PROVE Serving(stack'[lock]) => Serving(stack[lock])
  <2>1. Kept(stack[lock], stack'[lock]) BY <1>1, <1>4 DEF Pushes, Pops, Stays
  <2> QED BY <1>1, <2>1, ServingSame
<1> QED BY <1>3, <1>4

\* Opening a scope that is no job.
LEMMA BlasPush ==
  ASSUME Typed, Typed', Shapes, BlasInv, NEW t \in Threads, NEW f, Pushes(t, f),
         UNCHANGED <<lock, blas, jobs>>, f.kind # "replicates",
         f.kind = "worker" => /\ f.job \in 1..jobs
                              /\ stack[t] # <<>> => stack[t][Len(stack[t])].kind = "replicates"
  PROVE  BlasInv'
<1>1. stack[t] \in Seq(Frames) /\ stack'[t] \in Seq(Frames) /\ jobs \in Nat /\ jobs' = jobs
      /\ jobs <= jobs'
  BY DEF Typed
<1>2. Pushed(stack[t], stack'[t], f) /\ Stays(t) BY DEF Pushes
<1>3. \A u \in Threads \ {t} : Staged(stack'[u], jobs') BY <1>1, <1>2, StagedOthers
<1>4. Staged(stack'[t], jobs')
  <2>1. Staged(stack[t], jobs) BY DEF BlasInv
  <2> QED BY <1>1, <1>2, <2>1, StagedPush
<1>5. lock # NoThread => /\ stack'[lock][1].blas = DefaultBlas
                         /\ Serving(stack'[lock]) => blas = 1
  <2> SUFFICES ASSUME lock # NoThread
               PROVE stack'[lock][1].blas = DefaultBlas /\ (Serving(stack'[lock]) => blas = 1)
    OBVIOUS
  <2>1. /\ stack'[lock][1].blas = stack[lock][1].blas
        /\ lock # t => (Serving(stack'[lock]) => Serving(stack[lock]))
    BY HolderKept
  <2>2. Serving(stack'[t]) => Serving(stack[t]) BY <1>1, <1>2, ServingSame
  <2> QED BY <2>1, <2>2 DEF BlasInv
<1> QED BY <1>1, <1>3, <1>4, <1>5 DEF BlasInv

\* Closing one that restores no limit.
LEMMA BlasPop ==
  ASSUME Typed, Typed', Shapes, BlasInv, NEW t \in Threads, Pops(t),
         UNCHANGED <<lock, blas, jobs>>, ~(lock = t /\ Len(stack[t]) = 1)
  PROVE  BlasInv'
<1>1. stack[t] \in Seq(Frames) /\ stack'[t] \in Seq(Frames) /\ jobs \in Nat /\ jobs' = jobs
      /\ jobs <= jobs' /\ Len(stack[t]) \in Nat
  BY DEF Typed
<1>2. Popped(stack[t], stack'[t]) /\ Stays(t) BY DEF Pops
<1>3. \A u \in Threads \ {t} : Staged(stack'[u], jobs') BY <1>1, <1>2, StagedOthers
<1>4. Staged(stack'[t], jobs')
  <2>1. Staged(stack[t], jobs) BY DEF BlasInv
  <2>2. Len(stack'[t]) <= Len(stack[t]) /\ \A i \in 1..Len(stack'[t]) : Alike(stack[t][i], stack'[t][i])
    BY <1>1, <1>2 DEF Popped
  <2> QED BY <1>1, <2>1, <2>2, StagedPart
<1>5. lock # NoThread => /\ stack'[lock][1].blas = DefaultBlas
                         /\ Serving(stack'[lock]) => blas = 1
  <2> SUFFICES ASSUME lock # NoThread
               PROVE stack'[lock][1].blas = DefaultBlas /\ (Serving(stack'[lock]) => blas = 1)
    OBVIOUS
  <2>1. /\ stack'[lock][1].blas = stack[lock][1].blas
        /\ lock # t => (Serving(stack'[lock]) => Serving(stack[lock]))
    BY HolderKept
  <2>2. Serving(stack'[t]) => Serving(stack[t]) BY <1>1, <1>2, ServingSame
  <2> QED BY <2>1, <2>2 DEF BlasInv
<1> QED BY <1>1, <1>3, <1>4, <1>5 DEF BlasInv

\* A scope of a thread that opens a reservation.
LEMMA ReserveOpens ==
  ASSUME Typed, Shapes, NEW t \in Threads, Reserve(t) \/ ReserveEstimate(t)
  PROVE  /\ UNCHANGED <<lock, envelope, current, policy, blas, jobs>>
         /\ \E f \in ReserveFrames : Pushes(t, f)
<1>1. PICK amount \in Nat :
         \/ ReserveReuse(t, amount)
         \/ \E frames \in Seq(Frames) : /\ Kept(stack[t], frames)
                                        /\ ReserveAdditive(t, amount, frames)
  BY ReserveForms
<1>2. UNCHANGED <<lock, envelope, current, policy, blas, jobs>> /\ stack[t] # <<>> BY ReserveForms
<1> DEFINE r == current[t].root
           key == Nearest(Known(t))
           new == <<t, Len(stack[t]) + 1>>
<1>3. r = current[t].root /\ key = Nearest(Known(t)) /\ new = <<t, Len(stack[t]) + 1>> OBVIOUS
<1> HIDE DEF r, key, new
<1>4. CASE ReserveReuse(t, amount)
  <2>1. Extended(t, amount, r, key) BY <1>2, <1>3, <1>4, ReuseMoves
  <2> QED BY <1>2, <2>1 DEF Extended
<1>5. CASE \E frames \in Seq(Frames) : Kept(stack[t], frames) /\ ReserveAdditive(t, amount, frames)
  <2>1. PICK frames \in Seq(Frames) : Kept(stack[t], frames) /\ ReserveAdditive(t, amount, frames)
    BY <1>5
  <2>2. Added(t, amount, r, new) BY <1>2, <1>3, <2>1, AdditiveMoves
  <2> QED BY <1>2, <2>2 DEF Added
<1> QED BY <1>1, <1>4, <1>5

LEMMA BlasOpens ==
  ASSUME Typed, Typed', Shapes, BlasInv, NEW t \in Threads, EnterNested(t) \/ Reserve(t) \/ ReserveEstimate(t)
  PROVE  BlasInv'
<1>1. CASE EnterNested(t)
  <2>1. PICK f \in CallFrames : Pushes(t, f) BY <1>1, EnterNestedMoves
  <2>2. f.kind = "call" BY DEF CallFrames
  <2>3. UNCHANGED <<lock, blas, jobs>> BY <1>1, EnterNestedMoves
  <2> QED BY <2>1, <2>2, <2>3, BlasPush
<1>2. CASE Reserve(t) \/ ReserveEstimate(t)
  <2>1. PICK f \in ReserveFrames : Pushes(t, f) BY <1>2, ReserveOpens
  <2>2. f.kind = "reserve" BY DEF ReserveFrames
  <2>3. UNCHANGED <<lock, blas, jobs>> BY <1>2, ReserveOpens
  <2> QED BY <2>1, <2>2, <2>3, BlasPush
<1> QED BY <1>1, <1>2

LEMMA BlasStarts ==
  ASSUME Typed, Typed', Shapes, BlasInv, NEW w \in Threads, NEW d \in Threads, StartTask(w, d)
  PROVE  BlasInv'
<1>1. PICK f \in JobFrames, g \in WorkerFrames :
              f = stack[d][Len(stack[d])] /\ Pushes(w, g) /\ g.job = f.job
  BY StartTaskMoves
<1>2. UNCHANGED <<lock, blas, jobs>> /\ stack[d] # <<>> /\ (w = d \/ stack[w] = <<>>)
  BY StartTaskMoves
<1>3. f.kind = "replicates" /\ g.kind = "worker" BY DEF JobFrames, WorkerFrames
<1>4. Staged(stack[d], jobs) BY DEF BlasInv
<1>5. Len(stack[d]) \in 1..Len(stack[d])
  <2>1. stack[d] \in Seq(Frames) BY DEF Typed
  <2> QED BY <1>2, <2>1
<1>6. g.job \in 1..jobs BY <1>1, <1>3, <1>4, <1>5 DEF Staged
<1>7. stack[w] # <<>> => stack[w][Len(stack[w])].kind = "replicates" BY <1>1, <1>2, <1>3
<1> QED BY <1>1, <1>2, <1>3, <1>6, <1>7, BlasPush

LEMMA BlasEntersRoot ==
  ASSUME Typed, Typed', Shapes, BlasInv, NEW t \in Threads, EnterRoot(t)
  PROVE  BlasInv'
<1>1. PICK f \in CallFrames : Pushes(t, f) /\ f.blas = blas BY EnterRootMoves
<1>2. f.kind = "call" BY DEF CallFrames
<1>3. stack[t] = <<>> /\ lock = NoThread /\ lock' = t /\ jobs' = jobs BY EnterRootMoves
<1>4. stack[t] \in Seq(Frames) /\ stack'[t] \in Seq(Frames) /\ jobs \in Nat /\ jobs <= jobs'
  BY <1>3 DEF Typed
<1>5. Pushed(stack[t], stack'[t], f) /\ Stays(t) BY <1>1 DEF Pushes
<1>6. \A u \in Threads \ {t} : Staged(stack'[u], jobs') BY <1>4, <1>5, StagedOthers
<1>7. Staged(stack'[t], jobs')
  <2>1. Staged(stack[t], jobs) BY DEF BlasInv
  <2> QED BY <1>2, <1>3, <1>4, <1>5, <2>1, StagedPush
<1>8. Len(stack[t]) = 0 BY <1>3
<1>9. Len(stack'[t]) = 1 /\ stack'[t][1] = f BY <1>5, <1>8 DEF Pushed
<1>10. ~Serving(stack'[t]) BY <1>2, <1>9 DEF Serving
<1>11. f.blas = DefaultBlas BY <1>1, <1>3 DEF BlasInv
<1>12. jobs' <= MaxJobs BY <1>3 DEF BlasInv
<1>13. lock' # NoThread BY <1>3, Constants
<1> QED BY <1>3, <1>6, <1>7, <1>9, <1>10, <1>11, <1>12, <1>13 DEF BlasInv

\* The outermost scope of the thread that holds the lock is a call.
LEMMA HolderScope ==
  ASSUME Typed, Shapes, NEW t \in Threads, lock = t, stack[t][Len(stack[t])].kind # "call"
  PROVE  Len(stack[t]) # 1
<1>1. lock # NoThread BY Constants
<1> QED BY <1>1 DEF Shapes

LEMMA BlasLeaves ==
  ASSUME Typed, Typed', Shapes, BlasInv, NEW t \in Threads, ExitReserve(t) \/ EndTask(t)
  PROVE  BlasInv'
<1>1. Pops(t) /\ UNCHANGED <<lock, blas, jobs>>
  BY EndTaskMoves, ExitReserveMoves DEF ReservationEnds
<1>2. stack[t][Len(stack[t])].kind # "call" BY DEF ExitReserve, EndTask, TopIs, Top
<1> QED BY <1>1, <1>2, HolderScope, BlasPop

LEMMA BlasLeavesCall ==
  ASSUME Typed, Typed', Shapes, BlasInv, NEW t \in Threads, ExitCall(t)
  PROVE  BlasInv'
<1>1. PICK f \in CallFrames :
              /\ f = stack[t][Len(stack[t])]
              /\ blas' = IF f.prev = NoAlloc THEN f.blas ELSE blas
              /\ lock' = IF f.prev = NoAlloc THEN NoThread ELSE lock
  BY ExitCallMoves
<1>2. Pops(t) /\ jobs' = jobs /\ f.kind = "call" BY ExitCallMoves DEF CallFrames
<1>3. stack[t] # <<>> BY DEF ExitCall, TopIs
<1>4. f.prev = NoAlloc <=> Len(stack[t]) = 1 BY <1>1, <1>2, <1>3, RootFrame
<1>5. CASE f.prev # NoAlloc
  <2>1. UNCHANGED <<lock, blas, jobs>> BY <1>1, <1>2, <1>5
  <2> QED BY <1>2, <1>4, <1>5, <2>1, BlasPop
<1>6. CASE f.prev = NoAlloc
  <2>1. lock = t /\ lock' = NoThread /\ blas' = f.blas BY <1>1, <1>2, <1>3, <1>6, RootFrame
  <2>2. f = stack[t][1] BY <1>1, <1>4, <1>6
  <2>3. f.blas = DefaultBlas BY <2>1, <2>2, Constants DEF BlasInv
  <2>4. stack[t] \in Seq(Frames) /\ stack'[t] \in Seq(Frames) /\ jobs \in Nat /\ jobs <= jobs'
        /\ Len(stack[t]) \in Nat
    BY <1>2 DEF Typed
  <2>5. Popped(stack[t], stack'[t]) /\ Stays(t) BY <1>2 DEF Pops
  <2>6. \A u \in Threads \ {t} : Staged(stack'[u], jobs') BY <2>4, <2>5, StagedOthers
  <2>7. Staged(stack'[t], jobs')
    <3>1. Staged(stack[t], jobs) BY DEF BlasInv
    <3>2. Len(stack'[t]) <= Len(stack[t]) /\ \A i \in 1..Len(stack'[t]) : Alike(stack[t][i], stack'[t][i])
      BY <2>4, <2>5 DEF Popped
    <3> QED BY <1>2, <2>4, <3>1, <3>2, StagedPart
  <2>8. jobs' <= MaxJobs BY <1>2 DEF BlasInv
  <2> QED BY <2>1, <2>3, <2>6, <2>7, <2>8 DEF BlasInv
<1> QED BY <1>5, <1>6

\* A thread of the application in a job holds the lock, unless it serves another job.
LEMMA OutermostJob ==
  ASSUME Typed, Shapes, NEW t \in Threads, stack[t] # <<>>
  PROVE  /\ stack[t][1].kind = "worker" \/ (lock = t /\ stack[t][1].kind = "call")
         /\ lock = t => stack[t][1].kind = "call"
         /\ 1 \in DOMAIN stack[t] /\ DOMAIN stack[t] = 1..Len(stack[t])
<1>1. Shape(t, stack[t], current[t], lock, Len(envelope)) BY DEF Shapes
<1>2. stack[t] \in Seq(Frames) BY DEF Typed
<1>3. lock = t => lock # NoThread BY Constants
<1> QED BY <1>1, <1>2, <1>3 DEF Shape, Shapes

LEMMA BlasDispatches ==
  ASSUME Typed, Typed', Shapes, BlasInv, NEW t \in Threads, Dispatch(t)
  PROVE  BlasInv'
<1>1. PICK f \in JobFrames :
              /\ Pushes(t, f) /\ f.job = jobs + 1
              /\ f.blas = IF InReplicates(t) THEN 0 ELSE blas
  BY DispatchMoves
<1>2. /\ jobs' = jobs + 1 /\ lock' = lock /\ Working(t)
      /\ blas' = IF InReplicates(t) THEN blas ELSE 1
  BY DispatchMoves
<1>3. f.kind = "replicates" BY DEF JobFrames
<1>4. /\ stack[t] \in Seq(Frames) /\ stack'[t] \in Seq(Frames) /\ jobs \in Nat /\ jobs <= jobs'
      /\ jobs' \in Nat /\ blas \in 1..Cpu /\ Cpu \in Nat \ {0} /\ MaxJobs \in Nat
  BY <1>2, SchedulerAssumption DEF Typed
<1>5. Pushed(stack[t], stack'[t], f) /\ Stays(t) BY <1>1 DEF Pushes
<1>6. stack[t] # <<>> BY <1>2, WorkingScope
<1>7. DOMAIN stack[t] = 1..Len(stack[t]) /\ (InReplicates(t) <=> \E b \in 1..Len(stack[t]) : stack[t][b].kind = "worker")
  BY <1>6, OutermostJob DEF InReplicates
<1>8. \A u \in Threads \ {t} : Staged(stack'[u], jobs') BY <1>4, <1>5, StagedOthers
<1>9. Staged(stack[t], jobs) BY DEF BlasInv
<1>10. Staged(stack'[t], jobs')
  <2>1. f.job > jobs /\ f.job \in 1..jobs' BY <1>1, <1>2, <1>4
  <2>2. f.blas = 0 <=> \E b \in 1..Len(stack[t]) : stack[t][b].kind = "worker" BY <1>1, <1>4, <1>7
  <2> QED BY <1>3, <1>4, <1>5, <1>9, <2>1, <2>2, StagedPush
<1>11. lock = NoThread => blas' = DefaultBlas
  <2> SUFFICES ASSUME lock = NoThread PROVE blas' = DefaultBlas OBVIOUS
  <2>1. lock # t BY Constants
  <2>2. stack[t][1].kind = "worker" BY <1>6, <2>1, OutermostJob
  <2>3. InReplicates(t) BY <1>6, <2>2, OutermostJob DEF InReplicates
  <2> QED BY <1>2, <2>3 DEF BlasInv
<1>12. lock # NoThread => /\ stack'[lock][1].blas = DefaultBlas
                          /\ Serving(stack'[lock]) => blas' = 1
  <2> SUFFICES ASSUME lock # NoThread
               PROVE stack'[lock][1].blas = DefaultBlas /\ (Serving(stack'[lock]) => blas' = 1)
    OBVIOUS
  <2>1. /\ stack'[lock][1].blas = stack[lock][1].blas
        /\ lock # t => (Serving(stack'[lock]) => Serving(stack[lock]))
    BY <1>1, HolderKept
  <2>2. stack[lock][1].blas = DefaultBlas /\ (Serving(stack[lock]) => blas = 1) BY DEF BlasInv
  <2>3. CASE ~InReplicates(t) BY <1>2, <2>1, <2>2, <2>3
  <2>4. CASE InReplicates(t) /\ lock # t BY <1>2, <2>1, <2>2, <2>4
  <2>5. CASE InReplicates(t) /\ lock = t
    <3>1. PICK b \in 1..Len(stack[t]) : stack[t][b].kind = "worker" BY <1>7, <2>5
    <3>2. b # 1 BY <1>6, <2>5, <3>1, OutermostJob
    <3>3. b - 1 \in 1..Len(stack[t]) /\ b > 1 BY <1>4, <3>2
    <3>4. stack[t][b - 1].kind = "replicates" BY <1>9, <3>1, <3>3 DEF Staged
    <3>5. Serving(stack[lock]) BY <2>5, <3>3, <3>4 DEF Serving
    <3> QED BY <1>2, <2>1, <2>2, <2>5, <3>5
  <2> QED BY <2>3, <2>4, <2>5
<1>13. jobs' <= MaxJobs
  <2>1. jobs < MaxJobs BY DEF Dispatch
  <2> QED BY <1>2, <1>4, <2>1
<1> QED BY <1>2, <1>8, <1>10, <1>11, <1>12, <1>13 DEF BlasInv

LEMMA BlasEndsJob ==
  ASSUME Typed, Typed', Shapes, BlasInv, NEW t \in Threads, EndJob(t)
  PROVE  BlasInv'
<1> DEFINE n == Len(stack[t])
<1>1. PICK f \in JobFrames : f = stack[t][n] /\ blas' = IF f.blas = 0 THEN blas ELSE f.blas
  BY EndJobMoves
<1>2. Pops(t) /\ lock' = lock /\ jobs' = jobs /\ f.kind = "replicates" BY EndJobMoves DEF JobFrames
<1>3. stack[t] # <<>> BY DEF EndJob, TopIs
<1>4. stack[t] \in Seq(Frames) /\ stack'[t] \in Seq(Frames) /\ jobs \in Nat /\ jobs <= jobs'
  BY <1>2 DEF Typed
<1>5. n \in Nat \ {0} BY <1>3, <1>4
<1>6. lock = t => n # 1 BY <1>1, <1>2, HolderScope
<1>7. Staged(stack[t], jobs) BY DEF BlasInv
<1>8. n \in 1..n BY <1>5
<1>9. f.blas = 0 <=> \E b \in 1..(n - 1) : stack[t][b].kind = "worker" BY <1>1, <1>2, <1>7, <1>8 DEF Staged
<1> HIDE DEF n
<1>10. CASE f.blas = 0
  <2>1. UNCHANGED <<lock, blas, jobs>> BY <1>1, <1>2, <1>10
  <2> QED BY <1>2, <1>6, <2>1, BlasPop DEF n
<1>11. CASE f.blas # 0
  <2>1. n # 1
    <3>1. Shape(t, stack[t], current[t], lock, Len(envelope)) BY DEF Shapes
    <3>2. stack[t][1].kind \in {"call", "worker"} BY <1>3, <3>1 DEF Shape
    <3> QED BY <1>1, <1>2, <3>2
  <2>2. 1 \in 1..(n - 1) BY <1>5, <2>1
  <2>3. lock = t
    <3>1. stack[t][1].kind # "worker" BY <1>9, <1>11, <2>2
    <3> QED BY <1>3, <3>1, OutermostJob
  <2>4. lock # NoThread BY <2>3, Constants
  <2>5. Popped(stack[t], stack'[t]) /\ Stays(t) BY <1>2 DEF Pops
  <2>6. stack'[lock][1].blas = stack[lock][1].blas BY <1>2, <1>6, <2>3, <2>4, HolderKept DEF n
  <2>7. ~Serving(stack'[t])
    <3> SUFFICES ASSUME NEW a \in 1..Len(stack'[t]), stack'[t][a].kind = "replicates" PROVE FALSE
      BY DEF Serving
    <3>1. a \in 1..(n - 1) /\ Alike(stack[t][a], stack'[t][a]) BY <2>5 DEF Popped, n
    <3>2. stack[t][a].kind = "replicates" BY <3>1 DEF Alike
    <3>3. a \in 1..n /\ a < n /\ a + 1 \in 1..n BY <1>5, <3>1
    <3>4. Shape(t, stack[t], current[t], lock, Len(envelope)) BY DEF Shapes
    <3>5. stack[t][a + 1].kind = "worker" BY <3>2, <3>3, <3>4 DEF Shape, n
    <3>6. a + 1 # n BY <1>1, <1>2, <3>5
    <3>7. a + 1 \in 1..(n - 1) BY <1>5, <3>3, <3>6
    <3> QED BY <1>9, <1>11, <3>5, <3>7
  <2>8. \A u \in Threads \ {t} : Staged(stack'[u], jobs') BY <1>4, <2>5, StagedOthers
  <2>9. Staged(stack'[t], jobs')
    <3>2. Len(stack'[t]) <= Len(stack[t]) /\ \A i \in 1..Len(stack'[t]) : Alike(stack[t][i], stack'[t][i])
      BY <1>5, <2>5 DEF Popped, n
    <3> QED BY <1>2, <1>4, <1>7, <3>2, StagedPart
  <2>10. stack[lock][1].blas = DefaultBlas /\ jobs' <= MaxJobs BY <1>2, <2>4 DEF BlasInv
  <2> QED BY <1>2, <2>3, <2>4, <2>6, <2>7, <2>8, <2>9, <2>10 DEF BlasInv
<1> QED BY <1>10, <1>11

LEMMA BlasNext ==
  ASSUME Typed, Shapes, BlasInv, [Next]_vars
  PROVE  BlasInv'
<1>0. Typed' BY ShapesNext
<1>1. CASE UNCHANGED vars BY <1>1 DEF BlasInv, vars
<1>2. CASE Next
  <2>1. PICK t \in Threads : Step(t) BY <1>2 DEF Next
  <2>2. CASE EnterRoot(t) BY <1>0, <2>2, BlasEntersRoot
  <2>3. CASE EnterNested(t) \/ Reserve(t) \/ ReserveEstimate(t) BY <1>0, <2>3, BlasOpens
  <2>4. CASE ExitCall(t) BY <1>0, <2>4, BlasLeavesCall
  <2>5. CASE ExitReserve(t) \/ EndTask(t) BY <1>0, <2>5, BlasLeaves
  <2>6. CASE Dispatch(t) BY <1>0, <2>6, BlasDispatches
  <2>7. CASE EndJob(t) BY <1>0, <2>7, BlasEndsJob
  <2>8. CASE \E d \in Threads : StartTask(t, d) BY <1>0, <2>8, BlasStarts
  <2> QED BY <2>1, <2>2, <2>3, <2>4, <2>5, <2>6, <2>7, <2>8 DEF Step
<1> QED BY <1>1, <1>2

LEMMA BlasInvariant == Spec => []BlasInv
<1>1. Init => BlasInv BY BlasInit
<1>2. Typed /\ Shapes /\ BlasInv /\ [Next]_vars => BlasInv' BY BlasNext
<1> QED BY <1>1, <1>2, ShapesInvariant, PTL DEF Spec

-----------------------------------------------------------------------------
(* Which jobs are still waited for: the recursion is well founded, because a   *)
(* job is younger than those of the replicates that dispatched it.             *)

WaitedFor(g, j) ==
  \E d \in Threads : \E a \in DOMAIN stack[d] :
     /\ stack[d][a].kind = "replicates" /\ stack[d][a].job = j
     /\ \A i \in JobsOf(d) : i < j => g[i]
IsAwaited(g, n) == g = [j \in 0..n |-> WaitedFor(g, j)]

LEMMA AwaitedExists ==
  ASSUME Typed, BlasInv
  PROVE  \A n \in Nat : \E g : IsAwaited(g, n)
<1>1. \A d \in Threads : JobsOf(d) \subseteq Nat \ {0}
  <2> SUFFICES ASSUME NEW d \in Threads, NEW b \in DOMAIN stack[d], stack[d][b].kind = "worker"
               PROVE stack[d][b].job \in Nat \ {0}
    BY DEF JobsOf
  <2>1. stack[d] \in Seq(Frames) /\ jobs \in Nat /\ Staged(stack[d], jobs) BY DEF Typed, BlasInv
  <2>2. b \in 1..Len(stack[d]) BY <2>1
  <2>3. stack[d][b].job \in 1..jobs BY <2>1, <2>2 DEF Staged
  <2> QED BY <2>1, <2>3
<1>2. ASSUME NEW n \in Nat, NEW g, NEW h, \A i \in Nat : i < n => g[i] = h[i]
      PROVE  WaitedFor(g, n) <=> WaitedFor(h, n)
  <2>1. \A d \in Threads : \A i \in JobsOf(d) : i < n => g[i] = h[i] BY <1>1, <1>2
  <2> QED BY <2>1, Zenon DEF WaitedFor
<1> DEFINE bad == {n \in Nat : \A g : ~IsAwaited(g, n)}
<1> SUFFICES ASSUME bad # {} PROVE FALSE OBVIOUS
<1>3. PICK n \in bad : \A m \in bad : n <= m BY LeastOf
<1>4. n \in Nat /\ \A g : ~IsAwaited(g, n) BY <1>3
<1>5. \E g : \A j \in Nat : j < n => g[j] = WaitedFor(g, j)
  <2>1. CASE n = 0 BY <2>1
  <2>2. CASE n # 0
    <3>1. n - 1 \in Nat /\ n - 1 \notin bad BY <1>3, <1>4, <2>2
    <3>2. PICK g : IsAwaited(g, n - 1) BY <3>1
    <3>3. \A j \in 0..(n - 1) : g[j] = WaitedFor(g, j)
      <4> DEFINE W(j) == WaitedFor(g, j)
      <4>1. g = [j \in 0..(n - 1) |-> W(j)] BY <3>2 DEF IsAwaited
      <4> HIDE DEF W
      <4>2. \A j \in 0..(n - 1) : g[j] = W(j) BY <4>1
      <4> QED BY <4>2 DEF W
    <3>4. \A j \in Nat : j < n => j \in 0..(n - 1) BY <1>4
    <3> QED BY <3>3, <3>4
  <2> QED BY <2>1, <2>2
<1>6. PICK g : \A j \in Nat : j < n => g[j] = WaitedFor(g, j) BY <1>5
<1> DEFINE W(j) == WaitedFor(g, j)
           h == [j \in 0..n |-> W(j)]
<1>7. \A j \in 0..n : h[j] = W(j) BY Zenon
<1>8. \A j \in 0..n : WaitedFor(h, j) <=> W(j)
  <2> TAKE j \in 0..n
  <2>1. j \in Nat /\ \A i \in Nat : i < j => i \in 0..n /\ i < n BY <1>4
  <2>2. \A i \in Nat : i < j => g[i] = h[i] BY <1>6, <1>7, <2>1
  <2>3. WaitedFor(g, j) <=> WaitedFor(h, j) BY <1>2, <2>1, <2>2
  <2> QED BY <2>3
<1>9. \A j \in 0..n : WaitedFor(h, j) = W(j) BY <1>8 DEF WaitedFor
<1>10. h = [j \in 0..n |-> WaitedFor(h, j)]
  <2> DEFINE V(j) == WaitedFor(h, j)
  <2>1. \A j \in 0..n : V(j) = W(j) BY <1>9
  <2> HIDE DEF V, W
  <2>2. [j \in 0..n |-> V(j)] = [j \in 0..n |-> W(j)] BY <2>1
  <2> QED BY <2>2 DEF V
<1> QED BY <1>4, <1>10 DEF IsAwaited

LEMMA AwaitedUnfolds ==
  ASSUME Typed, BlasInv
  PROVE  \A j \in 0..MaxJobs : Awaited[j] <=> WaitedFor(Awaited, j)
<1>1. MaxJobs \in Nat BY SchedulerAssumption
<1>2. \E g : IsAwaited(g, MaxJobs) BY <1>1, AwaitedExists
<1>3. Awaited = CHOOSE g : IsAwaited(g, MaxJobs) BY Zenon DEF Awaited, IsAwaited, WaitedFor
<1>4. IsAwaited(Awaited, MaxJobs) BY <1>2, <1>3, Zenon
<1>5. \A j \in 0..MaxJobs : Awaited[j] = WaitedFor(Awaited, j)
  <2> DEFINE W(j) == WaitedFor(Awaited, j)
             n == MaxJobs
  <2>1. Awaited = [j \in 0..n |-> W(j)] BY <1>4, Zenon DEF IsAwaited
  <2> HIDE DEF W
  <2>2. \A j \in 0..n : Awaited[j] = W(j) BY <2>1, Zenon
  <2> QED BY <2>2 DEF W
<1> QED BY <1>5, Zenon

\* A job that is waited for runs within the envelope that holds the lock.
LEMMA AwaitedBlas ==
  ASSUME Typed, Shapes, BlasInv
  PROVE  \A j \in Nat : j <= MaxJobs /\ Awaited[j] => blas = 1
<1> DEFINE bad == {j \in Nat : j <= MaxJobs /\ Awaited[j] /\ blas # 1}
<1> SUFFICES ASSUME bad # {} PROVE FALSE OBVIOUS
<1>1. PICK j \in bad : \A i \in bad : j <= i BY LeastOf
<1>2. j \in Nat /\ j <= MaxJobs /\ Awaited[j] /\ blas # 1 BY <1>1
<1>3. MaxJobs \in Nat BY SchedulerAssumption
<1>4. WaitedFor(Awaited, j)
  <2>1. j \in 0..MaxJobs BY <1>2, <1>3
  <2> QED BY <1>2, <2>1, AwaitedUnfolds, Zenon
<1>d. PICK d \in Threads :
         \E a \in DOMAIN stack[d] :
            /\ stack[d][a].kind = "replicates" /\ stack[d][a].job = j
            /\ \A i \in JobsOf(d) : i < j => Awaited[i]
  BY <1>4 DEF WaitedFor
<1>5. PICK a \in DOMAIN stack[d] :
         /\ stack[d][a].kind = "replicates" /\ stack[d][a].job = j
         /\ \A i \in JobsOf(d) : i < j => Awaited[i]
  BY <1>d
<1>6. /\ stack[d] \in Seq(Frames) /\ jobs \in Nat /\ jobs <= MaxJobs /\ Staged(stack[d], jobs)
      /\ a \in 1..Len(stack[d]) /\ Len(stack[d]) \in Nat /\ stack[d] # <<>>
  BY <1>5 DEF Typed, BlasInv
<1>7. CASE \E b \in 1..(a - 1) : stack[d][b].kind = "worker"
  <2>1. PICK b \in 1..(a - 1) : stack[d][b].kind = "worker" BY <1>7
  <2> DEFINE i == stack[d][b].job
  <2>2. b \in 1..Len(stack[d]) /\ b \in DOMAIN stack[d] BY <1>6
  <2>3. i < j BY <1>5, <1>6, <2>1 DEF Staged
  <2>4. i \in 1..jobs BY <1>6, <2>1, <2>2 DEF Staged
  <2>5. i \in JobsOf(d) BY <2>1, <2>2 DEF JobsOf
  <2>6. Awaited[i] BY <1>5, <2>3, <2>5
  <2>7. i \in Nat /\ i <= MaxJobs BY <1>3, <1>6, <2>4
  <2>8. i \in bad BY <1>2, <2>6, <2>7
  <2> HIDE DEF i, bad
  <2> QED BY <1>1, <1>2, <2>3, <2>7, <2>8
<1>8. CASE \A b \in 1..(a - 1) : stack[d][b].kind # "worker"
  <2>1. stack[d][1].kind \in {"worker", "call"} BY <1>6, OutermostJob
  <2>2. a # 1 BY <1>5, <2>1
  <2>3. 1 \in 1..(a - 1) BY <1>6, <2>2
  <2>4. lock = d /\ lock # NoThread BY <1>6, <1>8, <2>3, OutermostJob, Constants
  <2>5. Serving(stack[d]) BY <1>5, <1>6 DEF Serving
  <2> QED BY <1>2, <2>4, <2>5 DEF BlasInv
<1> QED BY <1>7, <1>8

\* Replicates of a call that is still open run with one BLAS thread, and between calls
\* the process has the limit its user gave it (_threadpool_limits, run_replicates).
THEOREM BlasLimitFollowsCalls == Spec => []BlasFollowsCalls
<1>1. Typed /\ Shapes /\ BlasInv => BlasFollowsCalls
  <2> SUFFICES ASSUME Typed, Shapes, BlasInv PROVE BlasFollowsCalls OBVIOUS
  <2>1. BlasRestored BY DEF BlasInv, BlasRestored
  <2>2. OneBlasThreadInReplicates
    <3> SUFFICES ASSUME NEW t \in Threads, InReplicates(t), Attended(t) PROVE blas = 1
      BY DEF OneBlasThreadInReplicates
    <3>1. PICK b \in DOMAIN stack[t] : stack[t][b].kind = "worker" BY DEF InReplicates
    <3>2. /\ b \in 1..Len(stack[t]) /\ Staged(stack[t], jobs) /\ jobs \in Nat /\ jobs <= MaxJobs
      BY DEF Typed, BlasInv
    <3>3. stack[t][b].job \in 1..jobs BY <3>1, <3>2 DEF Staged
    <3>4. Awaited[stack[t][b].job] BY <3>1 DEF Attended, JobsOf
    <3>5. MaxJobs \in Nat BY SchedulerAssumption
    <3>6. stack[t][b].job \in Nat /\ stack[t][b].job <= MaxJobs BY <3>2, <3>3, <3>5
    <3> QED BY <3>4, <3>6, AwaitedBlas
  <2> QED BY <2>1, <2>2 DEF BlasFollowsCalls
<1> QED BY <1>1, ShapesInvariant, BlasInvariant, PTL

-----------------------------------------------------------------------------
(* The ledger is sound. *)

\* A single claim is no more than all of them.
LEMMA ClaimWithin ==
  ASSUME NEW f, IsTable(f), NEW x \in DOMAIN f
  PROVE  f[x] \in Nat /\ f[x] <= Claimed(f)
<1> DEFINE h == [y \in DOMAIN f \ {x} |-> f[y]]
<1>1. DOMAIN h = DOMAIN f \ {x} /\ \A y \in DOMAIN h : h[y] = f[y] OBVIOUS
<1> HIDE DEF h
<1>2. IsTable(h) /\ Claimed(f) = f[x] + Claimed(h) BY <1>1, ClaimedWithout
<1>3. Claimed(h) \in Nat BY <1>2, ClaimedNat
<1>4. f[x] \in Nat BY DEF IsTable
<1> QED BY <1>2, <1>3, <1>4

LEMMA ClaimAmounts ==
  ASSUME Typed, ClaimInv, NEW r \in 1..Len(ledger), NEW k \in DOMAIN ledger[r]
  PROVE  k \in Keys /\ ledger[r][k] \in Amounts
<1>1. ledger[r] \in Tables /\ envelope[r].budget \in Amounts BY TablesAt
<1>2. IsTable(ledger[r]) /\ DOMAIN ledger[r] \subseteq Keys BY <1>1, TableOf
<1>3. ledger[r][k] \in Nat /\ ledger[r][k] <= Claimed(ledger[r]) BY <1>2, ClaimWithin
<1>4. Claimed(ledger[r]) <= envelope[r].budget BY DEF ClaimInv, Sums
<1>5. Claimed(ledger[r]) \in Nat BY <1>2, ClaimedNat
<1>6. 2 * Budget \in Nat BY Constants
<1> QED BY <1>1, <1>2, <1>3, <1>4, <1>5, <1>6 DEF Amounts

LEMMA AllocBounds ==
  ASSUME NEW al \in Allocs, al.root \in 0..Len(envelope)
  PROVE  IsAlloc(al)
BY DEF Allocs, IsAlloc

LEMMA FrameTypes ==
  ASSUME Typed, Shapes, ClaimInv, BlasInv, NEW t \in Threads, NEW a \in 1..Len(stack[t])
  PROVE  IsFrame(stack[t][a])
<1> DEFINE s == stack[t]
           f == s[a]
           al == current[t]
<1>1. s \in Seq(Frames) /\ Len(s) \in Nat /\ jobs \in Nat /\ Len(envelope) \in Nat
      /\ Len(ledger) = Len(envelope)
  BY DEF Typed
<1>2. f \in Frames /\ s # <<>> BY <1>1, ElementOfSeq
<1>3. Shape(t, s, al, lock, Len(envelope)) /\ Staged(s, jobs) BY DEF Shapes, BlasInv
<1>4. al.root \in 0..Len(envelope) BY <1>1, RootBound
<1>5. NoAlloc.root = 0 BY DEF NoAlloc
<1>6. f.kind \in {"call", "worker", "replicates"} => f.prev.root \in 0..Len(envelope)
  <2>1. CASE a = 1 BY <1>1, <1>2, <1>3, <1>5, <2>1 DEF Shape
  <2>2. CASE a # 1
    <3>1. a \in 2..Len(s) BY <1>1, <2>2
    <3> QED BY <1>3, <1>4, <3>1 DEF Shape
  <2> QED BY <2>1, <2>2
<1>7. f.kind = "replicates" => f.child.root \in 0..Len(envelope) BY <1>3, <1>4 DEF Shape
<1>8. f.kind \in {"worker", "replicates"} => f.job \in 1..jobs BY <1>3 DEF Staged
<1>9. CASE f.kind = "call"
  <2>1. f \in CallFrames BY <1>2, <1>9, FrameOfKind
  <2>2. f.prev \in Allocs /\ f.onOwner \in BOOLEAN /\ f.saved \in Policies BY <2>1 DEF CallFrames
  <2>3. IsAlloc(f.prev) BY <1>6, <1>9, <2>2, AllocBounds
  <2> QED BY <1>9, <2>2, <2>3 DEF IsFrame
<1>10. CASE f.kind = "worker"
  <2>1. f \in WorkerFrames BY <1>2, <1>10, FrameOfKind
  <2>2. f.prev \in Allocs /\ f.dispatcher \in Threads /\ f.phase \in {"admission", "body", "end"}
    BY <2>1 DEF WorkerFrames
  <2>3. IsAlloc(f.prev) BY <1>6, <1>10, <2>2, AllocBounds
  <2> QED BY <1>8, <1>10, <2>2, <2>3 DEF IsFrame
<1>11. CASE f.kind = "replicates"
  <2>1. f \in JobFrames BY <1>2, <1>11, FrameOfKind
  <2>2. /\ f.prev \in Allocs /\ f.child \in Allocs /\ f.workers \in 1..Cpu
        /\ f.pending \in 0..MaxSeeds /\ f.running \in SUBSET Threads
    BY <2>1 DEF JobFrames
  <2>3. IsAlloc(f.prev) /\ IsAlloc(f.child) BY <1>6, <1>7, <1>11, <2>2, AllocBounds
  <2> QED BY <1>8, <1>11, <2>2, <2>3 DEF IsFrame
<1>12. CASE f.kind = "reserve"
  <2>1. f \in ReserveFrames BY <1>2, <1>12, FrameOfKind
  <2>2. f.key \in Keys /\ f.previous \in Nat /\ f.reuse \in BOOLEAN BY <2>1 DEF ReserveFrames
  <2>3. ThreadClaims(t) BY DEF ClaimInv
  <2>4. f.previous \in Amounts
    <3>1. CASE ~f.reuse
      <4>1. Linked(t, s, a) BY <2>3 DEF ThreadClaims, Chained
      <4>2. f.previous = 0 BY <1>12, <3>1, <4>1 DEF Linked
      <4>3. 2 * Budget \in Nat BY Constants
      <4> QED BY <4>2, <4>3 DEF Amounts
    <3>2. CASE f.reuse
      <4> DEFINE r == al.root
      <4>0. r = current[t].root OBVIOUS
      <4>1. Extending(f) BY <1>12, <3>2 DEF Extending
      <4> HIDE DEF r
      <4>2. r \in 1..Len(ledger) /\ f.key \in DOMAIN ledger[r]
        <5>1. /\ r \in 1..Len(ledger)
              /\ \A i \in 1..Len(stack[t]) : Extending(stack[t][i]) =>
                    \E b \in 1..(i - 1) : stack[t][i].key = <<t, b>> /\ <<t, b>> \in DOMAIN ledger[r]
          BY <1>2, <2>3, <4>0, SelfKeys
        <5> QED BY <4>1, <5>1
      <4>3. Extension(s, ledger[r], a) BY <1>2, <2>3, <4>0 DEF ThreadClaims, Extends
      <4>4. f.previous <= ledger[r][f.key] BY <4>1, <4>3 DEF Extension
      <4>5. ledger[r][f.key] \in Amounts BY <4>2, ClaimAmounts
      <4>6. 2 * Budget \in Nat BY Constants
      <4> QED BY <2>2, <4>4, <4>5, <4>6 DEF Amounts
    <3> QED BY <2>2, <3>1, <3>2
  <2> QED BY <1>12, <2>2, <2>4 DEF IsFrame
<1> QED BY <1>2, <1>9, <1>10, <1>11, <1>12, FrameOfKind

LEMMA TypesHold ==
  ASSUME Typed, Shapes, ClaimInv, BlasInv
  PROVE  TypeOK
<1>1. /\ DOMAIN ledger = 1..Len(ledger) /\ DOMAIN envelope = 1..Len(ledger)
      /\ Len(ledger) = Len(envelope)
  BY DEF Typed
<1>2. \A r \in DOMAIN envelope : envelope[r].budget \in Amounts /\ envelope[r].cpu \in 1..Cpu
  <2> TAKE r \in DOMAIN envelope
  <2>1. envelope \in Seq([budget : Amounts, cpu : 1..Cpu]) /\ r \in 1..Len(envelope)
    BY <1>1 DEF Typed
  <2>2. envelope[r] \in [budget : Amounts, cpu : 1..Cpu] BY <2>1, ElementOfSeq
  <2> QED BY <2>2
<1>3. \A r \in DOMAIN ledger : \A k \in DOMAIN ledger[r] : k \in Keys /\ ledger[r][k] \in Amounts
  BY <1>1, ClaimAmounts
<1>4. \A t \in Threads : IsAlloc(current[t])
  <2> TAKE t \in Threads
  <2>1. current[t] \in Allocs BY DEF Typed
  <2> QED BY <1>1, <2>1, RootBound, AllocBounds
<1>5. \A t \in Threads : \A a \in DOMAIN stack[t] : IsFrame(stack[t][a])
  <2> TAKE t \in Threads
  <2>1. DOMAIN stack[t] = 1..Len(stack[t]) BY DEF Typed
  <2> QED BY <2>1, FrameTypes
<1>6. \A t \in Threads : chain[t] \subseteq Keys BY DEF Typed
<1>7. lock \in Threads \cup {NoThread} /\ policy \in Policies /\ blas \in 1..Cpu BY DEF Typed
<1> QED BY <1>1, <1>2, <1>3, <1>4, <1>5, <1>6, <1>7 DEF TypeOK

LEMMA ClaimsOfScopes ==
  ASSUME Typed, Shapes, ClaimInv
  PROVE  ClaimsAreOpenScopes
<1> DEFINE Claims(t) == {f.key : f \in {g \in Range(stack[t]) : g.kind = "reserve" /\ ~g.reuse}}
<1>1. ASSUME NEW t \in Threads
      PROVE  Claims(t) = {<<t, b>> : b \in Opened(stack[t])}
  <2>1. Chained(t, stack[t], chain[t]) BY DEF ClaimInv, ThreadClaims
  <2>2. DOMAIN stack[t] = 1..Len(stack[t]) BY DEF Typed
  <2>3. \A b \in Opened(stack[t]) : stack[t][b].key = <<t, b>>
    BY <2>1 DEF Chained, Linked, Opened, Additive
  <2>4. ASSUME NEW k \in Claims(t) PROVE k \in {<<t, b>> : b \in Opened(stack[t])}
    <3>1. PICK b \in 1..Len(stack[t]) : k = stack[t][b].key /\ Additive(stack[t][b])
      BY <2>2, <2>4 DEF Range, Additive
    <3>2. b \in Opened(stack[t]) BY <3>1 DEF Opened
    <3> QED BY <2>3, <3>1, <3>2
  <2>5. ASSUME NEW b \in Opened(stack[t]) PROVE <<t, b>> \in Claims(t)
    <3>1. b \in DOMAIN stack[t] /\ Additive(stack[t][b]) BY <2>2 DEF Opened
    <3>2. stack[t][b] \in Range(stack[t]) BY <3>1 DEF Range
    <3> QED BY <2>3, <3>1, <3>2 DEF Additive
  <2> HIDE DEF Claims
  <2> QED BY <2>4, <2>5
<1>2. ASSUME NEW r \in 1..Len(ledger)
      PROVE  DOMAIN ledger[r] = UNION {Claims(t) : t \in {u \in Threads : current[u].root = r}}
  <2> HIDE DEF Claims
  <2>1. ASSUME NEW k \in DOMAIN ledger[r]
        PROVE  k \in UNION {Claims(t) : t \in {u \in Threads : current[u].root = r}}
    <3>1. DOMAIN ledger[r] \subseteq Keys BY TablesAt, TableOf
    <3>2. PICK t \in Threads, b \in Nat : k = <<t, b>> BY <3>1 DEF Keys
    <3>3. current[t].root = r /\ b \in Opened(stack[t]) BY <2>1, <3>2 DEF ClaimInv, ThreadClaims
    <3>4. k \in Claims(t) BY <1>1, <3>2, <3>3
    <3> QED BY <3>3, <3>4
  <2>2. ASSUME NEW t \in Threads, current[t].root = r, NEW k \in Claims(t)
        PROVE  k \in DOMAIN ledger[r]
    <3>1. PICK b \in Opened(stack[t]) : k = <<t, b>> BY <1>1, <2>2
    <3>2. b \in Nat BY DEF Opened
    <3> QED BY <2>2, <3>1, <3>2 DEF ClaimInv, ThreadClaims
  <2> QED BY <2>1, <2>2
<1>3. DOMAIN ledger = 1..Len(ledger) BY DEF Typed
<1> QED BY <1>2, <1>3 DEF ClaimsAreOpenScopes

\* What the memory ledger of a call holds are exactly the claims of the scopes that are
\* open in it, through failures, nested calls and extensions, and all of them together
\* fit the budget the call was admitted with (_MemoryLedger, reserve_memory).
THEOREM LedgerHoldsOpenScopes == Spec => []LedgerIsSound
<1>1. Typed /\ Shapes /\ ClaimInv /\ BlasInv => LedgerIsSound
  <2> SUFFICES ASSUME Typed, Shapes, ClaimInv, BlasInv PROVE LedgerIsSound OBVIOUS
  <2>1. DOMAIN ledger = 1..Len(ledger) BY DEF Typed
  <2>2. LedgerWithinEnvelope BY <2>1 DEF ClaimInv, Sums, LedgerWithinEnvelope
  <2> QED BY <2>2, TypesHold, ClaimsOfScopes DEF LedgerIsSound
<1> QED BY <1>1, ShapesInvariant, ClaimInvariant, BlasInvariant, PTL

-----------------------------------------------------------------------------
(* The innermost slice of a thread. *)

LEMMA SliceTop ==
  ASSUME Typed, NEW t \in Threads
  PROVE  /\ SliceStart(t) \in 0..Len(stack[t])
         /\ SliceStart(t) > 0 => stack[t][SliceStart(t)].kind = "worker"
         /\ \A c \in (SliceStart(t) + 1)..Len(stack[t]) : stack[t][c].kind # "worker"
<1> DEFINE n == Len(stack[t])
           W == {a \in 1..n : stack[t][a].kind = "worker"}
<1>1. n \in Nat BY DEF Typed
<1>2. SliceStart(t) = IF W = {} THEN 0 ELSE Max(W) BY DEF SliceStart, Depth
<1>3. CASE W = {} BY <1>1, <1>2, <1>3
<1>4. CASE W # {}
  <2> DEFINE U == {n - a : a \in W}
  <2>0. \A a \in W : a \in 1..n OBVIOUS
  <2>1. U \in SUBSET Nat /\ U # {}
    <3>1. \A a \in 1..n : n - a \in Nat BY <1>1
    <3>2. \A i \in U : i \in Nat BY <2>0, <3>1
    <3> QED BY <1>4, <3>2
  <2>2. PICK m \in U : \A i \in U : m <= i BY <2>1, LeastOf
  <2>3. PICK b \in W : m = n - b BY <2>2
  <2>5. \A c \in W : b >= c
    <3> TAKE c \in W
    <3>1. n - c \in U OBVIOUS
    <3>2. c \in 1..n /\ b \in 1..n BY <2>0, <2>3
    <3> HIDE DEF U, W, n
    <3>3. n - b <= n - c BY <2>2, <2>3, <3>1
    <3>4. c \in Int /\ b \in Int BY <3>2
    <3> QED BY <1>1, <3>3, <3>4
  <2>6. Max(W) = CHOOSE x \in W : \A y \in W : x >= y BY DEF Max
  <2>7. Max(W) \in W /\ \A y \in W : Max(W) >= y BY <2>3, <2>5, <2>6
  <2>8. SliceStart(t) = Max(W) BY <1>2, <1>4
  <2> DEFINE x == SliceStart(t)
  <2>9. x \in 1..n /\ stack[t][x].kind = "worker" /\ \A y \in W : x >= y BY <2>7, <2>8
  <2> HIDE DEF x
  <2>10. \A c \in (x + 1)..n : c \in 1..n /\ ~(x >= c) BY <1>1, <2>9
  <2>11. \A c \in (x + 1)..n : c \notin W BY <2>9, <2>10
  <2>12. \A c \in (x + 1)..n : stack[t][c].kind # "worker" BY <2>10, <2>11
  <2>13. x \in 0..n BY <1>1, <2>9
  <2> QED BY <2>9, <2>12, <2>13 DEF x
<1> QED BY <1>3, <1>4

\* The reservations a thread may count as its own were made in its own slice.
LEMMA OwnSlice ==
  ASSUME Typed, ClaimInv
  PROVE  NeverBorrows
<1> SUFFICES ASSUME NEW t \in Threads, NEW k \in chain[t] PROVE k[1] = t /\ k[2] > SliceStart(t)
  BY DEF NeverBorrows
<1>1. Len(stack[t]) \in Nat BY DEF Typed
<1>2. chain[t] = OwnKeys(t, stack[t], Len(stack[t])) BY DEF ClaimInv, ThreadClaims, Chained
<1>3. PICK b \in OwnScopes(stack[t], Len(stack[t])) : k = <<t, b>> BY <1>2 DEF OwnKeys
<1>4. b \in 1..Len(stack[t]) /\ \A c \in b..Len(stack[t]) : stack[t][c].kind # "worker"
  BY <1>3 DEF OwnScopes
<1> DEFINE x == SliceStart(t)
<1>5. x \in 0..Len(stack[t]) /\ (x > 0 => stack[t][x].kind = "worker") BY SliceTop
<1> HIDE DEF x
<1>6. b > x
  <2> SUFFICES ASSUME b <= x PROVE FALSE BY <1>1, <1>4, <1>5
  <2>1. x \in b..Len(stack[t]) /\ x > 0 BY <1>1, <1>4, <1>5
  <2> QED BY <1>4, <1>5, <2>1
<1> QED BY <1>3, <1>6 DEF x

-----------------------------------------------------------------------------
(* The policy of the shared model: calls on it are made by one thread at a time, *)
(* and the outermost one has saved the user's own.                              *)

OnOwner(f) == f.kind = "call" /\ f.onOwner
NoneOnOwner(s) == \A a \in 1..Len(s) : ~OnOwner(s[a])
OutermostSaves(s) ==
  \A a \in 1..Len(s) : OnOwner(s[a]) /\ (\A b \in 1..(a - 1) : ~OnOwner(s[b])) =>
                         s[a].saved = OwnerPolicy
OwnerInv ==
  /\ (\A t \in Threads : NoneOnOwner(stack[t])) => policy = OwnerPolicy
  /\ \A t \in Threads : /\ ~NoneOnOwner(stack[t]) => t \in OwnerUsers
                        /\ OutermostSaves(stack[t])

LEMMA OwnerFrames ==
  ASSUME NEW s \in Seq(Frames), NEW z \in Seq(Frames), NEW n \in Nat, n <= Len(s), n <= Len(z),
         \A i \in 1..n : Alike(s[i], z[i])
  PROVE  /\ \A i \in 1..n : OnOwner(z[i]) <=> OnOwner(s[i])
         /\ OutermostSaves(s) =>
              \A a \in 1..n : OnOwner(z[a]) /\ (\A b \in 1..(a - 1) : ~OnOwner(z[b])) =>
                                 z[a].saved = OwnerPolicy
<1>1. \A i \in 1..n : z[i].kind = s[i].kind /\ (s[i].kind = "call" => z[i] = s[i]) BY DEF Alike
<1>2. \A i \in 1..n : OnOwner(z[i]) <=> OnOwner(s[i]) BY <1>1 DEF OnOwner
<1>3. ASSUME OutermostSaves(s), NEW a \in 1..n, OnOwner(z[a]), \A b \in 1..(a - 1) : ~OnOwner(z[b])
      PROVE  z[a].saved = OwnerPolicy
  <2>1. a \in 1..Len(s) /\ \A b \in 1..(a - 1) : b \in 1..n OBVIOUS
  <2>2. OnOwner(s[a]) /\ z[a] = s[a] BY <1>1, <1>2, <1>3 DEF OnOwner
  <2>3. \A b \in 1..(a - 1) : ~OnOwner(s[b]) BY <1>2, <1>3, <2>1
  <2> QED BY <1>3, <2>1, <2>2, <2>3 DEF OutermostSaves
<1> QED BY <1>2, <1>3

LEMMA OwnerKept ==
  ASSUME NEW s \in Seq(Frames), NEW z \in Seq(Frames), Kept(s, z), OutermostSaves(s)
  PROVE  OutermostSaves(z) /\ (NoneOnOwner(z) <=> NoneOnOwner(s))
<1> DEFINE n == Len(s)
<1>1. n \in Nat /\ n <= Len(s) /\ Len(z) = n /\ n <= Len(z) /\ \A i \in 1..n : Alike(s[i], z[i])
  BY DEF Kept
<1>2. /\ \A i \in 1..n : OnOwner(z[i]) <=> OnOwner(s[i])
      /\ \A a \in 1..n : OnOwner(z[a]) /\ (\A b \in 1..(a - 1) : ~OnOwner(z[b])) =>
                                 z[a].saved = OwnerPolicy
  BY <1>1, OwnerFrames
<1> QED BY <1>1, <1>2 DEF OutermostSaves, NoneOnOwner

LEMMA OwnerPushed ==
  ASSUME NEW s \in Seq(Frames), NEW z \in Seq(Frames), NEW f, Pushed(s, z, f), OutermostSaves(s),
         OnOwner(f) /\ NoneOnOwner(s) => f.saved = OwnerPolicy
  PROVE  OutermostSaves(z) /\ (NoneOnOwner(z) <=> NoneOnOwner(s) /\ ~OnOwner(f))
<1> DEFINE n == Len(s)
<1>1. n \in Nat /\ n <= Len(s) /\ Len(z) = n + 1 /\ n <= Len(z) /\ z[n + 1] = f
      /\ \A i \in 1..n : Alike(s[i], z[i])
  BY DEF Pushed
<1>2. /\ \A i \in 1..n : OnOwner(z[i]) <=> OnOwner(s[i])
      /\ \A a \in 1..n : OnOwner(z[a]) /\ (\A b \in 1..(a - 1) : ~OnOwner(z[b])) =>
                                 z[a].saved = OwnerPolicy
  BY <1>1, OwnerFrames
<1>3. NoneOnOwner(s) <=> \A i \in 1..n : ~OnOwner(s[i]) BY DEF NoneOnOwner
<1> HIDE DEF n
<1>4. \A a \in 1..(n + 1) : a \in 1..n \/ a = n + 1 BY <1>1
<1>5. n + 1 \in 1..(n + 1) /\ (n + 1) - 1 = n /\ \A i \in 1..n : i \in 1..(n + 1) BY <1>1
<1>6. NoneOnOwner(z) <=> \A i \in 1..(n + 1) : ~OnOwner(z[i]) BY <1>1 DEF NoneOnOwner
<1>7. NoneOnOwner(z) <=> NoneOnOwner(s) /\ ~OnOwner(f) BY <1>1, <1>2, <1>3, <1>4, <1>5, <1>6
<1>8. OnOwner(z[n + 1]) /\ (\A b \in 1..((n + 1) - 1) : ~OnOwner(z[b])) => z[n + 1].saved = OwnerPolicy
  BY <1>1, <1>2, <1>3, <1>5
<1> QED BY <1>1, <1>2, <1>4, <1>7, <1>8 DEF OutermostSaves

LEMMA OwnerPopped ==
  ASSUME NEW s \in Seq(Frames), NEW z \in Seq(Frames), NEW f, Popped(s, z), f = s[Len(s)],
         OutermostSaves(s)
  PROVE  /\ OutermostSaves(z)
         /\ NoneOnOwner(s) <=> NoneOnOwner(z) /\ ~OnOwner(f)
         /\ OnOwner(f) /\ NoneOnOwner(z) => f.saved = OwnerPolicy
<1> DEFINE n == Len(z)
<1>1. n \in Nat /\ Len(s) = n + 1 /\ s[n + 1] = f /\ \A i \in 1..n : Alike(s[i], z[i])
  BY DEF Popped
<1>2. n <= Len(s) /\ n <= Len(z) BY <1>1
<1>3. /\ \A i \in 1..n : OnOwner(z[i]) <=> OnOwner(s[i])
      /\ \A a \in 1..n : OnOwner(z[a]) /\ (\A b \in 1..(a - 1) : ~OnOwner(z[b])) =>
                                 z[a].saved = OwnerPolicy
  BY <1>1, <1>2, OwnerFrames
<1>4. NoneOnOwner(z) <=> \A i \in 1..n : ~OnOwner(z[i]) BY DEF NoneOnOwner
<1>5. OutermostSaves(z) BY <1>3 DEF OutermostSaves
<1> HIDE DEF n
<1>6. \A a \in 1..(n + 1) : a \in 1..n \/ a = n + 1 BY <1>1
<1>7. n + 1 \in 1..(n + 1) /\ (n + 1) - 1 = n /\ \A i \in 1..n : i \in 1..(n + 1) BY <1>1
<1>8. NoneOnOwner(s) <=> \A i \in 1..(n + 1) : ~OnOwner(s[i]) BY <1>1 DEF NoneOnOwner
<1>9. NoneOnOwner(s) <=> NoneOnOwner(z) /\ ~OnOwner(f) BY <1>1, <1>3, <1>4, <1>6, <1>7, <1>8
<1>10. OnOwner(s[n + 1]) /\ (\A b \in 1..((n + 1) - 1) : ~OnOwner(s[b])) => s[n + 1].saved = OwnerPolicy
  BY <1>1, <1>7 DEF OutermostSaves
<1> QED BY <1>1, <1>3, <1>4, <1>5, <1>7, <1>9, <1>10

\* A thread of the application that has a scope open holds the lock.
LEMMA CallerHolds ==
  ASSUME OwnerUsers \subseteq Callers, Typed, Shapes, NEW t \in OwnerUsers, stack[t] # <<>>
  PROVE  lock = t
<1>1. t \in Threads /\ t \in Callers /\ t \notin Pool BY Constants, Callable
<1>2. Shape(t, stack[t], current[t], lock, Len(envelope)) BY <1>1 DEF Shapes
<1> QED BY <1>1, <1>2 DEF Shape

LEMMA OwnerPush ==
  ASSUME OwnerUsers \subseteq Callers, Typed, Typed', Shapes, OwnerInv, NEW t \in Threads, NEW f,
         Pushes(t, f),
         OnOwner(f) => /\ t \in OwnerUsers /\ f.saved = policy
                       /\ lock = NoThread \/ stack[t] # <<>>,
         ~OnOwner(f) => policy' = policy
  PROVE  OwnerInv'
<1>1. \A u \in Threads : stack[u] \in Seq(Frames) /\ stack'[u] \in Seq(Frames) BY DEF Typed
<1>2. \A u \in Threads : OutermostSaves(stack[u]) BY DEF OwnerInv
<1>3. \A u \in Threads \ {t} : OutermostSaves(stack'[u]) /\ (NoneOnOwner(stack'[u]) <=> NoneOnOwner(stack[u]))
  BY <1>1, <1>2, OwnerKept DEF Pushes, Stays
<1>4. OnOwner(f) /\ NoneOnOwner(stack[t]) => f.saved = OwnerPolicy
  <2> SUFFICES ASSUME OnOwner(f), NoneOnOwner(stack[t]) PROVE policy = OwnerPolicy OBVIOUS
  <2>1. ASSUME NEW u \in Threads, ~NoneOnOwner(stack[u]) PROVE FALSE
    <3>1. u # t /\ u \in OwnerUsers BY <2>1 DEF OwnerInv
    <3>2. stack[u] # <<>>
      <4>1. Len(<<>>) = 0 /\ \A a \in 1..0 : FALSE OBVIOUS
      <4> QED BY <2>1, <4>1 DEF NoneOnOwner
    <3>3. lock = u /\ lock # NoThread BY <3>1, <3>2, CallerHolds, Constants
    <3>4. lock = t BY <3>3, CallerHolds
    <3> QED BY <3>1, <3>3, <3>4
  <2> QED BY <2>1 DEF OwnerInv
<1>5. OutermostSaves(stack'[t]) /\ (NoneOnOwner(stack'[t]) <=> NoneOnOwner(stack[t]) /\ ~OnOwner(f))
  BY <1>1, <1>2, <1>4, OwnerPushed DEF Pushes
<1>6. (\A u \in Threads : NoneOnOwner(stack'[u])) => policy' = OwnerPolicy
  <2> SUFFICES ASSUME \A u \in Threads : NoneOnOwner(stack'[u]) PROVE policy' = OwnerPolicy OBVIOUS
  <2>1. \A u \in Threads : NoneOnOwner(stack[u]) BY <1>3, <1>5
  <2> QED BY <1>5, <2>1 DEF OwnerInv
<1>7. \A u \in Threads : ~NoneOnOwner(stack'[u]) => u \in OwnerUsers
  <2> TAKE u \in Threads
  <2>1. CASE u = t BY <1>5, <2>1 DEF OwnerInv
  <2>2. CASE u # t BY <1>3, <2>2 DEF OwnerInv
  <2> QED BY <2>1, <2>2
<1> QED BY <1>3, <1>5, <1>6, <1>7 DEF OwnerInv

LEMMA OwnerPop ==
  ASSUME Typed, Typed', OwnerInv, NEW t \in Threads, NEW f, f = stack[t][Len(stack[t])],
         Pops(t), OnOwner(f) => policy' = f.saved, ~OnOwner(f) => policy' = policy
  PROVE  OwnerInv'
<1>1. \A u \in Threads : stack[u] \in Seq(Frames) /\ stack'[u] \in Seq(Frames) BY DEF Typed
<1>2. \A u \in Threads : OutermostSaves(stack[u]) BY DEF OwnerInv
<1>3. \A u \in Threads \ {t} : OutermostSaves(stack'[u]) /\ (NoneOnOwner(stack'[u]) <=> NoneOnOwner(stack[u]))
  BY <1>1, <1>2, OwnerKept DEF Pops, Stays
<1>4. /\ OutermostSaves(stack'[t])
      /\ NoneOnOwner(stack[t]) <=> NoneOnOwner(stack'[t]) /\ ~OnOwner(f)
      /\ OnOwner(f) /\ NoneOnOwner(stack'[t]) => f.saved = OwnerPolicy
  BY <1>1, <1>2, OwnerPopped DEF Pops
<1>5. (\A u \in Threads : NoneOnOwner(stack'[u])) => policy' = OwnerPolicy
  <2> SUFFICES ASSUME \A u \in Threads : NoneOnOwner(stack'[u]) PROVE policy' = OwnerPolicy OBVIOUS
  <2>1. CASE OnOwner(f) BY <1>4, <2>1
  <2>2. CASE ~OnOwner(f)
    <3>1. \A u \in Threads : NoneOnOwner(stack[u]) BY <1>3, <1>4, <2>2
    <3> QED BY <2>2, <3>1 DEF OwnerInv
  <2> QED BY <2>1, <2>2
<1>6. \A u \in Threads : ~NoneOnOwner(stack'[u]) => u \in OwnerUsers
  <2> TAKE u \in Threads
  <2>1. CASE u = t BY <1>4, <2>1 DEF OwnerInv
  <2>2. CASE u # t BY <1>3, <2>2 DEF OwnerInv
  <2> QED BY <2>1, <2>2
<1> QED BY <1>3, <1>4, <1>5, <1>6 DEF OwnerInv

LEMMA OwnerNext ==
  ASSUME OwnerUsers \subseteq Callers, Typed, Shapes, OwnerInv, [Next]_vars
  PROVE  OwnerInv'
<1>0. Typed' BY ShapesNext
<1>1. CASE UNCHANGED vars BY <1>1 DEF OwnerInv, vars
<1>2. CASE Next
  <2>1. PICK t \in Threads : Step(t) BY <1>2 DEF Next
  <2>2. CASE EnterRoot(t)
    <3>1. PICK f \in CallFrames : /\ Pushes(t, f) /\ f.saved = policy
                                  /\ f.onOwner => t \in OwnerUsers
                                  /\ ~f.onOwner => policy' = policy
      BY <2>2, EnterRootMoves
    <3>2. f.kind = "call" /\ lock = NoThread BY <2>2, EnterRootMoves DEF CallFrames
    <3> QED BY <1>0, <3>1, <3>2, OwnerPush DEF OnOwner
  <2>3. CASE EnterNested(t)
    <3>1. PICK f \in CallFrames : /\ Pushes(t, f) /\ f.saved = policy
                                  /\ f.onOwner => t \in OwnerUsers
                                  /\ ~f.onOwner => policy' = policy
      BY <2>3, EnterNestedMoves
    <3>2. Working(t) BY <2>3, EnterNestedMoves
    <3>3. f.kind = "call" /\ stack[t] # <<>> BY <3>2, WorkingScope DEF CallFrames
    <3> QED BY <1>0, <3>1, <3>3, OwnerPush DEF OnOwner
  <2>4. CASE Reserve(t) \/ ReserveEstimate(t)
    <3>1. PICK f \in ReserveFrames : Pushes(t, f) BY <2>4, ReserveOpens
    <3>2. policy' = policy /\ stack[t] # <<>> BY <2>4, ReserveForms
    <3>3. ~OnOwner(f) BY DEF OnOwner, ReserveFrames
    <3> QED BY <1>0, <3>1, <3>2, <3>3, OwnerPush
  <2>5. CASE Dispatch(t)
    <3>1. PICK f \in JobFrames : Pushes(t, f) BY <2>5, DispatchMoves
    <3>2. policy' = policy /\ stack[t] # <<>> BY <2>5, DispatchMoves, WorkingScope
    <3>3. ~OnOwner(f) BY DEF OnOwner, JobFrames
    <3> QED BY <1>0, <3>1, <3>2, <3>3, OwnerPush
  <2>6. CASE ExitCall(t)
    <3>1. PICK f \in CallFrames : /\ f = stack[t][Len(stack[t])]
                                  /\ policy' = IF f.onOwner THEN f.saved ELSE policy
      BY <2>6, ExitCallMoves
    <3>2. Pops(t) /\ f.kind = "call" BY <2>6, ExitCallMoves DEF CallFrames
    <3> QED BY <1>0, <3>1, <3>2, OwnerPop DEF OnOwner
  <2>7. CASE ExitReserve(t) \/ EndTask(t) \/ EndJob(t)
    <3> DEFINE f == stack[t][Len(stack[t])]
    <3>1. Pops(t) /\ policy' = policy
      BY <2>7, EndTaskMoves, EndJobMoves, ExitReserveMoves DEF ReservationEnds
    <3>2. ~OnOwner(f) BY <2>7 DEF OnOwner, ExitReserve, EndTask, EndJob, TopIs, Top
    <3> HIDE DEF f
    <3>3. f = stack[t][Len(stack[t])] BY DEF f
    <3> QED BY <1>0, <3>1, <3>2, <3>3, OwnerPop
  <2>8. CASE \E d \in Threads : StartTask(t, d)
    <3>1. PICK d \in Threads : StartTask(t, d) BY <2>8
    <3>2. PICK g \in WorkerFrames : Pushes(t, g) BY <3>1, StartTaskMoves
    <3>3. policy' = policy /\ ~OnOwner(g) BY <3>1, StartTaskMoves DEF OnOwner, WorkerFrames
    <3> QED BY <1>0, <3>2, <3>3, OwnerPush
  <2> QED BY <2>1, <2>2, <2>3, <2>4, <2>5, <2>6, <2>7, <2>8 DEF Step
<1> QED BY <1>1, <1>2

LEMMA OwnerInit == Init => OwnerInv
<1> SUFFICES ASSUME Init PROVE OwnerInv OBVIOUS
<1>1. \A t \in Threads : Len(stack[t]) = 0 /\ (\A a \in 1..Len(stack[t]) : FALSE) BY DEF Init
<1> QED BY <1>1 DEF Init, OwnerInv, OutermostSaves, NoneOnOwner

\* When only threads of the application use the shared model, its policy is its user's
\* own again as soon as no call on it is open (managed_execution).
THEOREM PolicyIsRestored ==
  ASSUME OwnerUsers \subseteq Callers
  PROVE  Spec => []OwnerRestored
<1>1. Init => OwnerInv BY OwnerInit
<1>2. Typed /\ Shapes /\ OwnerInv /\ [Next]_vars => OwnerInv' BY OwnerNext
<1>3. Typed /\ OwnerInv => OwnerRestored
  <2> SUFFICES ASSUME Typed, OwnerInv PROVE OwnerRestored OBVIOUS
  <2>1. \A t \in Threads : DOMAIN stack[t] = 1..Len(stack[t]) BY DEF Typed
  <2> QED BY <2>1 DEF OwnerInv, OwnerRestored, NoneOnOwner, OnOwner
<1> QED BY <1>1, <1>2, <1>3, ShapesInvariant, PTL DEF Spec

-----------------------------------------------------------------------------
(* Budgets only narrow on the way down: nothing above a replicate's scope may use *)
(* more than the slice the replicate was handed, nor more than the root call has. *)

\* The workers among the first n scopes of s were handed at least x.
Held(s, n, x) == \A a \in 1..n : s[a].kind = "worker" => x <= Cap(s[a].slice)

\* What the scope at n gives back, or hands out, fits the slices it is in.
FitsAt(s, n) ==
  /\ s[n].kind \in {"call", "worker", "replicates"} => Held(s, n - 1, Cap(s[n].prev))
  /\ s[n].kind = "replicates" => Held(s, n - 1, Cap(s[n].child))

Finest(al) == al.caps[Len(al.caps)]
Within(al, env) == /\ al.root \in 0..Len(env)
                   /\ al.root > 0 => Finest(al) <= env[al.root].budget
Affords(f, env) ==
  /\ f.kind \in {"call", "worker", "replicates"} => Within(f.prev, env)
  /\ f.kind = "replicates" => /\ Within(f.child, env) /\ f.child.root > 0
                              /\ f.workers * Finest(f.child) <= env[f.child.root].budget

Covered(s, al, env) ==
  /\ Within(al, env) /\ Held(s, Len(s), Cap(al))
  /\ \A n \in 1..Len(s) : FitsAt(s, n) /\ Affords(s[n], env)
CapInv == \A t \in Threads : Covered(stack[t], current[t], envelope)

Grows(env, after) == /\ Len(env) <= Len(after)
                     /\ \A r \in 1..Len(env) : after[r] = env[r]

LEMMA HeldSame ==
  ASSUME NEW s, NEW z, NEW n \in Nat, \A i \in 1..n : Alike(s[i], z[i])
  PROVE  \A m \in 0..n : \A x : Held(z, m, x) <=> Held(s, m, x)
<1>1. \A i \in 1..n : z[i].kind = s[i].kind /\ (s[i].kind = "worker" => z[i].slice = s[i].slice)
  BY DEF Alike
<1>2. \A m \in 0..n : \A i \in 1..m : i \in 1..n OBVIOUS
<1> QED BY <1>1, <1>2 DEF Held

LEMMA HeldLess ==
  ASSUME NEW s \in Seq(Frames), NEW n \in 0..Len(s), NEW x \in Int, NEW y \in Int, x <= y,
         Held(s, n, y)
  PROVE  Held(s, n, x)
<1>1. ASSUME NEW a \in 1..n, s[a].kind = "worker" PROVE Cap(s[a].slice) \in Int
  <2>1. a \in 1..Len(s) OBVIOUS
  <2>2. s[a] \in Frames BY <2>1, ElementOfSeq
  <2>3. s[a] \in WorkerFrames BY <1>1, <2>2, FrameOfKind
  <2>4. s[a].slice \in Allocs BY <2>3 DEF WorkerFrames
  <2>5. 2 * Budget \in Nat BY Constants
  <2> QED BY <2>4, <2>5, CapOf DEF Amounts
<1> QED BY <1>1 DEF Held

LEMMA FitsSame ==
  ASSUME NEW s \in Seq(Frames), NEW z, NEW n \in Nat, n <= Len(s), \A i \in 1..n : Alike(s[i], z[i]),
         \A i \in 1..n : FitsAt(s, i)
  PROVE  \A i \in 1..n : FitsAt(z, i)
<1> TAKE i \in 1..n
<1>1. Alike(s[i], z[i]) /\ i - 1 \in 0..n OBVIOUS
<1>2. i \in 1..Len(s) OBVIOUS
<1>3. s[i] \in Frames BY <1>2, ElementOfSeq
<1>4. /\ z[i].kind = s[i].kind
      /\ s[i].kind \in {"call", "worker", "replicates"} => z[i].prev = s[i].prev
      /\ s[i].kind = "replicates" => z[i].child = s[i].child
  BY <1>1 DEF Alike
<1>5. \A x : Held(z, i - 1, x) <=> Held(s, i - 1, x) BY <1>1, HeldSame
<1> QED BY <1>4, <1>5 DEF FitsAt

LEMMA AffordsSame ==
  ASSUME NEW env, NEW after, Len(env) \in Nat, Len(after) \in Nat, Grows(env, after)
  PROVE  /\ \A al : Within(al, env) => Within(al, after)
         /\ \A f, g : Alike(f, g) /\ Affords(f, env) => Affords(g, after)
<1>1. ASSUME NEW al, Within(al, env) PROVE Within(al, after) BY <1>1 DEF Within, Grows
<1>2. ASSUME NEW f, NEW g, Alike(f, g), Affords(f, env) PROVE Affords(g, after)
  <2>1. /\ g.kind = f.kind
        /\ f.kind \in {"call", "worker", "replicates"} => g.prev = f.prev
        /\ f.kind = "replicates" => g.child = f.child /\ g.workers = f.workers
    BY <1>2 DEF Alike
  <2>2. f.kind \in {"call", "worker", "replicates"} => Within(g.prev, after)
    BY <1>1, <1>2, <2>1 DEF Affords
  <2>3. f.kind = "replicates" =>
           /\ Within(g.child, after) /\ g.child.root > 0
           /\ g.workers * Finest(g.child) <= after[g.child.root].budget
    <3> SUFFICES ASSUME f.kind = "replicates"
                 PROVE /\ Within(g.child, after) /\ g.child.root > 0
                       /\ g.workers * Finest(g.child) <= after[g.child.root].budget
      OBVIOUS
    <3>1. Within(f.child, env) /\ f.child.root > 0 /\ f.workers * Finest(f.child) <= env[f.child.root].budget
      BY <1>2 DEF Affords
    <3>2. f.child.root \in 1..Len(env) BY <3>1 DEF Within
    <3>3. after[f.child.root] = env[f.child.root] BY <3>2 DEF Grows
    <3> QED BY <1>1, <2>1, <3>1, <3>3
  <2> QED BY <2>1, <2>2, <2>3 DEF Affords
<1> QED BY <1>1, <1>2

LEMMA CoveredKept ==
  ASSUME NEW s \in Seq(Frames), NEW z \in Seq(Frames), NEW al, NEW env, NEW after,
         Len(env) \in Nat, Len(after) \in Nat, Grows(env, after), Covered(s, al, env), Kept(s, z)
  PROVE  Covered(z, al, after)
<1> DEFINE n == Len(s)
<1>1. n \in Nat /\ Len(z) = n /\ \A i \in 1..n : Alike(s[i], z[i]) BY DEF Kept
<1>2. Within(al, env) /\ Held(s, n, Cap(al)) /\ \A i \in 1..n : FitsAt(s, i) /\ Affords(s[i], env)
  BY DEF Covered
<1>3. Within(al, after) BY <1>2, AffordsSame
<1>4. n \in 0..n /\ n <= Len(s) BY <1>1
<1>5. Held(z, n, Cap(al)) BY <1>1, <1>2, <1>4, HeldSame
<1>6. \A i \in 1..n : FitsAt(z, i) BY <1>1, <1>2, <1>4, FitsSame
<1>7. \A i \in 1..n : Affords(z[i], after) BY <1>1, <1>2, AffordsSame
<1> QED BY <1>1, <1>3, <1>5, <1>6, <1>7 DEF Covered

LEMMA CoveredPush ==
  ASSUME NEW s \in Seq(Frames), NEW z \in Seq(Frames), NEW al \in Allocs, NEW be \in Allocs,
         NEW env, Len(env) \in Nat,
         Covered(s, al, env), NEW f \in Frames, Pushed(s, z, f), Within(be, env), Affords(f, env),
         f.kind \in {"call", "worker", "replicates"} => f.prev = al,
         f.kind = "replicates" => f.child \in Allocs /\ Cap(f.child) <= Cap(al),
         IF f.kind = "worker"
         THEN f.slice = be /\ (s # <<>> => s[Len(s)].kind = "replicates" /\ be = s[Len(s)].child)
         ELSE Cap(be) <= Cap(al)
  PROVE  Covered(z, be, env)
<1> DEFINE n == Len(s)
<1>1. n \in Nat /\ Len(z) = n + 1 /\ z[n + 1] = f /\ \A i \in 1..n : Alike(s[i], z[i]) BY DEF Pushed
<1>2. Within(al, env) /\ Held(s, n, Cap(al)) /\ \A i \in 1..n : FitsAt(s, i) /\ Affords(s[i], env)
  BY DEF Covered
<1>3. Grows(env, env) BY DEF Grows
<1>4. n \in 0..n /\ n <= Len(s) /\ n \in 0..Len(s) BY <1>1
<1>5. Cap(al) \in Int /\ Cap(be) \in Int
  <2>1. 2 * Budget \in Nat BY Constants
  <2> QED BY <2>1, CapOf DEF Amounts
<1>6. \A x : Held(z, n, x) <=> Held(s, n, x) BY <1>1, <1>4, HeldSame
<1>7. \A i \in 1..n : FitsAt(z, i) BY <1>1, <1>2, <1>4, FitsSame
<1>8. \A i \in 1..n : Affords(z[i], env) BY <1>1, <1>2, <1>3, AffordsSame
<1>9. FitsAt(z, n + 1)
  <2>1. f.kind \in {"call", "worker", "replicates"} => Held(z, n, Cap(f.prev)) BY <1>2, <1>6
  <2>2. f.kind = "replicates" => Held(z, n, Cap(f.child))
    <3> SUFFICES ASSUME f.kind = "replicates" PROVE Held(s, n, Cap(f.child)) BY <1>6
    <3>1. Cap(f.child) \in Int
      <4>1. 2 * Budget \in Nat BY Constants
      <4> QED BY <4>1, CapOf DEF Amounts
    <3> QED BY <1>2, <1>4, <1>5, <3>1, HeldLess
  <2>3. (n + 1) - 1 = n BY <1>1
  <2> QED BY <1>1, <2>1, <2>2, <2>3 DEF FitsAt
<1>10. Held(z, n + 1, Cap(be))
  <2>1. Held(s, n, Cap(be))
    <3>1. CASE f.kind # "worker" BY <1>2, <1>4, <1>5, <3>1, HeldLess
    <3>2. CASE f.kind = "worker" /\ n # 0
      <4>1. s # <<>> /\ n \in 1..n BY <1>1, <3>2
      <4>2. s[n].kind = "replicates" /\ be = s[n].child BY <3>2, <4>1
      <4>3. Held(s, n - 1, Cap(be)) BY <1>2, <4>1, <4>2 DEF FitsAt
      <4>4. \A a \in 1..n : a \in 1..(n - 1) \/ a = n BY <1>1
      <4> QED BY <4>2, <4>3, <4>4 DEF Held
    <3>3. CASE n = 0 BY <3>3 DEF Held
    <3> QED BY <3>1, <3>2, <3>3
  <2>2. Held(z, n, Cap(be)) BY <1>6, <2>1
  <2>3. f.kind = "worker" => Cap(be) <= Cap(f.slice) BY <1>5
  <2>4. \A a \in 1..(n + 1) : a \in 1..n \/ a = n + 1 BY <1>1
  <2> QED BY <1>1, <2>2, <2>3, <2>4 DEF Held
<1>11. \A i \in 1..(n + 1) : FitsAt(z, i) /\ Affords(z[i], env)
  <2>1. \A a \in 1..(n + 1) : a \in 1..n \/ a = n + 1 BY <1>1
  <2> QED BY <1>1, <1>7, <1>8, <1>9, <2>1
<1> QED BY <1>1, <1>10, <1>11 DEF Covered

LEMMA CoveredPop ==
  ASSUME NEW s \in Seq(Frames), NEW z \in Seq(Frames), NEW al \in Allocs, NEW env,
         Len(env) \in Nat, Covered(s, al, env), NEW f, f = s[Len(s)], Popped(s, z), NEW be,
         be = IF f.kind = "reserve" THEN al ELSE f.prev
  PROVE  Covered(z, be, env)
<1> DEFINE n == Len(z)
<1>1. n \in Nat /\ Len(s) = n + 1 /\ s[n + 1] = f /\ \A i \in 1..n : Alike(s[i], z[i]) BY DEF Popped
<1>2. /\ Within(al, env) /\ Held(s, n + 1, Cap(al))
      /\ \A i \in 1..(n + 1) : FitsAt(s, i) /\ Affords(s[i], env)
  BY <1>1 DEF Covered
<1>3. Grows(env, env) BY DEF Grows
<1>4. n \in 0..n /\ n <= Len(s) /\ n + 1 \in 1..(n + 1) /\ (n + 1) - 1 = n
      /\ \A i \in 1..n : i \in 1..(n + 1)
  BY <1>1
<1>5. \A x : Held(z, n, x) <=> Held(s, n, x) BY <1>1, <1>4, HeldSame
<1>6. \A i \in 1..n : FitsAt(z, i) BY <1>1, <1>2, <1>4, FitsSame
<1>7. \A i \in 1..n : Affords(z[i], env) BY <1>1, <1>2, <1>3, <1>4, AffordsSame
<1>8. f.kind \in {"call", "reserve", "worker", "replicates"}
  <2>1. n + 1 \in 1..Len(s) BY <1>1, <1>4
  <2>2. f \in Frames BY <1>1, <2>1, ElementOfSeq
  <2> QED BY <2>2, FrameOfKind
<1>9. Within(be, env) /\ Held(z, n, Cap(be))
  <2>1. CASE f.kind = "reserve"
    <3>1. Held(s, n, Cap(al)) BY <1>2, <1>4 DEF Held
    <3> QED BY <1>2, <1>5, <2>1, <3>1
  <2>2. CASE f.kind # "reserve"
    <3>1. FitsAt(s, n + 1) /\ Affords(f, env) BY <1>1, <1>2, <1>4
    <3>2. Held(s, n, Cap(f.prev)) /\ Within(f.prev, env)
      BY <1>1, <1>4, <1>8, <2>2, <3>1 DEF FitsAt, Affords
    <3> QED BY <1>5, <2>2, <3>2
  <2> QED BY <2>1, <2>2
<1> QED BY <1>6, <1>7, <1>9 DEF Covered

LEMMA CapInts ==
  ASSUME NEW al \in Allocs
  PROVE  Cap(al) \in Int /\ Finest(al) \in Nat /\ Cap(al) <= Finest(al)
<1>1. 2 * Budget \in Nat BY Constants
<1> QED BY <1>1, CapOf, LastCap DEF Amounts, Finest

LEMMA NarrowedFits ==
  ASSUME NEW al \in Allocs, NEW be \in Allocs, Narrowed(be, al), NEW env, Len(env) \in Nat,
         Within(al, env), al.root > 0 => env[al.root].budget \in Int
  PROVE  /\ Cap(be) <= Cap(al) /\ Finest(be) <= Finest(al)
         /\ Within(be, env)
<1>1. be.root = al.root BY DEF Narrowed
<1>2. PICK x \in Amounts : be.caps = Append(al.caps, x) /\ x <= al.caps[Len(al.caps)]
  BY DEF Narrowed
<1>3. Cap(be) <= Cap(al) /\ Finest(be) = x BY <1>2, CapShrinks DEF Finest
<1>4. Finest(be) \in Int /\ Finest(al) \in Int /\ Finest(be) <= Finest(al) BY <1>2, <1>3, CapInts DEF Finest
<1> QED BY <1>1, <1>3, <1>4 DEF Within

LEMMA EnvelopeAt ==
  ASSUME Typed, NEW r \in 1..Len(envelope)
  PROVE  envelope[r].budget \in Int
<1>1. Len(ledger) = Len(envelope) BY DEF Typed
<1>2. 2 * Budget \in Nat BY Constants
<1> QED BY <1>1, <1>2, TablesAt DEF Amounts

LEMMA CapInit == Init => CapInv
<1> SUFFICES ASSUME Init, NEW t \in Threads PROVE Covered(stack[t], current[t], envelope) BY DEF CapInv
<1>1. stack[t] = <<>> /\ current[t] = NoAlloc /\ envelope = <<>> BY DEF Init
<1>2. Len(stack[t]) = 0 /\ Len(envelope) = 0 BY <1>1
<1>3. NoAlloc.root = 0 BY DEF NoAlloc
<1> QED BY <1>1, <1>2, <1>3 DEF Covered, Within, Held

\* The other threads.
LEMMA CapOthers ==
  ASSUME Typed, Typed', CapInv, NEW t \in Threads, Stays(t), Grows(envelope, envelope')
  PROVE  \A u \in Threads \ {t} : Covered(stack'[u], current'[u], envelope')
<1> TAKE u \in Threads \ {t}
<1>1. stack[u] \in Seq(Frames) /\ stack'[u] \in Seq(Frames)
      /\ Len(envelope) \in Nat /\ Len(envelope') \in Nat
  BY DEF Typed
<1>2. Kept(stack[u], stack'[u]) /\ current'[u] = current[u] BY DEF Stays
<1>3. Covered(stack[u], current[u], envelope) BY DEF CapInv
<1> QED BY <1>1, <1>2, <1>3, CoveredKept

LEMMA CapSame ==
  ASSUME Typed, Typed', CapInv, NEW t \in Threads, Stays(t), envelope' = envelope,
         Covered(stack'[t], current'[t], envelope)
  PROVE  CapInv'
<1>1. Grows(envelope, envelope') BY DEF Grows, Typed
<1>2. \A u \in Threads \ {t} : Covered(stack'[u], current'[u], envelope') BY <1>1, CapOthers
<1> QED BY <1>2 DEF CapInv

LEMMA CapEntersRoot ==
  ASSUME Typed, Shapes, CapInv, NEW t \in Threads, EnterRoot(t)
  PROVE  CapInv'
<1> DEFINE m == Len(envelope) + 1
           be == current'[t]
           z == stack'[t]
<1>1. Typed' /\ stack[t] = <<>> /\ Len(envelope') = m /\ be.root = m /\ be.caps = <<envelope'[m].budget>>
      /\ \A r \in 1..Len(envelope) : envelope'[r] = envelope[r]
  BY EnterRootMoves
<1>2. PICK f \in CallFrames : Pushes(t, f) /\ f.prev = NoAlloc BY EnterRootMoves
<1>3. f.kind = "call" BY DEF CallFrames
<1>4. Len(envelope) \in Nat BY DEF Typed
<1>5. Grows(envelope, envelope') BY <1>1, <1>4 DEF Grows
<1>6. \A u \in Threads \ {t} : Covered(stack'[u], current'[u], envelope')
  BY <1>1, <1>2, <1>5, CapOthers DEF Pushes
<1>7. Len(stack[t]) = 0 BY <1>1
<1>8. Len(z) = 1 /\ z[1] = f BY <1>2, <1>7 DEF Pushes, Pushed
<1>9. Finest(be) = envelope'[m].budget BY <1>1 DEF Finest
<1>10. Within(be, envelope')
  <2>1. be \in Allocs /\ envelope' \in Seq([budget : Amounts, cpu : 1..Cpu]) BY <1>1 DEF Typed
  <2>2. Finest(be) \in Nat BY <2>1, CapInts
  <2> HIDE DEF be
  <2>3. m \in 0..m BY <1>4
  <2> QED BY <1>1, <1>9, <2>2, <2>3 DEF Within
<1>11. NoAlloc.root = 0 BY DEF NoAlloc
<1>12. Within(NoAlloc, envelope')
  <2>1. 0 \in 0..m BY <1>4
  <2> QED BY <1>1, <1>11, <2>1 DEF Within
<1>13. Affords(f, envelope') BY <1>2, <1>3, <1>12 DEF Affords
<1> HIDE DEF be, z
<1>14. Held(z, 1, Cap(be)) /\ FitsAt(z, 1) BY <1>3, <1>8 DEF Held, FitsAt
<1>15. Covered(z, be, envelope') BY <1>8, <1>10, <1>13, <1>14 DEF Covered
<1> QED BY <1>6, <1>15 DEF CapInv, be, z

\* The allocation of a thread with a scope open.
LEMMA ScopeAlloc ==
  ASSUME Typed, Shapes, NEW t \in Threads, stack[t] # <<>>
  PROVE  current[t] \in Allocs /\ current[t].root \in 1..Len(envelope)
         /\ envelope[current[t].root].budget \in Int /\ Len(envelope) \in Nat
<1>1. Len(ledger) = Len(envelope) /\ Len(envelope) \in Nat BY DEF Typed
<1>2. current[t].root \in 1..Len(envelope) BY <1>1, RootBound
<1> QED BY <1>1, <1>2, EnvelopeAt DEF Typed

LEMMA CapEntersNested ==
  ASSUME Typed, Shapes, CapInv, NEW t \in Threads, EnterNested(t)
  PROVE  CapInv'
<1>1. Typed' /\ Working(t) /\ envelope' = envelope /\ Narrowed(current'[t], current[t]) BY EnterNestedMoves
<1>2. PICK f \in CallFrames : Pushes(t, f) /\ f.prev = current[t] BY EnterNestedMoves
<1>3. f.kind = "call" /\ f \in Frames BY DEF CallFrames, Frames
<1>4. stack[t] # <<>> BY <1>1, WorkingScope
<1>5. /\ current[t] \in Allocs /\ Len(envelope) \in Nat
      /\ current[t].root > 0 => envelope[current[t].root].budget \in Int
  BY <1>4, ScopeAlloc
<1>6. current'[t] \in Allocs BY <1>1 DEF Narrowed
<1>7. Covered(stack[t], current[t], envelope) BY DEF CapInv
<1>8. Within(current[t], envelope) BY <1>7 DEF Covered
<1>9. Cap(current'[t]) <= Cap(current[t]) /\ Within(current'[t], envelope)
  BY <1>1, <1>5, <1>6, <1>8, NarrowedFits
<1>10. Affords(f, envelope) BY <1>2, <1>3, <1>8 DEF Affords
<1>11. stack[t] \in Seq(Frames) /\ stack'[t] \in Seq(Frames) BY <1>1 DEF Typed
<1>12. Pushed(stack[t], stack'[t], f) /\ Stays(t) BY <1>2 DEF Pushes
<1>13. Covered(stack'[t], current'[t], envelope)
  BY <1>2, <1>3, <1>5, <1>6, <1>7, <1>9, <1>10, <1>11, <1>12, CoveredPush
<1> QED BY <1>1, <1>12, <1>13, CapSame

LEMMA Division ==
  ASSUME NEW m \in Nat, NEW k \in Nat \ {0}
  PROVE  m \div k \in Nat /\ k * (m \div k) <= m /\ m \div k <= m
OBVIOUS

LEMMA CapDispatches ==
  ASSUME Typed, Shapes, CapInv, NEW t \in Threads, Dispatch(t)
  PROVE  CapInv'
<1> DEFINE be == current'[t]
<1>1. Typed' /\ Working(t) /\ envelope' = envelope /\ Narrowed(be, current[t]) BY DispatchMoves
<1>2. PICK f \in JobFrames :
              /\ Pushes(t, f) /\ f.prev = current[t] /\ f.child.root = current[t].root
              /\ \E x \in Amounts : /\ f.child.caps = Append(be.caps, x)
                                    /\ x = be.caps[Len(be.caps)] \div f.workers
  BY DispatchMoves
<1>3. f.kind = "replicates" /\ f \in Frames /\ f.child \in Allocs /\ f.workers \in 1..Cpu
  BY DEF JobFrames, Frames
<1>4. stack[t] # <<>> BY <1>1, WorkingScope
<1>5. /\ current[t] \in Allocs /\ Len(envelope) \in Nat /\ current[t].root \in 1..Len(envelope)
      /\ envelope[current[t].root].budget \in Int
  BY <1>4, ScopeAlloc
<1>6. be \in Allocs BY <1>1 DEF Narrowed
<1>7. Covered(stack[t], current[t], envelope) BY DEF CapInv
<1>8. Within(current[t], envelope) BY <1>7 DEF Covered
<1>9. Cap(be) <= Cap(current[t]) /\ Within(be, envelope) /\ Finest(be) <= Finest(current[t])
  BY <1>1, <1>5, <1>6, <1>8, NarrowedFits
<1> HIDE DEF be
<1>10. PICK x \in Amounts : f.child.caps = Append(be.caps, x) /\ x = Finest(be) \div f.workers
  BY <1>2 DEF Finest
<1>11. Cap(f.child) <= Cap(be) /\ Finest(f.child) = x BY <1>3, <1>6, <1>10, CapShrinks DEF Finest
<1>12. Cap(f.child) \in Int /\ Cap(be) \in Int /\ Cap(current[t]) \in Int /\ Finest(be) \in Nat
       /\ Finest(current[t]) \in Nat
  BY <1>3, <1>5, <1>6, CapInts
<1>13. f.workers \in Nat \ {0} BY <1>3, Constants
<1>14. x \in Nat /\ f.workers * x <= Finest(be) /\ x <= Finest(be) BY <1>10, <1>12, <1>13, Division
<1>15. Finest(current[t]) <= envelope[current[t].root].budget BY <1>5, <1>8 DEF Within
<1>16. f.workers * x \in Nat BY <1>13, <1>14
<1>17. f.workers * Finest(f.child) <= envelope[f.child.root].budget
  <2> DEFINE p == f.workers * x
             b == envelope[current[t].root].budget
  <2>1. p \in Nat /\ p <= Finest(be) /\ Finest(be) <= Finest(current[t]) /\ Finest(current[t]) <= b /\ b \in Int
    BY <1>5, <1>9, <1>14, <1>15, <1>16
  <2> HIDE DEF p, b
  <2>2. p <= b BY <1>12, <2>1
  <2> QED BY <1>2, <1>11, <2>2 DEF p, b
<1>18. Within(f.child, envelope)
  <2>1. x <= envelope[current[t].root].budget BY <1>5, <1>9, <1>12, <1>14, <1>15
  <2> QED BY <1>2, <1>5, <1>11, <2>1 DEF Within
<1>19. Affords(f, envelope) BY <1>2, <1>3, <1>5, <1>8, <1>17, <1>18 DEF Affords
<1>20. stack[t] \in Seq(Frames) /\ stack'[t] \in Seq(Frames) BY <1>1 DEF Typed
<1>21. Pushed(stack[t], stack'[t], f) /\ Stays(t) BY <1>2 DEF Pushes
<1>22. Cap(f.child) <= Cap(current[t]) BY <1>9, <1>11, <1>12
<1>23. Covered(stack'[t], be, envelope)
  BY <1>2, <1>3, <1>5, <1>6, <1>7, <1>9, <1>19, <1>20, <1>21, <1>22, CoveredPush
<1> QED BY <1>1, <1>21, <1>23, CapSame DEF be

LEMMA CapReserves ==
  ASSUME Typed, Shapes, CapInv, NEW t \in Threads, Reserve(t) \/ ReserveEstimate(t)
  PROVE  CapInv'
<1>1. envelope' = envelope /\ current' = current BY ReserveOpens
<1>2. PICK f \in ReserveFrames : Pushes(t, f) BY ReserveOpens
<1>3. f.kind = "reserve" /\ f \in Frames BY DEF ReserveFrames, Frames
<1>4. Typed' BY ReserveShapes
<1>5. Covered(stack[t], current[t], envelope) BY DEF CapInv
<1>6. Within(current[t], envelope) BY <1>5 DEF Covered
<1>7. Affords(f, envelope) BY <1>3 DEF Affords
<1>8. stack[t] \in Seq(Frames) /\ stack'[t] \in Seq(Frames) /\ current[t] \in Allocs /\ Len(envelope) \in Nat
  BY <1>4 DEF Typed
<1>9. Pushed(stack[t], stack'[t], f) /\ Stays(t) BY <1>2 DEF Pushes
<1>10. Cap(current[t]) <= Cap(current[t]) BY <1>8, CapInts
<1>11. Covered(stack'[t], current[t], envelope)
  BY <1>3, <1>5, <1>6, <1>7, <1>8, <1>9, <1>10, CoveredPush
<1> QED BY <1>1, <1>4, <1>9, <1>11, CapSame

LEMMA CapStarts ==
  ASSUME Typed, Shapes, CapInv, NEW w \in Threads, NEW d \in Threads, StartTask(w, d)
  PROVE  CapInv'
<1>1. PICK f \in JobFrames, g \in WorkerFrames :
              /\ f = stack[d][Len(stack[d])] /\ Pushes(w, g)
              /\ g.prev = current[w] /\ g.slice = f.child /\ current'[w] = f.child
  BY StartTaskMoves
<1>2. Typed' /\ envelope' = envelope /\ stack[d] # <<>> /\ (w = d \/ stack[w] = <<>>) BY StartTaskMoves
<1>3. f.kind = "replicates" /\ g.kind = "worker" /\ g \in Frames /\ f.child \in Allocs
  BY DEF JobFrames, WorkerFrames, Frames
<1>4. Covered(stack[w], current[w], envelope) /\ Covered(stack[d], current[d], envelope) BY DEF CapInv
<1>5. Len(stack[d]) \in 1..Len(stack[d])
  <2>1. stack[d] \in Seq(Frames) BY DEF Typed
  <2> QED BY <1>2, <2>1
<1>6. Affords(f, envelope) BY <1>1, <1>4, <1>5 DEF Covered
<1>7. Within(f.child, envelope) BY <1>3, <1>6 DEF Affords
<1>8. Within(current[w], envelope) BY <1>4 DEF Covered
<1>9. Affords(g, envelope) BY <1>1, <1>3, <1>8 DEF Affords
<1>10. stack[w] \in Seq(Frames) /\ stack'[w] \in Seq(Frames) /\ current[w] \in Allocs /\ Len(envelope) \in Nat
  BY <1>2 DEF Typed
<1>11. Pushed(stack[w], stack'[w], g) /\ Stays(w) BY <1>1 DEF Pushes
<1>12. stack[w] # <<>> => stack[w][Len(stack[w])].kind = "replicates" /\ f.child = stack[w][Len(stack[w])].child
  BY <1>1, <1>2, <1>3
<1>13. Covered(stack'[w], f.child, envelope)
  BY <1>1, <1>3, <1>4, <1>7, <1>9, <1>10, <1>11, <1>12, CoveredPush
<1> QED BY <1>1, <1>2, <1>11, <1>13, CapSame

LEMMA CapLeaves ==
  ASSUME Typed, Shapes, CapInv, NEW t \in Threads,
         ExitCall(t) \/ ExitReserve(t) \/ EndTask(t) \/ EndJob(t)
  PROVE  CapInv'
<1> DEFINE f == stack[t][Len(stack[t])]
<1>1. Typed' /\ Pops(t) /\ envelope' = envelope
  BY ExitCallMoves, ExitReserveMoves, EndTaskMoves, EndJobMoves DEF ReservationEnds
<1>2. current'[t] = IF f.kind = "reserve" THEN current[t] ELSE f.prev
  <2>1. CASE ExitReserve(t)
    <3>1. f.kind = "reserve" BY <2>1 DEF ExitReserve, TopIs, Top
    <3> QED BY <2>1, <3>1, ExitReserveMoves DEF ReservationEnds
  <2>2. CASE ExitCall(t)
    <3>1. f.kind = "call" BY <2>2 DEF ExitCall, TopIs, Top
    <3> QED BY <2>2, <3>1, ExitCallMoves
  <2>3. CASE EndTask(t)
    <3>1. f.kind = "worker" BY <2>3 DEF EndTask, TopIs, Top
    <3> QED BY <2>3, <3>1, EndTaskMoves
  <2>4. CASE EndJob(t)
    <3>1. f.kind = "replicates" BY <2>4 DEF EndJob, TopIs, Top
    <3> QED BY <2>4, <3>1, EndJobMoves
  <2> QED BY <2>1, <2>2, <2>3, <2>4
<1>3. f = stack[t][Len(stack[t])] OBVIOUS
<1> HIDE DEF f
<1>4. Covered(stack[t], current[t], envelope) BY DEF CapInv
<1>5. stack[t] \in Seq(Frames) /\ stack'[t] \in Seq(Frames) /\ current[t] \in Allocs /\ Len(envelope) \in Nat
  BY <1>1 DEF Typed
<1>6. Popped(stack[t], stack'[t]) /\ Stays(t) BY <1>1 DEF Pops
<1>7. Covered(stack'[t], current'[t], envelope) BY <1>2, <1>3, <1>4, <1>5, <1>6, CoveredPop
<1> QED BY <1>1, <1>6, <1>7, CapSame

LEMMA CapNext ==
  ASSUME Typed, Shapes, CapInv, [Next]_vars
  PROVE  CapInv'
<1>1. CASE UNCHANGED vars BY <1>1 DEF CapInv, vars
<1>2. CASE Next
  <2>1. PICK t \in Threads : Step(t) BY <1>2 DEF Next
  <2>2. CASE EnterRoot(t) BY <2>2, CapEntersRoot
  <2>3. CASE EnterNested(t) BY <2>3, CapEntersNested
  <2>4. CASE ExitCall(t) \/ ExitReserve(t) \/ EndTask(t) \/ EndJob(t) BY <2>4, CapLeaves
  <2>5. CASE Reserve(t) \/ ReserveEstimate(t) BY <2>5, CapReserves
  <2>6. CASE Dispatch(t) BY <2>6, CapDispatches
  <2>7. CASE \E d \in Threads : StartTask(t, d) BY <2>7, CapStarts
  <2> QED BY <2>1, <2>2, <2>3, <2>4, <2>5, <2>6, <2>7 DEF Step
<1> QED BY <1>1, <1>2

LEMMA CapInvariant == Spec => []CapInv
<1>1. Init => CapInv BY CapInit
<1>2. Typed /\ Shapes /\ CapInv /\ [Next]_vars => CapInv' BY CapNext
<1> QED BY <1>1, <1>2, ShapesInvariant, PTL DEF Spec

-----------------------------------------------------------------------------
(* What a replicate's own claims come to. *)

\* Scope n is the last one of a slice.
Ends(s, n) == n = Len(s) \/ s[n + 1].kind = "worker"
\* The claims of t in the slice that ends at n, by the ledger c, against that slice.
Spent(t, s, n, c) ==
  \A a \in 1..n : s[a].kind = "worker" /\ (\A b \in (a + 1)..n : s[b].kind # "worker") =>
                    Claimed(Restrict(c, OwnKeys(t, s, n))) <= Cap(s[a].slice)
Thrifty(t, s, c) == \A n \in 0..Len(s) : Ends(s, n) => Spent(t, s, n, c)
SliceInv == \A t \in Threads : stack[t] # <<>> => Thrifty(t, stack[t], ledger[current[t].root])

LEMMA PartSame ==
  ASSUME NEW c, IsTable(c), NEW K \in SUBSET DOMAIN c, NEW d, \A k \in K : d[k] = c[k]
  PROVE  IsTable(Restrict(d, K)) /\ Claimed(Restrict(d, K)) = Claimed(Restrict(c, K))
<1>1. IsTable(Restrict(c, K)) BY ClaimedPart
<1>2. /\ DOMAIN Restrict(d, K) = DOMAIN Restrict(c, K)
      /\ \A k \in DOMAIN Restrict(d, K) : Restrict(d, K)[k] = Restrict(c, K)[k]
  BY DEF Restrict
<1> QED BY <1>1, <1>2, ClaimedSame

\* The kinds and slices of the scopes stay, and so does what is spent.
LEMMA SpentSame ==
  ASSUME NEW t, NEW s, NEW z, NEW n \in Nat, \A i \in 1..n : Alike(s[i], z[i]),
         NEW c, IsTable(c), NEW d, OwnKeys(t, s, n) \subseteq DOMAIN c,
         \A k \in OwnKeys(t, s, n) : d[k] = c[k], Spent(t, s, n, c)
  PROVE  Spent(t, z, n, d)
<1>1. OwnKeys(t, z, n) = OwnKeys(t, s, n) BY OwnSame
<1>2. Claimed(Restrict(d, OwnKeys(t, s, n))) = Claimed(Restrict(c, OwnKeys(t, s, n))) BY PartSame
<1>3. \A i \in 1..n : z[i].kind = s[i].kind /\ (s[i].kind = "worker" => z[i].slice = s[i].slice)
  BY DEF Alike
<1>4. ASSUME NEW a \in 1..n, z[a].kind = "worker", \A b \in (a + 1)..n : z[b].kind # "worker"
      PROVE  Claimed(Restrict(d, OwnKeys(t, z, n))) <= Cap(z[a].slice)
  <2>1. \A b \in (a + 1)..n : b \in 1..n OBVIOUS
  <2>2. s[a].kind = "worker" /\ \A b \in (a + 1)..n : s[b].kind # "worker" BY <1>3, <1>4, <2>1
  <2>3. Claimed(Restrict(c, OwnKeys(t, s, n))) <= Cap(s[a].slice) BY <2>2 DEF Spent
  <2> QED BY <1>1, <1>2, <1>3, <1>4, <2>3
<1> QED BY <1>4 DEF Spent

\* All claims of the slices of t are in the ledger of its call.
LEMMA OwnInLedger ==
  ASSUME Typed, Shapes, ClaimInv, NEW t \in Threads, stack[t] # <<>>, NEW n \in 0..Len(stack[t]),
         NEW r, r = current[t].root
  PROVE  /\ r \in 1..Len(ledger) /\ IsTable(ledger[r])
         /\ OwnKeys(t, stack[t], n) \subseteq DOMAIN ledger[r]
<1>1. stack[t] \in Seq(Frames) /\ n \in Nat /\ n <= Len(stack[t]) BY DEF Typed
<1>2. r \in 1..Len(ledger) BY RootBound
<1>3. IsTable(ledger[r]) BY <1>2, TablesAt, TableOf
<1>4. \A k \in OwnKeys(t, stack[t], n) : k \in DOMAIN ledger[r]
  <2> TAKE k \in OwnKeys(t, stack[t], n)
  <2>1. PICK b \in Opened(stack[t]) : b <= n /\ k = <<t, b>> BY <1>1, OwnOpened
  <2>2. b \in Nat BY DEF Opened
  <2> QED BY <1>2, <2>1, <2>2 DEF ClaimInv, ThreadClaims
<1> QED BY <1>2, <1>3, <1>4

\* The other threads.
LEMMA SliceOthers ==
  ASSUME Typed, Typed', Shapes, ClaimInv, SliceInv, NEW t \in Threads, Stays(t), OtherClaims(t)
  PROVE  \A u \in Threads \ {t} : stack'[u] # <<>> => Thrifty(u, stack'[u], ledger'[current'[u].root])
<1> SUFFICES ASSUME NEW u \in Threads \ {t}, stack'[u] # <<>>,
                    NEW n \in 0..Len(stack'[u]), Ends(stack'[u], n)
             PROVE  Spent(u, stack'[u], n, ledger'[current'[u].root])
  BY DEF Thrifty
<1> DEFINE r == current[u].root
<1>0. r = current[u].root OBVIOUS
<1>1. stack[u] \in Seq(Frames) /\ stack'[u] \in Seq(Frames) /\ Len(stack[u]) \in Nat BY DEF Typed
<1>2. Kept(stack[u], stack'[u]) /\ current'[u].root = r BY DEF Stays
<1>3. Len(stack'[u]) = Len(stack[u]) /\ \A i \in 1..Len(stack[u]) : Alike(stack[u][i], stack'[u][i])
  BY <1>2 DEF Kept
<1>4. stack[u] # <<>> BY <1>1, <1>3
<1> HIDE DEF r
<1>5. n \in 0..Len(stack[u]) /\ n \in Nat /\ n <= Len(stack[u]) BY <1>1, <1>3
<1>6. r \in 1..Len(ledger) /\ IsTable(ledger[r]) /\ OwnKeys(u, stack[u], n) \subseteq DOMAIN ledger[r]
  BY <1>0, <1>4, <1>5, OwnInLedger
<1>7. Ends(stack[u], n)
  <2>1. CASE n = Len(stack[u]) BY <2>1 DEF Ends
  <2>2. CASE n # Len(stack[u])
    <3>1. n + 1 \in 1..Len(stack[u]) BY <1>1, <1>5, <2>2
    <3>2. stack'[u][n + 1].kind = stack[u][n + 1].kind BY <1>3, <3>1 DEF Alike
    <3> QED BY <1>3, <2>2, <3>2 DEF Ends
  <2> QED BY <2>1, <2>2
<1>8. Spent(u, stack[u], n, ledger[r]) BY <1>0, <1>4, <1>5, <1>7 DEF SliceInv, Thrifty
<1>9. \A k \in OwnKeys(u, stack[u], n) : ledger'[r][k] = ledger[r][k]
  <2> TAKE k \in OwnKeys(u, stack[u], n)
  <2>1. PICK b \in Opened(stack[u]) : k = <<u, b>> BY <1>1, <1>5, OwnOpened
  <2>2. b \in Nat BY DEF Opened
  <2>3. <<u, b>> \in DOMAIN ledger[r] BY <1>6, <2>1
  <2> QED BY <1>6, <2>1, <2>2, <2>3 DEF OtherClaims
<1>10. \A i \in 1..n : Alike(stack[u][i], stack'[u][i])
  <2>1. \A i \in 1..n : i \in 1..Len(stack[u]) BY <1>5
  <2> QED BY <1>3, <2>1
<1>11. Spent(u, stack'[u], n, ledger'[r]) BY <1>5, <1>6, <1>8, <1>9, <1>10, SpentSame
<1> QED BY <1>2, <1>11

\* The slices of t that ended before its innermost one.
LEMMA SliceBelow ==
  ASSUME Typed, Shapes, ClaimInv, SliceInv, NEW t \in Threads, stack[t] # <<>>,
         NEW z, NEW n \in Nat, n <= Len(stack[t]), Ends(stack[t], n),
         \A i \in 1..n : Alike(stack[t][i], z[i]),
         NEW d, \A k \in OwnKeys(t, stack[t], n) : d[k] = ledger[current[t].root][k]
  PROVE  Spent(t, z, n, d)
<1> DEFINE r == current[t].root
           c == ledger[r]
<1>0. r = current[t].root OBVIOUS
<1>1. n \in 0..Len(stack[t])
  <2>1. Len(stack[t]) \in Nat BY DEF Typed
  <2> QED BY <2>1
<1>2. IsTable(c) /\ OwnKeys(t, stack[t], n) \subseteq DOMAIN c BY <1>1, OwnInLedger
<1>3. Spent(t, stack[t], n, c) BY <1>1 DEF SliceInv, Thrifty
<1>4. \A k \in OwnKeys(t, stack[t], n) : d[k] = c[k] OBVIOUS
<1> HIDE DEF c, r
<1> QED BY <1>2, <1>3, <1>4, SpentSame

\* A scope that claims nothing, opened.
LEMMA SlicePush ==
  ASSUME Typed, Typed', Shapes, ClaimInv, SliceInv, NEW t \in Threads, NEW f \in Frames,
         Pushes(t, f), f.kind \in {"call", "worker", "replicates"}, ledger' = ledger,
         stack[t] # <<>> => current'[t].root = current[t].root
  PROVE  Thrifty(t, stack'[t], ledger'[current'[t].root])
<1> DEFINE z == stack'[t]
           m == Len(stack[t])
           d == ledger'[current'[t].root]
<1>1. stack[t] \in Seq(Frames) /\ z \in Seq(Frames) /\ m \in Nat BY DEF Typed
<1>2. Len(z) = m + 1 /\ z[m + 1] = f /\ \A i \in 1..m : Alike(stack[t][i], z[i])
  BY DEF Pushes, Pushed
<1> SUFFICES ASSUME NEW n \in 0..Len(z), Ends(z, n) PROVE Spent(t, z, n, d) BY DEF Thrifty
<1>3. n \in Nat /\ (n = m + 1 \/ n <= m) BY <1>1, <1>2
<1> HIDE DEF z
<1>4. CASE n = m + 1 /\ f.kind = "worker"
  <2>1. OwnKeys(t, z, m + 1) = {} BY <1>1, <1>2, <1>4, OwnNext
  <2>2. DOMAIN Restrict(d, {}) = {} BY DEF Restrict
  <2>3. Claimed(Restrict(d, {})) = 0 BY <2>2, ClaimedNone
  <2>4. \A a \in 1..n : z[a].kind = "worker" => 0 <= Cap(z[a].slice)
    <3> SUFFICES ASSUME NEW a \in 1..n, z[a].kind = "worker" PROVE 0 <= Cap(z[a].slice) OBVIOUS
    <3>1. a \in 1..Len(z) BY <1>2, <1>4
    <3>2. z[a] \in Frames BY <1>1, <3>1, ElementOfSeq
    <3>3. z[a] \in WorkerFrames BY <3>2, FrameOfKind
    <3>4. z[a].slice \in Allocs BY <3>3 DEF WorkerFrames
    <3> QED BY <3>4, CapOf DEF Amounts
  <2> QED BY <1>4, <2>1, <2>3, <2>4 DEF Spent
<1>5. CASE n = m + 1 /\ f.kind # "worker"
  <2>1. ~Additive(z[m + 1]) /\ z[m + 1].kind # "worker" BY <1>2, <1>5 DEF Additive
  <2>2. OwnKeys(t, z, m + 1) = OwnKeys(t, z, m) BY <1>1, <2>1, OwnNext
  <2>3. Spent(t, z, m, d)
    <3>1. CASE stack[t] = <<>>
      <4>1. m = 0 BY <3>1
      <4> QED BY <4>1 DEF Spent
    <3>2. CASE stack[t] # <<>>
      <4>1. Ends(stack[t], m) BY DEF Ends
      <4>2. d = ledger[current[t].root] /\ m <= Len(stack[t]) BY <1>1, <3>2
      <4> HIDE DEF d, m
      <4> QED BY <1>1, <1>2, <3>2, <4>1, <4>2, SliceBelow
    <3> QED BY <3>1, <3>2
  <2>4. \A a \in 1..n : a \in 1..m \/ a = m + 1 BY <1>1, <1>5
  <2>5. \A b \in 1..n : \A i \in (b + 1)..m : i \in (b + 1)..n BY <1>1, <1>5
  <2> QED BY <1>5, <2>1, <2>2, <2>3, <2>4, <2>5 DEF Spent
<1>6. CASE n <= m
  <2>1. stack[t] = <<>> => n = 0 BY <1>3, <1>6
  <2>2. CASE stack[t] = <<>> BY <2>1, <2>2 DEF Spent
  <2>3. CASE stack[t] # <<>>
    <3>1. Ends(stack[t], n)
      <4>1. CASE n = m BY <4>1 DEF Ends
      <4>2. CASE n # m
        <5>1. n + 1 \in 1..m /\ n # Len(z) BY <1>1, <1>2, <1>3, <1>6, <4>2
        <5>2. z[n + 1].kind = stack[t][n + 1].kind BY <1>2, <5>1 DEF Alike
        <5> QED BY <5>1, <5>2 DEF Ends
      <4> QED BY <4>1, <4>2
    <3>2. d = ledger[current[t].root] BY <2>3
    <3>3. \A i \in 1..n : Alike(stack[t][i], z[i])
      <4>1. \A i \in 1..n : i \in 1..m BY <1>1, <1>3, <1>6
      <4> QED BY <1>2, <4>1
    <3> HIDE DEF d
    <3> QED BY <1>3, <1>6, <2>3, <3>1, <3>2, <3>3, SliceBelow
  <2> QED BY <2>2, <2>3
<1> QED BY <1>3, <1>4, <1>5, <1>6

\* One closed.
LEMMA SlicePop ==
  ASSUME Typed, Typed', Shapes, ClaimInv, SliceInv, NEW t \in Threads, NEW f \in Frames,
         f = stack[t][Len(stack[t])], Pops(t), f.kind \in {"call", "worker", "replicates"},
         ledger' = ledger, stack'[t] # <<>>, current'[t].root = current[t].root
  PROVE  Thrifty(t, stack'[t], ledger'[current'[t].root])
<1> DEFINE z == stack'[t]
           m == Len(z)
           r == current[t].root
           c == ledger[r]
<1>0. r = current[t].root OBVIOUS
<1>1. stack[t] \in Seq(Frames) /\ z \in Seq(Frames) /\ m \in Nat BY DEF Typed
<1>2. /\ Len(stack[t]) = m + 1 /\ stack[t][m + 1] = f /\ stack[t] # <<>>
      /\ \A i \in 1..m : Alike(stack[t][i], z[i])
  BY DEF Pops, Popped
<1>7. \A q \in 0..Len(stack[t]) : IsTable(c) /\ OwnKeys(t, stack[t], q) \subseteq DOMAIN c
  BY <1>2, OwnInLedger
<1> SUFFICES ASSUME NEW n \in 0..m, Ends(z, n) PROVE Spent(t, z, n, c) BY DEF Thrifty
<1>3. n \in Nat /\ n <= m /\ n <= Len(stack[t]) BY <1>1, <1>2
<1>4. \A i \in 1..n : Alike(stack[t][i], z[i])
  <2>1. \A i \in 1..n : i \in 1..m BY <1>1, <1>3
  <2> QED BY <1>2, <2>1
<1>5. CASE n = m /\ f.kind # "worker"
  <2>1. ~Additive(stack[t][m + 1]) /\ stack[t][m + 1].kind # "worker" BY <1>2, <1>5 DEF Additive
  <2>2. OwnKeys(t, stack[t], m + 1) = OwnKeys(t, stack[t], m) BY <1>1, <2>1, OwnNext
  <2>3. Ends(stack[t], m + 1) /\ m + 1 \in 0..Len(stack[t]) BY <1>1, <1>2 DEF Ends
  <2>4. Spent(t, stack[t], m + 1, c) BY <1>2, <2>3 DEF SliceInv, Thrifty
  <2>5. Spent(t, stack[t], m, c)
    <3>1. \A a \in 1..m : a \in 1..(m + 1) BY <1>1
    <3>2. \A a \in 1..m : \A b \in (a + 1)..(m + 1) : b \in (a + 1)..m \/ b = m + 1 BY <1>1
    <3> QED BY <2>1, <2>2, <2>4, <3>1, <3>2 DEF Spent
  <2>6. IsTable(c) /\ OwnKeys(t, stack[t], m) \subseteq DOMAIN c
    <3>1. m \in 0..Len(stack[t]) BY <1>1, <1>2
    <3> QED BY <1>7, <3>1
  <2> HIDE DEF c, z, m
  <2> QED BY <1>1, <1>4, <1>5, <2>5, <2>6, SpentSame
<1>6. CASE n # m \/ f.kind = "worker"
  <2>1. Ends(stack[t], n)
    <3>1. CASE n = m BY <1>2, <1>6, <3>1 DEF Ends
    <3>2. CASE n # m
      <4>1. n + 1 \in 1..m BY <1>1, <1>3, <3>2
      <4>2. z[n + 1].kind = stack[t][n + 1].kind BY <1>2, <4>1 DEF Alike
      <4> QED BY <3>2, <4>2 DEF Ends
    <3> QED BY <3>1, <3>2
  <2>2. c = ledger[current[t].root] OBVIOUS
  <2> HIDE DEF z, m, c
  <2> QED BY <1>2, <1>3, <1>4, <2>1, <2>2, SliceBelow
<1> QED BY <1>5, <1>6

\* A slice and the one around it have no claim in common.
LEMMA SlicesApart ==
  ASSUME NEW t, NEW s, NEW m \in Nat, NEW n \in Nat, n < m, s[n + 1].kind = "worker"
  PROVE  \A k \in OwnKeys(t, s, n) : k \notin OwnKeys(t, s, m)
<1> SUFFICES ASSUME NEW b \in OwnScopes(s, n), <<t, b>> \in OwnKeys(t, s, m) PROVE FALSE
  BY DEF OwnKeys
<1>1. b \in 1..n BY DEF OwnScopes
<1>2. \A c \in b..m : s[c].kind # "worker" BY DEF OwnKeys, OwnScopes
<1>3. n + 1 \in b..m BY <1>1
<1> QED BY <1>2, <1>3

\* The claims a thread may count as its own are those of its innermost slice.
LEMMA OwnTop ==
  ASSUME Typed, Shapes, ClaimInv, NEW t \in Threads, stack[t] # <<>>, NEW r, r = current[t].root
  PROVE  /\ Own(t, ledger[r]) = Claimed(Restrict(ledger[r], OwnKeys(t, stack[t], Len(stack[t]))))
         /\ chain[t] = OwnKeys(t, stack[t], Len(stack[t])) /\ Known(t) = chain[t]
         /\ Own(t, ledger[r]) \in Nat
<1>1. ThreadClaims(t) /\ Len(stack[t]) \in 0..Len(stack[t])
  <2>1. Len(stack[t]) \in Nat BY DEF Typed
  <2> QED BY <2>1 DEF ClaimInv
<1>2. chain[t] = OwnKeys(t, stack[t], Len(stack[t])) BY <1>1 DEF ThreadClaims, Chained
<1>3. IsTable(ledger[r]) /\ chain[t] \subseteq DOMAIN ledger[r] BY <1>1, <1>2, OwnInLedger
<1>4. chain[t] \cap DOMAIN ledger[r] = chain[t] BY <1>3
<1>5. Own(t, ledger[r]) = Claimed(Restrict(ledger[r], chain[t])) BY <1>4 DEF Own
<1>6. IsTable(Restrict(ledger[r], chain[t])) BY <1>3, ClaimedPart
<1>7. Known(t) = chain[t] BY <1>1, SelfKeys
<1> QED BY <1>2, <1>5, <1>6, <1>7, ClaimedNat

\* A reservation is opened, and the new total keeps to what admission allows.
LEMMA SliceGrows ==
  ASSUME Typed, Typed', Shapes, ClaimInv, CapInv, SliceInv, NEW t \in Threads, stack[t] # <<>>,
         NEW f \in ReserveFrames, Pushes(t, f), NEW r, r = current[t].root, current'[t].root = r,
         NEW total \in Int,
         total = Claimed(Restrict(ledger'[r], OwnKeys(t, stack'[t], Len(stack[t]) + 1))),
         total - Own(t, ledger[r]) <= Most(0, Cap(current[t]) - Own(t, ledger[r])),
         \A n \in Nat : n < Len(stack[t]) /\ stack[t][n + 1].kind = "worker" =>
            \A k \in OwnKeys(t, stack[t], n) : ledger'[r][k] = ledger[r][k]
  PROVE  Thrifty(t, stack'[t], ledger'[current'[t].root])
<1> DEFINE s == stack[t]
           z == stack'[t]
           m == Len(s)
           c == ledger[r]
           d == ledger'[r]
           own == Own(t, c)
<1>1. s \in Seq(Frames) /\ z \in Seq(Frames) /\ m \in Nat /\ current[t] \in Allocs BY DEF Typed
<1>2. /\ Len(z) = m + 1 /\ z[m + 1] = f /\ f.kind = "reserve"
      /\ \A i \in 1..m : Alike(s[i], z[i])
  BY DEF Pushes, Pushed, ReserveFrames
<1>3. \A i \in 1..m : z[i].kind = s[i].kind /\ (s[i].kind = "worker" => z[i].slice = s[i].slice)
  BY <1>2 DEF Alike
<1>4. own = Claimed(Restrict(c, OwnKeys(t, s, m))) /\ own \in Nat BY OwnTop
<1>5. Spent(t, s, m, c)
  <2>1. Ends(s, m) /\ m \in 0..Len(s) BY <1>1 DEF Ends
  <2> QED BY <2>1 DEF SliceInv, Thrifty
<1>6. Held(s, m, Cap(current[t])) BY DEF CapInv, Covered
<1>7. Cap(current[t]) \in Int BY <1>1, CapInts
<1>8. Spent(t, z, m + 1, d)
  <2> SUFFICES ASSUME NEW a \in 1..(m + 1), z[a].kind = "worker",
                      \A b \in (a + 1)..(m + 1) : z[b].kind # "worker"
               PROVE  total <= Cap(z[a].slice)
    BY DEF Spent
  <2>1. a # m + 1 BY <1>2
  <2>2. a \in 1..m BY <1>1, <2>1
  <2>3. \A b \in (a + 1)..m : b \in 1..m /\ b \in (a + 1)..(m + 1) BY <1>1
  <2>4. s[a].kind = "worker" /\ z[a].slice = s[a].slice /\ \A b \in (a + 1)..m : s[b].kind # "worker"
    BY <1>3, <2>2, <2>3
  <2>5. own <= Cap(s[a].slice) BY <1>4, <1>5, <2>2, <2>4 DEF Spent
  <2>6. Cap(current[t]) <= Cap(s[a].slice) BY <1>6, <2>2, <2>4 DEF Held
  <2>7. Cap(s[a].slice) \in Int
    <3>1. s[a] \in Frames BY <1>1, <2>2, ElementOfSeq
    <3>2. s[a] \in WorkerFrames BY <2>4, <3>1, FrameOfKind
    <3>3. s[a].slice \in Allocs BY <3>2 DEF WorkerFrames
    <3> QED BY <3>3, CapInts
  <2>8. total - own <= Most(0, Cap(current[t]) - own) BY <1>4
  <2> HIDE DEF own, s, z
  <2> QED BY <1>4, <1>7, <2>4, <2>5, <2>6, <2>7, <2>8 DEF Most
<1>9. ASSUME NEW n \in 0..Len(z), Ends(z, n) PROVE Spent(t, z, n, d)
  <2>1. n \in Nat /\ (n = m + 1 \/ n < m \/ n = m) BY <1>1, <1>2
  <2>2. n # m BY <1>1, <1>2, <1>9 DEF Ends
  <2>3. CASE n < m
    <3>1. n + 1 \in 1..m /\ n # Len(z) BY <1>1, <1>2, <2>1, <2>3
    <3>2. s[n + 1].kind = "worker" BY <1>3, <1>9, <3>1 DEF Ends
    <3>3. Ends(s, n) /\ n <= Len(s) BY <1>1, <2>3, <3>2 DEF Ends
    <3>4. \A i \in 1..n : Alike(s[i], z[i])
      <4>1. \A i \in 1..n : i \in 1..m BY <1>1, <2>1, <2>3
      <4> QED BY <1>2, <4>1
    <3>5. \A k \in OwnKeys(t, s, n) : d[k] = ledger[current[t].root][k] BY <2>1, <2>3, <3>2
    <3> HIDE DEF z, d
    <3> QED BY <2>1, <3>3, <3>4, <3>5, SliceBelow
  <2> QED BY <1>8, <2>1, <2>2, <2>3
<1> QED BY <1>9 DEF Thrifty

LEMMA SliceReserves ==
  ASSUME Typed, Shapes, ClaimInv, CapInv, SliceInv, NEW t \in Threads,
         Reserve(t) \/ ReserveEstimate(t)
  PROVE  SliceInv'
<1>1. PICK amount \in Nat :
         \/ ReserveReuse(t, amount)
         \/ \E frames \in Seq(Frames) : /\ Kept(stack[t], frames)
                                        /\ ReserveAdditive(t, amount, frames)
  BY ReserveForms
<1>2. envelope' = envelope /\ current' = current /\ stack[t] # <<>> BY ReserveForms
<1>3. Typed' BY ReserveShapes
<1> DEFINE r == current[t].root
           s == stack[t]
           z == stack'[t]
           m == Len(s)
           c == ledger[r]
           d == ledger'[r]
           K == OwnKeys(t, s, m)
<1>0. r = current[t].root OBVIOUS
<1>4. m \in Nat /\ s \in Seq(Frames) BY DEF Typed
<1>5. /\ r \in 1..Len(ledger) /\ IsTable(c) /\ K \subseteq DOMAIN c
  <2>1. m \in 0..Len(s) BY <1>4
  <2> QED BY <1>2, <2>1, OwnInLedger
<1>6. Own(t, c) = Claimed(Restrict(c, K)) /\ Known(t) = K /\ Own(t, c) \in Nat BY <1>2, OwnTop
<1>7. ASSUME OtherLedgers(r), ledger' \in Seq(Tables) PROVE IsTable(d)
  <2>1. r \in 1..Len(ledger') BY <1>5, <1>7 DEF OtherLedgers
  <2>2. d \in Tables BY <1>7, <2>1
  <2> QED BY <2>2, TableOf
<1>8. ASSUME NEW f, Pushes(t, f)
      PROVE  /\ \A i \in 1..m : Alike(s[i], z[i])
             /\ z[m + 1] = f /\ OwnKeys(t, z, m) = K
  <2>1. z[m + 1] = f /\ \A i \in 1..m : Alike(s[i], z[i]) BY <1>8 DEF Pushes, Pushed
  <2> QED BY <1>4, <2>1, OwnSame
<1>9. ASSUME NEW f, Pushes(t, f), NEW key, OneClaim(t, r, key),
             Thrifty(t, stack'[t], ledger'[current'[t].root])
      PROVE  SliceInv'
  <2>1. OtherClaims(t) /\ Stays(t) BY <1>5, <1>9, OneClaimOthers DEF Pushes
  <2>2. \A u \in Threads \ {t} : stack'[u] # <<>> => Thrifty(u, stack'[u], ledger'[current'[u].root])
    BY <1>3, <2>1, SliceOthers
  <2> QED BY <1>9, <2>2 DEF SliceInv
<1>10. ThreadClaims(t) BY DEF ClaimInv
<1>11. CASE ReserveReuse(t, amount)
  <2> DEFINE key == Nearest(Known(t))
  <2>0. key = Nearest(Known(t)) OBVIOUS
  <2> HIDE DEF key, r, c, d, s, z, m, K
  <2>1. Extended(t, amount, r, key) BY <1>0, <1>2, <1>11, <2>0, ReuseMoves
  <2>2. /\ ledger' \in Seq(Tables) /\ OtherLedgers(r) /\ key \in Known(t)
        /\ DOMAIN d = DOMAIN c
        /\ d[key] = Most(c[key], amount)
        /\ \A k \in DOMAIN c \ {key} : d[k] = c[k]
        /\ chain'[t] = Known(t)
        /\ Most(c[key], amount) - c[key] <= Most(0, Cap(current[t]) - Own(t, c))
    BY <2>1 DEF Extended, c, d
  <2>3. PICK f \in ReserveFrames : Pushes(t, f) /\ f.key = key /\ f.reuse /\ f.prevChain = chain[t]
                                   /\ f.previous = ledger[r][key]
    BY <2>1 DEF Extended
  <2>4. key \in K /\ key \in DOMAIN c /\ IsTable(d) BY <1>5, <1>6, <1>7, <2>2
  <2>5. c[key] \in Nat /\ d[key] \in Nat BY <1>5, <2>2, <2>4 DEF IsTable
  <2>6. ~Additive(f) /\ f.kind # "worker" BY <2>3 DEF Additive, ReserveFrames
  <2>7. OwnKeys(t, z, m + 1) = K
    <3>1. z[m + 1] = f /\ OwnKeys(t, z, m) = K BY <1>8, <2>3
    <3> QED BY <1>4, <2>6, <3>1, OwnNext
  <2> DEFINE total == Claimed(Restrict(d, K))
  <2>8. total + c[key] = Own(t, c) + d[key]
    <3> DEFINE c1 == Restrict(c, K)
               d1 == Restrict(d, K)
    <3>1. K \subseteq DOMAIN d BY <1>5, <2>2
    <3>2. IsTable(c1) /\ IsTable(d1) BY <1>5, <2>4, <3>1, ClaimedPart
    <3>3. /\ DOMAIN d1 = DOMAIN c1 /\ key \in DOMAIN c1 /\ c1[key] = c[key] /\ d1[key] = d[key]
          /\ \A k \in DOMAIN c1 \ {key} : d1[k] = c1[k]
      BY <1>5, <2>2, <2>4 DEF Restrict
    <3>4. total = Claimed(d1) /\ Own(t, c) = Claimed(c1) BY <1>6
    <3> HIDE DEF c1, d1, total
    <3> QED BY <3>2, <3>3, <3>4, ClaimedChange
  <2>9. total \in Nat
    <3>1. K \subseteq DOMAIN d BY <1>5, <2>2
    <3> QED BY <2>4, <3>1, ClaimedPart, ClaimedNat
  <2>10. total = Claimed(Restrict(ledger'[r], OwnKeys(t, stack'[t], Len(stack[t]) + 1)))
    BY <2>7 DEF d, z, m, s
  <2> HIDE DEF total
  <2>11. total - Own(t, ledger[r]) <= Most(0, Cap(current[t]) - Own(t, ledger[r]))
    <3>1. total - Own(t, c) = Most(c[key], amount) - c[key] BY <1>6, <2>2, <2>5, <2>8, <2>9
    <3> QED BY <2>2, <3>1 DEF c
  <2>12. \A n \in Nat : n < Len(stack[t]) /\ stack[t][n + 1].kind = "worker" =>
            \A k \in OwnKeys(t, stack[t], n) : ledger'[r][k] = ledger[r][k]
    <3> SUFFICES ASSUME NEW n \in Nat, n < m, s[n + 1].kind = "worker", NEW k \in OwnKeys(t, s, n)
                 PROVE  d[k] = c[k]
      BY DEF s, m, c, d
    <3>1. k # key BY <1>4, <2>4, SlicesApart DEF K
    <3>2. n \in 0..Len(s) BY <1>4 DEF m
    <3>3. k \in DOMAIN c BY <1>0, <1>2, <3>2, OwnInLedger DEF c, s
    <3> QED BY <2>2, <3>1, <3>3
  <2>13. current'[t].root = r BY <1>0, <1>2
  <2>14. total \in Int BY <2>9
  <2>15. Thrifty(t, stack'[t], ledger'[current'[t].root])
    BY <1>0, <1>2, <1>3, <2>3, <2>10, <2>11, <2>12, <2>13, <2>14, SliceGrows
  <2>16. OneClaim(t, r, key)
    <3>1. \E b \in Nat : key = <<t, b>>
      <4>1. m \in Nat /\ m <= Len(s) BY <1>4 DEF m
      <4>2. PICK b \in Opened(s) : key = <<t, b>> BY <1>4, <2>4, <4>1, OwnOpened DEF K
      <4> QED BY <4>2 DEF Opened
    <3> QED BY <2>2, <3>1 DEF OneClaim, c, d
  <2> QED BY <1>9, <2>3, <2>15, <2>16
<1>12. CASE \E frames \in Seq(Frames) : Kept(stack[t], frames) /\ ReserveAdditive(t, amount, frames)
  <2> DEFINE key == <<t, Len(stack[t]) + 1>>
  <2>0. key = <<t, Len(stack[t]) + 1>> OBVIOUS
  <2>a. PICK frames \in Seq(Frames) : Kept(stack[t], frames) /\ ReserveAdditive(t, amount, frames)
    BY <1>12
  <2>b. key = <<t, m + 1>> OBVIOUS
  <2> HIDE DEF key, r, c, d, s, z, m, K
  <2>1. Added(t, amount, r, key) BY <1>0, <1>2, <2>a, <2>0, AdditiveMoves
  <2>2. /\ ledger' \in Seq(Tables) /\ OtherLedgers(r)
        /\ DOMAIN d = DOMAIN c \cup {key} /\ d[key] = amount
        /\ \A k \in DOMAIN c \ {key} : d[k] = c[k]
        /\ amount <= Most(0, Cap(current[t]) - Own(t, c))
    BY <2>1 DEF Added, c, d
  <2>3. PICK f \in ReserveFrames : Pushes(t, f) /\ f.key = key /\ ~f.reuse /\ f.prevChain = chain[t]
    BY <2>1 DEF Added
  <2>4. IsTable(d) BY <1>7, <2>2
  <2>5. Additive(f) BY <2>3 DEF Additive, ReserveFrames
  <2>6. key \notin K
    <3>1. m <= Len(s) BY <1>4 DEF m
    <3>2. \A k \in K : \E b \in Opened(s) : b <= m /\ k = <<t, b>> BY <1>4, <3>1, OwnOpened DEF K
    <3> QED BY <1>4, <2>b, <3>2 DEF Opened
  <2>7. OwnKeys(t, z, m + 1) = K \cup {key}
    <3>1. z[m + 1] = f /\ OwnKeys(t, z, m) = K BY <1>8, <2>3
    <3> QED BY <1>4, <2>5, <2>b, <3>1, OwnNext
  <2> DEFINE total == Claimed(Restrict(d, K \cup {key}))
  <2>c. K \cup {key} \subseteq DOMAIN d BY <1>5, <2>2
  <2>8. total = amount + Own(t, c)
    <3> DEFINE c1 == Restrict(c, K)
               d1 == Restrict(d, K \cup {key})
    <3>2. IsTable(d1) BY <2>4, <2>c, ClaimedPart
    <3>3. /\ DOMAIN c1 = DOMAIN d1 \ {key} /\ key \in DOMAIN d1 /\ d1[key] = amount
          /\ \A k \in DOMAIN c1 : c1[k] = d1[k]
      BY <1>5, <2>2, <2>6 DEF Restrict
    <3>4. total = Claimed(d1) /\ Own(t, c) = Claimed(c1) BY <1>6
    <3> HIDE DEF c1, d1, total
    <3> QED BY <3>2, <3>3, <3>4, ClaimedWithout
  <2>9. total \in Int BY <2>4, <2>c, ClaimedPart, ClaimedNat
  <2>10. total = Claimed(Restrict(ledger'[r], OwnKeys(t, stack'[t], Len(stack[t]) + 1)))
    BY <2>7 DEF d, z, m, s
  <2> HIDE DEF total
  <2>11. total - Own(t, ledger[r]) <= Most(0, Cap(current[t]) - Own(t, ledger[r]))
    <3>1. total - Own(t, c) = amount BY <1>6, <2>8
    <3> QED BY <2>2, <3>1 DEF c
  <2>12. \A n \in Nat : n < Len(stack[t]) /\ stack[t][n + 1].kind = "worker" =>
            \A k \in OwnKeys(t, stack[t], n) : ledger'[r][k] = ledger[r][k]
    <3> SUFFICES ASSUME NEW n \in Nat, n < m, s[n + 1].kind = "worker", NEW k \in OwnKeys(t, s, n)
                 PROVE  d[k] = c[k]
      BY DEF s, m, c, d
    <3>1. n \in 0..Len(s) /\ n <= Len(s) BY <1>4 DEF m
    <3>2. PICK b \in Opened(s) : b <= n /\ k = <<t, b>> BY <1>4, <3>1, OwnOpened
    <3>3. k # key BY <1>4, <2>b, <3>2 DEF Opened
    <3>4. k \in DOMAIN c BY <1>0, <1>2, <3>1, OwnInLedger DEF c, s
    <3> QED BY <2>2, <3>3, <3>4
  <2>13. current'[t].root = r BY <1>0, <1>2
  <2>15. Thrifty(t, stack'[t], ledger'[current'[t].root])
    BY <1>0, <1>2, <1>3, <2>3, <2>9, <2>10, <2>11, <2>12, <2>13, SliceGrows
  <2>16. OneClaim(t, r, key)
    <3>1. \E b \in Nat : key = <<t, b>>
      <4>1. m + 1 \in Nat BY <1>4
      <4> QED BY <2>b, <4>1
    <3> QED BY <2>2, <3>1 DEF OneClaim, c, d
  <2> QED BY <1>9, <2>3, <2>15, <2>16
<1> QED BY <1>1, <1>11, <1>12

LEMMA SliceReleases ==
  ASSUME Typed, Shapes, ClaimInv, SliceInv, NEW t \in Threads, ExitReserve(t)
  PROVE  SliceInv'
<1> DEFINE r == current[t].root
           s == stack[t]
           z == stack'[t]
           m == Len(z)
           c == ledger[r]
           d == ledger'[r]
           K == OwnKeys(t, s, m)
           all == OwnKeys(t, s, m + 1)
<1>0. r = current[t].root OBVIOUS
<1>1. stack[t] # <<>> BY DEF ExitReserve, TopIs
<1>2. ReservationEnds(t, r) BY ExitReserveMoves
<1>3. Typed' /\ Pops(t) /\ OtherLedgers(r) /\ current' = current BY <1>2 DEF ReservationEnds
<1>4. PICK f \in ReserveFrames :
           /\ f = s[Len(s)] /\ chain'[t] = f.prevChain
           /\ f.reuse => /\ DOMAIN d = DOMAIN c
                         /\ f.key \in DOMAIN c => d[f.key] = f.previous
           /\ ~f.reuse => DOMAIN d = DOMAIN c \ {f.key}
           /\ \A k \in DOMAIN c \ {f.key} : d[k] = c[k]
  BY <1>2 DEF ReservationEnds
<1>5. s \in Seq(Frames) /\ z \in Seq(Frames) /\ m \in Nat BY <1>3 DEF Typed
<1>6. /\ Len(s) = m + 1 /\ s[m + 1] = f
      /\ \A i \in 1..m : Alike(s[i], z[i])
  BY <1>3, <1>4 DEF Pops, Popped
<1>7. f.kind = "reserve" /\ f.reuse \in BOOLEAN BY DEF ReserveFrames
<1>8. ThreadClaims(t) BY DEF ClaimInv
<1>9. /\ ThreadClaims(t)' /\ OneClaim(t, r, f.key) /\ f.key \in DOMAIN c
      /\ f.reuse => f.previous <= c[f.key]
  BY <1>3, <1>4, <1>8, ClaimPop
<1>10. OtherClaims(t) /\ Stays(t)
  <2>1. r \in 1..Len(ledger) BY <1>1, RootBound
  <2> QED BY <1>3, <1>9, <2>1, OneClaimOthers DEF Pops
<1>11. \A u \in Threads \ {t} : stack'[u] # <<>> => Thrifty(u, stack'[u], ledger'[current'[u].root])
  BY <1>3, <1>10, SliceOthers
<1>12. IsTable(c) /\ \A n \in 0..(m + 1) : OwnKeys(t, s, n) \subseteq DOMAIN c
  BY <1>1, <1>6, OwnInLedger
<1>13. IsTable(d)
  <2>1. r \in 1..Len(ledger') BY <1>1, <1>3, RootBound DEF OtherLedgers
  <2>2. ledger' \in Seq(Tables) BY <1>3 DEF Typed
  <2>3. d \in Tables BY <2>1, <2>2
  <2> QED BY <2>3, TableOf
<1>14. f.key \in all
  <2>1. Linked(t, s, m + 1)
    <3>1. m + 1 \in 1..Len(s) BY <1>5, <1>6
    <3> QED BY <1>8, <3>1 DEF ThreadClaims, Chained
  <2>2. CASE f.reuse
    <3>1. (m + 1) - 1 = m BY <1>5
    <3>2. f.key \in K BY <1>6, <1>7, <2>1, <2>2, <3>1 DEF Linked
    <3>3. ~Additive(s[m + 1]) /\ s[m + 1].kind # "worker" BY <1>6, <1>7, <2>2 DEF Additive
    <3> QED BY <1>5, <3>2, <3>3, OwnNext
  <2>3. CASE ~f.reuse
    <3>1. f.key = <<t, m + 1>> BY <1>6, <1>7, <2>1, <2>3 DEF Linked
    <3>2. Additive(s[m + 1]) BY <1>6, <1>7, <2>3 DEF Additive
    <3> QED BY <1>5, <3>1, <3>2, OwnNext
  <2> QED BY <2>2, <2>3
<1>15. Claimed(Restrict(d, K)) <= Claimed(Restrict(c, all)) /\ IsTable(Restrict(d, K))
  <2> DEFINE c1 == Restrict(c, all)
             d1 == Restrict(d, K)
  <2>1. IsTable(c1)
    <3>1. m + 1 \in 0..(m + 1) BY <1>5
    <3>2. all \subseteq DOMAIN c BY <1>12, <3>1
    <3> QED BY <1>12, <3>2, ClaimedPart
  <2>2. Claimed(c1) \in Nat BY <2>1, ClaimedNat
  <2>3. CASE f.reuse
    <3>1. ~Additive(s[m + 1]) /\ s[m + 1].kind # "worker" BY <1>6, <1>7, <2>3 DEF Additive
    <3>2. all = K BY <1>5, <3>1, OwnNext
    <3>3. K \subseteq DOMAIN d
      <4>1. m \in 0..(m + 1) BY <1>5
      <4> QED BY <1>4, <1>12, <2>3, <4>1
    <3>4. IsTable(d1) BY <1>13, <3>3, ClaimedPart
    <3>5. DOMAIN d1 = DOMAIN c1 BY <3>2 DEF Restrict
    <3>6. f.key \in DOMAIN c1 /\ c1[f.key] = c[f.key] /\ d1[f.key] = d[f.key]
      BY <1>14, <3>2 DEF Restrict
    <3>7. \A k \in DOMAIN c1 \ {f.key} : d1[k] = c1[k]
      <4>1. \A k \in all : k \in DOMAIN c BY <3>2, <3>3, <1>4, <2>3
      <4> QED BY <1>4, <3>2, <4>1 DEF Restrict
    <3>8. d[f.key] = f.previous BY <1>4, <1>9, <2>3
    <3>9. Claimed(d1) \in Nat BY <3>4, ClaimedNat
    <3>10. c[f.key] \in Nat /\ d[f.key] \in Nat /\ d[f.key] <= c[f.key]
      <4>1. f.key \in DOMAIN d BY <1>4, <1>9, <2>3
      <4> QED BY <1>9, <1>12, <1>13, <2>3, <3>8, <4>1 DEF IsTable
    <3> HIDE DEF c1, d1
    <3>11. Claimed(d1) + c1[f.key] = Claimed(c1) + d1[f.key]
      BY <2>1, <3>4, <3>5, <3>6, <3>7, ClaimedChange
    <3> QED BY <2>2, <3>4, <3>6, <3>9, <3>10, <3>11 DEF c1, d1
  <2>4. CASE ~f.reuse
    <3>1. Additive(s[m + 1]) BY <1>6, <1>7, <2>4 DEF Additive
    <3>2. all = K \cup {<<t, m + 1>>} BY <1>5, <3>1, OwnNext
    <3>3. f.key = <<t, m + 1>>
      <4>1. m + 1 \in 1..Len(s) BY <1>5, <1>6
      <4>2. Linked(t, s, m + 1) BY <1>8, <4>1 DEF ThreadClaims, Chained
      <4> QED BY <1>6, <1>7, <2>4, <4>2 DEF Linked
    <3>4. f.key \notin K
      <4>1. m <= Len(s) BY <1>5, <1>6
      <4>2. \A k \in K : \E b \in Opened(s) : b <= m /\ k = <<t, b>> BY <1>5, <4>1, OwnOpened
      <4> HIDE DEF m
      <4> QED BY <1>5, <3>3, <4>2 DEF Opened
    <3>5. /\ DOMAIN d1 = DOMAIN c1 \ {f.key} /\ f.key \in DOMAIN c1
      BY <3>2, <3>3, <3>4 DEF Restrict
    <3>6. \A k \in DOMAIN d1 : d1[k] = c1[k]
      <4>1. \A k \in K : k \in DOMAIN c \ {f.key} /\ k \in all
        <5>1. m \in 0..(m + 1) BY <1>5
        <5> QED BY <1>12, <3>2, <3>4, <5>1
      <4> QED BY <1>4, <4>1 DEF Restrict
    <3>7. c1[f.key] \in Nat BY <2>1, <3>5 DEF IsTable
    <3> HIDE DEF c1, d1
    <3>8. IsTable(d1) /\ Claimed(c1) = c1[f.key] + Claimed(d1)
      BY <2>1, <3>5, <3>6, ClaimedWithout
    <3>9. Claimed(d1) \in Nat BY <3>8, ClaimedNat
    <3> QED BY <2>2, <3>7, <3>8, <3>9 DEF c1, d1
  <2> QED BY <1>7, <2>3, <2>4
<1>16. Spent(t, s, m + 1, c)
  <2>1. Ends(s, m + 1) /\ m + 1 \in 0..Len(s) BY <1>5, <1>6 DEF Ends
  <2> QED BY <1>1, <2>1 DEF SliceInv, Thrifty
<1>17. Spent(t, z, m, d)
  <2>0. OwnKeys(t, z, m) = K BY <1>5, <1>6, OwnSame
  <2> SUFFICES ASSUME NEW a \in 1..m, z[a].kind = "worker",
                      \A b \in (a + 1)..m : z[b].kind # "worker"
               PROVE  Claimed(Restrict(d, K)) <= Cap(z[a].slice)
    BY <2>0 DEF Spent
  <2>1. \A i \in 1..m : z[i].kind = s[i].kind /\ (s[i].kind = "worker" => z[i].slice = s[i].slice)
    BY <1>6 DEF Alike
  <2>2. s[a].kind = "worker" /\ z[a].slice = s[a].slice /\ a \in 1..(m + 1) BY <2>1, <1>5
  <2>3. \A b \in (a + 1)..(m + 1) : s[b].kind # "worker"
    <3>1. \A b \in (a + 1)..(m + 1) : b = m + 1 \/ (b \in 1..m /\ b \in (a + 1)..m) BY <1>5
    <3> QED BY <1>6, <1>7, <2>1, <3>1
  <2>4. Claimed(Restrict(c, all)) <= Cap(s[a].slice) BY <1>16, <2>2, <2>3 DEF Spent
  <2>5. Cap(s[a].slice) \in Int
    <3>1. a \in 1..Len(s) BY <1>6, <2>2
    <3>2. s[a] \in Frames BY <1>5, <3>1, ElementOfSeq
    <3>3. s[a] \in WorkerFrames BY <2>2, <3>2, FrameOfKind
    <3>4. s[a].slice \in Allocs BY <3>3 DEF WorkerFrames
    <3> QED BY <3>4, CapInts
  <2>6. IsTable(Restrict(c, all))
    <3>1. m + 1 \in 0..(m + 1) BY <1>5
    <3>2. all \subseteq DOMAIN c BY <1>12, <3>1
    <3> QED BY <1>12, <3>2, ClaimedPart
  <2>7. Claimed(Restrict(c, all)) \in Nat /\ Claimed(Restrict(d, K)) \in Nat
    BY <1>15, <2>6, ClaimedNat
  <2> QED BY <1>15, <2>2, <2>4, <2>5, <2>7
<1>18. ASSUME NEW n \in 0..m, Ends(z, n) PROVE Spent(t, z, n, d)
  <2>1. CASE n = m BY <1>17, <2>1
  <2>2. CASE n # m
    <3>1. n \in Nat /\ n < m + 1 /\ n <= Len(s) /\ n + 1 \in 1..m BY <1>5, <1>6, <2>2
    <3>2. s[n + 1].kind = "worker"
      <4>1. z[n + 1].kind = s[n + 1].kind BY <1>6, <3>1 DEF Alike
      <4> QED BY <1>18, <2>2, <4>1 DEF Ends
    <3>3. Ends(s, n) BY <3>2 DEF Ends
    <3>4. \A i \in 1..n : Alike(s[i], z[i])
      <4>1. \A i \in 1..n : i \in 1..m BY <1>5, <3>1
      <4> QED BY <1>6, <4>1
    <3>5. \A k \in OwnKeys(t, s, n) : d[k] = ledger[current[t].root][k]
      <4>1. m + 1 \in Nat /\ n \in 0..(m + 1) BY <1>5, <3>1
      <4>2. \A k \in OwnKeys(t, s, n) : k # f.key BY <1>14, <3>1, <3>2, <4>1, SlicesApart
      <4>3. OwnKeys(t, s, n) \subseteq DOMAIN c BY <1>12, <4>1
      <4> QED BY <1>4, <4>2, <4>3
    <3> HIDE DEF z, d, m
    <3> QED BY <1>1, <3>1, <3>3, <3>4, <3>5, SliceBelow
  <2> QED BY <2>1, <2>2
<1>19. Thrifty(t, stack'[t], ledger'[current'[t].root]) BY <1>3, <1>18 DEF Thrifty
<1> QED BY <1>11, <1>19 DEF SliceInv

LEMMA QuietSlices ==
  ASSUME Typed, Typed', Shapes, ClaimInv, SliceInv, NEW t \in Threads, Stays(t), QuietLedger,
         stack'[t] # <<>> => Thrifty(t, stack'[t], ledger'[current'[t].root])
  PROVE  SliceInv'
<1>1. OtherClaims(t) BY QuietOthers
<1>2. \A u \in Threads \ {t} : stack'[u] # <<>> => Thrifty(u, stack'[u], ledger'[current'[u].root])
  BY <1>1, SliceOthers
<1> QED BY <1>2 DEF SliceInv

LEMMA SameLedger ==
  ASSUME Typed, ledger' = ledger
  PROVE  QuietLedger
<1>1. Len(ledger) \in Nat BY DEF Typed
<1> QED BY <1>1 DEF QuietLedger

LEMMA SliceOpens ==
  ASSUME Typed, Shapes, ClaimInv, SliceInv, NEW t \in Threads, EnterNested(t) \/ Dispatch(t)
  PROVE  SliceInv'
<1>1. PICK f \in Frames : Pushes(t, f) /\ f.kind \in {"call", "replicates"}
  <2>1. CASE EnterNested(t)
    <3>1. PICK f \in CallFrames : Pushes(t, f) BY <2>1, EnterNestedMoves
    <3>2. f \in Frames /\ f.kind = "call" BY DEF Frames, CallFrames
    <3> QED BY <3>1, <3>2
  <2>2. CASE Dispatch(t)
    <3>1. PICK f \in JobFrames : Pushes(t, f) BY <2>2, DispatchMoves
    <3>2. f \in Frames /\ f.kind = "replicates" BY DEF Frames, JobFrames
    <3> QED BY <3>1, <3>2
  <2> QED BY <2>1, <2>2
<1>2. Typed' /\ ledger' = ledger /\ current'[t].root = current[t].root
  BY EnterNestedMoves, DispatchMoves DEF Narrowed
<1>3. QuietLedger /\ Stays(t) BY <1>1, <1>2, SameLedger DEF Pushes
<1>4. Thrifty(t, stack'[t], ledger'[current'[t].root]) BY <1>1, <1>2, SlicePush
<1> QED BY <1>2, <1>3, <1>4, QuietSlices

LEMMA SliceStarts ==
  ASSUME Typed, Shapes, ClaimInv, SliceInv, NEW w \in Threads, NEW d \in Threads, StartTask(w, d)
  PROVE  SliceInv'
<1>1. PICK f \in JobFrames, g \in WorkerFrames :
              /\ f = stack[d][Len(stack[d])] /\ Pushes(w, g)
              /\ current'[w] = f.child
  BY StartTaskMoves
<1>2. /\ Typed' /\ ledger' = ledger /\ stack[d] # <<>>
      /\ w = d \/ stack[w] = <<>>
  BY StartTaskMoves
<1>3. f.kind = "replicates" /\ g.kind = "worker" /\ g \in Frames
  BY DEF JobFrames, WorkerFrames, Frames
<1>4. stack[w] # <<>> => current'[w].root = current[w].root
  <2> SUFFICES ASSUME stack[w] # <<>> PROVE current'[w].root = current[w].root OBVIOUS
  <2>1. w = d BY <1>2
  <2>2. Shape(d, stack[d], current[d], lock, Len(envelope)) BY DEF Shapes
  <2>3. Len(stack[d]) \in 1..Len(stack[d])
    <3>1. stack[d] \in Seq(Frames) BY DEF Typed
    <3> QED BY <1>2, <3>1
  <2>4. f.child.root = current[d].root BY <1>1, <1>3, <2>2, <2>3 DEF Shape
  <2> QED BY <1>1, <2>1, <2>4
<1>5. QuietLedger /\ Stays(w) BY <1>1, <1>2, SameLedger DEF Pushes
<1>6. Thrifty(w, stack'[w], ledger'[current'[w].root]) BY <1>1, <1>2, <1>3, <1>4, SlicePush
<1> QED BY <1>2, <1>5, <1>6, QuietSlices

LEMMA SliceLeaves ==
  ASSUME Typed, Shapes, ClaimInv, SliceInv, NEW t \in Threads, ExitCall(t) \/ EndTask(t) \/ EndJob(t)
  PROVE  SliceInv'
<1> DEFINE f == stack[t][Len(stack[t])]
<1>1. Typed' /\ Pops(t) /\ ledger' = ledger BY ExitCallMoves, EndTaskMoves, EndJobMoves
<1>2. f \in Frames /\ f.kind \in {"call", "worker", "replicates"} /\ current'[t] = f.prev
      /\ stack[t] # <<>>
  <2>1. CASE ExitCall(t)
    <3>1. stack[t] # <<>> BY <2>1 DEF ExitCall, TopIs
    <3> QED BY <2>1, <3>1, ExitCallMoves DEF CallFrames, Frames
  <2>2. CASE EndTask(t)
    <3>1. stack[t] # <<>> BY <2>2 DEF EndTask, TopIs
    <3> QED BY <2>2, <3>1, EndTaskMoves DEF WorkerFrames, Frames
  <2>3. CASE EndJob(t)
    <3>1. stack[t] # <<>> BY <2>3 DEF EndJob, TopIs
    <3> QED BY <2>3, <3>1, EndJobMoves DEF JobFrames, Frames
  <2> QED BY <2>1, <2>2, <2>3
<1>0. f = stack[t][Len(stack[t])] OBVIOUS
<1> HIDE DEF f
<1>3. QuietLedger /\ Stays(t) BY <1>1, SameLedger DEF Pops
<1>4. stack'[t] # <<>> => current'[t].root = current[t].root
  <2> SUFFICES ASSUME stack'[t] # <<>> PROVE f.prev.root = current[t].root BY <1>2
  <2>1. Len(stack[t]) # 1
    <3>1. stack'[t] \in Seq(Frames) BY <1>1 DEF Typed
    <3>2. Len(stack'[t]) # 0 BY <3>1
    <3>3. stack[t] \in Seq(Frames) /\ Len(stack'[t]) = Len(stack[t]) - 1 BY <1>1 DEF Typed, Pops, Popped
    <3> QED BY <3>2, <3>3
  <2> QED BY <1>0, <1>2, <2>1, RootFrame
<1>5. stack'[t] # <<>> => Thrifty(t, stack'[t], ledger'[current'[t].root])
  BY <1>0, <1>1, <1>2, <1>4, SlicePop
<1> QED BY <1>1, <1>3, <1>5, QuietSlices

LEMMA SliceEntersRoot ==
  ASSUME Typed, Shapes, ClaimInv, SliceInv, NEW t \in Threads, EnterRoot(t)
  PROVE  SliceInv'
<1>1. PICK f \in CallFrames : Pushes(t, f) BY EnterRootMoves
<1>2. f.kind = "call" BY DEF CallFrames
<1>3. /\ Typed' /\ stack[t] = <<>> /\ Len(ledger') = Len(ledger) + 1
      /\ ledger'[Len(envelope) + 1] = <<>>
      /\ \A r \in 1..Len(envelope) : ledger'[r] = ledger[r]
  BY EnterRootMoves
<1>4. Len(ledger) = Len(envelope) /\ Len(ledger) \in Nat BY DEF Typed
<1>5. QuietLedger
  <2>1. \A r \in (Len(ledger) + 1)..Len(ledger') : r = Len(envelope) + 1 BY <1>3, <1>4
  <2>2. DOMAIN <<>> = {} OBVIOUS
  <2>3. \A r \in (Len(ledger) + 1)..Len(ledger') : DOMAIN ledger'[r] = {} BY <1>3, <2>1, <2>2
  <2> QED BY <1>3, <1>4, <2>3 DEF QuietLedger
<1>6. Len(stack[t]) = 0 BY <1>3
<1>7. Len(stack'[t]) = 1 /\ stack'[t][1] = f BY <1>1, <1>6 DEF Pushes, Pushed
<1>8. \A n \in 0..1 : \A a \in 1..n : a = 1 OBVIOUS
<1>9. Thrifty(t, stack'[t], ledger'[current'[t].root]) BY <1>2, <1>7, <1>8 DEF Thrifty, Spent
<1>10. Stays(t) BY <1>1 DEF Pushes
<1> QED BY <1>3, <1>5, <1>9, <1>10, QuietSlices

LEMMA SliceInit == Init => SliceInv
BY DEF Init, SliceInv

LEMMA SliceNext ==
  ASSUME Typed, Shapes, ClaimInv, CapInv, SliceInv, [Next]_vars
  PROVE  SliceInv'
<1>1. CASE UNCHANGED vars BY <1>1 DEF SliceInv, vars
<1>2. CASE Next
  <2>1. PICK t \in Threads : Step(t) BY <1>2 DEF Next
  <2>2. CASE EnterRoot(t) BY <2>2, SliceEntersRoot
  <2>3. CASE EnterNested(t) \/ Dispatch(t) BY <2>3, SliceOpens
  <2>4. CASE ExitCall(t) \/ EndTask(t) \/ EndJob(t) BY <2>4, SliceLeaves
  <2>5. CASE Reserve(t) \/ ReserveEstimate(t) BY <2>5, SliceReserves
  <2>6. CASE ExitReserve(t) BY <2>6, SliceReleases
  <2>7. CASE \E d \in Threads : StartTask(t, d) BY <2>7, SliceStarts
  <2> QED BY <2>1, <2>2, <2>3, <2>4, <2>5, <2>6, <2>7 DEF Step
<1> QED BY <1>1, <1>2

LEMMA SliceInvariant == Spec => []SliceInv
<1>1. Init => SliceInv BY SliceInit
<1>2. Typed /\ Shapes /\ ClaimInv /\ CapInv /\ SliceInv /\ [Next]_vars => SliceInv' BY SliceNext
<1> QED BY <1>1, <1>2, ShapesInvariant, ClaimInvariant, CapInvariant, PTL DEF Spec

LEMMA WithinSlice ==
  ASSUME Typed, Shapes, ClaimInv, SliceInv
  PROVE  OwnWithinSlice
<1> SUFFICES ASSUME NEW t \in Threads, SliceStart(t) > 0
             PROVE  Own(t, ledger[current[t].root]) <= Cap(stack[t][SliceStart(t)].slice)
  BY DEF OwnWithinSlice
<1> DEFINE s == stack[t]
           m == Len(s)
           x == SliceStart(t)
<1>1. s \in Seq(Frames) /\ m \in Nat BY DEF Typed
<1>2. x \in 0..m /\ s[x].kind = "worker" /\ \A b \in (x + 1)..m : s[b].kind # "worker" BY SliceTop
<1>3. x \in 1..m /\ s # <<>>
  <2> HIDE DEF x
  <2>1. x > 0 BY DEF x
  <2>2. x \in 1..m BY <1>1, <1>2, <2>1
  <2> QED BY <2>2
<1>4. Own(t, ledger[current[t].root]) = Claimed(Restrict(ledger[current[t].root], OwnKeys(t, s, m)))
  BY <1>3, OwnTop
<1>5. Spent(t, s, m, ledger[current[t].root])
  <2>1. Ends(s, m) /\ m \in 0..Len(s) BY <1>1 DEF Ends
  <2> QED BY <1>3, <2>1 DEF SliceInv, Thrifty
<1> HIDE DEF x
<1>6. Claimed(Restrict(ledger[current[t].root], OwnKeys(t, s, m))) <= Cap(s[x].slice)
  BY <1>2, <1>3, <1>5 DEF Spent
<1> QED BY <1>4, <1>6 DEF x
-----------------------------------------------------------------------------
(* What the replicates of one job may claim together. *)

\* Claims that are divided in two add up to all of them.
LEMMA ClaimedSplit ==
  ASSUME NEW f, IsTable(f), NEW S \in SUBSET DOMAIN f
  PROVE  Claimed(f) = Claimed(Restrict(f, S)) + Claimed(Restrict(f, DOMAIN f \ S))
<1> DEFINE Sum(T) == Claimed(Restrict(f, T)) + Claimed(Restrict(f, DOMAIN f \ T))
           Part(n) == \A T \in SUBSET DOMAIN f : Cardinality(T) = n => Claimed(f) = Sum(T)
           Missing == {n \in Nat : ~Part(n)}
<1>1. \A T \in SUBSET DOMAIN f : IsFiniteSet(T) /\ Cardinality(T) \in Nat
  BY FS_Subset, FS_CardinalityType DEF IsTable
<1>2. \A T \in SUBSET DOMAIN f : \A x \in T : Cardinality(T \ {x}) = Cardinality(T) - 1
  BY <1>1, FS_RemoveElement
<1>3. \A T \in SUBSET DOMAIN f : IsTable(Restrict(f, T))
  BY FS_Subset DEF IsTable, Restrict
<1>4. Missing = {}
  <2> SUFFICES ASSUME Missing # {} PROVE FALSE OBVIOUS
  <2>1. PICK m \in Missing : \A n \in Missing : m <= n BY LeastOf
  <2>2. PICK T \in SUBSET DOMAIN f : Cardinality(T) = m /\ Claimed(f) # Sum(T) BY <2>1
  <2>3. CASE T = {}
    <3>1. /\ DOMAIN Restrict(f, DOMAIN f \ T) = DOMAIN f
          /\ \A y \in DOMAIN f : Restrict(f, DOMAIN f \ T)[y] = f[y]
      BY <2>3 DEF Restrict
    <3>2. Claimed(Restrict(f, DOMAIN f \ T)) = Claimed(f) BY <3>1, ClaimedSame
    <3>3. DOMAIN Restrict(f, T) = {} BY <2>3 DEF Restrict
    <3>4. Claimed(Restrict(f, T)) = 0 BY <3>3, ClaimedNone
    <3> QED BY <2>2, <3>2, <3>4, ClaimedNat
  <2>4. CASE T # {}
    <3>1. PICK x \in T : TRUE BY <2>4
    <3> DEFINE more == Restrict(f, DOMAIN f \ (T \ {x}))
               less == Restrict(f, DOMAIN f \ T)
               out == Restrict(f, T)
               rest == Restrict(f, T \ {x})
    <3>2. /\ DOMAIN less = DOMAIN more \ {x} /\ x \in DOMAIN more /\ more[x] = f[x]
          /\ \A y \in DOMAIN less : less[y] = more[y]
      BY DEF Restrict
    <3>3. /\ DOMAIN rest = DOMAIN out \ {x} /\ x \in DOMAIN out /\ out[x] = f[x]
          /\ \A y \in DOMAIN rest : rest[y] = out[y]
      BY <3>1 DEF Restrict
    <3>4. IsTable(more) /\ IsTable(less) /\ IsTable(out) /\ IsTable(rest) BY <1>3
    <3>5. Cardinality(T \ {x}) = m - 1 BY <1>2, <2>2
    <3>6. m - 1 \in Nat BY <1>1, <3>5
    <3>7. m - 1 \notin Missing BY <2>1, <3>6
    <3>8. Claimed(f) = Claimed(rest) + Claimed(more) BY <3>5, <3>6, <3>7
    <3>9. Claimed(f) # Claimed(out) + Claimed(less) BY <2>2
    <3> HIDE DEF more, less, out, rest
    <3>10. Claimed(more) = f[x] + Claimed(less)
      <4>1. Claimed(more) = more[x] + Claimed(less) BY ONLY <3>2, <3>4, ClaimedWithout
      <4> QED BY ONLY <4>1, <3>2
    <3>11. Claimed(out) = f[x] + Claimed(rest)
      <4>1. Claimed(out) = out[x] + Claimed(rest) BY ONLY <3>3, <3>4, ClaimedWithout
      <4> QED BY ONLY <4>1, <3>3
    <3>12. Claimed(less) \in Nat /\ Claimed(rest) \in Nat /\ f[x] \in Nat
      BY <3>2, <3>4, ClaimedNat DEF IsTable
    <3> QED BY <3>8, <3>9, <3>10, <3>11, <3>12
  <2> QED BY <2>3, <2>4
<1>5. Cardinality(S) \in Nat BY <1>1
<1> QED BY <1>4, <1>5

\* The claims made by the threads of Q.
Of(c, Q) == Restrict(c, {k \in DOMAIN c : k[1] \in Q})

LEMMA OfTable ==
  ASSUME NEW c, IsTable(c), NEW Q
  PROVE  IsTable(Of(c, Q)) /\ Claimed(Of(c, Q)) \in Nat
<1>1. IsTable(Of(c, Q)) BY ClaimedPart DEF Of
<1> QED BY <1>1, ClaimedNat

LEMMA OfOne ==
  ASSUME NEW c, IsTable(c), NEW Q, NEW u \in Q
  PROVE  Claimed(Of(c, Q)) = Claimed(Of(c, {u})) + Claimed(Of(c, Q \ {u}))
<1> DEFINE f == Of(c, Q)
           S == {k \in DOMAIN c : k[1] = u}
<1>1. IsTable(f) BY OfTable
<1>2. S \in SUBSET DOMAIN f BY DEF Of, Restrict
<1>3. Claimed(f) = Claimed(Restrict(f, S)) + Claimed(Restrict(f, DOMAIN f \ S))
  <2> HIDE DEF f, S
  <2> QED BY <1>1, <1>2, ClaimedSplit
<1>4. /\ DOMAIN Restrict(f, S) = DOMAIN Of(c, {u})
      /\ \A k \in DOMAIN Restrict(f, S) : Restrict(f, S)[k] = Of(c, {u})[k]
  BY DEF Of, Restrict
<1>5. /\ DOMAIN Restrict(f, DOMAIN f \ S) = DOMAIN Of(c, Q \ {u})
      /\ \A k \in DOMAIN Restrict(f, DOMAIN f \ S) :
            Restrict(f, DOMAIN f \ S)[k] = Of(c, Q \ {u})[k]
  BY DEF Of, Restrict
<1>6. IsTable(Of(c, {u})) /\ IsTable(Of(c, Q \ {u})) BY OfTable
<1> HIDE DEF f, S
<1>7. Claimed(Restrict(f, S)) = Claimed(Of(c, {u})) BY <1>4, <1>6, ClaimedSame
<1>8. Claimed(Restrict(f, DOMAIN f \ S)) = Claimed(Of(c, Q \ {u})) BY <1>5, <1>6, ClaimedSame
<1> QED BY <1>3, <1>7, <1>8 DEF f

\* Threads that each claim at most m claim together at most m times their number.
LEMMA OfShares ==
  ASSUME NEW c, IsTable(c), NEW m \in Nat, NEW P, IsFiniteSet(P),
         \A u \in P : Claimed(Of(c, {u})) <= m
  PROVE  Cardinality(P) \in Nat /\ Claimed(Of(c, P)) <= Cardinality(P) * m
<1> DEFINE Part(n) == \A Q \in SUBSET P : Cardinality(Q) = n => Claimed(Of(c, Q)) <= n * m
           Missing == {n \in Nat : ~Part(n)}
<1>1. \A Q \in SUBSET P : IsFiniteSet(Q) /\ Cardinality(Q) \in Nat
  BY FS_Subset, FS_CardinalityType
<1>2. \A Q \in SUBSET P : \A x \in Q : Cardinality(Q \ {x}) = Cardinality(Q) - 1
  BY <1>1, FS_RemoveElement
<1>3. Missing = {}
  <2> SUFFICES ASSUME Missing # {} PROVE FALSE OBVIOUS
  <2>1. PICK n \in Missing : \A j \in Missing : n <= j BY LeastOf
  <2>2. PICK Q \in SUBSET P : Cardinality(Q) = n /\ ~(Claimed(Of(c, Q)) <= n * m) BY <2>1
  <2>3. CASE Q = {}
    <3>1. DOMAIN Of(c, Q) = {} BY <2>3 DEF Of, Restrict
    <3>2. Claimed(Of(c, Q)) = 0 BY <3>1, ClaimedNone
    <3>3. n = 0 BY <2>2, <2>3, FS_EmptySet
    <3> QED BY <2>2, <3>2, <3>3
  <2>4. CASE Q # {}
    <3>1. PICK x \in Q : TRUE BY <2>4
    <3>2. Cardinality(Q \ {x}) = n - 1 BY <1>2, <2>2
    <3>3. n - 1 \in Nat BY <1>1, <3>2
    <3>4. n - 1 \notin Missing BY <2>1, <3>3
    <3>5. Claimed(Of(c, Q \ {x})) <= (n - 1) * m BY <3>2, <3>3, <3>4
    <3>6. Claimed(Of(c, Q)) = Claimed(Of(c, {x})) + Claimed(Of(c, Q \ {x})) BY OfOne
    <3>7. Claimed(Of(c, {x})) <= m OBVIOUS
    <3>8. Claimed(Of(c, {x})) \in Nat /\ Claimed(Of(c, Q \ {x})) \in Nat BY OfTable
    <3>9. (n - 1) * m + m = n * m BY <2>1
    <3>10. (n - 1) * m \in Nat /\ n * m \in Nat BY <2>1, <3>3
    <3> QED BY <2>2, <3>5, <3>6, <3>7, <3>8, <3>9, <3>10
  <2> QED BY <2>3, <2>4
<1>4. Cardinality(P) \in Nat BY <1>1
<1> QED BY <1>3, <1>4

-----------------------------------------------------------------------------
(* Who runs the replicates of a job.  A job of several workers knows each of its      *)
(* running replicates, and the thread of each has the job's slice as its first scope. *)

IsJob(f) == f.kind = "replicates"
Hosts(s, f) == /\ s # <<>> /\ s[1].kind = "worker"
               /\ s[1].job = f.job /\ s[1].slice = f.child
Manned(stacks, f) == /\ IsFiniteSet(f.running) /\ Cardinality(f.running) <= f.workers
                     /\ f.workers > 1 => \A w \in f.running : Hosts(stacks[w], f)
\* Only d waits for the job, and its replicates report to d.
ServedBy(stacks, job, d) ==
  \A u \in Threads : \A b \in 1..Len(stacks[u]) :
    /\ IsJob(stacks[u][b]) /\ stacks[u][b].job = job => u = d
    /\ stacks[u][b].kind = "worker" /\ stacks[u][b].job = job => stacks[u][b].dispatcher = d
RunningInv ==
  \A d \in Threads : \A a \in 1..Len(stack[d]) :
    IsJob(stack[d][a]) => /\ Manned(stack, stack[d][a])
                          /\ ServedBy(stack, stack[d][a].job, d)

\* No job of s has more replicates under way in z.
Fewer(s, z) == \A i \in 1..Len(s) : i <= Len(z) /\ IsJob(s[i]) => z[i].running \subseteq s[i].running
AllFewer == \A u \in Threads : Fewer(stack[u], stack'[u])

\* The jobs of s are the same in z, or have the same replicates under way but for the one of
\* job j that w ran.
Unmoved(s, z) == \A i \in 1..Len(s) : i <= Len(z) /\ IsJob(s[i]) => z[i] = s[i]
AllUnmoved == \A u \in Threads : Unmoved(stack[u], stack'[u])
Loses(s, z, w, j) == \A i \in 1..Len(s) : i <= Len(z) /\ IsJob(s[i]) =>
                       \A v \in s[i].running : v \in z[i].running \/ (v = w /\ s[i].job = j)
AllLose(w, j) == \A u \in Threads : Loses(stack[u], stack'[u], w, j)

LEMMA UnmovedFewer ==
  /\ \A s, z : Unmoved(s, z) => Fewer(s, z) /\ \A w, j : Loses(s, z, w, j)
  /\ AllUnmoved => AllFewer /\ \A w, j : AllLose(w, j)
BY DEF Unmoved, Fewer, Loses, AllUnmoved, AllFewer, AllLose

LEMMA UnmovedSame ==
  ASSUME NEW S, NEW s \in Seq(S), NEW f
  PROVE  /\ Unmoved(s, s) /\ Unmoved(s, Append(s, f))
         /\ s # <<>> => Unmoved(s, SubSeq(s, 1, Len(s) - 1))
<1>1. Unmoved(s, s) BY DEF Unmoved
<1>2. Unmoved(s, Append(s, f))
  <2> DEFINE T == S \cup {f}
  <2>1. s \in Seq(T) /\ f \in T OBVIOUS
  <2> HIDE DEF T
  <2>2. \A i \in 1..Len(s) : Append(s, f)[i] = s[i] BY <2>1
  <2> QED BY <2>2 DEF Unmoved
<1>3. ASSUME s # <<>> PROVE Unmoved(s, SubSeq(s, 1, Len(s) - 1))
  <2> DEFINE n == Len(s) - 1
             z == SubSeq(s, 1, n)
  <2>1. Len(s) \in Nat /\ Len(s) # 0 BY <1>3
  <2>2. n \in Nat /\ n <= Len(s) BY <2>1
  <2> HIDE DEF n
  <2>3. Len(z) = n /\ \A i \in 1..n : z[i] = s[i] BY <2>2, SubSeqProperties
  <2>4. \A i \in 1..Len(s) : i <= n => i \in 1..n BY <2>2
  <2> HIDE DEF z
  <2>5. Unmoved(s, z) BY <2>3, <2>4 DEF Unmoved
  <2> QED BY <2>5 DEF z, n
<1> QED BY <1>1, <1>2, <1>3

\* Opening or leaving a scope on top of the stack starts no replicate and ends none.
LEMMA PushUnmoved ==
  ASSUME Typed, NEW t \in Threads, NEW f,
         stack' = [stack EXCEPT ![t] = Append(@, f)]
  PROVE  AllUnmoved
<1>1. stack \in [Threads -> Seq(Frames)] BY DEF Typed
<1>2. stack'[t] = Append(stack[t], f) /\ \A u \in Threads \ {t} : stack'[u] = stack[u] BY <1>1
<1>3. Unmoved(stack[t], stack'[t]) BY <1>1, <1>2, UnmovedSame
<1>4. \A u \in Threads \ {t} : Unmoved(stack[u], stack'[u]) BY <1>1, <1>2, UnmovedSame
<1> QED BY <1>3, <1>4 DEF AllUnmoved

LEMMA PopUnmoved ==
  ASSUME Typed, NEW t \in Threads, stack[t] # <<>>, stack' = [stack EXCEPT ![t] = Below(t)]
  PROVE  AllUnmoved
<1>1. stack \in [Threads -> Seq(Frames)] BY DEF Typed
<1>2. stack'[t] = SubSeq(stack[t], 1, Len(stack[t]) - 1) /\ \A u \in Threads \ {t} : stack'[u] = stack[u]
  BY <1>1 DEF Below
<1>3. Unmoved(stack[t], stack'[t]) BY <1>1, <1>2, UnmovedSame
<1>4. \A u \in Threads \ {t} : Unmoved(stack[u], stack'[u]) BY <1>1, <1>2, UnmovedSame
<1> QED BY <1>3, <1>4 DEF AllUnmoved

\* Only StartTask and EndTask change the replicates under way.
LEMMA RunUnmoved ==
  ASSUME Typed, NEW t \in Threads,
         \/ EnterRoot(t) \/ EnterNested(t) \/ Reserve(t) \/ Dispatch(t)
         \/ ExitCall(t) \/ ExitReserve(t) \/ EndJob(t)
  PROVE  AllUnmoved
<1>1. CASE ExitCall(t) \/ ExitReserve(t) \/ EndJob(t)
  <2>1. stack[t] # <<>> /\ stack' = [stack EXCEPT ![t] = Below(t)]
    BY <1>1 DEF ExitCall, ExitReserve, EndJob, TopIs
  <2> QED BY <2>1, PopUnmoved
<1>2. CASE EnterRoot(t) \/ EnterNested(t) \/ Dispatch(t) \/ Reserve(t)
  <2>1. \E f : stack' = [stack EXCEPT ![t] = Append(@, f)]
    <3>1. CASE EnterRoot(t) BY <3>1 DEF EnterRoot, Push
    <3>2. CASE EnterNested(t) BY <3>2 DEF EnterNested, Push
    <3>3. CASE Dispatch(t) BY <3>3 DEF Dispatch, Push
    <3>4. CASE Reserve(t)
      <4>1. PICK amount : ReserveAdditive(t, amount, stack[t]) \/ ReserveReuse(t, amount)
        BY <3>4 DEF Reserve
      <4>2. CASE ReserveReuse(t, amount) BY <4>2 DEF ReserveReuse, Push
      <4>3. CASE ReserveAdditive(t, amount, stack[t])
        <5>1. \E f : stack' = [stack EXCEPT ![t] = Append(stack[t], f)]
          BY <4>3 DEF ReserveAdditive
        <5>2. PICK f : stack' = [stack EXCEPT ![t] = Append(stack[t], f)] BY <5>1
        <5>3. stack' = [stack EXCEPT ![t] = Append(@, f)] BY <5>2 DEF Typed
        <5> QED BY <5>3
      <4> QED BY <4>1, <4>2, <4>3
    <3> QED BY <1>2, <3>1, <3>2, <3>3, <3>4
  <2>2. PICK f : stack' = [stack EXCEPT ![t] = Append(@, f)] BY <2>1
  <2> QED BY <2>2, PushUnmoved
<1> QED BY <1>1, <1>2

LEMMA EstimateUnmoved ==
  ASSUME Typed, NEW w \in Threads, ReserveEstimate(w)
  PROVE  AllUnmoved
<1> DEFINE s == stack[w]
           n == Len(s)
           frames == Append(Below(w), [Top(w) EXCEPT !.phase = "end"])
<1>1. s # <<>> /\ s[n].kind = "worker" BY DEF ReserveEstimate, TopIs, Top
<1>2. stack \in [Threads -> Seq(Frames)] /\ s \in Seq(Frames) BY DEF Typed
<1>3. n \in Nat /\ n # 0 BY <1>1, <1>2
<1>4. Len(Below(w)) = n - 1 /\ \A i \in 1..(n - 1) : Below(w)[i] = s[i]
  <2> DEFINE m == n - 1
  <2>1. m \in Nat /\ m <= n BY <1>3
  <2> HIDE DEF m
  <2>2. Len(SubSeq(s, 1, m)) = m /\ \A i \in 1..m : SubSeq(s, 1, m)[i] = s[i]
    BY <1>2, <2>1, SubSeqProperties
  <2> QED BY <2>2 DEF m, Below
<1>5. PICK f : stack' = [stack EXCEPT ![w] = Append(frames, f)]
  BY DEF ReserveEstimate, ReserveAdditive
<1>6. Below(w) \in Seq(Frames) BY <1>1, <1>2, TopFrame
<1>7. \A i \in 1..(n - 1) : Append(frames, f)[i] = s[i]
  <2> DEFINE g == [Top(w) EXCEPT !.phase = "end"]
             b == Below(w)
             m == n - 1
  <2>1. b \in Seq(Frames) /\ Len(b) = m /\ m \in Nat /\ \A i \in 1..m : b[i] = s[i]
    BY <1>3, <1>4, <1>6
  <2> HIDE DEF g, b, m
  <2>2. \A i \in 1..m : Append(Append(b, g), f)[i] = s[i] BY <2>1
  <2> QED BY <2>2 DEF b, g, m
<1> HIDE DEF frames
<1>8. stack'[w] = Append(frames, f) /\ \A u \in Threads \ {w} : stack'[u] = stack[u] BY <1>2, <1>5
<1>9. Unmoved(s, stack'[w])
  <2>1. \A i \in 1..n : IsJob(s[i]) => i \in 1..(n - 1)
    <3>1. \A i \in 1..n : i # n => i \in 1..(n - 1) BY <1>3
    <3> QED BY <1>1, <3>1 DEF IsJob
  <2> QED BY <1>7, <1>8, <2>1 DEF Unmoved
<1>10. \A u \in Threads \ {w} : Unmoved(stack[u], stack'[u]) BY <1>2, <1>8, UnmovedSame
<1> QED BY <1>9, <1>10 DEF AllUnmoved

\* The end of a replicate takes it off the job it belongs to.
LEMMA EndTaskFewer ==
  ASSUME Typed, NEW w \in Threads, EndTask(w), NEW f, f = stack[w][Len(stack[w])]
  PROVE  /\ AllFewer /\ AllLose(w, f.job)
         /\ \A a \in 1..Len(stack'[f.dispatcher]) :
              IsJob(stack'[f.dispatcher][a]) /\ stack'[f.dispatcher][a].job = f.job =>
                w \notin stack'[f.dispatcher][a].running
<1> DEFINE d == f.dispatcher
           popped == [stack EXCEPT ![w] = Below(w)]
           s == popped[d]
<1>1. stack[w] # <<>> /\ f.kind = "worker" BY DEF EndTask, TopIs, Top
<1>2. PICK failure : stack' = [popped EXCEPT ![d] = Settled(@, f.job, w, failure)]
  <2>1. f = Top(w) BY DEF Top
  <2>2. PICK failure \in (IF f.phase = "admission" THEN {TRUE} ELSE BOOLEAN) :
          stack' = [popped EXCEPT ![d] = Settled(@, f.job, w, failure)]
    BY <2>1 DEF EndTask
  <2> QED BY <2>2
<1>3. stack \in [Threads -> Seq(Frames)] BY DEF Typed
<1>4. f \in Frames BY <1>1, <1>3, TopFrame DEF Top
<1>5. f \in WorkerFrames BY <1>1, <1>4, FrameOfKind
<1>6. d \in Threads BY <1>5 DEF WorkerFrames
<1>7. Below(w) \in Seq(Frames) /\ Unmoved(stack[w], Below(w))
  <2>1. Unmoved(stack[w], Below(w)) BY <1>1, <1>3, UnmovedSame DEF Below
  <2> QED BY <2>1, <1>1, <1>3, TopFrame
<1>8. popped \in [Threads -> Seq(Frames)] /\ popped[w] = Below(w)
      /\ \A u \in Threads \ {w} : popped[u] = stack[u]
  BY <1>3, <1>7
<1>9. \A u \in Threads : Unmoved(stack[u], popped[u]) BY <1>3, <1>7, <1>8, UnmovedSame
<1> HIDE DEF popped, d
<1> DEFINE z == Settled(s, f.job, w, failure)
<1>10. stack' = [popped EXCEPT ![d] = z] BY <1>2
<1>11. stack'[d] = z /\ \A u \in Threads \ {d} : stack'[u] = popped[u]
  <2> HIDE DEF z
  <2> QED BY <1>6, <1>8, <1>10
<1>12. s \in Seq(Frames) BY <1>6, <1>8
<1> HIDE DEF s
<1>13. \A a \in DOMAIN s :
         /\ IsJob(s[a]) => z[a].running \subseteq s[a].running
         /\ IsJob(s[a]) => \A v \in s[a].running : v \in z[a].running \/ (v = w /\ s[a].job = f.job)
         /\ IsJob(z[a]) /\ z[a].job = f.job => w \notin z[a].running
  <2> TAKE a \in DOMAIN s
  <2>1. s[a] \in Frames BY <1>12
  <2>2. CASE s[a].kind = "replicates" /\ s[a].job = f.job
    <3>1. s[a] \in JobFrames BY <2>1, <2>2, FrameOfKind
    <3>2. z[a] = [s[a] EXCEPT !.running = @ \ {w}, !.failed = @ \/ failure]
      BY <2>2 DEF Settled
    <3>3. z[a].running = s[a].running \ {w} BY <3>1, <3>2 DEF JobFrames
    <3> QED BY <2>2, <3>3
  <2>3. CASE ~(s[a].kind = "replicates" /\ s[a].job = f.job)
    <3>1. z[a] = s[a] BY <2>3 DEF Settled
    <3> QED BY <2>3, <3>1 DEF IsJob
  <2> QED BY <2>2, <2>3
<1>14. DOMAIN z = DOMAIN s /\ z = [a \in DOMAIN s |-> z[a]] BY DEF Settled
<1> HIDE DEF z
<1>15. DOMAIN s = 1..Len(s) /\ Len(s) \in Nat BY <1>12
<1>16. Len(z) = Len(s)
  <2>1. z = [a \in 1..Len(s) |-> z[a]] BY <1>14, <1>15
  <2> QED BY <2>1, <1>15
<1>17. Fewer(s, z) /\ Loses(s, z, w, f.job) BY <1>13, <1>15 DEF Fewer, Loses
<1>18. Fewer(stack[d], stack'[d]) /\ Loses(stack[d], stack'[d], w, f.job)
  <2>1. Unmoved(stack[d], s) BY <1>6, <1>9 DEF s
  <2>2. \A i \in 1..Len(stack[d]) : i <= Len(s) => i \in 1..Len(s)
    <3>1. Len(stack[d]) \in Nat BY <1>3, <1>6
    <3> QED BY <3>1, <1>15
  <2> QED BY <1>11, <1>16, <1>17, <2>1, <2>2 DEF Fewer, Loses, Unmoved
<1>19. AllFewer /\ AllLose(w, f.job)
  <2>1. \A u \in Threads \ {d} : Fewer(stack[u], stack'[u]) /\ Loses(stack[u], stack'[u], w, f.job)
    BY <1>9, <1>11, UnmovedFewer
  <2> QED BY <1>18, <2>1 DEF AllFewer, AllLose
<1>20. \A a \in 1..Len(stack'[d]) :
          IsJob(stack'[d][a]) /\ stack'[d][a].job = f.job => w \notin stack'[d][a].running
  BY <1>11, <1>13, <1>15, <1>16
<1> QED BY <1>19, <1>20 DEF d

\* What StartTask changes of the jobs.
Taken(w, d, f, g) ==
  /\ f \in JobFrames /\ g \in WorkerFrames
  /\ Pushes(w, g) /\ g.job = f.job /\ g.slice = f.child /\ g.dispatcher = d
  /\ Cardinality(f.running) < f.workers
  /\ f.workers > 1 => stack[w] = <<>>
  /\ w # d => stack[w] = <<>>
  /\ \A u \in Threads \ {d} : Unmoved(stack[u], stack'[u])
  /\ \A i \in 1..(Len(stack[d]) - 1) : IsJob(stack[d][i]) => stack'[d][i].running = stack[d][i].running
  /\ stack'[d][Len(stack[d])].running = f.running \cup {w}

\* Two frames on top of a stack.
LEMMA AppendTwice ==
  ASSUME NEW S, NEW s \in Seq(S), NEW f, NEW g, NEW n, n = Len(s) + 1
  PROVE  /\ Len(Append(s, f)) = n /\ Append(s, f)[n] = f
         /\ Append(Append(s, f), g)[n] = f /\ Append(Append(s, f), g)[n + 1] = g
         /\ \A i \in 1..(n - 1) : Append(s, f)[i] = s[i] /\ Append(Append(s, f), g)[i] = s[i]
<1> DEFINE T == S \cup {f, g}
<1>1. s \in Seq(T) /\ f \in T /\ g \in T OBVIOUS
<1> HIDE DEF T
<1>2. /\ Append(s, f) \in Seq(T) /\ Len(Append(s, f)) = n /\ Append(s, f)[n] = f
      /\ n \in Nat /\ \A i \in 1..(n - 1) : Append(s, f)[i] = s[i]
  BY <1>1
<1> DEFINE z == Append(s, f)
<1>3. z \in Seq(T) /\ Len(z) = n BY <1>2
<1> HIDE DEF z
<1>4. Append(z, g)[n + 1] = g /\ \A i \in 1..n : Append(z, g)[i] = z[i] BY <1>1, <1>3
<1>5. n \in 1..n /\ \A i \in 1..(n - 1) : i \in 1..n
  <2>1. Len(s) \in Nat OBVIOUS
  <2> QED BY <2>1
<1> QED BY <1>2, <1>4, <1>5 DEF z

LEMMA StartTaskTakes ==
  ASSUME Typed, NEW w \in Threads, NEW d \in Threads, StartTask(w, d),
         NEW f, f = stack[d][Len(stack[d])], NEW g, g = stack'[w][Len(stack[w]) + 1]
  PROVE  Taken(w, d, f, g) /\ stack[d] # <<>>
<1> DEFINE n == Len(stack[d])
           x == IF f.estimate = 0 THEN "body" ELSE "admission"
           h == [f EXCEPT !.pending = @ - 1, !.running = @ \cup {w}]
           worker == [kind |-> "worker", prev |-> current[w], prevChain |-> chain[w],
                      slice |-> f.child, job |-> f.job, dispatcher |-> d, estimate |-> f.estimate,
                      phase |-> x]
           taken == Append(Below(d), h)
<1>1. f = Top(d) BY DEF Top
<1>2. /\ stack[d] # <<>> /\ f.kind = "replicates" /\ Cardinality(f.running) < f.workers
      /\ \/ w = d /\ f.workers = 1 /\ stack' = [stack EXCEPT ![d] = Append(taken, worker)]
         \/ /\ w \in Pool /\ stack[w] = <<>>
            /\ stack' = [stack EXCEPT ![d] = taken, ![w] = <<worker>>]
  BY <1>1 DEF StartTask, TopIs
<1>3. stack \in [Threads -> Seq(Frames)] BY DEF Typed
<1>4. f \in Frames /\ Below(d) \in Seq(Frames) BY <1>1, <1>2, <1>3, TopFrame
<1>5. f \in JobFrames BY <1>2, <1>4, FrameOfKind
<1>6. h.running = f.running \cup {w} BY <1>5 DEF JobFrames
<1>7. worker.job = f.job /\ worker.slice = f.child /\ worker.dispatcher = d OBVIOUS
<1>8. n \in Nat /\ n # 0 BY <1>2, <1>3
<1>9. Len(Below(d)) = n - 1 /\ \A i \in 1..(n - 1) : Below(d)[i] = stack[d][i]
  <2> DEFINE m == n - 1
             s == stack[d]
  <2>1. m \in Nat /\ m <= Len(s) /\ s \in Seq(Frames) BY <1>3, <1>8
  <2> HIDE DEF m, s
  <2>2. Len(SubSeq(s, 1, m)) = m /\ \A i \in 1..m : SubSeq(s, 1, m)[i] = s[i]
    BY <2>1, SubSeqProperties
  <2> QED BY <2>2 DEF m, s, Below
<1> HIDE DEF h, worker
<1>10. /\ Len(taken) = n /\ taken[n] = h
       /\ \A i \in 1..(n - 1) : taken[i] = stack[d][i]
       /\ Append(taken, worker)[n] = h /\ Append(taken, worker)[n + 1] = worker
       /\ \A i \in 1..(n - 1) : Append(taken, worker)[i] = stack[d][i]
  <2>1. Below(d) \in Seq(Frames) /\ n = Len(Below(d)) + 1 BY <1>4, <1>8, <1>9
  <2> HIDE DEF n
  <2>2. /\ Len(taken) = n /\ taken[n] = h
        /\ Append(taken, worker)[n] = h /\ Append(taken, worker)[n + 1] = worker
        /\ \A i \in 1..(n - 1) : /\ taken[i] = Below(d)[i]
                               /\ Append(taken, worker)[i] = Below(d)[i]
    BY <2>1, AppendTwice
  <2> QED BY <1>9, <2>2
<1> HIDE DEF taken
<1>11. /\ \A u \in Threads \ {d} : Unmoved(stack[u], stack'[u])
       /\ \A i \in 1..(n - 1) : stack'[d][i] = stack[d][i]
       /\ stack'[d][n] = h
       /\ g = worker
       /\ f.workers > 1 => stack[w] = <<>>
       /\ w # d => stack[w] = <<>>
  <2>1. CASE w = d /\ f.workers = 1 /\ stack' = [stack EXCEPT ![d] = Append(taken, worker)]
    <3>1. stack'[d] = Append(taken, worker) /\ \A u \in Threads \ {d} : stack'[u] = stack[u]
      BY <2>1, <1>3
    <3>2. \A u \in Threads \ {d} : Unmoved(stack[u], stack'[u]) BY <3>1, <1>3, UnmovedSame
    <3>3. g = worker BY <2>1, <3>1, <1>10
    <3>4. stack'[d][n] = h /\ \A i \in 1..(n - 1) : stack'[d][i] = stack[d][i] BY <3>1, <1>10
    <3>5. ~(f.workers > 1) /\ w = d BY <2>1
    <3> QED BY <3>2, <3>3, <3>4, <3>5
  <2>2. CASE /\ w \in Pool /\ stack[w] = <<>>
             /\ stack' = [stack EXCEPT ![d] = taken, ![w] = <<worker>>]
    <3>1. w # d BY <2>2, <1>2
    <3>2. stack'[w] = <<worker>> /\ stack'[d] = taken
          /\ \A u \in Threads \ {w, d} : stack'[u] = stack[u]
      BY <2>2, <3>1, <1>3
    <3>3. Len(stack[w]) = 0 BY <2>2
    <3>4. Unmoved(stack[w], stack'[w]) BY <3>3 DEF Unmoved
    <3>5. \A u \in Threads \ {w, d} : Unmoved(stack[u], stack'[u]) BY <3>2, <1>3, UnmovedSame
    <3>6. g = worker BY <3>2, <3>3
    <3> QED BY <2>2, <3>2, <3>4, <3>5, <3>6, <1>10
  <2> QED BY <1>2, <2>1, <2>2
<1>12. Pushes(w, g) /\ g \in WorkerFrames
  <2>1. PICK q \in WorkerFrames : Pushes(w, q) BY StartTaskMoves
  <2>2. q = g BY <2>1 DEF Pushes, Pushed
  <2> QED BY <2>1, <2>2
<1> QED BY <1>2, <1>5, <1>6, <1>7, <1>11, <1>12 DEF Taken

LEMMA MannedKept ==
  ASSUME NEW st, NEW zt, NEW f \in JobFrames, NEW g, Alike(f, g), g.running \subseteq f.running,
         \A w \in g.running : f.workers > 1 /\ Hosts(st[w], f) => Hosts(zt[w], g),
         Manned(st, f)
  PROVE  Manned(zt, g)
<1>1. IsFiniteSet(f.running) /\ Cardinality(f.running) <= f.workers BY DEF Manned
<1>2. IsFiniteSet(g.running) /\ Cardinality(g.running) <= Cardinality(f.running)
  BY <1>1, FS_Subset
<1>3. Cardinality(g.running) \in Nat /\ Cardinality(f.running) \in Nat
  BY <1>1, <1>2, FS_CardinalityType
<1>4. g.workers = f.workers /\ f.workers \in Int BY Constants DEF Alike, JobFrames
<1> QED BY <1>1, <1>2, <1>3, <1>4 DEF Manned

LEMMA HostsAlike ==
  ASSUME NEW s, NEW z, NEW f, NEW g, Hosts(s, f), IsJob(f), Alike(f, g),
         z # <<>>, Alike(s[1], z[1])
  PROVE  Hosts(z, g)
BY DEF Hosts, IsJob, Alike

LEMMA FrameAt ==
  ASSUME NEW s \in Seq(Frames), NEW a \in 1..Len(s)
  PROVE  /\ s[a] \in Frames /\ (IsJob(s[a]) => s[a] \in JobFrames)
         /\ s # <<>> /\ 1 \in 1..Len(s)
<1>1. Len(s) \in Nat /\ s[a] \in Frames OBVIOUS
<1>2. s # <<>> /\ 1 \in 1..Len(s) BY <1>1
<1> QED BY <1>1, <1>2, FrameOfKind DEF IsJob

\* A scope is opened that is no replicate.
LEMMA JobsPush ==
  ASSUME Typed, Typed', BlasInv, RunningInv, NEW t \in Threads, NEW f \in Frames, Pushes(t, f),
         AllFewer, f.kind # "worker", IsJob(f) => f.job = jobs + 1 /\ f.running = {}
  PROVE  RunningInv'
<1>1. \A u \in Threads : stack[u] \in Seq(Frames) /\ stack'[u] \in Seq(Frames) BY DEF Typed
<1>2. \A u \in Threads : \A b \in 1..Len(stack'[u]) :
        \/ b \in 1..Len(stack[u]) /\ Alike(stack[u][b], stack'[u][b])
        \/ u = t /\ b = Len(stack[t]) + 1 /\ stack'[u][b] = f
  <2> SUFFICES ASSUME NEW u \in Threads, NEW b \in 1..Len(stack'[u])
               PROVE  \/ b \in 1..Len(stack[u]) /\ Alike(stack[u][b], stack'[u][b])
                      \/ u = t /\ b = Len(stack[t]) + 1 /\ stack'[u][b] = f
    OBVIOUS
  <2>1. CASE u # t BY <2>1 DEF Pushes, Stays, Kept
  <2>2. CASE u = t
    <3>1. Len(stack[t]) \in Nat BY <1>1
    <3>2. Len(stack'[t]) = Len(stack[t]) + 1 BY DEF Pushes, Pushed
    <3>3. b \in 1..Len(stack[t]) \/ b = Len(stack[t]) + 1 BY <2>2, <3>1, <3>2
    <3> QED BY <2>2, <3>3 DEF Pushes, Pushed
  <2> QED BY <2>1, <2>2
<1>3. \A u \in Threads : stack[u] # <<>> =>
        stack'[u] # <<>> /\ Alike(stack[u][1], stack'[u][1])
  <2> SUFFICES ASSUME NEW u \in Threads, stack[u] # <<>>
               PROVE  stack'[u] # <<>> /\ Alike(stack[u][1], stack'[u][1])
    OBVIOUS
  <2>1. 1 \in 1..Len(stack[u]) /\ Len(stack[u]) \in Nat /\ Len(stack[u]) # 0 BY <1>1
  <2>2. Len(stack'[u]) = Len(stack[u]) \/ Len(stack'[u]) = Len(stack[u]) + 1
    BY DEF Pushes, Pushed, Stays, Kept
  <2>3. Len(stack'[u]) # 0 BY <2>1, <2>2
  <2>4. stack'[u] # <<>> BY <2>3
  <2> QED BY <2>1, <2>4 DEF Pushes, Pushed, Stays, Kept
<1>4. \A u \in Threads : \A b \in 1..Len(stack[u]) :
        stack[u][b].kind \in {"worker", "replicates"} => stack[u][b].job # jobs + 1
  <2>1. jobs \in Nat /\ \A j \in 1..jobs : j # jobs + 1 BY DEF Typed
  <2> QED BY <2>1 DEF BlasInv, Staged
<1> SUFFICES ASSUME NEW d \in Threads, NEW a \in 1..Len(stack'[d]), IsJob(stack'[d][a])
             PROVE  /\ Manned(stack', stack'[d][a])
                    /\ ServedBy(stack', stack'[d][a].job, d)
  BY DEF RunningInv
<1> DEFINE z == stack'[d][a]
<1>5. CASE d = t /\ a = Len(stack[t]) + 1 /\ z = f
  <2>1. IsJob(f) /\ f.job = jobs + 1 /\ f.running = {} BY <1>5
  <2>2. f \in JobFrames BY <2>1, FrameOfKind DEF IsJob
  <2>3. Manned(stack', f)
    <3>1. f.workers \in Nat BY <2>2, Constants DEF JobFrames
    <3> QED BY <2>1, <3>1, FS_EmptySet DEF Manned
  <2>4. ServedBy(stack', f.job, t)
    <3> SUFFICES ASSUME NEW u \in Threads, NEW b \in 1..Len(stack'[u]),
                        stack'[u][b].kind \in {"worker", "replicates"}, stack'[u][b].job = jobs + 1
                 PROVE  u = t /\ stack'[u][b].kind # "worker"
      BY <2>1 DEF ServedBy, IsJob
    <3>1. CASE b \in 1..Len(stack[u]) /\ Alike(stack[u][b], stack'[u][b])
      <4>1. stack[u][b].kind \in {"worker", "replicates"} /\ stack[u][b].job = jobs + 1
        BY <3>1 DEF Alike
      <4> QED BY <1>4, <3>1, <4>1
    <3>2. CASE u = t /\ stack'[u][b] = f BY <3>2
    <3> QED BY <1>2, <3>1, <3>2
  <2> QED BY <1>5, <2>3, <2>4
<1>6. CASE a \in 1..Len(stack[d]) /\ Alike(stack[d][a], z)
  <2> DEFINE s == stack[d][a]
  <2>1. IsJob(s) /\ Alike(s, z) /\ s.job = z.job BY <1>6 DEF IsJob, Alike
  <2>2. s \in JobFrames BY <1>1, <1>6, <2>1, FrameAt
  <2>3. z.running \subseteq s.running
    <3>1. Fewer(stack[d], stack'[d]) BY DEF AllFewer
    <3>2. a <= Len(stack'[d]) BY <1>1
    <3> QED BY <1>6, <2>1, <3>1, <3>2 DEF Fewer
  <2>4. Manned(stack, s) /\ ServedBy(stack, s.job, d) BY <1>6, <2>1 DEF RunningInv
  <2>5. s.running \subseteq Threads BY <2>2 DEF JobFrames
  <2> HIDE DEF s, z
  <2>6. \A w \in z.running : Hosts(stack[w], s) => Hosts(stack'[w], z)
    <3> SUFFICES ASSUME NEW w \in z.running, Hosts(stack[w], s) PROVE Hosts(stack'[w], z)
      OBVIOUS
    <3>1. w \in Threads /\ stack[w] # <<>> BY <2>3, <2>5 DEF Hosts
    <3>2. stack'[w] # <<>> /\ Alike(stack[w][1], stack'[w][1]) BY <1>3, <3>1
    <3> QED BY <2>1, <3>2, HostsAlike
  <2>7. Manned(stack', z) BY <2>1, <2>2, <2>3, <2>4, <2>6, MannedKept
  <2>8. ServedBy(stack', s.job, d)
    <3> SUFFICES ASSUME NEW u \in Threads, NEW b \in 1..Len(stack'[u]),
                        stack'[u][b].kind \in {"worker", "replicates"}, stack'[u][b].job = s.job
                 PROVE  /\ IsJob(stack'[u][b]) => u = d
                        /\ stack'[u][b].kind = "worker" => stack'[u][b].dispatcher = d
      BY DEF ServedBy, IsJob
    <3>1. CASE b \in 1..Len(stack[u]) /\ Alike(stack[u][b], stack'[u][b])
      BY <2>4, <3>1 DEF Alike, ServedBy, IsJob
    <3>2. CASE u = t /\ stack'[u][b] = f
      <4>1. IsJob(f) /\ f.job = jobs + 1 BY <3>2 DEF IsJob
      <4>2. s.job # jobs + 1 BY <1>4, <1>6, <2>1 DEF s, IsJob
      <4> QED BY <3>2, <4>1, <4>2
    <3> QED BY <1>2, <3>1, <3>2
  <2> QED BY <2>1, <2>7, <2>8 DEF z
<1> QED BY <1>2, <1>5, <1>6

\* A scope is left; when it is the only one of its thread, no job counts the thread.
LEMMA JobsPop ==
  ASSUME Typed, Typed', RunningInv, NEW t \in Threads, Pops(t), AllFewer,
         Len(stack[t]) = 1 =>
           \A d \in Threads : \A a \in 1..Len(stack'[d]) :
             IsJob(stack'[d][a]) /\ stack'[d][a].workers > 1 => t \notin stack'[d][a].running
  PROVE  RunningInv'
<1>1. \A u \in Threads : stack[u] \in Seq(Frames) /\ stack'[u] \in Seq(Frames) BY DEF Typed
<1>2. \A u \in Threads : \A b \in 1..Len(stack'[u]) :
        b \in 1..Len(stack[u]) /\ Alike(stack[u][b], stack'[u][b])
  <2> SUFFICES ASSUME NEW u \in Threads, NEW b \in 1..Len(stack'[u])
               PROVE  b \in 1..Len(stack[u]) /\ Alike(stack[u][b], stack'[u][b])
    OBVIOUS
  <2>1. CASE u # t BY <2>1 DEF Pops, Stays, Kept
  <2>2. CASE u = t
    <3>1. Len(stack[t]) \in Nat BY <1>1
    <3>2. Len(stack'[t]) = Len(stack[t]) - 1 BY DEF Pops, Popped
    <3>3. b \in 1..Len(stack[t]) BY <2>2, <3>1, <3>2
    <3> QED BY <2>2, <3>3 DEF Pops, Popped
  <2> QED BY <2>1, <2>2
<1>3. \A u \in Threads : stack[u] # <<>> /\ (u = t => Len(stack[t]) # 1) =>
        stack'[u] # <<>> /\ Alike(stack[u][1], stack'[u][1])
  <2> SUFFICES ASSUME NEW u \in Threads, stack[u] # <<>>, u = t => Len(stack[t]) # 1
               PROVE  stack'[u] # <<>> /\ Alike(stack[u][1], stack'[u][1])
    OBVIOUS
  <2>1. Len(stack[u]) \in Nat /\ Len(stack[u]) # 0 BY <1>1
  <2>2. Len(stack'[u]) = Len(stack[u]) \/ (u = t /\ Len(stack'[u]) = Len(stack[u]) - 1)
    BY DEF Pops, Popped, Stays, Kept
  <2>3. Len(stack'[u]) \in Nat /\ Len(stack'[u]) # 0
    <3>1. \A n \in Nat : n # 0 /\ n # 1 => n - 1 # 0 OBVIOUS
    <3>2. u = t => Len(stack[u]) # 1 OBVIOUS
    <3>3. Len(stack'[u]) \in Nat BY <1>1
    <3> QED BY <2>1, <2>2, <3>1, <3>2, <3>3
  <2>4. stack'[u] # <<>> /\ 1 \in 1..Len(stack'[u]) BY <2>3
  <2> QED BY <1>2, <2>4
<1> SUFFICES ASSUME NEW d \in Threads, NEW a \in 1..Len(stack'[d]), IsJob(stack'[d][a])
             PROVE  /\ Manned(stack', stack'[d][a])
                    /\ ServedBy(stack', stack'[d][a].job, d)
  BY DEF RunningInv
<1> DEFINE z == stack'[d][a]
           s == stack[d][a]
<1>4. a \in 1..Len(stack[d]) /\ Alike(s, z) BY <1>2
<1>5. IsJob(s) /\ s.job = z.job BY <1>4 DEF IsJob, Alike
<1>6. s \in JobFrames BY <1>1, <1>4, <1>5, FrameAt
<1>7. z.running \subseteq s.running
  <2>1. Fewer(stack[d], stack'[d]) BY DEF AllFewer
  <2>2. a <= Len(stack'[d]) BY <1>1
  <2> QED BY <1>4, <1>5, <2>1, <2>2 DEF Fewer
<1>8. Manned(stack, s) /\ ServedBy(stack, s.job, d) BY <1>4, <1>5 DEF RunningInv
<1>9. s.running \subseteq Threads BY <1>6 DEF JobFrames
<1>10. Len(stack[t]) = 1 /\ z.workers > 1 => t \notin z.running OBVIOUS
<1> HIDE DEF s, z
<1>11. \A w \in z.running : s.workers > 1 /\ Hosts(stack[w], s) => Hosts(stack'[w], z)
  <2> SUFFICES ASSUME NEW w \in z.running, s.workers > 1, Hosts(stack[w], s)
               PROVE  Hosts(stack'[w], z)
    OBVIOUS
  <2>1. z.workers > 1 BY <1>4, <1>5 DEF Alike, IsJob
  <2>2. w \in Threads /\ stack[w] # <<>> BY <1>7, <1>9 DEF Hosts
  <2>3. w = t => Len(stack[t]) # 1 BY <1>10, <2>1
  <2>4. stack'[w] # <<>> /\ Alike(stack[w][1], stack'[w][1]) BY <1>3, <2>2, <2>3
  <2> QED BY <1>4, <1>5, <2>4, HostsAlike
<1>12. Manned(stack', z) BY <1>4, <1>6, <1>7, <1>8, <1>11, MannedKept
<1>13. ServedBy(stack', s.job, d)
  <2> SUFFICES ASSUME NEW u \in Threads, NEW b \in 1..Len(stack'[u]),
                      stack'[u][b].kind \in {"worker", "replicates"}, stack'[u][b].job = s.job
               PROVE  /\ IsJob(stack'[u][b]) => u = d
                      /\ stack'[u][b].kind = "worker" => stack'[u][b].dispatcher = d
    BY DEF ServedBy, IsJob
  <2>1. b \in 1..Len(stack[u]) /\ Alike(stack[u][b], stack'[u][b]) BY <1>2
  <2> QED BY <1>8, <2>1 DEF Alike, ServedBy, IsJob
<1> QED BY <1>5, <1>12, <1>13 DEF z

\* A scope that is opened outside StartTask is no replicate.
LEMMA ScopeOpens ==
  ASSUME Typed, Shapes, NEW t \in Threads,
         EnterRoot(t) \/ EnterNested(t) \/ Reserve(t) \/ ReserveEstimate(t) \/ Dispatch(t)
  PROVE  \E f \in Frames : /\ Pushes(t, f) /\ f.kind # "worker"
                           /\ IsJob(f) => f.job = jobs + 1 /\ f.running = {}
<1>1. CASE EnterRoot(t)
  <2>1. PICK f \in CallFrames : Pushes(t, f) BY <1>1, EnterRootMoves
  <2>2. f \in Frames /\ f.kind = "call" BY DEF Frames, CallFrames
  <2> QED BY <2>1, <2>2 DEF IsJob
<1>2. CASE EnterNested(t)
  <2>1. PICK f \in CallFrames : Pushes(t, f) BY <1>2, EnterNestedMoves
  <2>2. f \in Frames /\ f.kind = "call" BY DEF Frames, CallFrames
  <2> QED BY <2>1, <2>2 DEF IsJob
<1>3. CASE Reserve(t) \/ ReserveEstimate(t)
  <2>1. PICK f \in ReserveFrames : Pushes(t, f) BY <1>3, ReserveOpens
  <2>2. f \in Frames /\ f.kind = "reserve" BY DEF Frames, ReserveFrames
  <2> QED BY <2>1, <2>2 DEF IsJob
<1>4. CASE Dispatch(t)
  <2>1. PICK f \in JobFrames : Pushes(t, f) /\ f.job = jobs + 1 /\ f.running = {}
    BY <1>4, DispatchMoves
  <2>2. f \in Frames /\ f.kind = "replicates" BY DEF Frames, JobFrames
  <2> QED BY <2>1, <2>2
<1> QED BY <1>1, <1>2, <1>3, <1>4

LEMMA JobsOpen ==
  ASSUME Typed, Shapes, BlasInv, RunningInv, NEW t \in Threads,
         EnterRoot(t) \/ EnterNested(t) \/ Reserve(t) \/ ReserveEstimate(t) \/ Dispatch(t)
  PROVE  RunningInv'
<1>1. Typed'
  <2>1. [Next]_vars BY DEF Next, Step
  <2> QED BY <2>1, ShapesNext
<1>2. AllFewer BY RunUnmoved, EstimateUnmoved, UnmovedFewer
<1>3. PICK f \in Frames : /\ Pushes(t, f) /\ f.kind # "worker"
                          /\ IsJob(f) => f.job = jobs + 1 /\ f.running = {}
  BY ScopeOpens
<1> QED BY <1>1, <1>2, <1>3, JobsPush

LEMMA JobsLeave ==
  ASSUME Typed, Shapes, RunningInv, NEW t \in Threads,
         ExitCall(t) \/ ExitReserve(t) \/ EndTask(t) \/ EndJob(t)
  PROVE  RunningInv'
<1>1. Typed'
  <2>1. [Next]_vars BY DEF Next, Step
  <2> QED BY <2>1, ShapesNext
<1> DEFINE f == stack[t][Len(stack[t])]
<1>2. Pops(t) /\ (EndTask(t) \/ f.kind # "worker")
  <2>1. CASE EndTask(t) BY <2>1, EndTaskMoves
  <2>2. CASE ExitCall(t) BY <2>2, ExitCallMoves DEF ExitCall, TopIs, Top
  <2>3. CASE EndJob(t) BY <2>3, EndJobMoves DEF EndJob, TopIs, Top
  <2>4. CASE ExitReserve(t)
    <3>1. ReservationEnds(t, current[t].root) BY <2>4, ExitReserveMoves
    <3> QED BY <2>4, <3>1 DEF ReservationEnds, ExitReserve, TopIs, Top
  <2> QED BY <2>1, <2>2, <2>3, <2>4
<1>3. AllFewer
  <2>1. f = stack[t][Len(stack[t])] OBVIOUS
  <2> HIDE DEF f
  <2> QED BY <2>1, RunUnmoved, EndTaskFewer, UnmovedFewer
<1>4. ASSUME Len(stack[t]) = 1, NEW d \in Threads, NEW a \in 1..Len(stack'[d]),
             IsJob(stack'[d][a]), stack'[d][a].workers > 1, t \in stack'[d][a].running
      PROVE  FALSE
  <2> DEFINE s == stack[d][a]
             z == stack'[d][a]
  <2>1. a \in 1..Len(stack[d]) /\ Alike(s, z)
    <3>1. stack[d] \in Seq(Frames) BY DEF Typed
    <3>2. CASE d # t BY <1>2, <3>2 DEF Pops, Stays, Kept
    <3>3. CASE d = t
      <4>1. Len(stack'[t]) = 0
        <5>1. Len(stack'[t]) = Len(stack[t]) - 1 BY <1>2 DEF Pops, Popped
        <5> QED BY <5>1, <1>4
      <4> QED BY <3>3, <4>1, <1>4
    <3> QED BY <3>2, <3>3
  <2>2. IsJob(s) /\ s.job = z.job /\ s.workers = z.workers BY <1>4, <2>1 DEF IsJob, Alike
  <2>3. z.running \subseteq s.running
    <3>1. Fewer(stack[d], stack'[d]) BY <1>3 DEF AllFewer
    <3>2. a <= Len(stack'[d]) BY <1>1, <1>4 DEF Typed
    <3> QED BY <2>1, <2>2, <3>1, <3>2 DEF Fewer
  <2>4. Manned(stack, s) /\ ServedBy(stack, s.job, d) BY <2>1, <2>2 DEF RunningInv
  <2>5. Hosts(stack[t], s) BY <1>4, <2>2, <2>3, <2>4 DEF Manned
  <2>6. f = stack[t][1] BY <1>4
  <2>7. f.kind = "worker" /\ f.job = s.job BY <2>5, <2>6 DEF Hosts
  <2>8. f.dispatcher = d
    <3>1. 1 \in 1..Len(stack[t]) BY <1>4
    <3> QED BY <2>4, <2>6, <2>7, <3>1 DEF ServedBy
  <2>9. EndTask(t) BY <1>2, <2>7
  <2>10. \A b \in 1..Len(stack'[f.dispatcher]) :
           IsJob(stack'[f.dispatcher][b]) /\ stack'[f.dispatcher][b].job = f.job =>
             t \notin stack'[f.dispatcher][b].running
    <3>1. f = stack[t][Len(stack[t])] OBVIOUS
    <3> HIDE DEF f
    <3> QED BY <2>9, <3>1, EndTaskFewer
  <2> HIDE DEF f, s, z
  <2> QED BY <1>4, <2>2, <2>7, <2>8, <2>10 DEF z
<1> QED BY <1>1, <1>2, <1>3, <1>4, JobsPop

\* A thread takes a replicate of d's job.
LEMMA JobsStart ==
  ASSUME Typed, Shapes, RunningInv, NEW w \in Threads, NEW d \in Threads, StartTask(w, d)
  PROVE  RunningInv'
<1>1. Typed'
  <2>1. [Next]_vars BY DEF Next, Step
  <2> QED BY <2>1, ShapesNext
<1> DEFINE f == stack[d][Len(stack[d])]
           g == stack'[w][Len(stack[w]) + 1]
<1>2. Taken(w, d, f, g) /\ stack[d] # <<>>
  <2>1. f = stack[d][Len(stack[d])] /\ g = stack'[w][Len(stack[w]) + 1] OBVIOUS
  <2> HIDE DEF f, g
  <2> QED BY <2>1, StartTaskTakes
<1>3. \A u \in Threads : stack[u] \in Seq(Frames) /\ stack'[u] \in Seq(Frames)
  BY <1>1 DEF Typed
<1>4. \A u \in Threads : \A b \in 1..Len(stack'[u]) :
        \/ b \in 1..Len(stack[u]) /\ Alike(stack[u][b], stack'[u][b])
        \/ u = w /\ b = Len(stack[w]) + 1 /\ stack'[u][b] = g
  <2> SUFFICES ASSUME NEW u \in Threads, NEW b \in 1..Len(stack'[u])
               PROVE  \/ b \in 1..Len(stack[u]) /\ Alike(stack[u][b], stack'[u][b])
                      \/ u = w /\ b = Len(stack[w]) + 1 /\ stack'[u][b] = g
    OBVIOUS
  <2> HIDE DEF f, g
  <2>1. CASE u # w BY <1>2, <2>1 DEF Taken, Pushes, Stays, Kept
  <2>2. CASE u = w
    <3>1. Len(stack[w]) \in Nat BY <1>3
    <3>2. Len(stack'[w]) = Len(stack[w]) + 1 BY <1>2 DEF Taken, Pushes, Pushed
    <3>3. b \in 1..Len(stack[w]) \/ b = Len(stack[w]) + 1 BY <2>2, <3>1, <3>2
    <3> QED BY <1>2, <2>2, <3>3 DEF Taken, Pushes, Pushed
  <2> QED BY <2>1, <2>2
<1>5. \A u \in Threads : stack[u] # <<>> => stack'[u] # <<>> /\ Alike(stack[u][1], stack'[u][1])
  <2> SUFFICES ASSUME NEW u \in Threads, stack[u] # <<>>
               PROVE  stack'[u] # <<>> /\ Alike(stack[u][1], stack'[u][1])
    OBVIOUS
  <2> HIDE DEF f, g
  <2>1. 1 \in 1..Len(stack[u]) /\ Len(stack[u]) \in Nat /\ Len(stack[u]) # 0 BY <1>3
  <2>2. Len(stack'[u]) = Len(stack[u]) \/ Len(stack'[u]) = Len(stack[u]) + 1
    BY <1>2 DEF Taken, Pushes, Pushed, Stays, Kept
  <2>3. Len(stack'[u]) # 0 BY <2>1, <2>2
  <2>4. stack'[u] # <<>> BY <2>3
  <2> QED BY <1>2, <2>1, <2>4 DEF Taken, Pushes, Pushed, Stays, Kept
<1>6. f.kind = "replicates" /\ g.kind = "worker" BY <1>2 DEF Taken, JobFrames, WorkerFrames
<1>7. Len(stack[d]) \in 1..Len(stack[d]) BY <1>2, <1>3
<1>8. Manned(stack, f) /\ ServedBy(stack, f.job, d) BY <1>6, <1>7 DEF RunningInv, IsJob
<1>9. f.workers > 1 => stack'[w] # <<>> /\ stack'[w][1] = g
  <2> SUFFICES ASSUME f.workers > 1 PROVE stack'[w] # <<>> /\ stack'[w][1] = g OBVIOUS
  <2> HIDE DEF f, g
  <2>1. stack[w] = <<>> BY <1>2 DEF Taken
  <2>2. Len(stack[w]) = 0 BY <2>1
  <2>3. Len(stack'[w]) = 1 /\ stack'[w][1] = g BY <1>2, <2>2 DEF Taken, Pushes, Pushed
  <2> QED BY <2>3
<1>10. /\ \A u \in Threads \ {d} : Fewer(stack[u], stack'[u])
       /\ \A i \in 1..(Len(stack[d]) - 1) : IsJob(stack[d][i]) => stack'[d][i].running = stack[d][i].running
       /\ stack'[d][Len(stack[d])].running = f.running \cup {w}
       /\ f \in JobFrames /\ g.job = f.job /\ g.slice = f.child /\ g.dispatcher = d
       /\ Cardinality(f.running) < f.workers
  BY <1>2, UnmovedFewer DEF Taken
<1> SUFFICES ASSUME NEW e \in Threads, NEW a \in 1..Len(stack'[e]), IsJob(stack'[e][a])
             PROVE  /\ Manned(stack', stack'[e][a])
                    /\ ServedBy(stack', stack'[e][a].job, e)
  BY DEF RunningInv
<1> DEFINE z == stack'[e][a]
           s == stack[e][a]
<1> HIDE DEF f, g
<1>11. a \in 1..Len(stack[e]) /\ Alike(s, z) BY <1>4, <1>6 DEF IsJob
<1>12. IsJob(s) /\ s.job = z.job BY <1>11 DEF IsJob, Alike
<1>13. s \in JobFrames BY <1>3, <1>11, <1>12, FrameAt
<1>14. Manned(stack, s) /\ ServedBy(stack, s.job, e) BY <1>11, <1>12 DEF RunningInv
<1>15. s.running \subseteq Threads BY <1>13 DEF JobFrames
<1> HIDE DEF z, s
<1>16. Manned(stack', z)
  <2>1. ASSUME NEW v \in Threads, Hosts(stack[v], s) PROVE Hosts(stack'[v], z)
    <3>1. stack'[v] # <<>> /\ Alike(stack[v][1], stack'[v][1]) BY <1>5, <2>1 DEF Hosts
    <3> QED BY <1>11, <1>12, <2>1, <3>1, HostsAlike
  <2>2. CASE z.running \subseteq s.running
    <3>1. \A v \in z.running : s.workers > 1 /\ Hosts(stack[v], s) => Hosts(stack'[v], z)
      BY <1>15, <2>1, <2>2
    <3> QED BY <1>11, <1>13, <1>14, <2>2, <3>1, MannedKept
  <2>3. CASE e = d /\ a = Len(stack[d])
    <3>1. s = f BY <2>3 DEF s, f
    <3>2. z.running = f.running \cup {w} BY <1>10, <2>3 DEF z
    <3>3. z.workers = f.workers /\ z.job = f.job /\ z.child = f.child
      BY <1>6, <1>11, <3>1 DEF Alike
    <3>4. IsFiniteSet(z.running) /\ Cardinality(z.running) <= z.workers
      <4>1. IsFiniteSet(f.running) BY <1>8 DEF Manned
      <4>2. /\ IsFiniteSet(f.running \cup {w})
            /\ Cardinality(f.running \cup {w}) \in {Cardinality(f.running), Cardinality(f.running) + 1}
        BY <4>1, FS_AddElement
      <4>3. Cardinality(f.running) \in Nat BY <4>1, FS_CardinalityType
      <4>4. f.workers \in Int BY <1>10, Constants DEF JobFrames
      <4> QED BY <1>10, <3>2, <3>3, <4>2, <4>3, <4>4
    <3>5. z.workers > 1 => \A v \in z.running : Hosts(stack'[v], z)
      <4> SUFFICES ASSUME z.workers > 1, NEW v \in z.running PROVE Hosts(stack'[v], z) OBVIOUS
      <4>1. CASE v \in f.running
        <5>1. Hosts(stack[v], s) BY <1>8, <3>1, <3>3, <4>1 DEF Manned
        <5>2. v \in Threads BY <1>15, <3>1, <4>1
        <5> QED BY <2>1, <5>1, <5>2
      <4>2. CASE v = w
        <5>1. stack'[w] # <<>> /\ stack'[w][1] = g BY <1>9, <3>3
        <5> QED BY <1>6, <1>10, <3>3, <4>2, <5>1 DEF Hosts
      <4> QED BY <3>2, <4>1, <4>2
    <3> QED BY <3>4, <3>5 DEF Manned
  <2>4. z.running \subseteq s.running \/ (e = d /\ a = Len(stack[d]))
    <3>1. CASE e # d
      <4>1. Fewer(stack[e], stack'[e]) BY <1>10, <3>1
      <4>2. a <= Len(stack'[e]) BY <1>3
      <4> QED BY <1>11, <1>12, <4>1, <4>2 DEF Fewer, s, z
    <3>2. CASE e = d /\ a # Len(stack[d])
      <4>1. \A n \in Nat : \A i \in 1..n : i # n => i \in 1..(n - 1) OBVIOUS
      <4>2. a \in 1..(Len(stack[d]) - 1)
        <5>1. Len(stack[d]) \in Nat BY <1>3
        <5> QED BY <1>11, <3>2, <4>1, <5>1
      <4> QED BY <1>10, <1>12, <3>2, <4>2 DEF s, z
    <3> QED BY <3>1, <3>2
  <2> QED BY <2>2, <2>3, <2>4
<1>17. ServedBy(stack', s.job, e)
  <2> SUFFICES ASSUME NEW u \in Threads, NEW b \in 1..Len(stack'[u]),
                      stack'[u][b].kind \in {"worker", "replicates"}, stack'[u][b].job = s.job
               PROVE  /\ IsJob(stack'[u][b]) => u = e
                      /\ stack'[u][b].kind = "worker" => stack'[u][b].dispatcher = e
    BY DEF ServedBy, IsJob
  <2>1. CASE b \in 1..Len(stack[u]) /\ Alike(stack[u][b], stack'[u][b])
    BY <1>14, <2>1 DEF Alike, ServedBy, IsJob
  <2>2. CASE u = w /\ stack'[u][b] = g
    <3>1. f.job = s.job BY <1>10, <2>2
    <3>2. d = e BY <1>6, <1>7, <1>14, <3>1 DEF ServedBy, IsJob, f
    <3> QED BY <1>6, <1>10, <2>2, <3>2 DEF IsJob
  <2> QED BY <1>4, <2>1, <2>2
<1> QED BY <1>12, <1>16, <1>17 DEF z

LEMMA RunningInit == Init => RunningInv
<1> SUFFICES ASSUME Init PROVE RunningInv OBVIOUS
<1>1. \A t \in Threads : Len(stack[t]) = 0 /\ (\A a \in 1..Len(stack[t]) : FALSE) BY DEF Init
<1> QED BY <1>1 DEF RunningInv

LEMMA RunningNext ==
  ASSUME Typed, Shapes, BlasInv, RunningInv, [Next]_vars
  PROVE  RunningInv'
<1>1. CASE UNCHANGED vars
  <2>1. stack' = stack BY <1>1 DEF vars
  <2> QED BY <2>1 DEF RunningInv
<1>2. CASE Next
  <2>1. PICK t \in Threads : Step(t) BY <1>2 DEF Next
  <2>2. CASE ExitCall(t) \/ ExitReserve(t) \/ EndTask(t) \/ EndJob(t) BY <2>2, JobsLeave
  <2>3. CASE EnterRoot(t) \/ EnterNested(t) \/ Reserve(t) \/ ReserveEstimate(t) \/ Dispatch(t)
    BY <2>3, JobsOpen
  <2>4. CASE \E d \in Threads : StartTask(t, d) BY <2>4, JobsStart
  <2> QED BY <2>1, <2>2, <2>3, <2>4 DEF Step
<1> QED BY <1>1, <1>2

LEMMA RunningInvariant == Spec => []RunningInv
<1>1. Init => RunningInv BY RunningInit
<1>2. Typed /\ Shapes /\ BlasInv /\ RunningInv /\ [Next]_vars => RunningInv' BY RunningNext
<1> QED BY <1>1, <1>2, ShapesInvariant, BlasInvariant, PTL DEF Spec

-----------------------------------------------------------------------------
(* The slices that a job hands out fit together in the budget of its call. *)

\* While u's claims are all made in its first slice, they are what u counts as its own.
LEMMA OwnOfThread ==
  ASSUME Typed, Shapes, ClaimInv, NEW u \in Threads, stack[u] # <<>>, stack[u][1].kind = "worker",
         NEW r \in 1..Len(ledger), \A k \in DOMAIN ledger[r] : k[1] = u => SliceStart(u) = 1
  PROVE  Own(u, ledger[r]) = Claimed(Of(ledger[r], {u}))
<1> DEFINE c == ledger[r]
           s == stack[u]
<1>1. s \in Seq(Frames) /\ Len(s) \in Nat /\ 1 \in 1..Len(s) BY DEF Typed
<1>2. c \in Tables /\ IsTable(c) /\ DOMAIN c \subseteq Keys BY TablesAt, TableOf
<1>3. ThreadClaims(u) BY DEF ClaimInv
<1>4. NeverBorrows BY OwnSlice
<1>5. \A k \in chain[u] : k[1] = u BY <1>4 DEF NeverBorrows
<1>6. ASSUME NEW k \in DOMAIN c, k[1] = u PROVE k \in chain[u]
  <2>1. PICK b \in Nat : k = <<u, b>> BY <1>2, <1>6 DEF Keys
  <2>2. b \in Opened(s) BY <1>3, <1>6, <2>1 DEF ThreadClaims
  <2>3. b \in 1..Len(s) /\ Additive(s[b]) BY <2>2 DEF Opened
  <2>4. \A e \in 2..Len(s) : s[e].kind # "worker" BY <1>6, SliceTop
  <2>5. b # 1 BY <2>3 DEF Additive
  <2>6. \A e \in b..Len(s) : e \in 2..Len(s)
    <3>1. b > 1 BY <2>3, <2>5
    <3> QED BY <3>1
  <2>7. b \in OwnScopes(s, Len(s)) BY <2>3, <2>4, <2>6 DEF OwnScopes
  <2>8. chain[u] = OwnKeys(u, s, Len(s)) BY OwnTop
  <2> QED BY <2>1, <2>7, <2>8 DEF OwnKeys
<1>7. chain[u] \cap DOMAIN c = {k \in DOMAIN c : k[1] \in {u}} BY <1>5, <1>6
<1> QED BY <1>7 DEF Own, Of

\* No such thread claims more than its slice.
LEMMA ShareOfThread ==
  ASSUME Typed, Shapes, ClaimInv, SliceInv, NEW u \in Threads,
         stack[u] # <<>>, stack[u][1].kind = "worker",
         NEW r \in 1..Len(ledger), \A k \in DOMAIN ledger[r] : k[1] = u => SliceStart(u) = 1
  PROVE  Claimed(Of(ledger[r], {u})) <= Cap(stack[u][1].slice)
<1> DEFINE c == ledger[r]
           s == stack[u]
<1>1. s \in Seq(Frames) /\ 1 \in 1..Len(s) BY DEF Typed
<1>2. c \in Tables /\ IsTable(c) /\ DOMAIN c \subseteq Keys BY TablesAt, TableOf
<1>3. s[1].slice \in Allocs
  <2>1. s[1] \in Frames BY <1>1
  <2> QED BY <2>1, FrameOfKind DEF WorkerFrames
<1>4. CASE \E k \in DOMAIN c : k[1] = u
  <2>1. PICK k \in DOMAIN c : k[1] = u BY <1>4
  <2>2. PICK b \in Nat : k = <<u, b>> BY <1>2, <2>1 DEF Keys
  <2>3. current[u].root = r BY <2>1, <2>2 DEF ClaimInv, ThreadClaims
  <2>4. SliceStart(u) = 1 BY <2>1
  <2>5. Own(u, ledger[current[u].root]) <= Cap(stack[u][SliceStart(u)].slice)
    BY <2>4, WithinSlice DEF OwnWithinSlice
  <2>6. Own(u, c) = Claimed(Of(c, {u})) BY OwnOfThread
  <2> QED BY <2>3, <2>4, <2>5, <2>6
<1>5. CASE ~\E k \in DOMAIN c : k[1] = u
  <2>1. DOMAIN Of(c, {u}) = {} BY <1>5 DEF Of, Restrict
  <2>2. Claimed(Of(c, {u})) = 0 BY <2>1, ClaimedNone
  <2>3. Cap(s[1].slice) >= 0 BY <1>3, CapOf, Constants DEF Amounts
  <2> QED BY <2>2, <2>3
<1> QED BY <1>4, <1>5

LEMMA Shares ==
  ASSUME NEW n \in Nat, n # 0, NEW k \in Nat, n <= k, NEW m \in Nat, NEW b \in Nat, m <= b
  PROVE  m + (n - 1) * m <= k * b /\ n * m \in Nat
<1>1. m + (n - 1) * m = n * m OBVIOUS
<1>2. n * m <= k * m
  <2>1. k * m = n * m + (k - n) * m OBVIOUS
  <2>2. k - n \in Nat OBVIOUS
  <2>3. (k - n) * m >= 0 BY <2>2
  <2> QED BY <2>1, <2>3
<1>3. k * m <= k * b
  <2>1. k * b = k * m + k * (b - m) OBVIOUS
  <2>2. b - m \in Nat OBVIOUS
  <2>3. k * (b - m) >= 0 BY <2>2
  <2> QED BY <2>1, <2>3
<1> QED BY <1>1, <1>2, <1>3

LEMMA Guaranteed ==
  ASSUME Typed, Shapes, ClaimInv, CapInv, SliceInv, RunningInv
  PROVE  SliceIsGuaranteed
<1> SUFFICES ASSUME NEW d \in Threads, TopIs(d, "replicates"), Top(d).workers > 1,
                    \A k \in DOMAIN ledger[Top(d).child.root] :
                       k[1] \in Top(d).running /\ SliceStart(k[1]) = 1,
                    NEW w \in Top(d).running
             PROVE  Cap(Top(d).child) - Own(w, ledger[Top(d).child.root])
                      <= envelope[Top(d).child.root].budget - Claimed(ledger[Top(d).child.root])
  BY DEF SliceIsGuaranteed
<1> DEFINE f == Top(d)
           r == f.child.root
           c == ledger[r]
           P == f.running
           m == Cap(f.child)
           rest == P \ {w}
<1>1. stack \in [Threads -> Seq(Frames)] /\ stack[d] # <<>> /\ f.kind = "replicates"
  BY DEF Typed, TopIs
<1>2. Len(stack[d]) \in 1..Len(stack[d]) /\ f = stack[d][Len(stack[d])] BY <1>1, TopFrame
<1>3. f \in JobFrames BY <1>1, TopFrame, FrameOfKind
<1>4. f.child \in Allocs /\ f.workers \in Nat /\ P \subseteq Threads
  BY <1>3, Constants DEF JobFrames
<1>5. Within(f.child, envelope) /\ r > 0 /\ f.workers * Finest(f.child) <= envelope[r].budget
  BY <1>1, <1>2 DEF CapInv, Covered, Affords
<1>6. r \in 1..Len(ledger)
  <2>1. r \in 0..Len(envelope) /\ Len(ledger) = Len(envelope) BY <1>5 DEF Within, Typed
  <2> QED BY <1>5, <2>1
<1>7. Manned(stack, f) BY <1>1, <1>2 DEF RunningInv, IsJob
<1>8. IsFiniteSet(P) /\ Cardinality(P) <= f.workers /\ \A u \in P : Hosts(stack[u], f)
  BY <1>7 DEF Manned
<1>9. IsTable(c) BY <1>6, TablesAt, TableOf
<1>10. envelope[r].budget \in Int BY <1>6, TablesAt, Constants DEF Amounts
<1>11. m \in Nat /\ Finest(f.child) \in Nat /\ m <= Finest(f.child)
  BY <1>4, CapOf, CapInts, Constants DEF Amounts
<1>12. \A k \in DOMAIN c : k[1] \in P /\ SliceStart(k[1]) = 1 OBVIOUS
<1> HIDE DEF f, r, c, P, m
<1>13. \A u \in P : Claimed(Of(c, {u})) <= m /\ Own(u, c) = Claimed(Of(c, {u}))
  <2> TAKE u \in P
  <2>1. u \in Threads /\ stack[u] # <<>> /\ stack[u][1].kind = "worker" /\ stack[u][1].slice = f.child
    BY <1>4, <1>8 DEF Hosts
  <2>2. \A k \in DOMAIN ledger[r] : k[1] = u => SliceStart(u) = 1 BY <1>12 DEF c
  <2>3. Claimed(Of(ledger[r], {u})) <= Cap(stack[u][1].slice) BY <1>6, <2>1, <2>2, ShareOfThread
  <2>4. Own(u, ledger[r]) = Claimed(Of(ledger[r], {u})) BY <1>6, <2>1, <2>2, OwnOfThread
  <2> QED BY <2>1, <2>3, <2>4 DEF c, m
<1>14. w \in P BY DEF P, f
<1>15. IsFiniteSet(rest) /\ Cardinality(rest) = Cardinality(P) - 1 /\ Cardinality(P) \in Nat
  BY <1>8, <1>14, FS_RemoveElement, FS_CardinalityType
<1>16. Cardinality(P) # 0
  <2>1. P # {} BY <1>14
  <2> QED BY <1>8, <2>1, FS_EmptySet
<1>17. Claimed(Of(c, rest)) <= (Cardinality(P) - 1) * m
  <2>1. \A u \in rest : Claimed(Of(c, {u})) <= m BY <1>13
  <2> HIDE DEF rest
  <2>2. Claimed(Of(c, rest)) <= Cardinality(rest) * m BY <1>9, <1>11, <1>15, <2>1, OfShares
  <2> QED BY <1>15, <2>2
<1>18. Claimed(Of(c, P)) = Claimed(Of(c, {w})) + Claimed(Of(c, rest)) BY <1>9, <1>14, OfOne
<1>19. Claimed(Of(c, P)) = Claimed(c)
  <2>1. DOMAIN Of(c, P) = DOMAIN c /\ \A k \in DOMAIN Of(c, P) : Of(c, P)[k] = c[k]
    BY <1>12 DEF Of, Restrict
  <2> QED BY <1>9, <2>1, ClaimedSame
<1>20. Own(w, c) = Claimed(Of(c, {w})) BY <1>13, <1>14
<1>21. m + (Cardinality(P) - 1) * m <= f.workers * Finest(f.child)
  BY <1>4, <1>8, <1>11, <1>15, <1>16, Shares
<1>22. /\ Claimed(Of(c, {w})) \in Nat /\ Claimed(Of(c, rest)) \in Nat
       /\ (Cardinality(P) - 1) * m \in Int /\ f.workers * Finest(f.child) \in Int
  BY <1>4, <1>9, <1>11, <1>15, OfTable
<1>23. m - Own(w, c) <= envelope[r].budget - Claimed(c)
  <2> HIDE DEF rest
  <2> QED BY <1>5, <1>10, <1>11, <1>17, <1>18, <1>19, <1>20, <1>21, <1>22
<1> QED BY <1>23 DEF f, r, c, m

\* A replicate never counts or extends its dispatcher's claims, its own claims stay within
\* the slice it was handed, and while the workers of a job keep to their slices each can
\* claim the rest of its own, whatever the others have claimed (worker_scope,
\* reserve_memory, ResourceAllocation.child).
THEOREM SlicesAreKept == Spec => []KeepsToSlice
<1>1. Typed /\ Shapes /\ ClaimInv /\ CapInv /\ SliceInv /\ RunningInv => KeepsToSlice
  BY OwnSlice, WithinSlice, Guaranteed DEF KeepsToSlice
<1> QED BY <1>1, ShapesInvariant, ClaimInvariant, CapInvariant, SliceInvariant,
           RunningInvariant, PTL
=============================================================================
