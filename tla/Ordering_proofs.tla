---------------------------- MODULE Ordering_proofs ----------------------------
(***************************************************************************)
(* What the proofs of the other modules need of numbers, orders and folds: *)
(* a set of numbers has a least one; a strict total order numbers a finite *)
(* set; Ascending lists one; and a fold, which the community modules define*)
(* by the function that solves its recursion, has such a function.         *)
(***************************************************************************)
EXTENDS Ordering, FiniteSetTheorems, WellFoundedInduction, TLAPS

\* Induction on a number is by the least counterexample.
LEMMA LeastNat ==
  ASSUME NEW S \in SUBSET Nat, S # {}
  PROVE  \E m \in S : \A n \in S : m <= n
<1> DEFINE Less == OpToRel(<, Nat)
<1>1. IsWellFoundedOn(Less, Nat)
  BY NatLessThanWellFounded
<1>2. \A i, j \in Nat : <<i, j>> \in Less <=> i < j
  BY DEF OpToRel
<1> HIDE DEF Less
<1>3. PICK m \in S : \A j \in S : ~(<<j, m>> \in Less)
  BY <1>1, WFMin
<1>4. \A j \in S : ~(j < m)
  BY <1>2, <1>3
<1> QED
  BY <1>4

-----------------------------------------------------------------------------
(* Numbering a finite set along an order.                                     *)

\* The place of an element in a strict total order: how many come before it.
Place(L, R, x) == Cardinality({y \in L : <<y, x>> \in R})

\* R is a strict total order of L.
StrictTotal(L, R) ==
  /\ \A x \in L : <<x, x>> \notin R
  /\ \A x, y, z \in L : <<x, y>> \in R /\ <<y, z>> \in R => <<x, z>> \in R
  /\ \A x, y \in L : x # y => <<x, y>> \in R \/ <<y, x>> \in R

\* The places are one to one onto 0..n-1, and in order.
LEMMA PlaceIsBijection ==
  ASSUME NEW L, IsFiniteSet(L), NEW R, StrictTotal(L, R)
  PROVE  /\ \A x \in L : Place(L, R, x) \in 0..(Cardinality(L) - 1)
         /\ \A x, y \in L : Place(L, R, x) = Place(L, R, y) => x = y
         /\ \A n \in 0..(Cardinality(L) - 1) : \E x \in L : Place(L, R, x) = n
         /\ \A x, y \in L : <<x, y>> \in R => Place(L, R, x) < Place(L, R, y)
<1> DEFINE Lower(x) == {y \in L : <<y, x>> \in R}
           f == [x \in L |-> Place(L, R, x)]
           N == Cardinality(L)
<1>1. IsFiniteSet(L) /\ N \in Nat
  BY FS_CardinalityType
<1>2. \A x \in L : IsFiniteSet(Lower(x)) /\ Cardinality(Lower(x)) \in Nat
  <2> TAKE x \in L
  <2>1. Lower(x) \in SUBSET L
    OBVIOUS
  <2>2. IsFiniteSet(Lower(x))
    BY <2>1, FS_Subset
  <2> QED
    BY <2>2, FS_CardinalityType
<1>3. ASSUME NEW x \in L PROVE Place(L, R, x) \in 0..(N - 1)
  <2>1. Lower(x) \in SUBSET L /\ x \notin Lower(x)
    BY DEF StrictTotal
  <2>2. Cardinality(Lower(x)) <= N /\ (N = Cardinality(Lower(x)) => L = Lower(x))
    BY <1>1, <2>1, FS_Subset
  <2>3. Place(L, R, x) = Cardinality(Lower(x))
    BY DEF Place
  <2>4. L # Lower(x)
    BY <2>1
  <2> HIDE DEF Lower
  <2> QED
    BY <1>1, <1>2, <2>2, <2>3, <2>4
<1>4. ASSUME NEW x \in L, NEW y \in L, <<x, y>> \in R PROVE Place(L, R, x) < Place(L, R, y)
  <2>1. Lower(x) \subseteq Lower(y)
    BY <1>4 DEF StrictTotal
  <2>2. x \in Lower(y) /\ x \notin Lower(x)
    BY <1>4 DEF StrictTotal
  <2> HIDE DEF Lower
  <2>3. Cardinality(Lower(x)) <= Cardinality(Lower(y)) /\ Cardinality(Lower(x)) # Cardinality(Lower(y))
    BY <1>2, <2>1, <2>2, FS_Subset
  <2> QED
    BY <1>2, <2>3 DEF Place, Lower
<1>5. \A x, y \in L : Place(L, R, x) = Place(L, R, y) => x = y
  <2> TAKE x, y \in L
  <2>1. Place(L, R, x) \in Nat /\ Place(L, R, y) \in Nat
    BY <1>2 DEF Place
  <2>2. x # y => <<x, y>> \in R \/ <<y, x>> \in R
    BY DEF StrictTotal
  <2>3. <<x, y>> \in R => Place(L, R, x) < Place(L, R, y)
    BY <1>4
  <2>4. <<y, x>> \in R => Place(L, R, y) < Place(L, R, x)
    BY <1>4
  <2> QED
    BY <2>1, <2>2, <2>3, <2>4
<1>6. f \in Injection(L, 0..(N - 1))
  BY <1>3, <1>5 DEF Injection, IsInjective
<1>7. IsFiniteSet(0..(N - 1)) /\ Cardinality(0..(N - 1)) = N
  BY <1>1, FS_Interval
<1>8. f \in Surjection(L, 0..(N - 1))
  BY <1>6, <1>7, FS_Injection
<1>9. \A n \in 0..(N - 1) : \E x \in L : Place(L, R, x) = n
  BY <1>8 DEF Surjection
<1> QED
  BY <1>3, <1>4, <1>5, <1>9

\* R numbers L from 0.
Numbered(L, R) ==
  /\ \A x \in L : Place(L, R, x) \in 0..(Cardinality(L) - 1)
  /\ \A x, y \in L : Place(L, R, x) = Place(L, R, y) => x = y
  /\ \A n \in 0..(Cardinality(L) - 1) : \E x \in L : Place(L, R, x) = n

\* The places of a strict total order number a finite set from 0, one to one.
LEMMA OrderNumbers ==
  ASSUME NEW L, IsFiniteSet(L), NEW R, StrictTotal(L, R)
  PROVE  Numbered(L, R)
BY PlaceIsBijection DEF Numbered

\* The pairs of numbers of a set in ascending order.
Below(V) == {p \in V \X V : p[1] < p[2]}

\* They are in a strict total order.
LEMMA NumbersInOrder ==
  ASSUME NEW V \in SUBSET Int, IsFiniteSet(V)
  PROVE  /\ StrictTotal(V, Below(V))
         /\ \A x \in V : {y \in V : <<y, x>> \in Below(V)} = {y \in V : y < x}
<1>1. \A x, y \in V : <<x, y>> \in Below(V) <=> x < y
  BY DEF Below
<1>2. \A x \in V : x \in Int
  OBVIOUS
<1>3. StrictTotal(V, Below(V))
  <2>1. \A x, y, z \in V : x < y /\ y < z => x < z
    BY <1>2
  <2>2. \A x, y \in V : x # y => x < y \/ y < x
    BY <1>2
  <2>3. \A x \in V : ~(x < x)
    BY <1>2
  <2> QED
    BY <1>1, <2>1, <2>2, <2>3 DEF StrictTotal
<1> QED
  BY <1>1, <1>3

\* A finite set of numbers in ascending order.
LEMMA AscendingLists ==
  ASSUME NEW S, S \subseteq Int, IsFiniteSet(S)
  PROVE  /\ Cardinality(S) \in Nat /\ DOMAIN Ascending(S) = 1..Cardinality(S)
         /\ \A k \in 1..Cardinality(S) : Ascending(S)[k] \in S
         /\ \A x \in S : /\ Cardinality({y \in S : y < x}) + 1 \in 1..Cardinality(S)
                         /\ Ascending(S)[Cardinality({y \in S : y < x}) + 1] = x
         /\ \A k, l \in 1..Cardinality(S) : Ascending(S)[k] = Ascending(S)[l] => k = l
<1> DEFINE N == Cardinality(S)
           Below0(x) == Cardinality({y \in S : y < x})
           A == [k \in 1..N |-> CHOOSE x \in S : Below0(x) = k - 1]
<1>1. Ascending(S) = A
  BY DEF Ascending, Sorted
<1>2. N \in Nat
  BY FS_CardinalityType
<1>3. /\ StrictTotal(S, Below(S))
      /\ \A x \in S : {y \in S : <<y, x>> \in Below(S)} = {y \in S : y < x}
  BY NumbersInOrder
<1> DEFINE R == Below(S)
<1>4. \A x \in S : Place(S, R, x) = Below0(x)
  BY <1>3 DEF Place
<1>5. /\ \A x \in S : Below0(x) \in 0..(N - 1)
      /\ \A x, y \in S : Below0(x) = Below0(y) => x = y
      /\ \A n \in 0..(N - 1) : \E x \in S : Below0(x) = n
  <2>0. StrictTotal(S, R)
    BY <1>3
  <2> HIDE DEF R, A, Below0
  <2>1. Numbered(S, R)
    BY <2>0, OrderNumbers
  <2> QED
    BY <1>4, <2>1 DEF Numbered
<1> HIDE DEF Below0, N
<1>6. ASSUME NEW k \in 1..N PROVE A[k] \in S /\ Below0(A[k]) = k - 1
  <2>1. k - 1 \in 0..(N - 1)
    BY <1>2
  <2>2. \E x \in S : Below0(x) = k - 1
    BY <1>5, <2>1
  <2> QED
    BY <2>2
<1>7. DOMAIN A = 1..N
  OBVIOUS
<1> HIDE DEF A
<1>8. ASSUME NEW x \in S PROVE Below0(x) + 1 \in 1..N /\ A[Below0(x) + 1] = x
  <2>1. Below0(x) \in 0..(N - 1) /\ Below0(x) + 1 \in 1..N /\ (Below0(x) + 1) - 1 = Below0(x)
    BY <1>2, <1>5
  <2>2. A[Below0(x) + 1] \in S /\ Below0(A[Below0(x) + 1]) = Below0(x)
    BY <1>6, <2>1
  <2> QED
    BY <1>5, <2>1, <2>2
<1>9. \A k, l \in 1..N : A[k] = A[l] => k = l
  <2> SUFFICES ASSUME NEW k \in 1..N, NEW l \in 1..N, A[k] = A[l] PROVE k = l
    OBVIOUS
  <2>1. k - 1 = l - 1
    BY <1>6
  <2> QED
    BY <2>1
<1> QED
  BY <1>1, <1>2, <1>6, <1>7, <1>8, <1>9 DEF Below0, N

-----------------------------------------------------------------------------
(* Folds.                                                                     *)

\* What holds before a fold and is kept by each of its steps holds after it.
LEMMA FoldStays ==
  ASSUME NEW D, IsFiniteSet(D), NEW c, \A s \in SUBSET D : s # {} => c[s] \in s,
         NEW V, NEW k, k[{}] \in V[{}],
         \A s \in SUBSET D : s # {} /\ k[s \ {c[s]}] \in V[s \ {c[s]}] => k[s] \in V[s]
  PROVE  \A s \in SUBSET D : k[s] \in V[s]
<1> DEFINE Missing == {n \in Nat : \E s \in SUBSET D : Cardinality(s) = n /\ k[s] \notin V[s]}
<1>1. \A s \in SUBSET D : IsFiniteSet(s) /\ Cardinality(s) \in Nat
  BY FS_Subset, FS_CardinalityType
<1>2. \A s \in SUBSET D : \A x \in s : Cardinality(s \ {x}) = Cardinality(s) - 1
  BY <1>1, FS_RemoveElement
<1>3. Missing = {}
  <2> SUFFICES ASSUME Missing # {} PROVE FALSE
    OBVIOUS
  <2>1. PICK m \in Missing : \A n \in Missing : m <= n
    BY LeastNat
  <2>2. PICK s \in SUBSET D : Cardinality(s) = m /\ k[s] \notin V[s]
    BY <2>1
  <2>3. s # {} /\ c[s] \in s
    <3>1. s # {}
      BY <2>2, Zenon
    <3> QED
      BY <3>1, Zenon
  <2>4. s \ {c[s]} \in SUBSET D /\ Cardinality(s \ {c[s]}) = m - 1 /\ m - 1 \in Nat
    <3>1. PICK x : x = c[s]
      OBVIOUS
    <3>2. x \in s /\ s \ {x} \in SUBSET D
      BY <2>3, <3>1
    <3>3. Cardinality(s \ {x}) = m - 1 /\ Cardinality(s \ {x}) \in Nat
      BY <1>1, <1>2, <2>2, <3>2
    <3> QED
      BY <3>1, <3>2, <3>3
  <2>5. m - 1 \notin Missing
    BY <2>1, <2>4
  <2>6. k[s \ {c[s]}] \in V[s \ {c[s]}]
    BY <2>4, <2>5
  <2> QED
    BY <2>2, <2>3, <2>6
<1> QED
  BY <1>1, <1>3

\* g is the fold over the parts of D that takes c[s] out of s: F is its step,
\* from the element taken and what the rest was folded to.
Unrolls(g, D, c, b, F) ==
  g = [s \in SUBSET D |-> IF s = {} THEN b ELSE F[<<c[s], g[s \ {c[s]}]>>]]

\* Such a fold exists.
LEMMA FoldExists ==
  ASSUME NEW D, IsFiniteSet(D), NEW c, \A s \in SUBSET D : s # {} => c[s] \in s,
         NEW V, NEW b, b \in V[{}], NEW F,
         \A s \in SUBSET D : s # {} => \A v \in V[s \ {c[s]}] : F[<<c[s], v>>] \in V[s]
  PROVE  \E g : Unrolls(g, D, c, b, F) /\ \A s \in SUBSET D : g[s] \in V[s]
<1> DEFINE Few(n) == {s \in SUBSET D : Cardinality(s) <= n}
           Solves(g, n) == /\ g = [s \in Few(n) |-> g[s]]
                           /\ \A s \in Few(n) : /\ g[s] = IF s = {} THEN b ELSE F[<<c[s], g[s \ {c[s]}]>>]
                                                /\ g[s] \in V[s]
           Missing == {n \in Nat : ~ \E g : Solves(g, n)}
<1>1. \A s \in SUBSET D : IsFiniteSet(s) /\ Cardinality(s) \in Nat /\ Cardinality(s) <= Cardinality(D)
  BY FS_Subset, FS_CardinalityType
<1>2. \A s \in SUBSET D : \A x \in s : Cardinality(s \ {x}) = Cardinality(s) - 1
  BY <1>1, FS_RemoveElement
<1>4. \A s \in SUBSET D : Cardinality(s) = 0 <=> s = {}
  BY <1>1, FS_EmptySet
<1>5. Solves([s \in Few(0) |-> b], 0)
  <2>1. Few(0) = {{}}
    BY <1>1, <1>4
  <2> QED
    BY <2>1
<1>6. ASSUME NEW n \in Nat, NEW g, Solves(g, n) PROVE \E h : Solves(h, n + 1)
  <2> DEFINE h == [s \in Few(n + 1) |-> IF s = {} THEN b ELSE F[<<c[s], g[s \ {c[s]}]>>]]
  <2>1. \A s \in Few(n + 1) : s # {} => s \ {c[s]} \in Few(n)
    BY <1>1, <1>2
  <2>2. Few(n) \subseteq Few(n + 1)
    BY <1>1
  <2>3. \A s \in Few(n) : h[s] = g[s]
    BY <1>6, <2>2
  <2>4. h = [s \in Few(n + 1) |-> h[s]]
    OBVIOUS
  <2>5. ASSUME NEW s \in Few(n + 1)
        PROVE  h[s] = (IF s = {} THEN b ELSE F[<<c[s], h[s \ {c[s]}]>>]) /\ h[s] \in V[s]
    <3>1. h[s] = IF s = {} THEN b ELSE F[<<c[s], g[s \ {c[s]}]>>]
      OBVIOUS
    <3>2. s # {} => s \ {c[s]} \in Few(n) /\ h[s \ {c[s]}] = g[s \ {c[s]}]
      BY <2>1, <2>3
    <3>3. s # {} => g[s \ {c[s]}] \in V[s \ {c[s]}]
      BY <1>6, <3>2
    <3>4. s \in SUBSET D
      OBVIOUS
    <3> HIDE DEF h, Few
    <3> QED
      BY <3>1, <3>2, <3>3, <3>4
  <2> HIDE DEF h, Few
  <2> QED
    BY <2>4, <2>5
<1>7. Missing = {}
  <2> SUFFICES ASSUME Missing # {} PROVE FALSE
    OBVIOUS
  <2>1. PICK m \in Missing : \A n \in Missing : m <= n
    BY LeastNat
  <2> HIDE DEF Solves, Few
  <2>2. m # 0
    BY <1>5
  <2>3. m - 1 \in Nat /\ m - 1 \notin Missing
    BY <2>1, <2>2
  <2>4. PICK g : Solves(g, m - 1)
    BY <2>3
  <2> QED
    BY <1>6, <2>3, <2>4, <2>1
<1>8. PICK h : Solves(h, Cardinality(D))
  <2>1. Cardinality(D) \in Nat
    BY FS_CardinalityType
  <2> HIDE DEF Solves, Few
  <2> QED
    BY <1>7, <2>1
<1>9. Few(Cardinality(D)) = SUBSET D
  BY <1>1
<1>10. h = [s \in SUBSET D |-> h[s]] /\ \A s \in SUBSET D : /\ h[s] = IF s = {} THEN b ELSE F[<<c[s], h[s \ {c[s]}]>>]
                                                /\ h[s] \in V[s]
  BY <1>8, <1>9
<1> QED
  BY <1>10 DEF Unrolls

-----------------------------------------------------------------------------
(* Folds along a sequence.                                                    *)

\* A finite set of positions has a last one.
LEMMA LastOf ==
  ASSUME NEW n \in Nat, NEW S \in SUBSET (1..n), S # {}
  PROVE  Max(S) \in S
<1> DEFINE Left == {n - x : x \in S}
<1>1. Left \in SUBSET Nat /\ Left # {}
  <2>1. \A x \in S : n - x \in Nat
    OBVIOUS
  <2> QED
    BY <2>1
<1>2. PICK m \in Left : \A l \in Left : m <= l
  BY <1>1, LeastNat
<1>3. PICK x \in S : m = n - x
  BY <1>2
<1>4. \A y \in S : x >= y
  <2> TAKE y \in S
  <2>1. n - y \in Left
    OBVIOUS
  <2>2. n - x <= n - y /\ x \in Int /\ y \in Int
    BY <1>2, <1>3, <2>1
  <2> QED
    BY <2>2
<1> QED
  BY <1>4 DEF Max

\* What a fold over the first n positions takes out.
Lasts(n) == [s \in SUBSET (1..n) |-> Max(s)]

\* A fold along a sequence takes the last position out.
LEMMA LastsFacts ==
  ASSUME NEW n \in Nat
  PROVE  /\ IsFiniteSet(1..n)
         /\ \A s \in SUBSET (1..n) : Lasts(n)[s] = Max(s) /\ (s # {} => Max(s) \in s)
<1>1. IsFiniteSet(1..n)
  BY FS_Interval
<1> QED
  BY <1>1, LastOf DEF Lasts

================================================================================
