--------------------------- MODULE ResourceCpus_proofs ---------------------------
(***************************************************************************)
(* Proof that the replicates of a call share its CPUs and never add to     *)
(* them.  Two more invariants rest on those of ResourceScheduler_proofs:   *)
(*   CpuInv          CPUs narrow on the way down a stack, and the slices   *)
(*                   of a job fit together in its dispatcher's             *)
(*   EnrolInv        a scope's job knows the thread that serves it, and    *)
(*                   jobs lie on a stack in the order they began           *)
(* Then the jobs of a call are taken in the order of their numbers: with   *)
(* each one the CPUs of one thread are divided among those that serve it,  *)
(* so that the sum over the threads at work does not grow.                 *)
(***************************************************************************)
EXTENDS ResourceScheduler_proofs

-----------------------------------------------------------------------------
(* CPUs only narrow on the way down as well, and the slices of a job fit together *)
(* in the CPUs of the scope that dispatched it.                                    *)

\* The workers among the first n scopes of s were handed at least x CPUs.
CpusHeld(s, n, x) == \A a \in 1..n : s[a].kind = "worker" => x <= s[a].slice.cpu

CpusWithin(al, env) == /\ al.root \in 0..Len(env)
                       /\ al.root > 0 => al.cpu \in 1..env[al.root].cpu

\* What the scope at n gives back, or hands out.
CpusFit(s, n, env) ==
  /\ s[n].kind \in {"call", "worker", "replicates"} =>
       CpusHeld(s, n - 1, s[n].prev.cpu) /\ CpusWithin(s[n].prev, env)
  /\ s[n].kind = "replicates" =>
       /\ CpusHeld(s, n - 1, s[n].child.cpu) /\ CpusWithin(s[n].child, env)
       /\ s[n].workers * s[n].child.cpu <= s[n].prev.cpu
  /\ s[n].kind = "worker" /\ n > 1 => IsJob(s[n - 1]) /\ s[n].job = s[n - 1].job

CpusCovered(s, al, env) ==
  /\ CpusWithin(al, env) /\ CpusHeld(s, Len(s), al.cpu)
  /\ \A n \in 1..Len(s) : /\ CpusFit(s, n, env)
                          /\ s[n].kind = "worker" => s[n].slice.root = al.root
CpuInv == \A t \in Threads : CpusCovered(stack[t], current[t], envelope)

LEMMA CpusHeldSame ==
  ASSUME NEW s, NEW z, NEW n \in Nat, \A i \in 1..n : Alike(s[i], z[i])
  PROVE  \A m \in 0..n : \A x : CpusHeld(z, m, x) <=> CpusHeld(s, m, x)
<1>1. \A i \in 1..n : z[i].kind = s[i].kind /\ (s[i].kind = "worker" => z[i].slice = s[i].slice)
  BY DEF Alike
<1>2. \A m \in 0..n : \A i \in 1..m : i \in 1..n OBVIOUS
<1> QED BY <1>1, <1>2 DEF CpusHeld

\* Whoever holds y CPUs holds fewer.
LEMMA CpusHeldLess ==
  ASSUME NEW s \in Seq(Frames), NEW n \in 0..Len(s), NEW x \in Int, NEW y \in Int, x <= y,
         CpusHeld(s, n, y)
  PROVE  CpusHeld(s, n, x)
<1>1. ASSUME NEW a \in 1..n, s[a].kind = "worker" PROVE s[a].slice.cpu \in Int
  <2>1. a \in 1..Len(s) OBVIOUS
  <2>2. s[a] \in Frames BY <2>1, ElementOfSeq
  <2>3. s[a] \in WorkerFrames BY <1>1, <2>2, FrameOfKind
  <2>4. s[a].slice \in Allocs BY <2>3 DEF WorkerFrames
  <2> QED BY <2>4, Constants DEF Allocs
<1> QED BY <1>1 DEF CpusHeld

LEMMA CpusWithinGrows ==
  ASSUME NEW env, NEW after, Len(env) \in Nat, Len(after) \in Nat, Grows(env, after),
         NEW al, CpusWithin(al, env)
  PROVE  CpusWithin(al, after)
BY DEF CpusWithin, Grows

LEMMA CpusFitSame ==
  ASSUME NEW s \in Seq(Frames), NEW z, NEW n \in Nat, n <= Len(s), \A i \in 1..n : Alike(s[i], z[i]),
         NEW env, NEW after, Len(env) \in Nat, Len(after) \in Nat, Grows(env, after),
         \A i \in 1..n : CpusFit(s, i, env)
  PROVE  \A i \in 1..n : CpusFit(z, i, after)
<1> TAKE i \in 1..n
<1>1. Alike(s[i], z[i]) /\ i - 1 \in 0..n /\ CpusFit(s, i, env) OBVIOUS
<1>2. /\ z[i].kind = s[i].kind
      /\ s[i].kind \in {"call", "worker", "replicates"} => z[i].prev = s[i].prev
      /\ s[i].kind = "replicates" => z[i].child = s[i].child /\ z[i].workers = s[i].workers
      /\ s[i].kind = "worker" => z[i].job = s[i].job
  <2>1. i \in 1..Len(s) OBVIOUS
  <2>2. s[i] \in Frames BY <2>1, ElementOfSeq
  <2>3. s[i].kind \in {"call", "reserve", "worker", "replicates"} BY <2>2, FrameOfKind
  <2> QED BY <1>1, <2>3 DEF Alike
<1>3. \A x : CpusHeld(z, i - 1, x) <=> CpusHeld(s, i - 1, x) BY <1>1, CpusHeldSame
<1>4. \A al : CpusWithin(al, env) => CpusWithin(al, after) BY CpusWithinGrows
<1>5. s[i].kind = "worker" /\ i > 1 => IsJob(z[i - 1]) /\ z[i].job = z[i - 1].job
  <2> SUFFICES ASSUME s[i].kind = "worker", i > 1 PROVE IsJob(z[i - 1]) /\ z[i].job = z[i - 1].job OBVIOUS
  <2>1. IsJob(s[i - 1]) /\ s[i].job = s[i - 1].job BY <1>1 DEF CpusFit
  <2>2. i - 1 \in 1..n OBVIOUS
  <2>3. Alike(s[i - 1], z[i - 1]) BY <2>2
  <2>4. IsJob(s[i - 1]) => IsJob(z[i - 1]) /\ z[i - 1].job = s[i - 1].job BY <2>3 DEF Alike, IsJob
  <2> QED BY <1>2, <2>1, <2>4
<1> QED BY <1>1, <1>2, <1>3, <1>4, <1>5 DEF CpusFit

LEMMA CpusKept ==
  ASSUME NEW s \in Seq(Frames), NEW z \in Seq(Frames), NEW al, NEW env, NEW after,
         Len(env) \in Nat, Len(after) \in Nat, Grows(env, after), CpusCovered(s, al, env), Kept(s, z)
  PROVE  CpusCovered(z, al, after)
<1> DEFINE n == Len(s)
<1>1. n \in Nat /\ Len(z) = n /\ \A i \in 1..n : Alike(s[i], z[i]) BY DEF Kept
<1>2. /\ CpusWithin(al, env) /\ CpusHeld(s, n, al.cpu)
      /\ \A i \in 1..n : CpusFit(s, i, env) /\ (s[i].kind = "worker" => s[i].slice.root = al.root)
  BY DEF CpusCovered
<1>3. CpusWithin(al, after) BY <1>2, CpusWithinGrows
<1>4. n \in 0..n /\ n <= Len(s) BY <1>1
<1>5. CpusHeld(z, n, al.cpu) BY <1>1, <1>2, <1>4, CpusHeldSame
<1>6. \A i \in 1..n : CpusFit(z, i, after) BY <1>1, <1>2, <1>4, CpusFitSame
<1>7. \A i \in 1..n : z[i].kind = "worker" => z[i].slice.root = al.root BY <1>1, <1>2 DEF Alike
<1> QED BY <1>1, <1>3, <1>5, <1>6, <1>7 DEF CpusCovered

LEMMA CpusPush ==
  ASSUME NEW s \in Seq(Frames), NEW z \in Seq(Frames), NEW al \in Allocs, NEW be \in Allocs,
         NEW env, Len(env) \in Nat,
         CpusCovered(s, al, env), NEW f \in Frames, Pushed(s, z, f), CpusWithin(be, env),
         s # <<>> => be.root = al.root,
         f.kind \in {"call", "worker", "replicates"} => f.prev = al,
         f.kind = "replicates" => /\ CpusWithin(f.child, env) /\ f.child.cpu <= al.cpu
                                  /\ f.workers * f.child.cpu <= al.cpu,
         IF f.kind = "worker"
         THEN f.slice = be /\ (s # <<>> => /\ IsJob(s[Len(s)]) /\ f.job = s[Len(s)].job
                                           /\ be = s[Len(s)].child)
         ELSE be.cpu <= al.cpu
  PROVE  CpusCovered(z, be, env)
<1> DEFINE n == Len(s)
<1>1. n \in Nat /\ Len(z) = n + 1 /\ z[n + 1] = f /\ \A i \in 1..n : Alike(s[i], z[i]) BY DEF Pushed
<1>2. /\ CpusWithin(al, env) /\ CpusHeld(s, n, al.cpu)
      /\ \A i \in 1..n : CpusFit(s, i, env) /\ (s[i].kind = "worker" => s[i].slice.root = al.root)
  BY DEF CpusCovered
<1>3. Grows(env, env) BY DEF Grows
<1>4. n \in 0..n /\ n <= Len(s) /\ n \in 0..Len(s) /\ (s # <<>> <=> n # 0) BY <1>1
<1>5. al.cpu \in Int /\ be.cpu \in Int BY Constants DEF Allocs
<1>6. \A x : CpusHeld(z, n, x) <=> CpusHeld(s, n, x) BY <1>1, <1>4, CpusHeldSame
<1>7. \A i \in 1..n : CpusFit(z, i, env) BY <1>1, <1>2, <1>3, <1>4, CpusFitSame
<1>8. \A a \in 1..(n + 1) : a \in 1..n \/ a = n + 1 BY <1>1
<1>9. CpusFit(z, n + 1, env)
  <2>1. f.kind \in {"call", "worker", "replicates"} => CpusHeld(z, n, f.prev.cpu) /\ CpusWithin(f.prev, env)
    BY <1>2, <1>6
  <2>2. f.kind = "replicates" =>
          /\ CpusHeld(z, n, f.child.cpu) /\ CpusWithin(f.child, env)
          /\ f.workers * f.child.cpu <= f.prev.cpu
    <3> SUFFICES ASSUME f.kind = "replicates" PROVE CpusHeld(s, n, f.child.cpu) BY <1>6
    <3>1. f.child.cpu \in Int
      <4>1. f \in JobFrames BY FrameOfKind
      <4> QED BY <4>1, Constants DEF JobFrames, Allocs
    <3> QED BY <1>2, <1>4, <1>5, <3>1, CpusHeldLess
  <2>3. f.kind = "worker" /\ n + 1 > 1 => IsJob(z[n]) /\ f.job = z[n].job
    <3> SUFFICES ASSUME f.kind = "worker", n # 0 PROVE IsJob(z[n]) /\ f.job = z[n].job BY <1>1
    <3>1. IsJob(s[n]) /\ f.job = s[n].job BY <1>4
    <3>2. n \in 1..n BY <1>1
    <3>3. Alike(s[n], z[n]) BY <1>1, <3>2
    <3> QED BY <3>1, <3>3 DEF Alike, IsJob
  <2>4. (n + 1) - 1 = n BY <1>1
  <2> HIDE DEF n
  <2> QED BY <1>1, <2>1, <2>2, <2>3, <2>4 DEF CpusFit
<1>10. CpusHeld(z, n + 1, be.cpu)
  <2>1. CpusHeld(s, n, be.cpu)
    <3>1. CASE f.kind # "worker" BY <1>2, <1>4, <1>5, <3>1, CpusHeldLess
    <3>2. CASE f.kind = "worker" /\ n # 0
      <4>1. s # <<>> /\ n \in 1..n BY <1>1, <3>2
      <4>2. s[n].kind = "replicates" /\ be = s[n].child BY <3>2, <4>1 DEF IsJob
      <4>3. CpusHeld(s, n - 1, be.cpu) BY <1>2, <4>1, <4>2 DEF CpusFit
      <4>4. \A a \in 1..n : a \in 1..(n - 1) \/ a = n BY <1>1
      <4> QED BY <4>2, <4>3, <4>4 DEF CpusHeld
    <3>3. CASE n = 0 BY <3>3 DEF CpusHeld
    <3> QED BY <3>1, <3>2, <3>3
  <2>2. CpusHeld(z, n, be.cpu) BY <1>6, <2>1
  <2>3. f.kind = "worker" => be.cpu <= f.slice.cpu BY <1>5
  <2> QED BY <1>1, <1>8, <2>2, <2>3 DEF CpusHeld
<1>11. \A i \in 1..(n + 1) : z[i].kind = "worker" => z[i].slice.root = be.root
  <2>1. \A i \in 1..n : s # <<>> /\ be.root = al.root BY <1>1, <1>4
  <2>2. \A i \in 1..n : z[i].kind = "worker" => z[i].slice.root = be.root BY <1>1, <1>2, <2>1 DEF Alike
  <2> QED BY <1>1, <1>8, <2>2
<1>12. \A i \in 1..(n + 1) : CpusFit(z, i, env) BY <1>7, <1>8, <1>9
<1> QED BY <1>1, <1>10, <1>11, <1>12 DEF CpusCovered

LEMMA CpusPop ==
  ASSUME NEW s \in Seq(Frames), NEW z \in Seq(Frames), NEW al \in Allocs, NEW env,
         Len(env) \in Nat, CpusCovered(s, al, env), NEW f, f = s[Len(s)], Popped(s, z), NEW be,
         be = IF f.kind = "reserve" THEN al ELSE f.prev,
         z # <<>> => be.root = al.root
  PROVE  CpusCovered(z, be, env)
<1> DEFINE n == Len(z)
<1>1. n \in Nat /\ Len(s) = n + 1 /\ s[n + 1] = f /\ \A i \in 1..n : Alike(s[i], z[i]) BY DEF Popped
<1>2. /\ CpusWithin(al, env) /\ CpusHeld(s, n + 1, al.cpu)
      /\ \A i \in 1..(n + 1) : CpusFit(s, i, env) /\ (s[i].kind = "worker" => s[i].slice.root = al.root)
  BY <1>1 DEF CpusCovered
<1>3. Grows(env, env) BY DEF Grows
<1>4. n \in 0..n /\ n <= Len(s) /\ n + 1 \in 1..(n + 1) /\ (n + 1) - 1 = n
      /\ \A i \in 1..n : i \in 1..(n + 1)
  BY <1>1
<1>5. \A x : CpusHeld(z, n, x) <=> CpusHeld(s, n, x) BY <1>1, <1>4, CpusHeldSame
<1>6. \A i \in 1..n : CpusFit(z, i, env) BY <1>1, <1>2, <1>3, <1>4, CpusFitSame
<1>7. f.kind \in {"call", "reserve", "worker", "replicates"}
  <2>1. n + 1 \in 1..Len(s) BY <1>1, <1>4
  <2>2. f \in Frames BY <1>1, <2>1, ElementOfSeq
  <2> QED BY <2>2, FrameOfKind
<1>8. CpusWithin(be, env) /\ CpusHeld(z, n, be.cpu)
  <2>1. CASE f.kind = "reserve"
    <3>1. CpusHeld(s, n, al.cpu) BY <1>2, <1>4 DEF CpusHeld
    <3> QED BY <1>2, <1>5, <2>1, <3>1
  <2>2. CASE f.kind # "reserve"
    <3>1. CpusFit(s, n + 1, env) BY <1>2, <1>4
    <3>2. CpusHeld(s, n, f.prev.cpu) /\ CpusWithin(f.prev, env)
      BY <1>1, <1>4, <1>7, <2>2, <3>1 DEF CpusFit
    <3> QED BY <1>5, <2>2, <3>2
  <2> QED BY <2>1, <2>2
<1>9. \A i \in 1..n : z[i].kind = "worker" => z[i].slice.root = be.root
  <2>1. \A i \in 1..n : z # <<>> BY <1>1
  <2> QED BY <1>1, <1>2, <1>4, <2>1 DEF Alike
<1> QED BY <1>6, <1>8, <1>9 DEF CpusCovered

LEMMA AppendedLast ==
  ASSUME NEW S, NEW s \in Seq(S), NEW e
  PROVE  Append(s, e)[Len(s) + 1] = e
<1> DEFINE T == S \cup {e}
<1>1. s \in Seq(T) /\ e \in T OBVIOUS
<1> HIDE DEF T
<1> QED BY <1>1

LEMMA RootCpus ==
  ASSUME NEW p \in Policies
  PROVE  RootCpu(p) \in 1..Cpu
<1>1. p.threads \in 0..Cpu BY DEF Policies
<1> QED BY <1>1, Constants DEF RootCpu, Least

\* What each action makes of the CPUs of the thread that takes it.
LEMMA EnterRootCpus ==
  ASSUME Typed, NEW t \in Threads, EnterRoot(t)
  PROVE  current'[t].cpu \in 1..envelope'[Len(envelope) + 1].cpu
<1> DEFINE Admits(p, b, r) ==
         /\ envelope' = Append(envelope, [budget |-> b, cpu |-> RootCpu(p)])
         /\ current' = [current EXCEPT ![t] = [root |-> r, caps |-> <<b>>, cpu |-> RootCpu(p)]]
<1>0. \E p \in Policies : \E b, r : Admits(p, b, r)
  <2>1. PICK onOwner \in (IF t \in OwnerUsers THEN BOOLEAN ELSE {FALSE}),
             h \in Floor..Budget, relaxed \in BOOLEAN :
       LET p == IF onOwner THEN policy ELSE AutoPolicy
           b == RootBudget(p, h, relaxed)
           r == Len(envelope) + 1
           al == [root |-> r, caps |-> <<b>>, cpu |-> RootCpu(p)]
       IN /\ b >= Floor
          /\ envelope' = Append(envelope, [budget |-> b, cpu |-> al.cpu])
          /\ current' = [current EXCEPT ![t] = al]
          /\ policy' = IF onOwner THEN Resolved(al) ELSE policy
          /\ blas' = al.cpu
          /\ Push(t, [kind |-> "call", prev |-> NoAlloc, onOwner |-> onOwner, saved |-> policy,
                      blas |-> blas])
    BY Zenon DEF EnterRoot
  <2> DEFINE q == IF onOwner THEN policy ELSE AutoPolicy
  <2>2. q \in Policies BY Constants DEF Typed
  <2>3. Admits(q, RootBudget(q, h, relaxed), Len(envelope) + 1) BY <2>1
  <2> HIDE DEF q, Admits
  <2> QED BY <2>2, <2>3
<1>p. PICK p \in Policies : \E b, r : Admits(p, b, r) BY <1>0
<1>b. PICK b : \E r : Admits(p, b, r) BY <1>p
<1>r. PICK r : Admits(p, b, r) BY <1>b
<1>1. /\ envelope' = Append(envelope, [budget |-> b, cpu |-> RootCpu(p)])
      /\ current' = [current EXCEPT ![t] = [root |-> r, caps |-> <<b>>, cpu |-> RootCpu(p)]]
  BY <1>r
<1>2. RootCpu(p) \in 1..Cpu BY RootCpus
<1>3. current'[t].cpu = RootCpu(p) BY <1>1 DEF Typed
<1>4. envelope'[Len(envelope) + 1].cpu = RootCpu(p)
  <2> DEFINE e == [budget |-> b, cpu |-> RootCpu(p)]
  <2>1. envelope \in Seq([budget : Amounts, cpu : 1..Cpu]) /\ envelope' = Append(envelope, e)
    BY <1>1 DEF Typed
  <2>2. e.cpu = RootCpu(p) OBVIOUS
  <2> HIDE DEF e
  <2>3. Append(envelope, e)[Len(envelope) + 1] = e BY <2>1, AppendedLast
  <2> QED BY <2>1, <2>2, <2>3
<1> QED BY <1>2, <1>3, <1>4, Constants

LEMMA NestedCpus ==
  ASSUME NEW al \in Allocs, NEW p \in Policies, al.cpu >= 1
  PROVE  Nested(al, p).cpu \in 1..al.cpu
<1> DEFINE x == IF p.memory = 0 THEN al.caps[Len(al.caps)] ELSE Least(p.memory, al.caps[Len(al.caps)])
           c == Least(al.cpu, RootCpu(p))
<1>1. Nested(al, p) = [al EXCEPT !.caps = Append(@, x), !.cpu = c] BY DEF Nested
<1> HIDE DEF x
<1>2. Nested(al, p).cpu = c
  <2> HIDE DEF c
  <2> QED BY <1>1 DEF Allocs
<1>3. RootCpu(p) \in 1..Cpu /\ al.cpu \in 0..Cpu BY RootCpus DEF Allocs
<1> QED BY <1>2, <1>3, Constants DEF Least

LEMMA EnterNestedCpus ==
  ASSUME Typed, NEW t \in Threads, EnterNested(t), current[t].cpu >= 1
  PROVE  current'[t].cpu \in 1..current[t].cpu
<1>1. PICK onOwner : current' = [current EXCEPT ![t] =
                        Nested(current[t], IF onOwner THEN policy ELSE AutoPolicy)]
  BY DEF EnterNested
<1> DEFINE p == IF onOwner THEN policy ELSE AutoPolicy
<1>2. p \in Policies BY Constants DEF Typed
<1>3. current[t] \in Allocs /\ current'[t] = Nested(current[t], p) BY <1>1 DEF Typed
<1> HIDE DEF p
<1> QED BY <1>2, <1>3, NestedCpus

\* A job has no more workers than CPUs, so its slices fit together.
LEMMA ChildCpus ==
  ASSUME NEW al \in Allocs, NEW k \in Nat, k \in 1..al.cpu
  PROVE  Child(al, k).cpu \in 1..al.cpu /\ k * Child(al, k).cpu <= al.cpu
<1> DEFINE x == al.caps[Len(al.caps)] \div k
           c == Most(1, al.cpu \div k)
<1>1. Child(al, k) = [al EXCEPT !.caps = Append(@, x), !.cpu = c] BY DEF Child, Allocs
<1> HIDE DEF x
<1>2. Child(al, k).cpu = c
  <2> HIDE DEF c
  <2> QED BY <1>1 DEF Allocs
<1>3. al.cpu \in Nat /\ k \in Nat \ {0} /\ k <= al.cpu BY Constants DEF Allocs
<1> DEFINE n == al.cpu
           q == n \div k
<1>4. q \in Nat /\ k * q <= n /\ q <= n BY <1>3, Division
<1>5. q >= 1 BY <1>3
<1>6. c = q BY <1>4, <1>5 DEF Most
<1> QED BY <1>2, <1>3, <1>4, <1>5, <1>6

LEMMA WorkersCpus ==
  ASSUME NEW al \in Allocs, NEW v \in Int, NEW m \in Nat \ {0}, NEW seeds \in Nat \ {0}, al.cpu >= 1
  PROVE  Workers(al, v, m, seeds) \in 1..al.cpu
<1> DEFINE q == v \div m
<1>1. q \in Int OBVIOUS
<1>2. al.cpu \in Nat BY Constants DEF Allocs
<1>3. Workers(al, v, m, seeds) = Most(1, Least(seeds, Least(al.cpu, Most(1, q)))) BY DEF Workers
<1> HIDE DEF q
<1> QED BY <1>1, <1>2, <1>3 DEF Most, Least

LEMMA DispatchCpus ==
  ASSUME Typed, Shapes, NEW t \in Threads, Dispatch(t), current[t].cpu >= 1,
         NEW f, Pushes(t, f)
  PROVE  /\ current'[t].cpu \in 1..current[t].cpu
         /\ f.child.cpu \in 1..current[t].cpu /\ f.workers * f.child.cpu <= current[t].cpu
<1> DEFINE al == Nested(current[t], AutoPolicy)
<1>1. PICK seeds \in 1..MaxSeeds, e \in Estimates, used \in RssGrowth, live \in LiveHeadroom :
       LET remaining == Available(t, al, TRUE, used, live)
           k == Workers(al, remaining, Most(Floor, e), seeds)
           child == Child(al, k)
       IN /\ current' = [current EXCEPT ![t] = al]
          /\ Push(t, [kind |-> "replicates", prev |-> current[t], job |-> jobs + 1,
                      child |-> child, workers |-> k, estimate |-> e, pending |-> seeds,
                      running |-> {}, failed |-> FALSE,
                      blas |-> IF InReplicates(t) THEN 0 ELSE blas])
  BY DEF Dispatch
<1> DEFINE remaining == Available(t, al, TRUE, used, live)
           k == Workers(al, remaining, Most(Floor, e), seeds)
           child == Child(al, k)
           limit == IF InReplicates(t) THEN 0 ELSE blas
           g == [kind |-> "replicates", prev |-> current[t], job |-> jobs + 1,
                 child |-> child, workers |-> k, estimate |-> e, pending |-> seeds,
                 running |-> {}, failed |-> FALSE, blas |-> limit]
<1>2. current' = [current EXCEPT ![t] = al] /\ stack' = [stack EXCEPT ![t] = Append(@, g)]
  BY <1>1 DEF Push
<1>3. stack[t] # <<>> BY WorkingTop DEF Dispatch
<1>4. current[t] \in Allocs /\ AutoPolicy \in Policies BY Constants DEF Typed
<1>5. Narrowed(al, current[t]) BY <1>4, NestedAlloc DEF Narrowed
<1>6. al \in Allocs /\ al.root = current[t].root BY <1>5 DEF Narrowed
<1>7. al.cpu \in 1..current[t].cpu BY <1>4, NestedCpus
<1>8. current[t].cpu \in Nat BY <1>4, Constants DEF Allocs
<1> HIDE DEF al
<1>9. remaining \in Int BY <1>3, <1>6, Admission
<1> HIDE DEF remaining
<1>10. seeds \in Nat \ {0} /\ Most(Floor, e) \in Nat \ {0} BY Constants DEF Most
<1>11. k \in 1..al.cpu /\ k \in Nat
  <2> DEFINE m == Most(Floor, e)
  <2>1. al.cpu >= 1 BY <1>7, <1>8
  <2>2. m \in Nat \ {0} BY <1>10
  <2> HIDE DEF m
  <2>3. Workers(al, remaining, m, seeds) \in 1..al.cpu BY <1>6, <1>9, <1>10, <2>1, <2>2, WorkersCpus
  <2>4. k \in 1..al.cpu BY <2>3 DEF m
  <2> HIDE DEF k
  <2> QED BY <2>4
<1> HIDE DEF k
<1>12. child.cpu \in 1..al.cpu /\ k * child.cpu <= al.cpu BY <1>6, <1>11, ChildCpus
<1>13. g.child = child /\ g.workers = k OBVIOUS
<1> HIDE DEF child, g
<1>14. stack'[t] = Append(stack[t], g) /\ current'[t] = al BY <1>2 DEF Typed
<1>15. f = g
  <2>1. stack[t] \in Seq(Frames) BY DEF Typed
  <2>2. Append(stack[t], g)[Len(stack[t]) + 1] = g BY <2>1, AppendedLast
  <2> QED BY <1>14, <2>2 DEF Pushes, Pushed
<1>16. child.cpu \in Int /\ al.cpu \in Int /\ k * child.cpu \in Int BY <1>8, <1>7, <1>11, <1>12
<1> QED BY <1>7, <1>8, <1>12, <1>13, <1>14, <1>15, <1>16

LEMMA CpuInit == Init => CpuInv
<1> SUFFICES ASSUME Init, NEW t \in Threads PROVE CpusCovered(stack[t], current[t], envelope) BY DEF CpuInv
<1>1. stack[t] = <<>> /\ current[t] = NoAlloc /\ envelope = <<>> BY DEF Init
<1>2. Len(stack[t]) = 0 /\ Len(envelope) = 0 BY <1>1
<1>3. NoAlloc.root = 0 BY DEF NoAlloc
<1> QED BY <1>1, <1>2, <1>3 DEF CpusCovered, CpusWithin, CpusHeld

\* The other threads.
LEMMA CpuOthers ==
  ASSUME Typed, Typed', CpuInv, NEW t \in Threads, Stays(t), Grows(envelope, envelope')
  PROVE  \A u \in Threads \ {t} : CpusCovered(stack'[u], current'[u], envelope')
<1> TAKE u \in Threads \ {t}
<1>1. stack[u] \in Seq(Frames) /\ stack'[u] \in Seq(Frames)
      /\ Len(envelope) \in Nat /\ Len(envelope') \in Nat
  BY DEF Typed
<1>2. Kept(stack[u], stack'[u]) /\ current'[u] = current[u] BY DEF Stays
<1>3. CpusCovered(stack[u], current[u], envelope) BY DEF CpuInv
<1> QED BY <1>1, <1>2, <1>3, CpusKept

LEMMA CpuSame ==
  ASSUME Typed, Typed', CpuInv, NEW t \in Threads, Stays(t), envelope' = envelope,
         CpusCovered(stack'[t], current'[t], envelope)
  PROVE  CpuInv'
<1>1. Grows(envelope, envelope') BY DEF Grows, Typed
<1>2. \A u \in Threads \ {t} : CpusCovered(stack'[u], current'[u], envelope') BY <1>1, CpuOthers
<1> QED BY <1>2 DEF CpuInv

LEMMA CpuEntersRoot ==
  ASSUME Typed, Shapes, CpuInv, NEW t \in Threads, EnterRoot(t)
  PROVE  CpuInv'
<1> DEFINE m == Len(envelope) + 1
           be == current'[t]
           z == stack'[t]
<1>1. Typed' /\ stack[t] = <<>> /\ Len(envelope') = m /\ be.root = m
      /\ \A r \in 1..Len(envelope) : envelope'[r] = envelope[r]
  BY EnterRootMoves
<1>2. PICK f \in CallFrames : Pushes(t, f) /\ f.prev = NoAlloc BY EnterRootMoves
<1>3. f.kind = "call" BY DEF CallFrames
<1>4. Len(envelope) \in Nat BY DEF Typed
<1>5. Grows(envelope, envelope') BY <1>1, <1>4 DEF Grows
<1>6. \A u \in Threads \ {t} : CpusCovered(stack'[u], current'[u], envelope')
  BY <1>1, <1>2, <1>5, CpuOthers DEF Pushes
<1>7. Len(stack[t]) = 0 BY <1>1
<1>8. Len(z) = 1 /\ z[1] = f BY <1>2, <1>7 DEF Pushes, Pushed
<1>9. be.cpu \in 1..envelope'[m].cpu BY EnterRootCpus
<1>10. CpusWithin(be, envelope')
  <2> HIDE DEF be
  <2>1. m \in 0..m BY <1>4
  <2> QED BY <1>1, <1>9, <2>1 DEF CpusWithin
<1>11. NoAlloc.root = 0 BY DEF NoAlloc
<1>12. CpusWithin(NoAlloc, envelope')
  <2>1. 0 \in 0..m BY <1>4
  <2> QED BY <1>1, <1>11, <2>1 DEF CpusWithin
<1> HIDE DEF be, z
<1>13. CpusHeld(z, 1, be.cpu) /\ CpusFit(z, 1, envelope')
  BY <1>2, <1>3, <1>8, <1>12 DEF CpusHeld, CpusFit
<1>14. CpusCovered(z, be, envelope') BY <1>3, <1>8, <1>10, <1>13 DEF CpusCovered
<1> QED BY <1>6, <1>14 DEF CpuInv, be, z

\* The CPUs of a thread with a scope open.
LEMMA ScopeCpus ==
  ASSUME Typed, Shapes, CpuInv, NEW t \in Threads, stack[t] # <<>>
  PROVE  /\ current[t] \in Allocs /\ Len(envelope) \in Nat
         /\ current[t].cpu \in Nat /\ current[t].cpu >= 1
         /\ current[t].root \in 1..Len(envelope)
         /\ envelope[current[t].root].cpu \in Int
         /\ current[t].cpu <= envelope[current[t].root].cpu
<1>1. current[t] \in Allocs /\ current[t].root \in 1..Len(envelope) /\ Len(envelope) \in Nat
  BY ScopeAlloc
<1>2. CpusWithin(current[t], envelope) BY DEF CpuInv, CpusCovered
<1>3. current[t].root > 0 BY <1>1
<1>4. current[t].cpu \in 1..envelope[current[t].root].cpu BY <1>2, <1>3 DEF CpusWithin
<1>5. current[t].cpu \in Nat BY <1>1, Constants DEF Allocs
<1>6. envelope[current[t].root].cpu \in Int
  <2>1. envelope \in Seq([budget : Amounts, cpu : 1..Cpu]) BY DEF Typed
  <2>2. envelope[current[t].root] \in [budget : Amounts, cpu : 1..Cpu] BY <1>1, <2>1, ElementOfSeq
  <2> QED BY <2>2, Constants
<1> QED BY <1>1, <1>4, <1>5, <1>6

\* An allocation with no more CPUs.
LEMMA CpusNarrowed ==
  ASSUME NEW al, NEW be, NEW env, CpusWithin(al, env), be.root = al.root,
         al.root > 0 => env[al.root].cpu \in Int, al.cpu \in Int, be.cpu \in 1..al.cpu
  PROVE  CpusWithin(be, env)
BY DEF CpusWithin

LEMMA CpuEntersNested ==
  ASSUME Typed, Shapes, CpuInv, NEW t \in Threads, EnterNested(t)
  PROVE  CpuInv'
<1>1. Typed' /\ Working(t) /\ envelope' = envelope /\ Narrowed(current'[t], current[t]) BY EnterNestedMoves
<1>2. PICK f \in CallFrames : Pushes(t, f) /\ f.prev = current[t] BY EnterNestedMoves
<1>3. f.kind = "call" /\ f \in Frames BY DEF CallFrames, Frames
<1>4. stack[t] # <<>> BY <1>1, WorkingScope
<1>5. /\ current[t] \in Allocs /\ Len(envelope) \in Nat /\ current[t].cpu \in Nat /\ current[t].cpu >= 1
      /\ envelope[current[t].root].cpu \in Int
  BY <1>4, ScopeCpus
<1>6. current'[t] \in Allocs /\ current'[t].root = current[t].root BY <1>1 DEF Narrowed
<1>7. CpusCovered(stack[t], current[t], envelope) BY DEF CpuInv
<1>8. CpusWithin(current[t], envelope) BY <1>7 DEF CpusCovered
<1>9. current'[t].cpu \in 1..current[t].cpu BY <1>5, EnterNestedCpus
<1>10. CpusWithin(current'[t], envelope) BY <1>5, <1>6, <1>8, <1>9, CpusNarrowed
<1>11. stack[t] \in Seq(Frames) /\ stack'[t] \in Seq(Frames) BY <1>1 DEF Typed
<1>12. Pushed(stack[t], stack'[t], f) /\ Stays(t) BY <1>2 DEF Pushes
<1>13. current'[t].cpu <= current[t].cpu BY <1>5, <1>9
<1>14. CpusCovered(stack'[t], current'[t], envelope)
  BY <1>2, <1>3, <1>5, <1>6, <1>7, <1>10, <1>11, <1>12, <1>13, CpusPush
<1> QED BY <1>1, <1>12, <1>14, CpuSame

LEMMA CpuDispatches ==
  ASSUME Typed, Shapes, CpuInv, NEW t \in Threads, Dispatch(t)
  PROVE  CpuInv'
<1>1. Typed' /\ Working(t) /\ envelope' = envelope /\ Narrowed(current'[t], current[t]) BY DispatchMoves
<1>2. PICK f \in JobFrames : Pushes(t, f) /\ f.prev = current[t] /\ f.child.root = current[t].root
  BY DispatchMoves
<1>3. f.kind = "replicates" /\ f \in Frames BY DEF JobFrames, Frames
<1>4. stack[t] # <<>> BY <1>1, WorkingScope
<1>5. /\ current[t] \in Allocs /\ Len(envelope) \in Nat /\ current[t].cpu \in Nat /\ current[t].cpu >= 1
      /\ envelope[current[t].root].cpu \in Int
  BY <1>4, ScopeCpus
<1>6. current'[t] \in Allocs /\ current'[t].root = current[t].root BY <1>1 DEF Narrowed
<1>7. CpusCovered(stack[t], current[t], envelope) BY DEF CpuInv
<1>8. CpusWithin(current[t], envelope) BY <1>7 DEF CpusCovered
<1>9. /\ current'[t].cpu \in 1..current[t].cpu
      /\ f.child.cpu \in 1..current[t].cpu /\ f.workers * f.child.cpu <= current[t].cpu
  BY <1>2, <1>5, DispatchCpus
<1>10. CpusWithin(current'[t], envelope) /\ CpusWithin(f.child, envelope)
  BY <1>2, <1>5, <1>6, <1>8, <1>9, CpusNarrowed
<1>11. stack[t] \in Seq(Frames) /\ stack'[t] \in Seq(Frames) BY <1>1 DEF Typed
<1>12. Pushed(stack[t], stack'[t], f) /\ Stays(t) BY <1>2 DEF Pushes
<1>13. current'[t].cpu <= current[t].cpu /\ f.child.cpu <= current[t].cpu BY <1>5, <1>9
<1>14. CpusCovered(stack'[t], current'[t], envelope)
  BY <1>2, <1>3, <1>5, <1>6, <1>7, <1>9, <1>10, <1>11, <1>12, <1>13, CpusPush
<1> QED BY <1>1, <1>12, <1>14, CpuSame

LEMMA CpuReserves ==
  ASSUME Typed, Shapes, CpuInv, NEW t \in Threads, Reserve(t) \/ ReserveEstimate(t)
  PROVE  CpuInv'
<1>1. envelope' = envelope /\ current' = current BY ReserveOpens
<1>2. PICK f \in ReserveFrames : Pushes(t, f) BY ReserveOpens
<1>3. f.kind = "reserve" /\ f \in Frames BY DEF ReserveFrames, Frames
<1>4. Typed' BY ReserveShapes
<1>5. CpusCovered(stack[t], current[t], envelope) BY DEF CpuInv
<1>6. CpusWithin(current[t], envelope) BY <1>5 DEF CpusCovered
<1>7. stack[t] \in Seq(Frames) /\ stack'[t] \in Seq(Frames) /\ current[t] \in Allocs /\ Len(envelope) \in Nat
  BY <1>4 DEF Typed
<1>8. Pushed(stack[t], stack'[t], f) /\ Stays(t) BY <1>2 DEF Pushes
<1>9. current[t].cpu <= current[t].cpu BY <1>7, Constants DEF Allocs
<1>10. CpusCovered(stack'[t], current[t], envelope) BY <1>3, <1>5, <1>6, <1>7, <1>8, <1>9, CpusPush
<1> QED BY <1>1, <1>4, <1>8, <1>10, CpuSame

LEMMA CpuStarts ==
  ASSUME Typed, Shapes, CpuInv, NEW w \in Threads, NEW d \in Threads, StartTask(w, d)
  PROVE  CpuInv'
<1>1. PICK f \in JobFrames, g \in WorkerFrames :
              /\ f = stack[d][Len(stack[d])] /\ Pushes(w, g) /\ g.job = f.job
              /\ g.prev = current[w] /\ g.slice = f.child /\ current'[w] = f.child
  BY StartTaskMoves
<1>2. Typed' /\ envelope' = envelope /\ stack[d] # <<>> /\ (w = d \/ stack[w] = <<>>) BY StartTaskMoves
<1>3. f.kind = "replicates" /\ g.kind = "worker" /\ g \in Frames /\ f.child \in Allocs
  BY DEF JobFrames, WorkerFrames, Frames
<1>4. CpusCovered(stack[w], current[w], envelope) /\ CpusCovered(stack[d], current[d], envelope) BY DEF CpuInv
<1>5. Len(stack[d]) \in 1..Len(stack[d])
  <2>1. stack[d] \in Seq(Frames) BY DEF Typed
  <2> QED BY <1>2, <2>1
<1>6. CpusFit(stack[d], Len(stack[d]), envelope) BY <1>4, <1>5 DEF CpusCovered
<1>7. CpusWithin(f.child, envelope) BY <1>1, <1>3, <1>6 DEF CpusFit
<1>8. f.child.root = current[d].root BY <1>1, <1>3, <1>5 DEF Shapes, Shape
<1>9. stack[w] # <<>> => f.child.root = current[w].root BY <1>2, <1>8
<1>10. stack[w] \in Seq(Frames) /\ stack'[w] \in Seq(Frames) /\ current[w] \in Allocs /\ Len(envelope) \in Nat
  BY <1>2 DEF Typed
<1>11. Pushed(stack[w], stack'[w], g) /\ Stays(w) BY <1>1 DEF Pushes
<1>12. stack[w] # <<>> => /\ IsJob(stack[w][Len(stack[w])]) /\ g.job = stack[w][Len(stack[w])].job
                          /\ f.child = stack[w][Len(stack[w])].child
  BY <1>1, <1>2, <1>3 DEF IsJob
<1>13. CpusCovered(stack'[w], f.child, envelope)
  BY <1>1, <1>3, <1>4, <1>7, <1>9, <1>10, <1>11, <1>12, CpusPush
<1> QED BY <1>1, <1>2, <1>11, <1>13, CpuSame

LEMMA CpuLeaves ==
  ASSUME Typed, Shapes, Shapes', CpuInv, NEW t \in Threads,
         ExitCall(t) \/ ExitReserve(t) \/ EndTask(t) \/ EndJob(t)
  PROVE  CpuInv'
<1> DEFINE f == stack[t][Len(stack[t])]
<1>1. Typed' /\ Pops(t) /\ envelope' = envelope
  BY ExitCallMoves, ExitReserveMoves, EndTaskMoves, EndJobMoves DEF ReservationEnds
<1>2. current'[t] = IF f.kind = "reserve" THEN current[t] ELSE f.prev
  <2>1. CASE ExitReserve(t)
    <3>1. f.kind = "reserve" BY <2>1 DEF ExitReserve, TopIs, Top
    <3> QED BY <2>1, <3>1, ExitReserveMoves DEF ReservationEnds
  <2>2. CASE ExitCall(t)
    <3>1. f.kind = "call" BY <2>2 DEF ExitCall, TopIs, Top
    <3> QED BY <2>2, <3>1, ExitCallMoves
  <2>3. CASE EndTask(t)
    <3>1. f.kind = "worker" BY <2>3 DEF EndTask, TopIs, Top
    <3> QED BY <2>3, <3>1, EndTaskMoves
  <2>4. CASE EndJob(t)
    <3>1. f.kind = "replicates" BY <2>4 DEF EndJob, TopIs, Top
    <3> QED BY <2>4, <3>1, EndJobMoves
  <2> QED BY <2>1, <2>2, <2>3, <2>4
<1>3. f = stack[t][Len(stack[t])] OBVIOUS
<1> HIDE DEF f
<1>4. CpusCovered(stack[t], current[t], envelope) BY DEF CpuInv
<1>5. stack[t] \in Seq(Frames) /\ stack'[t] \in Seq(Frames) /\ current[t] \in Allocs /\ Len(envelope) \in Nat
  BY <1>1 DEF Typed
<1>6. Popped(stack[t], stack'[t]) /\ Stays(t) BY <1>1 DEF Pops
<1>7. stack'[t] # <<>> => current'[t].root = current[t].root
  <2> SUFFICES ASSUME stack'[t] # <<>> PROVE current'[t].root = current[t].root OBVIOUS
  <2>1. Len(stack[t]) \in 2..Len(stack[t])
    <3>1. Len(stack'[t]) \in Nat /\ Len(stack'[t]) # 0 BY <1>5
    <3> QED BY <1>5, <1>6, <3>1 DEF Popped
  <2>2. f \in Frames
    <3>1. Len(stack[t]) \in 1..Len(stack[t]) BY <2>1
    <3> QED BY <1>3, <1>5, <3>1, ElementOfSeq
  <2>3. f.kind \in {"call", "reserve", "worker", "replicates"} BY <2>2, FrameOfKind
  <2>4. f.kind # "reserve" => f.prev.root = current[t].root
    BY <1>3, <2>1, <2>3 DEF Shapes, Shape
  <2> QED BY <1>2, <2>4
<1>8. CpusCovered(stack'[t], current'[t], envelope) BY <1>2, <1>3, <1>4, <1>5, <1>6, <1>7, CpusPop
<1> QED BY <1>1, <1>6, <1>8, CpuSame

LEMMA CpuNext ==
  ASSUME Typed, Shapes, Shapes', CpuInv, [Next]_vars
  PROVE  CpuInv'
<1>1. CASE UNCHANGED vars BY <1>1 DEF CpuInv, vars
<1>2. CASE Next
  <2>1. PICK t \in Threads : Step(t) BY <1>2 DEF Next
  <2>2. CASE EnterRoot(t) BY <2>2, CpuEntersRoot
  <2>3. CASE EnterNested(t) BY <2>3, CpuEntersNested
  <2>4. CASE ExitCall(t) \/ ExitReserve(t) \/ EndTask(t) \/ EndJob(t) BY <2>4, CpuLeaves
  <2>5. CASE Reserve(t) \/ ReserveEstimate(t) BY <2>5, CpuReserves
  <2>6. CASE Dispatch(t) BY <2>6, CpuDispatches
  <2>7. CASE \E d \in Threads : StartTask(t, d) BY <2>7, CpuStarts
  <2> QED BY <2>1, <2>2, <2>3, <2>4, <2>5, <2>6, <2>7 DEF Step
<1> QED BY <1>1, <1>2

LEMMA CpuInvariant == Spec => []CpuInv
<1>1. Init => CpuInv BY CpuInit
<1>2. Typed /\ Shapes /\ Shapes' /\ CpuInv /\ [Next]_vars => CpuInv' BY CpuNext
<1> QED BY <1>1, <1>2, ShapesInvariant, PTL DEF Spec

-----------------------------------------------------------------------------
(* A replicate is known to the job it belongs to: who runs one is under way there, in *)
(* the slice the job hands out.                                                       *)

\* The replicates and jobs of a stack get younger from the bottom up, but for a replicate
\* that the dispatcher itself runs.
Ranked(s) ==
  \A a, b \in 1..Len(s) :
    a < b /\ s[a].kind \in {"worker", "replicates"} /\ s[b].kind \in {"worker", "replicates"} =>
         /\ s[a].job <= s[b].job
         /\ s[a].job = s[b].job => IsJob(s[a]) /\ s[b].kind = "worker"

LEMMA RankedOf ==
  ASSUME NEW s \in Seq(Frames), NEW j \in Nat, Staged(s, j), NEW env,
         \A n \in 1..Len(s) : CpusFit(s, n, env),
         \A a \in 1..Len(s) : IsJob(s[a]) /\ a < Len(s) => s[a + 1].kind = "worker"
  PROVE  Ranked(s)
<1>1. Len(s) \in Nat OBVIOUS
<1>2. \A a \in 1..Len(s) : s[a].kind \in {"worker", "replicates"} => s[a].job \in Int
  BY DEF Staged
<1>3. \A a, b \in 1..Len(s) : a < b /\ s[a].kind = "worker" /\ IsJob(s[b]) => s[a].job < s[b].job
  <2> SUFFICES ASSUME NEW a \in 1..Len(s), NEW b \in 1..Len(s), a < b, s[a].kind = "worker", IsJob(s[b])
               PROVE  s[a].job < s[b].job
    OBVIOUS
  <2>1. a \in 1..(b - 1) BY <1>1
  <2> QED BY <2>1 DEF Staged, IsJob
\* The scope above a job is a replicate of it.
<1>4. \A a \in 1..Len(s) : IsJob(s[a]) /\ a < Len(s) =>
        a + 1 \in 1..Len(s) /\ s[a + 1].kind = "worker" /\ s[a + 1].job = s[a].job
  <2> SUFFICES ASSUME NEW a \in 1..Len(s), IsJob(s[a]), a < Len(s)
               PROVE  a + 1 \in 1..Len(s) /\ s[a + 1].job = s[a].job
    OBVIOUS
  <2>1. a + 1 \in 1..Len(s) /\ a + 1 > 1 /\ (a + 1) - 1 = a BY <1>1
  <2>2. CpusFit(s, a + 1, env) /\ s[a + 1].kind = "worker" BY <2>1
  <2> QED BY <2>1, <2>2 DEF CpusFit
<1>5. \A a, b \in 1..Len(s) : a < b /\ IsJob(s[a]) /\ IsJob(s[b]) => s[a].job < s[b].job
  <2> SUFFICES ASSUME NEW a \in 1..Len(s), NEW b \in 1..Len(s), a < b, IsJob(s[a]), IsJob(s[b])
               PROVE  s[a].job < s[b].job
    OBVIOUS
  <2>1. a < Len(s) BY <1>1
  <2>2. a + 1 \in 1..Len(s) /\ s[a + 1].kind = "worker" /\ s[a + 1].job = s[a].job BY <1>4, <2>1
  <2>3. a + 1 # b BY <2>2 DEF IsJob
  <2>4. a + 1 < b BY <2>3, <1>1
  <2> QED BY <1>3, <2>2, <2>4
\* The scope under a replicate is its job.
<1>6. \A b \in 1..Len(s) : b > 1 /\ s[b].kind = "worker" =>
        b - 1 \in 1..Len(s) /\ IsJob(s[b - 1]) /\ s[b].job = s[b - 1].job
  BY <1>1 DEF CpusFit
<1>7. \A a, b \in 1..Len(s) : a < b /\ s[a].kind = "worker" /\ s[b].kind = "worker" =>
        s[a].job < s[b].job
  <2> SUFFICES ASSUME NEW a \in 1..Len(s), NEW b \in 1..Len(s), a < b,
                      s[a].kind = "worker", s[b].kind = "worker"
               PROVE  s[a].job < s[b].job
    OBVIOUS
  <2>1. b > 1 BY <1>1
  <2>2. b - 1 \in 1..Len(s) /\ IsJob(s[b - 1]) /\ s[b].job = s[b - 1].job BY <1>6, <2>1
  <2>3. a # b - 1 BY <2>2 DEF IsJob
  <2>4. a < b - 1 BY <2>3, <1>1
  <2> QED BY <1>3, <2>2, <2>4
<1>8. \A a, b \in 1..Len(s) : a < b /\ IsJob(s[a]) /\ s[b].kind = "worker" => s[a].job <= s[b].job
  <2> SUFFICES ASSUME NEW a \in 1..Len(s), NEW b \in 1..Len(s), a < b,
                      IsJob(s[a]), s[b].kind = "worker"
               PROVE  s[a].job <= s[b].job
    OBVIOUS
  <2>1. b > 1 BY <1>1
  <2>2. b - 1 \in 1..Len(s) /\ IsJob(s[b - 1]) /\ s[b].job = s[b - 1].job BY <1>6, <2>1
  <2>3. s[a].job \in Int /\ s[b - 1].job \in Int BY <1>2, <2>2 DEF IsJob
  <2>4. CASE a = b - 1 BY <2>2, <2>3, <2>4
  <2>5. CASE a # b - 1
    <3>1. a < b - 1 BY <1>1, <2>5
    <3>2. s[a].job < s[b - 1].job BY <1>5, <2>2, <3>1
    <3> QED BY <2>2, <2>3, <3>2
  <2> QED BY <2>4, <2>5
<1> SUFFICES ASSUME NEW a \in 1..Len(s), NEW b \in 1..Len(s), a < b,
                    s[a].kind \in {"worker", "replicates"}, s[b].kind \in {"worker", "replicates"}
             PROVE  /\ s[a].job <= s[b].job
                    /\ s[a].job = s[b].job => IsJob(s[a]) /\ s[b].kind = "worker"
  BY DEF Ranked
<1>9. s[a].job \in Int /\ s[b].job \in Int BY <1>2
<1>10. CASE IsJob(s[a]) /\ s[b].kind = "worker" BY <1>8, <1>10
<1>11. CASE ~(IsJob(s[a]) /\ s[b].kind = "worker")
  <2>1. s[a].job < s[b].job BY <1>3, <1>5, <1>7, <1>11 DEF IsJob
  <2> QED BY <1>9, <2>1
<1> QED BY <1>10, <1>11

LEMMA StacksRanked ==
  ASSUME Typed, Shapes, BlasInv, CpuInv
  PROVE  \A t \in Threads : Ranked(stack[t])
<1> TAKE t \in Threads
<1>1. stack[t] \in Seq(Frames) /\ jobs \in Nat BY DEF Typed
<1>2. Staged(stack[t], jobs) BY DEF BlasInv
<1>3. \A n \in 1..Len(stack[t]) : CpusFit(stack[t], n, envelope) BY DEF CpuInv, CpusCovered
<1>4. \A a \in 1..Len(stack[t]) : IsJob(stack[t][a]) /\ a < Len(stack[t]) => stack[t][a + 1].kind = "worker"
  BY DEF Shapes, Shape, IsJob
<1> QED BY <1>1, <1>2, <1>3, <1>4, RankedOf

\* Whoever runs a replicate of job f, u with the stack s, is known to it.
Enrolled(f, s, u) ==
  \A b \in 1..Len(s) : s[b].kind = "worker" /\ s[b].job = f.job =>
                         u \in f.running /\ s[b].slice = f.child
EnrolInv ==
  \A d, u \in Threads : \A a \in 1..Len(stack[d]) :
    IsJob(stack[d][a]) => Enrolled(stack[d][a], stack[u], u)

\* Every frame was there before, but for the one that a scope opens.
WasThere(u, b) == b \in 1..Len(stack[u]) /\ Alike(stack[u][b], stack'[u][b])

LEMMA PushedFrames ==
  ASSUME Typed, Typed', NEW t \in Threads, NEW f, Pushes(t, f)
  PROVE  \A u \in Threads : \A b \in 1..Len(stack'[u]) :
           WasThere(u, b) \/ (u = t /\ b = Len(stack[t]) + 1 /\ stack'[u][b] = f)
<1> SUFFICES ASSUME NEW u \in Threads, NEW b \in 1..Len(stack'[u])
             PROVE  WasThere(u, b) \/ (u = t /\ b = Len(stack[t]) + 1 /\ stack'[u][b] = f)
  OBVIOUS
<1>1. CASE u # t BY <1>1 DEF Pushes, Stays, Kept, WasThere
<1>2. CASE u = t
  <2>1. Len(stack[t]) \in Nat BY DEF Typed
  <2>2. Len(stack'[t]) = Len(stack[t]) + 1 BY DEF Pushes, Pushed
  <2>3. b \in 1..Len(stack[t]) \/ b = Len(stack[t]) + 1 BY <1>2, <2>1, <2>2
  <2> QED BY <1>2, <2>3 DEF Pushes, Pushed, WasThere
<1> QED BY <1>1, <1>2

LEMMA PoppedFrames ==
  ASSUME Typed, Typed', NEW t \in Threads, Pops(t)
  PROVE  \A u \in Threads : \A b \in 1..Len(stack'[u]) :
           WasThere(u, b) /\ (u = t => b < Len(stack[t]))
<1> SUFFICES ASSUME NEW u \in Threads, NEW b \in 1..Len(stack'[u])
             PROVE  WasThere(u, b) /\ (u = t => b < Len(stack[t]))
  OBVIOUS
<1>1. CASE u # t BY <1>1 DEF Pops, Stays, Kept, WasThere
<1>2. CASE u = t
  <2>1. Len(stack[t]) \in Nat BY DEF Typed
  <2>2. Len(stack'[t]) = Len(stack[t]) - 1 BY DEF Pops, Popped
  <2>3. b \in 1..Len(stack[t]) /\ b < Len(stack[t]) BY <1>2, <2>1, <2>2
  <2> QED BY <1>2, <2>3 DEF Pops, Popped, WasThere
<1> QED BY <1>1, <1>2

\* Of a replicate that went on next to a job that went on.
LEMMA EnrolledStill ==
  ASSUME EnrolInv, NEW d \in Threads, NEW u \in Threads, NEW a, NEW b,
         WasThere(d, a), IsJob(stack'[d][a]), WasThere(u, b), stack'[u][b].kind = "worker",
         stack'[u][b].job = stack'[d][a].job,
         u \in stack[d][a].running => u \in stack'[d][a].running
  PROVE  u \in stack'[d][a].running /\ stack'[u][b].slice = stack'[d][a].child
<1> DEFINE s == stack[d][a]
           z == stack'[d][a]
           f == stack[u][b]
           g == stack'[u][b]
<1>1. IsJob(s) /\ s.job = z.job /\ s.child = z.child BY DEF WasThere, Alike, IsJob
<1>2. f.kind = "worker" /\ f.job = g.job /\ f.slice = g.slice BY DEF WasThere, Alike
<1>3. Enrolled(s, stack[u], u) BY <1>1 DEF EnrolInv, WasThere
<1>4. u \in s.running /\ f.slice = s.child BY <1>1, <1>2, <1>3 DEF Enrolled, WasThere
<1> QED BY <1>1, <1>2, <1>4

LEMMA EnrolOpens ==
  ASSUME Typed, Typed', BlasInv, EnrolInv, AllUnmoved, NEW t \in Threads, NEW f \in Frames, Pushes(t, f),
         f.kind # "worker", IsJob(f) => f.job = jobs + 1
  PROVE  EnrolInv'
<1> SUFFICES ASSUME NEW d \in Threads, NEW u \in Threads, NEW a \in 1..Len(stack'[d]),
                    IsJob(stack'[d][a]), NEW b \in 1..Len(stack'[u]),
                    stack'[u][b].kind = "worker", stack'[u][b].job = stack'[d][a].job
             PROVE  u \in stack'[d][a].running /\ stack'[u][b].slice = stack'[d][a].child
  BY DEF EnrolInv, Enrolled
<1>1. WasThere(u, b) BY PushedFrames
<1>2. stack[u][b].kind = "worker" /\ stack[u][b].job = stack'[u][b].job BY <1>1 DEF WasThere, Alike
<1>3. stack[u][b].job \in 1..jobs /\ jobs \in Nat BY <1>1, <1>2 DEF BlasInv, Staged, WasThere, Typed
<1>4. WasThere(d, a)
  <2>1. stack'[u][b].job # jobs + 1 BY <1>2, <1>3
  <2> QED BY <2>1, PushedFrames
<1>5. stack'[d][a] = stack[d][a]
  <2>1. Unmoved(stack[d], stack'[d]) BY DEF AllUnmoved
  <2>2. a <= Len(stack'[d]) /\ IsJob(stack[d][a])
    <3>1. stack'[d] \in Seq(Frames) BY DEF Typed
    <3> QED BY <1>4, <3>1 DEF WasThere, Alike, IsJob
  <2> QED BY <1>4, <2>1, <2>2 DEF Unmoved, WasThere
<1>6. u \in stack[d][a].running => u \in stack'[d][a].running BY <1>5
<1> QED BY <1>1, <1>4, <1>6, EnrolledStill

\* A scope is left, and the replicate that ends is taken off its job.
LEMMA EnrolLeaves ==
  ASSUME Typed, Typed', EnrolInv, NEW t \in Threads, Pops(t), Ranked(stack[t]),
         NEW f, f = stack[t][Len(stack[t])],
         AllUnmoved \/ (f.kind = "worker" /\ AllLose(t, f.job))
  PROVE  EnrolInv'
<1> SUFFICES ASSUME NEW d \in Threads, NEW u \in Threads, NEW a \in 1..Len(stack'[d]),
                    IsJob(stack'[d][a]), NEW b \in 1..Len(stack'[u]),
                    stack'[u][b].kind = "worker", stack'[u][b].job = stack'[d][a].job
             PROVE  u \in stack'[d][a].running /\ stack'[u][b].slice = stack'[d][a].child
  BY DEF EnrolInv, Enrolled
<1>1. WasThere(d, a) /\ WasThere(u, b) /\ (u = t => b < Len(stack[t])) BY PoppedFrames
<1>2. a <= Len(stack'[d]) /\ IsJob(stack[d][a]) /\ stack[d][a].job = stack'[d][a].job
  <2>1. stack'[d] \in Seq(Frames) BY DEF Typed
  <2> QED BY <1>1, <2>1 DEF WasThere, Alike, IsJob
<1>3. AllLose(t, f.job) BY UnmovedFewer
<1>4. ASSUME f.kind = "worker", u = t PROVE stack[d][a].job # f.job
  <2>1. stack[t][b].kind = "worker" /\ stack[t][b].job = stack[d][a].job
    BY <1>1, <1>2, <1>4 DEF WasThere, Alike
  <2>2. b \in 1..Len(stack[t]) /\ Len(stack[t]) \in 1..Len(stack[t]) /\ b < Len(stack[t])
    <3>1. stack[t] \in Seq(Frames) BY DEF Typed
    <3> QED BY <1>1, <1>4, <3>1 DEF WasThere
  <2>3. stack[t][b].job = f.job => IsJob(stack[t][b]) BY <1>4, <2>1, <2>2 DEF Ranked
  <2> QED BY <2>1, <2>3 DEF IsJob
<1>5. u \in stack[d][a].running => u \in stack'[d][a].running
  <2>1. CASE AllUnmoved
    <3>1. Unmoved(stack[d], stack'[d]) BY <2>1 DEF AllUnmoved
    <3> QED BY <1>1, <1>2, <3>1 DEF Unmoved, WasThere
  <2>2. CASE f.kind = "worker" /\ AllLose(t, f.job)
    <3>1. Loses(stack[d], stack'[d], t, f.job) BY <2>2 DEF AllLose
    <3> QED BY <1>1, <1>2, <1>4, <2>2, <3>1 DEF Loses, WasThere
  <2> QED BY <2>1, <2>2
<1> QED BY <1>1, <1>5, EnrolledStill

\* A replicate begins: its job is on top of the stack of the one thread that waits for it.
LEMMA EnrolStarts ==
  ASSUME Typed, Typed', RunningInv, EnrolInv, NEW w \in Threads, NEW d \in Threads,
         NEW f, f = stack[d][Len(stack[d])], NEW g, Taken(w, d, f, g), stack[d] # <<>>,
         Ranked(stack[d])
  PROVE  EnrolInv'
<1> SUFFICES ASSUME NEW e \in Threads, NEW u \in Threads, NEW a \in 1..Len(stack'[e]),
                    IsJob(stack'[e][a]), NEW b \in 1..Len(stack'[u]),
                    stack'[u][b].kind = "worker", stack'[u][b].job = stack'[e][a].job
             PROVE  u \in stack'[e][a].running /\ stack'[u][b].slice = stack'[e][a].child
  BY DEF EnrolInv, Enrolled
<1>1. /\ Pushes(w, g) /\ g.job = f.job /\ g.slice = f.child
      /\ f \in JobFrames /\ g \in WorkerFrames
      /\ \A v \in Threads \ {d} : Unmoved(stack[v], stack'[v])
      /\ \A i \in 1..(Len(stack[d]) - 1) : IsJob(stack[d][i]) => stack'[d][i].running = stack[d][i].running
      /\ stack'[d][Len(stack[d])].running = f.running \cup {w}
  BY DEF Taken
<1>2. IsJob(f) /\ g.kind = "worker" BY <1>1 DEF JobFrames, WorkerFrames, IsJob
<1>3. WasThere(e, a) BY <1>1, <1>2, PushedFrames DEF IsJob
<1>4. IsJob(stack[e][a]) /\ stack[e][a].job = stack'[e][a].job /\ stack[e][a].child = stack'[e][a].child
  BY <1>3 DEF WasThere, Alike, IsJob
<1>5. Len(stack[d]) \in 1..Len(stack[d]) /\ Len(stack[d]) \in Nat
  <2>1. stack[d] \in Seq(Frames) BY DEF Typed
  <2> QED BY <2>1
<1>6. e = d /\ a # Len(stack[d]) => a \in 1..(Len(stack[d]) - 1) BY <1>3, <1>5 DEF WasThere
<1>7. stack[e][a].running \subseteq stack'[e][a].running
  <2>1. CASE e # d
    <3>1. Unmoved(stack[e], stack'[e]) BY <1>1, <2>1
    <3>2. a <= Len(stack'[e])
      <4>1. stack'[e] \in Seq(Frames) BY DEF Typed
      <4> QED BY <4>1
    <3> QED BY <1>3, <1>4, <3>1, <3>2 DEF Unmoved, WasThere
  <2>2. CASE e = d /\ a = Len(stack[d]) BY <1>1, <2>2
  <2>3. CASE e = d /\ a # Len(stack[d]) BY <1>1, <1>4, <1>6, <2>3
  <2> QED BY <2>1, <2>2, <2>3
<1>8. CASE WasThere(u, b) BY <1>3, <1>7, <1>8, EnrolledStill
<1>9. CASE u = w /\ stack'[u][b] = g
  <2>1. stack[e][a].job = f.job BY <1>1, <1>4, <1>9
  <2>2. e = d
    <3>1. ServedBy(stack, f.job, d) BY <1>2, <1>5 DEF RunningInv
    <3> QED BY <1>3, <1>4, <2>1, <3>1 DEF ServedBy, WasThere
  <2>3. a = Len(stack[d])
    <3> SUFFICES ASSUME a # Len(stack[d]) PROVE FALSE OBVIOUS
    <3>1. a \in 1..Len(stack[d]) /\ a < Len(stack[d]) BY <1>5, <1>6, <2>2
    <3>2. f.kind # "worker" BY <1>2 DEF IsJob
    <3> QED BY <1>2, <1>4, <1>5, <2>1, <2>2, <3>1, <3>2 DEF Ranked, IsJob
  <2> QED BY <1>1, <1>4, <1>9, <2>2, <2>3
<1> QED BY <1>1, <1>8, <1>9, PushedFrames

LEMMA EnrolNext ==
  ASSUME Typed, Shapes, BlasInv, CpuInv, RunningInv, EnrolInv, [Next]_vars
  PROVE  EnrolInv'
<1>1. CASE UNCHANGED vars
  <2>1. stack' = stack BY <1>1 DEF vars
  <2> QED BY <2>1 DEF EnrolInv
<1>2. CASE Next
  <2>1. PICK t \in Threads : Step(t) BY <1>2 DEF Next
  <2>2. Typed' BY ShapesNext
  <2>3. \A u \in Threads : Ranked(stack[u]) BY StacksRanked
  <2>4. CASE EnterRoot(t) \/ EnterNested(t) \/ Reserve(t) \/ ReserveEstimate(t) \/ Dispatch(t)
    <3>1. AllUnmoved BY <2>4, RunUnmoved, EstimateUnmoved
    <3>2. \E f \in Frames : /\ Pushes(t, f) /\ f.kind # "worker"
                            /\ IsJob(f) => f.job = jobs + 1 /\ f.running = {}
      BY <2>4, ScopeOpens
    <3>3. PICK f \in Frames : Pushes(t, f) /\ f.kind # "worker" /\ (IsJob(f) => f.job = jobs + 1)
      BY <3>2
    <3> QED BY <2>2, <3>1, <3>3, EnrolOpens
  <2>5. CASE ExitCall(t) \/ ExitReserve(t) \/ EndTask(t) \/ EndJob(t)
    <3>1. PICK f : f = stack[t][Len(stack[t])] OBVIOUS
    <3>2. Pops(t) BY <2>5, ExitCallMoves, ExitReserveMoves, EndTaskMoves, EndJobMoves DEF ReservationEnds
    <3>3. CASE EndTask(t)
      <4>1. AllLose(t, f.job) BY <3>1, <3>3, EndTaskFewer
      <4>2. f.kind = "worker" BY <3>1, <3>3 DEF EndTask, TopIs, Top
      <4> QED BY <2>2, <2>3, <3>1, <3>2, <4>1, <4>2, EnrolLeaves
    <3>4. CASE ~EndTask(t)
      <4>1. AllUnmoved BY <2>5, <3>4, RunUnmoved
      <4> QED BY <2>2, <2>3, <3>1, <3>2, <4>1, EnrolLeaves
    <3> QED BY <3>3, <3>4
  <2>6. CASE \E d \in Threads : StartTask(t, d)
    <3>1. PICK d \in Threads : StartTask(t, d) BY <2>6
    <3>2. PICK f : f = stack[d][Len(stack[d])] OBVIOUS
    <3>3. PICK g : g = stack'[t][Len(stack[t]) + 1] OBVIOUS
    <3>4. Taken(t, d, f, g) /\ stack[d] # <<>> BY <3>1, <3>2, <3>3, StartTaskTakes
    <3> QED BY <2>2, <2>3, <3>2, <3>4, EnrolStarts
  <2> QED BY <2>1, <2>4, <2>5, <2>6 DEF Step
<1> QED BY <1>1, <1>2

LEMMA EnrolInit == Init => EnrolInv
<1> SUFFICES ASSUME Init PROVE EnrolInv OBVIOUS
<1>1. \A t \in Threads : Len(stack[t]) = 0 BY DEF Init
<1> QED BY <1>1 DEF EnrolInv

LEMMA EnrolInvariant == Spec => []EnrolInv
<1>1. Init => EnrolInv BY EnrolInit
<1>2. Typed /\ Shapes /\ BlasInv /\ CpuInv /\ RunningInv /\ EnrolInv /\ [Next]_vars => EnrolInv'
  BY EnrolNext
<1> QED BY <1>1, <1>2, ShapesInvariant, BlasInvariant, CpuInvariant, RunningInvariant, PTL DEF Spec

-----------------------------------------------------------------------------
(* What threads hold together. *)

\* Entries of at most m add up to at most m times their number.
LEMMA ClaimedAtMost ==
  ASSUME NEW f, IsTable(f), NEW m \in Nat, \A x \in DOMAIN f : f[x] <= m
  PROVE  Cardinality(DOMAIN f) \in Nat /\ Claimed(f) <= Cardinality(DOMAIN f) * m
<1> DEFINE Part(n) == \A Q \in SUBSET DOMAIN f : Cardinality(Q) = n => Claimed(Restrict(f, Q)) <= n * m
           Missing == {n \in Nat : ~Part(n)}
<1>1. \A Q \in SUBSET DOMAIN f : IsFiniteSet(Q) /\ Cardinality(Q) \in Nat
  BY FS_Subset, FS_CardinalityType DEF IsTable
<1>2. \A Q \in SUBSET DOMAIN f : \A x \in Q : Cardinality(Q \ {x}) = Cardinality(Q) - 1
  BY <1>1, FS_RemoveElement
<1>3. \A Q \in SUBSET DOMAIN f : IsTable(Restrict(f, Q)) BY ClaimedPart
<1>4. Missing = {}
  <2> SUFFICES ASSUME Missing # {} PROVE FALSE OBVIOUS
  <2>1. PICK n \in Missing : \A j \in Missing : n <= j BY LeastOf
  <2>2. PICK Q \in SUBSET DOMAIN f : Cardinality(Q) = n /\ ~(Claimed(Restrict(f, Q)) <= n * m) BY <2>1
  <2>3. CASE Q = {}
    <3>1. DOMAIN Restrict(f, Q) = {} BY <2>3 DEF Restrict
    <3>2. Claimed(Restrict(f, Q)) = 0 BY <3>1, ClaimedNone
    <3>3. n = 0 BY <2>2, <2>3, FS_EmptySet
    <3> QED BY <2>2, <3>2, <3>3
  <2>4. CASE Q # {}
    <3>1. PICK x \in Q : TRUE BY <2>4
    <3> DEFINE more == Restrict(f, Q)
               less == Restrict(f, Q \ {x})
    <3>2. /\ DOMAIN less = DOMAIN more \ {x} /\ x \in DOMAIN more /\ more[x] = f[x]
          /\ \A y \in DOMAIN less : less[y] = more[y]
      BY <3>1 DEF Restrict
    <3>3. IsTable(more) /\ IsTable(less) BY <1>3
    <3>4. Cardinality(Q \ {x}) = n - 1 BY <1>2, <2>2
    <3>5. n - 1 \in Nat BY <1>1, <3>4
    <3>6. n - 1 \notin Missing BY <2>1, <3>5
    <3>7. Claimed(less) <= (n - 1) * m BY <3>4, <3>5, <3>6
    <3>8. ~(Claimed(more) <= n * m) BY <2>2
    <3>9. f[x] <= m /\ f[x] \in Nat BY DEF IsTable
    <3> HIDE DEF more, less
    <3>10. Claimed(more) = f[x] + Claimed(less)
      <4>1. Claimed(more) = more[x] + Claimed(less) BY <3>2, <3>3, ClaimedWithout
      <4> QED BY <3>2, <4>1
    <3>11. Claimed(less) \in Nat BY <3>3, ClaimedNat
    <3>12. (n - 1) * m + m = n * m BY <2>1
    <3>13. (n - 1) * m \in Nat /\ n * m \in Nat BY <2>1, <3>5
    <3> QED BY <3>7, <3>8, <3>9, <3>10, <3>11, <3>12, <3>13
  <2> QED BY <2>3, <2>4
<1>5. Restrict(f, DOMAIN f) = [x \in DOMAIN f |-> f[x]] BY DEF Restrict
<1>6. Claimed(Restrict(f, DOMAIN f)) = Claimed(f)
  <2>1. DOMAIN Restrict(f, DOMAIN f) = DOMAIN f /\ \A x \in DOMAIN f : Restrict(f, DOMAIN f)[x] = f[x]
    BY <1>5
  <2> QED BY <2>1, ClaimedSame
<1>7. Cardinality(DOMAIN f) \in Nat BY <1>1
<1> QED BY <1>4, <1>6, <1>7

\* Entry d of f makes room for the entries of N; of the others some, R, remain in g.
LEMMA SharesMove ==
  ASSUME NEW f, IsTable(f), NEW d \in DOMAIN f, NEW R \in SUBSET (DOMAIN f \ {d}),
         NEW g, NEW N, DOMAIN g = N \cup R, N \cap R = {}, IsFiniteSet(N),
         \A x \in R : g[x] = f[x],
         NEW c \in Nat, \A x \in N : g[x] \in Nat /\ g[x] <= c,
         NEW k \in Nat, Cardinality(N) <= k, k * c <= f[d]
  PROVE  IsTable(g) /\ Claimed(g) <= Claimed(f)
<1> DEFINE rest == Restrict(f, DOMAIN f \ {d})
           old == Restrict(f, R)
           new == Restrict(g, N)
           same == Restrict(g, DOMAIN g \ N)
<1>1. IsTable(rest) /\ Claimed(f) = f[d] + Claimed(rest)
  <2>1. DOMAIN rest = DOMAIN f \ {d} /\ \A y \in DOMAIN rest : rest[y] = f[y] BY DEF Restrict
  <2> HIDE DEF rest
  <2> QED BY <2>1, ClaimedWithout
<1>2. IsTable(old) /\ Claimed(old) <= Claimed(rest)
  <2>1. R \in SUBSET DOMAIN rest BY DEF Restrict
  <2>2. /\ DOMAIN Restrict(rest, R) = DOMAIN old
        /\ \A y \in DOMAIN old : old[y] = Restrict(rest, R)[y]
    BY DEF Restrict
  <2> HIDE DEF rest, old
  <2>3. IsTable(Restrict(rest, R)) /\ Claimed(Restrict(rest, R)) <= Claimed(rest)
    BY <1>1, <2>1, ClaimedPart
  <2>4. IsTable(old) /\ Claimed(old) = Claimed(Restrict(rest, R)) BY <2>2, <2>3, ClaimedSame
  <2> QED BY <2>3, <2>4
<1>3. IsTable(g)
  <2>1. IsFiniteSet(R) BY FS_Subset DEF IsTable
  <2>2. IsFiniteSet(N \cup R) BY <2>1, FS_Union
  <2>3. \A x \in R : g[x] \in Nat BY DEF IsTable
  <2> QED BY <2>2, <2>3 DEF IsTable
<1>4. Claimed(g) = Claimed(new) + Claimed(same)
  <2>1. N \in SUBSET DOMAIN g OBVIOUS
  <2> QED BY <1>3, <2>1, ClaimedSplit
<1>5. Claimed(same) = Claimed(old)
  <2>1. DOMAIN same = DOMAIN old /\ \A y \in DOMAIN same : same[y] = old[y] BY DEF Restrict
  <2> HIDE DEF same, old
  <2> QED BY <1>2, <2>1, ClaimedSame
<1>6. Claimed(new) <= k * c
  <2>1. IsTable(new) BY <1>3, ClaimedPart
  <2>2. DOMAIN new = N /\ \A x \in N : new[x] <= c BY DEF Restrict
  <2> HIDE DEF new
  <2>3. Cardinality(N) \in Nat /\ Claimed(new) <= Cardinality(N) * c BY <2>1, <2>2, ClaimedAtMost
  <2> DEFINE n == Cardinality(N)
  <2>4. n \in Nat /\ n <= k BY <2>3
  <2> HIDE DEF n
  <2>5. n * c <= k * c /\ n * c \in Nat /\ k * c \in Nat BY <2>4
  <2>6. Claimed(new) \in Nat BY <2>1, ClaimedNat
  <2> QED BY <2>3, <2>5, <2>6 DEF n
<1>7. Claimed(new) \in Nat /\ Claimed(same) \in Nat /\ Claimed(rest) \in Nat /\ k * c \in Nat /\ f[d] \in Nat
  <2>1. IsTable(new) /\ IsTable(same) BY <1>3, ClaimedPart
  <2>2. f[d] \in Nat BY DEF IsTable
  <2> HIDE DEF rest, old, new, same
  <2>3. Claimed(new) \in Nat /\ Claimed(same) \in Nat /\ Claimed(rest) \in Nat BY <1>1, <2>1, ClaimedNat
  <2> QED BY <2>2, <2>3
<1> HIDE DEF rest, old, new, same
<1> QED BY <1>1, <1>2, <1>3, <1>4, <1>5, <1>6, <1>7

\* The sum over the threads S of what each may use is the total of a table.
CpusOf(S) == [t \in S |-> current[t].cpu]

LEMMA SumOfCpus ==
  ASSUME NEW S, IsFiniteSet(S), \A t \in S : current[t].cpu \in Nat
  PROVE  IsTable(CpusOf(S)) /\ MapThenSumSet(LAMBDA t : current[t].cpu, S) = Claimed(CpusOf(S))
<1> DEFINE f == CpusOf(S)
           IsSum(g) == g = [s \in SUBSET S |->
                              IF s = {} THEN 0
                              ELSE LET x == CHOOSE x \in s : TRUE
                                   IN current[x].cpu + g[s \ {x}]]
<1>1. DOMAIN f = S /\ \A x \in S : f[x] = current[x].cpu BY DEF CpusOf
<1>2. IsTable(f) BY <1>1 DEF IsTable
<1>3. MapThenSumSet(LAMBDA t : current[t].cpu, S) = (CHOOSE g : IsSum(g))[S]
  BY DEF MapThenSumSet, MapThenFoldSet
<1> HIDE DEF f
<1>4. \A g : IsSum(g) <=> IsTotal(g, f, S)
  <2> TAKE g
  <2> DEFINE F(s) == IF s = {} THEN 0
                     ELSE LET x == CHOOSE x \in s : TRUE IN current[x].cpu + g[s \ {x}]
             G(s) == IF s = {} THEN 0
                     ELSE f[CHOOSE x \in s : TRUE] + g[s \ {CHOOSE x \in s : TRUE}]
  <2>1. \A s \in SUBSET S : F(s) = G(s) BY <1>1
  <2> HIDE DEF F, G
  <2>2. [s \in SUBSET S |-> F(s)] = [s \in SUBSET S |-> G(s)] BY <2>1
  <2> QED BY <2>2 DEF F, G, IsTotal
<1>5. PICK h \in [SUBSET S -> Nat] : IsTotal(h, f, S) /\ Claimed(f) = h[S]
  BY <1>1, <1>2, ClaimedIsTotal
<1> DEFINE k == CHOOSE g : IsSum(g)
<1> HIDE DEF IsSum
<1>6. IsSum(h) BY <1>4, <1>5
<1>7. IsSum(k) BY <1>6
<1>8. IsTotal(k, f, S) BY <1>4, <1>7
<1> HIDE DEF k
<1>9. k[S] = h[S]
  <2>1. \A x \in S : f[x] \in Nat BY <1>1, <1>2 DEF IsTable
  <2>2. k \in [SUBSET S -> Nat] BY <1>1, <1>5, <1>8, <2>1, TotalUnique
  <2>3. Totals(k, f, S) /\ Totals(h, f, S) BY <1>1, <1>5, <1>8, <2>1, <2>2 DEF Totals
  <2>4. \A s \in SUBSET (S \cap S) : k[s] = h[s] BY <2>3, TotalsAgree
  <2> QED BY <2>4
<1> QED BY <1>2, <1>3, <1>5, <1>9 DEF k, f

-----------------------------------------------------------------------------
(* The CPUs of a call go down the tree of its jobs: in the order of their numbers each  *)
(* job that is waited for divides what its dispatcher holds among its replicates.       *)

CpusShared == Typed /\ Shapes /\ BlasInv /\ RunningInv /\ CpuInv /\ EnrolInv

\* What a thread holds while only the first m jobs have begun, and who takes part then: the
\* threads of the call's tree that dispatch a later job or are at work.
Later(s, m) == {a \in 1..Len(s) : IsJob(s[a]) /\ s[a].job > m}
FirstLater(s, m) == CHOOSE a \in Later(s, m) : \A b \in Later(s, m) : a <= b
Share(t, m) == IF Later(stack[t], m) = {} THEN current[t].cpu
               ELSE stack[t][FirstLater(stack[t], m)].prev.cpu
Takes(r, m) ==
  {t \in Threads :
     /\ stack[t] # <<>> /\ current[t].root = r
     /\ stack[t][1].kind = "worker" => stack[t][1].job <= m
     /\ \A j \in JobsOf(t) : j <= m => Awaited[j]
     /\ Later(stack[t], m) # {} \/ Working(t)}
SharesAt(r, m) == [t \in Takes(r, m) |-> Share(t, m)]
FitsAfter(r, m) == IsTable(SharesAt(r, m)) /\ Claimed(SharesAt(r, m)) <= envelope[r].cpu

LEMMA FirstOfLater ==
  ASSUME NEW s \in Seq(Frames), NEW m, Later(s, m) # {}, NEW c, c = FirstLater(s, m)
  PROVE  c \in Later(s, m) /\ \A b \in Later(s, m) : c <= b
<1>1. Later(s, m) \in SUBSET Nat BY DEF Later
<1>2. \E a \in Later(s, m) : \A b \in Later(s, m) : a <= b BY <1>1, LeastOf
<1> DEFINE L == Later(s, m)
           Least1(a) == \A b \in L : a <= b
<1>3. c = CHOOSE a \in L : Least1(a) BY DEF FirstLater
<1>4. \E a \in L : Least1(a) BY <1>2
<1> HIDE DEF L, Least1
<1>5. c \in L /\ Least1(c) BY <1>3, <1>4
<1> QED BY <1>5 DEF L, Least1

\* No share is more than the call has.
LEMMA ShareWithin ==
  ASSUME CpusShared, NEW t \in Threads, stack[t] # <<>>, NEW m
  PROVE  /\ Share(t, m) \in Nat
         /\ Share(t, m) <= envelope[current[t].root].cpu
         /\ envelope[current[t].root].cpu \in Nat
<1> DEFINE s == stack[t]
           x == current[t].root
<1>1. Typed /\ Shapes /\ CpuInv BY DEF CpusShared
<1>2. /\ current[t].cpu \in Nat /\ x \in 1..Len(envelope) /\ envelope[x].cpu \in Int
      /\ current[t].cpu <= envelope[x].cpu
  BY <1>1, ScopeCpus
<1>3. CASE Later(s, m) = {} BY <1>2, <1>3 DEF Share
<1>4. CASE Later(s, m) # {}
  <2>1. PICK c : c = FirstLater(s, m) OBVIOUS
  <2>2. s \in Seq(Frames) BY <1>1 DEF Typed
  <2>3. c \in 1..Len(s) /\ IsJob(s[c]) BY <1>4, <2>1, <2>2, FirstOfLater DEF Later
  <2>4. c # 1 BY <1>1, <2>3 DEF Shapes, Shape, IsJob
  <2>5. c \in 2..Len(s) BY <2>2, <2>3, <2>4
  <2>6. s[c].prev.root = x BY <1>1, <2>3, <2>5 DEF Shapes, Shape, IsJob
  <2>7. CpusFit(s, c, envelope) BY <1>1, <2>3 DEF CpuInv, CpusCovered
  <2>8. CpusWithin(s[c].prev, envelope) BY <2>3, <2>7 DEF CpusFit, IsJob
  <2>9. s[c].prev.cpu \in 1..envelope[x].cpu BY <1>2, <2>6, <2>8 DEF CpusWithin
  <2>10. Share(t, m) = s[c].prev.cpu BY <1>4, <2>1 DEF Share
  <2> QED BY <1>2, <2>9, <2>10
<1> QED BY <1>3, <1>4

\* Before the first job it is the thread in the call alone that holds CPUs.
LEMMA CpusOfTheCall ==
  ASSUME CpusShared, NEW r \in 1..Len(envelope)
  PROVE  FitsAfter(r, 0)
<1> DEFINE f == SharesAt(r, 0)
<1>1. Typed /\ Shapes /\ BlasInv BY DEF CpusShared
<1>2. Takes(r, 0) \subseteq {lock}
  <2> SUFFICES ASSUME NEW t \in Takes(r, 0) PROVE t = lock OBVIOUS
  <2>1. t \in Threads /\ stack[t] # <<>> /\ (stack[t][1].kind = "worker" => stack[t][1].job <= 0)
    BY DEF Takes
  <2>2. 1 \in 1..Len(stack[t])
    <3>1. stack[t] \in Seq(Frames) BY <1>1, <2>1 DEF Typed
    <3>2. Len(stack[t]) \in Nat /\ Len(stack[t]) # 0 BY <2>1, <3>1
    <3> QED BY <3>2
  <2>3. stack[t][1].kind # "worker"
    <3> SUFFICES ASSUME stack[t][1].kind = "worker" PROVE FALSE OBVIOUS
    <3>1. stack[t][1].job \in 1..jobs /\ jobs \in Nat BY <1>1, <2>1, <2>2 DEF BlasInv, Staged, Typed
    <3> QED BY <2>1, <3>1
  <2> QED BY <1>1, <2>1, <2>3 DEF Shapes, Shape
<1>3. \A t \in Takes(r, 0) : t \in Threads /\ stack[t] # <<>> /\ current[t].root = r BY DEF Takes
<1>4. DOMAIN f = Takes(r, 0) /\ \A t \in Takes(r, 0) : f[t] = Share(t, 0) BY DEF SharesAt
<1>5. \A t \in Takes(r, 0) : f[t] \in Nat /\ f[t] <= envelope[r].cpu BY <1>3, <1>4, ShareWithin
<1> HIDE DEF f
<1>6. IsFiniteSet(Takes(r, 0)) BY <1>2, FS_Singleton, FS_Subset
<1>7. IsTable(f) BY <1>4, <1>5, <1>6 DEF IsTable
<1>8. envelope[r].cpu \in Nat
  <2> DEFINE S == [budget : Amounts, cpu : 1..Cpu]
  <2>1. envelope \in Seq(S) BY <1>1 DEF Typed
  <2> HIDE DEF S
  <2>2. envelope[r] \in S BY <2>1
  <2>3. envelope[r].cpu \in 1..Cpu BY <2>2 DEF S
  <2> QED BY <2>3, Constants
<1>9. Claimed(f) <= envelope[r].cpu
  <2>1. CASE Takes(r, 0) = {}
    <3>1. Claimed(f) = 0 BY <1>4, <2>1, ClaimedNone
    <3> QED BY <1>8, <3>1
  <2>2. CASE Takes(r, 0) # {}
    <3>1. lock \in Takes(r, 0) BY <1>2, <2>2
    <3>2. DOMAIN f = {lock} BY <1>2, <1>4, <3>1
    <3>3. PICK h : h = [t \in {} |-> 0] OBVIOUS
    <3>4. DOMAIN h = DOMAIN f \ {lock} /\ \A y \in DOMAIN h : h[y] = f[y] BY <3>2, <3>3
    <3>5. Claimed(f) = f[lock] + Claimed(h) BY <1>7, <3>2, <3>4, ClaimedWithout
    <3>6. Claimed(h) = 0
      <4>1. DOMAIN h = {} BY <3>3
      <4> QED BY <4>1, ClaimedNone
    <3> QED BY <1>5, <3>1, <3>5, <3>6
  <2> QED BY <2>1, <2>2
<1> QED BY <1>7, <1>9 DEF f, FitsAfter

\* The threads that come in with job m.
Joins(r, m) == {t \in Takes(r, m) :
                  \E b \in 1..Len(stack[t]) : stack[t][b].kind = "worker" /\ stack[t][b].job = m}

\* Whoever has no part in job m holds what it held before.
LEMMA OthersTakeTheSame ==
  ASSUME CpusShared, NEW r, NEW m \in Nat \ {0}, NEW t \in Takes(r, m) \ Joins(r, m)
  PROVE  /\ t \in Takes(r, m - 1) /\ Share(t, m - 1) = Share(t, m)
         /\ \A a \in 1..Len(stack[t]) : IsJob(stack[t][a]) => stack[t][a].job # m
<1> DEFINE s == stack[t]
<1>1. Typed /\ Shapes /\ BlasInv /\ CpuInv BY DEF CpusShared
<1>2. /\ t \in Threads /\ s # <<>> /\ current[t].root = r
      /\ s[1].kind = "worker" => s[1].job <= m
      /\ \A j \in JobsOf(t) : j <= m => Awaited[j]
      /\ Later(s, m) # {} \/ Working(t)
  BY DEF Takes
<1>3. \A b \in 1..Len(s) : s[b].kind = "worker" => s[b].job # m BY DEF Joins
<1>4. s \in Seq(Frames) /\ Len(s) \in Nat /\ Len(s) # 0 BY <1>1, <1>2 DEF Typed
<1>5. Ranked(s) BY <1>1, <1>2, StacksRanked
<1>6. \A a \in 1..Len(s) : s[a].kind \in {"worker", "replicates"} => s[a].job \in Nat
  <2>1. Staged(s, jobs) /\ jobs \in Nat BY <1>1, <1>2 DEF BlasInv, Typed
  <2>2. \A j \in 1..jobs : j \in Nat BY <2>1
  <2> HIDE DEF s
  <2> QED BY <2>1, <2>2 DEF Staged
<1>7. \A a \in 1..Len(s) : IsJob(s[a]) => s[a].job # m
  <2> SUFFICES ASSUME NEW a \in 1..Len(s), IsJob(s[a]), s[a].job = m PROVE FALSE OBVIOUS
  <2>1. CASE a < Len(s)
    <3>1. a + 1 \in 1..Len(s) /\ a + 1 > 1 /\ (a + 1) - 1 = a BY <1>4, <2>1
    <3>2. s[a + 1].kind = "worker" BY <1>1, <1>2, <2>1 DEF Shapes, Shape, IsJob
    <3>3. CpusFit(s, a + 1, envelope) BY <1>1, <1>2, <3>1 DEF CpuInv, CpusCovered
    <3>4. s[a + 1].job = s[a].job BY <3>1, <3>2, <3>3 DEF CpusFit
    <3> QED BY <1>3, <3>1, <3>2, <3>4
  <2>2. CASE a = Len(s)
    <3>1. ~Working(t)
      <4>1. Top(t) = s[a] BY <2>2 DEF Top
      <4> QED BY <4>1 DEF Working, TopIs, IsJob
    <3>2. PICK c \in Later(s, m) : TRUE BY <1>2, <3>1
    <3>3. c \in 1..Len(s) /\ IsJob(s[c]) /\ s[c].job > m BY DEF Later
    <3>4. s[c].job \in Nat BY <1>6, <3>3 DEF IsJob
    <3>5. c # a BY <3>3, <3>4
    <3>6. c < a BY <1>4, <2>2, <3>3, <3>5
    <3>7. s[c].job <= m BY <1>5, <3>3, <3>6 DEF Ranked, IsJob
    <3> QED BY <3>3, <3>4, <3>7
  <2> QED BY <1>4, <2>1, <2>2
<1>8. Later(s, m - 1) = Later(s, m)
  <2>1. \A a \in 1..Len(s) : IsJob(s[a]) => (s[a].job > m - 1 <=> s[a].job > m)
    <3> SUFFICES ASSUME NEW a \in 1..Len(s), IsJob(s[a]) PROVE s[a].job > m - 1 <=> s[a].job > m
      OBVIOUS
    <3>1. s[a].job \in Nat /\ s[a].job # m BY <1>6, <1>7 DEF IsJob
    <3> QED BY <3>1
  <2> QED BY <2>1 DEF Later
<1>9. Share(t, m - 1) = Share(t, m)
  <2>1. FirstLater(s, m - 1) = FirstLater(s, m) BY <1>8 DEF FirstLater
  <2> QED BY <1>8, <2>1 DEF Share
<1>10. s[1].kind = "worker" => s[1].job <= m - 1
  <2> SUFFICES ASSUME s[1].kind = "worker" PROVE s[1].job <= m - 1 OBVIOUS
  <2>1. 1 \in 1..Len(s) BY <1>4
  <2>2. s[1].job \in Nat /\ s[1].job # m /\ s[1].job <= m BY <1>2, <1>3, <1>6, <2>1
  <2> QED BY <2>2
<1>11. JobsOf(t) \subseteq Nat BY <1>4, <1>6 DEF JobsOf
<1>12. \A j \in JobsOf(t) : j <= m - 1 => Awaited[j] BY <1>2, <1>11
<1> QED BY <1>2, <1>7, <1>8, <1>9, <1>10, <1>12 DEF Takes

\* What a replicate of job m, run in scope b, holds is in its slice.
LEMMA ShareInSlice ==
  ASSUME CpusShared, NEW t \in Threads, stack[t] # <<>>, NEW b \in 1..Len(stack[t]),
         stack[t][b].kind = "worker"
  PROVE  Share(t, stack[t][b].job) <= stack[t][b].slice.cpu
<1> DEFINE s == stack[t]
           m == stack[t][b].job
<1>1. Typed /\ Shapes /\ BlasInv /\ CpuInv BY DEF CpusShared
<1>2. s \in Seq(Frames) BY <1>1 DEF Typed
<1>3. CpusCovered(s, current[t], envelope) BY <1>1 DEF CpuInv
<1>4. CASE Later(s, m) = {}
  <2>1. current[t].cpu <= s[b].slice.cpu BY <1>3 DEF CpusCovered, CpusHeld
  <2> QED BY <1>4, <2>1 DEF Share
<1>5. CASE Later(s, m) # {}
  <2>1. PICK c : c = FirstLater(s, m) OBVIOUS
  <2>2. c \in 1..Len(s) /\ IsJob(s[c]) /\ s[c].job > m BY <1>2, <1>5, <2>1, FirstOfLater DEF Later
  <2>3. s[c].job \in Nat /\ m \in Nat
    BY <1>1, <2>2 DEF BlasInv, Staged, Typed, IsJob
  <2>4. ~(c < b)
    <3> SUFFICES ASSUME c < b PROVE FALSE OBVIOUS
    <3>1. Ranked(s) BY <1>1, StacksRanked
    <3>2. s[c].job <= m BY <2>2, <3>1 DEF Ranked, IsJob
    <3> QED BY <2>2, <2>3, <3>2
  <2>5. c # b BY <2>2 DEF IsJob
  <2>6. b \in 1..(c - 1)
    <3>1. Len(s) \in Nat BY <1>2
    <3> QED BY <2>2, <2>4, <2>5, <3>1
  <2>7. CpusFit(s, c, envelope) BY <1>3, <2>2 DEF CpusCovered
  <2>8. CpusHeld(s, c - 1, s[c].prev.cpu) BY <2>2, <2>7 DEF CpusFit, IsJob
  <2>9. s[c].prev.cpu <= s[b].slice.cpu BY <2>6, <2>8 DEF CpusHeld
  <2> QED BY <1>5, <2>1, <2>9 DEF Share
<1> QED BY <1>4, <1>5

\* Job m, if it is waited for in the call, divides what its dispatcher d holds.
LEMMA JobDivides ==
  ASSUME CpusShared, NEW r, NEW m \in Nat \ {0}, m <= MaxJobs, Joins(r, m) # {}
  PROVE  \E d \in Takes(r, m - 1) : \E k \in Nat, c \in Nat :
           /\ d \notin Takes(r, m) \ Joins(r, m)
           /\ IsFiniteSet(Joins(r, m)) /\ Cardinality(Joins(r, m)) <= k
           /\ \A t \in Joins(r, m) : Share(t, m) <= c
           /\ k * c <= Share(d, m - 1)
<1>1. Typed /\ Shapes /\ BlasInv /\ RunningInv /\ CpuInv /\ EnrolInv BY DEF CpusShared
<1>2. \A t \in Joins(r, m) : t \in Threads /\ t \in Takes(r, m) /\ stack[t] # <<>> /\ current[t].root = r
  BY DEF Joins, Takes
<1>3. PICK t0 \in Joins(r, m) : TRUE OBVIOUS
<1>4. PICK b0 \in 1..Len(stack[t0]) : stack[t0][b0].kind = "worker" /\ stack[t0][b0].job = m
  BY DEF Joins
<1>5. Awaited[m]
  <2>1. DOMAIN stack[t0] = 1..Len(stack[t0])
    <3>1. stack[t0] \in Seq(Frames) BY <1>1, <1>2 DEF Typed
    <3> QED BY <3>1
  <2>2. m \in JobsOf(t0) BY <1>4, <2>1 DEF JobsOf
  <2>3. \A j \in JobsOf(t0) : j <= m => Awaited[j] BY <1>2 DEF Takes
  <2> QED BY <2>2, <2>3
<1>6. WaitedFor(Awaited, m)
  <2>1. m \in 0..MaxJobs BY SchedulerAssumption
  <2> QED BY <1>1, <1>5, <2>1, AwaitedUnfolds, Zenon
<1>7. PICK d \in Threads :
        \E a \in DOMAIN stack[d] :
          /\ stack[d][a].kind = "replicates" /\ stack[d][a].job = m
          /\ \A i \in JobsOf(d) : i < m => Awaited[i]
  BY <1>6 DEF WaitedFor
<1>8. PICK a \in DOMAIN stack[d] :
          /\ stack[d][a].kind = "replicates" /\ stack[d][a].job = m
          /\ \A i \in JobsOf(d) : i < m => Awaited[i]
  BY <1>7
<1> DEFINE s == stack[d]
           f == stack[d][a]
<1>9. s \in Seq(Frames) /\ a \in 1..Len(s) /\ Len(s) \in Nat /\ s # <<>> BY <1>1, <1>8 DEF Typed
<1>10. IsJob(f) /\ f \in JobFrames BY <1>8, <1>9, FrameAt DEF IsJob
<1>11. Ranked(s) BY <1>1, StacksRanked
<1>12. \A b \in 1..Len(s) : s[b].kind \in {"worker", "replicates"} => s[b].job \in Nat
  <2>1. Staged(s, jobs) /\ jobs \in Nat BY <1>1 DEF BlasInv, Typed
  <2>2. \A j \in 1..jobs : j \in Nat BY <2>1
  <2> HIDE DEF s
  <2> QED BY <2>1, <2>2 DEF Staged
\* The threads that come in are under way in the job.
<1>13. \A t \in Joins(r, m) : t \in f.running /\ Share(t, m) <= f.child.cpu
                              /\ f.child.root = current[t].root
  <2> SUFFICES ASSUME NEW t \in Joins(r, m)
               PROVE  t \in f.running /\ Share(t, m) <= f.child.cpu /\ f.child.root = current[t].root
    OBVIOUS
  <2>1. PICK b \in 1..Len(stack[t]) : stack[t][b].kind = "worker" /\ stack[t][b].job = m
    BY DEF Joins
  <2>2. Enrolled(f, stack[t], t) BY <1>1, <1>2, <1>9, <1>10 DEF EnrolInv
  <2>3. t \in f.running /\ stack[t][b].slice = f.child BY <1>8, <2>1, <2>2 DEF Enrolled
  <2>4. Share(t, stack[t][b].job) <= stack[t][b].slice.cpu BY <1>2, <2>1, ShareInSlice
  <2>5. stack[t][b].slice.root = current[t].root BY <1>1, <1>2, <2>1 DEF CpuInv, CpusCovered
  <2> QED BY <2>1, <2>3, <2>4, <2>5
<1>14. IsFiniteSet(Joins(r, m)) /\ Cardinality(Joins(r, m)) <= f.workers
  <2>1. Manned(stack, f) BY <1>1, <1>9, <1>10 DEF RunningInv
  <2>2. IsFiniteSet(f.running) /\ Cardinality(f.running) <= f.workers BY <2>1 DEF Manned
  <2>3. Joins(r, m) \subseteq f.running BY <1>13
  <2>4. IsFiniteSet(Joins(r, m)) /\ Cardinality(Joins(r, m)) <= Cardinality(f.running)
    BY <2>2, <2>3, FS_Subset
  <2>5. Cardinality(f.running) \in Nat /\ Cardinality(Joins(r, m)) \in Nat
    BY <2>2, <2>4, FS_CardinalityType
  <2>6. f.workers \in Nat BY <1>10, Constants DEF JobFrames
  <2> QED BY <2>2, <2>4, <2>5, <2>6
\* Their dispatcher was there before them.
<1>15. a \in Later(s, m - 1) /\ \A b \in Later(s, m - 1) : a <= b
  <2>1. a \in Later(s, m - 1) BY <1>8, <1>9, <1>10 DEF Later
  <2>2. ASSUME NEW b \in Later(s, m - 1) PROVE a <= b
    <3> SUFFICES ASSUME b < a PROVE FALSE
      <4>1. b \in Nat /\ a \in Nat BY <1>9 DEF Later
      <4> QED BY <4>1
    <3>1. b \in 1..Len(s) /\ IsJob(s[b]) /\ s[b].job > m - 1 BY DEF Later
    <3>2. s[b].job <= s[a].job /\ (s[b].job = s[a].job => s[a].kind = "worker")
      BY <1>9, <1>10, <1>11, <3>1 DEF Ranked, IsJob
    <3>3. s[b].job \in Nat BY <1>12, <3>1 DEF IsJob
    <3>4. s[b].job = m BY <1>8, <3>1, <3>2, <3>3
    <3> QED BY <1>8, <3>2, <3>4
  <2> QED BY <2>1, <2>2
<1>16. Share(d, m - 1) = f.prev.cpu
  <2>1. PICK c : c = FirstLater(s, m - 1) OBVIOUS
  <2>2. Later(s, m - 1) # {} BY <1>15
  <2>3. c \in Later(s, m - 1) /\ \A b \in Later(s, m - 1) : c <= b BY <1>9, <2>1, <2>2, FirstOfLater
  <2>4. c <= a /\ a <= c /\ a \in Nat /\ c \in Nat BY <1>9, <1>15, <2>3 DEF Later
  <2>5. c = a BY <2>4
  <2> QED BY <2>1, <2>2, <2>5 DEF Share
<1>17. d \in Takes(r, m - 1)
  <2>1. current[d].root = r
    <3>1. f.child.root = current[d].root BY <1>1, <1>8, <1>9 DEF Shapes, Shape
    <3> QED BY <1>2, <1>3, <1>13, <3>1
  <2>2. s[1].kind = "worker" => s[1].job <= m - 1
    <3> SUFFICES ASSUME s[1].kind = "worker" PROVE s[1].job <= m - 1 OBVIOUS
    <3>1. 1 \in 1..Len(s) /\ a # 1 BY <1>8, <1>9
    <3>2. 1 < a BY <1>9, <3>1
    <3>3. s[1].job <= m /\ s[1].job # m BY <1>8, <1>9, <1>11, <3>1, <3>2 DEF Ranked, IsJob
    <3>4. s[1].job \in Nat BY <1>12, <3>1
    <3> QED BY <3>3, <3>4
  <2>3. \A j \in JobsOf(d) : j <= m - 1 => Awaited[j]
    <3>1. JobsOf(d) \subseteq Nat BY <1>9, <1>12 DEF JobsOf
    <3> QED BY <1>8, <3>1
  <2>4. Later(s, m - 1) # {} BY <1>15
  <2> QED BY <1>9, <2>1, <2>2, <2>3, <2>4 DEF Takes
<1>18. d \notin Takes(r, m) \ Joins(r, m)
  <2> SUFFICES ASSUME d \in Takes(r, m) \ Joins(r, m) PROVE FALSE OBVIOUS
  <2>1. \A b \in 1..Len(stack[d]) : IsJob(stack[d][b]) => stack[d][b].job # m
    BY OthersTakeTheSame
  <2> QED BY <1>8, <1>9, <1>10, <2>1
<1>19. f.workers * f.child.cpu <= f.prev.cpu
  <2>1. CpusFit(s, a, envelope) BY <1>1, <1>9 DEF CpuInv, CpusCovered
  <2> QED BY <1>8, <2>1 DEF CpusFit
<1>20. f.workers \in Nat /\ f.child.cpu \in Nat
  <2> HIDE DEF f
  <2>1. f.workers \in 1..Cpu /\ f.child \in Allocs BY <1>10 DEF JobFrames
  <2>2. f.child.cpu \in 0..Cpu BY <2>1 DEF Allocs
  <2> QED BY <2>1, <2>2, Constants
<1> HIDE DEF f, s
<1> QED BY <1>13, <1>14, <1>16, <1>17, <1>18, <1>19, <1>20

LEMMA NextJobFits ==
  ASSUME CpusShared, NEW r, NEW m \in Nat \ {0}, m <= MaxJobs, FitsAfter(r, m - 1),
         envelope[r].cpu \in Nat
  PROVE  FitsAfter(r, m)
<1> DEFINE f == SharesAt(r, m - 1)
           g == SharesAt(r, m)
           N == Joins(r, m)
           R == Takes(r, m) \ N
<1>1. /\ DOMAIN f = Takes(r, m - 1) /\ DOMAIN g = N \cup R /\ N \cap R = {}
      /\ \A t \in DOMAIN f : f[t] = Share(t, m - 1)
      /\ \A t \in N \cup R : g[t] = Share(t, m)
  BY DEF SharesAt, Joins
<1>2. \A t \in R : t \in DOMAIN f /\ g[t] = f[t]
  <2>1. \A t \in R : t \in Takes(r, m - 1) /\ Share(t, m - 1) = Share(t, m) BY OthersTakeTheSame
  <2> QED BY <1>1, <2>1
<1>3. IsTable(f) /\ Claimed(f) <= envelope[r].cpu BY DEF FitsAfter
<1>4. IsTable(g) /\ Claimed(g) <= Claimed(f)
  <2>1. CASE N = {}
    <3>1. R \in SUBSET DOMAIN f BY <1>2
    <3>2. DOMAIN g = DOMAIN Restrict(f, R) /\ \A t \in DOMAIN g : g[t] = Restrict(f, R)[t]
      BY <1>1, <1>2, <2>1 DEF Restrict
    <3> HIDE DEF f, g, N, R
    <3>3. IsTable(Restrict(f, R)) /\ Claimed(Restrict(f, R)) <= Claimed(f) BY <1>3, <3>1, ClaimedPart
    <3>4. IsTable(g) /\ Claimed(g) = Claimed(Restrict(f, R)) BY <3>2, <3>3, ClaimedSame
    <3> QED BY <3>3, <3>4
  <2>2. CASE N # {}
    <3>1. PICK d \in Takes(r, m - 1) : \E k \in Nat, c \in Nat :
           /\ d \notin R
           /\ IsFiniteSet(N) /\ Cardinality(N) <= k
           /\ \A t \in N : Share(t, m) <= c
           /\ k * c <= Share(d, m - 1)
      BY <2>2, JobDivides
    <3>2. PICK k \in Nat, c \in Nat :
           /\ d \notin R
           /\ IsFiniteSet(N) /\ Cardinality(N) <= k
           /\ \A t \in N : Share(t, m) <= c
           /\ k * c <= Share(d, m - 1)
      BY <3>1
    <3>3. \A t \in N : Share(t, m) \in Nat
      <4>1. \A t \in N : t \in Threads /\ stack[t] # <<>> BY DEF Joins, Takes
      <4> QED BY <4>1, ShareWithin
    <3>4. d \in DOMAIN f /\ R \in SUBSET (DOMAIN f \ {d}) /\ k * c <= f[d] BY <1>1, <1>2, <3>1, <3>2
    <3>5. \A t \in N : g[t] \in Nat /\ g[t] <= c BY <1>1, <3>2, <3>3
    <3> HIDE DEF f, g, N, R
    <3> QED BY <1>1, <1>2, <1>3, <3>2, <3>4, <3>5, SharesMove
  <2> QED BY <2>1, <2>2
<1>5. Claimed(g) \in Nat /\ Claimed(f) \in Nat BY <1>3, <1>4, ClaimedNat
<1> HIDE DEF f, g
<1>6. IsTable(g) /\ Claimed(g) <= envelope[r].cpu BY <1>3, <1>4, <1>5
<1> QED BY <1>6 DEF g, FitsAfter

LEMMA JobsFit ==
  ASSUME CpusShared, NEW r \in 1..Len(envelope)
  PROVE  FitsAfter(r, jobs)
<1>1. jobs \in Nat /\ jobs <= MaxJobs /\ MaxJobs \in Nat
  BY SchedulerAssumption DEF CpusShared, Typed, BlasInv
<1>2. envelope[r].cpu \in Nat
  <2> DEFINE S == [budget : Amounts, cpu : 1..Cpu]
  <2>1. envelope \in Seq(S) BY DEF CpusShared, Typed
  <2> HIDE DEF S
  <2>2. envelope[r] \in S BY <2>1
  <2>3. envelope[r].cpu \in 1..Cpu BY <2>2 DEF S
  <2> QED BY <2>3, Constants
<1> DEFINE bad == {m \in Nat : m <= jobs /\ ~FitsAfter(r, m)}
<1>3. bad = {}
  <2> SUFFICES ASSUME bad # {} PROVE FALSE OBVIOUS
  <2>1. PICK m \in bad : \A n \in bad : m <= n BY LeastOf
  <2>2. m \in Nat /\ m <= jobs /\ ~FitsAfter(r, m) BY <2>1
  <2>3. m # 0 BY <2>2, CpusOfTheCall
  <2>4. m - 1 \in Nat /\ m - 1 <= jobs /\ m <= MaxJobs BY <1>1, <2>2, <2>3
  <2>5. m - 1 \notin bad BY <2>1, <2>2
  <2>6. FitsAfter(r, m - 1) BY <2>4, <2>5
  <2> HIDE DEF bad
  <2> QED BY <1>2, <2>2, <2>3, <2>4, <2>6, NextJobFits
<1> QED BY <1>1, <1>3

\* The threads at work for a call share its CPUs and never add to them, however calls and
\* jobs nest (ResourceAllocation.child, run_replicates, worker_scope).
THEOREM CpusAreShared == Spec => []CpuNotOversubscribed
<1>1. CpusShared => CpuNotOversubscribed
  <2> SUFFICES ASSUME CpusShared, NEW r \in DOMAIN envelope
               PROVE  MapThenSumSet(LAMBDA t : current[t].cpu, Busy(r)) <= envelope[r].cpu
    BY DEF CpuNotOversubscribed
  <2>1. Typed /\ BlasInv /\ Shapes BY DEF CpusShared
  <2>2. r \in 1..Len(envelope) BY <2>1 DEF Typed
  <2>3. FitsAfter(r, jobs) BY <2>2, JobsFit
  <2>4. \A t \in Threads : Staged(stack[t], jobs) /\ jobs \in Nat /\ stack[t] \in Seq(Frames)
    BY <2>1 DEF BlasInv, Typed
  <2>5. \A t \in Busy(r) : t \in Takes(r, jobs) /\ Share(t, jobs) = current[t].cpu
    <3> SUFFICES ASSUME NEW t \in Busy(r) PROVE t \in Takes(r, jobs) /\ Share(t, jobs) = current[t].cpu
      OBVIOUS
    <3>1. t \in Threads /\ Working(t) /\ current[t].root = r /\ Attended(t) BY DEF Busy
    <3>2. stack[t] # <<>> BY <3>1 DEF Working, TopIs
    <3>3. \A a \in 1..Len(stack[t]) : stack[t][a].kind \in {"worker", "replicates"} =>
             stack[t][a].job \in 1..jobs
      BY <2>4, <3>1 DEF Staged
    <3>4. Later(stack[t], jobs) = {}
      <4> SUFFICES ASSUME NEW a \in 1..Len(stack[t]), IsJob(stack[t][a]), stack[t][a].job > jobs
                   PROVE FALSE
        BY DEF Later
      <4>1. stack[t][a].job \in 1..jobs BY <3>3 DEF IsJob
      <4> QED BY <2>4, <3>1, <4>1
    <3>5. stack[t][1].kind = "worker" => stack[t][1].job <= jobs
      <4>1. 1 \in 1..Len(stack[t])
        <5>1. stack[t] \in Seq(Frames) BY <2>4, <3>1
        <5>2. Len(stack[t]) \in Nat /\ Len(stack[t]) # 0 BY <3>2, <5>1
        <5> QED BY <5>2
      <4> QED BY <2>4, <3>1, <3>3, <4>1
    <3>6. \A j \in JobsOf(t) : j <= jobs => Awaited[j] BY <3>1 DEF Attended
    <3>7. Share(t, jobs) = current[t].cpu BY <3>4 DEF Share
    <3> QED BY <3>1, <3>2, <3>5, <3>6, <3>7 DEF Takes
  <2> DEFINE S == Busy(r)
             f == SharesAt(r, jobs)
             g == CpusOf(S)
  <2>6. DOMAIN f = Takes(r, jobs) /\ \A t \in Takes(r, jobs) : f[t] = Share(t, jobs) BY DEF SharesAt
  <2>7. DOMAIN g = S /\ \A t \in S : g[t] = current[t].cpu BY DEF CpusOf
  <2>8. IsTable(f) /\ Claimed(f) <= envelope[r].cpu BY <2>3 DEF FitsAfter
  <2>9. IsFiniteSet(S) /\ \A t \in S : current[t].cpu \in Nat
    <3>1. S \subseteq Takes(r, jobs) BY <2>5
    <3>2. IsFiniteSet(Takes(r, jobs)) BY <2>6, <2>8 DEF IsTable
    <3>3. \A t \in Takes(r, jobs) : Share(t, jobs) \in Nat BY <2>6, <2>8 DEF IsTable
    <3> QED BY <2>5, <3>1, <3>2, <3>3, FS_Subset
  <2>10. IsTable(g) /\ MapThenSumSet(LAMBDA t : current[t].cpu, S) = Claimed(g) BY <2>9, SumOfCpus
  <2>11. Claimed(g) <= Claimed(f)
    <3>1. S \in SUBSET DOMAIN f BY <2>5, <2>6
    <3>2. DOMAIN g = DOMAIN Restrict(f, S) /\ \A t \in DOMAIN g : g[t] = Restrict(f, S)[t]
      BY <2>5, <2>6, <2>7, <3>1 DEF Restrict
    <3> HIDE DEF f, g, S
    <3>3. IsTable(Restrict(f, S)) /\ Claimed(Restrict(f, S)) <= Claimed(f) BY <2>8, <3>1, ClaimedPart
    <3>4. Claimed(g) = Claimed(Restrict(f, S)) BY <3>2, <3>3, ClaimedSame
    <3> QED BY <3>3, <3>4
  <2>12. Claimed(f) \in Nat /\ Claimed(g) \in Nat BY <2>8, <2>10, ClaimedNat
  <2>13. envelope[r].cpu \in Int
    <3> DEFINE E == [budget : Amounts, cpu : 1..Cpu]
    <3>1. envelope \in Seq(E) BY <2>1 DEF Typed
    <3> HIDE DEF E
    <3>2. envelope[r] \in E BY <2>2, <3>1
    <3>3. envelope[r].cpu \in 1..Cpu BY <3>2 DEF E
    <3> QED BY <3>3, Constants
  <2> HIDE DEF f, g
  <2> QED BY <2>8, <2>10, <2>11, <2>12, <2>13
<1> QED BY <1>1, ShapesInvariant, BlasInvariant, RunningInvariant, CpuInvariant, EnrolInvariant, PTL
    DEF CpusShared
=============================================================================
