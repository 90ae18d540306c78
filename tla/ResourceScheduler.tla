--------------------------- MODULE ResourceScheduler ---------------------------
(***************************************************************************)
(* One resource envelope per estimation call: econhdfe/planner/scheduler.py*)
(* (root lock, nested allocations, worker slices, memory ledger) and       *)
(* run_replicates of econhdfe/resampling/engine.py, which hands slices of  *)
(* the envelope to joblib threads.                                         *)
(*                                                                         *)
(* A thread's position in the code is its stack of open scopes, one frame  *)
(* per `with` block.  Leaving a scope is one step whether the block ended  *)
(* or raised: the code restores in `finally`.  A request the scheduler     *)
(* refuses raises before any state has changed, so it is no step.          *)
(* Memory is counted in units of 32 MiB, the admission floor.              *)
(***************************************************************************)
EXTENDS Integers, Sequences, FiniteSets, FiniteSetsExt, Functions

CONSTANTS
  Callers,      \* threads of the application that call public entry points
  Pool,         \* threads joblib may start
  OwnerPolicy,  \* the policy its user gave the shared reusable model
  OwnerUsers,   \* threads that call methods of one shared reusable model
  Cpu,          \* CPUs of the host
  Budget,       \* largest memory headroom of the host, in units
  Requests,     \* sizes passed to reserve_memory
  Estimates,    \* estimated_worker_bytes; 0 stands for None
  MaxCalls,     \* bound: root calls
  MaxJobs,      \* bound: run_replicates calls
  MaxSeeds,     \* bound: replicates of one job
  CallerOps,    \* bound: scopes a thread of the application opens
  WorkerOps     \* bound: scopes a pool thread opens

Floor == 1      \* 32 MiB
Threads == Callers \cup Pool

NoThread == "nobody"
NoAlloc == [root |-> 0, caps |-> <<0>>, cpu |-> 0]
AutoPolicy == [threads |-> 0, memory |-> 0]     \* an ExecutionConfig left on "auto"
DefaultBlas == Cpu

ASSUME SchedulerAssumption ==
  /\ Callers \cap Pool = {} /\ NoThread \notin Threads
  /\ OwnerUsers \subseteq Threads
  /\ OwnerPolicy \in [threads : 0..Cpu, memory : 0..(2 * Budget)]
  /\ Cpu \in Nat \ {0} /\ Budget \in Nat \ {0}
  /\ Requests \subseteq Nat /\ Estimates \subseteq Nat
  /\ {MaxCalls, MaxJobs, MaxSeeds, CallerOps, WorkerOps} \subseteq Nat

VARIABLES
  lock,      \* _ROOT_LOCK: the thread that holds it
  envelope,  \* the root allocations so far: [budget, cpu]
  ledger,    \* per root allocation, _MemoryLedger.claims
  current,   \* per thread, _CURRENT
  chain,     \* per thread, _RESERVATIONS; a later one has a deeper scope
  stack,     \* per thread, the open scopes
  policy,    \* the execution attribute of the shared reusable model
  blas,      \* the process-wide BLAS thread limit
  jobs,      \* number of run_replicates calls so far
  ops        \* per thread, scopes opened so far

vars == <<lock, envelope, ledger, current, chain, stack, policy, blas, jobs, ops>>

Least(a, b) == IF a <= b THEN a ELSE b
Most(a, b) == IF a >= b THEN a ELSE b

Top(t) == stack[t][Len(stack[t])]
Below(t) == SubSeq(stack[t], 1, Len(stack[t]) - 1)
TopIs(t, k) == stack[t] # <<>> /\ Top(t).kind = k
Push(t, f) == stack' = [stack EXCEPT ![t] = Append(@, f)]
MaxOps(t) == IF t \in Callers THEN CallerOps ELSE WorkerOps
Open(t) == ops[t] < MaxOps(t) /\ ops' = [ops EXCEPT ![t] = @ + 1]

\* The thread runs code of a call or of a replicate's body.
Working(t) == \/ TopIs(t, "call") \/ TopIs(t, "reserve")
              \/ TopIs(t, "worker") /\ Top(t).phase = "body"
InReplicates(t) == \E a \in DOMAIN stack[t] : stack[t][a].kind = "worker"

Init ==
  /\ lock = NoThread
  /\ envelope = <<>>
  /\ ledger = <<>>
  /\ current = [t \in Threads |-> NoAlloc]
  /\ chain = [t \in Threads |-> {}]
  /\ stack = [t \in Threads |-> <<>>]
  /\ policy = OwnerPolicy
  /\ blas = DefaultBlas
  /\ jobs = 0
  /\ ops = [t \in Threads |-> 0]

-----------------------------------------------------------------------------
\* ResourceAllocation: a root, the budgets on the way down to this one, CPUs.
Cap(al) == Min(Range(al.caps))

Claimed(claims) == FoldFunction(LAMBDA a, b : a + b, 0, claims)
Own(t, claims) == Claimed(Restrict(claims, chain[t] \cap DOMAIN claims))

\* _available_locked, given the RSS growth since the root call began and the
\* live headroom of the host (both are read at this moment).
Available_WholeCap(t, al, creditOwn, used, live) ==
  LET charged == Claimed(ledger[al.root]) - (IF creditOwn THEN Own(t, ledger[al.root]) ELSE 0)
  IN Least(Cap(al), Least(Most(0, envelope[al.root].budget - used - charged),
                          Most(0, live - charged)))
Available_SeesNoClaims(t, al, creditOwn, used, live) ==
  Least(Cap(al), Least(Most(0, envelope[al.root].budget - used), live))
Available(t, al, creditOwn, used, live) ==
  LET claims == ledger[al.root]
      own == Own(t, claims)
      charged == IF creditOwn THEN Claimed(claims) - own ELSE Claimed(claims)
      local == IF creditOwn THEN Cap(al) ELSE Most(0, Cap(al) - own)
  IN Least(local, Least(Most(0, envelope[al.root].budget - used - charged),
                        Most(0, live - charged)))

RssGrowth == {0, 1}
LiveHeadroom == {1, Budget}

\* resolve_allocation for a root call, with headroom h of the host; a relaxed
\* policy does not clip an explicit budget to it.
RootBudget(p, h, relaxed) ==
  IF p.memory = 0 THEN h
  ELSE IF relaxed THEN p.memory ELSE Least(p.memory, h)
RootCpu(p) == IF p.threads = 0 THEN Cpu ELSE Least(p.threads, Cpu)

\* resolve_allocation for a nested call: never more than the enclosing one has.
Nested_HostCpu(al, p) ==
  LET b == al.caps[Len(al.caps)]
  IN [al EXCEPT !.caps = Append(@, IF p.memory = 0 THEN b ELSE Least(p.memory, b)),
                !.cpu = RootCpu(p)]
Nested(al, p) ==
  LET b == al.caps[Len(al.caps)]
  IN [al EXCEPT !.caps = Append(@, IF p.memory = 0 THEN b ELSE Least(p.memory, b)),
                !.cpu = Least(@, RootCpu(p))]

\* The resolved configuration a call leaves on the reusable model while it runs.
Resolved(al) == [threads |-> al.cpu, memory |-> al.caps[Len(al.caps)]]

\* ResourceAllocation.child: an equal slice for each of k workers.
Child_Undivided(al, k) == al
Child(al, k) ==
  [al EXCEPT !.caps = Append(@, @[Len(@)] \div k),
             !.cpu = Most(1, @ \div k)]

-----------------------------------------------------------------------------
\* A public entry point called outside any allocation: take _ROOT_LOCK, read
\* the model's policy, resolve the envelope, set the BLAS limit.
EnterRoot(t) ==
  /\ t \in Callers
  /\ stack[t] = <<>>
  /\ lock = NoThread
  /\ Len(envelope) < MaxCalls
  /\ Open(t)
  /\ \E onOwner \in (IF t \in OwnerUsers THEN BOOLEAN ELSE {FALSE}),
        h \in Floor..Budget, relaxed \in BOOLEAN :
       LET p == IF onOwner THEN policy ELSE AutoPolicy
           b == RootBudget(p, h, relaxed)
           r == Len(envelope) + 1
           al == [root |-> r, caps |-> <<b>>, cpu |-> RootCpu(p)]
       IN /\ b >= Floor
          /\ envelope' = Append(envelope, [budget |-> b, cpu |-> al.cpu])
          /\ current' = [current EXCEPT ![t] = al]
          /\ policy' = IF onOwner THEN Resolved(al) ELSE policy
          /\ blas' = al.cpu
          /\ Push(t, [kind |-> "call", prev |-> NoAlloc, onOwner |-> onOwner,
                      saved |-> policy, blas |-> blas])
  /\ ledger' = Append(ledger, <<>>)
  /\ lock' = t
  /\ UNCHANGED <<chain, jobs>>

\* A public entry point called inside a call or a replicate: no lock.
EnterNested(t) ==
  /\ Working(t)
  /\ Open(t)
  /\ \E onOwner \in (IF t \in OwnerUsers THEN BOOLEAN ELSE {FALSE}) :
       LET al == Nested(current[t], IF onOwner THEN policy ELSE AutoPolicy)
       IN /\ Resolved(al).memory >= Floor
          /\ current' = [current EXCEPT ![t] = al]
          /\ policy' = IF onOwner THEN Resolved(al) ELSE policy
          /\ Push(t, [kind |-> "call", prev |-> current[t], onOwner |-> onOwner,
                      saved |-> policy, blas |-> blas])
  /\ UNCHANGED <<lock, envelope, ledger, chain, blas, jobs>>

\* What a call puts back on the model when it ends.
Restored_Nothing(f) == policy
Restored(f) == IF f.onOwner THEN f.saved ELSE policy

\* What the end of a call leaves of the BLAS limit and of the lock.
BlasAfter_Kept(f) == blas
BlasAfter(f) == IF f.prev = NoAlloc THEN f.blas ELSE blas
LockAfter_Held(f) == lock
LockAfter(f) == IF f.prev = NoAlloc THEN NoThread ELSE lock

\* Leaving a call restores the model's policy; leaving the root call restores
\* the BLAS limit and releases the lock as well.
ExitCall(t) ==
  /\ TopIs(t, "call")
  /\ policy' = Restored(Top(t))
  /\ current' = [current EXCEPT ![t] = Top(t).prev]
  /\ blas' = BlasAfter(Top(t))
  /\ lock' = LockAfter(Top(t))
  /\ stack' = [stack EXCEPT ![t] = Below(t)]
  /\ UNCHANGED <<envelope, ledger, chain, jobs, ops>>

-----------------------------------------------------------------------------
\* reserve_memory.  A claim is known by the scope that made it.
Admitted(t, al, amount, additional) ==
  /\ \E used \in RssGrowth, live \in LiveHeadroom :
        additional <= Available(t, al, FALSE, used, live)
  /\ amount <= Cap(al)

\* The claims of this context the ledger still knows.
Known(t) == chain[t] \cap DOMAIN ledger[current[t].root]
Nearest(keys) == CHOOSE k \in keys : \A other \in keys : other[2] <= k[2]

\* The new frame is pushed on frames, the thread's stack.
ReserveAdditive(t, amount, frames) ==
  LET al == current[t]
      key == <<t, Len(frames) + 1>>
  IN /\ Admitted(t, al, amount, amount)
     /\ ledger' = [ledger EXCEPT ![al.root] =
                     [k \in DOMAIN @ \cup {key} |-> IF k = key THEN amount ELSE @[k]]]
     /\ chain' = [chain EXCEPT ![t] = Known(t) \cup {key}]
     /\ stack' = [stack EXCEPT ![t] = Append(frames,
                    [kind |-> "reserve", key |-> key, reuse |-> FALSE, previous |-> 0,
                     prevChain |-> chain[t]])]

\* reuse_parent: extend the nearest claim of this context for a while.
ReserveReuse(t, amount) ==
  LET al == current[t]
      key == Nearest(Known(t))
      previous == ledger[al.root][key]
  IN /\ Known(t) # {}
     /\ Admitted(t, al, amount, Most(previous, amount) - previous)
     /\ ledger' = [ledger EXCEPT ![al.root][key] = Most(previous, amount)]
     /\ chain' = [chain EXCEPT ![t] = Known(t)]
     /\ Push(t, [kind |-> "reserve", key |-> key, reuse |-> TRUE, previous |-> previous,
                 prevChain |-> chain[t]])

Reserve(t) ==
  /\ Working(t)
  /\ Open(t)
  /\ \E amount \in Requests : \/ ReserveAdditive(t, amount, stack[t])
                            \/ ReserveReuse(t, amount)
  /\ UNCHANGED <<lock, envelope, current, policy, blas, jobs>>

\* What is left of the claims when a reservation ends.
Released_Drops(claims, f) == Restrict(claims, DOMAIN claims \ {f.key})
Released(claims, f) ==
  IF f.reuse THEN [claims EXCEPT ![f.key] = f.previous]
  ELSE Restrict(claims, DOMAIN claims \ {f.key})

ExitReserve(t) ==
  /\ TopIs(t, "reserve")
  /\ ledger' = [ledger EXCEPT ![current[t].root] = Released(@, Top(t))]
  /\ chain' = [chain EXCEPT ![t] = Top(t).prevChain]
  /\ stack' = [stack EXCEPT ![t] = Below(t)]
  /\ UNCHANGED <<lock, envelope, current, policy, blas, jobs, ops>>

-----------------------------------------------------------------------------
\* run_replicates: as many workers as seeds, CPUs and memory allow, each with a
\* slice of the envelope.  Only the outermost job sets the BLAS limit.
Workers(al, remaining, floor, seeds) ==
  Most(1, Least(seeds, Least(al.cpu, Most(1, remaining \div floor))))

JobBlas_Unlimited(t) == blas
JobBlas(t) == IF InReplicates(t) THEN blas ELSE 1

Dispatch(t) ==
  /\ Working(t)
  /\ jobs < MaxJobs
  /\ Open(t)
  /\ \E seeds \in 1..MaxSeeds, e \in Estimates, used \in RssGrowth, live \in LiveHeadroom :
       LET al == Nested(current[t], AutoPolicy)
           remaining == Available(t, al, TRUE, used, live)
           k == Workers(al, remaining, Most(Floor, e), seeds)
           child == Child(al, k)
       IN /\ e <= remaining
          /\ Resolved(child).memory >= Floor
          /\ remaining > 0
          /\ current' = [current EXCEPT ![t] = al]
          /\ blas' = JobBlas(t)
          /\ Push(t, [kind |-> "replicates", prev |-> current[t], job |-> jobs + 1,
                      child |-> child, workers |-> k, estimate |-> e, pending |-> seeds,
                      running |-> {}, failed |-> FALSE,
                      blas |-> IF InReplicates(t) THEN 0 ELSE blas])
  /\ jobs' = jobs + 1
  /\ UNCHANGED <<lock, envelope, ledger, chain, policy>>

\* A thread takes the next replicate: a pool thread when the job has several
\* workers, the dispatcher itself when it has one.  worker_scope gives it the
\* slice and no reservations.
NoReservations_Inherited(w, d) == chain[d]
NoReservations(w, d) == {}

StartTask(w, d) ==
  /\ TopIs(d, "replicates")
  /\ LET f == Top(d)
         worker == [kind |-> "worker", prev |-> current[w], prevChain |-> chain[w],
                    slice |-> f.child, job |-> f.job, dispatcher |-> d, estimate |-> f.estimate,
                    phase |-> IF f.estimate = 0 THEN "body" ELSE "admission"]
         taken == Append(Below(d), [f EXCEPT !.pending = @ - 1, !.running = @ \cup {w}])
     IN /\ f.pending > 0
        /\ Cardinality(f.running) < f.workers
        /\ IF f.workers = 1
           THEN /\ w = d
                /\ ~f.failed
                /\ stack' = [stack EXCEPT ![d] = Append(taken, worker)]
           ELSE /\ w \in Pool
                /\ stack[w] = <<>>
                /\ stack' = [stack EXCEPT ![d] = taken, ![w] = <<worker>>]
        /\ current' = [current EXCEPT ![w] = f.child]
        /\ chain' = [chain EXCEPT ![w] = NoReservations(w, d)]
  /\ UNCHANGED <<lock, envelope, ledger, policy, blas, jobs, ops>>

\* The estimate of the worker is reserved before its body runs.
ReserveEstimate(w) ==
  /\ TopIs(w, "worker")
  /\ Top(w).phase = "admission"
  /\ ReserveAdditive(w, Top(w).estimate, Append(Below(w), [Top(w) EXCEPT !.phase = "end"]))
  /\ UNCHANGED <<lock, envelope, current, policy, blas, jobs, ops>>

\* The outcome of w's replicate among the frames of the thread that waits for it.
Settled(frames, job, w, failure) ==
  [a \in DOMAIN frames |->
     IF frames[a].kind = "replicates" /\ frames[a].job = job
     THEN [frames[a] EXCEPT !.running = @ \ {w}, !.failed = @ \/ failure]
     ELSE frames[a]]

\* A replicate ends: its outcome is kept (a value or a skippable failure), or an
\* exception that must propagate fails the job (a refused reservation always does).
\* joblib drops the outcome of a replicate whose job is no longer there.
EndTask(w) ==
  /\ TopIs(w, "worker")
  /\ \E failure \in (IF Top(w).phase = "admission" THEN {TRUE} ELSE BOOLEAN) :
       stack' = [[stack EXCEPT ![w] = Below(w)]
                   EXCEPT ![Top(w).dispatcher] = Settled(@, Top(w).job, w, failure)]
  /\ current' = [current EXCEPT ![w] = Top(w).prev]
  /\ chain' = [chain EXCEPT ![w] = Top(w).prevChain]
  /\ UNCHANGED <<lock, envelope, ledger, policy, blas, jobs, ops>>

\* The dispatcher has every outcome, or raises the first failure.  joblib does
\* not wait for threads that still run when a replicate failed.
EndJob(d) ==
  /\ TopIs(d, "replicates")
  /\ Top(d).failed \/ (Top(d).pending = 0 /\ Top(d).running = {})
  /\ current' = [current EXCEPT ![d] = Top(d).prev]
  /\ blas' = IF Top(d).blas = 0 THEN blas ELSE Top(d).blas
  /\ stack' = [stack EXCEPT ![d] = Below(d)]
  /\ UNCHANGED <<lock, envelope, ledger, chain, policy, jobs, ops>>

\* What thread t may do next.
Step(t) == \/ EnterRoot(t) \/ EnterNested(t) \/ ExitCall(t)
           \/ Reserve(t) \/ ExitReserve(t) \/ ReserveEstimate(t)
           \/ Dispatch(t) \/ EndTask(t) \/ EndJob(t)
           \/ \E d \in Threads : StartTask(t, d)

Next == \E t \in Threads : Step(t)

\* Every thread that can go on does: the bodies of calls and replicates end.
Fairness == \A t \in Threads : WF_vars(Step(t))

Spec == Init /\ [][Next]_vars /\ Fairness

-----------------------------------------------------------------------------
Amounts == 0..(2 * Budget)
Policies == [threads : 0..Cpu, memory : 0..(2 * Budget)]
Keys == Threads \X Nat

IsAlloc(al) == /\ al.root \in 0..Len(envelope)
               /\ al.cpu \in 0..Cpu
               /\ al.caps \in Seq(Amounts) /\ al.caps # <<>>

IsFrame(f) ==
  \/ f.kind = "call" /\ IsAlloc(f.prev) /\ f.onOwner \in BOOLEAN /\ f.saved \in Policies
  \/ f.kind = "worker" /\ IsAlloc(f.prev) /\ f.job \in 1..jobs /\ f.dispatcher \in Threads
     /\ f.phase \in {"admission", "body", "end"}
  \/ f.kind = "reserve" /\ f.key \in Keys /\ f.previous \in Amounts
  \/ f.kind = "replicates" /\ IsAlloc(f.prev) /\ IsAlloc(f.child) /\ f.job \in 1..jobs
     /\ f.workers \in 1..Cpu /\ f.pending \in 0..MaxSeeds /\ f.running \subseteq Threads

TypeOK ==
  /\ lock \in Threads \cup {NoThread}
  /\ \A r \in DOMAIN envelope : envelope[r].budget \in Amounts /\ envelope[r].cpu \in 1..Cpu
  /\ \A r \in DOMAIN ledger : \A k \in DOMAIN ledger[r] : k \in Keys /\ ledger[r][k] \in Amounts
  /\ \A t \in Threads : /\ IsAlloc(current[t])
                        /\ chain[t] \subseteq Keys
                        /\ \A a \in DOMAIN stack[t] : IsFrame(stack[t][a])
  /\ policy \in Policies
  /\ blas \in 1..Cpu
  /\ DOMAIN ledger = DOMAIN envelope

\* Admission is atomic across workers and never gives out more than the root
\* call was admitted with, extensions of a parent's claim included.
LedgerWithinEnvelope == \A r \in DOMAIN ledger : Claimed(ledger[r]) <= envelope[r].budget

\* Scopes of thread t from its slice on: everything, or what is above the
\* innermost replicate it runs.
Depth(t) == Len(stack[t])
SliceStart(t) == LET W == {a \in 1..Depth(t) : stack[t][a].kind = "worker"}
                 IN IF W = {} THEN 0 ELSE Max(W)

\* Every claim belongs to an open scope and every open scope's claim is in the
\* ledger: nothing leaks when bodies raise, nothing is released twice.
ClaimsAreOpenScopes ==
  \A r \in DOMAIN ledger :
    DOMAIN ledger[r] =
      UNION {{f.key : f \in {g \in Range(stack[t]) : g.kind = "reserve" /\ ~g.reuse}} :
               t \in {u \in Threads : current[u].root = r}}

\* The ledger under failures, nesting and extensions: what it holds are exactly the
\* claims of open scopes, and together they fit the envelope (_MemoryLedger).
LedgerIsSound == TypeOK /\ LedgerWithinEnvelope /\ ClaimsAreOpenScopes

\* "Worker scopes never borrow their dispatcher's reservations": the claims a
\* thread may count as its own, or extend, were made in its own slice.
NeverBorrows ==
  \A t \in Threads : \A k \in chain[t] : k[1] = t /\ k[2] > SliceStart(t)

\* A replicate's own claims never exceed the slice it was handed, whatever
\* nested calls and extensions it makes.
OwnWithinSlice ==
  \A t \in Threads : SliceStart(t) > 0 =>
     Own(t, ledger[current[t].root]) <= Cap(stack[t][SliceStart(t)].slice)

\* The jobs that some dispatcher still waits for, which itself is not a stray
\* replicate of a job that was given up (a job is younger than those it is in).
JobsOf(t) == {stack[t][a].job : a \in {b \in DOMAIN stack[t] : stack[t][b].kind = "worker"}}
Awaited[j \in 0..MaxJobs] ==
  \E d \in Threads : \E a \in DOMAIN stack[d] :
     /\ stack[d][a].kind = "replicates" /\ stack[d][a].job = j
     /\ \A i \in JobsOf(d) : i < j => Awaited[i]

Attended(t) == \A j \in JobsOf(t) : Awaited[j]

\* The CPUs promised to the threads at work for one call never exceed the
\* call's own, and kernels of replicates run with one BLAS thread.
Busy(r) == {t \in Threads : Working(t) /\ current[t].root = r /\ Attended(t)}
CpuNotOversubscribed ==
  \A r \in DOMAIN envelope :
     MapThenSumSet(LAMBDA t : current[t].cpu, Busy(r)) <= envelope[r].cpu
OneBlasThreadInReplicates ==
  \A t \in Threads : InReplicates(t) /\ Attended(t) => blas = 1

\* Between root calls the process-wide limit is the caller's again.
BlasRestored == lock = NoThread => blas = DefaultBlas

\* The limit is a property of the process: replicates run with one thread however
\* calls nest around them, and the caller's own limit comes back after failures.
BlasFollowsCalls == OneBlasThreadInReplicates /\ BlasRestored

\* Two workers that each keep to their slice never refuse each other: while all
\* claims are made by workers of one job in the slices it gave them, each can
\* still claim the rest of its own.
SliceIsGuaranteed ==
  \A d \in Threads :
    TopIs(d, "replicates") /\ Top(d).workers > 1 =>
      LET f == Top(d)
          claims == ledger[f.child.root]
      IN (\A k \in DOMAIN claims : k[1] \in f.running /\ SliceStart(k[1]) = 1) =>
           \A w \in f.running :
              Cap(f.child) - Own(w, claims) <= envelope[f.child.root].budget - Claimed(claims)

\* A slice is all a worker can use, none of its dispatcher's claims and no more
\* than it was handed, and whatever its siblings do it can use all of it.
KeepsToSlice == NeverBorrows /\ OwnWithinSlice /\ SliceIsGuaranteed

\* "Resolve policy once at public entry and restore reusable-model settings"
\* (managed_execution): no call on the model is open, so its policy is its own.
OwnerRestored ==
  (\A t \in Threads : \A a \in DOMAIN stack[t] :
      stack[t][a].kind = "call" => ~stack[t][a].onOwner) => policy = OwnerPolicy

\* Every call returns, every replicate ends and the root lock comes free.
EverythingReturns == <>[](lock = NoThread /\ \A t \in Threads : stack[t] = <<>>)
=============================================================================
