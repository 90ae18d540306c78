----------------------------- MODULE CoreProjection -----------------------------
(***************************************************************************)
(* The numerical core and the projection that runs on it: HDFEAbsorber     *)
(* keeps the rows build_numerical_core left, renumbers their codes, hands  *)
(* the compact block to the kernels and scatters the answer back           *)
(* (residualize of econhdfe/hdfe/absorber.py, the core branch).            *)
(***************************************************************************)
EXTENDS NumericalCore

CONSTANTS Threads, Jobs

VARIABLES term, job, index, lost, todo, work, scratch

K == INSTANCE ProjectionKernels

ASSUME CoreProjectionAssumption ==
  Jobs \subseteq [width : Nat \ {0}, float64 : BOOLEAN, indexed : BOOLEAN,
                  fused : Nat \ {0}, zero : SUBSET Rows, weighted : BOOLEAN]

kvars == <<job, index, lost, todo, work, scratch>>
cvars == <<vars, term, kvars>>

\* core_index, the flat positions of the surviving rows: the a-th row of the
\* compact block is the a-th survivor.
CoreIndex(a) == CHOOSE i \in alive : Cardinality({k \in alive : k <= i}) = a

CInit == /\ Init
         /\ term = 0
         /\ job = <<>> /\ index = <<>> /\ lost = <<>> /\ todo = {} /\ work = <<>> /\ scratch = <<>>

CorePeel == Next /\ UNCHANGED <<term, kvars>>

\* The sweep reaches term j with a raw block of the core's rows (the columns of
\* each term are tracked from their state before it).
Begin(j) ==
  /\ pc = "done"
  /\ alive # {}
  /\ term = 0
  /\ term' = j
  /\ \E r \in Jobs :
       LET n == Cardinality(alive)
       IN K!Start([codes |-> [a \in 1..n |-> coreCode[j][CoreIndex(a)]],
                   levels |-> Cardinality({coreCode[j][i] : i \in alive}),
                   width |-> r.width, float64 |-> r.float64, indexed |-> r.indexed,
                   fused |-> r.fused,
                   weights |-> IF r.weighted
                               THEN [a \in 1..n |-> IF CoreIndex(a) \in r.zero THEN 0 ELSE 1]
                               ELSE <<>>])
  /\ UNCHANGED vars

Project == term # 0 /\ K!Step /\ UNCHANGED <<vars, term>>

CNext == CorePeel \/ (\E j \in Terms : Begin(j)) \/ Project

CSpec == CInit /\ [][CNext]_cvars /\ WF_cvars(CNext)

-----------------------------------------------------------------------------
\* The projection that ran on the core centred each surviving row once, on the
\* survivors that share its level in the sample the peel was given: neither the
\* renumbering, nor the row index and its contiguity certificate, nor the block
\* width, nor the interleaving of threads can show in the result.
CoreCentred ==
  /\ CoreCodesArePartition
  /\ term # 0 /\ K!Finished =>
    LET weightless(i) ==
          job.weights # <<>> /\ \A a \in 1..Cardinality(alive) :
            sample.code[term][CoreIndex(a)] = sample.code[term][i] => job.weights[a] = 0
    IN \A a \in 1..Cardinality(alive), j \in 1..job.width :
         lost[<<a, j>>] =
           IF weightless(CoreIndex(a)) THEN <<>>
           ELSE <<{b \in 1..Cardinality(alive) :
                     sample.code[term][CoreIndex(b)] = sample.code[term][CoreIndex(a)]} \X {j}>>
=============================================================================
