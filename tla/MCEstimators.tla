------------------------------- MODULE MCEstimators -------------------------------
(***************************************************************************)
(* The parts of an estimator, each explored on its own: the sample stages  *)
(* of a Poisson fit (PoissonSample), its IRLS loops (PoissonIRLS) and the  *)
(* column pools of its projections (ColumnPools).  `part` says which one   *)
(* moves; the others stay in one of their initial states.                  *)
(***************************************************************************)
EXTENDS MCPoissonSample, MCPoissonIRLS, MCColumnPools

VARIABLE part

SampleAtRest ==
  /\ \E f \in {CHOOSE g \in Fits : TRUE} :
       setting = f.setting /\ design = f.design /\ unit = f.unit
  /\ positive = {}
  /\ SampleInit
LoopsAtRest == cfg = (CHOOSE c \in Configs : TRUE) /\ Init
PoolsAtRest == route = (CHOOSE r \in Routes : TRUE) /\ PoolInit

EstimatorsInit ==
  \/ part = "sample" /\ SampleInit /\ LoopsAtRest /\ PoolsAtRest
  \/ part = "irls" /\ Init /\ SampleAtRest /\ PoolsAtRest
  \/ part = "pools" /\ PoolInit /\ SampleAtRest /\ LoopsAtRest

EstimatorsNext ==
  \/ part = "sample" /\ SampleNext /\ UNCHANGED <<part, vars, pvars>>
  \/ part = "irls" /\ Next /\ UNCHANGED <<part, sampleVars, pvars>>
  \/ part = "pools" /\ PoolNext /\ UNCHANGED <<part, sampleVars, vars>>

EstimatorsSpec == EstimatorsInit /\ [][EstimatorsNext]_<<part, vars, sampleVars, pvars>>
=============================================================================
