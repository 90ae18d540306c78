---------------------------- MODULE FreshProjection ----------------------------
(***************************************************************************)
(* What an estimator may assume of a fixed-effects (FE) solver it shares   *)
(* and re-weights: once a solver is bound to weights and a tolerance,      *)
(* every projection asked of it is answered, the answer is the projection  *)
(* under exactly these weights, "converged" means that the block passed a  *)
(* stopping test no looser than the tolerance in effect, and the           *)
(* iterations stay within the budget.  A solver may compile a part of      *)
(* itself while it projects; the part keeps the tolerance of that moment,  *)
(* until the solver is bound again, and answers for the solver: a          *)
(* tolerance merely assigned after that is not in effect.  Nothing is said *)
(* of peeling, caches, solver switches or polishing: module Absorber       *)
(* implements this, ColumnPools relies on it.                              *)
(***************************************************************************)
EXTENDS Integers, FiniteSetsExt

CONSTANTS Solvers, NoSolver, Clients, Weights, Tols, MaxIter

VARIABLES bound,    \* per solver: the weights and tolerance it is bound to, and the
                    \* tolerance its compiled part keeps (0: there is none)
          serving,  \* per client: the solver it asked and for what, or NoService
          report    \* per client: the answer it has not taken yet, or NoReport

fvars == <<bound, serving, report>>

Unbound == [weights |-> "none", tol |-> 0, kept |-> 0]
NoService == [of |-> NoSolver, for |-> "block"]
NoReport == [of |-> NoSolver, converged |-> FALSE, iterations |-> 0, tested |-> 0,
             consulted |-> {}]

InUse(o) == \E c \in Clients : serving[c].of = o \/ report[c].of = o

FreshInit == /\ bound = [o \in Solvers |-> Unbound]
             /\ serving = [c \in Clients |-> NoService]
             /\ report = [c \in Clients |-> NoReport]

\* Compiled, or given the weights of the next iteration, between two solves; the
\* compiled part follows, or is given up.
BindTo(o, w, t) ==
  /\ ~InUse(o)
  /\ \E k \in {0, IF bound[o].kept = 0 THEN 0 ELSE t} :
       bound' = [bound EXCEPT ![o] = [weights |-> w, tol |-> t, kept |-> k]]
  /\ UNCHANGED <<serving, report>>

\* absorber.tol = ...: the attribute only.
AssignTol(o, t) ==
  /\ ~InUse(o) /\ bound[o] # Unbound
  /\ bound' = [bound EXCEPT ![o].tol = t]
  /\ UNCHANGED <<serving, report>>

\* A block of columns, or one weak direction that is certified on the solver itself.
Ask(c, o, for) == /\ bound[o] # Unbound
                  /\ serving[c] = NoService /\ report[c] = NoReport
                  /\ serving' = [serving EXCEPT ![c] = [of |-> o, for |-> for]]
                  /\ UNCHANGED <<bound, report>>

\* The first block may find something to compile.
CompilePart(o) ==
  /\ \E c \in Clients : serving[c] = [of |-> o, for |-> "block"]
  /\ bound[o].kept = 0
  /\ bound' = [bound EXCEPT ![o].kept = bound[o].tol]
  /\ UNCHANGED <<serving, report>>

\* The tolerance in effect.
Effective(o) == IF bound[o].kept = 0 THEN bound[o].tol ELSE bound[o].kept
Standard(s) == IF s.for = "block" THEN Effective(s.of) ELSE bound[s.of].tol

Grades == 0..(Max(Tols) + 1)      \* the last one: passed no test

Answer(c) ==
  /\ serving[c] # NoService
  /\ serving' = [serving EXCEPT ![c] = NoService]
  /\ UNCHANGED bound
  /\ \E ok \in BOOLEAN, it \in 0..MaxIter, g \in Grades :
       /\ ok => g <= Standard(serving[c])
       /\ report' = [report EXCEPT ![c] =
            [of |-> serving[c].of, converged |-> ok, iterations |-> it, tested |-> g,
             consulted |-> {bound[serving[c].of].weights}]]

Collect(c) == /\ report[c] # NoReport
              /\ report' = [report EXCEPT ![c] = NoReport]
              /\ UNCHANGED <<bound, serving>>

FreshNext ==
  \/ \E o \in Solvers : \/ \E w \in Weights, t \in Tols : BindTo(o, w, t)
                        \/ \E t \in Tols : AssignTol(o, t)
                        \/ \E c \in Clients, for \in {"block", "direction"} : Ask(c, o, for)
                        \/ CompilePart(o)
  \/ \E c \in Clients : Answer(c) \/ Collect(c)

\* A client that has asked is answered.
FreshSpec == FreshInit /\ [][FreshNext]_fvars /\ \A c \in Clients : WF_fvars(Answer(c))
=============================================================================
