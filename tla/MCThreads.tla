------------------------------- MODULE MCThreads -------------------------------
(***************************************************************************)
(* Threads of one process, each part explored on its own: callers and      *)
(* replicates that share the machine (ResourceScheduler), and two threads  *)
(* that project with one FE solver (Absorber).  `part` says which one      *)
(* moves; the other stays in its initial state, where it owes nothing.     *)
(***************************************************************************)
EXTENDS MCResourceScheduler, Absorber

VARIABLE part

Generic(m, acc, terms, peel) == [kind |-> "generic", method |-> m, acceleration |-> acc,
                                 terms |-> terms, peel |-> peel]
MCShapes == {Generic("map", a, 2, p) : a \in {"cg", "auto"}, p \in {"none", "some"}}
              \cup {Generic("map", "cg", 2, "all"), Generic("map", "cg", 1, "none"),
                    Generic("map", "none", 2, "none"), Generic("lsmr", "none", 2, "some"),
                    [Generic("map", "none", 2, "none") EXCEPT !.kind = "twoway"]}

ThreadsInit == part \in {"scheduler", "solver"} /\ Init /\ AbsorberInit

ThreadsNext ==
  \/ part = "scheduler" /\ Next /\ UNCHANGED <<part, avars>>
  \/ part = "solver" /\ AbsorberNext /\ UNCHANGED <<part, vars>>

\* A thread of the scheduler is not held up while the scheduler is the part that
\* moves; a solver nobody has asked has nothing to do.
ThreadsSpec ==
  /\ ThreadsInit /\ [][ThreadsNext]_<<part, vars, avars>>
  /\ \A t \in Threads : WF_vars(part = "scheduler" /\ Step(t))
  /\ AbsorberFairness
=============================================================================
