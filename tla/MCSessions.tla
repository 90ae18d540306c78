------------------------------- MODULE MCSessions -------------------------------
(***************************************************************************)
(* The caches of repeated-specification sessions, in memory (SessionCache) *)
(* and on disk (PersistentStore), each explored on its own: `layer` says   *)
(* which one moves, the other stays in one of its initial states.          *)
(***************************************************************************)
EXTENDS MCSessionCache, MCPersistentStore

VARIABLE layer

SessionsInit ==
  \/ /\ layer = "memory"
     /\ Init
     /\ setup = CHOOSE s \in Setups : TRUE
     /\ \E v \in {CHOOSE u \in Values : TRUE} : history = <<[k \in FileColumns |-> v]>>
     /\ cluster = CHOOSE k \in [Procs -> Clusters] : TRUE
     /\ StoreInit
  \/ /\ layer = "disk"
     /\ StoreInit
     /\ session = CHOOSE s \in Sessions : TRUE
     /\ resources = CHOOSE r \in Resources : TRUE
     /\ Init

SessionsNext ==
  \/ layer = "memory" /\ Next /\ UNCHANGED <<layer, storeVars>>
  \/ layer = "disk" /\ StoreNext /\ UNCHANGED <<layer, vars>>

SessionsSpec == SessionsInit /\ [][SessionsNext]_<<layer, vars, storeVars>>
=============================================================================
