------------------------------ MODULE MCExecution ------------------------------
(***************************************************************************)
(* How calls share a machine, each part explored on its own: `part` says   *)
(* which one moves, the others stay in one of their initial states.  The   *)
(* scheduler with nested jobs (ResourceScheduler), a PPML model fitted     *)
(* again under changing policies (ReusableModel), and two processes that   *)
(* calibrate threads (Calibration).                                        *)
(***************************************************************************)
EXTENDS MCResourceScheduler, ReusableModel, Calibration

CONSTANTS u1, u2
VARIABLE part

\* Two labellings of the same codes, other codes, and one row more.
MCFrames == {[labels |-> "a", codes |-> "s", rows |-> 1], [labels |-> "b", codes |-> "s", rows |-> 1],
             [labels |-> "c", codes |-> "t", rows |-> 1], [labels |-> "c", codes |-> "t", rows |-> 2]}
MCPolicies == {[cache |-> "on", resources |-> 0], [cache |-> "on", resources |-> 1],
               [cache |-> "off", resources |-> 0]}

ModelRests ==
  /\ dataframe = CHOOSE d \in Frames : TRUE
  /\ request = CHOOSE r \in ModelPolicies : TRUE
  /\ ReusableInit
  /\ allowed = 0 /\ compiled.validation = "none"
ThreadsRest ==
  /\ cpus = CHOOSE c \in Cpus : TRUE
  /\ room = CHOOSE r \in Rooms : TRUE
  /\ CalibrationInit

ExecutionInit ==
  /\ Init
  /\ \/ part = "scheduler" /\ ModelRests /\ ThreadsRest
     \/ part = "model" /\ ReusableInit /\ ThreadsRest
     \/ part = "calibration" /\ CalibrationInit /\ ModelRests

ExecutionNext ==
  /\ UNCHANGED part
  /\ \/ part = "scheduler" /\ Next /\ UNCHANGED <<reusableVars, calibrationVars>>
     \/ part = "model" /\ ReusableNext /\ UNCHANGED <<vars, calibrationVars>>
     \/ part = "calibration" /\ CalibrationNext /\ UNCHANGED <<vars, reusableVars>>

ExecutionSpec == ExecutionInit /\ [][ExecutionNext]_<<part, vars, reusableVars, calibrationVars>>
=============================================================================
