------------------------------ MODULE Calibration ------------------------------
(***************************************************************************)
(* How many threads an automatic policy uses: measured once per machine    *)
(* state and kept in memory and in one JSON file that every process of a   *)
(* user reads whole and replaces whole (planner/calibration.py).           *)
(*                                                                         *)
(* One call at a time in a process (_CALIBRATION_LOCK); processes only     *)
(* meet in the file.  CPUs and memory change under a running call: a quota,*)
(* an affinity mask, other programs.  Timings are abstracted: a measurement*)
(* is told by the machine state, cap and array size it was taken with.     *)
(***************************************************************************)
EXTENDS Integers, FiniteSets

CONSTANTS
  Users,           \* processes
  Cpus,            \* values of effective_cpu_count()
  Rooms,           \* memory a probe may take, in units of 8 MiB
  FullProbe,       \* _DEFAULT_TARGET_BYTES in the same unit
  MaxAsks,         \* bound on calls
  MaxShifts        \* bound on changes of the machine and accidents

ASSUME CalibrationAssumption ==
  /\ Cpus \subseteq Nat \ {0} /\ Cpus # {} /\ Rooms \subseteq Nat /\ Rooms # {}
  /\ FullProbe \in Nat \ {0} /\ MaxAsks \in Nat /\ MaxShifts \in Nat

VARIABLES
  cpus, room,      \* the machine
  shifts, calls,   \* changes so far, calls so far
  memory,          \* _MEMORY_CACHE of each process: [fingerprint -> measurement]
  file,            \* entries of the JSON file: [fingerprint -> measurement]
  asking           \* the call of each process

calibrationVars == <<cpus, room, shifts, calls, memory, file, asking>>

NoEntries == [k \in {} |-> 0]
WithEntry(k, m, entries) == [i \in {k} \cup DOMAIN entries |-> IF i = k THEN m ELSE entries[i]]
Smaller(a, b) == IF a < b THEN a ELSE b
EffectiveCap(asked) == Smaller(cpus, asked)
RuntimeFingerprint(cap) == <<cpus, cap>>
AllowedProbe == Smaller(FullProbe, room)
SingleOrFull(m) == m.cap = 1 \/ m.target >= FullProbe

\* _valid_calibration: right machine, right cap, and an array large enough, or
\* no twice as large one allowed now, or no probing now at all.
Valid_NoFingerprint(m, c) == m.source # "fallback" /\ m.cap = c.cap
Valid(m, c) ==
  /\ m.source \in {"measured", "single_thread"}
  /\ m.fingerprint = c.fingerprint /\ m.cap = c.cap
  /\ m.cap = 1 \/ m.target >= 1
  /\ SingleOrFull(m) \/ c.deferred \/ AllowedProbe < Smaller(FullProbe, 2 * m.target)

Answer(p, m, from) ==
  asking' = [asking EXCEPT ![p] = [@ EXCEPT !.at = "served", !.measured = m, !.from = from, !.data = NoEntries]]

-----------------------------------------------------------------------------
CalibrationInit ==
  /\ cpus \in Cpus /\ room \in Rooms
  /\ shifts = 0 /\ calls = 0
  /\ memory = [p \in Users |-> NoEntries]
  /\ file = NoEntries
  /\ asking = [p \in Users |-> [at |-> "idle"]]

Fallback(c) == [fingerprint |-> c.fingerprint, cap |-> c.cap, target |-> 0, source |-> "fallback"]

\* Cap and fingerprint are taken first; then the memory of the process.  The
\* call is deferred when memory is reserved or parallel workers run.
Ask(p) ==
  /\ asking[p].at \in {"idle", "served"} /\ calls < MaxAsks
  /\ calls' = calls + 1
  /\ \E asked \in Cpus, deferred \in BOOLEAN :
       LET cap == EffectiveCap(asked)
           call == [at |-> "load", cap |-> cap, fingerprint |-> RuntimeFingerprint(cap),
                    deferred |-> deferred, data |-> NoEntries, from |-> "none", room |-> 0,
                    measured |-> [source |-> "none"]]
           held == memory[p]
       IN asking' = [asking EXCEPT ![p] =
            IF call.fingerprint \in DOMAIN held /\ Valid(held[call.fingerprint], call)
            THEN [call EXCEPT !.at = "served", !.from = "memory", !.room = room,
                                 !.measured = held[call.fingerprint]]
            ELSE call]
  /\ UNCHANGED <<cpus, room, shifts, memory, file>>

\* _load_cache, and the entry of this fingerprint.
Load(p) ==
  LET c == asking[p] IN
  /\ c.at = "load"
  /\ IF c.fingerprint \in DOMAIN file /\ Valid(file[c.fingerprint], c)
     THEN /\ memory' = [memory EXCEPT ![p] = WithEntry(c.fingerprint, file[c.fingerprint], @)]
          /\ asking' = [asking EXCEPT ![p] = [c EXCEPT !.at = "served", !.from = "file", !.room = room,
                                                       !.measured = file[c.fingerprint]]]
     ELSE asking' = [asking EXCEPT ![p] = [c EXCEPT !.at = "probe", !.data = file]] /\ UNCHANGED memory
  /\ UNCHANGED <<cpus, room, shifts, calls, file>>

\* calibrate_threads takes cap and fingerprint once more; any failure is
\* answered with one thread and kept nowhere.
Probe(p) ==
  LET c == asking[p]
      cap == EffectiveCap(c.cap)
      measured == [fingerprint |-> RuntimeFingerprint(cap), cap |-> cap,
                   target |-> IF cap = 1 THEN 0 ELSE AllowedProbe,
                   source |-> IF cap = 1 THEN "single_thread" ELSE "measured"]
  IN
  /\ c.at = "probe"
  /\ \/ Answer(p, Fallback(c), "none")
     \/ /\ c.cap = 1 \/ ~c.deferred
        /\ cap = 1 \/ AllowedProbe >= 1
        /\ asking' = [asking EXCEPT ![p] = [c EXCEPT !.at = "keep", !.measured = measured]]
  /\ UNCHANGED <<cpus, room, shifts, calls, memory, file>>

\* The file is replaced by the entries read before the probe and this one, when
\* the probe was a full one and the directory can be written.
Keep(p) ==
  LET c == asking[p] IN
  /\ c.at = "keep"
  /\ \/ UNCHANGED file
     \/ SingleOrFull(c.measured) /\ file' = WithEntry(c.fingerprint, c.measured, c.data)
  /\ memory' = [memory EXCEPT ![p] = WithEntry(c.fingerprint, c.measured, @)]
  /\ Answer(p, c.measured, "probe")
  /\ UNCHANGED <<cpus, room, shifts, calls>>

-----------------------------------------------------------------------------
\* The machine changes, a process dies with its memory, the file is lost or
\* can no longer be read.
Shift(A) == shifts < MaxShifts /\ shifts' = shifts + 1 /\ A
ChangeMachine ==
  Shift(\E c \in Cpus, r \in Rooms : <<c, r>> # <<cpus, room>> /\ cpus' = c /\ room' = r)
  /\ UNCHANGED <<calls, memory, file, asking>>
Die(p) ==
  /\ Shift(asking' = [asking EXCEPT ![p] = [at |-> "idle"]])
  /\ memory' = [memory EXCEPT ![p] = NoEntries]
  /\ UNCHANGED <<cpus, room, calls, file>>
LoseFile ==
  Shift(file # NoEntries /\ file' = NoEntries)
  /\ UNCHANGED <<cpus, room, calls, memory, asking>>

CalibrationNext ==
  \/ \E p \in Users : Ask(p) \/ Load(p) \/ Probe(p) \/ Keep(p) \/ Die(p)
  \/ ChangeMachine \/ LoseFile
CalibrationSpec == CalibrationInit /\ [][CalibrationNext]_calibrationVars

-----------------------------------------------------------------------------
\* A call never gets more threads than its own cap; what it gets without
\* measuring was measured on the machine as this call found it, with an array
\* of full size or with more than half of what it could take now; and a file
\* that processes overwrite for each other holds nothing but whole
\* measurements, a fallback is kept nowhere (planner/calibration.py:439, 472).
ServedCalibrationFits ==
  /\ \A p \in Users : asking[p].at = "served" =>
       LET c == asking[p] IN
       /\ c.measured.cap <= c.cap
       /\ c.from \in {"memory", "file"} =>
            /\ c.measured.fingerprint = c.fingerprint
            /\ \/ SingleOrFull(c.measured)
               \/ c.deferred
               \/ 2 * c.measured.target > Smaller(FullProbe, c.room)
  /\ \A p \in Users : \A k \in DOMAIN memory[p] : memory[p][k].source # "fallback"
  /\ \A k \in DOMAIN file : SingleOrFull(file[k]) /\ file[k].source # "fallback"
=============================================================================
