----------------------------- MODULE SessionCache -----------------------------
(***************************************************************************)
(* The in-memory caches of a repeated-specification session,               *)
(* _LinearHDFESessionBase of econhdfe/sessions.py, with the default        *)
(* cache_validation="signature", over a DataFrame the caller may change    *)
(* between calls.                                                          *)
(*                                                                         *)
(* Three caches feed one another: the codes of single FE columns, the      *)
(* compiled FE entries (least recently used first) with their raw and      *)
(* partialled-out columns, and the full numeric columns.  Every reservation*)
(* of memory may trim them in the middle of a call.  A column's content is *)
(* its version, so a signature is the version it was taken from.           *)
(***************************************************************************)
EXTENDS Integers, Sequences, FiniteSets

CONSTANTS FE,          \* columns that fixed effects are built from
          Aux,         \* weight and cluster columns
          Num,         \* outcome and regressor columns
          Sessions,    \* sessions that are explored, see SessionType
          MaxVersion,  \* bound on the changes of one column
          Resources    \* resource allocations a call may be given

Columns == FE \cup Aux \cup Num
Versions == 1..MaxVersion
Absent == 0
Copy == Versions \cup {Absent}

\* A session: its class (OLSHDFESession or IVHDFESession), ExecutionConfig(cache="off"),
\* what it estimates, what its caller changes between calls, and whether a call
\* may raise (missing values, no convergence, no memory).
SpecType == [absorb : SUBSET FE, cols : SUBSET Num]
SessionType == [ols : BOOLEAN, off : BOOLEAN, specs : SUBSET SpecType,
                mutable : SUBSET Columns, mayFail : BOOLEAN]

ASSUME SessionAssumption ==
  /\ FE \cap Aux = {} /\ FE \cap Num = {} /\ Aux \cap Num = {}
  /\ Sessions \subseteq SessionType
  /\ MaxVersion \in Nat \ {0}

VARIABLES session,     \* how the session was constructed, never changed
          data,        \* version of every column of the caller's DataFrame
          entries,     \* _entries, in order of use
          components,  \* _component_cache: version of the cached codes of an FE column
          rawFull,     \* _raw_full: version of the cached full numeric column
          pc,          \* where the call is
          todo,        \* what is left of it: FE groups to prepare, then fits
          pending,     \* columns still to be read for the first task of todo
          missing,     \* columns read and not yet partialled out
          resources,   \* the allocation of this call
          design,      \* versions of the raw columns the fit has stacked
          served       \* what the last fit was computed from

caches == <<entries, components, rawFull>>
vars == <<session, data, caches, pc, todo, pending, missing, resources, design, served>>

Entry == [absorb : SUBSET FE, codes : [FE -> Copy], sig : [Columns -> Copy],
          aux : [Aux -> Copy], res : Resources,
          raw : [Num -> Copy], within : [Num -> Copy]]
Task == [kind : {"prewarm", "group", "fit"}, absorb : SUBSET FE, cols : SUBSET Num,
         prewarmed : BOOLEAN]
NotServed == [by |-> "nothing"]
NoColumns == [n \in Num |-> Absent]
NoCodes == [c \in FE |-> Absent]

Init == /\ session \in Sessions
        /\ data = [c \in Columns |-> 1]
        /\ entries = <<>>
        /\ components = NoCodes
        /\ rawFull = NoColumns
        /\ pc = "idle"
        /\ todo = <<>>
        /\ pending = {}
        /\ missing = {}
        /\ resources \in Resources
        /\ design = NoColumns
        /\ served = NotServed

-----------------------------------------------------------------------------
\* Operators on a triple of caches [entries, components, rawFull].
Now == [entries |-> entries, components |-> components, rawFull |-> rawFull]
Empty == [entries |-> <<>>, components |-> NoCodes, rawFull |-> NoColumns]

\* _prune_raw_cache: a full column stays only while an entry has a copy of it.
Prune(c) ==
  [c EXCEPT !.rawFull = [n \in Num |->
     IF \E a \in DOMAIN c.entries : c.entries[a].raw[n] # Absent
                                    \/ c.entries[a].within[n] # Absent
     THEN c.rawFull[n] ELSE Absent]]

\* The sequence without the entries of a set of indices, order kept.
Without(s, gone) ==
  LET kept == {a \in DOMAIN s : a \notin gone}
      nth(k) == CHOOSE a \in kept : Cardinality({b \in kept : b <= a}) = k
  IN [k \in 1..Cardinality(kept) |-> s[nth(k)]]

\* _trim_cache: the caches fit the budget, or the FE codes go and then the
\* least recently used entries, never the one in use, until they fit.  How many
\* must go depends on sizes and on the host's memory, which the model leaves open.
Trimmed(c, protect) ==
  LET removable == {a \in DOMAIN c.entries : c.entries[a].absorb # protect}
      oldest(k) == {a \in removable : Cardinality({b \in removable : b <= a}) <= k}
  IN {c} \cup
     {Prune([c EXCEPT !.components = NoCodes, !.entries = Without(@, oldest(k))])
        : k \in 0..Cardinality(removable)}

Nothing == {}    \* no entry to protect

\* _full_numeric: read a column through the full-column cache.  A column that
\* has to be read again invalidates its copies in every entry.
Drop_RawOnly(e, n) == [e EXCEPT !.raw[n] = Absent]
Drop(e, n) == [e EXCEPT !.raw[n] = Absent, !.within[n] = Absent]
FullNumeric_KeepsWithin(c, n) == [c EXCEPT !.rawFull[n] = data[n]]
FullNumeric_LastEntryOnly(c, n) ==
  IF c.rawFull[n] = data[n] THEN c
  ELSE [c EXCEPT !.rawFull[n] = data[n],
                 !.entries = [a \in DOMAIN @ |->
                                IF a = Len(c.entries) THEN Drop(@[a], n) ELSE @[a]]]
FullNumeric(c, n) ==
  IF c.rawFull[n] = data[n] THEN c
  ELSE [c EXCEPT !.rawFull[n] = data[n],
                 !.entries = [a \in DOMAIN @ |-> Drop(@[a], n)]]

Install(c) == /\ entries' = c.entries
              /\ components' = c.components
              /\ rawFull' = c.rawFull

-----------------------------------------------------------------------------
\* The caller changes a column of the DataFrame between two calls.
Mutate(c) ==
  /\ pc = "idle"
  /\ c \in session.mutable
  /\ data[c] < MaxVersion
  /\ data' = [data EXCEPT ![c] = @ + 1]
  /\ UNCHANGED <<session, caches, pc, todo, pending, missing, resources, design, served>>

Prepare(kind, absorb, cols) ==
  [kind |-> kind, absorb |-> absorb, cols |-> cols, prewarmed |-> FALSE]
Fit(s, prewarmed) ==
  [kind |-> "fit", absorb |-> s.absorb, cols |-> s.cols, prewarmed |-> prewarmed]

\* fit_many groups the specifications by FE set, fewest FE columns first.
GroupOrders(batch) ==
  LET A == {batch[i].absorb : i \in DOMAIN batch}
  IN {s \in [1..Cardinality(A) -> A] :
        /\ {s[k] : k \in DOMAIN s} = A
        /\ \A k, l \in DOMAIN s : k < l => Cardinality(s[k]) <= Cardinality(s[l])}
ColsOf(batch, absorb) ==
  UNION {batch[i].cols : i \in {k \in DOMAIN batch : batch[k].absorb = absorb}}

Plans ==
  {<<Fit(s, FALSE)>> : s \in session.specs}
  \cup {<<Prepare("prewarm", s.absorb, s.cols)>> : s \in session.specs}
  \cup UNION {{[k \in DOMAIN o |-> Prepare("group", o[k], ColsOf(b, o[k]))]
                  \o [i \in DOMAIN b |-> Fit(b[i], TRUE)] : o \in GroupOrders(b)}
              : b \in session.specs \X session.specs}

\* What _session_cache_policy leaves at the start and at the end of a call.
AtBoundary_Kept(c) == Trimmed(c, Nothing)
AtBoundary(c) == IF session.off THEN {Empty} ELSE Trimmed(c, Nothing)

\* Admission and the cache policy trim before the call body starts.
Begin ==
  /\ pc = "idle"
  /\ \E plan \in Plans, c \in AtBoundary(Now) :
       /\ todo' = plan
       /\ Install(c)
  /\ resources' \in Resources
  /\ served' = NotServed
  /\ pc' = "entry"
  /\ UNCHANGED <<session, data, pending, missing, design>>

SourceColumns(absorb) == absorb \cup Aux
Signature_AbsorbOnly(absorb) ==
  [c \in Columns |-> IF c \in absorb THEN data[c] ELSE Absent]
Signature(absorb) ==
  [c \in Columns |-> IF c \in SourceColumns(absorb) THEN data[c] ELSE Absent]

\* _encode_absorb: the codes of a column come from the component cache if it has them.
Encoded(c, f) == IF c.components[f] # Absent THEN c.components[f] ELSE data[f]
Encode(c, fs) ==
  [c EXCEPT !.components = [f \in FE |-> IF f \in fs THEN Encoded(c, f) ELSE @[f]]]
Built(c, absorb) ==
  [absorb |-> absorb,
   codes |-> [f \in FE |-> IF f \in absorb THEN Encoded(c, f) ELSE Absent],
   sig |-> Signature(absorb), aux |-> [x \in Aux |-> data[x]], res |-> resources,
   raw |-> NoColumns, within |-> NoColumns]

\* A hit follows this call's allocation: the absorber is compiled again for it.
Refreshed_OldPlan(e) == e
Refreshed_NoPlan(e) == [e EXCEPT !.res = 0]
Refreshed(e) == [e EXCEPT !.res = resources]

FreshHits(c, absorb) ==
  {a \in DOMAIN c.entries : c.entries[a].absorb = absorb
                             /\ c.entries[a].sig = Signature(absorb)}
\* A stale hit costs every entry and all codes.
WithoutStale(c, absorb) ==
  IF \E a \in DOMAIN c.entries : c.entries[a].absorb = absorb
  THEN [c EXCEPT !.entries = <<>>, !.components = NoCodes]
  ELSE c

\* _get_entry: a fresh hit moves to the end, a miss compiles a new entry.
Entered(c, absorb) ==
  LET hits == FreshHits(c, absorb)
      base == WithoutStale(c, absorb)
  IN IF hits # {}
     THEN [c EXCEPT !.entries = Append(Without(@, hits),
                                       Refreshed(@[CHOOSE a \in hits : TRUE]))]
     ELSE [Encode(base, absorb) EXCEPT !.entries = Append(@, Built(base, absorb))]

GetEntry ==
  /\ pc = "entry"
  /\ LET t == Head(todo)
     IN /\ \E c \in Trimmed(Now, t.absorb) : Install(Entered(c, t.absorb))
        /\ IF session.ols /\ t.kind \in {"group", "fit"}
           THEN pc' = "design" /\ pending' = t.cols
           ELSE pc' = "check" /\ pending' = {}
  /\ design' = NoColumns
  /\ UNCHANGED <<session, data, todo, missing, resources, served>>

\* The entry in use is the most recent one.
Current == entries[Len(entries)]
SetCurrent(c, e) == [c EXCEPT !.entries[Len(c.entries)] = e]
InUse == Head(todo).absorb

\* _raw_design of an OLS fit: one column read, and its active rows kept.
ReadDesign(n) ==
  /\ pc = "design"
  /\ n \in pending
  /\ \E c \in Trimmed(FullNumeric(Now, n), InUse) :
       Install(SetCurrent(c, [c.entries[Len(c.entries)] EXCEPT !.raw[n] = data[n]]))
  /\ design' = [design EXCEPT ![n] = data[n]]
  /\ pending' = pending \ {n}
  /\ UNCHANGED <<session, data, pc, todo, missing, resources, served>>

\* An ill-conditioned design is partialled out from the raw columns themselves.
FitInBasis ==
  /\ pc = "design"
  /\ Head(todo).kind = "fit"
  /\ pending = {}
  /\ served' = [by |-> "fit", absorb |-> InUse, codes |-> Current.codes,
                aux |-> Current.aux, res |-> Current.res, cols |-> [n \in Head(todo).cols |-> design[n]]]
  /\ pc' = "next"
  /\ UNCHANGED <<session, data, caches, todo, pending, missing, resources, design>>

StackDesign ==
  /\ pc = "design"
  /\ pending = {}
  /\ \E c \in Trimmed(Now, InUse) : Install(c)
  /\ pc' = "check"
  /\ UNCHANGED <<session, data, todo, pending, missing, resources, design, served>>

\* A prewarmed fit reads columns again only if a trim took one of them.
NeedsWithin(t) ==
  t.prewarmed => \E n \in t.cols : Current.within[n] = Absent

\* Which columns _ensure_within is called for: fit_many of an OLS session leaves
\* out the specifications whose design it will partial out whole.
Check ==
  /\ pc = "check"
  /\ missing' = {}
  /\ LET t == Head(todo)
     IN pending' \in IF session.ols /\ t.kind = "group" THEN SUBSET t.cols
                     ELSE IF NeedsWithin(t) THEN {t.cols} ELSE {{}}
  /\ pc' = "within"
  /\ UNCHANGED <<session, data, caches, todo, resources, design, served>>

\* _ensure_within, one column: keep its partialled-out copy or note it as missing.
ReadWithin(n) ==
  /\ pc = "within"
  /\ n \in pending
  /\ LET full == FullNumeric(Now, n)
         e == full.entries[Len(full.entries)]
     IN IF e.within[n] # Absent
        THEN Install(full) /\ UNCHANGED missing
        ELSE /\ \E c \in Trimmed(full, InUse) :
                  Install(SetCurrent(c, [e EXCEPT !.raw[n] = data[n]]))
             /\ missing' = missing \cup {n}
  /\ pending' = pending \ {n}
  /\ UNCHANGED <<session, data, pc, todo, resources, design, served>>

\* Partial out the missing columns together and keep the copies.
Residualize ==
  /\ pc = "within"
  /\ pending = {}
  /\ IF missing = {} THEN UNCHANGED caches
     ELSE \E c \in Trimmed(Now, InUse) :
            Install(SetCurrent(c, [Current EXCEPT !.within =
              [n \in Num |-> IF n \in missing THEN Current.raw[n] ELSE @[n]]]))
  /\ missing' = {}
  /\ pc' = IF Head(todo).kind = "fit" THEN "fit" ELSE "next"
  /\ UNCHANGED <<session, data, todo, pending, resources, design, served>>

\* The regression, on the partialled-out columns or, when these turn out to be
\* ill-conditioned in an OLS session, once more from the raw design.
Estimate ==
  /\ pc = "fit"
  /\ \E columns \in {Current.within} \cup (IF session.ols THEN {design} ELSE {}) :
       served' = [by |-> "fit", absorb |-> InUse, codes |-> Current.codes,
                  aux |-> Current.aux, res |-> Current.res,
                  cols |-> [n \in Head(todo).cols |-> columns[n]]]
  /\ \E c \in Trimmed(Now, InUse) : Install(c)
  /\ pc' = "next"
  /\ UNCHANGED <<session, data, todo, pending, missing, resources, design>>

NextTask ==
  /\ pc = "next"
  /\ Len(todo) > 1
  /\ todo' = Tail(todo)
  /\ pc' = "entry"
  /\ served' = NotServed
  /\ UNCHANGED <<session, data, caches, pending, missing, resources, design>>

\* The policy's finally clause, on the caches the call has left.
Leave(c) ==
  /\ \E d \in AtBoundary(c) : Install(d)
  /\ todo' = <<>>
  /\ pc' = "idle"
  /\ pending' = {}
  /\ missing' = {}
  /\ design' = NoColumns
  /\ served' = NotServed
  /\ UNCHANGED <<session, data, resources>>

End ==
  /\ pc = "next"
  /\ Len(todo) = 1
  /\ Leave(Now)

\* Compiling an entry raises when some of its columns have been encoded.
FailToCompile ==
  /\ session.mayFail
  /\ pc = "entry"
  /\ LET absorb == Head(todo).absorb
     IN \E c \in Trimmed(Now, absorb), fs \in SUBSET absorb :
          /\ FreshHits(c, absorb) = {}
          /\ Leave(Encode(WithoutStale(c, absorb), fs))

\* A column, a projection or a reservation fails: what is cached stays.
Fail ==
  /\ session.mayFail
  /\ pc \in {"design", "within", "fit"}
  /\ Leave(Now)

Next == \/ \E c \in Columns : Mutate(c)
        \/ Begin \/ GetEntry \/ FitInBasis \/ StackDesign \/ Check
        \/ \E n \in Num : ReadDesign(n) \/ ReadWithin(n)
        \/ Residualize \/ Estimate \/ NextTask \/ End
        \/ FailToCompile \/ Fail

Spec == Init /\ [][Next]_vars

-----------------------------------------------------------------------------
TypeOK ==
  /\ session \in Sessions
  /\ data \in [Columns -> Versions]
  /\ entries \in Seq(Entry)
  /\ components \in [FE -> Copy]
  /\ rawFull \in [Num -> Copy]
  /\ pc \in {"idle", "entry", "design", "check", "within", "fit", "next"}
  /\ todo \in Seq(Task)
  /\ pending \subseteq Num /\ missing \subseteq Num
  /\ resources \in Resources
  /\ design \in [Num -> Copy]

\* A fit is computed from the data as they are now, and nothing older: FE codes,
\* weights and clusters, and every outcome and regressor.  What a session without
\* caches would return ("The cache is exact", class docstring).
ServedFresh ==
  served # NotServed =>
    /\ \A f \in served.absorb : served.codes[f] = data[f]
    /\ \A x \in Aux : served.aux[x] = data[x]
    /\ \A n \in DOMAIN served.cols : served.cols[n] = data[n]

\* "compiled scratch/index plans must follow this call's newly resolved resource
\* allocation" (_get_entry): no fit runs on an absorber planned for another call.
PlanOfThisCall == served # NotServed => served.res = resources

\* Why a hit in the full-column cache may skip invalidation: a partialled-out copy
\* is always of the full column that is cached, through all evictions.
CopiesOfOneRead ==
  \A a \in DOMAIN entries, n \in Num :
    entries[a].within[n] # Absent /\ rawFull[n] # Absent
      => entries[a].within[n] = rawFull[n] /\ entries[a].raw[n] = rawFull[n]

\* The fit of an IV session reads the raw and the partialled-out column of the same
\* entry without checking: both are there, and of the same version of the data.
RawBesideWithin ==
  \A a \in DOMAIN entries, n \in Num :
    entries[a].within[n] # Absent => entries[a].raw[n] = entries[a].within[n]

\* The three caches agree with one another between any two steps of a call, and
\* what a fit is served was planned for its call, whatever was trimmed or failed
\* before.
CachesAgree == TypeOK /\ CopiesOfOneRead /\ RawBesideWithin /\ PlanOfThisCall
=============================================================================
