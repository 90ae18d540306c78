----------------------------- MODULE ReusableModel -----------------------------
(***************************************************************************)
(* PPMLHDFE and IVPPMLHDFE models that are fitted again and again          *)
(* (models/ppml/api.py, models/ppml_iv/api.py): the FE plan compiled once, *)
(* the check that it is still the plan of the data, and the disposable     *)
(* cache of plans and projectors behind it (compute/context.py,            *)
(* models/ppml/execution.py).                                              *)
(*                                                                         *)
(* The FE columns of the DataFrame are one of Frames; frames with different*)
(* labels may have the same dense codes.  Calls are serial: the outermost  *)
(* call holds the root lock of the scheduler.                              *)
(***************************************************************************)
EXTENDS Integers, FiniteSets, SequencesExt

CONSTANTS
  Frames,          \* the FE columns a DataFrame may hold: [labels, codes, rows]
  ModelPolicies,   \* execution_config: [cache, resources], resources 0 for "auto"
  Budgets,         \* resources a call may be granted (threads and memory in one)
  Capacities,      \* bytes a cache may keep, in units of one array
  Validations,     \* ExecutionConfig.cache_validation: "signature", "none"
  MaxChanges,      \* bound on changes of the data and of the policy
  MaxTopologies    \* bound on what a projector compiles lazily

ASSUME ReusableAssumption ==
  /\ Frames # {} /\ Budgets \subseteq Nat \ {0} /\ Budgets # {} /\ 0 \in Capacities
  /\ Capacities \subseteq Nat
  /\ ModelPolicies \subseteq [cache : {"on", "off"}, resources : {0} \cup Budgets]
  /\ MaxChanges \in Nat /\ MaxTopologies \in Nat
  \* Encoding is a function of the labels.
  /\ \A f, g \in Frames : f.labels = g.labels /\ f.rows = g.rows => f.codes = g.codes

VARIABLES
  dataframe,       \* the DataFrame's FE columns
  changes,         \* changes so far, bounded
  request,         \* the execution_config of the model
  compiled,        \* self.plan, self._source_fingerprint, and cache_validation
  cache,           \* context.cache, oldest first: [key, made, size]
  signatures,      \* _policy_signature, _resource_signature
  allowed,         \* capacity found by the last trim around a fit
  fitting          \* the running call: [at, granted, sample, using]

reusableVars == <<dataframe, changes, request, compiled, cache, signatures, allowed, fitting>>

-----------------------------------------------------------------------------
(* FEPlan: dense codes and their fingerprint; source_fingerprint hashes the *)
(* labels and the number of rows.                                           *)

FromDataframe(frame) == [codes |-> frame.codes, rows |-> frame.rows]
SourceFingerprint(frame) ==
  IF compiled.validation = "signature" THEN <<frame.labels, frame.rows>> ELSE <<>>
\* subset and canonicalized give new plans: codes of fewer rows, or of fewer FEs.
Subset(plan, sample) == [plan |-> plan, sample |-> sample, engine |-> "requested"]
Canonicalized(p) == [p EXCEPT !.engine = "canonical"]

-----------------------------------------------------------------------------
(* ExecutionContext *)

PlanEntry(plan) == [key |-> [plan |-> Subset(plan, "all")],
                    made |-> [plan |-> Subset(plan, "all"), granted |-> 0], size |-> 1]
\* Arrays of the plan the model itself holds are not counted against its cache.
Protected == {Subset(compiled.plan, "all")}
Owned(entry, protected) == IF entry.key.plan \in protected THEN entry.size - 1 ELSE entry.size
RetainedBytes(entries, protected) == FoldLeft(LAMBDA n, e : n + Owned(e, protected), 0, entries)

\* trim: the oldest entries go until the rest fits; with cache="off" all of them.
Trim(entries, protected, capacity) ==
  LET fits == {k \in 0..Len(entries) :
                 RetainedBytes(SubSeq(entries, k + 1, Len(entries)), protected) <= capacity}
      first == CHOOSE k \in fits : \A other \in fits : k <= other
  IN IF request.cache = "off" THEN <<>> ELSE SubSeq(entries, first + 1, Len(entries))

Has(entries, key) == \E k \in DOMAIN entries : entries[k].key = key
Place(entries, key) == CHOOSE k \in DOMAIN entries : entries[k].key = key
Unlisted(entries, key) == IF Has(entries, key) THEN RemoveAt(entries, Place(entries, key)) ELSE entries
EntryOf(entries, key) == entries[Place(entries, key)]
Stored(entries, entry, protected, capacity) ==
  Trim(Append(Unlisted(entries, entry.key), entry), protected, capacity)

-----------------------------------------------------------------------------
Idle == [at |-> "idle"]

\* _setup: the first plan is put into the cache.
ReusableInit ==
  /\ dataframe \in Frames /\ changes = 0
  /\ request \in ModelPolicies
  /\ \E validation \in Validations, capacity \in Capacities :
       /\ compiled = [plan |-> FromDataframe(dataframe), validation |-> validation,
                      source |-> IF validation = "signature" THEN <<dataframe.labels, dataframe.rows>> ELSE <<>>]
       /\ allowed = capacity
  /\ cache = IF request.cache = "off" \/ allowed < 1 THEN <<>> ELSE <<PlanEntry(compiled.plan)>>
  /\ signatures = [policy |-> -1, resource |-> -1]
  /\ fitting = Idle

\* The caller changes the FE columns or the rows in place, or the policy.
ChangeData ==
  /\ fitting = Idle /\ changes < MaxChanges
  /\ \E frame \in Frames \ {dataframe} : dataframe' = frame
  /\ changes' = changes + 1
  /\ UNCHANGED <<request, compiled, cache, signatures, allowed, fitting>>
ChangePolicy ==
  /\ fitting = Idle /\ changes < MaxChanges
  /\ \E policy \in ModelPolicies \ {request} : request' = policy
  /\ changes' = changes + 1
  /\ UNCHANGED <<dataframe, compiled, cache, signatures, allowed, fitting>>

\* prepare_admission, on the policy as the caller wrote it; then the scheduler
\* grants resources.
Admit ==
  /\ fitting = Idle
  /\ \E capacity \in Capacities, granted \in IF request.resources = 0 THEN Budgets
                                              ELSE {request.resources} :
       /\ cache' = Trim(IF signatures.policy \in {-1, request.resources} THEN cache ELSE <<>>,
                        Protected, capacity)
       /\ allowed' = capacity
       /\ fitting' = [at |-> "admitted", granted |-> granted, sample |-> "all", using |-> {}]
  /\ signatures' = [signatures EXCEPT !.policy = request.resources]
  /\ UNCHANGED <<dataframe, changes, request, compiled>>

\* _ensure_plan_current: the number of rows, and the labels where they are signed.
Outdated_RowsOnly == compiled.plan.rows # dataframe.rows
Outdated ==
  \/ compiled.plan.rows # dataframe.rows
  \/ compiled.validation = "signature" /\ SourceFingerprint(dataframe) # compiled.source

\* A rebuilt plan is stored while the old one is still the protected one.
EnsureCurrent ==
  /\ fitting.at = "admitted"
  /\ IF Outdated
     THEN /\ compiled' = [compiled EXCEPT !.plan = FromDataframe(dataframe), !.source = SourceFingerprint(dataframe)]
          /\ \E capacity \in Capacities :
               /\ allowed' = capacity
               /\ cache' = Stored(<<>>, PlanEntry(FromDataframe(dataframe)), {}, capacity)
     ELSE UNCHANGED <<compiled, cache, allowed>>
  /\ fitting' = [fitting EXCEPT !.at = "current"]
  /\ UNCHANGED <<dataframe, changes, request, signatures>>

\* maintain, on the granted policy; then the rows this fit keeps.
EnterFit ==
  /\ fitting.at = "current"
  /\ \E capacity \in Capacities, sample \in {"all", "fewer"} :
       /\ cache' = Trim(IF signatures.resource \in {-1, fitting.granted} THEN cache ELSE <<>>,
                        Protected, capacity)
       /\ allowed' = capacity
       /\ fitting' = [fitting EXCEPT !.at = "fit", !.sample = sample]
  /\ signatures' = [signatures EXCEPT !.resource = fitting.granted]
  /\ UNCHANGED <<dataframe, changes, request, compiled>>

\* _projector_key.
ProjectorKey(plan) ==
  [plan |-> plan, granted |-> fitting.granted, auto |-> request.resources = 0]
Made(plan) == [plan |-> plan, granted |-> fitting.granted]
ThisPlan == Subset(compiled.plan, fitting.sample)

\* get_projector for the sample, and for the canonical plan when the engine
\* drops redundant FEs: get trims and makes a hit the youngest entry.
GetProjector ==
  /\ fitting.at = "fit"
  /\ \E plan \in {ThisPlan, Canonicalized(ThisPlan)}, capacity \in Capacities :
       LET key == ProjectorKey(plan)
           looked == Trim(cache, Protected, capacity)
       IN IF Has(looked, key)
          THEN LET hit == EntryOf(looked, key) IN
               /\ cache' = Append(Unlisted(looked, key), hit)
               /\ fitting' = [fitting EXCEPT !.using = @ \cup {hit.made}]
          ELSE \E later \in Capacities :
               /\ cache' = Stored(looked, [key |-> key, made |-> Made(plan), size |-> 1], Protected, later)
               /\ fitting' = [fitting EXCEPT !.using = @ \cup {Made(plan)}]
  /\ UNCHANGED <<dataframe, changes, request, compiled, signatures, allowed>>

\* With cache=False, for the rows that separation leaves: a plan of this fit.
BuildProjector ==
  /\ fitting.at = "fit"
  /\ \E plan \in {ThisPlan, Canonicalized(ThisPlan)} :
       fitting' = [fitting EXCEPT !.using = @ \cup {Made(plan)}]
  /\ UNCHANGED <<dataframe, changes, request, compiled, cache, signatures, allowed>>

\* A projector in use compiles another topology; nothing is trimmed for it.
Compile ==
  /\ fitting.at = "fit"
  /\ \E k \in DOMAIN cache :
       /\ cache[k].made \in fitting.using /\ cache[k].size <= MaxTopologies
       /\ cache' = [cache EXCEPT ![k].size = @ + 1]
  /\ UNCHANGED <<dataframe, changes, request, compiled, signatures, allowed, fitting>>

\* maintain's finally, whether the fit returns or raises.
LeaveFit ==
  /\ fitting.at = "fit"
  /\ \E capacity \in Capacities : cache' = Trim(cache, Protected, capacity) /\ allowed' = capacity
  /\ fitting' = Idle
  /\ UNCHANGED <<dataframe, changes, request, compiled, signatures>>

\* A label column that is gone, or a policy that is refused, raises before.
RaiseEarly ==
  /\ fitting.at \in {"admitted", "current"}
  /\ fitting' = Idle
  /\ UNCHANGED <<dataframe, changes, request, compiled, cache, signatures, allowed>>

ReusableNext ==
  \/ ChangeData \/ ChangePolicy \/ Admit \/ EnsureCurrent \/ EnterFit
  \/ GetProjector \/ BuildProjector \/ Compile \/ LeaveFit \/ RaiseEarly

ReusableSpec == ReusableInit /\ [][ReusableNext]_reusableVars

-----------------------------------------------------------------------------
\* Whatever was fitted, evicted, changed or raised before, a fit projects only
\* with projectors made from the codes the data has now, for its own rows and
\* under the resources it was granted; with validation off, from the codes of
\* the last plan, never of another number of rows.  Outside a fit the cache
\* keeps no more than the last look at memory allowed, and a call with the
\* cache off finds nothing in it (models/ppml/api.py:101, models/ppml/execution.py:33,
\* compute/context.py:81).
ReuseIsSound ==
  /\ fitting.at = "fit" =>
       /\ compiled.plan.rows = dataframe.rows
       /\ \A p \in fitting.using :
            /\ p.granted = fitting.granted /\ p.plan.sample = fitting.sample
            /\ p.plan.plan = IF compiled.validation = "signature" THEN FromDataframe(dataframe)
                             ELSE compiled.plan
  /\ fitting.at # "fit" => RetainedBytes(cache, Protected) <= allowed
  /\ fitting # Idle /\ request.cache = "off" => cache = <<>>
=============================================================================
