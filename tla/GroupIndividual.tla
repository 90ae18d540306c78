---------------------------- MODULE GroupIndividual ----------------------------
(***************************************************************************)
(* group() and individual() (prepare_group_mode, make_group_absorber and   *)
(* hdfe/group_individual.py): long data with one row per membership of an  *)
(* individual in a group become one observation per group.  What belongs to*)
(* the group must be constant in it, groups with a singleton are dropped,  *)
(* what is left is numbered anew, and the joint design of group-level fixed*)
(* effects and individuals is either held sparse or never formed.          *)
(*                                                                         *)
(* Codes are any labels in the request and 0, 1, ... in the problem.  What *)
(* is 1 in the code is Unit here, so that the 1/size of a mean is exact.   *)
(***************************************************************************)
EXTENDS Ordering

CONSTANTS
  Requests,    \* [group, individual, effects, outcome, slope, weight, frequency,
               \*  cluster, intercept, mean, drop], columns by row; an absent one is <<>>
  Unit         \* what 1 is counted as: every group size of a mean divides it

\* Columns are numbers by row.
Column(q) == [DOMAIN q.group -> Int]
ASSUME GroupAssumption ==
  /\ Unit \in Nat \ {0}
  /\ \A q \in Requests :
       /\ q.group \in Seq(Int) /\ q.outcome \in Column(q) /\ q.effects \in Seq(Column(q))
       /\ \A column \in {q.individual, q.slope, q.weight} : column = <<>> \/ column \in Column(q)
       /\ {q.drop, q.mean, q.intercept, q.frequency} \subseteq BOOLEAN
       /\ q.mean => \A g \in {q.group[r] : r \in DOMAIN q.group} :
                      Unit % Cardinality({r \in DOMAIN q.group : q.group[r] = g}) = 0

VARIABLES
  request,
  step,        \* where the preparation is
  kept,        \* keep: groups not pruned
  problem,     \* what prepare_group_mode hands over
  operator     \* columns, their transpose and the preconditioner

groupVars == <<request, step, kept, problem, operator>>

Members == DOMAIN request.group
GroupOf(r) == request.group[r]
GroupSet == {GroupOf(r) : r \in Members}
HasIndividual == request.individual # <<>>
RowsIn(g) == {r \in Members : GroupOf(r) = g}

\* group_compression and compress_constant
FirstRow(g) == Min(RowsIn(g))
IsConstant(column) ==
  column # <<>> => \A r \in Members : column[r] = column[FirstRow(GroupOf(r))]
Compressed(column) == [g \in GroupSet |-> column[FirstRow(g)]]

\* validate_unique_memberships
Repeated_AcrossGroups == \E r, s \in Members : r # s /\ GroupOf(r) # GroupOf(s)
                                                  /\ request.individual[r] = request.individual[s]
Repeated == \E r, s \in Members : r # s /\ GroupOf(r) = GroupOf(s)
                                   /\ request.individual[r] = request.individual[s]

-----------------------------------------------------------------------------
GroupInit ==
  /\ request \in Requests
  /\ step = "start" /\ kept = {} /\ problem = <<>> /\ operator = <<>>

Fails(why) == step' = why /\ UNCHANGED <<request, kept, problem, operator>>

Constants == {request.effects[j] : j \in DOMAIN request.effects} \cup {request.outcome, request.weight}
Compress ==
  /\ step = "start"
  /\ IF \E column \in Constants : ~IsConstant(column) THEN Fails("not_constant")
     ELSE IF HasIndividual /\ request.frequency THEN Fails("fweight")
     ELSE IF HasIndividual /\ Repeated THEN Fails("repeated")
     ELSE /\ kept' = GroupSet
          /\ step' = IF request.drop THEN "prune" ELSE "check"
          /\ UNCHANGED <<request, problem, operator>>

\* A group observation that is alone, among S, in a level of some FE.
AloneIn(g, S, mass) ==
  \E j \in DOMAIN request.effects :
    LET level == {h \in S : Compressed(request.effects[j])[h] = Compressed(request.effects[j])[g]}
    IN SumFunctionOnSet(mass, level) <= 1
EachOnce == [g \in GroupSet |-> 1]
Frequency == IF request.frequency THEN Compressed(request.weight) ELSE EachOnce
Memberships(i, S) == {r \in Members : request.individual[r] = i /\ GroupOf(r) \in S}
Unlinked(g, S) ==
  \/ AloneIn(g, S, EachOnce)
  \/ \E r \in RowsIn(g) : Cardinality(Memberships(request.individual[r], S)) <= 1

\* group_individual_singleton_mask: one round flags all such groups at once.
PruneRound ==
  /\ step = "prune" /\ HasIndividual
  /\ LET flagged == {g \in kept : Unlinked(g, kept)}
     IN kept' = kept \ flagged /\ step' = IF flagged = {} THEN "check" ELSE "prune"
  /\ UNCHANGED <<request, problem, operator>>

\* Without individuals: iterative_singleton_mask (module SamplePeel).
PrunePlain ==
  /\ step = "prune" /\ ~HasIndividual
  /\ kept' = UNION {S \in SUBSET GroupSet : \A g \in S : ~AloneIn(g, S, Frequency)}
  /\ step' = "check"
  /\ UNCHANGED <<request, problem, operator>>

-----------------------------------------------------------------------------
(* restrict_group_problem *)

Renumbered(S) == DenseCodes([g \in S |-> g], S)

Handed ==
  LET members == IF HasIndividual THEN {r \in Members : GroupOf(r) \in kept} ELSE {}
      number == Renumbered(kept)
      groups == Ascending(kept)
      All(column) == [k \in DOMAIN groups |-> column[groups[k]]]
  IN [outcome |-> All(Compressed(request.outcome)),
      effects |-> [j \in DOMAIN request.effects |->
                     All(DenseCodes(Compressed(request.effects[j]), kept))],
      first   |-> All([g \in GroupSet |-> FirstRow(g)]),
      member  |-> Ascending(members),
      group   |-> [r \in members |-> number[GroupOf(r)]],
      person  |-> DenseCodes(request.individual, members)]

RestrictGroups ==
  /\ step = "check"
  /\ IF kept = {} THEN Fails("insufficient")
     ELSE IF ~IsConstant(request.cluster) THEN Fails("not_constant")
     ELSE /\ problem' = Handed
          /\ step' = "ready"
          /\ UNCHANGED <<request, kept, operator>>

-----------------------------------------------------------------------------
(* GroupIndividualAbsorber.  A column is <<FE, level, component>>, FE 0 being *)
(* the individuals; component 0 is the intercept, 1 the slope.               *)

LevelCount(column) == Cardinality({column[x] : x \in DOMAIN column})
Observations == DOMAIN problem.outcome
People == {problem.person[r] : r \in DOMAIN problem.person}
PersonComponents == (IF request.intercept THEN {0} ELSE {}) \cup (IF request.slope # <<>> THEN {1} ELSE {})
PersonColumns == {0} \X People \X PersonComponents
EffectColumns == {<<j, v, 0>> : j \in DOMAIN problem.effects, v \in 0..(Max(Observations) - 1)}
Real(c) == c[1] = 0 \/ \E k \in Observations : problem.effects[c[1]][k] = c[2]
DesignColumns == {c \in PersonColumns \cup EffectColumns : Real(c)}

GroupRows(k) == {r \in DOMAIN problem.group : problem.group[r] = k - 1}
PersonRows(p) == {r \in DOMAIN problem.person : problem.person[r] = p}
MemberScale(r) ==
  IF request.mean THEN Unit \div Cardinality({s \in DOMAIN problem.group : problem.group[s] = problem.group[r]})
  ELSE Unit
Load(r, comp) == MemberScale(r) * (IF comp = 0 THEN 1 ELSE request.slope[r])
Weight(k) == IF request.weight = <<>> THEN 1 ELSE Compressed(request.weight)[Ascending(kept)[k]]
EffectEntry(k, c) == IF problem.effects[c[1]][k] = c[2] THEN Unit ELSE 0

\* _build_csr_operator: repeated entries of a cell are added when the coordinate
\* list is compressed, and the preconditioner squares what is stored.
CsrEntry(k, c) ==
  IF c[1] # 0 THEN EffectEntry(k, c)
  ELSE SumFunction([r \in {r \in GroupRows(k) : problem.person[r] = c[2]} |-> Load(r, c[3])])
CsrOperator ==
  [forward |-> [c \in DesignColumns |-> [k \in Observations |-> CsrEntry(k, c)]],
   adjoint |-> [k \in Observations |-> [c \in DesignColumns |-> CsrEntry(k, c)]],
   diag    |-> [c \in DesignColumns |->
                  SumFunction([k \in Observations |-> Weight(k) * CsrEntry(k, c) * CsrEntry(k, c)])]]

\* _individual_matvec, _individual_rmatvec and _build_individual_preconditioner:
\* sums over memberships, on coefficients and scores that are unit vectors here.
Matvec(c, k) ==
  IF c[1] # 0 THEN EffectEntry(k, c)
  ELSE SumFunction([r \in GroupRows(k) |-> IF problem.person[r] = c[2] THEN Load(r, c[3]) ELSE 0])
Rmatvec(k, c) ==
  IF c[1] # 0 THEN EffectEntry(k, c)
  ELSE SumFunction([r \in PersonRows(c[2]) |-> IF problem.group[r] = k - 1 THEN Load(r, c[3]) ELSE 0])
MemberSquare(c) ==
  IF c[1] # 0 THEN SumFunction([k \in Observations |-> Weight(k) * EffectEntry(k, c) * EffectEntry(k, c)])
  ELSE SumFunction([r \in PersonRows(c[2]) |-> Weight(problem.group[r] + 1) * Load(r, c[3]) * Load(r, c[3])])
MatrixFree ==
  [forward |-> [c \in DesignColumns |-> [k \in Observations |-> Matvec(c, k)]],
   adjoint |-> [k \in Observations |-> [c \in DesignColumns |-> Rmatvec(k, c)]],
   diag    |-> [c \in DesignColumns |-> MemberSquare(c)]]

\* The memory that is free decides, between representations of one design.
MakeGroupAbsorber ==
  /\ step = "ready" /\ HasIndividual
  /\ operator' \in {CsrOperator, MatrixFree}
  /\ step' = "solving"
  /\ UNCHANGED <<request, kept, problem>>

GroupNext == Compress \/ PruneRound \/ PrunePlain \/ RestrictGroups \/ MakeGroupAbsorber
GroupSpec == GroupInit /\ [][GroupNext]_groupVars

-----------------------------------------------------------------------------
\* The rounds of pruning end at the largest set of groups in which none is
\* alone in a level and every member of a group has another group, whatever
\* fell together in one round.
PrunedToTheLargest ==
  step \in {"check", "ready", "solving"} /\ request.drop /\ HasIndividual =>
    kept = UNION {S \in SUBSET GroupSet : \A g \in S : ~Unlinked(g, S)}

\* What is handed over is that sample under new numbers: dense, one to one,
\* every membership of a kept group and no other, each group's own values at
\* its first row.
Recoded(new, old, S) ==
  /\ {new[x] : x \in S} = 0..(LevelCount([x \in S |-> old[x]]) - 1)
  /\ \A x, y \in S : new[x] = new[y] <=> old[x] = old[y]
HandedWhole ==
  problem # <<>> =>
    LET groups == Ascending(kept)
    IN /\ Len(problem.outcome) = Cardinality(kept)
       /\ \A k \in Observations :
            /\ \A r \in RowsIn(groups[k]) : request.outcome[r] = problem.outcome[k]
            /\ problem.first[k] = FirstRow(groups[k])
       /\ \A j \in DOMAIN request.effects :
            Recoded(problem.effects[j], [k \in Observations |-> request.effects[j][problem.first[k]]],
                       Observations)
       /\ HasIndividual =>
            /\ DOMAIN problem.group = UNION {RowsIn(g) : g \in kept}
            /\ \A r \in DOMAIN problem.group : groups[problem.group[r] + 1] = GroupOf(r)
            /\ Recoded(problem.person, request.individual, DOMAIN problem.person)

\* Sparse or matrix-free, the design is the sum (or mean) over a group's
\* members, with a transpose that is its transpose and the squared column
\* lengths on the diagonal.
OperatorIsTheDesign ==
  operator # <<>> =>
    \A c \in DOMAIN operator.forward :
      /\ \A k \in Observations : operator.forward[c][k] = operator.adjoint[k][c]
      /\ operator.diag[c] =
           SumFunction([k \in Observations |-> Weight(k) * operator.forward[c][k] * operator.forward[c][k]])
      /\ c[1] = 0 => \A k \in Observations :
           operator.forward[c][k] * (IF request.mean THEN Cardinality(RowsIn(Ascending(kept)[k])) ELSE 1)
             = Unit * SumFunction([r \in {r \in RowsIn(Ascending(kept)[k]) : problem.person[r] = c[2]} |->
                                   IF c[3] = 0 THEN 1 ELSE request.slope[r]])

\* From the request to the operator, nothing is lost, added or misnumbered:
\* the largest sample, whole under its new numbers, and its own design.
GroupProblemIsWhole == PrunedToTheLargest /\ HandedWhole /\ OperatorIsTheDesign
=============================================================================
