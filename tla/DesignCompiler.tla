---------------------------- MODULE DesignCompiler ----------------------------
(***************************************************************************)
(* From requested regressor terms to the columns that are estimated:       *)
(* _compile_structured_design, plan_structural_collinearity, the choice of *)
(* row blocks (compute/design_plan.py), dense or block storage             *)
(* (compute/block_design.py) and resolve_collinearity.                     *)
(*                                                                         *)
(* A term multiplies factors and continuous columns; its columns are its   *)
(* active cells, a cell being a combination of factor levels written as one*)
(* mixed-radix number.  Terms of up to three roles (controls, endogenous   *)
(* regressors, instruments) come one after the other; the controls are     *)
(* protected: the later roles give way to them.                            *)
(*                                                                         *)
(* A column is a function from rows to integers; projecting out the fixed  *)
(* effects is arithmetic modulo the span of their dummies.                 *)
(***************************************************************************)
EXTENDS CategoricalRank

CONSTANTS
  RowCount,
  Calls        \* [factors, continuous, groups, terms, omit, absorbed, structural]

Obs == 1..RowCount

\* Factors hold dense codes, so there are at most as many levels as rows.
ASSUME DesignAssumption ==
  /\ RowCount \in Nat \ {0}
  /\ \A c \in Calls :
       /\ \A f \in DOMAIN c.factors : c.factors[f] \in [Obs -> 0..(RowCount - 1)]
       /\ \A x \in DOMAIN c.continuous : c.continuous[x] \in [Obs -> Int]
       /\ c.terms \in Seq([role : 1..3, monomial : Seq(DOMAIN c.continuous),
                           parts : Seq([factor : DOMAIN c.factors, base : {"none", "first", "last", "freq"}])])

VARIABLES
  call,        \* the request and its data, never changed
  active,      \* active[t]: the cells of term t still to be columns
  reach,       \* component_reach: <<coarse, fine>> pairs of factors
  cursor,      \* <<t, k>>: term t is next compared with its k-th partner
  phase,       \* where the compilation is
  stored,      \* stored[r]: the design of role r, dense or in row blocks
  chosen       \* chosen[r]: the columns of role r that are estimated

designVars == <<call, active, reach, cursor, phase, stored, chosen>>

TermIds == DOMAIN call.terms
Role(t) == call.terms[t].role
RoleNames == {Role(t) : t \in TermIds}
RoleTerms(r) == {t \in TermIds : Role(t) = r}

-----------------------------------------------------------------------------
(* _factor_encoding, _joint_partition, _blueprint *)

FactorLevels(f) == {call.factors[f][i] : i \in Obs}
LevelRows(f, v) == {i \in Obs : call.factors[f][i] = v}
Base(part) ==
  LET vs == FactorLevels(part.factor)
      Count(v) == Cardinality(LevelRows(part.factor, v))
  IN CASE part.base = "none"  -> {}
       [] part.base = "first" -> {Min(vs)}
       [] part.base = "last"  -> {Max(vs)}
       [] part.base = "freq"  ->
            {Min({v \in vs : \A u \in vs : Count(u) <= Count(v)})}

Parts(t) == call.terms[t].parts
Digit(cell, t, k) == (cell \div (RowCount ^ (Len(Parts(t)) - k))) % RowCount
Cell(t, i) == FoldLeft(LAMBDA key, p : (key * RowCount) + call.factors[p.factor][i], 0, Parts(t))
CellRows(t, c) == {i \in Obs : Cell(t, i) = c}
Observed(t) == {Cell(t, i) : i \in Obs}
Selected(t) ==
  {c \in Observed(t) : \A k \in DOMAIN Parts(t) : Digit(c, t, k) \notin Base(Parts(t)[k])}

\* _materialize: the product of the continuous columns on the rows of the cell.
Monomial(t, i) == FoldLeft(LAMBDA v, x : v * call.continuous[x][i], 1, call.terms[t].monomial)
ColumnOf(t, c) == [i \in Obs |-> IF Cell(t, i) = c THEN Monomial(t, i) ELSE 0]
SameMonomial(t, u) == \A x \in DOMAIN call.continuous :
                        Len(SelectSeq(call.terms[t].monomial, LAMBDA y : y = x))
                          = Len(SelectSeq(call.terms[u].monomial, LAMBDA y : y = x))

\* The columns of a role under given activity, in output order.
ColumnsOf(r, act) == UNION {{t} \X act[t] : t \in RoleTerms(r)}
Before(a, b) == a[1] < b[1] \/ (a[1] = b[1] /\ a[2] < b[2])
Listed(cols) == Sorted(cols, Before)

-----------------------------------------------------------------------------
(* Partition tests.  A partition is a function from rows to labels. *)

TermCells(t) == [i \in Obs |-> Cell(t, i)]
Maps(fine, coarse) == \A i, k \in Obs : fine[i] = fine[k] => coarse[i] = coarse[k]
Labels(partition) == {partition[i] : i \in Obs}

\* _coverage_spans_coarse: coarse levels all of whose fine levels are active.
Covered(fine, coarse, fineActive, coarseActive) ==
  IF ~Maps(fine, coarse) THEN {}
  ELSE {v \in coarseActive : \A i \in Obs : coarse[i] = v => fine[i] \in fineActive}

\* _drop_one_fine_per_covered_coarse: the last active cell of each covered one.
LastCells_AnyActive(t, coarse, coarseActive) ==
  {Max({Cell(t, i) : i \in {i \in Obs : coarse[i] = v}}) :
     v \in {v \in coarseActive \cap Labels(coarse) : \E i \in Obs : coarse[i] = v /\ Cell(t, i) \in active[t]}}
LastCells(t, coarse, coarseActive) ==
  {Max({Cell(t, i) : i \in {i \in Obs : coarse[i] = v}}) :
     v \in Covered(TermCells(t), coarse, active[t], coarseActive) \cap Labels(coarse)}

\* _component_dependency_closure: factors by number of levels, each tested
\* against the coarser ones not yet known to be implied, nearest first.
Registry(r) ==
  LET named == FoldLeft(LAMBDA s, t : s \o [k \in DOMAIN Parts(t) |-> Parts(t)[k].factor],
                        <<>>, Ascending(RoleTerms(1) \cup RoleTerms(r)))
  IN FoldLeft(LAMBDA s, f : IF Contains(s, f) THEN s ELSE Append(s, f), <<>>, named)
AddEdge(known, coarse, fine) ==
  LET up == {coarse} \cup {e[1] : e \in {e \in known : e[2] = coarse}}
      down == {fine} \cup {e[2] : e \in {e \in known : e[1] = fine}}
  IN known \cup {e \in up \X down : e[1] # e[2]}
Certify(known, coarse, fine) ==
  IF <<coarse, fine>> \in known \/ ~Maps(call.factors[fine], call.factors[coarse]) THEN known
  ELSE LET more == AddEdge(known, coarse, fine)
       IN IF Cardinality(FactorLevels(coarse)) = Cardinality(FactorLevels(fine))
          THEN AddEdge(more, fine, coarse) ELSE more
Closure(tokens) ==
  LET n(f) == Cardinality(FactorLevels(f))
      pos(f) == CHOOSE k \in DOMAIN tokens : tokens[k] = f
      fines == Sorted(Range(tokens), LAMBDA f, g : n(f) < n(g) \/ (n(f) = n(g) /\ pos(f) < pos(g)))
      nearer == Sorted(Range(tokens), LAMBDA f, g : n(f) > n(g) \/ (n(f) = n(g) /\ pos(f) < pos(g)))
      Candidates(fine) == SelectSeq(nearer, LAMBDA f : f # fine /\ n(f) <= n(fine))
  IN FoldLeft(LAMBDA known, fine :
                FoldLeft(LAMBDA k, coarse : Certify(k, coarse, fine), known, Candidates(fine)),
              {}, fines)

\* _component_graph_proves_refinement
GraphProves(t, u) ==
  /\ Parts(t) # <<>> /\ Parts(u) # <<>>
  /\ \A k \in DOMAIN Parts(t) : \E m \in DOMAIN Parts(u) :
       LET c == Parts(t)[k].factor  f == Parts(u)[m].factor
       IN c = f \/ <<c, f>> \in reach

-----------------------------------------------------------------------------
DesignInit ==
  /\ call \in Calls
  /\ active = <<>> /\ reach = {} /\ cursor = <<1, 1>> /\ phase = "start"
  /\ stored = <<>> /\ chosen = <<>>

Raise(why) == phase' = why /\ UNCHANGED <<call, active, reach, cursor, stored, chosen>>

\* The first selector that matches a column takes it; a selector left without
\* a column fails the call.
Matches(sel, t, c) ==
  /\ Role(t) = sel.role
  /\ \E k \in DOMAIN Parts(t) : Parts(t)[k].factor = sel.factor /\ Digit(c, t, k) = sel.level
FirstMatch(t, c) == {q \in DOMAIN call.omit : /\ Matches(call.omit[q], t, c)
                                              /\ \A p \in 1..(q - 1) : ~Matches(call.omit[p], t, c)}
Requested == [t \in TermIds |-> {c \in Selected(t) : FirstMatch(t, c) = {}}]

CompileTerms ==
  /\ phase = "start"
  /\ IF \A q \in DOMAIN call.omit : \E t \in TermIds : \E c \in Selected(t) : q \in FirstMatch(t, c)
     THEN /\ active' = Requested
          /\ reach' = Closure(Registry(1))
          /\ phase' = IF call.structural THEN "structural" ELSE "store"
          /\ UNCHANGED <<call, cursor, stored, chosen>>
     ELSE Raise("omit_unmatched")

\* The partners of a term: the absorbed FEs when it is a pure dummy term, then
\* the protected terms and the earlier terms of its role.
FEPartners(t) == IF call.absorbed /\ call.terms[t].monomial = <<>> THEN Len(call.groups) ELSE 0
Earlier(t) == Ascending({u \in 1..(t - 1) : Role(u) \in {1, Role(t)}})
Here == cursor[1]
Partner == cursor[2]
EarlierTerm == Earlier(Here)[Partner - FEPartners(Here)]
AtTerm == phase = "structural" /\ Here \in TermIds /\ active[Here] # {}

Reduced(cells) ==
  /\ active' = [active EXCEPT ![Here] = @ \ cells]
  /\ cursor' = <<Here, Partner + 1>>
  /\ UNCHANGED <<call, reach, phase, stored, chosen>>

\* An FE finer than the term absorbs it; a term finer than an FE loses one cell
\* for every level of the FE all of whose cells it still has.
AgainstFE ==
  /\ AtTerm /\ Partner <= FEPartners(Here)
  /\ LET g == call.groups[Partner]
     IN IF active[Here] \subseteq Covered(g, TermCells(Here), Labels(g), active[Here])
        THEN Reduced(active[Here]) ELSE Reduced(LastCells(Here, g, Labels(g)))

\* The same against an earlier term with the same monomial.
AgainstTerm ==
  /\ AtTerm /\ Partner > FEPartners(Here) /\ Partner <= FEPartners(Here) + Len(Earlier(Here))
  /\ LET u == EarlierTerm
         spanned == IF active[u] = Observed(u) /\ GraphProves(Here, u) THEN active[Here]
                    ELSE Covered(TermCells(u), TermCells(Here), active[u], active[Here])
     IN IF active[u] = {} \/ ~SameMonomial(Here, u) THEN Reduced({})
        ELSE IF active[Here] \subseteq spanned THEN Reduced(active[Here])
        ELSE Reduced(LastCells(Here, TermCells(u), active[u]))

NextTerm ==
  /\ phase = "structural"
  /\ Here \notin TermIds \/ active[Here] = {} \/ Partner > FEPartners(Here) + Len(Earlier(Here))
  /\ IF Here \in TermIds /\ Here + 1 \in TermIds
     THEN /\ cursor' = <<Here + 1, 1>>
          /\ reach' = IF Role(Here + 1) # Role(Here) THEN Closure(Registry(Role(Here + 1))) ELSE reach
          /\ UNCHANGED phase
     ELSE phase' = "store" /\ UNCHANGED <<cursor, reach>>
  /\ UNCHANGED <<call, active, stored, chosen>>

-----------------------------------------------------------------------------
(* Row blocks.  Rows that share an FE level, or a column, stay together. *)

ShareFE(i, k) == \E j \in DOMAIN call.groups : call.groups[j][i] = call.groups[j][k]
Support(r) == {CellRows(col[1], col[2]) : col \in ColumnsOf(r, active)}

\* analyze_structural_terms: components of FE levels and columns.  Rows no
\* column reaches keep the certificate from being given.
JointBlocks(r) ==
  LET Near(i, k) == ShareFE(i, k) \/ \E s \in Support(r) : {i, k} \subseteq s
      reached == IF call.groups = <<>> THEN UNION Support(r) ELSE Obs
  IN Classes(reached, Near)
JointCertified_Unreached(r) ==
  Cardinality(JointBlocks(r)) > 1
    /\ \A P \in JointBlocks(r) : \E s \in Support(r) : s \cap P # {}
JointCertified(r) ==
  LET parts == JointBlocks(r)
  IN Cardinality(parts) > 1 /\ UNION parts = Obs
     /\ \A P \in parts : \E s \in Support(r) : s \cap P # {}

\* analyze_structural_partition: components of the FE levels alone; a column
\* may then belong to several blocks.
RowBlocks == IF call.groups = <<>> THEN {Obs} ELSE Classes(Obs, ShareFE)

\* analyze_execution_structure
Certified(r) ==
  IF JointCertified(r) THEN JointBlocks(r)
  ELSE IF Cardinality(RowBlocks) > 1 /\ ColumnsOf(r, active) # {} THEN RowBlocks ELSE {}

Block(P, cols) ==
  [rows |-> P, cols |-> cols,
   values |-> [i \in P |-> [col \in cols |-> ColumnOf(col[1], col[2])[i]]]]
LocalColumns(r, P) == {col \in ColumnsOf(r, active) : CellRows(col[1], col[2]) \cap P # {}}
Blocks(r, parts) == {Block(P, LocalColumns(r, P)) : P \in parts}
Dense(r) == {Block(Obs, ColumnsOf(r, active))}

\* plan_design_storage: sizes and budgets decide, among exact representations.
Store ==
  /\ phase = "store"
  /\ \E blocked \in SUBSET RoleNames :
       /\ \A r \in blocked : Certified(r) # {}
       /\ stored' = [r \in RoleNames |->
                       [form |-> IF r \in blocked THEN "block" ELSE "dense",
                        of |-> IF r \in blocked THEN Blocks(r, Certified(r)) ELSE Dense(r)]]
  /\ phase' = "stored"
  /\ UNCHANGED <<call, active, reach, cursor, chosen>>

\* fit_structured_dataframe: blocks of several roles go together when their rows
\* agree, dense roles being cut along them; else the call starts again dense.
Partition(d) == {b.rows : b \in d.of}
Aligned(d, parts) ==
  IF d.form = "block" THEN d
  ELSE [form |-> "block",
        of |-> {LET b == CHOOSE b \in d.of : TRUE
                IN [rows |-> P, cols |-> b.cols, values |-> [i \in P |-> b.values[i]]] : P \in parts}]
Combine ==
  /\ phase = "stored"
  /\ LET blocked == {r \in RoleNames : stored[r].form = "block"}
     IN /\ blocked # {}
        /\ stored' = IF \A r, s \in blocked : Partition(stored[r]) = Partition(stored[s])
                     THEN LET parts == Partition(stored[CHOOSE r \in blocked : TRUE])
                          IN [r \in RoleNames |-> Aligned(stored[r], parts)]
                     ELSE [r \in RoleNames |-> [form |-> "dense", of |-> Dense(r)]]
  /\ phase' = "combined"
  /\ UNCHANGED <<call, active, reach, cursor, chosen>>

-----------------------------------------------------------------------------
(* What an estimator asks of a design is computed block by block; two designs *)
(* are taken together only when their rows are partitioned alike.             *)

Cols(d) == UNION {b.cols : b \in d.of}
Matching(d, e) == {p \in d.of \X e.of : p[1].rows = p[2].rows}
CrossGram(d, e, w) ==
  [xy \in Cols(d) \X Cols(e) |->
     LET x == xy[1]
         y == xy[2]
         both == {p \in Matching(d, e) : x \in p[1].cols /\ y \in p[2].cols}
     IN SumFunction([p \in both |->
          SumFunction([i \in p[1].rows |-> w[i] * p[1].values[i][x] * p[2].values[i][y]])])]
MatVec(d, beta) ==
  [i \in Obs |->
     LET b == CHOOSE b \in d.of : i \in b.rows
     IN SumFunction([col \in b.cols |-> b.values[i][col] * beta[col]])]
Beside(a, b) ==
  [rows |-> a.rows, cols |-> a.cols \cup b.cols,
   values |-> [i \in a.rows |-> [col \in a.cols \cup b.cols |->
                 IF col \in a.cols THEN a.values[i][col] ELSE b.values[i][col]]]]
HStack(d, e) == [form |-> "block", of |-> {Beside(p[1], p[2]) : p \in Matching(d, e)}]

-----------------------------------------------------------------------------
(* resolve_collinearity: columns in order, each kept when it adds to what is *)
(* absorbed, protected or kept before.                                       *)

Dummies == {[i \in Obs |-> IF call.groups[j][i] = v THEN 1 ELSE 0] :
              j \in DOMAIN call.groups, v \in UNION {Labels(call.groups[j]) : j \in DOMAIN call.groups}}
Span(cols) == Echelon(cols, 0)
Adds(basis, x) == Span(basis \cup {x}) > Span(basis)
Values(cols) == {ColumnOf(col[1], col[2]) : col \in cols}

Resolved(cols, protected) ==
  FoldLeft(LAMBDA kept, col :
             LET x == ColumnOf(col[1], col[2])
                 original == Values({p \in cols : Before(p, col)})
             IN IF Adds(Dummies, x) /\ Adds(original, x)
                   /\ Adds(Dummies \cup Values(protected) \cup Values(kept), x)
                THEN kept \cup {col} ELSE kept,
           {}, Listed(cols))

\* BlockDesign.select_columns keeps a block whose last column went, and the
\* rows it holds.
SelectColumns(d, keep) ==
  [form |-> d.form,
   of |-> {[rows |-> b.rows, cols |-> b.cols \cap keep,
            values |-> [i \in b.rows |-> [col \in b.cols \cap keep |-> b.values[i][col]]]] : b \in d.of}]

\* BlockDesign.subset_rows drops the blocks left without rows.
SubsetRows(d, keep) ==
  [form |-> d.form,
   of |-> {[rows |-> b.rows \cap keep, cols |-> b.cols,
            values |-> [i \in b.rows \cap keep |-> b.values[i]]] : b \in {b \in d.of : b.rows \cap keep # {}}}]

\* resolve_ols_columns; resolve_iv_columns resolves the controls first, then the
\* other roles against them, and asks for enough instruments.
ResolveColumns ==
  /\ phase \in {"stored", "combined"}
  /\ LET controls == Resolved(ColumnsOf(1, active), {})
         kept == [r \in RoleNames |-> IF r = 1 THEN controls ELSE Resolved(ColumnsOf(r, active), controls)]
     IN IF RoleNames = {1, 2, 3}
           /\ (kept[2] = {} \/ Cardinality(kept[3]) < Cardinality(kept[2]))
        THEN Raise("underidentified")
        ELSE /\ chosen' = kept
             /\ stored' = [r \in RoleNames |-> SelectColumns(stored[r], kept[r])]
             /\ phase' = "resolved"
             /\ UNCHANGED <<call, active, reach, cursor>>

\* A nonlinear fit takes rows away afterwards.
DropRows ==
  /\ phase = "resolved"
  /\ \E keep \in {Obs \ {1}, {RowCount}, {}} :
       stored' = [r \in RoleNames |-> SubsetRows(stored[r], keep)]
  /\ phase' = "subset"
  /\ UNCHANGED <<call, active, reach, cursor, chosen>>

DesignNext == \/ CompileTerms \/ AgainstFE \/ AgainstTerm \/ NextTerm \/ Store \/ Combine
              \/ ResolveColumns \/ DropRows
DesignSpec == DesignInit /\ [][DesignNext]_designVars

-----------------------------------------------------------------------------
\* No structural reduction changes what the absorbed FEs, the controls and a
\* role's columns span, at any step and whatever it was compared with; the
\* columns finally estimated are, role by role and beyond the FEs and the
\* controls, a basis of what was requested.  The component closure is the
\* refinement order of the factors, although most pairs are never scanned.
BasisOfRequest ==
  LET fes == IF call.absorbed \/ chosen # <<>> THEN Dummies ELSE {}
      All(act, r) == fes \cup Values(ColumnsOf(1, act) \cup ColumnsOf(r, act))
  IN /\ active # <<>> => \A r \in RoleNames : Span(All(active, r)) = Span(All(Requested, r))
     /\ chosen # <<>> => \A r \in RoleNames :
          LET others == IF r = 1 THEN {} ELSE chosen[1]
          IN Span(Dummies \cup Values(others \cup chosen[r]))
               = Span(Dummies \cup Values(others)) + Cardinality(chosen[r])
             /\ Span(Dummies \cup Values(others \cup chosen[r])) = Span(All(Requested, r))
     /\ phase = "structural" /\ Here \in TermIds =>
          reach = {e \in Range(Registry(Role(Here))) \X Range(Registry(Role(Here))) :
                     e[1] # e[2] /\ Maps(call.factors[e[2]], call.factors[e[1]])}

\* Whatever is stored in blocks is the dense design: the blocks take every row
\* once, an entry no block holds is zero, rows and columns dropped, aligned or
\* combined later leave the same numbers where the dense design has them, and
\* the sums and products an estimator takes block by block, of any two roles,
\* are the dense ones.
Entry(col, i) == ColumnOf(col[1], col[2])[i]
Estimated(r) == IF chosen = <<>> THEN ColumnsOf(r, active) ELSE chosen[r]
EveryRowOnce(d) ==
  /\ \A a, b \in d.of : a # b => a.rows \cap b.rows = {}
  /\ phase # "subset" => UNION Partition(d) = Obs
SameEntries(d, cols) ==
  \A b \in d.of : \A i \in b.rows : \A col \in cols :
    Entry(col, i) = IF col \in b.cols THEN b.values[i][col] ELSE 0
SameProducts(q, r) ==
  LET d == stored[q]  e == stored[r]  all == HStack(d, e)
  IN /\ Partition(d) = Partition(e)
     /\ CrossGram(d, e, [i \in Obs |-> i]) =
          [xy \in ColumnsOf(q, active) \X ColumnsOf(r, active) |->
             SumFunction([i \in Obs |-> i * Entry(xy[1], i) * Entry(xy[2], i)])]
     /\ MatVec(all, [col \in Cols(all) |-> 1 + col[2]]) =
          [i \in Obs |-> SumFunction([col \in Cols(all) |-> (1 + col[2]) * Entry(col, i)])]
     /\ Cols(all) = ColumnsOf(q, active) \cup ColumnsOf(r, active)
BlocksAreDense ==
  /\ \A r \in DOMAIN stored : EveryRowOnce(stored[r]) /\ SameEntries(stored[r], Estimated(r))
  /\ phase = "combined" => \A q, r \in DOMAIN stored : SameProducts(q, r)
=============================================================================
