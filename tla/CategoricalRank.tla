---------------------------- MODULE CategoricalRank ----------------------------
(***************************************************************************)
(* categorical_rank (hdfe/rank.py): the exact rank of the dummy columns of *)
(* several fixed effects.  Rows are hyperedges with one vertex (a level)   *)
(* per FE.  Duplicates are dropped, leaves are peeled, each connected      *)
(* component of the rest is settled by the first of a chain of certificates*)
(* and elimination backends that can: some are not installed, some give a  *)
(* lower bound only, some run out of a budget.                             *)
(*                                                                         *)
(* An FE is a sequence of dense codes 0, 1, ..., one per row.  The order in*)
(* which leaves and components are taken, the pivot order and the sharing  *)
(* of elimination steps decide speed only: any is allowed here.            *)
(***************************************************************************)
EXTENDS Ordering

CONSTANTS
  Designs,      \* sequences of FEs
  Engines,      \* the backend argument and the optional packages importable
  KeyLimit,     \* largest packed key of a row, 2^64 - 1
  MaxXors,      \* of the GF(2) pass
  Gf2MaxCols,   \* widest component it takes
  MaxCells,     \* flint_max_cells
  Prime         \* _EXACT_PRIME

VARIABLES
  design,       \* the groups argument
  engine,       \* [backend, installed]
  at,           \* where the call is
  edges,        \* rows not yet accounted for
  component,    \* the component being settled
  rank,         \* found so far
  rankError     \* "none", or why no rank is returned

rankVars == <<design, engine, at, edges, component, rank, rankError>>

FELevels(fe) == IF fe = <<>> THEN 0 ELSE 1 + Max({fe[i] : i \in DOMAIN fe})
RowsOf(d) == DOMAIN d[1]
G == Len(design)

-----------------------------------------------------------------------------
(* Elimination.  A row is a function from columns to integers.              *)

\* One row against one pivot; m is the modulus, 0 for the integers.
Modulo(v, m) == IF m = 0 THEN v ELSE v % m
Leading(row) == Min({c \in DOMAIN row : row[c] # 0})
Reduce(row, pivot, m) ==
  LET c == Leading(pivot)
  IN [k \in DOMAIN row |-> Modulo((pivot[c] * row[k]) - (row[c] * pivot[k]), m)]
Pivots(rows, m) ==
  FoldSet(LAMBDA row, ps :
            LET rest == FoldLeft(LAMBDA r, p : Reduce(r, p, m), row, ps)
            IN IF \A c \in DOMAIN rest : rest[c] = 0 THEN ps ELSE Append(ps, rest),
          <<>>, rows)
Echelon(rows, m) == Len(Pivots(rows, m))

Dummy(e, columns) == [v \in columns |-> IF v \in Range(e) THEN 1 ELSE 0]
Vertices(E) == UNION {Range(e) : e \in E}
Incidence(E) == LET cs == Vertices(E) IN {Dummy(e, cs) : e \in E}

\* What the call promises: the rank of all dummy columns over all rows.
Offset(d, j) == FoldLeft(LAMBDA s, fe : s + FELevels(fe), 0, SubSeq(d, 1, j - 1))
Edge(d, i) == [j \in DOMAIN d |-> Offset(d, j) + d[j][i]]
ExactRank(E) == Echelon(Incidence(E), 0)
DummyRank(d) == IF d = <<>> THEN 0 ELSE ExactRank({Edge(d, i) : i \in RowsOf(d)})

-----------------------------------------------------------------------------
(* Topology *)

\* _unique_edge_indices: one key per row when the mixed radix fits, else the
\* tuple itself; the first row of each key stays.
Radix(d) == FoldLeft(LAMBDA p, fe : p * Max({FELevels(fe), 1}), 1, d)
Key(d, i) == FoldLeft(LAMBDA k, fe : (k * FELevels(fe) + fe[i]) % (KeyLimit + 1), 0, d)
SameRow_KeyOnly(d, i, k) == Key(d, i) = Key(d, k)
SameRow(d, i, k) == IF Radix(d) <= KeyLimit THEN Key(d, i) = Key(d, k)
                    ELSE Edge(d, i) = Edge(d, k)
UniqueEdges(d) ==
  {Edge(d, i) : i \in {i \in RowsOf(d) : \A k \in 1..(i - 1) : ~SameRow(d, k, i)}}

\* Union-find over the rows: classes of edges joined by shared vertices, and by
\* sharing all vertices but one.
Classes(E, Near(_, _)) ==
  FoldSet(LAMBDA e, parts :
            LET hit == {P \in parts : \E f \in P : Near(e, f)}
            IN (parts \ hit) \cup {{e} \cup UNION hit},
          {}, E)
Agree(e, f) == {j \in DOMAIN e : e[j] = f[j]}
Components(E) == LET Touch(e, f) == Agree(e, f) # {} IN Classes(E, Touch)
ProperlyConnected(E) ==
  LET Adjacent(e, f) == Cardinality(Agree(e, f)) >= Len(e) - 1
  IN Cardinality(Classes(E, Adjacent)) <= 1

Degree(v, E) == Cardinality({e \in E : v \in Range(e)})
Leaves(E) == {v \in Vertices(E) : Degree(v, E) = 1}

\* The G-1 block sums bound the rank of a connected component.
Width(E) == Cardinality(Vertices(E)) - (G - 1)
Upper(E) == Min({Cardinality(E), Width(E)})

\* _reduced_component_rows: one level of every FE after the first is dropped.
ReducedRows(E, first) ==
  LET dropped == {first[j] : j \in 2..G}
  IN {Range(e) \ dropped : e \in E}

\* _gf2_bitset_rank: XOR rows onto pivots by highest bit; a lower bound, exact
\* when it reaches the target.
XorBit(s, bit) ==
  IF bit \notin s.bits \/ s.stop THEN s
  ELSE IF \E p \in s.pivots : Max(p) = bit
       THEN LET p == CHOOSE p \in s.pivots : Max(p) = bit
            IN [s EXCEPT !.bits = (@ \ p) \cup (p \ @), !.xors = @ + 1,
                         !.stop = s.xors + 1 >= MaxXors]
       ELSE [s EXCEPT !.bits = {}, !.pivots = @ \cup {s.bits},
                      !.stop = Cardinality(s.pivots) + 1 >= s.target]
XorRow(s, row) ==
  FoldLeft(LAMBDA t, v : XorBit(t, v), [s EXCEPT !.bits = row], Descending(row \cup UNION s.pivots))
Gf2Rank(rows, target) ==
  Cardinality(FoldSet(LAMBDA row, s : XorRow(s, row),
                      [bits |-> {}, pivots |-> {}, xors |-> 0, stop |-> FALSE,
                       target |-> target], rows).pivots)

-----------------------------------------------------------------------------
RankInit ==
  /\ design \in Designs
  /\ engine \in Engines
  /\ at = "start" /\ edges = {} /\ component = {} /\ rank = 0 /\ rankError = "none"

Input == UNCHANGED <<design, engine>>
Settle(n) == /\ rank' = rank + n /\ component' = {} /\ at' = "component"
             /\ Input /\ UNCHANGED <<edges, rankError>>
Refuse(why) == /\ rankError' = why /\ at' = "done"
               /\ Input /\ UNCHANGED <<edges, component, rank>>
Try(next) == at' = next /\ Input /\ UNCHANGED <<edges, component, rank, rankError>>

\* No rows, one FE, or two: the observed levels, less one per mobility group.
Small ==
  /\ at = "start" /\ G <= 2
  /\ LET all == {Edge(design, i) : i \in RowsOf(design)}
     IN rank' = IF G = 0 \/ all = {} THEN 0
                ELSE IF G = 1 THEN FELevels(design[1])
                ELSE Offset(design, 3) - Cardinality(Components(all))
  /\ at' = "done" /\ Input /\ UNCHANGED <<edges, component, rankError>>

Deduplicate ==
  /\ at = "start" /\ G > 2
  /\ edges' = UniqueEdges(design)
  /\ at' = "peel" /\ Input /\ UNCHANGED <<component, rank, rankError>>

\* _peel_degree_one: a column in one row only is a pivot; both go.
PeelLeaf ==
  /\ at = "peel"
  /\ \E v \in Leaves(edges) :
       edges' = {e \in edges : v \notin Range(e)}
  /\ rank' = rank + 1
  /\ Input /\ UNCHANGED <<at, component, rankError>>

Peeled == at = "peel" /\ Leaves(edges) = {} /\ Try("component")

\* _component_rank: zero, the structural certificate, or on to the backends.
NextComponent ==
  /\ at = "component" /\ edges # {}
  /\ \E E \in Components(edges) :
       /\ edges' = edges \ E
       /\ Input /\ UNCHANGED rankError
       /\ IF Upper(E) <= 0 THEN at' = at /\ UNCHANGED <<rank, component>>
          ELSE IF Cardinality(E) >= Width(E) /\ ProperlyConnected(E)
          THEN rank' = rank + Width(E) /\ UNCHANGED <<at, component>>
          ELSE at' = "gf2" /\ component' = E /\ UNCHANGED rank

AllSettled == at = "component" /\ edges = {} /\ Try("done")

Gf2 ==
  /\ at = "gf2"
  /\ \E first \in component :
       IF Width(component) <= Gf2MaxCols
          /\ Gf2Rank(ReducedRows(component, first), Upper(component)) >= Upper(component)
       THEN Settle(Upper(component))
       ELSE Try("flint")

\* python-flint: dense, bounded in cells, exact.
Cells == Cardinality(component) * Width(component)
Flint ==
  /\ at = "flint"
  /\ IF engine.backend \notin {"auto", "flint"} \/ (engine.backend = "auto" /\ Cells > MaxCells)
     THEN Try("sympy")
     ELSE IF Cells > MaxCells THEN Refuse("cells")
     ELSE IF "flint" \in engine.installed THEN Settle(ExactRank(component))
     ELSE IF engine.backend = "flint" THEN Refuse("import") ELSE Try("sympy")

\* SymPy: a pass modulo a prime settles a full component, else the integers do.
Sympy ==
  /\ at = "sympy"
  /\ IF engine.backend \notin {"auto", "sympy"} THEN Try("native")
     ELSE IF "sympy" \in engine.installed
     THEN Settle(IF Echelon(Incidence(component), Prime) >= Upper(component)
                 THEN Upper(component) ELSE ExactRank(component))
     ELSE IF engine.backend = "sympy" THEN Refuse("import") ELSE Try("native")

\* The native passes share one budget; a shortfall modulo the prime is only a
\* lower bound, so the rational pass decides.
ModularRank(E) == Min({Echelon(Incidence(E), Prime), Upper(E)})
Native ==
  /\ at = "native"
  /\ \/ Refuse("budget")
     \/ /\ ModularRank(component) = Upper(component)
        /\ Settle(ModularRank(component))
     \/ ModularRank(component) # Upper(component) /\ Try("rational")
Rational == at = "rational" /\ (Refuse("budget") \/ Settle(ExactRank(component)))

RankNext == \/ Small \/ Deduplicate \/ PeelLeaf \/ Peeled \/ NextComponent \/ AllSettled
            \/ Gf2 \/ Flint \/ Sympy \/ Native \/ Rational
RankSpec == RankInit /\ [][RankNext]_rankVars

-----------------------------------------------------------------------------
\* At every point of the call the rank counted so far and the exact rank of the
\* rows not yet accounted for make up the rank of the whole design: no
\* duplicate key, leaf, component split, certificate or finite-field bound
\* loses or invents a direction.  A call that ends answers that rank or raises,
\* and without an explicit optional backend it raises for its budget only.
RankIsExact ==
  /\ at # "start" /\ rankError = "none" =>
       rank + ExactRank(edges) + ExactRank(component) = DummyRank(design)
  /\ engine.backend \in {"auto", "native"} => rankError \in {"none", "budget"}
=============================================================================
