---------------------------- MODULE MCSessionCache ----------------------------
(* Small sessions: two FE columns, a weight column, an outcome and a regressor. *)
EXTENDS SessionCache

CONSTANTS f, g, w, y, x

MCFE == {f, g}
MCAux == {w}
MCNum == {y, x}

TwoSets == {[absorb |-> {f}, cols |-> {y, x}], [absorb |-> {f, g}, cols |-> {y}]}
OneSet == {[absorb |-> {f, g}, cols |-> {y, x}], [absorb |-> {f, g}, cols |-> {y}]}

\* Data columns and weights change; two FE sets; calls fail.
Numeric == [ols |-> TRUE, off |-> FALSE, specs |-> TwoSets, mutable |-> {w, y},
            mayFail |-> TRUE]
\* Every column changes; one FE set.
SameSet == [ols |-> FALSE, off |-> FALSE, specs |-> OneSet, mutable |-> {f, w, y},
            mayFail |-> FALSE]
\* Every column changes; two FE sets; nothing kept across calls; calls fail.
CacheOff == [ols |-> TRUE, off |-> TRUE, specs |-> TwoSets, mutable |-> {f, w, y},
             mayFail |-> TRUE]
SoundSessions == {Numeric, SameSet, CacheOff}

\* An FE column changes between fits with different FE sets.
NewSet == {[ols |-> TRUE, off |-> FALSE, specs |-> TwoSets, mutable |-> {f},
            mayFail |-> FALSE]}
=============================================================================
