------------------------------ MODULE MCLinearFit ------------------------------
\* OLS and IV calls: three columns of one role, or five of three.
EXTENDS LinearFit

OlsColumns == [exog |-> {"x1", "x2", "x3"}]
IvColumns == [exog |-> {"x1", "x2"}, endog |-> {"e1"}, z |-> {"z1", "z2"}]
LinearCall(iv0, grouped, native, eligible, plain, allow, raises, tol, field) ==
  [iv |-> iv0, grouped |-> grouped, native |-> native, eligible |-> eligible, plain |-> plain,
   allow |-> allow, raises |-> raises, columns |-> IF iv0 THEN IvColumns ELSE OlsColumns,
   tol |-> tol, field |-> field]
MCLinearCalls ==
  {LinearCall(FALSE, FALSE, n, e, FALSE, a, r, 2, 2) :
     n \in BOOLEAN, e \in BOOLEAN, a \in BOOLEAN, r \in BOOLEAN}
  \cup {LinearCall(FALSE, FALSE, FALSE, TRUE, FALSE, TRUE, FALSE, t, f) : t \in {0, 2}, f \in 0..2}
  \cup {LinearCall(TRUE, FALSE, n, FALSE, p, a, FALSE, 2, 2) : n \in BOOLEAN, p \in BOOLEAN, a \in BOOLEAN}
  \cup {LinearCall(TRUE, FALSE, FALSE, FALSE, TRUE, FALSE, TRUE, 0, 2)}
  \cup {LinearCall(i, TRUE, FALSE, FALSE, FALSE, a, FALSE, 2, 2) : i \in BOOLEAN, a \in BOOLEAN}
=============================================================================
