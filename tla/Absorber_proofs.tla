----------------------------- MODULE Absorber_proofs -----------------------------
(***************************************************************************)
(* Proofs about the fixed effects of a request (FEStructure) and about the *)
(* solvers that absorb them (Absorber).  Neither part uses the other.      *)
(*                                                                         *)
(* Absorber, for any number of solvers, threads, weight vectors and        *)
(* tolerances: what is compiled lazily belongs to the current binding, the *)
(* sweeps of one object are never entered twice, and every answer is one   *)
(* that FreshProjection allows.                                            *)
(*                                                                         *)
(* FEStructure, for any rows and request: the plan that is left spans what *)
(* was requested.  A plan that is right on its own sample says nothing of  *)
(* the next one, so StructureInv also says that the plan of the first pass *)
(* was canonical on all rows and which rows each pass has kept.            *)
(***************************************************************************)
EXTENDS Absorber, FEStructure, Ordering_proofs, TLAPS

Pcs == {"idle", "peeled", "noCore", "core", "closed", "wait", "lsmr", "oneTerm", "probe",
        "plain", "cgStart", "cg", "check", "checkFailed", "polishWait", "polish",
        "directionWait", "direction", "rounds", "cleanupWait", "cleanup"}
CallType == [pc : Pcs, of : Solvers \cup {"none"}, on : Clients \cup {"outer"},
             it : 0..MaxIter, cap : 0..MaxIter, phase : Nat, tested : 0..Never, err : Int,
             tol : Nat]
CoreType == [by : Clients, weights : Weights, denoms : Weights, tol : Tols]
BindingType == [shape : Shapes, weights : Weights, denoms : Weights, tol : Tols,
                plan : {"none", "some", "all"}, core : CoreType \cup {NoCore}]

\* A solver that follows its binding: everything compiled is of its weights, and
\* only rows that count have been peeled.  The core's tolerance is its own.
CoreFollows(a) == a.core = NoCore \/ (a.core \in CoreType /\ a.core.weights = a.weights
                                       /\ a.core.denoms = a.weights)
Follows(a) == /\ a \in BindingType
              /\ a.denoms = a.weights
              /\ a.plan # "none" => a.weights \notin Zero
              /\ a.plan # "some" => a.core = NoCore
              /\ CoreFollows(a)

\* Where a projection may stand: the iterations it has used leave what its
\* phase may still use, and what it claims to have passed it has passed.
Counts(pc, it, cap, phase, err) ==
  /\ pc \in {"noCore", "core", "wait", "directionWait"} => it = 0
  /\ pc \in {"cgStart", "polishWait", "cleanupWait"} => it < MaxIter
  /\ pc = "probe" => it < 2 /\ it < MaxIter
  /\ pc \in {"plain", "cg"} => it < cap
  /\ pc \in {"rounds", "polish"} => it <= cap
  /\ pc \in {"polishWait", "polish"} => err \in Errors
  /\ pc \in {"direction", "cleanup"} =>
       phase < cap /\ phase <= it /\ it - phase + cap <= MaxIter
Counting(k) == Counts(k.pc, k.it, k.cap, k.phase, k.err)

\* The tolerance a projection is held to, and the phases of a solve.
Held(k, a) == IF k.pc \in ForDirection \/ a.core = NoCore THEN a.tol ELSE a.core.tol
InEffect(c) == Held(call[c], abs[call[c].of])
Solves == {"closed", "wait", "lsmr", "oneTerm", "probe", "plain", "cgStart", "cg",
           "check", "checkFailed", "polishWait", "polish"}

Standing(k, a) ==
  /\ k \in CallType /\ k.pc # "idle" /\ Counting(k)
  /\ k.on # "outer" => a.plan = "some" /\ a.core # NoCore
  /\ k.pc \in {"noCore", "core"} => a.plan = "some"
  /\ k.pc = "core" => a.core # NoCore
  /\ k.pc = "noCore" /\ a.core # NoCore => a.core.tol = a.tol
  /\ k.pc = "check" => k.on # "outer" /\ k.tested <= a.core.tol
  /\ k.pc \in Solves /\ k.on = "outer" => a.plan # "some"
  /\ k.pc \in ForDirection => k.tol = a.tol /\ k.on = "outer"

Serving(c) == /\ call[c].of \in Solvers
              /\ abs[call[c].of] # NotBuilt
              /\ Standing(call[c], abs[call[c].of])

IInv ==
  /\ DOMAIN abs = Solvers /\ DOMAIN call = Clients /\ DOMAIN report = Clients
  /\ abs = [o \in Solvers |-> abs[o]] /\ call = [c \in Clients |-> call[c]]
  /\ report = [c \in Clients |-> report[c]]
  /\ \A o \in Solvers : abs[o] = NotBuilt \/ Follows(abs[o])
  /\ \A c \in Clients : call[c] = Idle \/ Serving(c)
  /\ \A c \in Clients : report[c] = NoReport
                         \/ (report[c].of \in Solvers /\ abs[report[c].of] # NotBuilt)

-----------------------------------------------------------------------------
\* The loosest tolerance, and the grade beyond it.
LEMMA TolFacts ==
  /\ \A t \in Tols : t \in Nat /\ t > 0 /\ t <= Max(Tols) /\ t < Never
  /\ Max(Tols) \in Nat /\ Never \in Nat
  /\ MaxIter \in Nat /\ MaxIter > 0 /\ PlainLimit \in Nat /\ PlainLimit > 0
  /\ PolishLimit \in Nat /\ DirectionSweeps \in Nat /\ DirectionSweeps > 0
<1>1. Max(Tols) \in Tols /\ (\A t \in Tols : t <= Max(Tols)) /\ Tols \subseteq Nat \ {0}
      /\ {MaxIter, PlainLimit, DirectionSweeps} \subseteq Nat \ {0} /\ PolishLimit \in Nat
  BY AbsorberAssumption
<1> DEFINE m == Max(Tols)
<1>2. m \in Tols /\ \A t \in Tols : t <= m
  BY <1>1
<1> HIDE DEF m
<1>3. m \in Nat /\ \A t \in Tols : t \in Nat /\ t > 0 /\ t < m + 1
  BY <1>1, <1>2
<1>4. \A t \in Tols : t \in Nat /\ t > 0 /\ t <= Max(Tols) /\ t < Max(Tols) + 1
  BY <1>1, <1>3 DEF m
<1>5. Max(Tols) \in Nat /\ Never \in Nat
  BY <1>3 DEF m, Never
<1>6. /\ MaxIter \in Nat /\ MaxIter > 0 /\ PlainLimit \in Nat /\ PlainLimit > 0
      /\ PolishLimit \in Nat /\ DirectionSweeps \in Nat /\ DirectionSweeps > 0
  BY <1>1
<1> QED
  BY <1>4, <1>5, <1>6 DEF Never

LEMMA MinOfTwo ==
  ASSUME NEW m \in Int, NEW n \in Int
  PROVE  Min({m, n}) = IF m <= n THEN m ELSE n
<1>1. CASE m <= n
  <2>1. m \in {m, n} /\ \A y \in {m, n} : m <= y
    BY <1>1
  <2>2. \A x \in {m, n} : (\A y \in {m, n} : x <= y) => x = m
    BY <1>1
  <2> QED
    BY <1>1, <2>1, <2>2 DEF Min
<1>2. CASE ~(m <= n)
  <2>1. n \in {m, n} /\ \A y \in {m, n} : n <= y
    BY <1>2
  <2>2. \A x \in {m, n} : (\A y \in {m, n} : x <= y) => x = n
    BY <1>2
  <2> QED
    BY <1>2, <2>1, <2>2 DEF Min
<1> QED
  BY <1>1, <1>2

\* A solver and the mark of one not built have different fields.
LEMMA BuiltIsNotUnbuilt == \A a \in BindingType : a # NotBuilt
<1> SUFFICES ASSUME NEW a \in BindingType, a = NotBuilt PROVE FALSE
  OBVIOUS
<1>1. "tol" \in DOMAIN a
  BY DEF BindingType
<1>2. "tol" \notin DOMAIN NotBuilt
  BY DEF NotBuilt
<1> QED
  BY <1>1, <1>2

LEMMA CoreIsNotMissing == \A x \in CoreType : x # NoCore
<1> SUFFICES ASSUME NEW x \in CoreType, x = NoCore PROVE FALSE
  OBVIOUS
<1>1. "tol" \in DOMAIN x
  BY DEF CoreType
<1>2. "tol" \notin DOMAIN NoCore
  BY DEF NoCore
<1> QED
  BY <1>1, <1>2

LEMMA IdleFacts == Idle.pc = "idle" /\ Idle.of = "none" /\ Idle.of \notin Solvers
  BY AbsorberAssumption DEF Idle

-----------------------------------------------------------------------------
(* Steps of a projection: it goes on, or it answers.                         *)

Promised(c) == /\ IInv'
               /\ \/ PolishLimit = 0 \/ Promise!Answer(c) \/ UNCHANGED Promise!fvars
                  \/ Promise!CompilePart(call[c].of)

LEMMA BuiltFollows ==
  ASSUME IInv, NEW c \in Clients, Serving(c)
  PROVE  /\ call[c].of \in Solvers /\ abs[call[c].of] \in BindingType
         /\ Follows(abs[call[c].of]) /\ call[c] \in CallType /\ call[c].of # "none"
  BY AbsorberAssumption DEF IInv, Serving, Standing, Follows

LEMMA NotIdleServes ==
  ASSUME IInv, NEW c \in Clients, call[c].pc # "idle"
  PROVE  Serving(c)
  BY IdleFacts DEF IInv

\* What an answer is computed from is the binding: the object it runs on, solver
\* or core, follows it, and a core has only peeled rows that count.  A solve is
\* held to the tolerance of this object.
LEMMA ConsultsTheBinding ==
  ASSUME IInv, NEW c \in Clients, Serving(c)
  PROVE  /\ Consulted(c) = {abs[call[c].of].weights}
         /\ call[c].pc \in Solves => Tol(c) = InEffect(c)
         /\ Tol(c) \in Tols /\ InEffect(c) \in Tols
<1> DEFINE a == abs[call[c].of]
<1>1. Follows(a) /\ a \in BindingType /\ Standing(call[c], a)
  BY BuiltFollows DEF Serving
<1>4. a.core # NoCore => a.core.tol \in Tols
  BY <1>1 DEF Follows, CoreFollows, CoreType
<1>5. InEffect(c) \in Tols
  BY <1>1, <1>4 DEF InEffect, Held, BindingType
<1>2. CASE OnCore(c)
  <2>1. a.plan = "some" /\ a.core # NoCore
    BY <1>1, <1>2 DEF OnCore, Standing
  <2>2. a.weights \notin Zero /\ a.core.weights = a.weights /\ a.core.denoms = a.weights
    BY <1>1, <2>1 DEF Follows, CoreFollows
  <2>3. Object(c) = a.core
    BY <1>2 DEF Object
  <2>4. call[c].pc \in Solves => InEffect(c) = a.core.tol
    BY <2>1 DEF InEffect, Held, Solves, ForDirection
  <2> QED
    BY <1>4, <1>5, <2>1, <2>2, <2>3, <2>4 DEF Consulted, Tol
<1>3. CASE ~OnCore(c)
  <2>1. Object(c) = a
    BY <1>3 DEF Object
  <2>2. call[c].pc \in Solves => InEffect(c) = a.tol
    BY <1>1, <1>3 DEF InEffect, Held, Standing, OnCore, Follows
  <2> QED
    BY <1>1, <1>3, <1>5, <2>1, <2>2 DEF Consulted, Tol, Follows, BindingType
<1> QED
  BY <1>2, <1>3

LEMMA GoesOn ==
  ASSUME IInv, NEW c \in Clients, Serving(c),
         NEW k, k.of = call[c].of, Standing(k, abs[call[c].of]),
         k.pc \in ForDirection <=> call[c].pc \in ForDirection,
         Goto(c, k), abs' = abs, report' = report
  PROVE  Promised(c)
<1>1. call' = [call EXCEPT ![c] = k] /\ DOMAIN call = Clients
  BY DEF Goto, IInv
<1>2. call'[c] = k /\ \A d \in Clients : d # c => call'[d] = call[d]
  BY <1>1
<1>3. \A d \in Clients : ServiceOf(call'[d]) = ServiceOf(call[d])
  BY <1>2 DEF ServiceOf
<1>4. UNCHANGED Promise!fvars
  BY <1>3 DEF Promise!fvars
<1>5. \A d \in Clients : (call[d] = Idle \/ Serving(d))'
  BY <1>2 DEF IInv, Serving
<1>6. DOMAIN call' = Clients /\ call' = [d \in Clients |-> call'[d]]
  BY <1>1
<1> QED
  BY <1>4, <1>5, <1>6 DEF Promised, IInv

LEMMA Answers ==
  ASSUME IInv, NEW c \in Clients, Serving(c),
         NEW ok \in BOOLEAN, NEW n \in 0..MaxIter, NEW g \in 0..Never,
         PolishLimit = 0 \/ (ok => g <= InEffect(c)),
         Return(c, ok, n, g), abs' = abs
  PROVE  Promised(c)
<1> DEFINE o == call[c].of
           r == [of |-> o, converged |-> ok, iterations |-> n, tested |-> g,
                 consulted |-> {abs[o].weights}]
<1>1. o \in Solvers /\ abs[o] # NotBuilt /\ o # "none"
  BY BuiltFollows DEF Serving
<1>2. /\ report' = [report EXCEPT ![c] = r] /\ call' = [call EXCEPT ![c] = Idle]
      /\ DOMAIN call = Clients /\ DOMAIN report = Clients
  BY ConsultsTheBinding DEF Return, Info, Goto, IInv
<1>3. BoundOf(abs[o]) = [weights |-> abs[o].weights, tol |-> abs[o].tol, kept |-> Kept(abs[o])]
  BY <1>1 DEF BoundOf
<1>12. ServiceOf(Idle) = Promise!NoService
  BY DEF ServiceOf, Idle, ForDirection, Promise!NoService
<1>4. [d \in Clients |-> ServiceOf(call[d])]'
        = [[d \in Clients |-> ServiceOf(call[d])] EXCEPT ![c] = Promise!NoService]
  BY <1>2, <1>12
<1>5. g \in Promise!Grades
  BY DEF Promise!Grades, Promise!Max, Max, Never
<1>7. \A d \in Clients : (call[d] = Idle \/ Serving(d))'
  BY <1>2 DEF IInv, Serving
<1>8. \A d \in Clients : (report[d] = NoReport
                             \/ (report[d].of \in Solvers /\ abs[report[d].of] # NotBuilt))'
  BY <1>1, <1>2 DEF IInv
<1>9. /\ DOMAIN call' = Clients /\ call' = [d \in Clients |-> call'[d]]
      /\ DOMAIN report' = Clients /\ report' = [d \in Clients |-> report'[d]]
  BY <1>2
<1>10. (\A p \in Solvers : abs[p] = NotBuilt \/ Follows(abs[p]))'
       /\ DOMAIN abs' = Solvers /\ abs' = [p \in Solvers |-> abs'[p]]
  BY DEF IInv
<1>11. IInv'
  BY <1>7, <1>8, <1>9, <1>10 DEF IInv
<1>6. CASE PolishLimit # 0
  <2> DEFINE asked == [d \in Clients |-> ServiceOf(call[d])]
             told == [p \in Solvers |-> BoundOf(abs[p])]
  <2>1. /\ asked[c].of = o /\ told[o].weights = abs[o].weights /\ told[o].tol = abs[o].tol
        /\ told[o].kept = Kept(abs[o])
    BY <1>1, <1>3 DEF ServiceOf
  <2>7. Promise!Standard(asked[c]) = InEffect(c)
    <3>1. Kept(abs[o]) = 0 <=> abs[o].core = NoCore
      BY BuiltFollows, TolFacts DEF Kept, Follows, CoreFollows, CoreType
    <3>2. Promise!Effective(o) = IF abs[o].core = NoCore THEN abs[o].tol ELSE abs[o].core.tol
      BY <2>1, <3>1 DEF Promise!Effective, told, Kept
    <3>3. asked[c].for = "block" <=> call[c].pc \notin ForDirection
      BY DEF ServiceOf
    <3> QED
      BY <2>1, <3>2, <3>3 DEF Promise!Standard, InEffect, Held, told
  <2>2. report' = [report EXCEPT ![c] = [of |-> asked[c].of, converged |-> ok, iterations |-> n,
                     tested |-> g, consulted |-> {told[asked[c].of].weights}]]
    BY <1>2, <2>1
  <2>3. ok => g <= Promise!Standard(asked[c])
    BY <1>6, <2>7
  <2>4. told' = told /\ asked' = [asked EXCEPT ![c] = Promise!NoService]
        /\ asked[c] # Promise!NoService
    BY <1>1, <1>4, <2>1 DEF Promise!NoService
  <2>5. \E k \in BOOLEAN, it \in 0..MaxIter, q \in Promise!Grades :
          /\ k => q <= Promise!Standard(asked[c])
          /\ report' = [report EXCEPT ![c] = [of |-> asked[c].of, converged |-> k,
                          iterations |-> it, tested |-> q, consulted |-> {told[asked[c].of].weights}]]
    BY <1>5, <2>2, <2>3
  <2>6. Promise!Answer(c)
    BY <2>4, <2>5 DEF Promise!Answer
  <2> QED
    BY <1>11, <2>6 DEF Promised
<1> QED
  BY <1>6, <1>11 DEF Promised

\* Several fields of a call at once.
LEMMA FourFields ==
  ASSUME NEW k \in CallType, NEW p \in Pcs, NEW n \in 0..MaxIter, NEW m \in 0..MaxIter
  PROVE  /\ \A g \in 0..Never :
              [k EXCEPT !.pc = p, !.it = n, !.tested = g, !.cap = m] \in CallType
         /\ \A f \in Nat : [k EXCEPT !.pc = p, !.it = n, !.phase = f, !.cap = m] \in CallType
<1> DEFINE j == [k EXCEPT !.pc = p, !.it = n]
<1>1. j \in CallType
  BY DEF CallType
<1> HIDE DEF j
<1>2. \A g \in 0..Never : [j EXCEPT !.tested = g, !.cap = m] \in CallType
  BY <1>1 DEF CallType
<1>3. \A f \in Nat : [j EXCEPT !.phase = f, !.cap = m] \in CallType
  BY <1>1 DEF CallType
<1> QED
  BY <1>2, <1>3 DEF j

\* The end of a solve on the solver itself or on its core.
LEMMA SolvedAnswers ==
  ASSUME IInv, NEW c \in Clients, Serving(c), call[c].pc \notin ForDirection,
         NEW ok \in BOOLEAN, NEW n \in 0..MaxIter, NEW g \in 0..Never, NEW cg \in BOOLEAN,
         ok => g <= InEffect(c),
         Solved(c, ok, n, g, cg)
  PROVE  Promised(c)
<1>1. CASE cg /\ OnCore(c)
  <2> DEFINE p == IF ok THEN "check" ELSE "checkFailed"
             k == [call[c] EXCEPT !.pc = p, !.it = n, !.tested = g, !.cap = 0]
  <2>1. Goto(c, k) /\ abs' = abs /\ report' = report
    BY <1>1 DEF Solved
  <2>5. p \in {"check", "checkFailed"} /\ (p = "check" => ok)
    BY Zenon
  <2> HIDE DEF p
  <2>2. call[c] \in CallType /\ MaxIter \in Nat
    BY BuiltFollows, TolFacts
  <2>7. p \in Pcs
    BY <2>5 DEF Pcs
  <2>8. 0 \in 0..MaxIter
    BY <2>2
  <2>6. k \in CallType
    BY <2>2, <2>7, <2>8, FourFields
  <2>3. k \in CallType /\ k.of = call[c].of /\ k.on = call[c].on /\ k.pc = p /\ k.tested = g
    BY <2>2, <2>6 DEF CallType
  <2> HIDE DEF k
  <2>4. Standing(k, abs[call[c].of])
    <3>1. ok => g <= abs[call[c].of].core.tol
      BY <1>1 DEF Serving, Standing, OnCore, InEffect, Held
    <3> QED
      BY <1>1, <2>3, <2>5, <3>1
      DEF Standing, Counting, Counts, Serving, OnCore, Solves, ForDirection
  <2> QED
    BY <2>1, <2>3, <2>4, <2>5, GoesOn DEF ForDirection
<1>2. CASE ~(cg /\ OnCore(c))
  BY <1>2, Answers DEF Solved
<1> QED
  BY <1>1, <1>2

-----------------------------------------------------------------------------
(* One lemma per group of actions of a projection that has been asked.       *)

\* A core compiled lazily is compiled for the current binding, whichever of two
\* threads builds it, and whichever core stays.
LEMMA BuildCorePromised ==
  ASSUME IInv, NEW c \in Clients, BuildCore(c)
  PROVE  Promised(c)
<1> DEFINE o == call[c].of
           a == abs[o]
           k == [call[c] EXCEPT !.pc = "core"]
           b == [a EXCEPT !.core = CoreOf(c, a)]
<1>1. Serving(c) /\ call[c].pc = "noCore"
  BY NotIdleServes DEF BuildCore
<1>2. /\ o \in Solvers /\ a \in BindingType /\ Follows(a) /\ call[c] \in CallType
      /\ a.plan = "some" /\ Standing(call[c], a)
  BY <1>1, BuiltFollows DEF Serving, Standing
<1>3. /\ CoreOf(c, a) \in CoreType /\ CoreOf(c, a).weights = a.weights
      /\ CoreOf(c, a).denoms = a.weights /\ CoreOf(c, a).tol = a.tol
  BY <1>2 DEF CoreOf, CoreType, BindingType
<1>4. /\ b \in BindingType /\ b.core = CoreOf(c, a) /\ b.plan = a.plan /\ b.tol = a.tol
      /\ b.weights = a.weights /\ b.denoms = a.denoms
  BY <1>2, <1>3 DEF BindingType
<1>19. a.core # NoCore => a.core.tol = b.core.tol
  BY <1>1, <1>2, <1>3, <1>4 DEF Standing
<1>5. Follows(b) /\ b.core # NoCore /\ b # NotBuilt
  BY <1>2, <1>3, <1>4, CoreIsNotMissing, BuiltIsNotUnbuilt DEF Follows, CoreFollows
<1>6. /\ DOMAIN abs = Solvers /\ DOMAIN call = Clients
      /\ abs' = [abs EXCEPT ![o] = b] /\ call' = [call EXCEPT ![c] = k] /\ report' = report
  <2>1. abs' = [abs EXCEPT ![o].core = CoreOf(c, a)]
    BY DEF BuildCore
  <2> QED
    BY <2>1 DEF BuildCore, Goto, IInv
<1>7. k \in CallType /\ k.of = o /\ k.on = call[c].on /\ k.pc = "core" /\ k.it = call[c].it
  BY <1>2 DEF CallType, Pcs
<1>8. Standing(k, b)
  BY <1>1, <1>2, <1>4, <1>5, <1>7 DEF Standing, Counting, Counts, Solves, ForDirection
<1>9. \A d \in Clients : Standing(call[d], a) => Standing(call[d], b)
  <2>1. \A d \in Clients : Standing(call[d], a) /\ call[d].pc \in Solves /\ call[d].on = "outer" => FALSE
    BY <1>2 DEF Standing
  <2> QED
    BY <1>2, <1>3, <1>4, <1>5, <1>19 DEF Standing
<1> HIDE DEF o, a, k, b
<1>10. /\ abs'[o] = b /\ \A p \in Solvers : p # o => abs'[p] = abs[p]
       /\ call'[c] = k /\ \A d \in Clients : d # c => call'[d] = call[d]
  BY <1>2, <1>6
<1>11. \A p \in Solvers : (abs[p] = NotBuilt \/ Follows(abs[p]))'
  BY <1>5, <1>10 DEF IInv
<1>12. \A d \in Clients : (call[d] = Idle \/ Serving(d))'
  <2> SUFFICES ASSUME NEW d \in Clients PROVE (call[d] = Idle \/ Serving(d))'
    OBVIOUS
  <2>1. CASE d = c
    BY <1>2, <1>5, <1>7, <1>8, <1>10, <2>1 DEF Serving
  <2>2. CASE d # c /\ call[d].of = o /\ call[d] # Idle
    <3>1. Standing(call[d], a)
      BY <2>2 DEF IInv, Serving, a
    <3> QED
      BY <1>2, <1>5, <1>9, <1>10, <2>2, <3>1 DEF Serving
  <2>3. CASE d # c /\ (call[d].of # o \/ call[d] = Idle)
    BY <1>10, <2>3 DEF IInv, Serving
  <2> QED
    BY <2>1, <2>2, <2>3
<1>13. \A d \in Clients : (report[d] = NoReport
                             \/ (report[d].of \in Solvers /\ abs[report[d].of] # NotBuilt))'
  BY <1>5, <1>6, <1>10 DEF IInv
<1>14. /\ DOMAIN abs' = Solvers /\ abs' = [p \in Solvers |-> abs'[p]]
       /\ DOMAIN call' = Clients /\ call' = [d \in Clients |-> call'[d]]
       /\ DOMAIN report' = Clients /\ report' = [d \in Clients |-> report'[d]]
  BY <1>6 DEF IInv
<1>15. IInv'
  BY <1>11, <1>12, <1>13, <1>14 DEF IInv
<1> DEFINE told == [p \in Solvers |-> BoundOf(abs[p])]
           asked == [d \in Clients |-> ServiceOf(call[d])]
<1>16. /\ a # NotBuilt /\ a.tol \in Nat /\ Kept(b) = a.tol
       /\ BoundOf(b) = [BoundOf(a) EXCEPT !.kept = a.tol]
       /\ BoundOf(a).kept = Kept(a) /\ BoundOf(a).tol = a.tol
       /\ BoundOf(a) = [weights |-> a.weights, tol |-> a.tol, kept |-> Kept(a)]
  <2>1. a # NotBuilt /\ a.tol \in Nat
    BY <1>2, BuiltIsNotUnbuilt, TolFacts DEF BindingType
  <2>2. Kept(b) = a.tol
    BY <1>3, <1>4, <1>5 DEF Kept
  <2> QED
    BY <1>4, <1>5, <2>1, <2>2 DEF BoundOf
<1>17. asked' = asked /\ report' = report /\ asked[c] = [of |-> o, for |-> "block"]
  <2>1. \A d \in Clients : ServiceOf(call'[d]) = ServiceOf(call[d])
    BY <1>1, <1>7, <1>10 DEF ServiceOf, ForDirection, o
  <2>2. asked' = asked
    BY <2>1
  <2> QED
    BY <1>1, <1>6, <2>2 DEF ServiceOf, ForDirection, o
<1>18. CASE a.core = NoCore
  <2>1. told[o].kept = 0 /\ told[o].tol = a.tol
    BY <1>2, <1>16, <1>18 DEF Kept, a
  <2>2. told' = [told EXCEPT ![o].kept = told[o].tol]
    <3>1. \A p \in Solvers : BoundOf(abs'[p]) = IF p = o THEN [BoundOf(abs[o]) EXCEPT !.kept = told[o].tol]
                                                  ELSE BoundOf(abs[p])
      BY <1>10, <1>16, <2>1 DEF a
    <3> QED
      BY <1>2, <3>1
  <2>3. Promise!CompilePart(o)
    BY <1>17, <2>1, <2>2 DEF Promise!CompilePart
  <2> QED
    BY <1>15, <2>3 DEF Promised, o
<1>20. CASE a.core # NoCore
  <2>1. Kept(a) = a.tol
    BY <1>1, <1>2, <1>20 DEF Kept, Standing
  <2>2. BoundOf(b) = BoundOf(a)
    BY <1>16, <2>1
  <2>3. told' = told
    BY <1>10, <2>2 DEF a
  <2> QED
    BY <1>15, <1>17, <2>3 DEF Promised, Promise!fvars
<1> QED
  BY <1>18, <1>20

\* What is known of a projection that has been asked.
LEMMA Here ==
  ASSUME IInv, NEW c \in Clients, call[c].pc # "idle"
  PROVE  /\ Serving(c) /\ call[c] \in CallType /\ Counting(call[c])
         /\ Standing(call[c], abs[call[c].of])
         /\ Follows(abs[call[c].of]) /\ abs[call[c].of] \in BindingType
         /\ call[c].pc \in Solves => Tol(c) = InEffect(c)
         /\ InEffect(c) \in Nat /\ 0 <= InEffect(c)
         /\ Tol(c) \in Tols /\ Tol(c) \in 0..Never /\ abs[call[c].of].tol \in Nat
         /\ Tol(c) \in Nat /\ Never \in 0..Never /\ 0 \in 0..Never /\ 0 <= Tol(c)
         /\ MaxIter \in Nat \ {0} /\ 0 \in 0..MaxIter
         /\ call[c].it \in 0..MaxIter /\ call[c].cap \in 0..MaxIter
         /\ call[c].phase \in Nat /\ call[c].err \in Int
<1>1. Serving(c)
  BY NotIdleServes
<1>2. Standing(call[c], abs[call[c].of]) /\ call[c] \in CallType /\ Counting(call[c])
  BY <1>1 DEF Serving, Standing
<1>3. /\ Follows(abs[call[c].of]) /\ abs[call[c].of] \in BindingType
      /\ call[c].pc \in Solves => Tol(c) = InEffect(c)
  BY <1>1, BuiltFollows, ConsultsTheBinding
<1>4. Tol(c) \in Tols /\ abs[call[c].of].tol \in Tols /\ InEffect(c) \in Tols
  BY <1>1, <1>3, ConsultsTheBinding DEF BindingType
<1>5. Tol(c) \in Nat /\ Tol(c) < Never /\ Never \in Nat /\ abs[call[c].of].tol \in Nat
  BY <1>4, TolFacts
<1>6. Tol(c) \in 0..Never /\ Never \in 0..Never /\ 0 \in 0..Never /\ 0 <= Tol(c)
  BY <1>5
<1>9. InEffect(c) \in Nat /\ 0 <= InEffect(c)
  BY <1>4, TolFacts
<1>7. MaxIter \in Nat \ {0} /\ 0 \in 0..MaxIter
  BY TolFacts
<1>8. /\ call[c].it \in 0..MaxIter /\ call[c].cap \in 0..MaxIter
      /\ call[c].phase \in Nat /\ call[c].err \in Int
  BY <1>2 DEF CallType
<1> QED
  BY <1>1, <1>2, <1>3, <1>4, <1>5, <1>6, <1>7, <1>8, <1>9

\* Onto the core, or onto the solver itself: UseCore, Enter, EnterPolish, EnterDirection.
LEMMA UseCorePromised ==
  ASSUME IInv, NEW c \in Clients, UseCore(c)
  PROVE  Promised(c)
<1> DEFINE a == abs[call[c].of]
           p == Solving(a)
           k == [call[c] EXCEPT !.on = a.core.by, !.pc = p]
<1>1. call[c].pc = "core"
  BY DEF UseCore
<1>2. Serving(c) /\ call[c] \in CallType /\ Standing(call[c], a) /\ Follows(a) /\ Counting(call[c])
  BY <1>1, Here
<1>3. a.plan = "some" /\ a.core # NoCore
  BY <1>1, <1>2 DEF Standing
<1>4. a.core.by \in Clients /\ a.core.by # "outer"
  BY <1>2, <1>3, AbsorberAssumption DEF Follows, CoreFollows, CoreType
<1>5. p \in {"closed", "wait", "lsmr"}
  BY DEF Solving
<1> HIDE DEF p
<1>6. k \in CallType /\ k.of = call[c].of /\ k.pc = p /\ k.it = call[c].it /\ k.on # "outer"
  BY <1>2, <1>4, <1>5 DEF CallType, Pcs
<1>7. Goto(c, k) /\ abs' = abs /\ report' = report
  BY DEF UseCore, p
<1> HIDE DEF k
<1>8. Standing(k, a)
  BY <1>1, <1>2, <1>3, <1>5, <1>6 DEF Standing, Counting, Counts, Solves, ForDirection
<1> QED
  BY <1>1, <1>2, <1>5, <1>6, <1>7, <1>8, GoesOn DEF ForDirection

LEMMA EnterPromised ==
  ASSUME IInv, NEW c \in Clients, Enter(c)
  PROVE  Promised(c)
<1> DEFINE a == abs[call[c].of]
           p == IF Shape(c).terms = 1 THEN "oneTerm"
                ELSE CASE Shape(c).acceleration = "cg"   -> "cgStart"
                       [] Shape(c).acceleration = "auto" -> "probe"
                       [] Shape(c).acceleration = "none" -> "plain"
           k == [call[c] EXCEPT !.cap = MaxIter, !.pc = p]
<1>1. call[c].pc = "wait"
  BY DEF Enter
<1>2. /\ Serving(c) /\ call[c] \in CallType /\ Standing(call[c], a) /\ Counting(call[c])
      /\ MaxIter \in Nat \ {0} /\ MaxIter \in 0..MaxIter /\ a \in BindingType
  BY <1>1, Here
<1>3. Shape(c).acceleration \in {"cg", "auto", "none"}
  BY <1>2, AbsorberAssumption DEF Shape, BindingType, ShapeType
<1>4. p \in {"oneTerm", "cgStart", "probe", "plain"}
  BY <1>3
<1>5. Goto(c, k) /\ abs' = abs /\ report' = report
  BY DEF Enter
<1> HIDE DEF p
<1>6. /\ k \in CallType /\ k.of = call[c].of /\ k.on = call[c].on /\ k.pc = p
      /\ k.it = call[c].it /\ k.cap = MaxIter
  BY <1>2, <1>4 DEF CallType, Pcs
<1>7. Standing(k, a)
  BY <1>1, <1>2, <1>4, <1>6 DEF Standing, Counting, Counts, Solves, ForDirection
<1> QED
  BY <1>1, <1>2, <1>4, <1>5, <1>6, <1>7, GoesOn DEF ForDirection

LEMMA EnterPolishPromised ==
  ASSUME IInv, NEW c \in Clients, EnterPolish(c)
  PROVE  Promised(c)
<1> DEFINE a == abs[call[c].of]
           m == PolishCap(call[c].it)
           k == [call[c] EXCEPT !.pc = "polish", !.cap = m]
<1>1. call[c].pc = "polishWait"
  BY DEF EnterPolish
<1>2. /\ Serving(c) /\ call[c] \in CallType /\ Standing(call[c], a) /\ Counting(call[c])
      /\ MaxIter \in Nat \ {0} /\ call[c].it \in 0..MaxIter
  BY <1>1, Here
<1>3. m \in 0..MaxIter /\ call[c].it <= m
  <2>1. m = IF MaxIter <= call[c].it + PolishLimit THEN MaxIter ELSE call[c].it + PolishLimit
    BY <1>2, TolFacts, MinOfTwo DEF PolishCap
  <2> QED
    BY <1>2, <2>1, TolFacts
<1>4. Goto(c, k) /\ abs' = abs /\ report' = report
  BY DEF EnterPolish
<1> HIDE DEF m
<1>5. /\ k \in CallType /\ k.of = call[c].of /\ k.on = call[c].on /\ k.pc = "polish"
      /\ k.it = call[c].it /\ k.cap = m /\ k.err = call[c].err
  BY <1>2, <1>3 DEF CallType, Pcs
<1>6. Standing(k, a)
  BY <1>1, <1>2, <1>3, <1>5 DEF Standing, Counting, Counts, Solves, ForDirection
<1> QED
  BY <1>1, <1>2, <1>4, <1>5, <1>6, GoesOn DEF ForDirection

LEMMA EnterDirectionPromised ==
  ASSUME IInv, NEW c \in Clients, EnterDirection(c)
  PROVE  Promised(c)
<1> DEFINE a == abs[call[c].of]
           m == Min({DirectionSweeps, MaxIter - call[c].it})
           p == IF call[c].pc = "directionWait" THEN "direction" ELSE "cleanup"
           k == [call[c] EXCEPT !.phase = 0, !.pc = p, !.cap = m]
<1>1. call[c].pc \in {"directionWait", "cleanupWait"}
  BY DEF EnterDirection
<1>2. /\ Serving(c) /\ call[c] \in CallType /\ Standing(call[c], a) /\ Counting(call[c])
      /\ MaxIter \in Nat \ {0} /\ call[c].it \in 0..MaxIter
  BY <1>1, Here
<1>3. call[c].it < MaxIter
  BY <1>1, <1>2 DEF Counting, Counts
<1>4. m \in 0..MaxIter /\ 0 < m /\ call[c].it + m <= MaxIter
  <2>1. m = IF DirectionSweeps <= MaxIter - call[c].it THEN DirectionSweeps
            ELSE MaxIter - call[c].it
    BY <1>2, TolFacts, MinOfTwo
  <2> QED
    BY <1>2, <1>3, <2>1, TolFacts
<1>5. Goto(c, k) /\ abs' = abs /\ report' = report
  BY DEF EnterDirection
<1>6. p \in {"direction", "cleanup"}
  OBVIOUS
<1> HIDE DEF m, p
<1>7. /\ k \in CallType /\ k.of = call[c].of /\ k.on = call[c].on /\ k.pc = p
      /\ k.it = call[c].it /\ k.cap = m /\ k.phase = 0 /\ k.tol = call[c].tol
  BY <1>2, <1>4, <1>6 DEF CallType, Pcs
<1>8. Standing(k, a)
  BY <1>1, <1>2, <1>4, <1>6, <1>7 DEF Standing, Counting, Counts, Solves, ForDirection
<1> QED
  BY <1>1, <1>2, <1>5, <1>6, <1>7, <1>8, GoesOn DEF ForDirection

\* Solvers that iterate on their own, rows that are all peeled, one FE term.
LEMMA WholePromised ==
  ASSUME IInv, NEW c \in Clients, AllPeeled(c) \/ Closed(c) \/ Lsmr(c) \/ OneTerm(c)
  PROVE  Promised(c)
<1>1. call[c].pc # "idle"
  BY DEF AllPeeled, Closed, Lsmr, OneTerm
<1>2. /\ Serving(c) /\ InEffect(c) \in Nat
      /\ (Closed(c) \/ Lsmr(c) => Tol(c) = InEffect(c))
      /\ Tol(c) \in 0..Never /\ Tol(c) \in Nat
      /\ 0 \in 0..Never /\ Never \in 0..Never /\ 0 \in 0..MaxIter /\ MaxIter \in Nat \ {0}
      /\ 0 <= Tol(c) /\ 0 <= InEffect(c)
  BY <1>1, Here DEF Closed, Lsmr, Solves
<1>3. CASE AllPeeled(c)
  <2>1. Return(c, TRUE, 0, 0) /\ abs' = abs
    BY <1>3 DEF AllPeeled
  <2> QED
    BY <1>2, <2>1, Answers
<1>4. CASE Closed(c) \/ Lsmr(c)
  <2>1. PICK n \in 0..MaxIter, ok \in BOOLEAN :
          Return(c, ok, n, IF ok THEN Tol(c) ELSE Never) /\ abs' = abs
    BY <1>4 DEF Closed, Lsmr
  <2>2. CASE ok
    <3>1. Return(c, ok, n, Tol(c))
      BY <2>1, <2>2, Zenon
    <3>2. Tol(c) <= InEffect(c)
      BY <1>2, <1>4
    <3> QED
      BY <1>2, <2>1, <3>1, <3>2, Answers
  <2>3. CASE ~ok
    <3>1. Return(c, ok, n, Never)
      BY <2>1, <2>3
    <3> QED
      BY <1>2, <2>1, <2>3, <3>1, Answers
  <2> QED
    BY <2>2, <2>3
<1>5. CASE OneTerm(c)
  <2>1. Solved(c, TRUE, 1, 0, FALSE)
    BY <1>5 DEF OneTerm
  <2>2. 1 \in 0..MaxIter /\ 0 <= InEffect(c)
    BY <1>2
  <2>3. call[c].pc \notin ForDirection
    BY <1>5 DEF OneTerm, ForDirection
  <2> QED
    BY <1>2, <2>1, <2>2, <2>3, SolvedAnswers
<1> QED
  BY <1>3, <1>4, <1>5

\* A solve that passes its test, or that gives up.
LEMMA SolvedHere ==
  ASSUME IInv, NEW c \in Clients, call[c].pc \in Solves, NEW n \in 0..MaxIter, NEW cg \in BOOLEAN,
         \/ Solved(c, TRUE, n, Tol(c), cg) \/ Solved(c, TRUE, n, 0, cg)
         \/ Solved(c, FALSE, n, Never, cg)
  PROVE  Promised(c)
<1>1. /\ Serving(c) /\ Tol(c) = InEffect(c) /\ 0 <= InEffect(c)
      /\ Tol(c) \in 0..Never /\ Tol(c) \in Nat
      /\ 0 \in 0..Never /\ Never \in 0..Never /\ 0 <= Tol(c)
      /\ call[c].pc \notin ForDirection
  <2>1. call[c].pc # "idle"
    BY DEF Solves
  <2>2. call[c].pc \notin ForDirection
    BY DEF Solves, ForDirection
  <2> QED
    BY <2>1, <2>2, Here
<1>2. CASE Solved(c, TRUE, n, Tol(c), cg)
  <2>1. Tol(c) <= InEffect(c)
    BY <1>1
  <2> QED
    BY <1>1, <1>2, <2>1, SolvedAnswers
<1>3. CASE Solved(c, TRUE, n, 0, cg)
  <2>1. 0 <= InEffect(c)
    BY <1>1
  <2> QED
    BY <1>1, <1>3, <2>1, SolvedAnswers
<1>4. CASE Solved(c, FALSE, n, Never, cg)
  BY <1>1, <1>4, SolvedAnswers
<1> QED
  BY <1>2, <1>3, <1>4

LEMMA ProbePromised ==
  ASSUME IInv, NEW c \in Clients, Probe(c)
  PROVE  Promised(c)
<1> DEFINE a == abs[call[c].of]
           n == call[c].it + 1
<1>1. call[c].pc = "probe"
  BY DEF Probe
<1>2. /\ Serving(c) /\ call[c] \in CallType /\ Standing(call[c], a) /\ Counting(call[c])
      /\ MaxIter \in Nat \ {0} /\ call[c].it \in 0..MaxIter /\ call[c].cap \in 0..MaxIter
      /\ call[c].phase \in Nat /\ call[c].err \in Int
  BY <1>1, Here
<1>3. call[c].it < 2 /\ call[c].it < MaxIter /\ n \in 0..MaxIter
  BY <1>1, <1>2 DEF Counting, Counts
<1>4. ProbeLast(n) <=> n = IF 2 <= MaxIter THEN 2 ELSE MaxIter
  BY <1>2, MinOfTwo DEF ProbeLast
<1>5. AutoPlain(n) = (IF PlainLimit <= MaxIter THEN PlainLimit ELSE MaxIter) - n
  BY <1>2, TolFacts, MinOfTwo DEF AutoPlain
<1>6. CASE Solved(c, TRUE, n, Tol(c), FALSE) \/ Solved(c, FALSE, n, Never, FALSE)
  BY <1>1, <1>3, <1>6, SolvedHere DEF Solves
<1>7. CASE ~ProbeLast(n) /\ On(c, [call[c] EXCEPT !.it = n])
  <2> DEFINE k == [call[c] EXCEPT !.it = n]
  <2>1. /\ k \in CallType /\ k.of = call[c].of /\ k.on = call[c].on /\ k.pc = "probe"
        /\ k.it = n
    BY <1>1, <1>2, <1>3 DEF CallType
  <2>2. n < 2 /\ n < MaxIter
    BY <1>2, <1>3, <1>4, <1>7
  <2>3. Standing(k, a)
    BY <1>1, <1>2, <2>1, <2>2 DEF Standing, Counting, Counts, Solves, ForDirection
  <2> QED
    BY <1>1, <1>2, <1>7, <2>1, <2>3, GoesOn DEF On, ForDirection
<1>8. ASSUME NEW fast \in BOOLEAN, n < MaxIter,
             On(c, [call[c] EXCEPT !.it = n,
                      !.pc = IF fast /\ AutoPlain(n) > 0 THEN "plain" ELSE "cgStart",
                      !.cap = IF fast /\ AutoPlain(n) > 0 THEN n + AutoPlain(n) ELSE @])
      PROVE  Promised(c)
  <2> DEFINE plain == fast /\ AutoPlain(n) > 0
             p == IF plain THEN "plain" ELSE "cgStart"
             m == IF plain THEN n + AutoPlain(n) ELSE call[c].cap
             k == [call[c] EXCEPT !.it = n, !.pc = p, !.cap = m]
  <2>1. m \in 0..MaxIter /\ (plain => n < m)
    BY <1>2, <1>3, <1>5, TolFacts
  <2>2. p \in {"plain", "cgStart"} /\ (p = "plain" => plain)
    OBVIOUS
  <2>3. On(c, k)
    BY <1>8
  <2> HIDE DEF p, m, plain
  <2>4. /\ k \in CallType /\ k.of = call[c].of /\ k.on = call[c].on /\ k.pc = p
        /\ k.it = n /\ k.cap = m
    BY <1>2, <1>3, <2>1, <2>2 DEF CallType, Pcs
  <2>5. Standing(k, a)
    BY <1>1, <1>2, <1>8, <2>1, <2>2, <2>4 DEF Standing, Counting, Counts, Solves, ForDirection
  <2> QED
    BY <1>1, <1>2, <2>2, <2>3, <2>4, <2>5, GoesOn DEF On, ForDirection
<1> QED
  BY <1>6, <1>7, <1>8 DEF Probe

LEMMA PlainPromised ==
  ASSUME IInv, NEW c \in Clients, Plain(c)
  PROVE  Promised(c)
<1> DEFINE a == abs[call[c].of]
           n == call[c].it + 1
<1>1. call[c].pc = "plain"
  BY DEF Plain
<1>2. /\ Serving(c) /\ call[c] \in CallType /\ Standing(call[c], a) /\ Counting(call[c])
      /\ MaxIter \in Nat \ {0} /\ call[c].it \in 0..MaxIter /\ call[c].cap \in 0..MaxIter
      /\ call[c].phase \in Nat /\ call[c].err \in Int
  BY <1>1, Here
<1>3. call[c].it < call[c].cap /\ n \in 0..MaxIter
  BY <1>1, <1>2 DEF Counting, Counts
<1>4. CASE Solved(c, TRUE, n, Tol(c), FALSE) \/ Solved(c, FALSE, n, Never, FALSE)
  BY <1>1, <1>3, <1>4, SolvedHere DEF Solves
<1>5. CASE n < call[c].cap /\ On(c, [call[c] EXCEPT !.it = n])
  <2> DEFINE k == [call[c] EXCEPT !.it = n]
  <2>1. /\ k \in CallType /\ k.of = call[c].of /\ k.on = call[c].on /\ k.pc = "plain"
        /\ k.it = n /\ k.cap = call[c].cap
    BY <1>1, <1>2, <1>3 DEF CallType
  <2>2. Standing(k, a)
    BY <1>1, <1>2, <1>5, <2>1 DEF Standing, Counting, Counts, Solves, ForDirection
  <2> QED
    BY <1>1, <1>2, <1>5, <2>1, <2>2, GoesOn DEF On, ForDirection
<1>6. CASE n < MaxIter /\ On(c, [call[c] EXCEPT !.it = n, !.pc = "cgStart", !.cap = MaxIter])
  <2> DEFINE k == [call[c] EXCEPT !.it = n, !.pc = "cgStart", !.cap = MaxIter]
  <2>1. /\ k \in CallType /\ k.of = call[c].of /\ k.on = call[c].on /\ k.pc = "cgStart"
        /\ k.it = n
    <3>1. MaxIter \in 0..MaxIter /\ "cgStart" \in Pcs
      BY <1>2 DEF Pcs
    <3> QED
      BY <1>2, <1>3, <3>1 DEF CallType
  <2>2. Standing(k, a)
    BY <1>1, <1>2, <1>6, <2>1 DEF Standing, Counting, Counts, Solves, ForDirection
  <2> QED
    BY <1>1, <1>2, <1>6, <2>1, <2>2, GoesOn DEF On, ForDirection
<1> QED
  BY <1>4, <1>5, <1>6 DEF Plain

LEMMA CgPromised ==
  ASSUME IInv, NEW c \in Clients, CgStart(c) \/ CgStep(c)
  PROVE  Promised(c)
<1> DEFINE a == abs[call[c].of]
<1>1. call[c].pc \in {"cgStart", "cg"}
  BY DEF CgStart, CgStep
<1>2. /\ Serving(c) /\ call[c] \in CallType /\ Standing(call[c], a) /\ Counting(call[c])
      /\ MaxIter \in Nat \ {0} /\ call[c].it \in 0..MaxIter /\ call[c].cap \in 0..MaxIter
      /\ call[c].phase \in Nat /\ call[c].err \in Int /\ MaxIter \in 0..MaxIter
  BY <1>1, Here
<1>3. CASE CgStart(c)
  <2>1. call[c].it < MaxIter
    BY <1>2, <1>3 DEF CgStart, Counting, Counts
  <2>2. CASE Solved(c, FALSE, call[c].it, Never, TRUE)
    BY <1>1, <1>2, <2>2, SolvedHere DEF Solves
  <2>3. CASE On(c, [call[c] EXCEPT !.pc = "cg", !.cap = CgBudget(c)])
    <3> DEFINE k == [call[c] EXCEPT !.pc = "cg", !.cap = MaxIter]
    <3>1. /\ k \in CallType /\ k.of = call[c].of /\ k.on = call[c].on /\ k.pc = "cg"
          /\ k.it = call[c].it /\ k.cap = MaxIter
      BY <1>2 DEF CallType, Pcs
    <3>2. Standing(k, a)
      BY <1>1, <1>2, <2>1, <3>1 DEF Standing, Counting, Counts, Solves, ForDirection
    <3> QED
      BY <1>1, <1>2, <2>3, <3>1, <3>2, GoesOn DEF On, CgBudget, ForDirection
  <2> QED
    BY <1>3, <2>2, <2>3 DEF CgStart
<1>4. CASE CgStep(c)
  <2> DEFINE n == call[c].it + 1
  <2>1. call[c].it < call[c].cap /\ n \in 0..MaxIter /\ call[c].pc = "cg"
    BY <1>2, <1>4 DEF CgStep, Counting, Counts
  <2>2. CASE \/ Solved(c, TRUE, n, Tol(c), TRUE) \/ Solved(c, TRUE, n, 0, TRUE)
             \/ Solved(c, FALSE, n, Never, TRUE)
    BY <1>1, <2>1, <2>2, SolvedHere DEF Solves
  <2>3. CASE n # call[c].cap /\ On(c, [call[c] EXCEPT !.it = n])
    <3> DEFINE k == [call[c] EXCEPT !.it = n]
    <3>1. /\ k \in CallType /\ k.of = call[c].of /\ k.on = call[c].on /\ k.pc = "cg"
          /\ k.it = n /\ k.cap = call[c].cap
      BY <1>2, <2>1 DEF CallType
    <3>2. Standing(k, a)
      BY <1>1, <1>2, <2>1, <2>3, <3>1 DEF Standing, Counting, Counts, Solves, ForDirection
    <3> QED
      BY <1>1, <1>2, <2>3, <3>1, <3>2, GoesOn DEF On, ForDirection
  <2> QED
    BY <1>4, <2>2, <2>3 DEF CgStep
<1> QED
  BY <1>3, <1>4

LEMMA CheckCorePromised ==
  ASSUME IInv, NEW c \in Clients, CheckCore(c)
  PROVE  Promised(c)
<1> DEFINE a == abs[call[c].of]
<1>1. call[c].pc \in {"check", "checkFailed"}
  BY DEF CheckCore
<1>2. /\ Serving(c) /\ call[c] \in CallType /\ Standing(call[c], a) /\ Counting(call[c])
      /\ MaxIter \in Nat \ {0} /\ call[c].it \in 0..MaxIter /\ call[c].cap \in 0..MaxIter
      /\ call[c].phase \in Nat /\ Tol(c) = InEffect(c)
      /\ Tol(c) \in Nat /\ a.tol \in Nat /\ Never \in 0..Never
  BY <1>1, Here DEF Solves
<1>3. call[c].tested \in 0..Never /\ Never \in Nat
  BY <1>2 DEF CallType
<1>4. PICK e \in Errors :
        IF e > a.tol /\ call[c].it < MaxIter
        THEN On(c, [call[c] EXCEPT !.pc = "polishWait", !.err = e])
        ELSE /\ Return(c, call[c].pc = "check", call[c].it,
                        IF call[c].pc = "check" THEN Min({call[c].tested, e}) ELSE e)
             /\ UNCHANGED <<abs, kernel>>
  BY DEF CheckCore
<1>5. e \in 0..Never /\ e \in Int
  BY <1>3 DEF Errors
<1>6. CASE e > a.tol /\ call[c].it < MaxIter
  <2> DEFINE k == [call[c] EXCEPT !.pc = "polishWait", !.err = e]
  <2>1. /\ k \in CallType /\ k.of = call[c].of /\ k.on = call[c].on /\ k.pc = "polishWait"
        /\ k.it = call[c].it /\ k.err = e
    BY <1>2, <1>5 DEF CallType, Pcs
  <2>2. Standing(k, a)
    BY <1>1, <1>2, <1>6, <2>1 DEF Standing, Counting, Counts, Solves, ForDirection
  <2> QED
    BY <1>1, <1>2, <1>4, <1>6, <2>1, <2>2, GoesOn DEF On, ForDirection
<1>7. CASE ~(e > a.tol /\ call[c].it < MaxIter)
  <2>1. abs' = abs
    BY <1>4, <1>7
  <2>2. CASE call[c].pc = "check"
    <3> DEFINE g == Min({call[c].tested, e})
    <3>1. g = IF call[c].tested <= e THEN call[c].tested ELSE e
      BY <1>3, <1>5, MinOfTwo
    <3>2. call[c].tested <= InEffect(c)
      BY <1>2, <2>2 DEF Standing, InEffect, Held, ForDirection
    <3>3. g \in 0..Never /\ g <= InEffect(c)
      BY <1>2, <1>3, <1>5, <3>1, <3>2
    <3>4. Return(c, TRUE, call[c].it, g)
      BY <1>4, <1>7, <2>2
    <3> QED
      BY <1>2, <2>1, <3>3, <3>4, Answers
  <2>3. CASE call[c].pc # "check"
    <3>1. Return(c, FALSE, call[c].it, e)
      BY <1>4, <1>7, <2>3
    <3> QED
      BY <1>2, <1>5, <2>1, <3>1, Answers
  <2> QED
    BY <2>2, <2>3
<1> QED
  BY <1>6, <1>7

LEMMA PolishPromised ==
  ASSUME IInv, NEW c \in Clients, Polish(c)
  PROVE  Promised(c)
<1> DEFINE a == abs[call[c].of]
<1>1. call[c].pc = "polish"
  BY DEF Polish
<1>2. /\ Serving(c) /\ call[c] \in CallType /\ Standing(call[c], a) /\ Counting(call[c])
      /\ MaxIter \in Nat \ {0} /\ call[c].it \in 0..MaxIter /\ call[c].cap \in 0..MaxIter
      /\ call[c].phase \in Nat /\ Tol(c) = InEffect(c)
      /\ Tol(c) \in Nat /\ a.tol \in Nat /\ Never \in 0..Never
  BY <1>1, Here DEF Solves
<1>3. /\ call[c].tested \in 0..Never /\ Never \in Nat /\ call[c].err \in Errors
      /\ call[c].err \in 0..Never /\ call[c].it <= call[c].cap
  BY <1>1, <1>2 DEF CallType, Counting, Counts, Errors
<1>7. CASE PolishLimit = 0
  <2>1. Return(c, TRUE, call[c].it, call[c].tested) /\ abs' = abs
    BY <1>7 DEF Polish
  <2> QED
    BY <1>2, <1>3, <1>7, <2>1, Answers
<1>4. CASE PolishLimit # 0 /\ call[c].err <= Tol(c)
  <2> DEFINE g == Min({call[c].tested, call[c].err})
  <2>1. g = IF call[c].tested <= call[c].err THEN call[c].tested ELSE call[c].err
    BY <1>3, MinOfTwo
  <2>2. g \in 0..Never /\ g <= InEffect(c)
    BY <1>2, <1>3, <1>4, <2>1
  <2>3. Return(c, TRUE, call[c].it, g) /\ abs' = abs
    BY <1>4 DEF Polish
  <2> QED
    BY <1>2, <2>2, <2>3, Answers
<1>5. CASE PolishLimit # 0 /\ ~(call[c].err <= Tol(c)) /\ call[c].it = call[c].cap
  <2>1. Return(c, FALSE, call[c].it, call[c].err) /\ abs' = abs
    BY <1>5 DEF Polish
  <2> QED
    BY <1>2, <1>3, <2>1, Answers
<1>6. CASE PolishLimit # 0 /\ ~(call[c].err <= Tol(c)) /\ call[c].it # call[c].cap
  <2>1. PICK e \in Errors :
          On(c, [call[c] EXCEPT !.it = @ + 1, !.err = e, !.tested = Never])
    BY <1>6 DEF Polish
  <2> DEFINE n == call[c].it + 1
             k == [call[c] EXCEPT !.it = n, !.err = e, !.tested = Never]
  <2>2. n \in 0..MaxIter /\ n <= call[c].cap /\ e \in Int
    BY <1>2, <1>3, <1>6 DEF Errors
  <2>3. On(c, k)
    BY <2>1
  <2> HIDE DEF n
  <2>4. /\ k \in CallType /\ k.of = call[c].of /\ k.on = call[c].on /\ k.pc = "polish"
        /\ k.it = n /\ k.err = e /\ k.cap = call[c].cap
    BY <1>1, <1>2, <2>2 DEF CallType
  <2>5. Standing(k, a)
    BY <1>2, <2>2, <2>4 DEF Standing, Counting, Counts, Solves, ForDirection
  <2> QED
    BY <1>1, <1>2, <2>3, <2>4, <2>5, GoesOn DEF On, ForDirection
<1> QED
  BY <1>4, <1>5, <1>6, <1>7

\* A phase of fixed sweeps advances, and not beyond its allowance.
LEMMA SweepsAdvance ==
  ASSUME NEW done \in Nat, NEW limit \in Nat, done < limit
  PROVE  SweepsTo(done, limit) \in Nat /\ done < SweepsTo(done, limit)
         /\ SweepsTo(done, limit) <= limit
<1>1. Min({limit, done + 3}) = IF limit <= done + 3 THEN limit ELSE done + 3
  BY MinOfTwo
<1> QED
  BY <1>1 DEF SweepsTo

\* The certificate of a weak direction is the measured error.
LEMMA CertifiedPromised ==
  ASSUME IInv, NEW c \in Clients, call[c].pc \in ForDirection, NEW n \in 0..MaxIter, NEW e \in Errors,
         Certified(c, n, e), abs' = abs
  PROVE  Promised(c)
<1>5. call[c].pc # "idle"
  BY DEF ForDirection
<1>1. Serving(c) /\ Never \in 0..Never /\ InEffect(c) = abs[call[c].of].tol
  BY <1>5, Here DEF InEffect, Held
<1>2. e \in 0..Never
  BY <1>1, TolFacts DEF Errors
<1>3. CASE e <= abs[call[c].of].tol
  <2>1. Return(c, TRUE, n, e)
    BY <1>3 DEF Certified
  <2> QED
    BY <1>1, <1>2, <1>3, <2>1, Answers
<1>4. CASE ~(e <= abs[call[c].of].tol)
  <2>2. abs[call[c].of].tol \in Nat
    BY <1>5, Here
  <2>3. (e <= abs[call[c].of].tol) = FALSE
    BY <1>2, <1>4, <2>2
  <2>1. Return(c, FALSE, n, e)
    BY <2>3, Zenon DEF Certified
  <2> QED
    BY <1>1, <1>2, <2>1, Answers
<1> QED
  BY <1>3, <1>4

LEMMA FixedSweepsPromised ==
  ASSUME IInv, NEW c \in Clients, FixedSweeps(c)
  PROVE  Promised(c)
<1> DEFINE a == abs[call[c].of]
           done == SweepsTo(call[c].phase, call[c].cap)
           n == call[c].it + done - call[c].phase
           m == MaxIter - Min({DirectionSweeps, MaxIter - n - 1})
<1>1. call[c].pc \in {"direction", "cleanup"}
  BY DEF FixedSweeps
<1>2. /\ Serving(c) /\ call[c] \in CallType /\ Standing(call[c], a) /\ Counting(call[c])
      /\ MaxIter \in Nat \ {0} /\ call[c].it \in 0..MaxIter /\ call[c].cap \in 0..MaxIter
      /\ call[c].phase \in Nat /\ call[c].err \in Int
  BY <1>1, Here
<1>3. /\ call[c].phase < call[c].cap /\ call[c].phase <= call[c].it
      /\ call[c].it - call[c].phase + call[c].cap <= MaxIter
  BY <1>1, <1>2 DEF Counting, Counts
<1>4. done \in Nat /\ call[c].phase < done /\ done <= call[c].cap
  BY <1>2, <1>3, SweepsAdvance
<1>5. n \in 0..MaxIter /\ done <= n /\ n - done + call[c].cap <= MaxIter
  BY <1>2, <1>3, <1>4
<1>6. PICK e \in Errors :
        IF e <= call[c].tol \/ done >= call[c].cap
        THEN /\ Drop(c)
             /\ IF call[c].pc = "direction" /\ e > call[c].tol /\ n < MaxIter
                THEN /\ Goto(c, [call[c] EXCEPT !.pc = "rounds", !.it = n, !.phase = 0, !.cap = m])
                     /\ UNCHANGED report
                ELSE Certified(c, n, e)
             /\ UNCHANGED abs
        ELSE On(c, [call[c] EXCEPT !.it = n, !.phase = done])
  BY DEF FixedSweeps
<1> HIDE DEF n, done, m
<1>7. CASE (e <= call[c].tol \/ done >= call[c].cap)
           /\ ~(call[c].pc = "direction" /\ e > call[c].tol /\ n < MaxIter)
  <2>1. Certified(c, n, e) /\ abs' = abs
    BY <1>6, <1>7
  <2> QED
    BY <1>1, <1>5, <2>1, CertifiedPromised DEF ForDirection
<1>8. CASE (e <= call[c].tol \/ done >= call[c].cap)
           /\ call[c].pc = "direction" /\ e > call[c].tol /\ n < MaxIter
  <2> DEFINE k == [call[c] EXCEPT !.pc = "rounds", !.it = n, !.phase = 0, !.cap = m]
  <2>1. Goto(c, k) /\ abs' = abs /\ report' = report
    BY <1>6, <1>8
  <2>2. m \in 0..MaxIter /\ n <= m
    <3>1. Min({DirectionSweeps, MaxIter - n - 1}) =
            IF DirectionSweeps <= MaxIter - n - 1 THEN DirectionSweeps ELSE MaxIter - n - 1
      BY <1>2, <1>5, TolFacts, MinOfTwo
    <3> QED
      BY <1>2, <1>5, <1>8, <3>1, TolFacts DEF m
  <2>3. "rounds" \in Pcs /\ 0 \in Nat
    BY DEF Pcs
  <2>4. k \in CallType
    BY <1>2, <1>5, <2>2, <2>3, FourFields
  <2>5. /\ k.of = call[c].of /\ k.on = call[c].on /\ k.pc = "rounds" /\ k.it = n /\ k.cap = m
        /\ k.tol = call[c].tol
    BY <1>2 DEF CallType
  <2> HIDE DEF k
  <2>6. Standing(k, a)
    BY <1>2, <1>8, <2>2, <2>4, <2>5 DEF Standing, Counting, Counts, Solves, ForDirection
  <2> QED
    BY <1>1, <1>2, <2>1, <2>5, <2>6, GoesOn DEF ForDirection
<1>9. CASE ~(e <= call[c].tol \/ done >= call[c].cap)
  <2> DEFINE k == [call[c] EXCEPT !.it = n, !.phase = done]
  <2>1. On(c, k)
    BY <1>6, <1>9
  <2>2. /\ k \in CallType /\ k.of = call[c].of /\ k.on = call[c].on /\ k.pc = call[c].pc
        /\ k.it = n /\ k.phase = done /\ k.cap = call[c].cap /\ k.tol = call[c].tol
    BY <1>2, <1>4, <1>5 DEF CallType
  <2> HIDE DEF k
  <2>3. Standing(k, a)
    BY <1>1, <1>2, <1>4, <1>5, <1>9, <2>2 DEF Standing, Counting, Counts, Solves, ForDirection
  <2> QED
    BY <1>1, <1>2, <2>1, <2>2, <2>3, GoesOn DEF On, ForDirection
<1> QED
  BY <1>7, <1>8, <1>9

LEMMA LsmrRoundPromised ==
  ASSUME IInv, NEW c \in Clients, LsmrRound(c)
  PROVE  Promised(c)
<1> DEFINE a == abs[call[c].of]
<1>1. call[c].pc = "rounds"
  BY DEF LsmrRound
<1>2. /\ Serving(c) /\ call[c] \in CallType /\ Standing(call[c], a) /\ Counting(call[c])
      /\ MaxIter \in Nat \ {0} /\ call[c].it \in 0..MaxIter /\ call[c].cap \in 0..MaxIter
      /\ call[c].phase \in Nat /\ call[c].err \in Int /\ 0 \in 0..MaxIter
  BY <1>1, Here
<1>3. PICK s \in 0..(call[c].cap - call[c].it), e \in Errors, last \in BOOLEAN :
        LET n == call[c].it + s
            more == e > call[c].tol /\ ~last /\ call[c].phase < 2 /\ n < call[c].cap
        IN IF more
           THEN On(c, [call[c] EXCEPT !.it = n, !.phase = @ + 1])
           ELSE IF e > call[c].tol /\ n < MaxIter
           THEN On(c, [call[c] EXCEPT !.pc = "cleanupWait", !.it = n, !.phase = 0, !.cap = 0])
           ELSE Certified(c, n, e) /\ UNCHANGED <<abs, kernel>>
  BY DEF LsmrRound
<1> DEFINE n == call[c].it + s
           f == call[c].phase + 1
<1>4. n \in 0..MaxIter /\ n <= call[c].cap /\ f \in Nat
  BY <1>1, <1>2 DEF Counting, Counts
<1>5. \/ On(c, [call[c] EXCEPT !.it = n, !.phase = f])
      \/ n < MaxIter
         /\ On(c, [call[c] EXCEPT !.pc = "cleanupWait", !.it = n, !.phase = 0, !.cap = 0])
      \/ Certified(c, n, e) /\ abs' = abs
  BY <1>3
<1> HIDE DEF n, f
<1>6. CASE Certified(c, n, e) /\ abs' = abs
  BY <1>1, <1>4, <1>6, CertifiedPromised DEF ForDirection
<1>7. CASE On(c, [call[c] EXCEPT !.it = n, !.phase = f])
  <2> DEFINE k == [call[c] EXCEPT !.it = n, !.phase = f]
  <2>1. /\ k \in CallType /\ k.of = call[c].of /\ k.on = call[c].on /\ k.pc = "rounds"
        /\ k.it = n /\ k.cap = call[c].cap /\ k.tol = call[c].tol
    BY <1>1, <1>2, <1>4 DEF CallType
  <2>2. Standing(k, a)
    BY <1>1, <1>2, <1>4, <2>1 DEF Standing, Counting, Counts, Solves, ForDirection
  <2> QED
    BY <1>1, <1>2, <1>7, <2>1, <2>2, GoesOn DEF On, ForDirection
<1>8. CASE n < MaxIter
           /\ On(c, [call[c] EXCEPT !.pc = "cleanupWait", !.it = n, !.phase = 0, !.cap = 0])
  <2> DEFINE k == [call[c] EXCEPT !.pc = "cleanupWait", !.it = n, !.phase = 0, !.cap = 0]
  <2>1. "cleanupWait" \in Pcs /\ 0 \in Nat
    BY DEF Pcs
  <2>2. k \in CallType
    BY <1>2, <1>4, <2>1, FourFields
  <2>3. /\ k.of = call[c].of /\ k.on = call[c].on /\ k.pc = "cleanupWait"
        /\ k.it = n /\ k.tol = call[c].tol
    BY <1>2 DEF CallType
  <2>4. On(c, k)
    BY <1>8
  <2> HIDE DEF k
  <2>5. Standing(k, a)
    BY <1>1, <1>2, <1>8, <2>2, <2>3 DEF Standing, Counting, Counts, Solves, ForDirection
  <2> QED
    BY <1>1, <1>2, <2>3, <2>4, <2>5, GoesOn DEF On, ForDirection
<1> QED
  BY <1>5, <1>6, <1>7, <1>8

\* A projection that has been asked goes on, or gives an answer that is promised.
LEMMA WorkingPromised ==
  ASSUME IInv, NEW c \in Clients, Projecting(c)
  PROVE  Promised(c)
  BY BuildCorePromised, UseCorePromised, WholePromised, EnterPromised, ProbePromised,
     PlainPromised, CgPromised, CheckCorePromised, EnterPolishPromised, PolishPromised,
     EnterDirectionPromised, FixedSweepsPromised, LsmrRoundPromised DEF Projecting

-----------------------------------------------------------------------------
(* What an estimator does to a solver, and a projection that is asked.       *)

\* A solver is changed while nobody has an answer to wait for or to take.
LEMMA Rebound ==
  ASSUME IInv, NEW o \in Solvers, Unused(o), NEW b \in BindingType, Follows(b),
         abs' = [abs EXCEPT ![o] = b], call' = call, report' = report
  PROVE  /\ IInv' /\ ~Promise!InUse(o)
         /\ [p \in Solvers |-> BoundOf(abs[p])]' =
              [[p \in Solvers |-> BoundOf(abs[p])] EXCEPT
                 ![o] = [weights |-> b.weights, tol |-> b.tol, kept |-> Kept(b)]]
         /\ [d \in Clients |-> ServiceOf(call[d])]' = [d \in Clients |-> ServiceOf(call[d])]
<1>1. b # NotBuilt /\ BoundOf(b) = [weights |-> b.weights, tol |-> b.tol, kept |-> Kept(b)]
  BY BuiltIsNotUnbuilt DEF BoundOf
<1>2. abs'[o] = b /\ \A p \in Solvers : p # o => abs'[p] = abs[p]
  BY DEF IInv
<1>3. \A d \in Clients : (call[d] = Idle \/ Serving(d))'
  BY <1>2 DEF IInv, Serving, Unused
<1>4. \A d \in Clients : (report[d] = NoReport
                             \/ (report[d].of \in Solvers /\ abs[report[d].of] # NotBuilt))'
  BY <1>2 DEF IInv, Unused
<1>5. \A p \in Solvers : (abs[p] = NotBuilt \/ Follows(abs[p]))'
  BY <1>2 DEF IInv
<1>6. DOMAIN abs' = Solvers /\ abs' = [p \in Solvers |-> abs'[p]]
  BY DEF IInv
<1>7. IInv'
  BY <1>3, <1>4, <1>5, <1>6 DEF IInv
<1>8. ~Promise!InUse(o)
  <2>1. \A d \in Clients : ServiceOf(call[d]).of = call[d].of
    BY DEF ServiceOf
  <2> QED
    BY <2>1 DEF Promise!InUse, Unused
<1>9. [p \in Solvers |-> BoundOf(abs[p])]' =
        [[p \in Solvers |-> BoundOf(abs[p])] EXCEPT
           ![o] = [weights |-> b.weights, tol |-> b.tol, kept |-> Kept(b)]]
  <2>1. \A p \in Solvers : BoundOf(abs'[p]) =
          IF p = o THEN [weights |-> b.weights, tol |-> b.tol, kept |-> Kept(b)]
                   ELSE BoundOf(abs[p])
    BY <1>1, <1>2
  <2> QED
    BY <2>1
<1>10. [d \in Clients |-> ServiceOf(call[d])]' = [d \in Clients |-> ServiceOf(call[d])]
  OBVIOUS
<1> QED
  BY <1>7, <1>8, <1>9, <1>10

\* Another binding: a core is given up, or follows.
LEMMA Rebinds ==
  ASSUME IInv, NEW o \in Solvers, Unused(o), NEW b \in BindingType, Follows(b),
         Kept(b) = 0 \/ (Kept(b) = b.tol /\ BoundOf(abs[o]).kept # 0),
         abs' = [abs EXCEPT ![o] = b], call' = call, report' = report
  PROVE  IInv' /\ Promise!BindTo(o, b.weights, b.tol)
<1> DEFINE told == [p \in Solvers |-> BoundOf(abs[p])]
           asked == [d \in Clients |-> ServiceOf(call[d])]
<1>1. told[o].kept = BoundOf(abs[o]).kept
  OBVIOUS
<1>2. Kept(b) \in {0, IF told[o].kept = 0 THEN 0 ELSE b.tol}
  BY <1>1
<1>3. /\ IInv' /\ ~Promise!InUse(o) /\ asked' = asked
      /\ told' = [told EXCEPT ![o] = [weights |-> b.weights, tol |-> b.tol, kept |-> Kept(b)]]
  BY Rebound
<1> QED
  BY <1>2, <1>3 DEF Promise!BindTo

LEMMA ConfigurePromised ==
  ASSUME IInv, NEW o \in Solvers, NEW w \in Weights, NEW t \in Tols,
         UpdateWeights(o, w, t) \/ \E s \in Shapes : Build(o, s, w, t)
  PROVE  IInv' /\ Promise!BindTo(o, w, t)
<1>1. CASE \E s \in Shapes : Build(o, s, w, t)
  <2>1. PICK s \in Shapes : Build(o, s, w, t)
    BY <1>1
  <2> DEFINE b == [shape |-> s, weights |-> w, denoms |-> w, tol |-> t,
                   plan |-> Peelable(s, w), core |-> NoCore]
  <2>2. abs[o] = NotBuilt /\ abs' = [abs EXCEPT ![o] = b] /\ call' = call /\ report' = report
    BY <2>1 DEF Build
  <2>3. Peelable(s, w) \in {"none", "some", "all"} /\ (Peelable(s, w) # "none" => w \notin Zero)
    BY AbsorberAssumption DEF Peelable, ShapeType
  <2>4. b \in BindingType
    BY <2>3 DEF BindingType
  <2>5. Follows(b) /\ b.weights = w /\ b.tol = t
    BY <2>3, <2>4 DEF Follows, CoreFollows
  <2>6. Unused(o)
    BY <2>2, IdleFacts, AbsorberAssumption DEF Unused, IInv, Serving, NoReport
  <2>7. Kept(b) = 0
    BY DEF Kept
  <2> HIDE DEF b
  <2> QED
    BY <2>2, <2>4, <2>5, <2>6, <2>7, Rebinds
<1>2. CASE UpdateWeights(o, w, t)
  <2> DEFINE a == abs[o]
             p == PlanUpdated(a.plan, w)
             q == IF p = "none" THEN NoCore ELSE CoreUpdated(a.core, w, t)
             b == Reweighted(a, w, t)
  <2>1. /\ a # NotBuilt /\ Unused(o) /\ call' = call /\ report' = report
    BY <1>2 DEF UpdateWeights
  <2>9. abs' = [abs EXCEPT ![o] = b]
    BY <1>2 DEF UpdateWeights
  <2>2. Follows(a) /\ a \in BindingType
    BY <2>1 DEF IInv, Follows
  <2>3. p \in {"none", "some", "all"} /\ (p # "none" => w \notin Zero)
    BY <2>2 DEF PlanUpdated, BindingType
  <2>4. q = NoCore \/ (q \in CoreType /\ q.weights = w /\ q.denoms = w /\ q.tol = t)
    <3>1. CASE a.core = NoCore
      BY <3>1 DEF CoreUpdated
    <3>2. CASE a.core # NoCore
      <4>1. a.core \in CoreType
        BY <2>2, <3>2 DEF Follows, CoreFollows
      <4> DEFINE x == [a.core EXCEPT !.weights = w, !.denoms = w, !.tol = t]
      <4>2. x \in CoreType /\ x.weights = w /\ x.denoms = w /\ x.tol = t
        BY <4>1 DEF CoreType
      <4>3. q = NoCore \/ q = x
        BY <3>2 DEF CoreUpdated
      <4> QED
        BY <4>2, <4>3
    <3> QED
      BY <3>1, <3>2
  <2>5. p = "none" => q = NoCore
    OBVIOUS
  <2> HIDE DEF p, q
  <2>6. b = [a EXCEPT !.weights = w, !.denoms = w, !.tol = t, !.plan = p, !.core = q]
    BY DEF Reweighted, p, q
  <2> HIDE DEF b
  <2>7. /\ b \in BindingType /\ b.weights = w /\ b.denoms = w /\ b.tol = t /\ b.plan = p
        /\ b.core = q
    <3> DEFINE j == [a EXCEPT !.weights = w, !.denoms = w, !.tol = t]
    <3>1. j \in BindingType /\ j.weights = w /\ j.denoms = w /\ j.tol = t
      BY <2>2 DEF BindingType
    <3>2. b = [j EXCEPT !.plan = p, !.core = q]
      BY <2>6
    <3> HIDE DEF j
    <3> QED
      BY <2>3, <2>4, <3>1, <3>2 DEF BindingType
  <2>10. p # "some" => q = NoCore
    <3>1. p # "some" => p = "none" \/ a.plan # "some"
      BY DEF p, PlanUpdated
    <3>2. a.core = NoCore => q = NoCore
      BY DEF q, CoreUpdated
    <3> QED
      BY <2>2, <2>5, <3>1, <3>2 DEF Follows
  <2>8. Follows(b)
    BY <2>3, <2>4, <2>7, <2>10 DEF Follows, CoreFollows
  <2>11. Kept(b) = 0 \/ (Kept(b) = b.tol /\ BoundOf(abs[o]).kept # 0)
    <3>1. CASE q = NoCore
      BY <2>7, <3>1 DEF Kept
    <3>2. CASE q # NoCore
      <4>1. a.core # NoCore
        BY <3>2 DEF q, CoreUpdated
      <4>2. a.core.tol # 0
        BY <2>2, <4>1, TolFacts DEF Follows, CoreFollows, CoreType
      <4>3. BoundOf(abs[o]).kept = a.core.tol
        BY <2>1, <4>1 DEF BoundOf, Kept
      <4> QED
        BY <2>4, <2>7, <3>2, <4>2, <4>3 DEF Kept
    <3> QED
      BY <3>1, <3>2
  <2> QED
    BY <2>1, <2>7, <2>8, <2>9, <2>11, Rebinds
<1> QED
  BY <1>1, <1>2

LEMMA AssignTolPromised ==
  ASSUME IInv, NEW o \in Solvers, NEW t \in Tols, AssignTol(o, t)
  PROVE  IInv' /\ Promise!AssignTol(o, t)
<1> DEFINE a == abs[o]
           b == [a EXCEPT !.tol = t]
           told == [p \in Solvers |-> BoundOf(abs[p])]
           asked == [d \in Clients |-> ServiceOf(call[d])]
<1>1. /\ a # NotBuilt /\ Unused(o) /\ call' = call /\ report' = report
  BY DEF AssignTol
<1>2. abs' = [abs EXCEPT ![o] = b]
  BY DEF AssignTol, IInv
<1>3. Follows(a) /\ a \in BindingType
  BY <1>1 DEF IInv, Follows
<1>4. /\ b \in BindingType /\ b.weights = a.weights /\ b.denoms = a.denoms /\ b.tol = t
      /\ b.plan = a.plan /\ b.core = a.core
  BY <1>3 DEF BindingType
<1>5. Follows(b) /\ Kept(b) = Kept(a)
  BY <1>3, <1>4 DEF Follows, CoreFollows, Kept
<1> HIDE DEF b
<1>6. /\ IInv' /\ ~Promise!InUse(o) /\ asked' = asked
      /\ told' = [told EXCEPT ![o] = [weights |-> b.weights, tol |-> b.tol, kept |-> Kept(b)]]
  BY <1>1, <1>2, <1>4, <1>5, Rebound
<1>7. told[o] = [weights |-> a.weights, tol |-> a.tol, kept |-> Kept(a)]
  BY <1>1 DEF BoundOf
<1>8. told' = [told EXCEPT ![o].tol = t]
  <2>1. [told[o] EXCEPT !.tol = t] = [weights |-> b.weights, tol |-> b.tol, kept |-> Kept(b)]
    BY <1>4, <1>5, <1>7
  <2> HIDE DEF told
  <2> QED
    BY <1>6, <2>1
<1>9. told[o] # Promise!Unbound
  BY <1>3, <1>7, TolFacts DEF Promise!Unbound, BindingType
<1> QED
  BY <1>1, <1>6, <1>8, <1>9 DEF Promise!AssignTol

LEMMA AskPromised ==
  ASSUME IInv, NEW c \in Clients, NEW o \in Solvers, Ask(c, o) \/ AskDirection(c, o)
  PROVE  IInv' /\ \E for \in {"block", "direction"} : Promise!Ask(c, o, for)
<1> DEFINE a == abs[o]
<1>1. /\ Free(c) /\ a # NotBuilt /\ abs' = abs /\ report' = report
  BY DEF Ask, AskDirection
<1>2. Follows(a) /\ a \in BindingType
  BY <1>1 DEF IInv, Follows
<1>3. MaxIter \in Nat /\ Never \in Nat /\ a.tol \in Nat /\ a.tol > 0
  BY <1>2, TolFacts DEF BindingType
<1>4. call[c] = Idle
  BY <1>1 DEF Free, IInv, Serving, Standing
<1>5. Idle \in CallType /\ Idle.it = 0 /\ Idle.on = "outer"
  BY <1>3 DEF CallType, Idle, Unmeasured, Pcs
<1>6. \E k : Goto(c, k) /\ k.of = o /\ Standing(k, a)
  <2>1. CASE Ask(c, o)
    <3> DEFINE p == CASE a.plan = "all"  -> "peeled"
                      [] a.plan = "none" -> Solving(a)
                      [] a.plan = "some" -> IF a.core = NoCore THEN "noCore" ELSE "core"
    <3>1. a.plan \in {"none", "some", "all"}
      BY <1>2 DEF BindingType
    <3>2. /\ p \in {"peeled", "closed", "wait", "lsmr", "noCore", "core"}
          /\ p \in {"noCore", "core"} => a.plan = "some"
          /\ p = "core" => a.core # NoCore
          /\ p = "noCore" => a.core = NoCore
          /\ p \in {"closed", "wait", "lsmr"} => a.plan = "none"
      BY <3>1 DEF Solving
    <3>3. Goto(c, [Idle EXCEPT !.of = o, !.pc = p])
      BY <2>1 DEF Ask
    <3> HIDE DEF p
    <3> DEFINE k == [Idle EXCEPT !.of = o, !.pc = p]
    <3>4. p \in Pcs
      BY <3>2 DEF Pcs
    <3>5. k \in CallType /\ k.of = o /\ k.pc = p /\ k.on = "outer" /\ k.it = 0
      BY <1>5, <3>4 DEF CallType
    <3> HIDE DEF k
    <3>6. Standing(k, a)
      BY <3>2, <3>5 DEF Standing, Counting, Counts, Solves, ForDirection
    <3> QED
      BY <3>3, <3>5, <3>6 DEF k
  <2>2. CASE AskDirection(c, o)
    <3> DEFINE k == [Idle EXCEPT !.pc = "directionWait", !.of = o, !.tol = a.tol]
    <3>1. Goto(c, k)
      BY <2>2 DEF AskDirection
    <3>2. "directionWait" \in Pcs
      BY DEF Pcs
    <3>3. /\ k \in CallType /\ k.of = o /\ k.pc = "directionWait" /\ k.on = "outer"
          /\ k.it = 0 /\ k.tol = a.tol
      BY <1>3, <1>5, <3>2 DEF CallType
    <3> HIDE DEF k
    <3>4. Standing(k, a)
      BY <3>3 DEF Standing, Counting, Counts, Solves, ForDirection
    <3> QED
      BY <3>1, <3>3, <3>4
  <2> QED
    BY <2>1, <2>2
<1>7. PICK k : Goto(c, k) /\ k.of = o /\ Standing(k, a)
  BY <1>6
<1>8. DOMAIN call = Clients /\ call' = [call EXCEPT ![c] = k]
  BY <1>7 DEF Goto, IInv
<1>9. \A d \in Clients : (call[d] = Idle \/ Serving(d))'
  BY <1>1, <1>7, <1>8 DEF IInv, Serving
<1>10. DOMAIN call' = Clients /\ call' = [d \in Clients |-> call'[d]]
  BY <1>8
<1>11. IInv'
  BY <1>1, <1>9, <1>10 DEF IInv
<1> DEFINE told == [p \in Solvers |-> BoundOf(abs[p])]
           asked == [d \in Clients |-> ServiceOf(call[d])]
           for == ServiceOf(k).for
<1>12. asked' = [asked EXCEPT ![c] = [of |-> o, for |-> for]]
  <2>1. ServiceOf(k) = [of |-> o, for |-> for]
    BY <1>7 DEF ServiceOf
  <2>2. \A d \in Clients : ServiceOf(call'[d]) = IF d = c THEN ServiceOf(k) ELSE ServiceOf(call[d])
    BY <1>8
  <2> QED
    BY <2>1, <2>2
<1>13. told[o] # Promise!Unbound
  <2>1. [weights |-> a.weights, tol |-> a.tol, kept |-> Kept(a)]
          # [weights |-> "none", tol |-> 0, kept |-> 0]
    BY <1>3
  <2> QED
    BY <1>1, <2>1 DEF BoundOf, Promise!Unbound
<1>14. asked[c] = Promise!NoService
  BY <1>4 DEF ServiceOf, Idle, ForDirection, Promise!NoService
<1>15. report[c] = Promise!NoReport
  BY <1>1 DEF Free, NoReport, Promise!NoReport
<1>16. told' = told
  BY <1>1
<1>17. for \in {"block", "direction"}
  BY DEF ServiceOf
<1>18. Promise!Ask(c, o, for)
  BY <1>1, <1>12, <1>13, <1>14, <1>15, <1>16 DEF Promise!Ask
<1> QED
  BY <1>11, <1>17, <1>18

LEMMA CollectPromised ==
  ASSUME IInv, NEW c \in Clients, Collect(c)
  PROVE  IInv' /\ Promise!Collect(c)
<1>1. /\ report[c] # NoReport /\ report' = [report EXCEPT ![c] = NoReport]
      /\ abs' = abs /\ call' = call /\ DOMAIN report = Clients
  BY DEF Collect, IInv
<1>2. \A d \in Clients : (report[d] = NoReport
                             \/ (report[d].of \in Solvers /\ abs[report[d].of] # NotBuilt))'
  BY <1>1 DEF IInv
<1>3. DOMAIN report' = Clients /\ report' = [d \in Clients |-> report'[d]]
  BY <1>1
<1>4. \A d \in Clients : (call[d] = Idle \/ Serving(d))'
  BY <1>1 DEF IInv, Serving
<1>5. IInv'
  BY <1>1, <1>2, <1>3, <1>4 DEF IInv
<1>6. Promise!NoReport = NoReport
  BY DEF NoReport, Promise!NoReport
<1> QED
  BY <1>1, <1>5, <1>6 DEF Promise!Collect

-----------------------------------------------------------------------------
(* The invariant, and the promise step by step.                              *)

LEMMA StutterPromised ==
  ASSUME IInv, UNCHANGED avars
  PROVE  IInv' /\ UNCHANGED Promise!fvars
<1>1. abs' = abs /\ call' = call /\ report' = report
  BY DEF avars
<1>2. IInv'
  BY <1>1 DEF IInv, Serving
<1> QED
  BY <1>1, <1>2 DEF Promise!fvars

LEMMA StepPromised ==
  ASSUME IInv, [AbsorberNext]_avars
  PROVE  IInv' /\ (PolishLimit = 0 \/ [Promise!FreshNext]_(Promise!fvars))
<1>1. CASE \E o \in Solvers : Configure(o)
  BY <1>1, ConfigurePromised DEF Configure, Promise!FreshNext
<1>2. CASE \E o \in Solvers, t \in Tols : AssignTol(o, t)
  <2>1. PICK o \in Solvers, t \in Tols : AssignTol(o, t)
    BY <1>2
  <2> QED
    BY <2>1, AssignTolPromised DEF Promise!FreshNext
<1>3. CASE \E o \in Solvers, c \in Clients : Ask(c, o) \/ AskDirection(c, o)
  <2>1. PICK o \in Solvers, c \in Clients : Ask(c, o) \/ AskDirection(c, o)
    BY <1>3
  <2> QED
    BY <2>1, AskPromised DEF Promise!FreshNext
<1>4. CASE \E c \in Clients : Projecting(c)
  <2>1. PICK c \in Clients : Projecting(c)
    BY <1>4
  <2>2. Promised(c)
    BY <2>1, WorkingPromised
  <2>3. Promise!CompilePart(call[c].of) => call[c].of \in Solvers
    <3>1. Projecting(c) => call[c].pc # "idle"
      BY DEF Projecting, BuildCore, UseCore, AllPeeled, Closed, Lsmr, Enter, OneTerm, Probe, Plain,
             CgStart, CgStep, CheckCore, EnterPolish, Polish, EnterDirection, FixedSweeps, LsmrRound
    <3> QED
      BY <2>1, <3>1, NotIdleServes DEF Serving
  <2> QED
    BY <2>2, <2>3 DEF Promised, Promise!FreshNext
<1>5. CASE \E c \in Clients : Collect(c)
  BY <1>5, CollectPromised DEF Promise!FreshNext
<1>6. CASE UNCHANGED avars
  BY <1>6, StutterPromised
<1> QED
  BY <1>1, <1>2, <1>3, <1>4, <1>5, <1>6 DEF AbsorberNext

LEMMA InitPromised ==
  ASSUME AbsorberInit
  PROVE  IInv /\ Promise!FreshInit
<1>1. IInv
  BY DEF AbsorberInit, IInv
<1>2. Promise!NoReport = NoReport /\ Promise!Unbound = [weights |-> "none", tol |-> 0, kept |-> 0]
  BY DEF NoReport, Promise!NoReport, Promise!Unbound
<1>3. [o \in Solvers |-> BoundOf(abs[o])] = [o \in Solvers |-> Promise!Unbound]
  BY <1>2 DEF AbsorberInit, BoundOf
<1>4. [c \in Clients |-> ServiceOf(call[c])] = [c \in Clients |-> Promise!NoService]
  BY DEF AbsorberInit, ServiceOf, Idle, ForDirection, Promise!NoService
<1> QED
  BY <1>1, <1>2, <1>3, <1>4 DEF AbsorberInit, Promise!FreshInit

\* A solver's denominators, peeled rows and lazily compiled core always belong
\* to the weights it is bound to, a core keeps a tolerance of its own whatever is
\* assigned to the solver, and a projection's iterations keep to its budget.
THEOREM CompiledFollowsBinding == AbsorberSpec => []IInv
<1>1. AbsorberInit => IInv
  BY InitPromised
<1>2. IInv /\ [AbsorberNext]_avars => IInv'
  BY StepPromised
<1> QED
  BY <1>1, <1>2, PTL DEF AbsorberSpec

\* Whatever the number of solvers, threads and iterations: an answer is the
\* projection under the weights the solver is bound to, converged means no
\* looser than the tolerance in effect (its own, or the one its core was compiled
\* with, when a tolerance was assigned since), and no budget is exceeded (the
\* safety part of KeepsPromise; absorber.py:593 and
\* models/linear_iv/absorption.py).  A polish limit of 0 (the default is 32) calls
\* an answer converged that no test has passed (absorber.py:1254).
THEOREM Refinement ==
  ASSUME PolishLimit # 0
  PROVE  AbsorberSpec => Promise!FreshInit /\ [][Promise!FreshNext]_(Promise!fvars)
<1>1. AbsorberInit => Promise!FreshInit
  BY InitPromised
<1>2. IInv /\ [AbsorberNext]_avars => [Promise!FreshNext]_(Promise!fvars)
  BY StepPromised
<1> QED
  BY <1>1, <1>2, CompiledFollowsBinding, PTL DEF AbsorberSpec

-----------------------------------------------------------------------------
(* The lock of an object.                                                    *)

LockInv ==
  /\ DOMAIN kernel = Solvers \X ({"outer"} \cup Clients)
  /\ \A c \in Clients : call[c].pc \in Sweeping => kernel[Lock(c)] = c

\* A projection takes the lock of the object it goes on with; gives it back and
\* stops sweeping; or leaves the locks alone and does not start to sweep.
Takes(c) == \E k : Take(c) /\ Goto(c, k) /\ k.of = call[c].of /\ k.on = call[c].on
Drops(c) == \E k : call[c].pc \in Sweeping /\ Drop(c) /\ Goto(c, k) /\ k.pc \notin Sweeping
Keeps(c) == \E k : /\ kernel' = kernel /\ Goto(c, k)
                   /\ k.pc \in Sweeping => /\ call[c].pc \in Sweeping
                                            /\ k.of = call[c].of /\ k.on = call[c].on

LEMMA LockKept ==
  ASSUME IInv, LockInv, NEW c \in Clients, Takes(c) \/ Drops(c) \/ Keeps(c),
         call[c].pc # "idle"
  PROVE  LockInv'
<1>1. /\ call[c] \in CallType /\ call[c].of \in Solvers /\ DOMAIN call = Clients
      /\ NoClient \notin Clients
  BY Here, AbsorberAssumption DEF IInv, Serving
<1>2. Lock(c) \in DOMAIN kernel
  BY <1>1 DEF LockInv, Lock, CallType
<1>3. CASE Takes(c)
  <2>1. PICK k : Take(c) /\ Goto(c, k) /\ k.of = call[c].of /\ k.on = call[c].on
    BY <1>3 DEF Takes
  <2>2. /\ call' = [call EXCEPT ![c] = k] /\ kernel' = [kernel EXCEPT ![Lock(c)] = c]
        /\ kernel[Lock(c)] = NoClient
    BY <2>1 DEF Goto, Take, Vacant
  <2>3. DOMAIN kernel' = DOMAIN kernel /\ kernel'[Lock(c)] = c
    BY <1>2, <2>2
  <2>4. \A d \in Clients : Lock(d)' = Lock(d)
    BY <1>1, <2>1, <2>2 DEF Lock
  <2>5. ASSUME NEW d \in Clients, call'[d].pc \in Sweeping PROVE kernel'[Lock(d)'] = d
    <3>1. CASE d = c
      BY <2>3, <2>4, <3>1
    <3>2. CASE d # c
      <4>1. kernel[Lock(d)] = d
        BY <1>1, <2>2, <2>5, <3>2 DEF LockInv
      <4>2. Lock(d) # Lock(c)
        BY <1>1, <2>2, <4>1
      <4>3. kernel'[Lock(d)] = d
        BY <2>2, <4>1, <4>2
      <4> QED
        BY <2>4, <4>3
    <3> QED
      BY <3>1, <3>2
  <2> QED
    BY <2>3, <2>5 DEF LockInv
<1>4. CASE Drops(c)
  <2>1. PICK k : call[c].pc \in Sweeping /\ Drop(c) /\ Goto(c, k) /\ k.pc \notin Sweeping
    BY <1>4 DEF Drops
  <2>2. call' = [call EXCEPT ![c] = k] /\ kernel' = [kernel EXCEPT ![Lock(c)] = NoClient]
    BY <2>1 DEF Goto, Drop
  <2>3. DOMAIN kernel' = DOMAIN kernel /\ kernel[Lock(c)] = c
    BY <2>1, <2>2 DEF LockInv
  <2>4. ASSUME NEW d \in Clients, call'[d].pc \in Sweeping PROVE kernel'[Lock(d)'] = d
    <3>1. d # c
      BY <1>1, <2>1, <2>2, <2>4
    <3>2. call'[d] = call[d] /\ Lock(d)' = Lock(d)
      BY <1>1, <2>2, <3>1 DEF Lock
    <3>3. kernel[Lock(d)] = d
      BY <2>4, <3>2 DEF LockInv
    <3>4. Lock(d) # Lock(c)
      BY <2>3, <3>1, <3>3
    <3>5. kernel'[Lock(d)] = d
      BY <2>2, <3>3, <3>4
    <3> QED
      BY <3>2, <3>5
  <2> QED
    BY <2>3, <2>4 DEF LockInv
<1>5. CASE Keeps(c)
  <2>1. PICK k : /\ kernel' = kernel /\ Goto(c, k)
                 /\ k.pc \in Sweeping => /\ call[c].pc \in Sweeping
                                          /\ k.of = call[c].of /\ k.on = call[c].on
    BY <1>5 DEF Keeps
  <2>2. call' = [call EXCEPT ![c] = k]
    BY <2>1 DEF Goto
  <2>3. ASSUME NEW d \in Clients, call'[d].pc \in Sweeping PROVE kernel'[Lock(d)'] = d
    <3>1. call[d].pc \in Sweeping /\ Lock(d)' = Lock(d)
      BY <1>1, <2>1, <2>2, <2>3 DEF Lock
    <3> QED
      BY <2>1, <3>1 DEF LockInv
  <2> QED
    BY <2>1, <2>3 DEF LockInv
<1> QED
  BY <1>3, <1>4, <1>5

LEMMA ReturnStops ==
  ASSUME NEW c \in Clients, NEW ok, NEW n, NEW g, Return(c, ok, n, g)
  PROVE  Goto(c, Idle) /\ Idle.pc \notin Sweeping
  BY IdleFacts DEF Return, Sweeping

LEMMA SolvedDrops ==
  ASSUME IInv, NEW c \in Clients, call[c].pc \in Sweeping, NEW ok \in BOOLEAN, NEW n, NEW g, NEW cg,
         Solved(c, ok, n, g, cg)
  PROVE  Drops(c)
<1>1. Drop(c)
  BY DEF Solved
<1>2. CASE cg /\ OnCore(c)
  <2> DEFINE p == IF ok THEN "check" ELSE "checkFailed"
             k == [call[c] EXCEPT !.pc = p, !.it = n, !.tested = g, !.cap = 0]
  <2>1. Goto(c, k)
    BY <1>2 DEF Solved
  <2>2. p \in {"check", "checkFailed"}
    OBVIOUS
  <2> HIDE DEF p
  <2>3. call[c] \in CallType
    BY Here DEF Sweeping
  <2>4. k.pc = p
    BY <2>3 DEF CallType
  <2>5. k.pc \notin Sweeping
    BY <2>2, <2>4 DEF Sweeping
  <2> QED
    BY <1>1, <2>1, <2>5 DEF Drops
<1>3. CASE ~(cg /\ OnCore(c))
  BY <1>1, <1>3, ReturnStops DEF Solved, Drops
<1> QED
  BY <1>2, <1>3

\* A step within a solve: the same lock, held on.
LEMMA OnKeeps ==
  ASSUME NEW c \in Clients, call[c].pc \in Sweeping, NEW k, k.of = call[c].of, k.on = call[c].on,
         On(c, k)
  PROVE  Keeps(c)
  BY DEF On, Keeps

LEMMA WorkingLocks ==
  ASSUME IInv, NEW c \in Clients, Projecting(c)
  PROVE  (Takes(c) \/ Drops(c) \/ Keeps(c)) /\ call[c].pc # "idle"
<1>1. call[c].pc # "idle"
  BY DEF Projecting, BuildCore, UseCore, AllPeeled, Closed, Lsmr, Enter, OneTerm, Probe, Plain, CgStart,
         CgStep, CheckCore, EnterPolish, Polish, EnterDirection, FixedSweeps, LsmrRound
<1>2. call[c] \in CallType
  BY <1>1, Here
<1>3. CASE BuildCore(c) \/ UseCore(c)
  <2>1. CASE BuildCore(c)
    <3>1. [call[c] EXCEPT !.pc = "core"].pc = "core"
      BY <1>2 DEF CallType
    <3> QED
      BY <1>1, <2>1, <3>1 DEF BuildCore, Keeps, Sweeping
  <2>2. CASE UseCore(c)
    <3> DEFINE a == abs[call[c].of]
               p == Solving(a)
               k == [call[c] EXCEPT !.on = a.core.by, !.pc = p]
    <3>1. p \in {"closed", "wait", "lsmr"} /\ Goto(c, k) /\ kernel' = kernel
      BY <2>2 DEF UseCore, Solving
    <3> HIDE DEF p
    <3>2. k.pc = p
      BY <1>2 DEF CallType
    <3>3. k.pc \notin Sweeping
      BY <3>1, <3>2 DEF Sweeping
    <3> QED
      BY <1>1, <3>1, <3>3 DEF Keeps
  <2> QED
    BY <1>3, <2>1, <2>2
<1>4. CASE AllPeeled(c) \/ Closed(c) \/ Lsmr(c)
  <2>1. kernel' = kernel /\ \E ok, n, g : Return(c, ok, n, g)
    BY <1>4 DEF AllPeeled, Closed, Lsmr
  <2> QED
    BY <1>1, <2>1, ReturnStops DEF Keeps
<1>5. CASE Enter(c)
  <2>1. \E p : Goto(c, [call[c] EXCEPT !.cap = MaxIter, !.pc = p]) /\ Take(c)
    BY <1>5 DEF Enter
  <2>2. PICK p : Goto(c, [call[c] EXCEPT !.cap = MaxIter, !.pc = p]) /\ Take(c)
    BY <2>1
  <2> DEFINE k == [call[c] EXCEPT !.cap = MaxIter, !.pc = p]
  <2>3. k.of = call[c].of /\ k.on = call[c].on
    BY <1>2 DEF CallType
  <2> QED
    BY <1>1, <2>2, <2>3 DEF Takes
<1>6. CASE EnterPolish(c)
  <2> DEFINE k == [call[c] EXCEPT !.pc = "polish", !.cap = PolishCap(call[c].it)]
  <2>1. k.of = call[c].of /\ k.on = call[c].on
    BY <1>2 DEF CallType
  <2>2. Take(c) /\ Goto(c, k)
    BY <1>6 DEF EnterPolish
  <2> QED
    BY <1>1, <2>1, <2>2 DEF Takes
<1>7. CASE EnterDirection(c)
  <2> DEFINE p == IF call[c].pc = "directionWait" THEN "direction" ELSE "cleanup"
             m == Min({DirectionSweeps, MaxIter - call[c].it})
             k == [call[c] EXCEPT !.phase = 0, !.pc = p, !.cap = m]
  <2>1. Take(c) /\ Goto(c, k)
    BY <1>7 DEF EnterDirection
  <2> HIDE DEF p, m
  <2>2. k.of = call[c].of /\ k.on = call[c].on
    BY <1>2 DEF CallType
  <2> QED
    BY <1>1, <2>1, <2>2 DEF Takes
<1>8. CASE OneTerm(c) \/ Probe(c) \/ Plain(c) \/ CgStart(c) \/ CgStep(c)
  <2>1. call[c].pc \in Sweeping
    BY <1>8 DEF OneTerm, Probe, Plain, CgStart, CgStep, Sweeping
  <2>2. \/ \E ok \in BOOLEAN : \E n, g, cg : Solved(c, ok, n, g, cg)
        \/ \E n : On(c, [call[c] EXCEPT !.it = n])
        \/ \E n, p, m : On(c, [call[c] EXCEPT !.it = n, !.pc = p, !.cap = m])
        \/ \E p, m : On(c, [call[c] EXCEPT !.pc = p, !.cap = m])
    <3>1. CASE OneTerm(c)
      BY <3>1 DEF OneTerm
    <3>2. CASE Probe(c)
      BY <3>2 DEF Probe
    <3>3. CASE Plain(c)
      BY <3>3 DEF Plain
    <3>4. CASE CgStart(c)
      BY <3>4 DEF CgStart
    <3>5. CASE CgStep(c)
      BY <3>5 DEF CgStep
    <3> QED
      BY <1>8, <3>1, <3>2, <3>3, <3>4, <3>5
  <2>3. CASE \E ok \in BOOLEAN : \E n, g, cg : Solved(c, ok, n, g, cg)
    BY <1>1, <2>1, <2>3, SolvedDrops
  <2>4. ASSUME NEW k, On(c, k), k.of = call[c].of, k.on = call[c].on PROVE Keeps(c)
    BY <2>1, <2>4, OnKeeps
  <2>5. \A n, p, m :
          /\ [call[c] EXCEPT !.it = n].of = call[c].of
          /\ [call[c] EXCEPT !.it = n].on = call[c].on
          /\ [call[c] EXCEPT !.it = n, !.pc = p, !.cap = m].of = call[c].of
          /\ [call[c] EXCEPT !.it = n, !.pc = p, !.cap = m].on = call[c].on
          /\ [call[c] EXCEPT !.pc = p, !.cap = m].of = call[c].of
          /\ [call[c] EXCEPT !.pc = p, !.cap = m].on = call[c].on
    BY <1>2 DEF CallType
  <2>6. CASE \E n : On(c, [call[c] EXCEPT !.it = n])
    <3>1. PICK n : On(c, [call[c] EXCEPT !.it = n])
      BY <2>6
    <3> QED
      BY <1>1, <2>4, <2>5, <3>1
  <2>7. CASE \E n, p, m : On(c, [call[c] EXCEPT !.it = n, !.pc = p, !.cap = m])
    <3>1. PICK n, p, m : On(c, [call[c] EXCEPT !.it = n, !.pc = p, !.cap = m])
      BY <2>7
    <3> DEFINE k == [call[c] EXCEPT !.it = n, !.pc = p, !.cap = m]
    <3>2. On(c, k) /\ k.of = call[c].of /\ k.on = call[c].on
      BY <2>5, <3>1
    <3> HIDE DEF k
    <3> QED
      BY <1>1, <2>4, <3>2
  <2>8. CASE \E p, m : On(c, [call[c] EXCEPT !.pc = p, !.cap = m])
    <3>1. PICK p, m : On(c, [call[c] EXCEPT !.pc = p, !.cap = m])
      BY <2>8
    <3> QED
      BY <1>1, <2>4, <2>5, <3>1
  <2> QED
    BY <2>2, <2>3, <2>6, <2>7, <2>8
<1>9. CASE CheckCore(c)
  <2>1. \/ \E e : On(c, [call[c] EXCEPT !.pc = "polishWait", !.err = e])
        \/ kernel' = kernel /\ \E ok, n, g : Return(c, ok, n, g)
    BY <1>9 DEF CheckCore
  <2>2. \A e : [call[c] EXCEPT !.pc = "polishWait", !.err = e].pc \notin Sweeping
    BY <1>2 DEF CallType, Sweeping
  <2>3. CASE kernel' = kernel /\ \E ok, n, g : Return(c, ok, n, g)
    BY <1>1, <2>3, ReturnStops DEF Keeps
  <2>4. CASE \E e : On(c, [call[c] EXCEPT !.pc = "polishWait", !.err = e])
    <3>1. PICK e : On(c, [call[c] EXCEPT !.pc = "polishWait", !.err = e])
      BY <2>4
    <3> QED
      BY <1>1, <2>2, <3>1 DEF On, Keeps
  <2> QED
    BY <2>1, <2>3, <2>4
<1>10. CASE Polish(c)
  <2>1. call[c].pc \in Sweeping
    BY <1>10 DEF Polish, Sweeping
  <2>2. \/ Drop(c) /\ \E ok, n, g : Return(c, ok, n, g)
        \/ \E n, e : On(c, [call[c] EXCEPT !.it = n, !.err = e, !.tested = Never])
    BY <1>10 DEF Polish
  <2>3. CASE Drop(c) /\ \E ok, n, g : Return(c, ok, n, g)
    BY <1>1, <2>1, <2>3, ReturnStops DEF Drops
  <2>4. CASE \E n, e : On(c, [call[c] EXCEPT !.it = n, !.err = e, !.tested = Never])
    <3>1. PICK n, e : On(c, [call[c] EXCEPT !.it = n, !.err = e, !.tested = Never])
      BY <2>4
    <3>2. /\ [call[c] EXCEPT !.it = n, !.err = e, !.tested = Never].of = call[c].of
          /\ [call[c] EXCEPT !.it = n, !.err = e, !.tested = Never].on = call[c].on
      BY <1>2 DEF CallType
    <3> QED
      BY <1>1, <2>1, <3>1, <3>2, OnKeeps
  <2> QED
    BY <2>2, <2>3, <2>4
<1>11. CASE FixedSweeps(c)
  <2>1. call[c].pc \in Sweeping
    BY <1>11 DEF FixedSweeps, Sweeping
  <2>2. \/ Drop(c) /\ \E n, m : Goto(c, [call[c] EXCEPT !.pc = "rounds", !.it = n, !.phase = 0, !.cap = m])
        \/ Drop(c) /\ \E ok, n, g : Return(c, ok, n, g)
        \/ \E n, f : On(c, [call[c] EXCEPT !.it = n, !.phase = f])
    BY <1>11 DEF FixedSweeps, Certified
  <2>3. CASE Drop(c) /\ \E ok, n, g : Return(c, ok, n, g)
    BY <1>1, <2>1, <2>3, ReturnStops DEF Drops
  <2>4. CASE Drop(c) /\ \E n, m : Goto(c, [call[c] EXCEPT !.pc = "rounds", !.it = n, !.phase = 0,
                                                        !.cap = m])
    <3>1. PICK n, m : Goto(c, [call[c] EXCEPT !.pc = "rounds", !.it = n, !.phase = 0, !.cap = m])
      BY <2>4
    <3> DEFINE k == [call[c] EXCEPT !.pc = "rounds", !.it = n, !.phase = 0, !.cap = m]
    <3>2. k.pc = "rounds"
      BY <1>2 DEF CallType
    <3>3. k.pc \notin Sweeping
      BY <3>2 DEF Sweeping
    <3> QED
      BY <1>1, <2>1, <2>4, <3>1, <3>3 DEF Drops
  <2>5. CASE \E n, f : On(c, [call[c] EXCEPT !.it = n, !.phase = f])
    <3>1. PICK n, f : On(c, [call[c] EXCEPT !.it = n, !.phase = f])
      BY <2>5
    <3>2. /\ [call[c] EXCEPT !.it = n, !.phase = f].of = call[c].of
          /\ [call[c] EXCEPT !.it = n, !.phase = f].on = call[c].on
      BY <1>2 DEF CallType
    <3> QED
      BY <1>1, <2>1, <3>1, <3>2, OnKeeps
  <2> QED
    BY <2>2, <2>3, <2>4, <2>5
<1>12. CASE LsmrRound(c)
  <2>1. \/ \E n, f : On(c, [call[c] EXCEPT !.it = n, !.phase = f])
        \/ \E n : On(c, [call[c] EXCEPT !.pc = "cleanupWait", !.it = n, !.phase = 0, !.cap = 0])
        \/ kernel' = kernel /\ \E ok, n, g : Return(c, ok, n, g)
    BY <1>12 DEF LsmrRound, Certified
  <2>2. CASE kernel' = kernel /\ \E ok, n, g : Return(c, ok, n, g)
    BY <1>1, <2>2, ReturnStops DEF Keeps
  <2>3. CASE \E n, f : On(c, [call[c] EXCEPT !.it = n, !.phase = f])
    <3>1. PICK n, f : On(c, [call[c] EXCEPT !.it = n, !.phase = f])
      BY <2>3
    <3>2. [call[c] EXCEPT !.it = n, !.phase = f].pc = "rounds"
      BY <1>2, <1>12 DEF CallType, LsmrRound
    <3>3. [call[c] EXCEPT !.it = n, !.phase = f].pc \notin Sweeping
      BY <3>2 DEF Sweeping
    <3> QED
      BY <1>1, <3>1, <3>3 DEF On, Keeps
  <2>4. CASE \E n : On(c, [call[c] EXCEPT !.pc = "cleanupWait", !.it = n, !.phase = 0, !.cap = 0])
    <3>1. PICK n : On(c, [call[c] EXCEPT !.pc = "cleanupWait", !.it = n, !.phase = 0, !.cap = 0])
      BY <2>4
    <3> DEFINE k == [call[c] EXCEPT !.pc = "cleanupWait", !.it = n, !.phase = 0, !.cap = 0]
    <3>2. k.pc = "cleanupWait"
      BY <1>2 DEF CallType
    <3>3. k.pc \notin Sweeping
      BY <3>2 DEF Sweeping
    <3> QED
      BY <1>1, <3>1, <3>3 DEF On, Keeps
  <2> QED
    BY <2>1, <2>2, <2>3, <2>4
<1> QED
  BY <1>3, <1>4, <1>5, <1>6, <1>7, <1>8, <1>9, <1>10, <1>11, <1>12 DEF Projecting

\* Two threads never sweep in one object: each of them would own its lock, and
\* cores are locked apart from the solver they were peeled from
\* (absorber.py:534, the scratch arrays of the compiled sweeps).
THEOREM SweepersExclude == AbsorberSpec => []OneSweeperPerObject
<1>1. AbsorberInit => LockInv
  BY IdleFacts DEF AbsorberInit, LockInv, Sweeping
<1>2. IInv /\ LockInv /\ [AbsorberNext]_avars => LockInv'
  <2> SUFFICES ASSUME IInv, LockInv, [AbsorberNext]_avars PROVE LockInv'
    OBVIOUS
  <2>1. CASE \E c \in Clients : Projecting(c)
    BY <2>1, WorkingLocks, LockKept
  <2>2. CASE \/ \E o \in Solvers : Configure(o) \/ \E t \in Tols : AssignTol(o, t)
             \/ \E c \in Clients : Collect(c)
             \/ UNCHANGED avars
    <3>1. call' = call /\ kernel' = kernel
      BY <2>2 DEF Configure, Build, UpdateWeights, AssignTol, Collect, avars
    <3> QED
      BY <3>1 DEF LockInv, Lock
  <2>3. CASE \E o \in Solvers, c \in Clients : Ask(c, o) \/ AskDirection(c, o)
    <3>1. PICK o \in Solvers, c \in Clients : Ask(c, o) \/ AskDirection(c, o)
      BY <2>3
    <3>2. \E k : Goto(c, k) /\ k.pc \notin Sweeping
      <4>1. CASE Ask(c, o)
        <5> DEFINE p == CASE abs[o].plan = "all"  -> "peeled"
                          [] abs[o].plan = "none" -> Solving(abs[o])
                          [] abs[o].plan = "some" -> IF abs[o].core = NoCore THEN "noCore" ELSE "core"
        <5>1. Goto(c, [Idle EXCEPT !.of = o, !.pc = p])
          BY <4>1 DEF Ask
        <5>2. abs[o].plan \in {"none", "some", "all"}
          BY <4>1 DEF Ask, IInv, Follows, BindingType
        <5>3. p \in {"peeled", "closed", "wait", "lsmr", "noCore", "core"}
          BY <5>2 DEF Solving
        <5> HIDE DEF p
        <5>4. [Idle EXCEPT !.of = o, !.pc = p].pc = p
          BY DEF Idle
        <5>5. p \notin Sweeping
          BY <5>3 DEF Sweeping
        <5> QED
          BY <5>1, <5>4, <5>5
      <4>2. CASE AskDirection(c, o)
        <5> DEFINE k == [Idle EXCEPT !.pc = "directionWait", !.of = o, !.tol = abs[o].tol]
        <5>1. k.pc = "directionWait" /\ Goto(c, k)
          BY <4>2 DEF Idle, AskDirection
        <5>2. k.pc \notin Sweeping
          BY <5>1 DEF Sweeping
        <5> QED
          BY <5>1, <5>2
      <4> QED
        BY <3>1, <4>1, <4>2
    <3>3. PICK k : Goto(c, k) /\ k.pc \notin Sweeping
      BY <3>2
    <3>4. call' = [call EXCEPT ![c] = k] /\ DOMAIN call = Clients /\ kernel' = kernel
      BY <3>1, <3>3 DEF Goto, IInv, Ask, AskDirection
    <3>5. ASSUME NEW d \in Clients, call'[d].pc \in Sweeping PROVE kernel'[Lock(d)'] = d
      <4>1. call'[d] = call[d] /\ Lock(d)' = Lock(d)
        BY <3>3, <3>4, <3>5 DEF Lock
      <4> QED
        BY <3>4, <3>5, <4>1 DEF LockInv
    <3> QED
      BY <3>4, <3>5 DEF LockInv
  <2> QED
    BY <2>1, <2>2, <2>3 DEF AbsorberNext
<1>3. LockInv => OneSweeperPerObject
  BY DEF LockInv, OneSweeperPerObject
<1> QED
  BY <1>1, <1>2, <1>3, CompiledFollowsBinding, PTL DEF AbsorberSpec

-----------------------------------------------------------------------------
(* The fixed effects of a request, and what it is for one to refine another.  *)

\* What is encoded is a request.
Encoded(q) == fe = [j \in DOMAIN q.terms |-> Encode(q.table, q.terms[j])]
OfRequest == \E q \in Inputs : Encoded(q)

\* The requested FEs are numbered from one.
LEMMA FEsAreListed ==
  ASSUME OfRequest
  PROVE  /\ \E n \in Nat : FEs = 1..n
         /\ IsFiniteSet(FEs) /\ FEs \subseteq Nat
         /\ AllRows \subseteq Nat /\ IsFiniteSet(AllRows)
<1>1. PICK q \in Inputs : Encoded(q)
  BY DEF OfRequest
<1>2. FEs = DOMAIN q.terms
  BY <1>1 DEF Encoded, FEs
<1>3. PICK n \in Nat : DOMAIN q.terms = 1..n
  <2> DEFINE T == [columns : SUBSET DOMAIN q.table, named : BOOLEAN,
                   slopes : Seq([1..NRows -> Int]), intercept : BOOLEAN]
  <2>1. q.terms \in Seq(T)
    BY FEAssumption
  <2> HIDE DEF T
  <2>2. DOMAIN q.terms = 1..Len(q.terms) /\ Len(q.terms) \in Nat
    BY <2>1
  <2> QED
    BY <2>2
<1>4. FEs = 1..n /\ IsFiniteSet(1..n) /\ 1..n \subseteq Nat
  BY <1>2, <1>3, FS_Interval
<1>5. NRows \in Nat
  BY FEAssumption
<1>6. AllRows \subseteq Nat /\ IsFiniteSet(AllRows)
  BY <1>5, FS_Interval DEF AllRows
<1> QED
  BY <1>4, <1>6

\* Two rows share a code just when they share all values of the term's columns.
LEMMA CodesAreValues ==
  ASSUME NEW q \in Inputs, Encoded(q), NEW j \in FEs, NEW i \in AllRows, NEW k \in AllRows
  PROVE  Code(j, i) = Code(j, k) <=> \A c \in fe[j].columns : q.table[c][i] = q.table[c][k]
<1> DEFINE Alike(x) == {y \in AllRows : \A c \in fe[j].columns : q.table[c][x] = q.table[c][y]}
<1>1. AllRows \subseteq Nat
  BY FEsAreListed DEF OfRequest
<1>2. Code(j, i) = Min(Alike(i)) /\ Code(j, k) = Min(Alike(k))
  <2>1. j \in DOMAIN q.terms /\ fe[j] = Encode(q.table, q.terms[j])
    BY DEF Encoded, FEs
  <2>2. fe[j].columns = q.terms[j].columns
    BY <2>1 DEF Encode
  <2>3. \A x \in AllRows : fe[j].code[x] = Min({y \in AllRows : \A c \in q.terms[j].columns :
                                                    q.table[c][x] = q.table[c][y]})
    BY <2>1 DEF Encode
  <2> QED
    BY <2>2, <2>3 DEF Code
<1>3. \A x \in AllRows : Min(Alike(x)) \in Alike(x)
  <2> TAKE x \in AllRows
  <2>1. x \in Alike(x) /\ Alike(x) \in SUBSET Nat
    BY <1>1
  <2> HIDE DEF Alike
  <2>2. PICK m \in Alike(x) : \A n \in Alike(x) : m <= n
    BY <2>1, LeastNat
  <2> QED
    BY <2>2 DEF Min
<1>4. ASSUME Min(Alike(i)) = Min(Alike(k)), NEW c \in fe[j].columns PROVE q.table[c][i] = q.table[c][k]
  <2>1. Min(Alike(i)) \in Alike(i) /\ Min(Alike(i)) \in Alike(k)
    BY <1>3, <1>4
  <2> QED
    BY <2>1
<1>5. ASSUME \A c \in fe[j].columns : q.table[c][i] = q.table[c][k] PROVE Alike(i) = Alike(k)
  BY <1>5
<1> QED
  BY <1>2, <1>4, <1>5

\* What the specification proves, the rows show.
LEMMA ContainedRefines ==
  ASSUME OfRequest, NEW coarse \in FEs, NEW fine \in FEs, Contained(coarse, fine)
  PROVE  Refines(fine, coarse, AllRows)
<1>1. PICK q \in Inputs : Encoded(q)
  BY DEF OfRequest
<1>2. fe[coarse].columns \subseteq fe[fine].columns
  BY DEF Contained
<1> QED
  BY <1>1, <1>2, CodesAreValues DEF Refines

\* Refinement is a preorder, and fewer rows keep it.
LEMMA RefinementFacts ==
  /\ \A j, R : Refines(j, j, R)
  /\ \A i, j, k, R : Refines(i, j, R) /\ Refines(j, k, R) => Refines(i, k, R)
  /\ \A i, j, R, S : S \subseteq R /\ Refines(i, j, R) => Refines(i, j, S)
<1>1. ASSUME NEW j, NEW R PROVE Refines(j, j, R)
  BY DEF Refines
<1>2. ASSUME NEW i, NEW j, NEW k, NEW R, Refines(i, j, R), Refines(j, k, R) PROVE Refines(i, k, R)
  BY <1>2 DEF Refines
<1>3. ASSUME NEW i, NEW j, NEW R, NEW S, S \subseteq R, Refines(i, j, R) PROVE Refines(i, j, S)
  BY <1>3 DEF Refines
<1> QED
  BY <1>1, <1>2, <1>3

\* An FE has finitely many levels on the rows.
LEMMA SizesAreNumbers ==
  ASSUME OfRequest, NEW R \in SUBSET AllRows, NEW j
  PROVE  Size(j, R) \in Nat
<1> DEFINE f == [i \in R |-> Code(j, i)]
<1>1. IsFiniteSet(R)
  BY FEsAreListed, FS_Subset
<1>2. f \in Surjection(R, LevelsIn(j, R))
  BY DEF Surjection, LevelsIn
<1> HIDE DEF f
<1>3. IsFiniteSet(LevelsIn(j, R))
  BY <1>1, <1>2, FS_Surjection
<1> QED
  BY <1>3, FS_CardinalityType DEF Size

\* The m rows of the sampled test are spread over the n rows: their places are
\* places.
LEMMA SpreadRows ==
  ASSUME NEW n \in Nat, NEW m \in Nat, 1 < m, m <= n, NEW k \in 0..(m - 1)
  PROVE  1 + ((k * (n - 1)) \div (m - 1)) \in 1..n
<1> DEFINE a == k * (n - 1)
           b == m - 1
           d == a \div b
<1>1. n - 1 \in Nat /\ b \in Nat /\ b > 0 /\ k \in Nat /\ k <= b
  OBVIOUS
<1>2. a \in Nat /\ a <= b * (n - 1)
  <2>1. k * (n - 1) \in Nat
    BY <1>1
  <2>2. \E e \in Nat : b = k + e
    <3>1. b - k \in Nat /\ b = k + (b - k)
      BY <1>1
    <3> QED
      BY <3>1
  <2>3. PICK e \in Nat : b = k + e
    BY <2>2
  <2>4. b * (n - 1) = k * (n - 1) + e * (n - 1) /\ e * (n - 1) \in Nat
    BY <1>1, <2>3
  <2> QED
    BY <2>1, <2>4
<1> HIDE DEF a, b
<1>3. d \in Nat /\ b * d <= a
  BY <1>1, <1>2
<1>4. d <= n - 1
  <2> SUFFICES ASSUME d > n - 1 PROVE FALSE
    BY <1>1, <1>3
  <2>1. PICK e \in Nat : d = (n - 1) + 1 + e
    <3>1. d - n \in Nat /\ d = (n - 1) + 1 + (d - n)
      BY <1>1, <1>3
    <3> QED
      BY <3>1
  <2>2. b * d = b * (n - 1) + b + b * e /\ b * e \in Nat
    BY <1>1, <2>1
  <2> QED
    BY <1>1, <1>2, <1>3, <2>2
<1> QED
  BY <1>1, <1>3, <1>4 DEF a, b

LEMMA SampledIn ==
  ASSUME OfRequest, NEW R \in SUBSET AllRows
  PROVE  Sampled(R) \subseteq R
<1> DEFINE n == Cardinality(R)
           m == IF SampleSize < n THEN SampleSize ELSE n
<1>1. /\ n \in Nat /\ \A k \in 1..n : Ascending(R)[k] \in R
      /\ SampleSize \in Nat
  <2>1. R \subseteq Int /\ IsFiniteSet(R)
    BY FEsAreListed, FS_Subset
  <2> QED
    BY <2>1, AscendingLists, FEAssumption
<1>2. m \in Nat /\ m <= n
  BY <1>1
<1>3. CASE m \in {0, n}
  BY <1>3 DEF Sampled
<1>4. CASE m \notin {0, n}
  <2>1. Sampled(R) = {Ascending(R)[1 + (IF m = 1 THEN 0 ELSE (k * (n - 1)) \div (m - 1))] : k \in 0..(m - 1)}
    BY <1>4 DEF Sampled
  <2>2. ASSUME NEW k \in 0..(m - 1)
        PROVE  1 + (IF m = 1 THEN 0 ELSE (k * (n - 1)) \div (m - 1)) \in 1..n
    <3> HIDE DEF n, m
    <3>1. CASE m = 1
      BY <1>1, <1>2, <3>1
    <3>2. CASE m # 1
      BY <1>1, <1>2, <1>4, <3>2, SpreadRows
    <3> QED
      BY <3>1, <3>2
  <2> HIDE DEF n, m
  <2> QED
    BY <1>1, <2>1, <2>2
<1> QED
  BY <1>3, <1>4

\* So the relation that is tested is refinement.
LEMMA RelationIsRefinement ==
  ASSUME OfRequest, NEW R \in SUBSET AllRows, NEW coarse \in FEs, NEW fine \in FEs
  PROVE  <<coarse, fine>> \in Relation(R) <=>
           /\ Pure(coarse) /\ fine # coarse /\ fe[fine].intercept
           /\ Size(fine, R) >= Size(coarse, R) /\ Refines(fine, coarse, R)
<1>1. <<coarse, fine>> \in Relation(R) <=>
           /\ Pure(coarse) /\ fine # coarse /\ fe[fine].intercept
           /\ Size(fine, R) >= Size(coarse, R)
           /\ \/ Contained(coarse, fine)
              \/ Refines(fine, coarse, Sampled(R)) /\ Refines(fine, coarse, R)
  BY DEF Relation
<1>2. Contained(coarse, fine) => Refines(fine, coarse, R)
  BY ContainedRefines, RefinementFacts
<1>3. Refines(fine, coarse, R) => Refines(fine, coarse, Sampled(R))
  BY SampledIn, RefinementFacts
<1> QED
  BY <1>1, <1>2, <1>3

-----------------------------------------------------------------------------
(* Up the parents.  A parent is strictly finer (or the earlier one of two     *)
(* that are equally fine), so a walk up the parents climbs a strict total     *)
(* order of finitely many FEs, and it stops at an FE that is kept.            *)

SizeOn(R) == [j \in FEs |-> Size(j, R)]
IsFiner(R, j, c) == SizeOn(R)[j] > SizeOn(R)[c] \/ (SizeOn(R)[j] = SizeOn(R)[c] /\ j < c)
FinerOn(R) == {p \in FEs \X FEs : IsFiner(R, p[1], p[2])}
Eligible(R) == [c \in FEs |-> {j \in FEs : <<c, j>> \in Relation(R) /\ IsFiner(R, j, c)}]
KeptOn(R) == {c \in FEs : Eligible(R)[c] = {}}
ParentOn(R, c) == CHOOSE j \in Eligible(R)[c] : \A k \in Eligible(R)[c] \ {j} : IsFiner(R, j, k)
Climbs(g, R, c) ==
  g = [s \in SUBSET DOMAIN fe |->
         IF s = {} THEN c
         ELSE IF g[s \ {Max(s)}] \in KeptOn(R) THEN g[s \ {Max(s)}] ELSE ParentOn(R, g[s \ {Max(s)}])]
TopOf(R, c) == (CHOOSE g : Climbs(g, R, c))[DOMAIN fe]

\* The canonical plan in these terms.
LEMMA CanonicalIs ==
  ASSUME NEW R
  PROVE  Canonical(R) = [effective |-> KeptOn(R),
                         levels    |-> [j \in KeptOn(R) |-> SizeOn(R)[j]],
                         spannedBy |-> [c \in FEs \ KeptOn(R) |-> TopOf(R, c)]]
BY DEF Canonical, KeptOn, TopOf, Climbs, ParentOn, Eligible, IsFiner, SizeOn, FoldLeft, MapThenFoldSet

\* Finer is a strict total order.
LEMMA FinerIsTotal ==
  ASSUME OfRequest, NEW R \in SUBSET AllRows
  PROVE  /\ StrictTotal(FEs, FinerOn(R))
         /\ \A j, c \in FEs : <<j, c>> \in FinerOn(R) <=> IsFiner(R, j, c)
<1>1. \A j \in FEs : SizeOn(R)[j] \in Nat /\ j \in Nat
  BY FEsAreListed, SizesAreNumbers DEF SizeOn
<1>2. \A j, c \in FEs : <<j, c>> \in FinerOn(R) <=> IsFiner(R, j, c)
  BY DEF FinerOn
<1>3. \A j \in FEs : ~IsFiner(R, j, j)
  BY <1>1 DEF IsFiner
<1>4. \A i, j, k \in FEs : IsFiner(R, i, j) /\ IsFiner(R, j, k) => IsFiner(R, i, k)
  BY <1>1 DEF IsFiner
<1>5. \A i, j \in FEs : i # j => IsFiner(R, i, j) \/ IsFiner(R, j, i)
  BY <1>1 DEF IsFiner
<1> QED
  BY <1>2, <1>3, <1>4, <1>5 DEF StrictTotal

\* The height of an FE that may be climbed from: how many FEs are finer.
Above(R, j) == Place(FEs, FinerOn(R), j)

LEMMA AboveFacts ==
  ASSUME OfRequest, NEW R \in SUBSET AllRows
  PROVE  /\ Cardinality(FEs) \in Nat
         /\ \A j \in FEs : Above(R, j) \in Nat /\ Above(R, j) < Cardinality(FEs)
         /\ \A i, j \in FEs : IsFiner(R, i, j) => Above(R, i) < Above(R, j)
<1>1. StrictTotal(FEs, FinerOn(R)) /\ IsFiniteSet(FEs)
  BY FinerIsTotal, FEsAreListed
<1>2. Cardinality(FEs) \in Nat
  BY <1>1, FS_CardinalityType
<1>3. /\ \A j \in FEs : Above(R, j) \in 0..(Cardinality(FEs) - 1)
      /\ \A i, j \in FEs : <<i, j>> \in FinerOn(R) => Above(R, i) < Above(R, j)
  BY <1>1, PlaceIsBijection DEF Above
<1>4. \A i, j \in FEs : IsFiner(R, i, j) => Above(R, i) < Above(R, j)
  BY <1>3, FinerIsTotal
<1>5. ASSUME NEW j \in FEs PROVE Above(R, j) \in Nat /\ Above(R, j) < Cardinality(FEs)
  <2>1. Above(R, j) \in 0..(Cardinality(FEs) - 1)
    BY <1>3
  <2> QED
    BY <1>2, <2>1
<1> QED
  BY <1>2, <1>4, <1>5

\* The parent of an FE that is not kept refines it, and is strictly finer.
LEMMA ParentFacts ==
  ASSUME OfRequest, NEW R \in SUBSET AllRows, NEW c \in FEs \ KeptOn(R)
  PROVE  /\ ParentOn(R, c) \in FEs /\ Pure(c) /\ fe[ParentOn(R, c)].intercept
         /\ Refines(ParentOn(R, c), c, R)
         /\ Above(R, ParentOn(R, c)) \in Nat /\ Above(R, c) \in Nat
         /\ Above(R, ParentOn(R, c)) < Above(R, c)
<1> DEFINE E == Eligible(R)[c]
<1>1. E # {} /\ E \subseteq FEs /\ \A j \in E : <<c, j>> \in Relation(R) /\ IsFiner(R, j, c)
  BY DEF KeptOn, Eligible
<1>2. /\ \A j \in FEs : Above(R, j) \in Nat
      /\ \A i, j \in FEs : IsFiner(R, i, j) => Above(R, i) < Above(R, j)
  BY AboveFacts
<1>3. \E j \in E : \A k \in E \ {j} : IsFiner(R, j, k)
  <2> DEFINE Heights == {Above(R, j) : j \in E}
  <2>1. Heights \in SUBSET Nat /\ Heights # {}
    BY <1>1, <1>2
  <2>2. PICK m \in Heights : \A h \in Heights : m <= h
    BY <2>1, LeastNat
  <2>3. PICK j \in E : m = Above(R, j)
    BY <2>2
  <2>4. ASSUME NEW k \in E \ {j} PROVE IsFiner(R, j, k)
    <3>1. Above(R, j) <= Above(R, k) /\ j \in FEs /\ k \in FEs
      BY <1>1, <2>2, <2>3
    <3>2. IsFiner(R, j, k) \/ IsFiner(R, k, j)
      BY <3>1, FinerIsTotal DEF StrictTotal
    <3>3. ~IsFiner(R, k, j)
      BY <1>2, <3>1
    <3> QED
      BY <3>2, <3>3
  <2> QED
    BY <2>4
<1> HIDE DEF E
<1>4. ParentOn(R, c) \in E
  BY <1>3 DEF ParentOn, E
<1>5. <<c, ParentOn(R, c)>> \in Relation(R) /\ IsFiner(R, ParentOn(R, c), c) /\ ParentOn(R, c) \in FEs
  BY <1>1, <1>4
<1> QED
  BY <1>2, <1>5, RelationIsRefinement

\* A step up from j.
StepUp(R) == [q \in FEs \X FEs |-> IF q[2] \in KeptOn(R) THEN q[2] ELSE ParentOn(R, q[2])]

\* Where a climb from c may be after the FEs in s.
Reached(R, c, s) ==
  {j \in FEs : /\ Refines(j, c, R) /\ fe[j].intercept
               /\ j \in KeptOn(R) \/ Above(R, j) + Cardinality(s) <= Above(R, c)}

LEMMA StepReaches ==
  ASSUME OfRequest, NEW R \in SUBSET AllRows, NEW c \in FEs,
         NEW s \in SUBSET FEs, NEW x \in s, NEW j \in Reached(R, c, s \ {x})
  PROVE  StepUp(R)[<<x, j>>] \in Reached(R, c, s)
<1>1. x \in FEs /\ j \in FEs /\ Refines(j, c, R) /\ fe[j].intercept
  BY DEF Reached
<1>2. StepUp(R)[<<x, j>>] = IF j \in KeptOn(R) THEN j ELSE ParentOn(R, j)
  BY <1>1 DEF StepUp
<1>3. CASE j \in KeptOn(R)
  BY <1>1, <1>2, <1>3 DEF Reached
<1>4. CASE j \notin KeptOn(R)
  <2> DEFINE p == ParentOn(R, j)
  <2>1. /\ p \in FEs /\ fe[p].intercept /\ Refines(p, j, R)
        /\ Above(R, p) \in Nat /\ Above(R, j) \in Nat /\ Above(R, p) < Above(R, j)
    BY <1>1, <1>4, ParentFacts
  <2>2. Refines(p, c, R)
    BY <1>1, <2>1, RefinementFacts
  <2>3. Cardinality(s \ {x}) = Cardinality(s) - 1 /\ Cardinality(s) \in Nat
    <3>1. IsFiniteSet(s)
      BY FEsAreListed, FS_Subset
    <3> QED
      BY <3>1, FS_CardinalityType, FS_RemoveElement
  <2>4. Above(R, j) + Cardinality(s \ {x}) <= Above(R, c)
    BY <1>4 DEF Reached
  <2>5. Above(R, c) \in Nat
    BY AboveFacts
  <2>6. Above(R, p) + Cardinality(s) <= Above(R, c)
    BY <2>1, <2>3, <2>4, <2>5
  <2> QED
    BY <1>2, <1>4, <2>1, <2>2, <2>6 DEF Reached
<1> QED
  BY <1>3, <1>4

\* The climb ends at an FE that is kept and refines the one it began from.
LEMMA TopFacts ==
  ASSUME OfRequest, NEW R \in SUBSET AllRows, NEW c \in FEs, fe[c].intercept
  PROVE  /\ TopOf(R, c) \in KeptOn(R) /\ fe[TopOf(R, c)].intercept
         /\ Refines(TopOf(R, c), c, R)
<1> DEFINE up == [s \in SUBSET FEs |-> Max(s)]
           V == [s \in SUBSET FEs |-> Reached(R, c, s)]
           k == CHOOSE g : Climbs(g, R, c)
<1>1. PICK n \in Nat : FEs = 1..n
  BY FEsAreListed
<1>2. IsFiniteSet(FEs) /\ FEs = DOMAIN fe
  BY FEsAreListed DEF FEs
<1>3. \A s \in SUBSET FEs : up[s] = Max(s) /\ (s # {} => up[s] \in s)
  BY <1>1, LastsFacts
<1>4. \A s \in SUBSET FEs : V[s] = Reached(R, c, s) /\ V[s] \subseteq FEs
  BY DEF Reached
<1> HIDE DEF up, V
<1>5. /\ Cardinality(FEs) \in Nat
      /\ \A j \in FEs : Above(R, j) \in Nat /\ Above(R, j) < Cardinality(FEs)
  BY AboveFacts
<1>6. c \in V[{}]
  <2>1. Cardinality({}) = 0
    BY FS_EmptySet
  <2>2. Refines(c, c, R)
    BY RefinementFacts
  <2>3. Above(R, c) + 0 <= Above(R, c)
    BY <1>5
  <2> QED
    BY <1>4, <2>1, <2>2, <2>3 DEF Reached
<1>7. \A s \in SUBSET FEs : s # {} => \A j \in V[s \ {up[s]}] : StepUp(R)[<<up[s], j>>] \in V[s]
  <2> SUFFICES ASSUME NEW s \in SUBSET FEs, s # {}, NEW j \in V[s \ {up[s]}]
               PROVE  StepUp(R)[<<up[s], j>>] \in V[s]
    OBVIOUS
  <2>1. PICK x \in s : x = up[s]
    BY <1>3
  <2>2. j \in Reached(R, c, s \ {x})
    BY <1>4, <2>1
  <2>3. StepUp(R)[<<x, j>>] \in Reached(R, c, s)
    BY <2>2, StepReaches
  <2> QED
    BY <1>4, <2>1, <2>3
<1>8. \E g : Unrolls(g, FEs, up, c, StepUp(R)) /\ \A s \in SUBSET FEs : g[s] \in V[s]
  <2>1. IsFiniteSet(FEs) /\ \A s \in SUBSET FEs : s # {} => up[s] \in s
    BY <1>2, <1>3
  <2> QED
    BY <1>6, <1>7, <2>1, FoldExists, Zenon
<1>9. PICK g : Unrolls(g, FEs, up, c, StepUp(R)) /\ \A s \in SUBSET FEs : g[s] \in V[s]
  BY <1>8
<1>10. ASSUME NEW h, NEW s \in SUBSET FEs, s # {}, h[s \ {up[s]}] \in V[s \ {up[s]}]
       PROVE  StepUp(R)[<<up[s], h[s \ {up[s]}]>>] =
                IF h[s \ {Max(s)}] \in KeptOn(R) THEN h[s \ {Max(s)}] ELSE ParentOn(R, h[s \ {Max(s)}])
  <2>1. up[s] = Max(s) /\ up[s] \in FEs /\ s \ {up[s]} \in SUBSET FEs
    BY <1>3, <1>10
  <2>2. PICK j \in FEs : j = h[s \ {up[s]}]
    BY <1>4, <1>10, <2>1
  <2>3. StepUp(R)[<<up[s], j>>] = IF j \in KeptOn(R) THEN j ELSE ParentOn(R, j)
    BY <2>1 DEF StepUp
  <2> QED
    BY <2>1, <2>2, <2>3
<1>11. Climbs(g, R, c)
  <2>1. g = [s \in SUBSET FEs |-> IF s = {} THEN c ELSE StepUp(R)[<<up[s], g[s \ {up[s]}]>>]]
    BY <1>9 DEF Unrolls
  <2>2. \A s \in SUBSET FEs : s # {} => s \ {up[s]} \in SUBSET FEs
    OBVIOUS
  <2>3. \A s \in SUBSET FEs : s # {} => StepUp(R)[<<up[s], g[s \ {up[s]}]>>] =
           IF g[s \ {Max(s)}] \in KeptOn(R) THEN g[s \ {Max(s)}] ELSE ParentOn(R, g[s \ {Max(s)}])
    BY <1>9, <1>10, <2>2
  <2>4. g = [s \in SUBSET FEs |-> IF s = {} THEN c ELSE
           IF g[s \ {Max(s)}] \in KeptOn(R) THEN g[s \ {Max(s)}] ELSE ParentOn(R, g[s \ {Max(s)}])]
    BY <2>1, <2>3
  <2> QED
    BY <1>2, <2>4 DEF Climbs
<1>12. Climbs(k, R, c)
  BY <1>11
<1> HIDE DEF k
<1>13. \A s \in SUBSET FEs : k[s] \in V[s]
  <2>1. \A s \in SUBSET FEs : k[s] = IF s = {} THEN c ELSE
           IF k[s \ {Max(s)}] \in KeptOn(R) THEN k[s \ {Max(s)}] ELSE ParentOn(R, k[s \ {Max(s)}])
    BY <1>2, <1>12 DEF Climbs
  <2>2. k[{}] \in V[{}]
    BY <1>6, <2>1
  <2>3. \A s \in SUBSET FEs : s # {} /\ k[s \ {up[s]}] \in V[s \ {up[s]}] => k[s] \in V[s]
    <3> SUFFICES ASSUME NEW s \in SUBSET FEs, s # {}, k[s \ {up[s]}] \in V[s \ {up[s]}] PROVE k[s] \in V[s]
      OBVIOUS
    <3>1. k[s] = StepUp(R)[<<up[s], k[s \ {up[s]}]>>]
      BY <1>10, <2>1
    <3> QED
      BY <1>7, <3>1
  <2> QED
    BY <1>2, <1>3, <2>2, <2>3, FoldStays
<1>14. k[FEs] \in Reached(R, c, FEs)
  BY <1>4, <1>13
<1>15. k[FEs] \in KeptOn(R) /\ fe[k[FEs]].intercept /\ Refines(k[FEs], c, R)
  <2>1. ~(Above(R, k[FEs]) + Cardinality(FEs) <= Above(R, c))
    BY <1>5, <1>14 DEF Reached
  <2> QED
    BY <1>14, <2>1 DEF Reached
<1> QED
  BY <1>2, <1>15 DEF TopOf, k

-----------------------------------------------------------------------------
(* Pruning on the FEs that are left.                                          *)

\* What a canonical plan on the rows R promises.
Canonic(p, R) ==
  /\ p.effective \subseteq FEs
  /\ \A c \in FEs \ p.effective :
       /\ Pure(c) /\ p.spannedBy[c] \in p.effective /\ fe[p.spannedBy[c]].intercept
       /\ Refines(p.spannedBy[c], c, R)
  /\ \A c, f \in p.effective : Pure(c) /\ fe[f].intercept /\ Refines(f, c, R) => Size(f, R) <= Size(c, R)
  /\ p.levels = [j \in p.effective |-> Size(j, R)]

LEMMA CanonicalIsCanonic ==
  ASSUME OfRequest, NEW R \in SUBSET AllRows
  PROVE  Canonic(Canonical(R), R)
<1> DEFINE p == Canonical(R)
<1>1. /\ p.effective = KeptOn(R) /\ p.levels = [j \in KeptOn(R) |-> SizeOn(R)[j]]
      /\ \A c \in FEs \ KeptOn(R) : p.spannedBy[c] = TopOf(R, c)
  BY CanonicalIs
<1>2. KeptOn(R) \subseteq FEs /\ \A j \in FEs : SizeOn(R)[j] = Size(j, R)
  BY DEF KeptOn, SizeOn
<1> HIDE DEF p
<1>3. ASSUME NEW c \in FEs \ p.effective
      PROVE  /\ Pure(c) /\ p.spannedBy[c] \in p.effective /\ fe[p.spannedBy[c]].intercept
             /\ Refines(p.spannedBy[c], c, R)
  <2>1. Pure(c) /\ fe[c].intercept
    BY <1>1, ParentFacts DEF Pure
  <2> QED
    BY <1>1, <2>1, TopFacts
<1>4. ASSUME NEW c \in p.effective, NEW f \in p.effective, Pure(c), fe[f].intercept, Refines(f, c, R)
      PROVE  Size(f, R) <= Size(c, R)
  <2>1. c \in FEs /\ f \in FEs /\ Size(f, R) \in Nat /\ Size(c, R) \in Nat
    BY <1>1, <1>2, SizesAreNumbers
  <2> SUFFICES ASSUME Size(f, R) > Size(c, R) PROVE FALSE
    BY <2>1
  <2>2. f # c
    BY <2>1
  <2>3. <<c, f>> \in Relation(R)
    BY <1>4, <2>1, <2>2, RelationIsRefinement
  <2>4. IsFiner(R, f, c)
    BY <1>2, <2>1 DEF IsFiner
  <2>5. f \in Eligible(R)[c]
    BY <2>1, <2>3, <2>4 DEF Eligible
  <2> QED
    BY <1>1, <2>1, <2>5 DEF KeptOn
<1>5. p.levels = [j \in p.effective |-> Size(j, R)]
  BY <1>1, <1>2
<1> QED
  BY <1>1, <1>2, <1>3, <1>4, <1>5 DEF Canonic, p

\* An FE left out drops no row that the kept one refining it would not drop:
\* alone in a level of the coarser is alone in a level of the finer.
LEMMA SamePruned ==
  ASSUME NEW p, Canonic(p, AllRows)
  PROVE  Pruned(p.effective) = Pruned(FEs)
<1>1. ASSUME NEW S \in SUBSET AllRows, Stable(S, p.effective), NEW i \in S \cap choice.unit,
             NEW c \in FEs, Lone(S, c, i)
      PROVE  ~MayDrop(c, i)
  <2>1. CASE c \in p.effective
    BY <1>1, <2>1 DEF Stable
  <2>2. CASE c \notin p.effective
    <3> DEFINE f == p.spannedBy[c]
    <3>1. f \in p.effective /\ fe[f].intercept /\ Refines(f, c, AllRows)
      BY <2>2 DEF Canonic
    <3>2. Lone(S, f, i)
      <4>1. \A k \in S : Code(f, k) = Code(f, i) => Code(c, k) = Code(c, i)
        BY <3>1 DEF Refines
      <4> QED
        BY <1>1, <4>1 DEF Lone
    <3>3. MayDrop(f, i)
      BY <3>1 DEF MayDrop
    <3> QED
      BY <1>1, <3>1, <3>2, <3>3 DEF Stable
  <2> QED
    BY <2>1, <2>2
<1>2. ASSUME NEW S \in SUBSET AllRows PROVE Stable(S, p.effective) <=> Stable(S, FEs)
  <2>1. p.effective \subseteq FEs
    BY DEF Canonic
  <2>2. Stable(S, p.effective) => Stable(S, FEs)
    BY <1>1 DEF Stable
  <2>3. Stable(S, FEs) => Stable(S, p.effective)
    BY <2>1 DEF Stable
  <2> QED
    BY <2>2, <2>3
<1> QED
  BY <1>2 DEF Pruned

-----------------------------------------------------------------------------
(* The invariant: what the first pass leaves is canonical on all rows, so     *)
(* that pruning on it is pruning on all that was requested.                   *)

AsRequested(p, R) == p.effective = FEs /\ p.levels = [j \in FEs |-> Size(j, R)]
Planned(p, R) == IF choice.canonicalize THEN Canonic(p, R) ELSE AsRequested(p, R)

StructureInv ==
  /\ OfRequest
  /\ stage = "prune" =>
       choice.route = "linear" /\ Planned(plan, AllRows) /\ solved = plan.effective
  /\ stage = "ready" =>
       /\ rows = Pruned(FEs) /\ solved = plan.effective
       /\ choice.canonicalize => Canonic(plan, rows)
       /\ ~choice.canonicalize =>
            /\ solved = FEs
            /\ choice.route = "poisson" \/ rows = AllRows => AsRequested(plan, rows)

\* What the request decides no step changes.
LEMMA RequestStands ==
  ASSUME fe' = fe, choice' = choice
  PROVE  /\ FEs' = FEs
         /\ \A j : Pure(j)' <=> Pure(j)
         /\ \A j, k, R : Refines(j, k, R)' <=> Refines(j, k, R)
         /\ \A j, R : Size(j, R)' = Size(j, R)
         /\ \A J : Pruned(J)' = Pruned(J)
         /\ OfRequest' <=> OfRequest
<1>1. FEs' = FEs
  BY DEF FEs
<1>2. \A j : Pure(j)' <=> Pure(j)
  BY DEF Pure
<1>3. \A j, i : Code(j, i)' = Code(j, i)
  BY DEF Code
<1>4. \A j, k, R : Refines(j, k, R)' <=> Refines(j, k, R)
  BY <1>3 DEF Refines
<1>5. \A j, R : Size(j, R)' = Size(j, R)
  BY <1>3 DEF Size, LevelsIn
<1>6. \A j, i : MayDrop(j, i)' <=> MayDrop(j, i)
  BY DEF MayDrop
<1>7. \A S, j, i : Lone(S, j, i)' <=> Lone(S, j, i)
  BY <1>3 DEF Lone
<1>8. \A S, J : Stable(S, J)' <=> Stable(S, J)
  BY <1>6, <1>7 DEF Stable
<1>9. \A J : Pruned(J)' = Pruned(J)
  BY <1>8 DEF Pruned
<1>10. OfRequest' <=> OfRequest
  BY DEF OfRequest, Encoded, Encode
<1> QED
  BY <1>1, <1>2, <1>4, <1>5, <1>9, <1>10

\* On any rows, the plan of a request is canonical or the plain one.
LEMMA PlansArePlanned ==
  ASSUME OfRequest, NEW R \in SUBSET AllRows
  PROVE  Canonic(Canonical(R), R) /\ AsRequested(Identity(R), R)
<1>1. AsRequested(Identity(R), R)
  BY DEF AsRequested, Identity
<1> QED
  BY <1>1, CanonicalIsCanonic

\* A single FE needs no canonicalization.
LEMMA OneIsCanonic ==
  ASSUME OfRequest, NEW R \in SUBSET AllRows, ~(Len(fe) >= 2)
  PROVE  Canonic(Identity(R), R)
<1>1. PICK n \in Nat : FEs = 1..n
  BY FEsAreListed
<1>2. \A j, k \in FEs : j = k
  <2>1. PICK q \in Inputs : Encoded(q)
    BY DEF OfRequest
  <2> DEFINE V == {fe[j] : j \in FEs}
  <2>2. fe \in [1..n -> V]
    BY <1>1, <2>1 DEF Encoded, FEs
  <2>3. fe \in Seq(V)
    <3> HIDE DEF V
    <3> QED
      BY <2>2
  <2>4. Len(fe) = n
    BY <1>1, <2>3 DEF FEs
  <2> QED
    BY <1>1, <2>4
<1>3. \A j \in FEs : Size(j, R) \in Nat
  BY SizesAreNumbers
<1> QED
  BY <1>2, <1>3 DEF Canonic, Identity

\* The rows that stay are rows.
LEMMA PrunedIn == ASSUME NEW J PROVE Pruned(J) \in SUBSET AllRows
BY DEF Pruned

\* What the request decides no step changes.
LEMMA PlanStands ==
  ASSUME fe' = fe, choice' = choice
  PROVE  /\ \A p, R : Canonic(p, R)' <=> Canonic(p, R)
         /\ \A p, R : AsRequested(p, R)' <=> AsRequested(p, R)
  BY RequestStands DEF Canonic, AsRequested

-----------------------------------------------------------------------------
(* Every step keeps it.                                                       *)

LEMMA FirstPassKeeps == StructureInv /\ FirstPass => StructureInv'
<1> SUFFICES ASSUME StructureInv, FirstPass PROVE StructureInv'
  OBVIOUS
<1>1. /\ OfRequest /\ choice.route = "linear" /\ fe' = fe /\ choice' = choice /\ stage' = "prune"
      /\ plan' = (IF choice.canonicalize THEN Canonical(AllRows) ELSE Identity(AllRows))
      /\ solved' = plan'.effective
  BY DEF StructureInv, FirstPass, Asked
<1>2. Planned(plan', AllRows)
  BY <1>1, PlansArePlanned DEF Planned
<1>3. Planned(plan, AllRows)'
  <2>1. AllRows' = AllRows
    BY DEF AllRows
  <2> QED
    BY <1>1, <1>2, <2>1, PlanStands DEF Planned
<1>4. OfRequest'
  BY <1>1, RequestStands
<1> QED
  BY <1>1, <1>3, <1>4 DEF StructureInv

\* What is pruned on the first plan is pruned on all FEs.
LEMMA PruneKeeps == StructureInv /\ Prune => StructureInv'
<1> SUFFICES ASSUME StructureInv, Prune PROVE StructureInv'
  OBVIOUS
<1>1. /\ OfRequest /\ choice.route = "linear" /\ Planned(plan, AllRows) /\ solved = plan.effective
      /\ fe' = fe /\ choice' = choice /\ stage' = "ready"
      /\ rows' = Pruned(solved) /\ solved' = plan'.effective
      /\ plan' = (IF choice.canonicalize /\ rows' # AllRows THEN Canonical(rows') ELSE plan)
  BY DEF StructureInv, Prune, Asked
<1>2. rows' = Pruned(FEs) /\ rows' \in SUBSET AllRows
  BY <1>1, SamePruned, PrunedIn DEF Planned, AsRequested
<1>3. choice.canonicalize => Canonic(plan', rows')
  BY <1>1, <1>2, PlansArePlanned DEF Planned
<1>4. ~choice.canonicalize => solved' = FEs /\ (rows' = AllRows => AsRequested(plan', rows'))
  BY <1>1 DEF Planned, AsRequested
<1>5. rows' = Pruned(FEs)' /\ OfRequest'
  BY <1>1, <1>2, RequestStands
<1>6. choice.canonicalize => Canonic(plan, rows)'
  BY <1>1, <1>3, PlanStands
<1>7. ~choice.canonicalize => (solved = FEs)' /\ (rows = AllRows => AsRequested(plan, rows))'
  <2>1. AllRows' = AllRows
    BY DEF AllRows
  <2> QED
    BY <1>1, <1>4, <2>1, PlanStands, RequestStands
<1> QED
  BY <1>1, <1>5, <1>6, <1>7 DEF StructureInv

LEMMA PoissonPlanKeeps == StructureInv /\ PoissonPlan => StructureInv'
<1> SUFFICES ASSUME StructureInv, PoissonPlan PROVE StructureInv'
  OBVIOUS
<1>1. /\ OfRequest /\ fe' = fe /\ choice' = choice /\ stage' = "ready"
      /\ rows' = Pruned(FEs) /\ solved' = plan'.effective
      /\ plan' = (IF choice.canonicalize /\ Len(fe) >= 2 THEN Canonical(rows') ELSE Identity(rows'))
  BY DEF StructureInv, PoissonPlan, Asked
<1>2. rows' \in SUBSET AllRows
  BY <1>1, PrunedIn
<1>3. choice.canonicalize => Canonic(plan', rows')
  BY <1>1, <1>2, PlansArePlanned, OneIsCanonic
<1>4. ~choice.canonicalize => solved' = FEs /\ AsRequested(plan', rows')
  BY <1>1, <1>2, PlansArePlanned DEF AsRequested
<1>5. rows' = Pruned(FEs)' /\ OfRequest'
  BY <1>1, <1>2, RequestStands
<1>6. choice.canonicalize => Canonic(plan, rows)'
  BY <1>1, <1>3, PlanStands
<1>7. ~choice.canonicalize => (solved = FEs)' /\ AsRequested(plan, rows)'
  BY <1>1, <1>4, PlanStands, RequestStands
<1> QED
  BY <1>1, <1>5, <1>6, <1>7 DEF StructureInv

\* Counting changes nothing that was prepared.
LEMMA RestKeeps == StructureInv /\ (CountDof \/ UNCHANGED feVars) => StructureInv'
<1> SUFFICES ASSUME StructureInv, CountDof \/ UNCHANGED feVars PROVE StructureInv'
  OBVIOUS
<1>1. /\ fe' = fe /\ choice' = choice /\ solved' = solved /\ rows' = rows /\ plan' = plan
      /\ stage' = "counted" \/ stage' = stage
  BY DEF CountDof, feVars
<1>2. AllRows' = AllRows
  BY DEF AllRows
<1>3. OfRequest'
  BY <1>1, RequestStands DEF StructureInv
<1>4. CASE stage' = "counted"
  BY <1>3, <1>4 DEF StructureInv
<1>5. CASE stage' = stage
  <2>1. Canonic(plan, rows)' <=> Canonic(plan, rows)
    BY <1>1, PlanStands
  <2>2. AsRequested(plan, rows)' <=> AsRequested(plan, rows)
    BY <1>1, PlanStands
  <2>3. Planned(plan, AllRows)' <=> Planned(plan, AllRows)
    BY <1>1, <1>2, PlanStands DEF Planned
  <2>4. FEs' = FEs /\ Pruned(FEs)' = Pruned(FEs)
    BY <1>1, RequestStands
  <2> QED
    BY <1>1, <1>2, <1>3, <1>5, <2>1, <2>2, <2>3, <2>4 DEF StructureInv
<1> QED
  BY <1>1, <1>4, <1>5

\* For any columns, terms, rows and options: what the steps rest on.
THEOREM StructureInductive == FESpec => []StructureInv
<1>1. FEInit => StructureInv
  <2> SUFFICES ASSUME FEInit PROVE StructureInv
    OBVIOUS
  <2>1. PICK q \in Inputs : fe = [j \in DOMAIN q.terms |-> Encode(q.table, q.terms[j])]
    BY DEF FEInit
  <2>2. stage = "encoded"
    BY DEF FEInit
  <2> QED
    BY <2>1, <2>2 DEF StructureInv, OfRequest, Encoded
<1>2. StructureInv /\ [FENext]_feVars => StructureInv'
  BY FirstPassKeeps, PruneKeeps, PoissonPlanKeeps, RestKeeps DEF FENext
<1> QED
  BY <1>1, <1>2, PTL DEF FESpec

\* For any columns, terms, rows and options: rows that are dropped on the FEs
\* left are the rows all requested FEs would drop, and every FE left out is
\* refined, on the rows that stay, by one that is kept (StructureIsWhole).
THEOREM RequestIsSolved == FESpec => []StructureIsWhole
<1>1. StructureInv => StructureIsWhole
  <2> SUFFICES ASSUME StructureInv, stage = "ready"
               PROVE  /\ rows = Pruned(FEs)
                      /\ solved = plan.effective
                      /\ \A c \in FEs \ solved : plan.spannedBy[c] \in solved /\ Refines(plan.spannedBy[c], c, rows)
                      /\ choice.canonicalize =>
                           \A c, f \in solved : Pure(c) /\ fe[f].intercept /\ Refines(f, c, rows) =>
                                                  Size(f, rows) <= Size(c, rows)
                      /\ choice.canonicalize \/ choice.route = "poisson" \/ rows = AllRows =>
                           plan.levels = [j \in solved |-> Size(j, rows)]
    BY DEF StructureIsWhole
  <2>1. CASE choice.canonicalize
    BY <2>1 DEF StructureInv, Canonic
  <2>2. CASE ~choice.canonicalize
    BY <2>2 DEF StructureInv, AsRequested
  <2> QED
    BY <2>1, <2>2
<1> QED
  BY <1>1, StructureInductive, PTL

=============================================================================
