----------------------- MODULE ExecutionGatewayProofs -----------------------
(***************************************************************************)
(* Theorems about ExecutionGateway and its circuit breaker, for any set of *)
(* requests, any thresholds, estimates and costs.                          *)
(***************************************************************************)
EXTENDS ExecutionGateway, WellFoundedInduction, FiniteSetTheorems, TLAPS

(***************************************************************************)
(* The breaker alone: what each of its operations does to a breaker whose  *)
(* counter and state agree.                                                *)
(***************************************************************************)
Agree(b) ==
  /\ b \in Breaker
  /\ b.state = "healthy" => b.failures < DegradedAt
  /\ b.state = "degraded" => b.failures \in DegradedAt..(OpenAt - 1)

AlongAnEdge(b, c) == c.state = b.state \/ <<b.state, c.state>> \in Edges

LEMMA NewAgrees == Agree(NewBreaker)
  BY BreakerAssumption DEF Agree, NewBreaker, Breaker

LEMMA ObservedAgrees ==
  ASSUME NEW b, Agree(b)
  PROVE  Agree(Observed(b)) /\ AlongAnEdge(b, Observed(b))
  BY DEF Agree, AlongAnEdge, Observed, Breaker, Edges

LEMMA SucceededAgrees ==
  ASSUME NEW b, Agree(b)
  PROVE  Agree(Succeeded(b)) /\ AlongAnEdge(b, Succeeded(b))
<1> DEFINE c == [b EXCEPT !.failures = 0]
<1>1. /\ c \in Breaker
      /\ c.state = b.state
      /\ c.failures = 0
  BY DEF Agree, Breaker
<1>2. CASE b.state = "degraded"
  <2>1. Succeeded(b) = [c EXCEPT !.state = "healthy"]
    BY <1>1, <1>2 DEF Succeeded
  <2>2. /\ Succeeded(b) \in Breaker
        /\ Succeeded(b).state = "healthy"
        /\ Succeeded(b).failures = 0
    BY <1>1, <2>1 DEF Breaker
  <2>3. QED
    BY <1>2, <2>2, BreakerAssumption DEF Agree, AlongAnEdge, Edges
<1>3. CASE b.state = "recovery"
  <2> DEFINE next == IF c.probes + 1 >= RequiredProbes
                       THEN "healthy" ELSE "recovery"
  <2>1. Succeeded(b) = [c EXCEPT !.probes = @ + 1, !.state = next]
    BY <1>1, <1>3 DEF Succeeded
  <2>2. next \in {"healthy", "recovery"}
    OBVIOUS
  <2> HIDE DEF next
  <2>3. c.probes + 1 \in Nat
    BY <1>1 DEF Breaker
  <2> HIDE DEF c
  <2>4. /\ Succeeded(b) \in Breaker
        /\ Succeeded(b).state = next
        /\ Succeeded(b).failures = 0
    BY <1>1, <2>1, <2>2, <2>3 DEF Breaker
  <2>5. QED
    BY <1>3, <2>2, <2>4, BreakerAssumption DEF Agree, AlongAnEdge, Edges
<1>4. CASE b.state \in {"healthy", "open"}
  <2>1. Succeeded(b) = c
    BY <1>1, <1>4 DEF Succeeded
  <2>2. QED
    BY <1>1, <1>4, <2>1, BreakerAssumption DEF Agree, AlongAnEdge
<1>5. QED
  BY <1>2, <1>3, <1>4 DEF Agree, Breaker

(* A failure would open a healthy circuit only if its counter were one      *)
(* short of OpenAt, which Agree excludes.                                   *)
LEMMA FailedAgrees ==
  ASSUME NEW b, Agree(b)
  PROVE  Agree(Failed(b)) /\ AlongAnEdge(b, Failed(b))
<1> DEFINE c == [b EXCEPT !.failures = @ + 1]
<1>1. /\ c \in Breaker
      /\ c.state = b.state
      /\ c.failures = b.failures + 1
  BY DEF Agree, Breaker
<1>2. /\ Opened(c) \in Breaker
      /\ Opened(c).state = "open"
  BY <1>1 DEF Opened, Breaker
<1>3. CASE Failed(b) = Opened(c) /\ b.state # "healthy"
  <2>1. b.state \in {"degraded", "open", "recovery"}
    BY <1>3 DEF Agree, Breaker
  <2>2. QED
    BY <1>2, <1>3, <2>1 DEF Agree, AlongAnEdge, Edges
<1>4. CASE /\ Failed(b) = [c EXCEPT !.state = "degraded"]
           /\ b.state \in {"healthy", "degraded"}
           /\ c.failures \in DegradedAt..(OpenAt - 1)
  <2>1. /\ Failed(b) \in Breaker
        /\ Failed(b).state = "degraded"
        /\ Failed(b).failures = c.failures
    BY <1>1, <1>4 DEF Breaker
  <2>2. QED
    BY <1>4, <2>1 DEF Agree, AlongAnEdge, Edges
<1>5. CASE /\ Failed(b) = c
           /\ b.state \in {"healthy", "degraded"}
           /\ c.failures < DegradedAt
  BY <1>1, <1>5, BreakerAssumption DEF Agree, AlongAnEdge, Breaker
<1>6. CASE b.state \in {"open", "recovery"}
  <2>1. Failed(b) = Opened(c)
    BY <1>1, <1>6 DEF Failed, Opened
  <2>2. QED
    BY <1>3, <1>6, <2>1
<1>7. CASE b.state = "healthy"
  <2>1. c.failures < OpenAt
    BY <1>1, <1>7, BreakerAssumption DEF Agree, Breaker
  <2>2. QED
    BY <1>1, <1>4, <1>5, <1>7, <2>1, BreakerAssumption DEF Failed, Breaker
<1>8. CASE b.state = "degraded"
  <2>1. c.failures \in DegradedAt..OpenAt
    BY <1>1, <1>8, BreakerAssumption DEF Agree, Breaker
  <2>2. CASE c.failures = OpenAt
    <3>1. Failed(b) = Opened(c)
      BY <1>1, <1>8, <2>2, BreakerAssumption DEF Failed, Opened
    <3>2. QED
      BY <1>3, <1>8, <3>1
  <2>3. CASE c.failures \in DegradedAt..(OpenAt - 1)
    <3>1. Failed(b) = [c EXCEPT !.state = "degraded"]
      BY <1>1, <1>8, <2>3, BreakerAssumption DEF Failed
    <3>2. QED
      BY <1>4, <1>8, <2>3, <3>1
  <2>4. QED
    BY <2>1, <2>2, <2>3, BreakerAssumption
<1>9. QED
  BY <1>6, <1>7, <1>8 DEF Agree, Breaker

LEMMA CooledAgrees ==
  ASSUME NEW b, Agree(b)
  PROVE  /\ Agree([b EXCEPT !.cooled = TRUE])
         /\ AlongAnEdge(b, [b EXCEPT !.cooled = TRUE])
  BY DEF Agree, AlongAnEdge, Breaker

BreakerInv == Agree(breaker)

(* Every step of the gateway leaves the breaker alone or applies one of its *)
(* operations.                                                              *)
LEMMA BreakerStep ==
  ASSUME BreakerInv, [Next]_vars
  PROVE  BreakerInv' /\ AlongAnEdge(breaker, breaker')
<1>1. \/ breaker' = breaker
      \/ breaker' = Observed(breaker)
      \/ breaker' = Succeeded(breaker)
      \/ breaker' = Failed(breaker)
      \/ breaker' = [breaker EXCEPT !.cooled = TRUE]
  BY DEF Next, Execute, Receive, Admit, Reserve, RefuseReservation, Meter,
         RecordSuccess, Release, RecordFailure, HangUp, Observe, CoolDown, vars
<1>2. CASE breaker' = breaker
  BY <1>2 DEF AlongAnEdge, BreakerInv
<1>3. QED
  BY <1>1, <1>2, ObservedAgrees, SucceededAgrees, FailedAgrees, CooledAgrees
     DEF BreakerInv

(* The counter agrees with the state.                                       *)
THEOREM FailuresMatch == Spec => []FailuresMatchState
<1>1. Init => BreakerInv
  BY NewAgrees DEF Init, BreakerInv
<1>2. BreakerInv /\ [Next]_vars => BreakerInv'
  BY BreakerStep
<1>3. BreakerInv => FailuresMatchState
  BY DEF BreakerInv, Agree, FailuresMatchState
<1>4. QED
  BY <1>1, <1>2, <1>3, PTL DEF Spec

(* The breaker never leaves its diagram.                                    *)
THEOREM BreakerFollowsTheDiagram == Spec => FollowsTheDiagram
<1>1. Init => BreakerInv
  BY NewAgrees DEF Init, BreakerInv
<1>2. BreakerInv /\ [Next]_vars => BreakerInv'
  BY BreakerStep
<1>3. BreakerInv /\ [Next]_vars =>
        [breaker'.state = breaker.state
           \/ <<breaker.state, breaker'.state>> \in Edges]_vars
  BY BreakerStep DEF AlongAnEdge
<1>4. QED
  BY <1>1, <1>2, <1>3, PTL DEF Spec, FollowsTheDiagram

(***************************************************************************)
(* The budget.                                                             *)
(***************************************************************************)
LEMMA ChargedIsNat ==
  ASSUME TypeOK, NEW r \in Request, NEW report \in Reports
  PROVE  Charged(r, report) \in Nat
  BY GatewayAssumption DEF Charged, TypeOK

LEMMA BudgetStep ==
  ASSUME TypeOK, BreakerInv, ReservationsAreSettled, [Next]_vars
  PROVE  TypeOK' /\ ReservationsAreSettled'
<1> USE DEF TypeOK, ReservationsAreSettled, Goto, Phases
<1>b. breaker' \in Breaker
  BY BreakerStep DEF BreakerInv, Agree
<1>1. ASSUME NEW r \in Request, Receive(r)
      PROVE  TypeOK' /\ ReservationsAreSettled'
  BY <1>1 DEF Receive
<1>2. ASSUME NEW r \in Request, Admit(r)
      PROVE  TypeOK' /\ ReservationsAreSettled'
  BY <1>2, <1>b DEF Admit
<1>3. ASSUME NEW r \in Request, Reserve(r)
      PROVE  TypeOK' /\ ReservationsAreSettled'
  BY <1>3 DEF Reserve
<1>4. ASSUME NEW r \in Request, RefuseReservation(r)
      PROVE  TypeOK' /\ ReservationsAreSettled'
  BY <1>4 DEF RefuseReservation
<1>5. ASSUME NEW r \in Request, NEW report \in Reports, Meter(r, report)
      PROVE  TypeOK' /\ ReservationsAreSettled'
  BY <1>5, ChargedIsNat DEF Meter
<1>6. ASSUME NEW r \in Request, RecordSuccess(r)
      PROVE  TypeOK' /\ ReservationsAreSettled'
  BY <1>6, <1>b DEF RecordSuccess
<1>7. ASSUME NEW r \in Request, Release(r)
      PROVE  TypeOK' /\ ReservationsAreSettled'
  BY <1>7 DEF Release, ReservedAfterFailure
<1>8. ASSUME NEW r \in Request, RecordFailure(r)
      PROVE  TypeOK' /\ ReservationsAreSettled'
  BY <1>8, <1>b DEF RecordFailure
<1>9. ASSUME NEW r \in Request, HangUp(r)
      PROVE  TypeOK' /\ ReservationsAreSettled'
  BY <1>9 DEF HangUp
<1>10. CASE Observe \/ CoolDown \/ UNCHANGED vars
  BY <1>10, <1>b DEF Observe, CoolDown, vars
<1>11. QED
  BY <1>1, <1>2, <1>3, <1>4, <1>5, <1>6, <1>7, <1>8, <1>9, <1>10
     DEF Next, Execute

LEMMA BudgetInvariance ==
  Spec => [](TypeOK /\ BreakerInv /\ ReservationsAreSettled)
<1>1. Init => TypeOK /\ BreakerInv /\ ReservationsAreSettled
  <2> SUFFICES ASSUME Init PROVE TypeOK /\ BreakerInv /\ ReservationsAreSettled
    OBVIOUS
  <2>1. BreakerInv
    BY NewAgrees DEF Init, BreakerInv
  <2>2. TypeOK
    BY <2>1, GatewayAssumption DEF Init, TypeOK, Phases, BreakerInv, Agree
  <2>3. \A r \in Request : pc[r] = "new"
    BY DEF Init
  <2>4. ReservationsAreSettled
    BY <2>3 DEF Init, ReservationsAreSettled
  <2>5. QED
    BY <2>1, <2>2, <2>4
<1>2. TypeOK /\ BreakerInv /\ ReservationsAreSettled /\ [Next]_vars =>
        (TypeOK /\ BreakerInv /\ ReservationsAreSettled)'
  BY BreakerStep, BudgetStep
<1>3. QED
  BY <1>1, <1>2, PTL DEF Spec

(* Every variable keeps its type.                                           *)
THEOREM GatewayTypeCorrect == Spec => []TypeOK
  BY BudgetInvariance, PTL

(* A reservation is given back on every way out of execute but a hang-up.   *)
THEOREM ReservationsSettle == Spec => []ReservationsAreSettled
  BY BudgetInvariance, PTL

(***************************************************************************)
(* Sums over finite sets.                                                  *)
(***************************************************************************)
(* Every non-empty set of naturals has a least element: what an induction   *)
(* over sizes below is made of.                                             *)
LEMMA Least ==
  ASSUME NEW S \in SUBSET Nat, S # {}
  PROVE  \E n \in S : \A m \in S : n <= m
<1> DEFINE R == OpToRel(<, Nat)
<1>1. IsWellFoundedOn(R, Nat)
  BY NatLessThanWellFounded
<1>2. \A m, n \in Nat : <<m, n>> \in R <=> m < n
  BY DEF OpToRel
<1> HIDE DEF R
<1>3. PICK n \in S : \A m \in S : ~ (<<m, n>> \in R)
  BY <1>1, WFMin
<1>4. \A m \in S : m \in Nat /\ n \in Nat /\ ~ (m < n)
  <2> SUFFICES ASSUME NEW m \in S PROVE m \in Nat /\ n \in Nat /\ ~ (m < n)
    OBVIOUS
  <2>1. m \in Nat /\ n \in Nat
    OBVIOUS
  <2>2. ~ (<<m, n>> \in R)
    BY <1>3
  <2>3. <<m, n>> \in R <=> m < n
    BY <1>2, <2>1
  <2>4. QED
    BY <2>1, <2>2, <2>3
<1>5. QED
  BY <1>4

(* Total as the recursive function that the fold is: of a set, the term of  *)
(* some element and the sum of the others.                                  *)
pick(s) == CHOOSE x \in s : TRUE
IsSum(f, S, g) == g = [s \in SUBSET S |-> IF s = {} THEN 0 ELSE f[pick(s)] + g[s \ {pick(s)}]]

LEMMA TotalIs ==
  ASSUME NEW f, NEW S
  PROVE  Total(f, S) = (CHOOSE g : IsSum(f, S, g))[S]
  BY DEF Total, MapThenSumSet, MapThenFoldSet, IsSum, pick

(* The sums of all subsets of S, whatever element is taken away.            *)
Additive(f, S, g) ==
  /\ g \in [SUBSET S -> Int] /\ g[{}] = 0
  /\ \A s \in SUBSET S : \A x \in s : g[s] = f[x] + g[s \ {x}]

(* They exist for a finite S: a smallest set without them has an element,   *)
(* and those of the set without it can be extended.                         *)
LEMMA AdditiveExists ==
  ASSUME NEW T, NEW f \in [T -> Int], NEW S \in SUBSET T, IsFiniteSet(S)
  PROVE  \E g : Additive(f, S, g)
<1> SUFFICES ASSUME ~ \E g : Additive(f, S, g)
             PROVE  FALSE
  OBVIOUS
<1> DEFINE Bad(R)  == R \in SUBSET T /\ IsFiniteSet(R) /\ ~ \E g : Additive(f, R, g)
           Sizes   == {n \in Nat : \E R \in SUBSET T : Bad(R) /\ Cardinality(R) = n}
<1>1. Cardinality(S) \in Sizes
  BY FS_CardinalityType
<1>2. PICK n \in Sizes : \A m \in Sizes : n <= m
  BY <1>1, Least
<1>3. PICK R \in SUBSET T : Bad(R) /\ Cardinality(R) = n
  OBVIOUS
<1>4. CASE R = {}
  <2>1. Additive(f, R, [s \in SUBSET R |-> 0])
    BY <1>4 DEF Additive
  <2>2. QED
    BY <1>3, <2>1
<1>5. CASE R # {}
  <2>1. PICK y : y \in R
    BY <1>5
  <2>2. IsFiniteSet(R \ {y}) /\ Cardinality(R \ {y}) = n - 1
    BY <1>3, <2>1, FS_RemoveElement
  <2>3. n - 1 \in Nat /\ ~ (n - 1 \in Sizes)
    BY <1>2, <2>2, FS_CardinalityType
  <2>4. ~ Bad(R \ {y})
    BY <2>2, <2>3
  <2>5. PICK h : Additive(f, R \ {y}, h)
    BY <2>2, <2>4
  <2> DEFINE g == [s \in SUBSET R |-> IF y \in s THEN f[y] + h[s \ {y}] ELSE h[s]]
  <2>6. /\ h \in [SUBSET (R \ {y}) -> Int] /\ h[{}] = 0 /\ f[y] \in Int
        /\ \A s \in SUBSET (R \ {y}) : \A x \in s : h[s] = f[x] + h[s \ {x}]
    BY <2>1, <2>5 DEF Additive
  <2>7. \A s \in SUBSET R : s \ {y} \in SUBSET (R \ {y}) /\ (y \notin s => s \ {y} = s)
    OBVIOUS
  <2>8. g \in [SUBSET R -> Int] /\ g[{}] = 0
    BY <2>6, <2>7
  <2>9. ASSUME NEW s \in SUBSET R, NEW x \in s
        PROVE  g[s] = f[x] + g[s \ {x}]
    <3>1. s \ {x} \in SUBSET R /\ f[x] \in Int
      BY <2>9
    <3>2. CASE x = y
      <4>1. g[s] = f[y] + h[s \ {y}] /\ g[s \ {y}] = h[s \ {y}]
        BY <2>9, <3>1, <3>2
      <4>2. QED
        BY <3>2, <4>1
    <3>3. CASE x # y /\ y \in s
      <4> DEFINE r == s \ {y}
      <4>1. g[s] = f[y] + h[r] /\ g[s \ {x}] = f[y] + h[(s \ {x}) \ {y}]
        BY <2>9, <3>1, <3>3
      <4>2. r \in SUBSET (R \ {y}) /\ x \in r /\ r \ {x} = (s \ {x}) \ {y}
        BY <3>3
      <4>3. h[r] = f[x] + h[r \ {x}] /\ h[r \ {x}] \in Int
        BY <2>6, <4>2
      <4>4. g[s \ {x}] = f[y] + h[r \ {x}]
        BY <4>1, <4>2
      <4> HIDE DEF g, r
      <4>5. QED
        BY <2>6, <3>1, <4>1, <4>3, <4>4
    <3>4. CASE y \notin s
      <4>1. g[s] = h[s] /\ g[s \ {x}] = h[s \ {x}] /\ s \in SUBSET (R \ {y})
        BY <2>9, <3>1, <3>4
      <4>2. QED
        BY <2>6, <4>1
    <3>5. QED
      BY <3>2, <3>3, <3>4
  <2>10. Additive(f, R, g)
    <3> HIDE DEF g
    <3> QED
      BY <2>8, <2>9 DEF Additive
  <2>11. QED
    BY <1>3, <2>10
<1>6. QED
  BY <1>4, <1>5

(* The recursive function has no other value: look at a smallest set where  *)
(* it differs.                                                              *)
LEMMA SumIsAdditive ==
  ASSUME NEW T, NEW f \in [T -> Int], NEW S \in SUBSET T, IsFiniteSet(S),
         NEW g, Additive(f, S, g), NEW h, IsSum(f, S, h)
  PROVE  h[S] = g[S]
<1> SUFFICES ASSUME h[S] # g[S]
             PROVE  FALSE
  OBVIOUS
<1> DEFINE Sizes == {n \in Nat : \E s \in SUBSET S : h[s] # g[s] /\ Cardinality(s) = n}
<1>1. Cardinality(S) \in Sizes
  BY FS_CardinalityType
<1>2. PICK n \in Sizes : \A m \in Sizes : n <= m
  BY <1>1, Least
<1>3. PICK s \in SUBSET S : h[s] # g[s] /\ Cardinality(s) = n
  OBVIOUS
<1>4. h[s] = IF s = {} THEN 0 ELSE f[pick(s)] + h[s \ {pick(s)}]
  BY DEF IsSum
<1>5. CASE s = {}
  BY <1>3, <1>4, <1>5 DEF Additive
<1>6. CASE s # {}
  <2> DEFINE x == pick(s)
  <2>1. x \in s
    BY <1>6 DEF pick
  <2> HIDE DEF x
  <2>2. IsFiniteSet(s) /\ IsFiniteSet(s \ {x}) /\ Cardinality(s \ {x}) = n - 1 /\ s \ {x} \in SUBSET S
    BY <1>3, <2>1, FS_Subset, FS_RemoveElement
  <2>3. n - 1 \in Nat /\ ~ (n - 1 \in Sizes)
    BY <1>2, <2>2, FS_CardinalityType
  <2>4. h[s \ {x}] = g[s \ {x}]
    BY <2>2, <2>3
  <2>5. g[s] = f[x] + g[s \ {x}]
    BY <2>1 DEF Additive
  <2>6. h[s] = f[x] + h[s \ {x}]
    BY <1>4, <1>6 DEF x
  <2>7. QED
    BY <1>3, <2>4, <2>5, <2>6
<1>7. QED
  BY <1>5, <1>6

LEMMA AdditiveIsSum ==
  ASSUME NEW f, NEW S, NEW g, Additive(f, S, g)
  PROVE  IsSum(f, S, g)
<1>1. \A s \in SUBSET S : s # {} => pick(s) \in s
  BY DEF pick
<1>2. \A s \in SUBSET S : g[s] = IF s = {} THEN 0 ELSE f[pick(s)] + g[s \ {pick(s)}]
  BY <1>1 DEF Additive
<1>3. g = [s \in SUBSET S |-> g[s]]
  BY DEF Additive
<1>4. QED
  BY <1>2, <1>3 DEF IsSum

LEMMA TotalIsAdditive ==
  ASSUME NEW T, NEW f \in [T -> Int], NEW S \in SUBSET T, IsFiniteSet(S),
         NEW g, Additive(f, S, g)
  PROVE  \A s \in SUBSET S : Total(f, s) = g[s]
<1> SUFFICES ASSUME NEW s \in SUBSET S PROVE Total(f, s) = g[s]
  OBVIOUS
<1> DEFINE k == [u \in SUBSET s |-> g[u]]
<1>1. Additive(f, s, k)
  <2>1. k \in [SUBSET s -> Int] /\ k[{}] = 0 /\ \A u \in SUBSET s : k[u] = g[u]
    BY DEF Additive
  <2> HIDE DEF k
  <2>2. ASSUME NEW u \in SUBSET s, NEW x \in u
        PROVE  k[u] = f[x] + k[u \ {x}]
    <3>1. u \ {x} \in SUBSET s /\ u \in SUBSET S
      OBVIOUS
    <3>2. QED
      BY <2>1, <3>1 DEF Additive
  <2>3. QED
    BY <2>1, <2>2 DEF Additive
<1>2. IsSum(f, s, k)
  BY <1>1, AdditiveIsSum
<1>3. k[s] = g[s]
  OBVIOUS
<1> HIDE DEF k
<1>4. IsFiniteSet(s)
  BY FS_Subset
<1>5. IsSum(f, s, CHOOSE h : IsSum(f, s, h))
  BY <1>2
<1>6. QED
  BY <1>1, <1>3, <1>4, <1>5, TotalIs, SumIsAdditive

(* What the proofs about the budget use: a sum of integers over a finite    *)
(* set is an integer, any term can be split off, other terms do not count,  *)
(* and terms that are not negative do not add up to less than zero.         *)
LEMMA TotalFacts ==
  ASSUME NEW T, NEW f \in [T -> Int], NEW S \in SUBSET T, IsFiniteSet(S)
  PROVE  /\ Total(f, {}) = 0 /\ Total(f, S) \in Int
         /\ \A x \in S : Total(f, S) = f[x] + Total(f, S \ {x})
<1>1. PICK g : Additive(f, S, g)
  BY AdditiveExists
<1>2. \A s \in SUBSET S : Total(f, s) = g[s]
  BY <1>1, TotalIsAdditive
<1>3. QED
  BY <1>1, <1>2 DEF Additive

LEMMA TotalDependsOnItsTerms ==
  ASSUME NEW T, NEW f \in [T -> Int], NEW h \in [T -> Int], NEW S \in SUBSET T, IsFiniteSet(S),
         \A x \in S : f[x] = h[x]
  PROVE  Total(f, S) = Total(h, S)
<1>1. PICK g : Additive(f, S, g)
  BY AdditiveExists
<1>2. Additive(h, S, g)
  BY <1>1 DEF Additive
<1>3. QED
  BY <1>1, <1>2, TotalIsAdditive

LEMMA TotalIsNat ==
  ASSUME NEW T, NEW f \in [T -> Int], NEW S \in SUBSET T, IsFiniteSet(S),
         \A x \in S : f[x] \in Nat
  PROVE  Total(f, S) \in Nat
<1> SUFFICES ASSUME Total(f, S) \notin Nat
             PROVE  FALSE
  OBVIOUS
<1> DEFINE Sizes == {n \in Nat : \E s \in SUBSET S : Total(f, s) \notin Nat /\ Cardinality(s) = n}
<1>1. Cardinality(S) \in Sizes
  BY FS_CardinalityType
<1>2. PICK n \in Sizes : \A m \in Sizes : n <= m
  BY <1>1, Least
<1>3. PICK s \in SUBSET S : Total(f, s) \notin Nat /\ Cardinality(s) = n
  OBVIOUS
<1>4. IsFiniteSet(s) /\ s \in SUBSET T
  BY FS_Subset
<1>0. Total(f, {}) = 0
  BY TotalFacts
<1>5. PICK x : x \in s
  <2>1. s # {}
    BY <1>0, <1>3
  <2>2. QED
    BY <2>1
<1>6. IsFiniteSet(s \ {x}) /\ Cardinality(s \ {x}) = n - 1 /\ s \ {x} \in SUBSET S
  BY <1>3, <1>4, <1>5, FS_RemoveElement
<1>7. n - 1 \in Nat /\ ~ (n - 1 \in Sizes)
  BY <1>2, <1>6, FS_CardinalityType
<1>8. Total(f, s \ {x}) \in Nat
  BY <1>6, <1>7
<1>9. Total(f, s) = f[x] + Total(f, s \ {x}) /\ f[x] \in Nat
  BY <1>4, <1>5, TotalFacts
<1>10. QED
  BY <1>3, <1>8, <1>9

(***************************************************************************)
(* The limit.                                                              *)
(***************************************************************************)

(* Only a metered request was charged, so it is charged once; the sums are  *)
(* over finite sets because each step reserves or meters one request.       *)
LimitInv ==
  /\ TypeOK /\ BreakerInv /\ ReservationsAreSettled
  /\ IsFiniteSet(reserved) /\ IsFiniteSet({r \in Request : charge[r] > estimate[r]})
  /\ \A r \in Request : charge[r] # 0 => pc[r] \in {"metered", "succeeded"}
  /\ OverrunIsAllThatExceeds

Over == {r \in Request : charge[r] > estimate[r]}

LEMMA OverrunIsNat ==
  ASSUME LimitInv
  PROVE  Overrun \in Nat /\ Excess \in [Request -> Int]
<1>1. Excess \in [Request -> Int]
  BY DEF Excess, LimitInv, TypeOK
<1>2. \A r \in Over : Excess[r] \in Nat
  BY DEF Excess, LimitInv, TypeOK, Over
<1>3. IsFiniteSet(Over) /\ Over \in SUBSET Request
  BY DEF LimitInv, Over
<1>4. Total(Excess, Over) \in Nat
  BY <1>1, <1>2, <1>3, TotalIsNat
<1>5. QED
  BY <1>1, <1>4 DEF Overrun, Over

LEMMA EstimatesAreNat ==
  ASSUME LimitInv
  PROVE  estimate \in [Request -> Int] /\ Estimated(reserved) \in Nat
<1>1. estimate \in [Request -> Int] /\ \A r \in Request : estimate[r] \in Nat
  BY DEF LimitInv, TypeOK
<1>2. QED
  BY <1>1, TotalIsNat DEF LimitInv, TypeOK, Estimated

LEMMA ReserveKeepsLimit ==
  ASSUME LimitInv, NEW r \in Request, Reserve(r)
  PROVE  IsFiniteSet(reserved') /\ OverrunIsAllThatExceeds'
<1>1. r \notin reserved /\ reserved' = reserved \cup {r} /\ UNCHANGED <<estimate, used, charge>>
  BY DEF Reserve, Goto, LimitInv, ReservationsAreSettled
<1>2. IsFiniteSet(reserved') /\ reserved' \ {r} = reserved /\ reserved' \in SUBSET Request
  BY <1>1, FS_AddElement DEF LimitInv, TypeOK
<1>3. Total(estimate, reserved') = estimate[r] + Total(estimate, reserved)
  BY <1>1, <1>2, TotalFacts, EstimatesAreNat
<1>4. Overrun' = Overrun
  BY <1>1 DEF Overrun, Excess
<1>5. estimate[r] <= IF used + Estimated(reserved) < Limit THEN Limit - (used + Estimated(reserved)) ELSE 0
  BY DEF Reserve, Fits
<1>6. used \in Nat /\ estimate[r] \in Nat /\ Limit \in Nat
  BY GatewayAssumption DEF LimitInv, TypeOK
<1>7. used + (estimate[r] + Estimated(reserved)) <= Limit + Overrun
  <2>1. used + Estimated(reserved) <= Limit + Overrun
    BY DEF LimitInv, OverrunIsAllThatExceeds
  <2>2. QED
    BY <1>5, <1>6, <2>1, OverrunIsNat, EstimatesAreNat
<1>8. Estimated(reserved)' = estimate[r] + Estimated(reserved)
  BY <1>1, <1>3 DEF Estimated
<1>9. QED
  BY <1>1, <1>2, <1>4, <1>7, <1>8 DEF OverrunIsAllThatExceeds

(* Both ways out of a run that settle it: the estimate leaves the sum.      *)
LEMMA SettlingTakesTheEstimate ==
  ASSUME LimitInv, NEW r \in Request, pc[r] = "running", reserved' = reserved \ {r}, UNCHANGED estimate
  PROVE  /\ IsFiniteSet(reserved') /\ Estimated(reserved)' \in Int
         /\ Estimated(reserved) = estimate[r] + Estimated(reserved)'
<1>1. r \in reserved /\ IsFiniteSet(reserved') /\ reserved' \in SUBSET Request /\ reserved \in SUBSET Request
  BY FS_RemoveElement DEF LimitInv, ReservationsAreSettled, TypeOK
<1>2. Total(estimate, reserved) = estimate[r] + Total(estimate, reserved \ {r})
  BY <1>1, TotalFacts, EstimatesAreNat DEF LimitInv
<1>3. Total(estimate, reserved \ {r}) \in Int
  BY <1>1, TotalFacts, EstimatesAreNat
<1>4. QED
  BY <1>1, <1>2, <1>3 DEF Estimated

LEMMA MeterKeepsLimit ==
  ASSUME LimitInv, NEW r \in Request, NEW report \in Reports, Meter(r, report)
  PROVE  /\ IsFiniteSet(reserved') /\ IsFiniteSet(Over') /\ OverrunIsAllThatExceeds'
         /\ \A q \in Request : charge'[q] # 0 => pc'[q] \in {"metered", "succeeded"}
<1> DEFINE cost == Charged(r, report)
<1>1. /\ pc[r] = "running" /\ pc' = [pc EXCEPT ![r] = "metered"] /\ reserved' = reserved \ {r}
      /\ charge' = [charge EXCEPT ![r] = cost] /\ used' = used + cost /\ UNCHANGED estimate
  BY DEF Meter, Goto
<1>2. cost \in Nat /\ used \in Nat /\ Limit \in Nat /\ estimate[r] \in Nat
  BY ChargedIsNat, GatewayAssumption DEF LimitInv, TypeOK
<1> HIDE DEF cost
<1>3. charge[r] = 0 /\ r \notin Over
  BY <1>1, <1>2 DEF LimitInv, Over
<1>4. charge \in [Request -> Nat] /\ charge'[r] = cost /\ \A q \in Request \ {r} : charge'[q] = charge[q]
  BY <1>1 DEF LimitInv, TypeOK
<1>5. /\ IsFiniteSet(reserved') /\ Estimated(reserved)' \in Int
      /\ Estimated(reserved) = estimate[r] + Estimated(reserved)'
  BY <1>1, SettlingTakesTheEstimate
<1>6. IsFiniteSet(Over) /\ Over \in SUBSET Request /\ Excess \in [Request -> Int]
  BY OverrunIsNat DEF LimitInv, Over
<1>7. Excess' \in [Request -> Int] /\ (\A q \in Request \ {r} : Excess'[q] = Excess[q]) /\ Excess'[r] = cost - estimate[r]
  BY <1>1, <1>2, <1>4 DEF Excess, LimitInv, TypeOK
<1>8. Total(Excess', Over) = Total(Excess, Over)
  <2>1. \A q \in Over : Excess'[q] = Excess[q]
    BY <1>3, <1>6, <1>7
  <2>2. QED
    BY <1>6, <1>7, <2>1, TotalDependsOnItsTerms
<1>9. Overrun = Total(Excess, Over) /\ Overrun' = Total(Excess', Over') /\ Overrun \in Nat
  BY OverrunIsNat DEF Overrun, Over
<1>10. used + Estimated(reserved) <= Limit + Overrun
  BY DEF LimitInv, OverrunIsAllThatExceeds
<1>11. CASE cost > estimate[r]
  <2>1. Over' = Over \cup {r}
    BY <1>1, <1>4, <1>11 DEF Over
  <2>2. IsFiniteSet(Over') /\ Over' \ {r} = Over /\ Over' \in SUBSET Request
    BY <1>3, <1>6, <2>1, FS_AddElement
  <2>3. Total(Excess', Over') = (cost - estimate[r]) + Total(Excess', Over)
    BY <1>7, <2>1, <2>2, TotalFacts
  <2>4. Overrun' = (cost - estimate[r]) + Overrun
    BY <1>8, <1>9, <2>3
  <2>5. used + cost + Estimated(reserved)' <= Limit + Overrun'
    BY <1>2, <1>5, <1>9, <1>10, <2>4
  <2>6. OverrunIsAllThatExceeds'
    BY <1>1, <2>5 DEF OverrunIsAllThatExceeds
  <2>7. QED
    BY <1>1, <1>4, <1>5, <2>2, <2>6 DEF LimitInv, TypeOK
<1>12. CASE ~ (cost > estimate[r])
  <2>1. Over' = Over
    BY <1>1, <1>2, <1>3, <1>4, <1>12 DEF Over
  <2>2. Overrun' = Overrun
    BY <1>8, <1>9, <2>1
  <2>3. used + cost + Estimated(reserved)' <= Limit + Overrun'
    BY <1>2, <1>5, <1>9, <1>10, <1>12, <2>2
  <2>4. OverrunIsAllThatExceeds'
    BY <1>1, <2>3 DEF OverrunIsAllThatExceeds
  <2>5. QED
    BY <1>1, <1>4, <1>5, <1>6, <2>1, <2>4 DEF LimitInv, TypeOK
<1>13. QED
  BY <1>11, <1>12

LEMMA LimitStep ==
  ASSUME LimitInv, [Next]_vars
  PROVE  LimitInv'
<1>0. TypeOK' /\ BreakerInv' /\ ReservationsAreSettled'
  BY BreakerStep, BudgetStep DEF LimitInv
<1>1. ASSUME NEW r \in Request, Reserve(r)
      PROVE  LimitInv'
  <2>1. UNCHANGED <<estimate, charge>> /\ pc' = [pc EXCEPT ![r] = "running"] /\ pc[r] = "admitted"
    BY <1>1 DEF Reserve, Goto
  <2>2. \A q \in Request : charge'[q] # 0 => pc'[q] \in {"metered", "succeeded"}
    BY <2>1 DEF LimitInv, TypeOK
  <2>3. QED
    BY <1>0, <1>1, <2>1, <2>2, ReserveKeepsLimit DEF LimitInv
<1>2. ASSUME NEW r \in Request, NEW report \in Reports, Meter(r, report)
      PROVE  LimitInv'
  BY <1>0, <1>2, MeterKeepsLimit DEF LimitInv, Over
<1>3. ASSUME NEW r \in Request, Release(r)
      PROVE  LimitInv'
  <2>1. /\ pc[r] = "running" /\ pc' = [pc EXCEPT ![r] = "released"] /\ reserved' = reserved \ {r}
        /\ UNCHANGED <<estimate, used, charge>>
    BY <1>3 DEF Release, Goto, ReservedAfterFailure
  <2>2. /\ IsFiniteSet(reserved') /\ Estimated(reserved)' \in Int
        /\ Estimated(reserved) = estimate[r] + Estimated(reserved)'
    BY <2>1, SettlingTakesTheEstimate
  <2>3. Overrun' = Overrun /\ Overrun \in Nat
    BY <2>1, OverrunIsNat DEF Overrun, Excess
  <2>4. estimate[r] \in Nat /\ used \in Nat /\ Limit \in Nat
        /\ used + Estimated(reserved) <= Limit + Overrun
    BY GatewayAssumption DEF LimitInv, TypeOK, OverrunIsAllThatExceeds
  <2>5. used + Estimated(reserved)' <= Limit + Overrun
    BY <2>2, <2>3, <2>4
  <2>6. OverrunIsAllThatExceeds'
    BY <2>1, <2>3, <2>5 DEF OverrunIsAllThatExceeds
  <2>7. \A q \in Request : charge'[q] # 0 => pc'[q] \in {"metered", "succeeded"}
    BY <2>1 DEF LimitInv, TypeOK
  <2>8. QED
    BY <1>0, <2>1, <2>2, <2>6, <2>7 DEF LimitInv
<1>4. ASSUME UNCHANGED <<estimate, used, charge, reserved>>,
             \A q \in Request : pc'[q] = pc[q] \/ pc'[q] = "succeeded"
                                \/ pc[q] \notin {"metered", "succeeded"}
      PROVE  LimitInv'
  <2>1. OverrunIsAllThatExceeds'
    BY <1>4 DEF LimitInv, OverrunIsAllThatExceeds, Overrun, Excess, Estimated
  <2>2. \A q \in Request : charge'[q] # 0 => pc'[q] \in {"metered", "succeeded"}
    BY <1>4 DEF LimitInv
  <2>3. QED
    BY <1>0, <1>4, <2>1, <2>2 DEF LimitInv
<1>5. ASSUME NEW r \in Request,
             \/ Receive(r) \/ Admit(r) \/ RefuseReservation(r) \/ RecordSuccess(r)
             \/ RecordFailure(r) \/ HangUp(r)
      PROVE  LimitInv'
  BY <1>4, <1>5 DEF Receive, Admit, RefuseReservation, RecordSuccess, RecordFailure, HangUp,
                    Goto, LimitInv, TypeOK
<1>6. CASE Observe \/ CoolDown \/ UNCHANGED vars
  BY <1>4, <1>6 DEF Observe, CoolDown, vars
<1>7. QED
  BY <1>1, <1>2, <1>3, <1>5, <1>6 DEF Next, Execute

(* What is used and what is reserved never exceed the limit by more than    *)
(* metered requests cost beyond their estimates, however many requests      *)
(* overlap: reserve checks and adds under one lock, and a request is        *)
(* charged once, when its reservation goes.                                 *)
THEOREM LimitHolds == Spec => []OverrunIsAllThatExceeds
<1>1. Init => LimitInv
  <2> SUFFICES ASSUME Init PROVE LimitInv
    OBVIOUS
  <2>1. TypeOK /\ BreakerInv /\ ReservationsAreSettled
    <3>1. BreakerInv
      BY NewAgrees DEF Init, BreakerInv
    <3>2. TypeOK
      BY <3>1, GatewayAssumption DEF Init, TypeOK, Phases, BreakerInv, Agree
    <3>3. \A r \in Request : pc[r] = "new"
      BY DEF Init
    <3>4. QED
      BY <3>1, <3>2, <3>3 DEF Init, ReservationsAreSettled
  <2>2. Over = {} /\ \A r \in Request : charge[r] = 0
    BY <2>1 DEF Init, Over, TypeOK
  <2>3. IsFiniteSet(reserved) /\ IsFiniteSet(Over)
    BY <2>2, FS_EmptySet DEF Init
  <2>4. Estimated(reserved) = 0
    <3>1. estimate \in [Request -> Int] /\ reserved = {} /\ {} \in SUBSET Request /\ IsFiniteSet({})
      BY <2>1, FS_EmptySet DEF Init, TypeOK
    <3>2. Total(estimate, {}) = 0
      BY <3>1, TotalFacts
    <3>3. QED
      BY <3>1, <3>2 DEF Estimated
  <2>5. Overrun = 0
    <3>1. Excess \in [Request -> Int] /\ {} \in SUBSET Request /\ IsFiniteSet({})
      BY <2>1, FS_EmptySet DEF Excess, TypeOK
    <3>2. Total(Excess, {}) = 0
      BY <3>1, TotalFacts
    <3>3. QED
      BY <2>2, <3>2 DEF Overrun, Over
  <2>6. OverrunIsAllThatExceeds
    BY <2>4, <2>5, GatewayAssumption DEF Init, OverrunIsAllThatExceeds
  <2>7. QED
    BY <2>1, <2>2, <2>3, <2>6 DEF LimitInv, Over
<1>2. LimitInv /\ [Next]_vars => LimitInv'
  BY LimitStep
<1>3. LimitInv => OverrunIsAllThatExceeds
  BY DEF LimitInv
<1>4. QED
  BY <1>1, <1>2, <1>3, PTL DEF Spec
=============================================================================
