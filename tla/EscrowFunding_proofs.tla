----------------------- MODULE EscrowFunding_proofs -----------------------
(***************************************************************************)
(* Proofs about EscrowFunding, for any assets, amounts, settlements,       *)
(* interleavings and resets.                                               *)
(*                                                                         *)
(* What the handlers have projected is one state of a replay: the states   *)
(* they go through when the log is applied from its beginning.  FundingInv *)
(* says that the contract keeps such a replay of its whole log: no event   *)
(* of it is refused, none of its states owes more than the contract does,  *)
(* the states between two transactions have a history that adds up, and    *)
(* the last one is the image of the contract.  A step of the contract      *)
(* extends the replay, a handler goes to its next state and a reset back   *)
(* to its first.                                                           *)
(***************************************************************************)
EXTENDS MCEscrowFunding, FiniteSetTheorems, WellFoundedInduction, TLAPS

-----------------------------------------------------------------------------
(* What the records hold.                                                   *)

Statuses == {"OPEN", "CLOSED", "CANCELLED"}
GoalTypes == {"ONE_TIME", "MONTHLY"}
PolicyNames == {"NONE", "PAYOUT_ALL", "ROLL_OVER"}
AmountsPerKind == [Kinds -> AmountsPerAsset]

Contracts ==
  [status : Statuses \cup {"NONE"}, type : GoalTypes, policy : PolicyNames,
   stopping : BOOLEAN, settled : Nat, current : AmountsPerAsset, carry : AmountsPerAsset,
   entitled : AmountsPerKind, paid : AmountsPerKind]

Rows ==
  [exists : BOOLEAN, status : Statuses, type : GoalTypes, policy : PolicyNames,
   scheduled : BOOLEAN, stopping : BOOLEAN, settled : Nat, deadline : Nat,
   carry : AmountsPerAsset, entitled : AmountsPerKind]

Periods ==
  [policy : PolicyNames, final : BOOLEAN, settled : BOOLEAN, contributed : AmountsPerAsset,
   carryIn : AmountsPerAsset, vested : AmountsPerAsset, carryOut : AmountsPerAsset]

Histories == UNION {[1..n -> Periods] : n \in Nat}

Projections ==
  [row : Rows, periods : Histories, funded : AmountsPerAsset, released : AmountsPerKind]

Events ==
  [name : {"GoalCreated", "MonthlyGoalStopRequested", "GoalCancelled"}]
  \cup [name : {"MonthlyGoalCreated", "MonthlySurplusPolicyUpdated"}, policy : PolicyNames]
  \cup [name : {"ContributionReceived"}, asset : Assets, amount : Nat]
  \cup [name : {"MonthlyPeriodSettled"}, period : Nat, policy : PolicyNames, final : BOOLEAN]
  \cup [name : {"MonthlyTokenSettled"}, period : Nat, asset : Assets, contributed : Nat,
        carryIn : Nat, vested : Nat, carryOut : Nat]
  \cup [name : {"GoalClosed"}, entitled : AmountsPerAsset]
  \cup [name : {"MonthlyGoalCancelled"}, added : AmountsPerAsset]
  \cup [name : {"Released"}, kind : Kinds, asset : Assets, amount : Nat]

\* Events before which a contract transaction is not complete.
Inner == {"MonthlyGoalCreated", "MonthlyTokenSettled", "GoalCancelled",
          "MonthlyGoalCancelled", "GoalClosed", "MonthlyPeriodSettled"}

-----------------------------------------------------------------------------
(* A handler as a function of what is projected.                            *)

Shown(r, p, f, x) == [row |-> r, periods |-> p, funded |-> f, released |-> x]
Start == Shown(NoRow, <<>>, Nothing, [k \in Kinds |-> Nothing])

Accepts(s, e) ==
  /\ e.name # "GoalCreated" => s.row.exists
  /\ e.name = "ContributionReceived" /\ s.row.type = "MONTHLY" =>
       s.row.settled + 1 \in DOMAIN s.periods
  /\ e.name = "MonthlyPeriodSettled" => s.row.scheduled
  /\ e.name = "MonthlyTokenSettled" => e.period \in DOMAIN s.periods

\* What a handler makes of the goal's row.
Scheduled(x, policy) ==
  [x EXCEPT !.type = "MONTHLY", !.policy = policy, !.scheduled = TRUE, !.deadline = 1]
Advanced(x, e) ==
  [x EXCEPT !.settled = e.period, !.deadline = IF e.final THEN @ ELSE e.period + 1]
Accrued(x, e) ==
  [x EXCEPT !.carry[e.asset] = e.carryOut, !.entitled["EXPENSE"][e.asset] = @ + e.vested]
Closed(x, m) == [x EXCEPT !.status = "CLOSED", !.entitled["EXPENSE"] = m]
Cancelled(x, m) ==
  [x EXCEPT !.status = "CANCELLED",
            !.entitled["CANCELLED_FUNDS"] = IF x.type = "ONE_TIME" THEN m ELSE @]
Returned(x, m) ==
  [x EXCEPT !.carry = Nothing,
            !.entitled["CANCELLED_FUNDS"] = [a \in Assets |-> @[a] + m[a]]]

RowAfter(s, e) ==
  CASE e.name = "GoalCreated" -> [NoRow EXCEPT !.exists = TRUE]
    [] e.name = "MonthlyGoalCreated" -> Scheduled(s.row, e.policy)
    [] e.name = "MonthlySurplusPolicyUpdated" -> [s.row EXCEPT !.policy = e.policy]
    [] e.name = "MonthlyGoalStopRequested" -> [s.row EXCEPT !.stopping = TRUE]
    [] e.name = "MonthlyPeriodSettled" -> Advanced(s.row, e)
    [] e.name = "MonthlyTokenSettled" -> Accrued(s.row, e)
    [] e.name = "GoalClosed" -> Closed(s.row, e.entitled)
    [] e.name = "GoalCancelled" -> Cancelled(s.row, s.funded)
    [] e.name = "MonthlyGoalCancelled" -> Returned(s.row, e.added)
    [] OTHER -> s.row

Accounted(p, e) ==
  LET before == IF e.period \in DOMAIN p THEN p[e.period] ELSE NewPeriod(e.policy)
      settled == [before EXCEPT !.policy = e.policy, !.final = e.final, !.settled = TRUE]
  IN  WithNextPeriod(WithPeriod(p, e.period, settled), e)

Carried(p, e) ==
  [i \in DOMAIN p |->
     CASE i = e.period ->
            [p[i] EXCEPT !.contributed[e.asset] = e.contributed, !.carryIn[e.asset] = e.carryIn,
                         !.vested[e.asset] = e.vested, !.carryOut[e.asset] = e.carryOut]
       [] i = e.period + 1 /\ ~p[i].settled -> [p[i] EXCEPT !.carryIn[e.asset] = e.carryOut]
       [] OTHER -> p[i]]

PeriodsAfter(s, e) ==
  CASE e.name = "MonthlyGoalCreated" ->
         IF 1 \in DOMAIN s.periods THEN [s.periods EXCEPT ![1].policy = e.policy]
         ELSE WithPeriod(s.periods, 1, NewPeriod(e.policy))
    [] e.name = "ContributionReceived" /\ s.row.type = "MONTHLY" ->
         [s.periods EXCEPT ![s.row.settled + 1].contributed[e.asset] = @ + e.amount]
    [] e.name = "MonthlySurplusPolicyUpdated" ->
         [i \in DOMAIN s.periods |->
            IF i = s.row.settled + 1 /\ ~s.periods[i].settled
            THEN [s.periods[i] EXCEPT !.policy = e.policy] ELSE s.periods[i]]
    [] e.name = "MonthlyPeriodSettled" -> Accounted(s.periods, e)
    [] e.name = "MonthlyTokenSettled" -> Carried(s.periods, e)
    [] OTHER -> s.periods

FundedAfter(s, e) ==
  IF e.name = "ContributionReceived" THEN [s.funded EXCEPT ![e.asset] = @ + e.amount] ELSE s.funded

ReleasedAfter(s, e) ==
  IF e.name = "Released" THEN [s.released EXCEPT ![e.kind][e.asset] = @ + e.amount] ELSE s.released

After(s, e) == Shown(RowAfter(s, e), PeriodsAfter(s, e), FundedAfter(s, e), ReleasedAfter(s, e))

-----------------------------------------------------------------------------
(* Sums of a function's values over a finite set.                           *)

First(s) == CHOOSE x \in s : TRUE
Solves(S, m, f) ==
  f = [s \in SUBSET S |-> IF s = {} THEN 0 ELSE m[First(s)] + f[s \ {First(s)}]]
Sum(S, m) == (CHOOSE f : Solves(S, m, f))[S]

-----------------------------------------------------------------------------
(* The invariant.                                                           *)

VestedIn(p, a) == Sum(DOMAIN p, [i \in DOMAIN p |-> p[i].vested[a]])
ContributedIn(p, a) == Sum(DOMAIN p, [i \in DOMAIN p |-> p[i].contributed[a]])

\* What every state of a replay may say while the contract is c.
Sound(s, c) ==
  /\ \A k \in Kinds, a \in Assets :
       /\ s.row.entitled[k][a] <= c.entitled[k][a] /\ s.released[k][a] <= c.paid[k][a]
       /\ s.released[k][a] <= s.row.entitled[k][a]
  /\ s.row.status = "CLOSED" => c.status = "CLOSED"

CarriesOver(p) ==
  \A i \in DOMAIN p, a \in Assets :
    p[i].settled =>
      /\ p[i].contributed[a] + p[i].carryIn[a] = p[i].vested[a] + p[i].carryOut[a]
      /\ i + 1 \in DOMAIN p => p[i + 1].carryIn[a] = p[i].carryOut[a]

AddsUp(s) ==
  s.row.type = "MONTHLY" =>
    /\ CarriesOver(s.periods)
    /\ \A a \in Assets :
         /\ s.row.entitled["EXPENSE"][a] = VestedIn(s.periods, a)
         /\ s.funded[a] = ContributedIn(s.periods, a)

\* h is what the handlers go through when they apply l from its beginning.
Replay(h, l, c) ==
  /\ h \in [0..Len(l) -> Projections]
  /\ h[0] = Start
  /\ \A i \in 1..Len(l) : Accepts(h[i - 1], l[i]) /\ h[i] = After(h[i - 1], l[i])
  /\ \A i \in 0..Len(l) : Sound(h[i], c)
  /\ \A i \in 1..Len(l) : l[i].name \notin Inner => AddsUp(h[i - 1])

\* The replay of l ends in s, and passed q after j events.
Replays(l, s, c, j, q) ==
  \E h : Replay(h, l, c) /\ h[Len(l)] = s /\ j \in 0..Len(l) /\ h[j] = q

Total(c) == [a \in Assets |-> c.current[a] + c.carry[a] + c.entitled["EXPENSE"][a]
                              + c.entitled["CANCELLED_FUNDS"][a]]

\* The image of the contract.
RowOf(c) ==
  [exists |-> TRUE, status |-> c.status, type |-> c.type, policy |-> c.policy,
   scheduled |-> c.type = "MONTHLY", stopping |-> c.stopping, settled |-> c.settled,
   deadline |-> IF c.type = "ONE_TIME" THEN 0
                ELSE IF c.status = "CLOSED" THEN c.settled ELSE c.settled + 1,
   carry |-> c.carry, entitled |-> c.entitled]

OpenPeriodOf(c) ==
  [policy |-> c.policy, final |-> FALSE, settled |-> FALSE, contributed |-> c.current,
   carryIn |-> c.carry, vested |-> Nothing, carryOut |-> Nothing]

PeriodsFit(p, c) ==
  /\ p \in Histories
  /\ c.type = "ONE_TIME" => p = <<>>
  /\ c.type = "MONTHLY" =>
       DOMAIN p = 1..(IF c.status = "CLOSED" THEN c.settled ELSE c.settled + 1)
  /\ c.type = "MONTHLY" /\ c.status = "OPEN" => p[c.settled + 1] = OpenPeriodOf(c)

Image(p, c) == Shown(RowOf(c), p, Total(c), c.paid)

Mirrors(s, c) == \E p : PeriodsFit(p, c) /\ s = Image(p, c) /\ AddsUp(s)

\* Nothing is cancelled of an open goal, and nothing of an open one-time goal
\* is vested or carried over; nobody is paid what is not owed.
ContractShape(c) ==
  /\ c \in Contracts
  /\ c.status = "OPEN" => c.entitled["CANCELLED_FUNDS"] = Nothing
  /\ c.status = "OPEN" /\ c.type = "ONE_TIME" =>
       c.carry = Nothing /\ c.entitled["EXPENSE"] = Nothing
  /\ \A k \in Kinds, a \in Assets : c.paid[k][a] <= c.entitled[k][a]

\* The projection is a state of the replay; a reset may keep the goal's row.
Projected(q) ==
  /\ periods = q.periods /\ funded = q.funded /\ released = q.released
  /\ row = q.row \/ (applied = 0 /\ row = [NoRow EXCEPT !.exists = TRUE])

FundingInv ==
  /\ ContractShape(contract) /\ now \in Nat /\ log \in Seq(Events) /\ resets \in 0..MaxResets
  /\ log # <<>> => log[1].name = "GoalCreated"
  /\ \E s, q :
       /\ Replays(log, s, contract, applied, q) /\ Projected(q)
       /\ IF contract.status = "NONE" THEN contract = NoGoal /\ log = <<>> ELSE Mirrors(s, contract)

-----------------------------------------------------------------------------
(* Lemmas about numbers and sums.                                           *)

\* Min of a nonempty set of numbers is one of them, and the least.
LEMMA MinMember ==
  ASSUME NEW S, S \subseteq Nat, S # {}
  PROVE  Min(S) \in S /\ \A y \in S : Min(S) <= y
<1> DEFINE R == OpToRel(<, Nat)
<1>1. \A x, y \in Nat : y < x => <<y, x>> \in R
  BY DEF OpToRel
<1>2. IsWellFoundedOn(R, Nat)
  BY NatLessThanWellFounded
<1> HIDE DEF R
<1>3. PICK x \in S : \A y \in S : ~ (<<y, x>> \in R)
  BY <1>2, WFMin
<1>4. ASSUME NEW y \in S
      PROVE  x <= y
  <2>1. x \in Nat /\ y \in Nat
    OBVIOUS
  <2>2. ~ (y < x)
    BY <1>1, <1>3, <2>1
  <2> QED
    BY <2>1, <2>2
<1>5. \E z \in S : \A y \in S : z <= y
  BY <1>4
<1> QED
  BY <1>5 DEF Min

\* A set of numbers without a least element is empty.
LEMMA NoLeast ==
  ASSUME NEW S, S \subseteq Nat, \A n \in S : \E k \in S : k < n
  PROVE  S = {}
<1> SUFFICES ASSUME S # {}
             PROVE  FALSE
  OBVIOUS
<1>1. Min(S) \in S /\ \A y \in S : Min(S) <= y
  BY MinMember
<1>2. PICK k \in S : k < Min(S)
  BY <1>1
<1>3. k \in Nat /\ Min(S) \in Nat /\ Min(S) <= k
  BY <1>1
<1> QED
  BY <1>2, <1>3

LEMMA Subsets ==
  ASSUME NEW T, IsFiniteSet(T)
  PROVE  \A S \in SUBSET T :
           /\ Cardinality(S) \in Nat /\ (Cardinality(S) = 0 <=> S = {})
           /\ Cardinality(S) <= Cardinality(T)
           /\ \A x \in S : Cardinality(S \ {x}) = Cardinality(S) - 1
<1> SUFFICES ASSUME NEW S \in SUBSET T
             PROVE  /\ Cardinality(S) \in Nat /\ (Cardinality(S) = 0 <=> S = {})
                    /\ Cardinality(S) <= Cardinality(T)
                    /\ \A x \in S : Cardinality(S \ {x}) = Cardinality(S) - 1
  OBVIOUS
<1>1. IsFiniteSet(S) /\ Cardinality(S) <= Cardinality(T)
  BY FS_Subset
<1>2. Cardinality(S) \in Nat /\ (Cardinality(S) = 0 <=> S = {})
  BY <1>1, FS_CardinalityType, FS_EmptySet
<1>3. ASSUME NEW x \in S
      PROVE  Cardinality(S \ {x}) = Cardinality(S) - 1
  BY <1>1, FS_RemoveElement
<1> QED
  BY <1>1, <1>2, <1>3

LEMMA FirstMember == ASSUME NEW s, s # {} PROVE First(s) \in s
  BY DEF First

LEMMA SumExists ==
  ASSUME NEW S, IsFiniteSet(S), NEW m
  PROVE  \E f : Solves(S, m, f)
<1> DEFINE Level(k) == {s \in SUBSET S : Cardinality(s) <= k}
           UpTo(k, f) == f = [s \in Level(k) |-> IF s = {} THEN 0
                                ELSE m[First(s)] + f[s \ {First(s)}]]
           bad == {k \in Nat : ~\E f : UpTo(k, f)}
<1>1. \A s \in SUBSET S : Cardinality(s) \in Nat /\ (Cardinality(s) = 0 <=> s = {})
  BY Subsets
<1>2. \A s \in SUBSET S : s # {} => /\ First(s) \in s
                                    /\ Cardinality(s \ {First(s)}) = Cardinality(s) - 1
  BY FirstMember, Subsets
<1>3. bad = {}
  <2>1. ASSUME NEW k \in bad
        PROVE  \E j \in bad : j < k
    <3> SUFFICES ASSUME \A j \in bad : ~(j < k)
                 PROVE  FALSE
      OBVIOUS
    <3>1. k \in Nat
      OBVIOUS
    <3>2. CASE k = 0
      <4> DEFINE g == [s \in Level(0) |-> 0]
      <4>1. \A s \in Level(0) : s = {}
        BY <1>1
      <4>2. g = [s \in Level(0) |-> IF s = {} THEN 0 ELSE m[First(s)] + g[s \ {First(s)}]]
        BY <4>1
      <4>3. UpTo(0, g)
        BY <4>2
      <4> QED
        BY <3>2, <4>3
    <3>3. CASE k # 0
      <4>1. k - 1 \in Nat /\ k - 1 < k
        BY <3>1, <3>3
      <4>2. k - 1 \notin bad
        BY <4>1
      <4>3. PICK f : UpTo(k - 1, f)
        BY <4>1, <4>2
      <4> DEFINE g == [s \in Level(k) |-> IF s = {} THEN 0
                                          ELSE m[First(s)] + f[s \ {First(s)}]]
      <4>4. ASSUME NEW s \in Level(k), s # {}
            PROVE  g[s \ {First(s)}] = f[s \ {First(s)}]
        <5> DEFINE t == s \ {First(s)}
        <5>1. t \in SUBSET S /\ Cardinality(t) = Cardinality(s) - 1 /\ Cardinality(s) <= k
              /\ Cardinality(s) \in Nat
          BY <1>1, <1>2, <4>4
        <5> HIDE DEF t
        <5>2. t \in Level(k) /\ t \in Level(k - 1)
          BY <3>1, <5>1
        <5>3. g[t] = IF t = {} THEN 0 ELSE m[First(t)] + f[t \ {First(t)}]
          BY <5>2
        <5>4. f[t] = IF t = {} THEN 0 ELSE m[First(t)] + f[t \ {First(t)}]
          BY <4>3, <5>2
        <5> QED
          BY <5>3, <5>4 DEF t
      <4>5. g = [s \in Level(k) |-> IF s = {} THEN 0 ELSE m[First(s)] + g[s \ {First(s)}]]
        <5> DEFINE h == [s \in Level(k) |-> IF s = {} THEN 0
                                            ELSE m[First(s)] + g[s \ {First(s)}]]
        <5>1. \A s \in Level(k) : g[s] = h[s]
          BY <4>4
        <5> QED
          BY <5>1
      <4>6. UpTo(k, g)
        BY <4>5
      <4> QED
        BY <4>6
    <3> QED
      BY <3>2, <3>3
  <2>2. bad \subseteq Nat
    OBVIOUS
  <2> HIDE DEF bad
  <2> QED
    BY <2>1, <2>2, NoLeast
<1>4. PICK f : UpTo(Cardinality(S), f)
  BY <1>1, <1>3
<1>5. Level(Cardinality(S)) = SUBSET S
  BY Subsets
<1> QED
  BY <1>4, <1>5 DEF Solves

LEMMA SumUnique ==
  ASSUME NEW S, IsFiniteSet(S), NEW T \in SUBSET S, NEW m, NEW n, NEW f, NEW g,
         \A x \in T : m[x] = n[x], Solves(S, m, f), Solves(T, n, g)
  PROVE  f[T] = g[T]
<1> DEFINE bad == {k \in Nat : \E s \in SUBSET T : Cardinality(s) = k /\ f[s] # g[s]}
<1>1. bad = {}
  <2>1. ASSUME NEW k \in bad
        PROVE  \E j \in bad : j < k
    <3>1. PICK s \in SUBSET T : Cardinality(s) = k /\ f[s] # g[s]
      OBVIOUS
    <3>2. f[s] = (IF s = {} THEN 0 ELSE m[First(s)] + f[s \ {First(s)}])
          /\ g[s] = (IF s = {} THEN 0 ELSE n[First(s)] + g[s \ {First(s)}])
      BY DEF Solves
    <3>3. s # {}
      BY <3>1, <3>2
    <3>4. First(s) \in s
      BY <3>3, FirstMember
    <3> DEFINE t == s \ {First(s)}
    <3>5. t \in SUBSET T /\ Cardinality(t) \in Nat /\ Cardinality(t) = k - 1 /\ k \in Nat
      <4>1. s \in SUBSET S /\ s \ {First(s)} \in SUBSET S
        OBVIOUS
      <4> QED
        BY <3>1, <3>4, <4>1, Subsets
    <3>6. f[t] # g[t]
      BY <3>1, <3>2, <3>3, <3>4
    <3> HIDE DEF t
    <3> QED
      BY <3>5, <3>6
  <2>2. bad \subseteq Nat
    OBVIOUS
  <2> HIDE DEF bad
  <2> QED
    BY <2>1, <2>2, NoLeast
<1>2. Cardinality(T) \in Nat
  BY Subsets
<1> QED
  BY <1>1, <1>2

\* A sum only depends on the values in its set.
LEMMA SumSame ==
  ASSUME NEW S, IsFiniteSet(S), NEW m, NEW n, \A x \in S : m[x] = n[x]
  PROVE  Sum(S, m) = Sum(S, n)
<1> DEFINE f == CHOOSE h : Solves(S, m, h)
           g == CHOOSE h : Solves(S, n, h)
<1>1. Solves(S, m, f) /\ Solves(S, n, g)
  BY SumExists
<1> HIDE DEF f, g
<1>2. f[S] = g[S]
  BY <1>1, SumUnique
<1> QED
  BY <1>2 DEF f, g, Sum

\* Any solution of the fold's equation gives the sum.
LEMMA SumSolves ==
  ASSUME NEW S, IsFiniteSet(S), NEW m, NEW f, Solves(S, m, f)
  PROVE  f[S] = Sum(S, m)
<1> DEFINE g == CHOOSE h : Solves(S, m, h)
<1>1. Solves(S, m, g)
  BY SumExists
<1> HIDE DEF g
<1>2. f[S] = g[S]
  BY <1>1, SumUnique
<1> QED
  BY <1>2 DEF g, Sum

LEMMA SumStep ==
  ASSUME NEW S, IsFiniteSet(S), NEW m
  PROVE  /\ S = {} => Sum(S, m) = 0
         /\ S # {} => First(S) \in S /\ Sum(S, m) = m[First(S)] + Sum(S \ {First(S)}, m)
<1> DEFINE f == CHOOSE h : Solves(S, m, h)
           T == S \ {First(S)}
           g == CHOOSE h : Solves(T, m, h)
<1>0. T \in SUBSET S /\ IsFiniteSet(T)
  BY FS_Subset
<1>1. Solves(S, m, f) /\ Sum(S, m) = f[S]
  BY SumExists DEF Sum
<1>2. Solves(T, m, g) /\ Sum(T, m) = g[T]
  BY <1>0, SumExists DEF Sum
<1> HIDE DEF f, g
<1>3. f[T] = g[T]
  <2> HIDE DEF T
  <2> QED
    BY <1>0, <1>1, <1>2, SumUnique
<1>4. f[S] = IF S = {} THEN 0 ELSE m[First(S)] + f[T]
  BY <1>1 DEF Solves
<1> QED
  BY <1>1, <1>2, <1>3, <1>4, FirstMember

\* The sum is a number, and any element may be taken out first.
LEMMA SumRemove ==
  ASSUME NEW T, IsFiniteSet(T), NEW m, \A x \in T : m[x] \in Nat
  PROVE  \A S \in SUBSET T :
           Sum(S, m) \in Nat /\ \A x \in S : Sum(S, m) = m[x] + Sum(S \ {x}, m)
<1> DEFINE Fine(S) == Sum(S, m) \in Nat /\ \A x \in S : Sum(S, m) = m[x] + Sum(S \ {x}, m)
           bad == {n \in Nat : \E S \in SUBSET T : Cardinality(S) = n /\ ~Fine(S)}
<1>1. bad = {}
  <2>1. ASSUME NEW n \in bad, \A k \in bad : ~(k < n)
        PROVE  FALSE
    <3>1. PICK S \in SUBSET T : Cardinality(S) = n /\ ~Fine(S)
      OBVIOUS
    <3>2. ASSUME NEW U \in SUBSET T, Cardinality(U) < n
          PROVE  Fine(U)
      <4>1. Cardinality(U) \in Nat
        BY Subsets
      <4>2. Cardinality(U) \notin bad
        BY <2>1, <3>2, <4>1
      <4> QED
        BY <4>1, <4>2
    <3>3. IsFiniteSet(S) /\ n \in Nat
      BY FS_Subset
    <3> HIDE DEF bad, Fine
    <3>4. CASE S = {}
      BY <3>1, <3>3, <3>4, SumStep DEF Fine
    <3>5. CASE S # {}
      <4> DEFINE p == First(S)
      <4>1. p \in S /\ Sum(S, m) = m[p] + Sum(S \ {p}, m)
        BY <3>3, <3>5, SumStep
      <4> HIDE DEF p
      <4>2. Cardinality(S \ {p}) < n
        BY <3>1, <3>3, <4>1, Subsets
      <4>3. Fine(S \ {p}) /\ m[p] \in Nat
        BY <3>2, <4>1, <4>2
      <4>4. Sum(S, m) \in Nat
        BY <4>1, <4>3 DEF Fine
      <4>5. ASSUME NEW x \in S, x # p
            PROVE  Sum(S, m) = m[x] + Sum(S \ {x}, m)
        <5> DEFINE U == S \ {x}
                   V == S \ {p}
                   W == (S \ {x}) \ {p}
        <5>1. U \in SUBSET T /\ p \in U /\ m[x] \in Nat /\ Cardinality(U) = n - 1
          BY <3>1, <4>1, <4>5, Subsets
        <5>2. V \ {x} = W /\ x \in V /\ U \ {p} = W
          BY <4>5
        <5>3. Fine(U)
          BY <3>2, <3>3, <5>1
        <5>4. W \in SUBSET T /\ Cardinality(W) = n - 2
          <6> HIDE DEF U
          <6> QED
            BY <3>3, <5>1, <5>2, Subsets
        <5>5. Sum(W, m) \in Nat
          BY <3>2, <3>3, <5>4 DEF Fine
        <5>6. Sum(V, m) = m[x] + Sum(V \ {x}, m) /\ Sum(U, m) = m[p] + Sum(U \ {p}, m)
          BY <4>3, <5>1, <5>2, <5>3 DEF Fine
        <5> HIDE DEF U, V, W
        <5>7. Sum(S, m) = m[p] + Sum(V, m) /\ V \ {x} = W /\ U \ {p} = W
          BY <4>1, <5>2 DEF V
        <5>8. m[x] \in Nat /\ m[p] \in Nat
          BY <4>3, <5>1
        <5>9. Sum(V, m) = m[x] + Sum(W, m) /\ Sum(U, m) = m[p] + Sum(W, m)
          BY <5>6, <5>7
        <5>10. Sum(S, m) = m[x] + Sum(U, m)
          BY <5>5, <5>7, <5>8, <5>9
        <5> QED
          BY <5>10 DEF U
      <4>6. Fine(S)
        BY <4>1, <4>4, <4>5 DEF Fine
      <4> QED
        BY <3>1, <4>6
    <3> QED
      BY <3>4, <3>5
  <2>2. bad \subseteq Nat
    OBVIOUS
  <2> HIDE DEF bad
  <2> QED
    BY <2>1, <2>2, NoLeast
<1> QED
  <2> SUFFICES ASSUME NEW S \in SUBSET T
               PROVE  Fine(S)
    OBVIOUS
  <2>1. Cardinality(S) \in Nat
    BY Subsets
  <2> QED
    BY <1>1, <2>1

\* What changes at one element changes the sum by as much.
LEMMA SumChange ==
  ASSUME NEW S, IsFiniteSet(S), NEW m, NEW n, NEW x \in S,
         \A y \in S : m[y] \in Nat /\ n[y] \in Nat,
         \A y \in S \ {x} : m[y] = n[y]
  PROVE  Sum(S, n) = Sum(S, m) - m[x] + n[x]
<1> DEFINE T == S \ {x}
<1>1. T \in SUBSET S /\ IsFiniteSet(T)
  BY FS_Subset
<1>2. Sum(S, m) = m[x] + Sum(T, m) /\ Sum(S, n) = n[x] + Sum(T, n)
  BY SumRemove
<1>3. Sum(T, m) = Sum(T, n) /\ Sum(T, m) \in Nat
  BY <1>1, SumSame, SumRemove
<1> QED
  BY <1>2, <1>3

\* Where no element counts for more, equal sums are equal everywhere.
LEMMA SumEqual ==
  ASSUME NEW T, IsFiniteSet(T), NEW m, NEW n,
         \A x \in T : m[x] \in Nat /\ n[x] \in Nat /\ m[x] <= n[x]
  PROVE  \A S \in SUBSET T : /\ Sum(S, m) <= Sum(S, n)
                             /\ Sum(S, m) = Sum(S, n) => \A x \in S : m[x] = n[x]
<1> DEFINE Fine(S) == /\ Sum(S, m) <= Sum(S, n)
                      /\ Sum(S, m) = Sum(S, n) => \A x \in S : m[x] = n[x]
           bad == {k \in Nat : \E S \in SUBSET T : Cardinality(S) = k /\ ~Fine(S)}
<1>1. bad = {}
  <2>1. ASSUME NEW k \in bad, \A j \in bad : ~(j < k)
        PROVE  FALSE
    <3>1. PICK S \in SUBSET T : Cardinality(S) = k /\ ~Fine(S)
      OBVIOUS
    <3>2. \A s \in SUBSET T : Sum(s, m) \in Nat /\ Sum(s, n) \in Nat
      BY SumRemove
    <3>3. IsFiniteSet(S) /\ k \in Nat
      BY FS_Subset
    <3>4. CASE S = {}
      BY <3>1, <3>3, <3>4, SumStep
    <3>5. CASE S # {}
      <4>1. PICK x \in S : TRUE
        BY <3>5
      <4> DEFINE U == S \ {x}
      <4>2. U \in SUBSET T /\ Cardinality(U) \in Nat /\ Cardinality(U) < k
        BY <3>1, <3>3, Subsets
      <4>3. Fine(U)
        BY <2>1, <4>2
      <4>4. Sum(S, m) = m[x] + Sum(U, m) /\ Sum(S, n) = n[x] + Sum(U, n)
        BY SumRemove
      <4>5. Sum(U, m) \in Nat /\ Sum(U, n) \in Nat /\ m[x] \in Nat /\ n[x] \in Nat /\ m[x] <= n[x]
        BY <3>2, <4>2
      <4>6. Sum(S, m) <= Sum(S, n)
        BY <4>3, <4>4, <4>5
      <4>7. ASSUME Sum(S, m) = Sum(S, n)
            PROVE  \A y \in S : m[y] = n[y]
        <5>1. m[x] = n[x] /\ Sum(U, m) = Sum(U, n)
          BY <4>3, <4>4, <4>5, <4>7
        <5> QED
          BY <4>3, <5>1
      <4> QED
        BY <3>1, <4>6, <4>7
    <3> QED
      BY <3>4, <3>5
  <2>2. bad \subseteq Nat
    OBVIOUS
  <2> HIDE DEF bad
  <2> QED
    BY <2>1, <2>2, NoLeast
<1> QED
  <2> SUFFICES ASSUME NEW S \in SUBSET T
               PROVE  Fine(S)
    OBVIOUS
  <2>1. Cardinality(S) \in Nat
    BY Subsets
  <2> QED
    BY <1>1, <2>1

-----------------------------------------------------------------------------
(* What holds of every replay.                                              *)

\* What the contract owes and has paid never falls, and it stays closed.
Grows(c, d) ==
  /\ \A k \in Kinds, a \in Assets :
       c.entitled[k][a] <= d.entitled[k][a] /\ c.paid[k][a] <= d.paid[k][a]
  /\ c.status = "CLOSED" => d.status = "CLOSED"

LEMMA NothingTyped ==
  Nothing \in AmountsPerAsset /\ [k \in Kinds |-> Nothing] \in AmountsPerKind
BY DEF Nothing, AmountsPerAsset, AmountsPerKind

LEMMA StartTyped == Start \in Projections
<1>1. NoRow \in Rows
  BY NothingTyped DEF NoRow, Rows, Statuses, GoalTypes, PolicyNames
<1>2. <<>> \in Histories
  <2>1. <<>> \in [1..0 -> Periods]
    OBVIOUS
  <2> QED
    BY <2>1 DEF Histories
<1> QED
  BY <1>1, <1>2, NothingTyped DEF Start, Shown, Projections

LEMMA SoundGrows ==
  ASSUME NEW s \in Projections, NEW c \in Contracts, NEW d \in Contracts,
         Sound(s, c), Grows(c, d)
  PROVE  Sound(s, d)
<1>1. ASSUME NEW k \in Kinds, NEW a \in Assets
      PROVE  /\ s.row.entitled[k][a] <= d.entitled[k][a] /\ s.released[k][a] <= d.paid[k][a]
             /\ s.released[k][a] <= s.row.entitled[k][a]
  <2>1. /\ s.row.entitled[k][a] \in Nat /\ s.released[k][a] \in Nat
        /\ c.entitled[k][a] \in Nat /\ c.paid[k][a] \in Nat
        /\ d.entitled[k][a] \in Nat /\ d.paid[k][a] \in Nat
    BY DEF Projections, Rows, Contracts, AmountsPerKind, AmountsPerAsset
  <2> QED
    BY <2>1 DEF Sound, Grows
<1> QED
  BY <1>1 DEF Sound, Grows

LEMMA ReplayStart ==
  ASSUME NEW c \in Contracts
  PROVE  Replays(<<>>, Start, c, 0, Start)
<1> DEFINE h == [i \in 0..0 |-> Start]
<1>1. Sound(Start, c)
  <2>1. ASSUME NEW k \in Kinds, NEW a \in Assets
        PROVE  /\ Start.row.entitled[k][a] = 0 /\ Start.released[k][a] = 0
               /\ c.entitled[k][a] \in Nat /\ c.paid[k][a] \in Nat
    BY DEF Start, Shown, NoRow, Nothing, Contracts, AmountsPerKind, AmountsPerAsset
  <2>2. Start.row.status = "OPEN"
    BY DEF Start, Shown, NoRow
  <2> QED
    BY <2>1, <2>2 DEF Sound
<1>2. Len(<<>>) = 0 /\ h \in [0..0 -> Projections] /\ h[0] = Start
  BY StartTyped
<1>3. Replay(h, <<>>, c)
  BY <1>1, <1>2 DEF Replay
<1> QED
  BY <1>2, <1>3 DEF Replays

\* A further event takes the replay to a further state.
LEMMA ReplayMore ==
  ASSUME NEW l \in Seq(Events), NEW e \in Events, NEW s, NEW c \in Contracts,
         NEW d \in Contracts, NEW j, NEW q, Replays(l, s, c, j, q), Grows(c, d),
         Accepts(s, e), After(s, e) \in Projections, Sound(After(s, e), d),
         e.name \notin Inner => AddsUp(s)
  PROVE  Replays(Append(l, e), After(s, e), d, j, q)
<1>1. PICK h : Replay(h, l, c) /\ h[Len(l)] = s /\ j \in 0..Len(l) /\ h[j] = q
  BY DEF Replays
<1> DEFINE n == Len(l)
           m == Append(l, e)
           g == [i \in 0..n + 1 |-> IF i = n + 1 THEN After(s, e) ELSE h[i]]
<1>2. n \in Nat /\ Len(m) = n + 1 /\ m[n + 1] = e /\ \A i \in 1..n : m[i] = l[i]
  OBVIOUS
<1>3. \A i \in 0..n : h[i] \in Projections /\ Sound(h[i], d)
  BY <1>1, SoundGrows DEF Replay
<1> HIDE DEF m
<1>4. g[n + 1] = After(s, e) /\ \A i \in 0..n : g[i] = h[i]
  BY <1>2
<1>5. g \in [0..n + 1 -> Projections]
  BY <1>2, <1>3
<1> HIDE DEF g
<1>6. g[0] = Start
  BY <1>1, <1>2, <1>4 DEF Replay
<1>7. ASSUME NEW i \in 1..n + 1
      PROVE  /\ Accepts(g[i - 1], m[i]) /\ g[i] = After(g[i - 1], m[i])
             /\ m[i].name \notin Inner => AddsUp(g[i - 1])
  <2>1. CASE i = n + 1
    <3>1. i - 1 = n /\ m[i] = e /\ g[i - 1] = s
      BY <1>1, <1>2, <1>4, <2>1
    <3> QED
      BY <1>4, <2>1, <3>1
  <2>2. CASE i # n + 1
    <3>1. i \in 1..n /\ i - 1 \in 0..n /\ i \in 0..n
      BY <1>2, <2>2
    <3>2. m[i] = l[i] /\ g[i] = h[i] /\ g[i - 1] = h[i - 1]
      BY <1>2, <1>4, <3>1
    <3>3. Accepts(h[i - 1], l[i]) /\ h[i] = After(h[i - 1], l[i])
          /\ (l[i].name \notin Inner => AddsUp(h[i - 1]))
      BY <1>1, <3>1 DEF Replay
    <3> QED
      BY <3>2, <3>3
  <2> QED
    BY <2>1, <2>2
<1>8. ASSUME NEW i \in 0..n + 1
      PROVE  Sound(g[i], d)
  <2>1. i = n + 1 \/ i \in 0..n
    BY <1>2
  <2> QED
    BY <1>3, <1>4, <2>1
<1>9. Replay(g, m, d)
  BY <1>2, <1>5, <1>6, <1>7, <1>8 DEF Replay
<1>10. g[Len(m)] = After(s, e) /\ j \in 0..Len(m) /\ g[j] = q
  BY <1>1, <1>2, <1>4
<1> QED
  BY <1>9, <1>10 DEF Replays, m

LEMMA ReplayGrows ==
  ASSUME NEW l \in Seq(Events), NEW s, NEW c \in Contracts, NEW d \in Contracts, NEW j, NEW q,
         Replays(l, s, c, j, q), Grows(c, d)
  PROVE  Replays(l, s, d, j, q)
<1>1. PICK h : Replay(h, l, c) /\ h[Len(l)] = s /\ j \in 0..Len(l) /\ h[j] = q
  BY DEF Replays
<1>2. \A i \in 0..Len(l) : Sound(h[i], d)
  BY <1>1, SoundGrows DEF Replay
<1>3. Replay(h, l, d)
  BY <1>1, <1>2 DEF Replay
<1> QED
  BY <1>1, <1>3 DEF Replays

\* The handler of the next event goes to the replay's next state.
LEMMA ReplayNext ==
  ASSUME NEW l \in Seq(Events), NEW s, NEW c, NEW j, NEW q, Replays(l, s, c, j, q), j # Len(l)
  PROVE  /\ j + 1 \in 1..Len(l) /\ Accepts(q, l[j + 1])
         /\ l[j + 1].name \notin Inner => AddsUp(q)
         /\ Replays(l, s, c, j + 1, After(q, l[j + 1]))
<1>1. PICK h : Replay(h, l, c) /\ h[Len(l)] = s /\ j \in 0..Len(l) /\ h[j] = q
  BY DEF Replays
<1>2. Len(l) \in Nat
  OBVIOUS
<1>3. j + 1 \in 1..Len(l) /\ (j + 1) - 1 = j /\ j + 1 \in 0..Len(l)
  BY <1>1, <1>2
<1>4. /\ Accepts(h[j], l[j + 1]) /\ h[j + 1] = After(h[j], l[j + 1])
      /\ l[j + 1].name \notin Inner => AddsUp(h[j])
  BY <1>1, <1>3 DEF Replay
<1> QED
  BY <1>1, <1>3, <1>4 DEF Replays

\* After a reset the handlers stand at the replay's first state.
LEMMA ReplayAgain ==
  ASSUME NEW l \in Seq(Events), NEW s, NEW c, NEW j, NEW q, Replays(l, s, c, j, q)
  PROVE  Replays(l, s, c, 0, Start)
<1>1. PICK h : Replay(h, l, c) /\ h[Len(l)] = s
  BY DEF Replays
<1>2. 0 \in 0..Len(l)
  OBVIOUS
<1> QED
  BY <1>1, <1>2 DEF Replays, Replay

LEMMA ReplayFacts ==
  ASSUME NEW l \in Seq(Events), NEW s, NEW c, NEW j, NEW q, Replays(l, s, c, j, q)
  PROVE  /\ j \in 0..Len(l) /\ s \in Projections /\ q \in Projections
         /\ Sound(s, c) /\ Sound(q, c)
         /\ j = Len(l) => q = s
         /\ j = 0 => q = Start
         /\ l = <<>> => s = Start
<1>1. PICK h : Replay(h, l, c) /\ h[Len(l)] = s /\ j \in 0..Len(l) /\ h[j] = q
  BY DEF Replays
<1>2. Len(l) \in 0..Len(l)
  OBVIOUS
<1> QED
  BY <1>1, <1>2 DEF Replay

-----------------------------------------------------------------------------
(* What the handlers make of the row, field by field.                       *)

LEMMA RowEqual ==
  ASSUME NEW x \in Rows, NEW y \in Rows,
         x.exists = y.exists, x.status = y.status, x.type = y.type, x.policy = y.policy,
         x.scheduled = y.scheduled, x.stopping = y.stopping, x.settled = y.settled,
         x.deadline = y.deadline, x.carry = y.carry, x.entitled = y.entitled
  PROVE  x = y
BY DEF Rows

LEMMA ScheduledFields ==
  ASSUME NEW x \in Rows, NEW policy \in PolicyNames
  PROVE  LET z == Scheduled(x, policy)
         IN  /\ z \in Rows
             /\ z.exists = x.exists /\ z.status = x.status /\ z.stopping = x.stopping
             /\ z.settled = x.settled /\ z.carry = x.carry /\ z.entitled = x.entitled
             /\ z.type = "MONTHLY" /\ z.policy = policy /\ z.scheduled = TRUE
             /\ z.deadline = 1
BY DEF Rows, Scheduled, GoalTypes

LEMMA AdvancedFields ==
  ASSUME NEW x \in Rows, NEW e, e.period \in Nat, e.final \in BOOLEAN
  PROVE  LET z == Advanced(x, e)
         IN  /\ z \in Rows
             /\ z.exists = x.exists /\ z.status = x.status /\ z.type = x.type
             /\ z.policy = x.policy /\ z.scheduled = x.scheduled /\ z.stopping = x.stopping
             /\ z.carry = x.carry /\ z.entitled = x.entitled /\ z.settled = e.period
             /\ z.deadline = (IF e.final THEN x.deadline ELSE e.period + 1)
<1> DEFINE t == IF e.final THEN x.deadline ELSE e.period + 1
           m == e.period
           z == [x EXCEPT !.settled = m, !.deadline = t]
<1>1. t \in Nat /\ m \in Nat
  BY DEF Rows
<1>2. Advanced(x, e) = z
  BY DEF Rows, Advanced
<1> HIDE DEF t, m
<1>3. /\ z \in Rows
      /\ z.exists = x.exists /\ z.status = x.status /\ z.type = x.type
      /\ z.policy = x.policy /\ z.scheduled = x.scheduled /\ z.stopping = x.stopping
      /\ z.carry = x.carry /\ z.entitled = x.entitled /\ z.settled = m
      /\ z.deadline = t
  BY <1>1 DEF Rows
<1> HIDE DEF z
<1> QED
  BY <1>2, <1>3 DEF t, m

LEMMA AccruedFields ==
  ASSUME NEW x \in Rows, NEW e, e.asset \in Assets, e.carryOut \in Nat, e.vested \in Nat
  PROVE  LET z == Accrued(x, e)
         IN  /\ z \in Rows
             /\ z.exists = x.exists /\ z.status = x.status /\ z.type = x.type
             /\ z.policy = x.policy /\ z.scheduled = x.scheduled /\ z.stopping = x.stopping
             /\ z.settled = x.settled /\ z.deadline = x.deadline
             /\ z.carry = [x.carry EXCEPT ![e.asset] = e.carryOut]
             /\ z.entitled = [x.entitled EXCEPT !["EXPENSE"][e.asset] = @ + e.vested]
<1> DEFINE z == Accrued(x, e)
<1>1. /\ z.exists = x.exists /\ z.status = x.status /\ z.type = x.type
      /\ z.policy = x.policy /\ z.scheduled = x.scheduled /\ z.stopping = x.stopping
      /\ z.settled = x.settled /\ z.deadline = x.deadline
      /\ z.carry = [x.carry EXCEPT ![e.asset] = e.carryOut]
      /\ z.entitled = [x.entitled EXCEPT !["EXPENSE"][e.asset] = @ + e.vested]
  BY DEF Rows, Accrued
<1>2. z.entitled \in AmountsPerKind /\ z.carry \in AmountsPerAsset
  BY <1>1, NothingTyped DEF Rows, AmountsPerKind, AmountsPerAsset, Kinds
<1>3. z \in Rows
  BY <1>2 DEF Rows, Accrued, Statuses
<1> QED
  BY <1>1, <1>3

LEMMA ClosedFields ==
  ASSUME NEW x \in Rows, NEW m \in AmountsPerAsset
  PROVE  LET z == Closed(x, m)
         IN  /\ z \in Rows
             /\ z.exists = x.exists /\ z.type = x.type /\ z.policy = x.policy
             /\ z.scheduled = x.scheduled /\ z.stopping = x.stopping /\ z.settled = x.settled
             /\ z.deadline = x.deadline /\ z.carry = x.carry /\ z.status = "CLOSED"
             /\ z.entitled = [x.entitled EXCEPT !["EXPENSE"] = m]
<1> DEFINE z == Closed(x, m)
<1>1. /\ z.exists = x.exists /\ z.type = x.type /\ z.policy = x.policy
      /\ z.scheduled = x.scheduled /\ z.stopping = x.stopping /\ z.settled = x.settled
      /\ z.deadline = x.deadline /\ z.carry = x.carry /\ z.status = "CLOSED"
      /\ z.entitled = [x.entitled EXCEPT !["EXPENSE"] = m]
  BY DEF Rows, Closed
<1>2. z.entitled \in AmountsPerKind /\ z.carry \in AmountsPerAsset
  BY <1>1, NothingTyped DEF Rows, AmountsPerKind, AmountsPerAsset, Kinds
<1>3. z \in Rows
  BY <1>2 DEF Rows, Closed, Statuses
<1> QED
  BY <1>1, <1>3

LEMMA CancelledFields ==
  ASSUME NEW x \in Rows, NEW m \in AmountsPerAsset
  PROVE  LET z == Cancelled(x, m)
         IN  /\ z \in Rows
             /\ z.exists = x.exists /\ z.type = x.type /\ z.policy = x.policy
             /\ z.scheduled = x.scheduled /\ z.stopping = x.stopping /\ z.settled = x.settled
             /\ z.deadline = x.deadline /\ z.carry = x.carry /\ z.status = "CANCELLED"
             /\ z.entitled =
                  [x.entitled EXCEPT !["CANCELLED_FUNDS"] = IF x.type = "ONE_TIME" THEN m ELSE @]
<1> DEFINE z == Cancelled(x, m)
<1>1. /\ z.exists = x.exists /\ z.type = x.type /\ z.policy = x.policy
      /\ z.scheduled = x.scheduled /\ z.stopping = x.stopping /\ z.settled = x.settled
      /\ z.deadline = x.deadline /\ z.carry = x.carry /\ z.status = "CANCELLED"
      /\ z.entitled =
           [x.entitled EXCEPT !["CANCELLED_FUNDS"] = IF x.type = "ONE_TIME" THEN m ELSE @]
  BY DEF Rows, Cancelled
<1>2. z.entitled \in AmountsPerKind /\ z.carry \in AmountsPerAsset
  BY <1>1, NothingTyped DEF Rows, AmountsPerKind, AmountsPerAsset, Kinds
<1>3. z \in Rows
  BY <1>2 DEF Rows, Cancelled, Statuses
<1> QED
  BY <1>1, <1>3

LEMMA ReturnedFields ==
  ASSUME NEW x \in Rows, NEW m \in AmountsPerAsset
  PROVE  LET z == Returned(x, m)
         IN  /\ z \in Rows
             /\ z.exists = x.exists /\ z.status = x.status /\ z.type = x.type
             /\ z.policy = x.policy /\ z.scheduled = x.scheduled /\ z.stopping = x.stopping
             /\ z.settled = x.settled /\ z.deadline = x.deadline /\ z.carry = Nothing
             /\ z.entitled =
                  [x.entitled EXCEPT !["CANCELLED_FUNDS"] = [a \in Assets |-> @[a] + m[a]]]
<1> DEFINE z == Returned(x, m)
<1>1. /\ z.exists = x.exists /\ z.status = x.status /\ z.type = x.type
      /\ z.policy = x.policy /\ z.scheduled = x.scheduled /\ z.stopping = x.stopping
      /\ z.settled = x.settled /\ z.deadline = x.deadline /\ z.carry = Nothing
      /\ z.entitled = [x.entitled EXCEPT !["CANCELLED_FUNDS"] = [a \in Assets |-> @[a] + m[a]]]
  BY DEF Rows, Returned
<1>2. z.entitled \in AmountsPerKind /\ z.carry \in AmountsPerAsset
  BY <1>1, NothingTyped DEF Rows, AmountsPerKind, AmountsPerAsset, Kinds
<1>3. z \in Rows
  BY <1>2 DEF Rows, Returned, Statuses
<1> QED
  BY <1>1, <1>3

-----------------------------------------------------------------------------
(* The handlers and the reset.                                              *)

\* A handler applies its event to what is projected.
LEMMA HandleIsAfter ==
  ASSUME NEW e, e \in Events,
         \/ OnGoalCreated(e) \/ OnMonthlyGoalCreated(e) \/ OnContributionReceived(e)
         \/ OnSurplusPolicyUpdated(e) \/ OnStopRequested(e) \/ OnPeriodSettled(e)
         \/ OnTokenSettled(e) \/ OnGoalClosed(e) \/ OnGoalCancelled(e)
         \/ OnMonthlyGoalCancelled(e) \/ OnReleased(e)
  PROVE  Shown(row', periods', funded', released')
           = After(Shown(row, periods, funded, released), e)
<1> DEFINE s == Shown(row, periods, funded, released)
<1>0. s.row = row /\ s.periods = periods /\ s.funded = funded /\ s.released = released
  BY DEF Shown
<1> SUFFICES /\ row' = RowAfter(s, e) /\ periods' = PeriodsAfter(s, e)
             /\ funded' = FundedAfter(s, e) /\ released' = ReleasedAfter(s, e)
  BY DEF After
<1> HIDE DEF s
<1>1. CASE OnGoalCreated(e)
  BY <1>0, <1>1 DEF OnGoalCreated, RowAfter, PeriodsAfter, FundedAfter, ReleasedAfter
<1>2. CASE OnMonthlyGoalCreated(e)
  BY <1>0, <1>2 DEF OnMonthlyGoalCreated, Scheduled, RowAfter, PeriodsAfter, FundedAfter,
                    ReleasedAfter
<1>3. CASE OnContributionReceived(e)
  BY <1>0, <1>3 DEF OnContributionReceived, CreditPeriod, OpenPeriod, RowAfter, PeriodsAfter,
                    FundedAfter, ReleasedAfter
<1>4. CASE OnSurplusPolicyUpdated(e)
  BY <1>0, <1>4 DEF OnSurplusPolicyUpdated, OpenPeriod, RowAfter, PeriodsAfter, FundedAfter,
                    ReleasedAfter
<1>5. CASE OnStopRequested(e)
  BY <1>0, <1>5 DEF OnStopRequested, RowAfter, PeriodsAfter, FundedAfter, ReleasedAfter
<1>6. CASE OnPeriodSettled(e)
  <2>1. row' = RowAfter(s, e) /\ funded' = FundedAfter(s, e) /\ released' = ReleasedAfter(s, e)
    BY <1>0, <1>6 DEF OnPeriodSettled, SettledRow, Advanced, RowAfter, FundedAfter, ReleasedAfter
  <2>2. periods' = PeriodsAfter(s, e)
    <3>1. periods' = Accounted(periods, e) /\ e.name = "MonthlyPeriodSettled"
      BY <1>6, Zenon DEF OnPeriodSettled, Accounted
    <3> QED
      BY <1>0, <3>1 DEF PeriodsAfter
  <2> QED
    BY <2>1, <2>2
<1>7. CASE OnTokenSettled(e)
  <2>1. row' = RowAfter(s, e) /\ funded' = FundedAfter(s, e) /\ released' = ReleasedAfter(s, e)
    BY <1>0, <1>7 DEF OnTokenSettled, Accrued, RowAfter, FundedAfter, ReleasedAfter
  <2>2. periods' = PeriodsAfter(s, e)
    <3>1. periods' = Carried(periods, e) /\ e.name = "MonthlyTokenSettled"
      BY <1>7, Zenon DEF OnTokenSettled, CarryForward, Carried
    <3> QED
      BY <1>0, <3>1 DEF PeriodsAfter
  <2> QED
    BY <2>1, <2>2
<1>8. CASE OnGoalClosed(e)
  BY <1>0, <1>8 DEF OnGoalClosed, ClosedRow, Closed, RowAfter, PeriodsAfter, FundedAfter,
                    ReleasedAfter
<1>9. CASE OnGoalCancelled(e)
  BY <1>0, <1>9 DEF OnGoalCancelled, CancelledRow, Cancelled, RowAfter, PeriodsAfter, FundedAfter,
                    ReleasedAfter
<1>10. CASE OnMonthlyGoalCancelled(e)
  BY <1>0, <1>10 DEF OnMonthlyGoalCancelled, Returned, RowAfter, PeriodsAfter, FundedAfter,
                      ReleasedAfter
<1>11. CASE OnReleased(e)
  BY <1>0, <1>11 DEF OnReleased, RowAfter, PeriodsAfter, FundedAfter, ReleasedAfter
<1> QED
  BY <1>1, <1>2, <1>3, <1>4, <1>5, <1>6, <1>7, <1>8, <1>9, <1>10, <1>11

LEMMA HandleStep == FundingInv /\ Handle => FundingInv'
<1> SUFFICES ASSUME FundingInv, Handle
             PROVE  FundingInv'
  OBVIOUS
<1> DEFINE e == log[applied + 1]
           s0 == Shown(row, periods, funded, released)
<1>1. PICK s, q : /\ Replays(log, s, contract, applied, q) /\ Projected(q)
                  /\ IF contract.status = "NONE" THEN contract = NoGoal /\ log = <<>>
                     ELSE Mirrors(s, contract)
  BY DEF FundingInv
<1>2. log \in Seq(Events) /\ applied < Len(log) /\ applied' = applied + 1
      /\ UNCHANGED <<contractVars, resets>>
  BY DEF FundingInv, Handle
<1>3. /\ applied \in 0..Len(log) /\ q \in Projections
      /\ applied = 0 => q = Start
  BY <1>1, <1>2, ReplayFacts
<1>4. applied + 1 \in 1..Len(log) /\ Replays(log, s, contract, applied + 1, After(q, e))
  BY <1>1, <1>2, <1>3, ReplayNext
<1>5. e \in Events
  BY <1>2, <1>4
<1>6. Shown(row', periods', funded', released') = After(s0, e)
  BY <1>5, HandleIsAfter DEF Handle
<1>7. After(s0, e) = After(q, e)
  <2>1. CASE row = q.row
    <3>1. s0 = q
      BY <1>1, <1>3, <2>1 DEF Projected, Shown, Projections
    <3> QED
      BY <3>1
  <2>2. CASE row # q.row
    <3>1. applied = 0
      BY <1>1, <2>2 DEF Projected
    <3>2. e.name = "GoalCreated"
      BY <1>2, <3>1 DEF FundingInv
    <3>3. s0.periods = q.periods /\ s0.funded = q.funded /\ s0.released = q.released
      BY <1>1 DEF Projected, Shown
    <3> HIDE DEF e, s0
    <3>4. /\ RowAfter(s0, e) = RowAfter(q, e) /\ PeriodsAfter(s0, e) = PeriodsAfter(q, e)
          /\ FundedAfter(s0, e) = FundedAfter(q, e) /\ ReleasedAfter(s0, e) = ReleasedAfter(q, e)
      BY <3>2, <3>3 DEF RowAfter, PeriodsAfter, FundedAfter, ReleasedAfter
    <3> QED
      BY <3>4 DEF After
  <2> QED
    BY <2>1, <2>2
<1>8. PICK t : t = After(q, e)
  OBVIOUS
<1>9. Projected(t)'
  BY <1>6, <1>7, <1>8 DEF Projected, Shown
<1>10. /\ contract' = contract /\ log' = log /\ now' = now /\ resets' = resets
  BY <1>2 DEF contractVars
<1>11. Replays(log', s, contract', applied', t)
  BY <1>2, <1>4, <1>8, <1>10
<1> QED
  BY <1>1, <1>9, <1>10, <1>11 DEF FundingInv

LEMMA ResetStep == FundingInv /\ ResetChainProjection => FundingInv'
<1> SUFFICES ASSUME FundingInv, ResetChainProjection
             PROVE  FundingInv'
  OBVIOUS
<1>1. PICK s, q : /\ Replays(log, s, contract, applied, q) /\ Projected(q)
                  /\ IF contract.status = "NONE" THEN contract = NoGoal /\ log = <<>>
                     ELSE Mirrors(s, contract)
  BY DEF FundingInv
<1>2. /\ contract' = contract /\ log' = log /\ now' = now /\ applied' = 0
      /\ resets' = resets + 1 /\ resets < MaxResets
  BY DEF ResetChainProjection, contractVars
<1>3. Replays(log, s, contract, 0, Start)
  BY <1>1, ReplayAgain DEF FundingInv
<1>4. Projected(Start)'
  <2>1. PICK retained \in BOOLEAN : row' = [NoRow EXCEPT !.exists = retained]
    BY DEF ResetChainProjection
  <2>2. row' = NoRow \/ row' = [NoRow EXCEPT !.exists = TRUE]
    BY <2>1 DEF NoRow
  <2>3. Start.row = NoRow /\ Start.periods = <<>> /\ Start.funded = Nothing
        /\ Start.released = [k \in Kinds |-> Nothing]
    BY DEF Start, Shown
  <2>4. periods' = <<>> /\ funded' = Nothing /\ released' = [k \in Kinds |-> Nothing]
    BY DEF ResetChainProjection, ResetPeriods
  <2> HIDE DEF Start
  <2> QED
    BY <1>2, <2>2, <2>3, <2>4 DEF Projected
<1>5. resets' \in 0..MaxResets
  BY <1>2, EscrowFundingAssumption DEF FundingInv
<1>6. Replays(log', s, contract', applied', Start)
  BY <1>2, <1>3
<1> QED
  BY <1>1, <1>2, <1>4, <1>5, <1>6 DEF FundingInv

\* The replay accepts the event the handlers are at.
LEMMA InvAccepts == FundingInv => HandlersAcceptTheLog
<1> SUFFICES ASSUME FundingInv, applied < Len(log)
             PROVE  ~Throws(log[applied + 1])
  BY DEF HandlersAcceptTheLog
<1>1. PICK s, q : Replays(log, s, contract, applied, q) /\ Projected(q)
  BY DEF FundingInv
<1>2. log \in Seq(Events) /\ applied \in 0..Len(log)
  BY <1>1, ReplayFacts DEF FundingInv
<1>3. Accepts(q, log[applied + 1])
  BY <1>1, <1>2, ReplayNext
<1>4. CASE row = q.row
  BY <1>1, <1>3, <1>4 DEF Accepts, Projected, Throws, OpenPeriod
<1>5. CASE row # q.row
  <2>1. applied = 0 /\ log[applied + 1].name = "GoalCreated"
    BY <1>1, <1>2, <1>5 DEF Projected, FundingInv
  <2> QED
    BY <2>1 DEF Throws
<1> QED
  BY <1>4, <1>5

-----------------------------------------------------------------------------
(* What the invariant says of the projection.                               *)

LEMMA RowTyped ==
  ASSUME NEW c \in Contracts, c.status # "NONE"
  PROVE  RowOf(c) \in Rows
BY DEF RowOf, Rows, Contracts, Statuses, GoalTypes

LEMMA OpenPeriodTyped ==
  ASSUME NEW c \in Contracts
  PROVE  OpenPeriodOf(c) \in Periods
BY NothingTyped DEF OpenPeriodOf, Periods, Contracts

LEMMA ImageTyped ==
  ASSUME NEW c \in Contracts, c.status # "NONE", NEW p \in Histories
  PROVE  Image(p, c) \in Projections
<1>1. Total(c) \in AmountsPerAsset
  <2>1. "EXPENSE" \in Kinds /\ "CANCELLED_FUNDS" \in Kinds
    BY DEF Kinds
  <2>2. ASSUME NEW a \in Assets
        PROVE  c.current[a] + c.carry[a] + c.entitled["EXPENSE"][a]
                 + c.entitled["CANCELLED_FUNDS"][a] \in Nat
    <3>1. /\ c.current[a] \in Nat /\ c.carry[a] \in Nat /\ c.entitled["EXPENSE"][a] \in Nat
          /\ c.entitled["CANCELLED_FUNDS"][a] \in Nat
      BY <2>1 DEF Contracts, AmountsPerKind, AmountsPerAsset
    <3> QED
      BY <3>1
  <2> QED
    BY <2>2 DEF Total, AmountsPerAsset
<1>2. RowOf(c) \in Rows
  BY RowTyped
<1>3. c.paid \in AmountsPerKind
  BY DEF Contracts
<1> QED
  BY <1>1, <1>2, <1>3 DEF Image, Shown, Projections

LEMMA ImageSound ==
  ASSUME NEW c, ContractShape(c), NEW p
  PROVE  Sound(Image(p, c), c)
<1>1. ASSUME NEW k \in Kinds, NEW a \in Assets
      PROVE  c.entitled[k][a] \in Nat /\ c.paid[k][a] \in Nat
  BY DEF ContractShape, Contracts, AmountsPerKind, AmountsPerAsset
<1>2. Image(p, c).row.entitled = c.entitled /\ Image(p, c).row.status = c.status
      /\ Image(p, c).released = c.paid
  BY DEF Image, Shown, RowOf
<1> QED
  BY <1>1, <1>2 DEF ContractShape, Sound

LEMMA HistoryNumbered ==
  ASSUME NEW p \in Histories
  PROVE  /\ IsFiniteSet(DOMAIN p) /\ Cardinality(DOMAIN p) \in Nat
         /\ DOMAIN p = 1..Cardinality(DOMAIN p)
         /\ \A i \in DOMAIN p : p[i] \in Periods
<1>1. PICK n \in Nat : p \in [1..n -> Periods]
  BY DEF Histories
<1>2. DOMAIN p = 1..n
  BY <1>1
<1>3. IsFiniteSet(1..n) /\ Cardinality(1..n) = n
  BY FS_Interval
<1> QED
  BY <1>1, <1>2, <1>3

LEMMA InvTypeOK == FundingInv => TypeOK
<1> SUFFICES ASSUME FundingInv
             PROVE  TypeOK
  OBVIOUS
<1>1. PICK s, q : Replays(log, s, contract, applied, q) /\ Projected(q)
  BY DEF FundingInv
<1>2. q \in Projections /\ applied \in 0..Len(log) /\ resets \in 0..MaxResets
  BY <1>1, ReplayFacts DEF FundingInv
<1>3. periods \in Histories /\ funded \in AmountsPerAsset /\ released \in AmountsPerKind
  BY <1>1, <1>2 DEF Projected, Projections
<1>4. row \in Rows
  <2>1. [NoRow EXCEPT !.exists = TRUE] \in Rows
    BY NothingTyped DEF NoRow, Rows, Statuses, GoalTypes, PolicyNames
  <2> QED
    BY <1>1, <1>2, <2>1 DEF Projected, Projections
<1> QED
  BY <1>2, <1>3, <1>4, HistoryNumbered DEF TypeOK, Rows, Statuses, AmountsPerKind

LEMMA InvOverstatesNothing == FundingInv => NeverOverstatesWhatIsOwed
<1> SUFFICES ASSUME FundingInv, NEW k \in Kinds, NEW a \in Assets
             PROVE  row.entitled[k][a] <= contract.entitled[k][a]
                    /\ released[k][a] <= contract.paid[k][a]
  BY DEF NeverOverstatesWhatIsOwed
<1>1. PICK s, q : Replays(log, s, contract, applied, q) /\ Projected(q)
  BY DEF FundingInv
<1>2. Sound(q, contract)
  BY <1>1, ReplayFacts DEF FundingInv
<1>3. released[k][a] <= contract.paid[k][a]
  BY <1>1, <1>2 DEF Projected, Sound
<1>4. row.entitled[k][a] <= contract.entitled[k][a]
  <2> DEFINE r == [NoRow EXCEPT !.exists = TRUE]
  <2>1. r.entitled[k][a] = 0
    BY DEF NoRow, Nothing
  <2>2. contract.entitled[k][a] \in Nat
    BY DEF FundingInv, ContractShape, Contracts, AmountsPerKind, AmountsPerAsset
  <2>3. q.row.entitled[k][a] <= contract.entitled[k][a]
    BY <1>2 DEF Sound
  <2>4. row = q.row \/ row = r
    BY <1>1 DEF Projected
  <2> HIDE DEF r
  <2> QED
    BY <2>1, <2>2, <2>3, <2>4
<1> QED
  BY <1>3, <1>4

\* Once every event is applied, the projection is the image of the contract.
LEMMA InvCaughtUp ==
  ASSUME FundingInv, CaughtUp
  PROVE  /\ row = RowOf(contract) /\ funded = Total(contract) /\ released = contract.paid
         /\ PeriodsFit(periods, contract) /\ AddsUp(Shown(row, periods, funded, released))
<1>1. PICK s, q : /\ Replays(log, s, contract, applied, q) /\ Projected(q)
                  /\ Mirrors(s, contract)
  BY DEF FundingInv, CaughtUp
<1>2. q = s /\ (log = <<>> => s = Start)
  BY <1>1, ReplayFacts DEF FundingInv, CaughtUp
<1>3. PICK p : PeriodsFit(p, contract) /\ s = Image(p, contract) /\ AddsUp(s)
  BY <1>1 DEF Mirrors
<1>4. s.row.exists = TRUE
  BY <1>3 DEF Image, Shown, RowOf
<1>5. Start.row.exists = FALSE
  BY DEF Start, Shown, NoRow
<1>6. applied # 0
  BY <1>2, <1>4, <1>5 DEF FundingInv, CaughtUp
<1>7. /\ row = s.row /\ periods = s.periods /\ funded = s.funded /\ released = s.released
  BY <1>1, <1>2, <1>6 DEF Projected
<1>8. /\ s.row = RowOf(contract) /\ s.periods = p /\ s.funded = Total(contract)
      /\ s.released = contract.paid
  BY <1>3 DEF Image, Shown
<1>9. AddsUp(Shown(row, periods, funded, released))
  BY <1>3, <1>7, <1>8 DEF Image
<1> QED
  BY <1>3, <1>7, <1>8, <1>9

LEMMA InvMatches == FundingInv => ProjectionMatchesContract
<1> SUFFICES ASSUME FundingInv, CaughtUp
             PROVE  ProjectionMatchesContract
  BY DEF ProjectionMatchesContract
<1>1. /\ row = RowOf(contract) /\ funded = Total(contract) /\ released = contract.paid
      /\ PeriodsFit(periods, contract)
  BY InvCaughtUp
<1>2. /\ row.exists /\ row.status = contract.status /\ row.type = contract.type
      /\ row.policy = contract.policy /\ row.stopping = contract.stopping
      /\ row.settled = contract.settled /\ row.carry = contract.carry
      /\ row.entitled = contract.entitled /\ released = contract.paid
  BY <1>1 DEF RowOf
<1>3. contract.type = "MONTHLY" /\ contract.status = "OPEN" =>
         /\ periods[OpenPeriod].contributed = contract.current
         /\ periods[OpenPeriod].carryIn = contract.carry
         /\ periods[OpenPeriod].policy = contract.policy
  <2>1. LET r == OpenPeriodOf(contract)
        IN  /\ r.contributed = contract.current /\ r.carryIn = contract.carry
            /\ r.policy = contract.policy
    BY DEF OpenPeriodOf
  <2>2. OpenPeriod = contract.settled + 1
    BY <1>2 DEF OpenPeriod
  <2> QED
    BY <1>1, <2>1, <2>2 DEF PeriodsFit
<1>4. \A a \in Assets : Expected(a) = Received(a) - contract.paid["EXPENSE"][a]
                                      - contract.paid["CANCELLED_FUNDS"][a]
  BY <1>1 DEF Expected, Received, Total
<1> QED
  BY <1>2, <1>3, <1>4 DEF ProjectionMatchesContract

LEMMA InvSchedule == FundingInv => ScheduleMatchesContract
<1> SUFFICES ASSUME FundingInv, CaughtUp, contract.type = "MONTHLY"
             PROVE  /\ (Phase \in {"ACTIVE", "STOPPING"})
                         = (contract.status = "OPEN" /\ Due(contract) = 0)
                    /\ PeriodsDue = Due(contract)
  BY DEF ScheduleMatchesContract
<1>1. row = RowOf(contract)
  BY InvCaughtUp
<1>2. /\ row.status = contract.status /\ row.type = "MONTHLY" /\ row.stopping = contract.stopping
      /\ contract.status = "OPEN" => row.deadline = contract.settled + 1
  BY <1>1 DEF RowOf
<1>3. contract.settled \in Nat /\ contract.stopping \in BOOLEAN /\ now \in Nat
      /\ contract.status \in {"NONE", "OPEN", "CLOSED", "CANCELLED"}
  BY DEF FundingInv, ContractShape, Contracts, Statuses
<1>4. CASE contract.status = "OPEN"
  <2>1. row.deadline = contract.settled + 1 /\ row.status = "OPEN"
    BY <1>2, <1>4
  <2>2. CASE now <= contract.settled
    <3>1. Due(contract) = 0 /\ PeriodsDue = 0 /\ row.deadline > now /\ ~(row.deadline <= now)
      BY <1>2, <1>3, <2>1, <2>2 DEF Due, PeriodsDue
    <3>2. Phase \in {"ACTIVE", "STOPPING"}
      BY <2>1, <3>1 DEF Phase
    <3> QED
      BY <1>4, <3>1, <3>2
  <2>3. CASE ~(now <= contract.settled)
    <3>1. row.deadline <= now /\ ~(row.deadline > now)
      BY <1>3, <2>1, <2>3
    <3>2. Phase = "SETTLEMENT_DUE"
      BY <2>1, <3>1 DEF Phase
    <3>3. Due(contract) # 0 /\ PeriodsDue = Due(contract)
      BY <1>2, <1>3, <1>4, <2>1, <2>3, <3>1 DEF Due, PeriodsDue
    <3> QED
      BY <3>2, <3>3
  <2> QED
    BY <2>2, <2>3
<1>5. CASE contract.status # "OPEN"
  <2>1. row.status \in {"CLOSED", "CANCELLED"}
    BY <1>2, <1>3, <1>5 DEF CaughtUp
  <2>2. Phase \in {"CLOSED", "CANCELLED"}
    BY <2>1 DEF Phase
  <2>3. Due(contract) = 0 /\ PeriodsDue = 0
    BY <1>5, <2>1 DEF Due, PeriodsDue
  <2> QED
    BY <1>5, <2>2, <2>3
<1> QED
  BY <1>4, <1>5

-----------------------------------------------------------------------------
(* Steps of the contract that emit one event.                               *)

\* A step of the contract keeps the invariant if it extends the replay to an
\* image of the new contract.
LEMMA Mirrored ==
  ASSUME FundingInv, UNCHANGED <<applied, rowVars, resets>>, now' \in Nat,
         ContractShape(contract'), contract'.status # "NONE",
         log' \in Seq(Events), log' # <<>> => log'[1].name = "GoalCreated",
         NEW q, Projected(q), NEW t, Replays(log', t, contract', applied, q),
         Mirrors(t, contract')
  PROVE  FundingInv'
<1>1. Projected(q)'
  BY DEF Projected, rowVars
<1>2. Replays(log', t, contract', applied', q)
  OBVIOUS
<1> QED
  BY <1>1, <1>2 DEF FundingInv

\* The log of a goal that exists begins with its creation.
LEMMA LogStarts ==
  ASSUME FundingInv, contract.status # "NONE", NEW x \in Seq(Events)
  PROVE  /\ log \in Seq(Events) /\ log \o x \in Seq(Events)
         /\ log \o x # <<>> => (log \o x)[1].name = "GoalCreated"
<1>1. PICK s, q : Replays(log, s, contract, applied, q) /\ Mirrors(s, contract)
  BY DEF FundingInv
<1>2. log \in Seq(Events) /\ (log # <<>> => log[1].name = "GoalCreated")
  BY DEF FundingInv
<1>3. s.row.exists = TRUE
  BY <1>1 DEF Mirrors, Image, Shown, RowOf
<1>4. Start.row.exists = FALSE
  BY DEF Start, Shown, NoRow
<1>5. log # <<>>
  BY <1>1, <1>2, <1>3, <1>4, ReplayFacts
<1>6. Len(log) # 0 /\ Len(log) \in Nat
  BY <1>2, <1>5
<1>7. (log \o x)[1] = log[1]
  BY <1>2, <1>6
<1> QED
  BY <1>2, <1>5, <1>7

\* The handler of e turns the image of the contract c into that of d.
Follows(c, e, d) ==
  \A p : PeriodsFit(p, c) /\ AddsUp(Image(p, c)) =>
           /\ Accepts(Image(p, c), e)
           /\ \E r : /\ PeriodsFit(r, d) /\ AddsUp(Image(r, d))
                     /\ After(Image(p, c), e) = Image(r, d)

LEMMA OneEvent ==
  ASSUME FundingInv, contract.status # "NONE", NEW e \in Events, log' = log \o <<e>>,
         UNCHANGED <<now, applied, rowVars, resets>>,
         NEW d, contract' = d, ContractShape(d), d.status # "NONE", Grows(contract, d),
         Follows(contract, e, d)
  PROVE  FundingInv'
<1>1. PICK s, q : /\ Replays(log, s, contract, applied, q) /\ Projected(q)
                  /\ Mirrors(s, contract)
  BY DEF FundingInv
<1>2. PICK p : PeriodsFit(p, contract) /\ s = Image(p, contract) /\ AddsUp(s)
  BY <1>1 DEF Mirrors
<1>3. PICK r : /\ PeriodsFit(r, d) /\ AddsUp(Image(r, d))
               /\ After(s, e) = Image(r, d)
  BY <1>2 DEF Follows
<1>4. Accepts(s, e)
  BY <1>2 DEF Follows
<1>5. /\ log \in Seq(Events) /\ log' = Append(log, e) /\ log' \in Seq(Events)
      /\ log' # <<>> => log'[1].name = "GoalCreated"
  <2>1. <<e>> \in Seq(Events) /\ log \in Seq(Events)
    BY DEF FundingInv
  <2>2. log \o <<e>> = Append(log, e)
    BY <2>1
  <2> QED
    BY <2>1, <2>2, LogStarts
<1>6. contract \in Contracts /\ d \in Contracts
  BY DEF FundingInv, ContractShape
<1>7. After(s, e) \in Projections /\ Sound(After(s, e), d)
  BY <1>3, <1>6, ImageTyped, ImageSound DEF PeriodsFit
<1>8. Replays(log', After(s, e), d, applied, q)
  BY <1>1, <1>2, <1>4, <1>5, <1>6, <1>7, ReplayMore
<1>9. Mirrors(After(s, e), d)
  BY <1>3 DEF Mirrors
<1>10. now' \in Nat
  BY DEF FundingInv
<1> QED
  BY <1>1, <1>5, <1>8, <1>9, <1>10, Mirrored

LEMMA TickStep == FundingInv /\ Tick => FundingInv'
<1> SUFFICES ASSUME FundingInv, Tick
             PROVE  FundingInv'
  OBVIOUS
<1>1. now' \in Nat
  BY DEF FundingInv, Tick
<1>2. /\ contract' = contract /\ log' = log /\ applied' = applied /\ resets' = resets
      /\ row' = row /\ periods' = periods /\ funded' = funded /\ released' = released
  BY DEF Tick, rowVars
<1> QED
  BY <1>1, <1>2 DEF FundingInv, Projected

\* Where nothing but the contract's payments, policy or stop differ, the sums of
\* the periods stay.
LEMMA SameSums ==
  ASSUME NEW p \in Histories, NEW r \in Histories, DOMAIN r = DOMAIN p, NEW a,
         \A i \in DOMAIN p : r[i].vested = p[i].vested /\ r[i].contributed = p[i].contributed
  PROVE  VestedIn(r, a) = VestedIn(p, a) /\ ContributedIn(r, a) = ContributedIn(p, a)
BY HistoryNumbered, SumSame DEF VestedIn, ContributedIn

LEMMA ReleaseStep == FundingInv /\ Release => FundingInv'
<1> SUFFICES ASSUME FundingInv,
                    NEW k \in Kinds, NEW a \in Assets, NEW x \in Amounts,
                    contract.paid[k][a] + x <= contract.entitled[k][a],
                    contract' = [contract EXCEPT !.paid[k][a] = @ + x],
                    Emit(<<[name |-> "Released", kind |-> k, asset |-> a, amount |-> x]>>),
                    UNCHANGED <<now, applied, rowVars, resets>>
             PROVE  FundingInv'
  BY DEF Release
<1> DEFINE e == [name |-> "Released", kind |-> k, asset |-> a, amount |-> x]
           c == contract
           d == [c EXCEPT !.paid[k][a] = @ + x]
<1>1. x \in Nat /\ e \in Events
  BY EscrowFundingAssumption DEF Events
<1>2. c \in Contracts /\ ContractShape(c)
  BY DEF FundingInv, ContractShape
<1>3. /\ d.status = c.status /\ d.type = c.type /\ d.policy = c.policy
      /\ d.stopping = c.stopping /\ d.settled = c.settled /\ d.current = c.current
      /\ d.carry = c.carry /\ d.entitled = c.entitled
      /\ d.paid = [c.paid EXCEPT ![k][a] = @ + x]
  BY <1>2 DEF Contracts
<1>4. d.paid \in AmountsPerKind
      /\ \A n \in Kinds, b \in Assets :
           /\ d.paid[n][b] = IF n = k /\ b = a THEN c.paid[n][b] + x ELSE c.paid[n][b]
           /\ c.paid[n][b] \in Nat /\ c.entitled[n][b] \in Nat
  BY <1>1, <1>2, <1>3 DEF Contracts, AmountsPerKind, AmountsPerAsset
<1>5. d \in Contracts
  BY <1>2, <1>4 DEF Contracts
<1>6. ContractShape(d)
  BY <1>2, <1>3, <1>4, <1>5 DEF ContractShape
<1>7. Grows(c, d)
  BY <1>1, <1>3, <1>4 DEF Grows
<1>8. c.status # "NONE"
  <2>1. CASE c.status = "NONE"
    <3>1. c.paid[k][a] = 0 /\ c.entitled[k][a] = 0
      BY <2>1 DEF FundingInv, NoGoal, Nothing
    <3> QED
      BY <1>1, <3>1, EscrowFundingAssumption
  <2> QED
    BY <2>1
<1>9. ASSUME NEW p, PeriodsFit(p, c), AddsUp(Image(p, c))
      PROVE  /\ Accepts(Image(p, c), e)
             /\ \E r : /\ PeriodsFit(r, d) /\ AddsUp(Image(r, d))
                       /\ After(Image(p, c), e) = Image(r, d)
  <2> DEFINE s == Image(p, c)
  <2>1. /\ s.row = RowOf(c) /\ s.periods = p /\ s.funded = Total(c) /\ s.released = c.paid
    BY DEF Image, Shown
  <2>2. RowOf(d) = RowOf(c) /\ Total(d) = Total(c) /\ OpenPeriodOf(d) = OpenPeriodOf(c)
    BY <1>3 DEF RowOf, Total, OpenPeriodOf
  <2>3. PeriodsFit(p, d)
    BY <1>3, <1>9, <2>2 DEF PeriodsFit
  <2> HIDE DEF s, d
  <2>4. After(s, e) = Shown(RowOf(c), p, Total(c), d.paid)
    BY <1>3, <2>1 DEF After, RowAfter, PeriodsAfter, FundedAfter, ReleasedAfter
  <2>5. After(s, e) = Image(p, d)
    BY <2>2, <2>4 DEF Image
  <2>6. AddsUp(Image(p, d))
    BY <1>9, <2>2 DEF AddsUp, Image, Shown
  <2>7. Accepts(s, e)
    BY <2>1 DEF Accepts, RowOf
  <2> QED
    BY <2>3, <2>5, <2>6, <2>7 DEF s
<1>10. log' = log \o <<e>> /\ contract' = d
  BY DEF Emit
<1> HIDE DEF d, e
<1>11. Follows(c, e, d)
  BY <1>9 DEF Follows
<1> QED
  BY <1>1, <1>3, <1>6, <1>7, <1>8, <1>10, <1>11, OneEvent

LEMMA HistoryLike ==
  ASSUME NEW p \in Histories, NEW r \in [DOMAIN p -> Periods]
  PROVE  r \in Histories /\ DOMAIN r = DOMAIN p
BY HistoryNumbered DEF Histories

\* What a change of the policy leaves alone.
LEMMA SameHistory ==
  ASSUME NEW p \in Histories, NEW r \in Histories, DOMAIN r = DOMAIN p, CarriesOver(p),
         \A i \in DOMAIN p :
           /\ r[i].settled = p[i].settled /\ r[i].contributed = p[i].contributed
           /\ r[i].carryIn = p[i].carryIn /\ r[i].vested = p[i].vested
           /\ r[i].carryOut = p[i].carryOut
  PROVE  CarriesOver(r)
BY DEF CarriesOver

LEMMA PolicyStep == FundingInv /\ SetMonthlySurplusPolicy => FundingInv'
<1> SUFFICES ASSUME FundingInv, contract.status = "OPEN", contract.type = "MONTHLY",
                    NEW policy \in Policies,
                    contract' = [contract EXCEPT !.policy = policy],
                    Emit(<<[name |-> "MonthlySurplusPolicyUpdated", policy |-> policy]>>),
                    UNCHANGED <<now, applied, rowVars, resets>>
             PROVE  FundingInv'
  BY DEF SetMonthlySurplusPolicy
<1> DEFINE e == [name |-> "MonthlySurplusPolicyUpdated", policy |-> policy]
           c == contract
           d == [c EXCEPT !.policy = policy]
<1>1. policy \in PolicyNames /\ e \in Events
  BY EscrowFundingAssumption DEF Events, PolicyNames
<1>2. c \in Contracts /\ ContractShape(c)
  BY DEF FundingInv, ContractShape
<1>3. /\ d.status = c.status /\ d.type = c.type /\ d.policy = policy
      /\ d.stopping = c.stopping /\ d.settled = c.settled /\ d.current = c.current
      /\ d.carry = c.carry /\ d.entitled = c.entitled /\ d.paid = c.paid
  BY <1>2 DEF Contracts
<1>4. d \in Contracts
  BY <1>1, <1>2 DEF Contracts
<1>5. ContractShape(d)
  BY <1>2, <1>3, <1>4 DEF ContractShape
<1>6. Grows(c, d)
  BY <1>2, <1>3 DEF Grows, Contracts, AmountsPerKind, AmountsPerAsset
<1>7. ASSUME NEW p, PeriodsFit(p, c), AddsUp(Image(p, c))
      PROVE  /\ Accepts(Image(p, c), e)
             /\ \E r : /\ PeriodsFit(r, d) /\ AddsUp(Image(r, d))
                       /\ After(Image(p, c), e) = Image(r, d)
  <2> DEFINE s == Image(p, c)
             r == [i \in DOMAIN p |-> IF i = c.settled + 1 /\ ~p[i].settled
                                      THEN [p[i] EXCEPT !.policy = policy] ELSE p[i]]
  <2>1. /\ s.row = RowOf(c) /\ s.periods = p /\ s.funded = Total(c) /\ s.released = c.paid
    BY DEF Image, Shown
  <2>2. p \in Histories /\ (\A i \in DOMAIN p : p[i] \in Periods)
        /\ DOMAIN p = 1..c.settled + 1 /\ p[c.settled + 1] = OpenPeriodOf(c)
    BY <1>7, HistoryNumbered DEF PeriodsFit
  <2>3. OpenPeriodOf(c).settled = FALSE
        /\ [OpenPeriodOf(c) EXCEPT !.policy = policy] = OpenPeriodOf(d)
    <3> HIDE DEF d
    <3>1. OpenPeriodOf(c) \in Periods /\ OpenPeriodOf(d) \in Periods
      BY <1>2, <1>4, OpenPeriodTyped
    <3>2. LET x == OpenPeriodOf(c)
              y == OpenPeriodOf(d)
          IN  /\ y.policy = policy /\ y.final = x.final /\ y.settled = x.settled
              /\ y.contributed = x.contributed /\ y.carryIn = x.carryIn
              /\ y.vested = x.vested /\ y.carryOut = x.carryOut /\ x.settled = FALSE
      BY <1>3 DEF OpenPeriodOf
    <3> QED
      BY <3>1, <3>2 DEF Periods
  <2>4. ASSUME NEW i \in DOMAIN p
        PROVE  /\ r[i] \in Periods
               /\ r[i].settled = p[i].settled /\ r[i].contributed = p[i].contributed
               /\ r[i].carryIn = p[i].carryIn /\ r[i].vested = p[i].vested
               /\ r[i].carryOut = p[i].carryOut
    BY <1>1, <2>2 DEF Periods
  <2>5. c.settled \in Nat /\ c.settled + 1 \in DOMAIN p
    BY <1>2, <2>2 DEF Contracts
  <2>6. r[c.settled + 1] = OpenPeriodOf(d)
    BY <2>2, <2>3, <2>5
  <2>7. r \in Histories /\ DOMAIN r = DOMAIN p
    BY <2>2, <2>4, HistoryLike
  <2>8. PeriodsFit(r, d)
    BY <1>3, <2>2, <2>6, <2>7 DEF PeriodsFit
  <2>9. RowOf(d) = [RowOf(c) EXCEPT !.policy = policy] /\ Total(d) = Total(c)
    <3> HIDE DEF d
    <3>1. RowOf(c) \in Rows /\ RowOf(d) \in Rows
      BY <1>2, <1>3, <1>4, RowTyped
    <3>2. LET x == RowOf(c)
              y == RowOf(d)
          IN  /\ y.exists = x.exists /\ y.type = x.type /\ y.scheduled = x.scheduled
              /\ y.settled = x.settled /\ y.carry = x.carry
              /\ y.status = x.status /\ y.policy = policy /\ y.stopping = x.stopping
              /\ y.deadline = x.deadline /\ y.entitled = x.entitled
      BY <1>3 DEF RowOf
    <3> QED
      BY <3>1, <3>2, <1>3 DEF Rows, Total
  <2>10. AddsUp(Image(r, d))
    <3>1. /\ CarriesOver(p)
          /\ \A a \in Assets : c.entitled["EXPENSE"][a] = VestedIn(p, a)
                               /\ Total(c)[a] = ContributedIn(p, a)
      BY <1>7 DEF AddsUp, Image, Shown, RowOf
    <3> HIDE DEF r, d
    <3>2. CarriesOver(r)
      BY <2>2, <2>4, <2>7, <3>1, SameHistory
    <3>3. \A a \in Assets :
            VestedIn(r, a) = VestedIn(p, a) /\ ContributedIn(r, a) = ContributedIn(p, a)
      BY <2>2, <2>4, <2>7, SameSums
    <3> QED
      BY <1>3, <2>9, <3>1, <3>2, <3>3 DEF AddsUp, Image, Shown, RowOf
  <2>11. RowOf(c).settled = c.settled /\ RowOf(c).exists
    BY DEF RowOf
  <2> HIDE DEF s, d
  <2>12. PeriodsAfter(s, e) = r
    BY <2>1, <2>11 DEF PeriodsAfter
  <2>13. RowAfter(s, e) = RowOf(d)
    BY <2>1, <2>9 DEF RowAfter
  <2> HIDE DEF r
  <2>14. After(s, e) = Image(r, d)
    BY <1>3, <2>1, <2>9, <2>12, <2>13 DEF After, FundedAfter, ReleasedAfter, Image
  <2>15. Accepts(s, e)
    BY <2>1, <2>11 DEF Accepts
  <2> QED
    BY <2>8, <2>10, <2>14, <2>15 DEF s
<1>8. log' = log \o <<e>> /\ contract' = d
  BY DEF Emit
<1> HIDE DEF d, e
<1>9. Follows(c, e, d)
  BY <1>7 DEF Follows
<1> QED
  BY <1>1, <1>3, <1>5, <1>6, <1>8, <1>9, OneEvent

LEMMA StopStep == FundingInv /\ RequestMonthlyGoalStop => FundingInv'
<1> SUFFICES ASSUME FundingInv, contract.status = "OPEN", contract.type = "MONTHLY",
                    contract' = [contract EXCEPT !.stopping = TRUE],
                    Emit(<<[name |-> "MonthlyGoalStopRequested"]>>),
                    UNCHANGED <<now, applied, rowVars, resets>>
             PROVE  FundingInv'
  BY DEF RequestMonthlyGoalStop
<1> DEFINE e == [name |-> "MonthlyGoalStopRequested"]
           c == contract
           d == [c EXCEPT !.stopping = TRUE]
<1>1. e \in Events
  BY DEF Events
<1>2. c \in Contracts /\ ContractShape(c)
  BY DEF FundingInv, ContractShape
<1>3. /\ d.status = c.status /\ d.type = c.type /\ d.policy = c.policy
      /\ d.stopping = TRUE /\ d.settled = c.settled /\ d.current = c.current
      /\ d.carry = c.carry /\ d.entitled = c.entitled /\ d.paid = c.paid
  BY <1>2 DEF Contracts
<1>4. d \in Contracts
  BY <1>1, <1>2 DEF Contracts
<1>5. ContractShape(d)
  BY <1>2, <1>3, <1>4 DEF ContractShape
<1>6. Grows(c, d)
  BY <1>2, <1>3 DEF Grows, Contracts, AmountsPerKind, AmountsPerAsset
<1>7. ASSUME NEW p, PeriodsFit(p, c), AddsUp(Image(p, c))
      PROVE  /\ Accepts(Image(p, c), e)
             /\ \E r : /\ PeriodsFit(r, d) /\ AddsUp(Image(r, d))
                       /\ After(Image(p, c), e) = Image(r, d)
  <2> DEFINE s == Image(p, c)
  <2>1. /\ s.row = RowOf(c) /\ s.periods = p /\ s.funded = Total(c) /\ s.released = c.paid
    BY DEF Image, Shown
  <2>2. /\ RowOf(d) = [RowOf(c) EXCEPT !.stopping = TRUE] /\ Total(d) = Total(c)
        /\ OpenPeriodOf(d) = OpenPeriodOf(c) /\ RowOf(c).exists
    <3> HIDE DEF d
    <3>1. RowOf(c) \in Rows /\ RowOf(d) \in Rows
      BY <1>2, <1>3, <1>4, RowTyped
    <3>2. LET x == RowOf(c)
              y == RowOf(d)
          IN  /\ y.exists = x.exists /\ y.type = x.type /\ y.scheduled = x.scheduled
              /\ y.settled = x.settled /\ y.carry = x.carry
              /\ y.status = x.status /\ y.policy = x.policy /\ y.stopping = TRUE
              /\ y.deadline = x.deadline /\ y.entitled = x.entitled /\ x.exists
      BY <1>3 DEF RowOf
    <3>3. Total(d) = Total(c) /\ OpenPeriodOf(d) = OpenPeriodOf(c) /\ RowOf(c).exists
      BY <1>3, <3>2 DEF Total, OpenPeriodOf
    <3>4. RowOf(d) = [RowOf(c) EXCEPT !.stopping = TRUE]
      BY <3>1, <3>2 DEF Rows
    <3> QED
      BY <3>3, <3>4
  <2>3. PeriodsFit(p, d)
    BY <1>3, <1>7, <2>2 DEF PeriodsFit
  <2>4. AddsUp(Image(p, d))
    BY <1>3, <1>7, <2>2 DEF AddsUp, Image, Shown, RowOf
  <2> HIDE DEF s, d
  <2>5. RowAfter(s, e) = RowOf(d) /\ PeriodsAfter(s, e) = p /\ FundedAfter(s, e) = Total(d)
        /\ ReleasedAfter(s, e) = d.paid
    BY <1>3, <2>1, <2>2 DEF RowAfter, PeriodsAfter, FundedAfter, ReleasedAfter
  <2>6. After(s, e) = Image(p, d)
    BY <2>5 DEF After, Image
  <2>7. Accepts(s, e)
    BY <2>1, <2>2 DEF Accepts
  <2> QED
    BY <2>3, <2>4, <2>6, <2>7 DEF s
<1>8. log' = log \o <<e>> /\ contract' = d
  BY DEF Emit
<1> HIDE DEF d, e
<1>9. Follows(c, e, d)
  BY <1>7 DEF Follows
<1> QED
  BY <1>1, <1>3, <1>5, <1>6, <1>8, <1>9, OneEvent

LEMMA CloseStep == FundingInv /\ CloseGoal => FundingInv'
<1> SUFFICES ASSUME FundingInv, contract.status = "OPEN", contract.type = "ONE_TIME",
                    contract' = [contract EXCEPT !.status = "CLOSED", !.current = Nothing,
                                                 !.entitled["EXPENSE"] = contract.current],
                    Emit(<<[name |-> "GoalClosed", entitled |-> contract.current]>>),
                    UNCHANGED <<now, applied, rowVars, resets>>
             PROVE  FundingInv'
  BY DEF CloseGoal
<1> DEFINE c == contract
           e == [name |-> "GoalClosed", entitled |-> c.current]
           d == [c EXCEPT !.status = "CLOSED", !.current = Nothing,
                          !.entitled["EXPENSE"] = c.current]
<1>1. c \in Contracts /\ ContractShape(c) /\ e \in Events
  BY DEF FundingInv, ContractShape, Contracts, Events
<1>2. /\ d.status = "CLOSED" /\ d.type = c.type /\ d.policy = c.policy
      /\ d.stopping = c.stopping /\ d.settled = c.settled /\ d.current = Nothing
      /\ d.carry = c.carry /\ d.entitled = [c.entitled EXCEPT !["EXPENSE"] = c.current]
      /\ d.paid = c.paid
  BY <1>1 DEF Contracts
<1>3. /\ c.entitled["EXPENSE"] = Nothing /\ c.carry = Nothing
      /\ c.entitled["CANCELLED_FUNDS"] = Nothing
  BY <1>1 DEF ContractShape
<1>4. /\ d.entitled["EXPENSE"] = c.current /\ d.entitled["CANCELLED_FUNDS"] = Nothing
      /\ d.entitled \in AmountsPerKind
  BY <1>1, <1>2, <1>3 DEF Contracts, AmountsPerKind, Kinds
<1>5. \A a \in Assets : c.current[a] \in Nat /\ Nothing[a] = 0
  BY <1>1 DEF Contracts, AmountsPerAsset, Nothing
<1>6. d \in Contracts
  BY <1>1, <1>4, NothingTyped DEF Contracts, Statuses
<1>7. /\ \A k \in Kinds, a \in Assets : c.entitled[k][a] <= d.entitled[k][a]
      /\ \A k \in Kinds, a \in Assets : c.paid[k][a] \in Nat /\ c.entitled[k][a] \in Nat
                                        /\ d.entitled[k][a] \in Nat
  <2>1. \A k \in Kinds : k = "EXPENSE" \/ k = "CANCELLED_FUNDS"
    BY DEF Kinds
  <2>2. \A k \in Kinds, a \in Assets : c.paid[k][a] \in Nat /\ c.entitled[k][a] \in Nat
                                       /\ d.entitled[k][a] \in Nat
    BY <1>1, <1>4 DEF Contracts, AmountsPerKind, AmountsPerAsset
  <2> HIDE DEF d
  <2> QED
    BY <1>3, <1>4, <1>5, <2>1, <2>2
<1>8. ContractShape(d)
  <2>1. \A k \in Kinds, a \in Assets : d.paid[k][a] <= d.entitled[k][a]
    <3>1. \A k \in Kinds, a \in Assets : c.paid[k][a] <= c.entitled[k][a]
      BY <1>1 DEF ContractShape
    <3> HIDE DEF d
    <3> QED
      BY <1>2, <1>7, <3>1
  <2> QED
    BY <1>2, <1>6, <2>1 DEF ContractShape
<1>9. Grows(c, d)
  BY <1>2, <1>7 DEF Grows
<1>10. ASSUME NEW p, PeriodsFit(p, c), AddsUp(Image(p, c))
      PROVE  /\ Accepts(Image(p, c), e)
             /\ \E r : /\ PeriodsFit(r, d) /\ AddsUp(Image(r, d))
                       /\ After(Image(p, c), e) = Image(r, d)
  <2> DEFINE s == Image(p, c)
  <2>1. /\ s.row = RowOf(c) /\ s.periods = p /\ s.funded = Total(c) /\ s.released = c.paid
    BY DEF Image, Shown
  <2>2. RowOf(d) = Closed(RowOf(c), c.current)
        /\ RowOf(c).exists
    <3> DEFINE x == RowOf(c)
               y == RowOf(d)
               m == c.current
    <3>1. x \in Rows /\ y \in Rows /\ m \in AmountsPerAsset
      BY <1>1, <1>2, <1>6, RowTyped DEF Contracts
    <3>2. /\ y.exists = x.exists /\ y.type = x.type /\ y.scheduled = x.scheduled
          /\ y.settled = x.settled /\ y.carry = x.carry
          /\ y.status = "CLOSED" /\ y.policy = x.policy /\ y.stopping = x.stopping
          /\ y.deadline = x.deadline
          /\ y.entitled = [x.entitled EXCEPT !["EXPENSE"] = m]
      <4> HIDE DEF d
      <4> QED
        BY <1>2 DEF RowOf
    <3> HIDE DEF d, x, y, m
    <3>3. y = Closed(x, m)
      BY <3>1, <3>2, ClosedFields, RowEqual
    <3>4. x.exists
      BY DEF x, RowOf
    <3> QED
      BY <3>3, <3>4 DEF x, y, m
  <2>3. Total(d) = Total(c)
    <3> HIDE DEF d
    <3> QED
      BY <1>2, <1>3, <1>4, <1>5 DEF Total
  <2>4. PeriodsFit(p, d)
    BY <1>2, <1>10 DEF PeriodsFit
  <2>5. AddsUp(Image(p, d))
    BY <1>2 DEF AddsUp, Image, Shown, RowOf
  <2> HIDE DEF s, d
  <2>6. RowAfter(s, e) = RowOf(d) /\ PeriodsAfter(s, e) = p /\ FundedAfter(s, e) = Total(d)
        /\ ReleasedAfter(s, e) = d.paid
    BY <1>2, <2>1, <2>2, <2>3 DEF RowAfter, PeriodsAfter, FundedAfter, ReleasedAfter
  <2>7. After(s, e) = Image(p, d)
    BY <2>6 DEF After, Image
  <2>8. Accepts(s, e)
    BY <2>1, <2>2 DEF Accepts
  <2> QED
    BY <2>4, <2>5, <2>7, <2>8 DEF s
<1>11. log' = log \o <<e>> /\ contract' = d
  BY DEF Emit
<1> HIDE DEF d, e
<1>12. Follows(c, e, d)
  BY <1>10 DEF Follows
<1> QED
  BY <1>1, <1>2, <1>8, <1>9, <1>11, <1>12, OneEvent

LEMMA ContributeStep == FundingInv /\ Contribute => FundingInv'
<1> SUFFICES ASSUME FundingInv, contract.status = "OPEN",
                    NEW a \in Assets, NEW x \in Amounts,
                    contract' = [contract EXCEPT !.current[a] = @ + x],
                    Emit(<<[name |-> "ContributionReceived", asset |-> a, amount |-> x]>>),
                    UNCHANGED <<now, applied, rowVars, resets>>
             PROVE  FundingInv'
  BY DEF Contribute
<1> DEFINE e == [name |-> "ContributionReceived", asset |-> a, amount |-> x]
           c == contract
           d == [c EXCEPT !.current[a] = @ + x]
<1>1. x \in Nat /\ e \in Events
  BY EscrowFundingAssumption DEF Events
<1>2. c \in Contracts /\ ContractShape(c)
  BY DEF FundingInv, ContractShape
<1>3. /\ d.status = c.status /\ d.type = c.type /\ d.policy = c.policy
      /\ d.stopping = c.stopping /\ d.settled = c.settled
      /\ d.current = [c.current EXCEPT ![a] = @ + x]
      /\ d.carry = c.carry /\ d.entitled = c.entitled /\ d.paid = c.paid
  BY <1>2 DEF Contracts
<1>4. d.current \in AmountsPerAsset
      /\ \A b \in Assets : /\ d.current[b] = IF b = a THEN c.current[b] + x ELSE c.current[b]
                           /\ c.current[b] \in Nat /\ c.carry[b] \in Nat
                           /\ c.entitled["EXPENSE"][b] \in Nat
                           /\ c.entitled["CANCELLED_FUNDS"][b] \in Nat
  <2>1. "EXPENSE" \in Kinds /\ "CANCELLED_FUNDS" \in Kinds
    BY DEF Kinds
  <2> QED
    BY <1>1, <1>2, <1>3, <2>1 DEF Contracts, AmountsPerKind, AmountsPerAsset
<1>5. d \in Contracts
  BY <1>2, <1>4 DEF Contracts
<1>6. ContractShape(d)
  BY <1>2, <1>3, <1>5 DEF ContractShape
<1>7. Grows(c, d)
  BY <1>2, <1>3 DEF Grows, Contracts, AmountsPerKind, AmountsPerAsset
<1>8. Total(d) = [Total(c) EXCEPT ![a] = @ + x]
  <2> HIDE DEF d
  <2>1. ASSUME NEW b \in Assets
        PROVE  Total(d)[b] = IF b = a THEN Total(c)[b] + x ELSE Total(c)[b]
    BY <1>1, <1>3, <1>4 DEF Total
  <2>2. Total(d) = [b \in Assets |-> Total(d)[b]] /\ Total(c) = [b \in Assets |-> Total(c)[b]]
    BY DEF Total
  <2> HIDE DEF c
  <2> QED
    BY <2>1, <2>2
<1>9. ASSUME NEW p, PeriodsFit(p, c), AddsUp(Image(p, c))
      PROVE  /\ Accepts(Image(p, c), e)
             /\ \E r : /\ PeriodsFit(r, d) /\ AddsUp(Image(r, d))
                       /\ After(Image(p, c), e) = Image(r, d)
  <2> DEFINE s == Image(p, c)
             n == c.settled + 1
             r == IF c.type = "MONTHLY" THEN [p EXCEPT ![n].contributed[a] = @ + x] ELSE p
  <2>1. /\ s.row = RowOf(c) /\ s.periods = p /\ s.funded = Total(c) /\ s.released = c.paid
    BY DEF Image, Shown
  <2>2. RowOf(d) = RowOf(c)
    <3> HIDE DEF d
    <3> QED
      BY <1>3 DEF RowOf
  <2>3. p \in Histories
    BY <1>9 DEF PeriodsFit
  <2>4. ASSUME c.type = "MONTHLY"
        PROVE  /\ n \in DOMAIN p /\ DOMAIN p = 1..n /\ p[n] = OpenPeriodOf(c)
               /\ r = [p EXCEPT ![n] = OpenPeriodOf(d)]
               /\ r \in Histories /\ DOMAIN r = DOMAIN p
               /\ r[n] = OpenPeriodOf(d) /\ \A i \in DOMAIN p : i # n => r[i] = p[i]
    <3>1. n \in DOMAIN p /\ DOMAIN p = 1..n /\ p[n] = OpenPeriodOf(c)
      BY <1>2, <1>9, <2>4 DEF PeriodsFit, Contracts
    <3>2. OpenPeriodOf(c) \in Periods /\ OpenPeriodOf(d) \in Periods
      BY <1>2, <1>5, OpenPeriodTyped
    <3>3. [OpenPeriodOf(c) EXCEPT !.contributed[a] = @ + x] = OpenPeriodOf(d)
      <4> DEFINE y == OpenPeriodOf(c)
                 z == OpenPeriodOf(d)
      <4>1. /\ z.policy = y.policy /\ z.final = y.final /\ z.settled = y.settled
            /\ z.contributed = [y.contributed EXCEPT ![a] = @ + x]
            /\ z.carryIn = y.carryIn /\ z.vested = y.vested /\ z.carryOut = y.carryOut
        <5> HIDE DEF d
        <5> QED
          BY <1>3 DEF OpenPeriodOf
      <4> HIDE DEF d, y, z
      <4>2. y \in Periods /\ z \in Periods
        BY <3>2 DEF y, z
      <4>3. [y EXCEPT !.contributed[a] = @ + x] = z
        BY <4>1, <4>2 DEF Periods
      <4> QED
        BY <4>3 DEF y, z
    <3>4. r = [p EXCEPT ![n].contributed[a] = @ + x]
      BY <2>4
    <3> HIDE DEF r, d, n
    <3>5. r = [p EXCEPT ![n] = OpenPeriodOf(d)]
      BY <3>1, <3>3, <3>4
    <3>6. r \in [DOMAIN p -> Periods]
      BY <2>3, <3>2, <3>5, HistoryNumbered
    <3> QED
      BY <2>3, <3>1, <3>5, <3>6, HistoryLike
  <2>5. PeriodsFit(r, d)
    <3>1. CASE c.type = "MONTHLY"
      BY <1>3, <1>9, <2>4, <3>1 DEF PeriodsFit
    <3>2. CASE c.type = "ONE_TIME"
      BY <1>3, <1>9, <3>2 DEF PeriodsFit
    <3> QED
      BY <1>2, <3>1, <3>2 DEF Contracts, GoalTypes
  <2>6. AddsUp(Image(r, d))
    <3> SUFFICES ASSUME c.type = "MONTHLY"
                 PROVE  /\ CarriesOver(r)
                        /\ \A b \in Assets : /\ d.entitled["EXPENSE"][b] = VestedIn(r, b)
                                             /\ Total(d)[b] = ContributedIn(r, b)
      BY <1>3 DEF AddsUp, Image, Shown, RowOf
    <3> HIDE DEF r, d, n
    <3>1. /\ CarriesOver(p)
          /\ \A b \in Assets : c.entitled["EXPENSE"][b] = VestedIn(p, b)
                               /\ Total(c)[b] = ContributedIn(p, b)
      BY <1>9 DEF AddsUp, Image, Shown, RowOf
    <3>2. /\ OpenPeriodOf(c).settled = FALSE /\ OpenPeriodOf(d).settled = FALSE
          /\ OpenPeriodOf(d).carryIn = OpenPeriodOf(c).carryIn
          /\ OpenPeriodOf(d).vested = OpenPeriodOf(c).vested
          /\ OpenPeriodOf(c).contributed = c.current
          /\ OpenPeriodOf(d).contributed = d.current
      BY <1>3 DEF OpenPeriodOf
    <3>3. CarriesOver(r)
      BY <2>4, <3>1, <3>2 DEF CarriesOver
    <3>4. IsFiniteSet(DOMAIN p) /\ \A i \in DOMAIN p, b \in Assets :
            p[i].contributed[b] \in Nat /\ r[i].contributed[b] \in Nat
            /\ r[i].vested = p[i].vested
      <4>1. \A i \in DOMAIN p : p[i] \in Periods /\ r[i] \in Periods
        BY <2>3, <2>4, HistoryNumbered
      <4>2. \A i \in DOMAIN p, b \in Assets :
              p[i].contributed[b] \in Nat /\ r[i].contributed[b] \in Nat
        BY <4>1 DEF Periods, AmountsPerAsset
      <4>3. \A i \in DOMAIN p : r[i].vested = p[i].vested
        BY <2>4, <3>2
      <4> QED
        BY <2>3, <4>2, <4>3, HistoryNumbered
    <3>5. ASSUME NEW b \in Assets
          PROVE  VestedIn(r, b) = VestedIn(p, b)
      BY <2>4, <3>4, SumSame DEF VestedIn
    <3>6. ASSUME NEW b \in Assets
          PROVE  ContributedIn(r, b) = ContributedIn(p, b) - c.current[b] + d.current[b]
      <4> DEFINE S == DOMAIN p
                 f == [i \in S |-> p[i].contributed[b]]
                 g == [i \in S |-> r[i].contributed[b]]
      <4>1. n \in S /\ (\A i \in S : f[i] \in Nat /\ g[i] \in Nat)
            /\ (\A i \in S \ {n} : f[i] = g[i]) /\ f[n] = c.current[b] /\ g[n] = d.current[b]
        BY <2>4, <3>2, <3>4
      <4>2. ContributedIn(r, b) = Sum(S, g) /\ ContributedIn(p, b) = Sum(S, f)
        BY <2>4 DEF ContributedIn
      <4> HIDE DEF f, g, S
      <4>3. IsFiniteSet(S)
        BY <3>4 DEF S
      <4>4. Sum(S, g) = Sum(S, f) - f[n] + g[n]
        <5>1. n \in S /\ (\A i \in S : f[i] \in Nat /\ g[i] \in Nat)
              /\ \A i \in S \ {n} : f[i] = g[i]
          BY <4>1
        <5>2. PICK k : k = n
          OBVIOUS
        <5>3. k \in S /\ \A i \in S \ {k} : f[i] = g[i]
          BY <5>1, <5>2
        <5>4. Sum(S, g) = Sum(S, f) - f[k] + g[k]
          BY <4>3, <5>1, <5>3, SumChange
        <5> QED
          BY <5>2, <5>4
      <4>5. f[n] = c.current[b] /\ g[n] = d.current[b]
        BY <4>1
      <4> QED
        BY <4>2, <4>4, <4>5
    <3>7. ASSUME NEW b \in Assets
          PROVE  Total(d)[b] = Total(c)[b] - c.current[b] + d.current[b]
      BY <1>1, <1>3, <1>4 DEF Total
    <3> QED
      BY <1>3, <3>1, <3>3, <3>5, <3>6, <3>7
  <2>7. RowOf(c).settled = c.settled /\ RowOf(c).exists /\ RowOf(c).type = c.type
    BY DEF RowOf
  <2>8. Accepts(s, e)
    BY <2>1, <2>4, <2>7 DEF Accepts
  <2> HIDE DEF s, d
  <2>9. PeriodsAfter(s, e) = r
    BY <2>1, <2>7 DEF PeriodsAfter
  <2>10. RowAfter(s, e) = RowOf(d) /\ FundedAfter(s, e) = Total(d) /\ ReleasedAfter(s, e) = d.paid
    BY <1>3, <1>8, <2>1, <2>2 DEF RowAfter, FundedAfter, ReleasedAfter
  <2> HIDE DEF r
  <2>11. After(s, e) = Image(r, d)
    BY <2>9, <2>10 DEF After, Image
  <2> QED
    BY <2>5, <2>6, <2>8, <2>11 DEF s
<1>10. log' = log \o <<e>> /\ contract' = d
  BY DEF Emit
<1> HIDE DEF d, e
<1>11. Follows(c, e, d)
  BY <1>9 DEF Follows
<1> QED
  BY <1>1, <1>3, <1>6, <1>7, <1>10, <1>11, OneEvent

-----------------------------------------------------------------------------
(* The creation of a goal.                                                  *)

LEMMA LongerFields ==
  ASSUME NEW n \in Nat, NEW p \in [1..n -> Periods], NEW x \in Periods
  PROVE  /\ WithPeriod(p, n + 1, x) \in [1..n + 1 -> Periods]
         /\ WithPeriod(p, n + 1, x) \in Histories
         /\ WithPeriod(p, n + 1, x)[n + 1] = x
         /\ \A i \in 1..n : WithPeriod(p, n + 1, x)[i] = p[i]
<1> DEFINE r == WithPeriod(p, n + 1, x)
<1>1. {n + 1} \cup 1..n = 1..n + 1 /\ n + 1 \notin 1..n
  OBVIOUS
<1>2. r[n + 1] = x /\ (\A i \in 1..n : r[i] = p[i]) /\ r = [i \in {n + 1} \cup 1..n |-> r[i]]
  <2> DEFINE k == n + 1
  <2>1. \A i \in 1..n : i # k
    BY <1>1
  <2> HIDE DEF k
  <2>2. DOMAIN p = 1..n
    OBVIOUS
  <2>3. WithPeriod(p, k, x) = [i \in {k} \cup 1..n |-> IF i \in {k} THEN x ELSE p[i]]
    BY <2>2 DEF WithPeriod
  <2> QED
    BY <2>1, <2>3 DEF k
<1>3. r = [i \in 1..n + 1 |-> r[i]]
  BY <1>1, <1>2
<1> HIDE DEF r
<1>4. r \in [1..n + 1 -> Periods]
  <2>1. \A i \in 1..n + 1 : i = n + 1 \/ i \in 1..n
    OBVIOUS
  <2>2. \A i \in 1..n + 1 : r[i] \in Periods
    BY <1>2, <2>1
  <2> QED
    BY <1>3, <2>2
<1>5. r \in Histories
  <2>1. n + 1 \in Nat
    OBVIOUS
  <2> QED
    BY <1>4, <2>1 DEF Histories
<1> QED
  BY <1>2, <1>4, <1>5 DEF r

LEMMA LongerSums ==
  ASSUME NEW n \in Nat, NEW p \in [1..n -> Periods], NEW x \in Periods, NEW a \in Assets
  PROVE  /\ VestedIn(WithPeriod(p, n + 1, x), a) = VestedIn(p, a) + x.vested[a]
         /\ ContributedIn(WithPeriod(p, n + 1, x), a) = ContributedIn(p, a) + x.contributed[a]
<1> DEFINE r == WithPeriod(p, n + 1, x)
           S == 1..n + 1
<1>1. r \in [S -> Periods] /\ r[n + 1] = x /\ \A i \in 1..n : r[i] = p[i]
  BY LongerFields
<1>2. IsFiniteSet(S) /\ n + 1 \in S /\ S \ {n + 1} = 1..n /\ 1..n \in SUBSET S
      /\ IsFiniteSet(1..n)
  <2>1. IsFiniteSet(1..n + 1) /\ IsFiniteSet(1..n)
    BY FS_Interval
  <2> QED
    BY <2>1
<1> HIDE DEF r
<1>3. \A i \in S : r[i].vested[a] \in Nat /\ r[i].contributed[a] \in Nat
  BY <1>1 DEF Periods, AmountsPerAsset
<1>4. VestedIn(r, a) = VestedIn(p, a) + x.vested[a]
  <2> DEFINE m == [i \in S |-> r[i].vested[a]]
             k == [i \in 1..n |-> p[i].vested[a]]
  <2>1. VestedIn(r, a) = Sum(S, m) /\ VestedIn(p, a) = Sum(1..n, k)
    BY <1>1 DEF VestedIn
  <2>2. m[n + 1] = x.vested[a] /\ (\A i \in S : m[i] \in Nat)
        /\ \A i \in 1..n : m[i] = k[i] /\ k[i] \in Nat
    BY <1>1, <1>2, <1>3
  <2> HIDE DEF m, k, S
  <2>3. Sum(S, m) = m[n + 1] + Sum(1..n, m) /\ Sum(1..n, m) \in Nat
    <3>1. \A z \in SUBSET S : Sum(z, m) \in Nat /\ \A y \in z : Sum(z, m) = m[y] + Sum(z \ {y}, m)
      BY <1>2, <2>2, SumRemove
    <3> QED
      BY <1>2, <3>1
  <2>4. Sum(1..n, m) = Sum(1..n, k)
    <3> DEFINE T == 1..n
    <3>1. IsFiniteSet(T) /\ \A i \in T : m[i] = k[i]
      BY <1>2, <2>2
    <3> HIDE DEF T
    <3>2. Sum(T, m) = Sum(T, k)
      BY <3>1, SumSame
    <3> QED
      BY <3>2 DEF T
  <2>5. m[n + 1] \in Nat
    BY <1>2, <2>2
  <2> QED
    BY <2>1, <2>2, <2>3, <2>4, <2>5
<1>5. ContributedIn(r, a) = ContributedIn(p, a) + x.contributed[a]
  <2> DEFINE m == [i \in S |-> r[i].contributed[a]]
             k == [i \in 1..n |-> p[i].contributed[a]]
  <2>1. ContributedIn(r, a) = Sum(S, m) /\ ContributedIn(p, a) = Sum(1..n, k)
    BY <1>1 DEF ContributedIn
  <2>2. m[n + 1] = x.contributed[a] /\ (\A i \in S : m[i] \in Nat)
        /\ \A i \in 1..n : m[i] = k[i] /\ k[i] \in Nat
    BY <1>1, <1>2, <1>3
  <2> HIDE DEF m, k, S
  <2>3. Sum(S, m) = m[n + 1] + Sum(1..n, m) /\ Sum(1..n, m) \in Nat
    <3>1. \A z \in SUBSET S : Sum(z, m) \in Nat /\ \A y \in z : Sum(z, m) = m[y] + Sum(z \ {y}, m)
      BY <1>2, <2>2, SumRemove
    <3> QED
      BY <1>2, <3>1
  <2>4. Sum(1..n, m) = Sum(1..n, k)
    <3> DEFINE T == 1..n
    <3>1. IsFiniteSet(T) /\ \A i \in T : m[i] = k[i]
      BY <1>2, <2>2
    <3> HIDE DEF T
    <3>2. Sum(T, m) = Sum(T, k)
      BY <3>1, SumSame
    <3> QED
      BY <3>2 DEF T
  <2>5. m[n + 1] \in Nat
    BY <1>2, <2>2
  <2> QED
    BY <2>1, <2>2, <2>3, <2>4, <2>5
<1> QED
  BY <1>4, <1>5 DEF r

\* A history without periods sums up to nothing.
LEMMA EmptySums ==
  ASSUME NEW a
  PROVE  VestedIn(<<>>, a) = 0 /\ ContributedIn(<<>>, a) = 0
<1>1. DOMAIN <<>> = {} /\ IsFiniteSet({})
  BY FS_EmptySet
<1> QED
  BY <1>1, SumStep DEF VestedIn, ContributedIn

\* The contract's record of a goal just created.
OneTimeGoal == [NoGoal EXCEPT !.status = "OPEN"]
MonthlyGoal(policy) == [NoGoal EXCEPT !.status = "OPEN", !.type = "MONTHLY", !.policy = policy]

LEMMA NewGoals ==
  /\ ContractShape(OneTimeGoal) /\ OneTimeGoal.status = "OPEN" /\ OneTimeGoal.type = "ONE_TIME"
  /\ OneTimeGoal.policy = "NONE"
  /\ \A policy \in PolicyNames :
       LET d == MonthlyGoal(policy)
       IN  /\ ContractShape(d) /\ d.status = "OPEN" /\ d.type = "MONTHLY" /\ d.policy = policy
           /\ Grows(OneTimeGoal, d)
  /\ \A d \in {OneTimeGoal} \cup {MonthlyGoal(policy) : policy \in PolicyNames} :
       /\ d.stopping = FALSE /\ d.settled = 0 /\ d.current = Nothing /\ d.carry = Nothing
       /\ d.entitled = [k \in Kinds |-> Nothing] /\ d.paid = [k \in Kinds |-> Nothing]
       /\ Total(d) = Nothing
<1> DEFINE Fresh(d) == /\ d.stopping = FALSE /\ d.settled = 0
                       /\ d.current = Nothing /\ d.carry = Nothing
                       /\ d.entitled = [k \in Kinds |-> Nothing]
                       /\ d.paid = [k \in Kinds |-> Nothing]
<1>1. /\ Fresh(OneTimeGoal) /\ OneTimeGoal.status = "OPEN" /\ OneTimeGoal.type = "ONE_TIME"
      /\ OneTimeGoal.policy = "NONE" /\ OneTimeGoal \in Contracts
  BY NothingTyped DEF OneTimeGoal, NoGoal, Contracts, Statuses, GoalTypes, PolicyNames
<1>2. ASSUME NEW policy \in PolicyNames
      PROVE  LET d == MonthlyGoal(policy)
             IN  /\ Fresh(d) /\ d.status = "OPEN" /\ d.type = "MONTHLY" /\ d.policy = policy
                 /\ d \in Contracts
  BY NothingTyped DEF MonthlyGoal, NoGoal, Contracts, Statuses, GoalTypes, PolicyNames
<1>3. ASSUME NEW d, Fresh(d), d \in Contracts
      PROVE  ContractShape(d) /\ Total(d) = Nothing
             /\ \A k \in Kinds, a \in Assets : d.entitled[k][a] = 0 /\ d.paid[k][a] = 0
  <2>1. "EXPENSE" \in Kinds /\ "CANCELLED_FUNDS" \in Kinds
    BY DEF Kinds
  <2>2. \A a \in Assets : Nothing[a] = 0
    BY DEF Nothing
  <2>3. \A k \in Kinds, a \in Assets : d.entitled[k][a] = 0 /\ d.paid[k][a] = 0
    BY <1>3, <2>2
  <2>4. ContractShape(d)
    BY <1>3, <2>1, <2>3 DEF ContractShape
  <2>5. Total(d) = Nothing
    <3>1. \A a \in Assets : d.current[a] = 0 /\ d.carry[a] = 0 /\ d.entitled["EXPENSE"][a] = 0
                            /\ d.entitled["CANCELLED_FUNDS"][a] = 0
      BY <1>3, <2>1, <2>2, <2>3
    <3> HIDE DEF Fresh
    <3> QED
      BY <3>1 DEF Total, Nothing
  <2> QED
    BY <2>3, <2>4, <2>5
<1>4. ASSUME NEW policy \in PolicyNames
      PROVE  LET d == MonthlyGoal(policy)
             IN  /\ ContractShape(d) /\ d.status = "OPEN" /\ d.type = "MONTHLY" /\ d.policy = policy
                 /\ Grows(OneTimeGoal, d) /\ Fresh(d) /\ Total(d) = Nothing
  <2> DEFINE d == MonthlyGoal(policy)
  <2>1. /\ Fresh(d) /\ d.status = "OPEN" /\ d.type = "MONTHLY" /\ d.policy = policy
        /\ d \in Contracts
    BY <1>2
  <2> HIDE DEF d, Fresh
  <2>2. ContractShape(d) /\ Total(d) = Nothing
        /\ \A k \in Kinds, a \in Assets : d.entitled[k][a] = 0 /\ d.paid[k][a] = 0
    BY <1>3, <2>1
  <2>3. \A k \in Kinds, a \in Assets : OneTimeGoal.entitled[k][a] = 0 /\ OneTimeGoal.paid[k][a] = 0
    BY <1>1, <1>3
  <2>4. Grows(OneTimeGoal, d)
    BY <1>1, <2>2, <2>3 DEF Grows
  <2> QED
    BY <2>1, <2>2, <2>4 DEF d
<1>5. ContractShape(OneTimeGoal) /\ Total(OneTimeGoal) = Nothing
  <2> HIDE DEF Fresh
  <2> QED
    BY <1>1, <1>3
<1>6. \A d \in {OneTimeGoal} \cup {MonthlyGoal(policy) : policy \in PolicyNames} :
        Fresh(d) /\ Total(d) = Nothing
  <2> HIDE DEF Fresh
  <2> QED
    BY <1>1, <1>4, <1>5
<1> QED
  BY <1>1, <1>4, <1>5, <1>6

\* The handler of GoalCreated on an empty projection.
LEMMA FirstEvent ==
  LET e == [name |-> "GoalCreated"]
      s == Image(<<>>, OneTimeGoal)
  IN  /\ e \in Events /\ Accepts(Start, e) /\ AddsUp(Start) /\ After(Start, e) = s
      /\ PeriodsFit(<<>>, OneTimeGoal) /\ AddsUp(s) /\ s \in Projections
<1> DEFINE e == [name |-> "GoalCreated"]
           d == OneTimeGoal
           s == Image(<<>>, d)
<1>1. e \in Events /\ Accepts(Start, e)
  BY DEF Events, Accepts
<1>2. AddsUp(Start)
  BY DEF AddsUp, Start, Shown, NoRow
<1>3. /\ ContractShape(d) /\ d.status = "OPEN" /\ d.type = "ONE_TIME" /\ d.policy = "NONE"
      /\ d.stopping = FALSE /\ d.settled = 0 /\ d.current = Nothing /\ d.carry = Nothing
      /\ d.entitled = [k \in Kinds |-> Nothing] /\ d.paid = [k \in Kinds |-> Nothing]
      /\ Total(d) = Nothing
  BY NewGoals
<1> HIDE DEF d
<1>4. RowOf(d) = [NoRow EXCEPT !.exists = TRUE]
  <2> DEFINE x == [NoRow EXCEPT !.exists = TRUE]
             y == RowOf(d)
  <2>1. y \in Rows
    BY <1>3, RowTyped DEF ContractShape
  <2>2. x \in Rows
    BY NothingTyped DEF NoRow, Rows, Statuses, GoalTypes, PolicyNames
  <2>3. /\ y.exists = x.exists /\ y.status = x.status /\ y.type = x.type
        /\ y.policy = x.policy /\ y.scheduled = x.scheduled
    BY <1>3 DEF RowOf, NoRow
  <2>4. /\ y.stopping = x.stopping /\ y.settled = x.settled /\ y.deadline = x.deadline
        /\ y.carry = x.carry /\ y.entitled = x.entitled
    BY <1>3 DEF RowOf, NoRow
  <2> HIDE DEF x, y
  <2>5. y = x
    BY <2>1, <2>2, <2>3, <2>4, RowEqual
  <2> QED
    BY <2>5 DEF x, y
<1>5. After(Start, e) = s
  BY <1>3, <1>4 DEF After, Start, Shown, Image, RowAfter, PeriodsAfter, FundedAfter, ReleasedAfter
<1>6. PeriodsFit(<<>>, d)
  <2>1. <<>> \in Histories
    BY StartTyped DEF Start, Shown, Projections
  <2> QED
    BY <1>3, <2>1 DEF PeriodsFit
<1>7. AddsUp(s)
  BY <1>3 DEF AddsUp, Image, Shown, RowOf
<1>8. s \in Projections
  BY <1>3, <1>6, ImageTyped DEF ContractShape, PeriodsFit
<1> QED
  BY <1>1, <1>2, <1>5, <1>6, <1>7, <1>8 DEF d

\* The handler of MonthlyGoalCreated after it opens the first period.
LEMMA MonthlyEvent ==
  ASSUME NEW policy \in PolicyNames
  PROVE  LET e == [name |-> "MonthlyGoalCreated", policy |-> policy]
             s == Image(<<>>, OneTimeGoal)
             r == WithPeriod(<<>>, 1, NewPeriod(policy))
         IN  /\ e \in Events /\ Accepts(s, e)
             /\ After(s, e) = Image(r, MonthlyGoal(policy))
             /\ PeriodsFit(r, MonthlyGoal(policy)) /\ AddsUp(Image(r, MonthlyGoal(policy)))
<1> DEFINE e == [name |-> "MonthlyGoalCreated", policy |-> policy]
           c == OneTimeGoal
           d == MonthlyGoal(policy)
           s == Image(<<>>, c)
           x == NewPeriod(policy)
           r == WithPeriod(<<>>, 1, x)
<1>1. e \in Events
  BY DEF Events
<1>2. /\ ContractShape(d) /\ d.status = "OPEN" /\ d.type = "MONTHLY" /\ d.policy = policy
      /\ ContractShape(c) /\ c.status = "OPEN"
  BY NewGoals
<1>3. \A y \in {c, d} : 
         /\ y.stopping = FALSE /\ y.settled = 0 /\ y.current = Nothing /\ y.carry = Nothing
         /\ y.entitled = [k \in Kinds |-> Nothing] /\ y.paid = [k \in Kinds |-> Nothing]
         /\ Total(y) = Nothing
  BY NewGoals
<1>4. s.row = RowOf(c) /\ s.periods = <<>> /\ s.funded = Total(c) /\ s.released = c.paid
  BY DEF Image, Shown
<1>5. x \in Periods /\ x = OpenPeriodOf(d)
  <2>1. OpenPeriodOf(d) \in Periods
    BY <1>2, OpenPeriodTyped DEF ContractShape
  <2> HIDE DEF d
  <2>2. x = OpenPeriodOf(d)
    BY <1>2, <1>3 DEF OpenPeriodOf, NewPeriod
  <2> QED
    BY <2>1, <2>2
<1>6. x.settled = FALSE /\ x.vested = Nothing /\ x.contributed = Nothing
  BY DEF NewPeriod
<1> HIDE DEF x, d, c, s
<1>7. RowOf(c) \in Rows /\ RowOf(d) \in Rows
  BY <1>2, RowTyped DEF ContractShape
<1>8. RowOf(d) = Scheduled(RowOf(c), policy) /\ RowOf(c).exists
  <2> DEFINE y == RowOf(c)
             z == RowOf(d)
  <2>1. /\ z.exists = y.exists /\ z.status = y.status /\ z.stopping = y.stopping
        /\ z.settled = y.settled /\ z.carry = y.carry /\ z.entitled = y.entitled
        /\ z.type = "MONTHLY" /\ z.policy = policy /\ z.scheduled = TRUE
        /\ z.deadline = 1 /\ y.exists
    <3>1. /\ d.stopping = c.stopping /\ d.settled = c.settled /\ d.carry = c.carry
          /\ d.entitled = c.entitled /\ d.settled = 0
      BY <1>3
    <3>2. /\ z.exists = y.exists /\ z.status = y.status /\ z.stopping = y.stopping
          /\ z.settled = y.settled /\ z.carry = y.carry /\ z.entitled = y.entitled
      BY <1>2, <3>1 DEF RowOf
    <3>3. z.type = "MONTHLY" /\ z.policy = policy /\ z.deadline = 1 /\ y.exists
      BY <1>2, <3>1 DEF RowOf
    <3>4. z.scheduled = TRUE
      BY <1>2 DEF RowOf
    <3> QED
      BY <3>2, <3>3, <3>4
  <2>2. y \in Rows /\ z \in Rows
    BY <1>7
  <2> HIDE DEF y, z
  <2>3. z = Scheduled(y, policy)
    <3> DEFINE w == Scheduled(y, policy)
    <3>1. /\ w \in Rows
          /\ w.exists = y.exists /\ w.status = y.status /\ w.stopping = y.stopping
          /\ w.settled = y.settled /\ w.carry = y.carry /\ w.entitled = y.entitled
          /\ w.type = "MONTHLY" /\ w.policy = policy /\ w.scheduled = TRUE
          /\ w.deadline = 1
      BY <2>2, ScheduledFields
    <3> HIDE DEF w
    <3>2. /\ z.exists = w.exists /\ z.status = w.status /\ z.stopping = w.stopping
          /\ z.settled = w.settled /\ z.carry = w.carry /\ z.entitled = w.entitled
          /\ z.type = w.type /\ z.policy = w.policy /\ z.scheduled = w.scheduled
          /\ z.deadline = w.deadline
      BY <2>1, <3>1
    <3>3. z = w
      BY <2>2, <3>1, <3>2, RowEqual
    <3> QED
      BY <3>3 DEF w
  <2> QED
    BY <2>1, <2>3 DEF y, z
<1>9. /\ r \in Histories /\ DOMAIN r = 1..1 /\ r[1] = x
      /\ \A a \in Assets : VestedIn(r, a) = 0 /\ ContributedIn(r, a) = 0
  <2>0. PICK n : n = 0
    OBVIOUS
  <2>1. <<>> \in [1..n -> Periods] /\ n + 1 = 1 /\ n \in Nat
    BY <2>0
  <2>2. r \in [1..1 -> Periods] /\ r \in Histories /\ r[1] = x
    <3>1. LET w == WithPeriod(<<>>, n + 1, x)
          IN  w \in [1..n + 1 -> Periods] /\ w \in Histories /\ w[n + 1] = x
      BY <1>5, <2>1, LongerFields
    <3> QED
      BY <2>1, <3>1
  <2>3. ASSUME NEW a \in Assets
        PROVE  VestedIn(r, a) = 0 /\ ContributedIn(r, a) = 0
    <3>1. Nothing[a] = 0
      BY DEF Nothing
    <3>2. VestedIn(<<>>, a) = 0 /\ ContributedIn(<<>>, a) = 0
      BY EmptySums
    <3>3. /\ VestedIn(r, a) = VestedIn(<<>>, a) + x.vested[a]
          /\ ContributedIn(r, a) = ContributedIn(<<>>, a) + x.contributed[a]
      <4>1. LET w == WithPeriod(<<>>, n + 1, x)
            IN  /\ VestedIn(w, a) = VestedIn(<<>>, a) + x.vested[a]
                /\ ContributedIn(w, a) = ContributedIn(<<>>, a) + x.contributed[a]
        BY <1>5, <2>1, LongerSums
      <4> QED
        BY <2>1, <4>1
    <3> QED
      BY <1>6, <3>1, <3>2, <3>3
  <2> QED
    BY <2>2, <2>3
<1> HIDE DEF r
<1>10. PeriodsFit(r, d)
  BY <1>2, <1>3, <1>5, <1>9 DEF PeriodsFit
<1>11. AddsUp(Image(r, d))
  <2>1. CarriesOver(r)
    BY <1>6, <1>9 DEF CarriesOver
  <2>2. \A a \in Assets : Nothing[a] = 0 /\ d.entitled["EXPENSE"][a] = 0 /\ Total(d)[a] = 0
    BY <1>3 DEF Nothing, Kinds
  <2> QED
    BY <1>9, <2>1, <2>2 DEF AddsUp, Image, Shown, RowOf
<1>12. RowAfter(s, e) = RowOf(d) /\ FundedAfter(s, e) = Total(d) /\ ReleasedAfter(s, e) = d.paid
  BY <1>3, <1>4, <1>8 DEF RowAfter, FundedAfter, ReleasedAfter
<1>13. PeriodsAfter(s, e) = r
  BY <1>4 DEF PeriodsAfter, r, x
<1>14. After(s, e) = Image(r, d)
  BY <1>12, <1>13 DEF After, Image
<1>15. Accepts(s, e)
  BY <1>4, <1>8 DEF Accepts
<1> QED
  BY <1>1, <1>10, <1>11, <1>14, <1>15 DEF r, x, s, d, c

LEMMA CreateStep == FundingInv /\ CreateGoal => FundingInv'
<1> DEFINE e == [name |-> "GoalCreated"]
           f(policy) == [name |-> "MonthlyGoalCreated", policy |-> policy]
<1> SUFFICES ASSUME FundingInv, contract.status = "NONE",
                    NEW type \in Types, NEW policy \in Policies,
                    contract' = [NoGoal EXCEPT !.status = "OPEN", !.type = type,
                                               !.policy = IF type = "MONTHLY" THEN policy ELSE @],
                    Emit(<<e>> \o (IF type = "MONTHLY" THEN <<f(policy)>> ELSE <<>>)),
                    UNCHANGED <<now, applied, rowVars, resets>>
             PROVE  FundingInv'
  BY Zenon DEF CreateGoal
<1> DEFINE t == Image(<<>>, OneTimeGoal)
<1>1. PICK s, q : Replays(log, s, contract, applied, q) /\ Projected(q)
  BY DEF FundingInv
<1>2. /\ log = <<>> /\ log \in Seq(Events) /\ contract \in Contracts
      /\ now' \in Nat /\ contract = NoGoal
  BY DEF FundingInv, ContractShape
<1>3. s = Start
  BY <1>1, <1>2, ReplayFacts
<1>4. policy \in PolicyNames /\ type \in {"ONE_TIME", "MONTHLY"}
  BY EscrowFundingAssumption DEF PolicyNames
<1>5. /\ e \in Events /\ Accepts(Start, e) /\ AddsUp(Start) /\ After(Start, e) = t
      /\ PeriodsFit(<<>>, OneTimeGoal) /\ AddsUp(t) /\ t \in Projections
  BY FirstEvent
<1>6. /\ ContractShape(OneTimeGoal) /\ OneTimeGoal \in Contracts /\ OneTimeGoal.status = "OPEN"
  BY NewGoals DEF ContractShape
<1> HIDE DEF e, f, t
<1>7. Grows(contract, OneTimeGoal)
  <2>1. \A k \in Kinds, a \in Assets : contract.entitled[k][a] = 0 /\ contract.paid[k][a] = 0
    BY <1>2 DEF NoGoal, Nothing
  <2>2. \A k \in Kinds, a \in Assets : OneTimeGoal.entitled[k][a] = 0 /\ OneTimeGoal.paid[k][a] = 0
    BY NewGoals DEF Nothing
  <2>3. contract.status # "CLOSED"
    OBVIOUS
  <2> QED
    BY <2>1, <2>2, <2>3 DEF Grows
<1>8. Replays(<<e>>, t, OneTimeGoal, applied, q)
  <2>1. Sound(t, OneTimeGoal)
    BY <1>6, ImageSound DEF t
  <2>2. /\ Replays(<<>>, Start, contract, applied, q) /\ <<>> \in Seq(Events)
        /\ Append(<<>>, e) = <<e>>
    BY <1>1, <1>2, <1>3
  <2>3. Replays(Append(<<>>, e), After(Start, e), OneTimeGoal, applied, q)
    BY <1>2, <1>5, <1>6, <1>7, <2>1, <2>2, ReplayMore
  <2> QED
    BY <1>5, <2>2, <2>3
<1>9. log' = <<e>> \o (IF type = "MONTHLY" THEN <<f(policy)>> ELSE <<>>)
  <2>1. /\ <<f(policy)>> \in Seq({e, f(policy)}) /\ <<e>> \in Seq({e, f(policy)})
        /\ <<>> \in Seq({e, f(policy)})
    OBVIOUS
  <2> QED
    BY <1>2, <2>1 DEF Emit
<1>10. e.name = "GoalCreated"
  BY DEF e
<1>11. CASE type = "ONE_TIME"
  <2>1. contract' = OneTimeGoal
    <3> DEFINE x == [NoGoal EXCEPT !.status = "OPEN", !.type = type,
                                   !.policy = IF type = "MONTHLY" THEN policy ELSE @]
               y == [NoGoal EXCEPT !.status = "OPEN"]
    <3>1. NoGoal \in Contracts /\ NoGoal.type = "ONE_TIME"
      BY NothingTyped DEF NoGoal, Contracts, Statuses, GoalTypes, PolicyNames
    <3>2. x \in Contracts /\ y \in Contracts
      BY <1>11, <3>1 DEF Contracts, Statuses
    <3>3. /\ x.status = y.status /\ x.type = y.type /\ x.policy = y.policy
          /\ x.stopping = y.stopping /\ x.settled = y.settled /\ x.current = y.current
          /\ x.carry = y.carry /\ x.entitled = y.entitled /\ x.paid = y.paid
      BY <1>11, <3>1 DEF Contracts
    <3>4. contract' = x /\ OneTimeGoal = y
      BY DEF OneTimeGoal
    <3> HIDE DEF x, y
    <3> QED
      BY <3>2, <3>3, <3>4 DEF Contracts
  <2>2. log' = <<e>>
    BY <1>9, <1>11
  <2>3. log' \in Seq(Events) /\ log'[1].name = "GoalCreated"
    BY <1>5, <1>10, <2>2
  <2>4. Mirrors(t, OneTimeGoal)
    BY <1>5 DEF Mirrors, t
  <2> QED
    BY <1>1, <1>2, <1>6, <1>8, <2>1, <2>2, <2>3, <2>4, Mirrored
<1>12. CASE type = "MONTHLY"
  <2> DEFINE d == MonthlyGoal(policy)
             r == WithPeriod(<<>>, 1, NewPeriod(policy))
             g == f(policy)
  <2>1. contract' = d
    BY <1>12 DEF MonthlyGoal, NoGoal
  <2>2. log' = Append(<<e>>, g) /\ log'[1] = e
    BY <1>9, <1>12
  <2>3. /\ g \in Events /\ Accepts(t, g) /\ After(t, g) = Image(r, d)
        /\ PeriodsFit(r, d) /\ AddsUp(Image(r, d))
    BY <1>4, MonthlyEvent DEF t, f
  <2>4. /\ ContractShape(d) /\ d \in Contracts /\ d.status = "OPEN" /\ Grows(OneTimeGoal, d)
    BY <1>4, NewGoals DEF ContractShape
  <2>5. g.name \in Inner
    BY DEF f, Inner
  <2> HIDE DEF d, r, g
  <2>6. Image(r, d) \in Projections /\ Sound(Image(r, d), d)
    BY <2>3, <2>4, ImageTyped, ImageSound DEF PeriodsFit
  <2>7. <<e>> \in Seq(Events) /\ log' \in Seq(Events) /\ log'[1].name = "GoalCreated"
    BY <1>5, <1>10, <2>2, <2>3
  <2>8. Replays(log', Image(r, d), d, applied, q)
    <3>1. Replays(Append(<<e>>, g), After(t, g), d, applied, q)
      BY <1>6, <1>8, <2>3, <2>4, <2>5, <2>6, <2>7, ReplayMore
    <3> QED
      BY <2>2, <2>3, <3>1
  <2>9. Mirrors(Image(r, d), d)
    BY <2>3 DEF Mirrors
  <2> QED
    BY <1>1, <1>2, <2>1, <2>4, <2>7, <2>8, <2>9, Mirrored
<1> QED
  BY <1>4, <1>11, <1>12

-----------------------------------------------------------------------------
(* Cancellation.                                                            *)

CancelledEvent == [name |-> "GoalCancelled"]
ReturnedEvent(m) == [name |-> "MonthlyGoalCancelled", added |-> m]
Unvested(c) == [a \in Assets |-> c.current[a] + c.carry[a]]
CancelledGoal(c) ==
  [c EXCEPT !.status = "CANCELLED", !.current = Nothing, !.carry = Nothing,
            !.entitled["CANCELLED_FUNDS"] = Unvested(c)]

LEMMA CancelledGoalFields ==
  ASSUME NEW c, ContractShape(c), c.status = "OPEN"
  PROVE  LET d == CancelledGoal(c)
         IN  /\ d \in Contracts /\ ContractShape(d) /\ Grows(c, d) /\ Total(d) = Total(c)
             /\ d.status = "CANCELLED" /\ d.type = c.type /\ d.policy = c.policy
             /\ d.stopping = c.stopping /\ d.settled = c.settled
             /\ d.current = Nothing /\ d.carry = Nothing /\ d.paid = c.paid
             /\ d.entitled = [c.entitled EXCEPT !["CANCELLED_FUNDS"] = Unvested(c)]
             /\ Unvested(c) \in AmountsPerAsset
             /\ c.type = "ONE_TIME" => Total(c) = Unvested(c)
<1> DEFINE m == Unvested(c)
           d == CancelledGoal(c)
<1>1. c \in Contracts /\ c.entitled["CANCELLED_FUNDS"] = Nothing
  BY DEF ContractShape
<1>2. \A a \in Assets : /\ c.current[a] \in Nat /\ c.carry[a] \in Nat /\ Nothing[a] = 0
                        /\ c.entitled["EXPENSE"][a] \in Nat /\ m[a] = c.current[a] + c.carry[a]
  BY <1>1 DEF Contracts, AmountsPerKind, AmountsPerAsset, Kinds, Nothing, Unvested
<1>3. m \in AmountsPerAsset
  BY <1>2 DEF AmountsPerAsset, Unvested
<1> HIDE DEF m
<1>4. /\ d.status = "CANCELLED" /\ d.type = c.type /\ d.policy = c.policy
      /\ d.stopping = c.stopping /\ d.settled = c.settled
      /\ d.current = Nothing /\ d.carry = Nothing /\ d.paid = c.paid
      /\ d.entitled = [c.entitled EXCEPT !["CANCELLED_FUNDS"] = m]
  BY <1>1 DEF Contracts, CancelledGoal, m
<1>5. /\ d.entitled["EXPENSE"] = c.entitled["EXPENSE"] /\ d.entitled["CANCELLED_FUNDS"] = m
      /\ d.entitled \in AmountsPerKind
  BY <1>1, <1>3, <1>4 DEF Contracts, AmountsPerKind, Kinds
<1>6. d \in Contracts
  BY <1>1, <1>3, <1>5, NothingTyped DEF Contracts, CancelledGoal, Statuses, m
<1> HIDE DEF d
<1>7. \A k \in Kinds, a \in Assets : /\ c.entitled[k][a] <= d.entitled[k][a]
                                     /\ c.paid[k][a] \in Nat /\ c.entitled[k][a] \in Nat
                                     /\ d.entitled[k][a] \in Nat
  <2>1. \A k \in Kinds : k = "EXPENSE" \/ k = "CANCELLED_FUNDS"
    BY DEF Kinds
  <2>2. \A k \in Kinds, a \in Assets : c.paid[k][a] \in Nat /\ c.entitled[k][a] \in Nat
                                       /\ d.entitled[k][a] \in Nat
    BY <1>1, <1>5 DEF Contracts, AmountsPerKind, AmountsPerAsset
  <2> QED
    BY <1>1, <1>2, <1>5, <2>1, <2>2
<1>8. ContractShape(d)
  <2>1. \A k \in Kinds, a \in Assets : d.paid[k][a] <= d.entitled[k][a]
    <3>1. \A k \in Kinds, a \in Assets : c.paid[k][a] <= c.entitled[k][a]
      BY DEF ContractShape
    <3> QED
      BY <1>4, <1>7, <3>1
  <2> QED
    BY <1>4, <1>6, <2>1 DEF ContractShape
<1>9. Grows(c, d)
  BY <1>4, <1>7 DEF Grows
<1>10. Total(d) = Total(c)
  BY <1>1, <1>2, <1>4, <1>5 DEF Total
<1>11. c.type = "ONE_TIME" => Total(c) = m
  <2> SUFFICES ASSUME c.type = "ONE_TIME"
               PROVE  Total(c) = m
    OBVIOUS
  <2>1. c.entitled["EXPENSE"] = Nothing
    BY DEF ContractShape
  <2>2. m = [a \in Assets |-> m[a]]
    BY <1>3 DEF AmountsPerAsset
  <2> QED
    BY <1>1, <1>2, <2>1, <2>2 DEF Total
<1> QED
  BY <1>3, <1>4, <1>6, <1>8, <1>9, <1>10, <1>11 DEF d, m

\* The row of a cancelled goal, in one step or, of a monthly goal, in two in
\* either order.
LEMMA CancelledRows ==
  ASSUME NEW c, ContractShape(c), c.status = "OPEN"
  PROVE  LET x == RowOf(c)
             y == RowOf(CancelledGoal(c))
             m == Unvested(c)
             l == Cancelled(x, Total(c))
             r == Returned(x, m)
         IN  /\ c.type = "ONE_TIME" => y = l
             /\ c.type = "MONTHLY" =>
                  /\ l \in Rows /\ l.entitled = x.entitled /\ l.status = "CANCELLED"
                  /\ l.exists /\ Returned(l, m) = y
                  /\ r \in Rows /\ r.entitled = y.entitled /\ r.status = "OPEN"
                  /\ r.exists /\ Cancelled(r, Total(c)) = y
<1> DEFINE d == CancelledGoal(c)
           x == RowOf(c)
           y == RowOf(d)
           m == Unvested(c)
           n == Total(c)
<1>1. /\ d \in Contracts
      /\ d.status = "CANCELLED" /\ d.type = c.type /\ d.policy = c.policy
      /\ d.stopping = c.stopping /\ d.settled = c.settled
      /\ d.carry = Nothing /\ d.paid = c.paid
      /\ d.entitled = [c.entitled EXCEPT !["CANCELLED_FUNDS"] = m]
      /\ m \in AmountsPerAsset /\ (c.type = "ONE_TIME" => n = m)
  BY CancelledGoalFields
<1>2. c \in Contracts /\ c.entitled["CANCELLED_FUNDS"] = Nothing /\ c.type \in GoalTypes
      /\ (c.type = "ONE_TIME" => c.carry = Nothing)
  BY DEF ContractShape, Contracts
<1> HIDE DEF d, m
<1>3. n \in AmountsPerAsset
  <2>1. <<>> \in Histories
    BY StartTyped DEF Start, Shown, Projections
  <2>2. Image(<<>>, c) \in Projections
    BY <1>2, <2>1, ImageTyped
  <2> QED
    BY <2>2 DEF Projections, Image, Shown
<1>4. x \in Rows /\ y \in Rows
  BY <1>1, <1>2, RowTyped
<1>5. /\ y.exists = x.exists /\ y.type = x.type /\ y.policy = x.policy
      /\ y.scheduled = x.scheduled /\ y.stopping = x.stopping /\ y.settled = x.settled
      /\ y.deadline = x.deadline /\ y.carry = Nothing /\ y.status = "CANCELLED"
      /\ y.entitled = [x.entitled EXCEPT !["CANCELLED_FUNDS"] = m]
  BY <1>1 DEF RowOf
<1>6. /\ x.exists = TRUE /\ x.type = c.type /\ x.carry = c.carry /\ x.status = "OPEN"
      /\ x.entitled = c.entitled
  BY DEF RowOf
<1> HIDE DEF x, y, n
<1>7. x.entitled \in AmountsPerKind /\ x.entitled["CANCELLED_FUNDS"] = Nothing
  BY <1>2, <1>4, <1>6 DEF Rows
<1>8. [a \in Assets |-> Nothing[a] + m[a]] = m
  <2>1. \A a \in Assets : Nothing[a] = 0 /\ m[a] \in Nat
    BY <1>1 DEF Nothing, AmountsPerAsset
  <2>2. m = [a \in Assets |-> m[a]]
    BY <1>1 DEF AmountsPerAsset
  <2> QED
    BY <2>1, <2>2
<1> DEFINE l == Cancelled(x, n)
           r == Returned(x, m)
<1>9. /\ l \in Rows
      /\ l.exists = x.exists /\ l.type = x.type /\ l.policy = x.policy
      /\ l.scheduled = x.scheduled /\ l.stopping = x.stopping /\ l.settled = x.settled
      /\ l.deadline = x.deadline /\ l.carry = x.carry /\ l.status = "CANCELLED"
      /\ l.entitled =
           [x.entitled EXCEPT !["CANCELLED_FUNDS"] = IF x.type = "ONE_TIME" THEN n ELSE @]
  BY <1>3, <1>4, CancelledFields
<1>10. /\ r \in Rows
       /\ r.exists = x.exists /\ r.status = x.status /\ r.type = x.type
       /\ r.policy = x.policy /\ r.scheduled = x.scheduled /\ r.stopping = x.stopping
       /\ r.settled = x.settled /\ r.deadline = x.deadline /\ r.carry = Nothing
       /\ r.entitled = [x.entitled EXCEPT !["CANCELLED_FUNDS"] = [a \in Assets |-> @[a] + m[a]]]
  BY <1>1, <1>4, ReturnedFields
<1> HIDE DEF l, r
<1>11. ASSUME c.type = "ONE_TIME"
       PROVE  y = l
  <2>1. l.entitled = y.entitled /\ l.carry = y.carry
    BY <1>1, <1>2, <1>5, <1>6, <1>9, <1>11
  <2> QED
    BY <1>4, <1>5, <1>9, <2>1, RowEqual
<1>12. ASSUME c.type = "MONTHLY"
       PROVE  l.entitled = x.entitled /\ Returned(l, m) = y
  <2>1. l.entitled = x.entitled
    BY <1>6, <1>7, <1>9, <1>12 DEF AmountsPerKind
  <2> DEFINE z == Returned(l, m)
  <2>2. /\ z \in Rows
        /\ z.exists = l.exists /\ z.status = l.status /\ z.type = l.type
        /\ z.policy = l.policy /\ z.scheduled = l.scheduled /\ z.stopping = l.stopping
        /\ z.settled = l.settled /\ z.deadline = l.deadline /\ z.carry = Nothing
        /\ z.entitled = [l.entitled EXCEPT !["CANCELLED_FUNDS"] = [a \in Assets |-> @[a] + m[a]]]
    BY <1>1, <1>9, ReturnedFields
  <2> HIDE DEF z
  <2>3. z.entitled = y.entitled
    BY <1>5, <1>7, <1>8, <2>1, <2>2
  <2>4. z = y
    BY <1>4, <1>5, <1>9, <2>2, <2>3, RowEqual
  <2> QED
    BY <2>1, <2>4 DEF z
<1>13. ASSUME c.type = "MONTHLY"
       PROVE  r.entitled = y.entitled /\ Cancelled(r, n) = y
  <2>1. r.entitled = y.entitled
    BY <1>5, <1>7, <1>8, <1>10
  <2> DEFINE z == Cancelled(r, n)
  <2>2. /\ z \in Rows
        /\ z.exists = r.exists /\ z.type = r.type /\ z.policy = r.policy
        /\ z.scheduled = r.scheduled /\ z.stopping = r.stopping /\ z.settled = r.settled
        /\ z.deadline = r.deadline /\ z.carry = r.carry /\ z.status = "CANCELLED"
        /\ z.entitled =
             [r.entitled EXCEPT !["CANCELLED_FUNDS"] = IF r.type = "ONE_TIME" THEN n ELSE @]
    BY <1>3, <1>10, CancelledFields
  <2> HIDE DEF z
  <2>3. z.entitled = y.entitled
    <3>1. r.type = "MONTHLY" /\ r.entitled \in AmountsPerKind
      BY <1>6, <1>10, <1>13 DEF Rows
    <3> QED
      BY <2>1, <2>2, <3>1 DEF AmountsPerKind
  <2>4. z = y
    BY <1>4, <1>5, <1>10, <2>2, <2>3, RowEqual
  <2> QED
    BY <2>1, <2>4 DEF z
<1> QED
  BY <1>6, <1>9, <1>10, <1>11, <1>12, <1>13 DEF l, r, d, x, y, m, n

\* The handlers of e and f turn the image of the contract c into that of d.
FollowsTwice(c, e, f, d) ==
  \A p : PeriodsFit(p, c) /\ AddsUp(Image(p, c)) =>
           LET s == Image(p, c)
               t == After(s, e)
           IN  /\ Accepts(s, e) /\ t \in Projections /\ Sound(t, d) /\ Accepts(t, f)
               /\ \E r : PeriodsFit(r, d) /\ AddsUp(Image(r, d)) /\ After(t, f) = Image(r, d)

LEMMA TwoEvents ==
  ASSUME FundingInv, contract.status # "NONE", NEW e \in Events, NEW f \in Events,
         e.name \in Inner, f.name \in Inner, log' = log \o <<e, f>>,
         UNCHANGED <<now, applied, rowVars, resets>>,
         NEW d, contract' = d, ContractShape(d), d.status # "NONE", Grows(contract, d),
         FollowsTwice(contract, e, f, d)
  PROVE  FundingInv'
<1>1. PICK s, q : /\ Replays(log, s, contract, applied, q) /\ Projected(q)
                  /\ Mirrors(s, contract)
  BY DEF FundingInv
<1>2. PICK p : PeriodsFit(p, contract) /\ s = Image(p, contract) /\ AddsUp(s)
  BY <1>1 DEF Mirrors
<1> DEFINE t == After(s, e)
<1>3. /\ Accepts(s, e) /\ t \in Projections /\ Sound(t, d) /\ Accepts(t, f)
      /\ \E r : PeriodsFit(r, d) /\ AddsUp(Image(r, d)) /\ After(t, f) = Image(r, d)
  BY <1>2 DEF FollowsTwice
<1> HIDE DEF t
<1>4. PICK r : PeriodsFit(r, d) /\ AddsUp(Image(r, d)) /\ After(t, f) = Image(r, d)
  BY <1>3
<1>5. contract \in Contracts /\ d \in Contracts /\ now' \in Nat
  BY DEF FundingInv, ContractShape
<1>6. /\ log \in Seq(Events) /\ log' = Append(Append(log, e), f) /\ Append(log, e) \in Seq(Events)
      /\ log' \in Seq(Events) /\ (log' # <<>> => log'[1].name = "GoalCreated")
  <2>1. <<e, f>> \in Seq(Events) /\ log \in Seq(Events)
    BY DEF FundingInv
  <2>2. log \o <<e, f>> = Append(Append(log, e), f) /\ Append(log, e) \in Seq(Events)
    BY <2>1
  <2> QED
    BY <2>1, <2>2, LogStarts
<1>7. After(t, f) \in Projections /\ Sound(After(t, f), d)
  BY <1>4, <1>5, ImageTyped, ImageSound DEF PeriodsFit
<1>8. Replays(Append(log, e), t, d, applied, q)
  BY <1>1, <1>3, <1>5, <1>6, ReplayMore DEF t
<1>9. Grows(d, d)
  <2>1. \A k \in Kinds, a \in Assets : d.entitled[k][a] \in Nat /\ d.paid[k][a] \in Nat
    BY <1>5 DEF Contracts, AmountsPerKind, AmountsPerAsset
  <2> QED
    BY <2>1 DEF Grows
<1>10. Replays(log', After(t, f), d, applied, q)
  BY <1>3, <1>5, <1>6, <1>7, <1>8, <1>9, ReplayMore
<1>11. Mirrors(After(t, f), d)
  BY <1>4 DEF Mirrors
<1> QED
  BY <1>1, <1>5, <1>6, <1>10, <1>11, Mirrored

\* What the events of a cancellation make of the image of an open goal.
LEMMA CancelFollows ==
  ASSUME NEW c, ContractShape(c), c.status = "OPEN"
  PROVE  LET d == CancelledGoal(c)
             e == CancelledEvent
             f == ReturnedEvent(Unvested(c))
         IN  /\ c.type = "ONE_TIME" => Follows(c, e, d)
             /\ c.type = "MONTHLY" => FollowsTwice(c, e, f, d) /\ FollowsTwice(c, f, e, d)
<1> DEFINE d == CancelledGoal(c)
           m == Unvested(c)
           e == CancelledEvent
           f == ReturnedEvent(m)
<1>1. /\ d \in Contracts /\ ContractShape(d) /\ Grows(c, d) /\ Total(d) = Total(c)
      /\ d.status = "CANCELLED" /\ d.type = c.type /\ d.settled = c.settled /\ d.paid = c.paid
      /\ d.entitled = [c.entitled EXCEPT !["CANCELLED_FUNDS"] = m]
  BY CancelledGoalFields
<1>2. c \in Contracts
  BY DEF ContractShape
<1>3. ASSUME NEW p, PeriodsFit(p, c), AddsUp(Image(p, c))
      PROVE  PeriodsFit(p, d) /\ AddsUp(Image(p, d))
  <2>1. d.entitled["EXPENSE"] = c.entitled["EXPENSE"]
    BY <1>1, <1>2 DEF Contracts, AmountsPerKind, Kinds
  <2> HIDE DEF d
  <2>2. PeriodsFit(p, d)
    BY <1>1, <1>3 DEF PeriodsFit
  <2>3. AddsUp(Image(p, d))
    BY <1>1, <1>3, <2>1 DEF AddsUp, Image, Shown, RowOf
  <2> QED
    BY <2>2, <2>3
<1>4. ASSUME NEW s, NEW p, s.periods = p, s.funded = Total(c), s.released = c.paid, s.row.exists
      PROVE  /\ Accepts(s, e) /\ Accepts(s, f)
             /\ After(s, e) = Shown(Cancelled(s.row, Total(c)), p, Total(c), c.paid)
             /\ After(s, f) = Shown(Returned(s.row, m), p, Total(c), c.paid)
  <2> HIDE DEF m
  <2>1. Accepts(s, e) /\ Accepts(s, f)
    BY <1>4 DEF Accepts, CancelledEvent, ReturnedEvent
  <2>2. After(s, e) = Shown(Cancelled(s.row, Total(c)), p, Total(c), c.paid)
    BY <1>4 DEF After, RowAfter, PeriodsAfter, FundedAfter, ReleasedAfter, CancelledEvent
  <2>3. After(s, f) = Shown(Returned(s.row, m), p, Total(c), c.paid)
    BY <1>4 DEF After, RowAfter, PeriodsAfter, FundedAfter, ReleasedAfter, ReturnedEvent
  <2> QED
    BY <2>1, <2>2, <2>3
<1> DEFINE x == RowOf(c)
           y == RowOf(d)
           l == Cancelled(x, Total(c))
           r == Returned(x, m)
<1>5. /\ c.type = "ONE_TIME" => y = l
      /\ c.type = "MONTHLY" =>
           /\ l \in Rows /\ l.entitled = x.entitled /\ l.status = "CANCELLED"
           /\ l.exists /\ Returned(l, m) = y
           /\ r \in Rows /\ r.entitled = y.entitled /\ r.status = "OPEN"
           /\ r.exists /\ Cancelled(r, Total(c)) = y
  BY CancelledRows
<1>6. /\ x.exists /\ x.entitled = c.entitled /\ y.entitled = d.entitled
  BY DEF RowOf
<1>7. ASSUME NEW p
      PROVE  /\ Image(p, c).row = x /\ Image(p, c).periods = p /\ Image(p, c).funded = Total(c)
             /\ Image(p, c).released = c.paid
             /\ Image(p, d) = Shown(y, p, Total(c), c.paid)
  BY <1>1 DEF Image, Shown
<1> HIDE DEF d, e, f, m, x, y, l, r
<1>8. ASSUME c.type = "ONE_TIME"
      PROVE  Follows(c, e, d)
  <2>1. ASSUME NEW p, PeriodsFit(p, c), AddsUp(Image(p, c))
        PROVE  Accepts(Image(p, c), e) /\ After(Image(p, c), e) = Image(p, d)
    BY <1>4, <1>5, <1>6, <1>7, <1>8 DEF l
  <2> QED
    BY <1>3, <2>1 DEF Follows
<1>9. ASSUME c.type = "MONTHLY", NEW z \in {l, r}, NEW p, PeriodsFit(p, c)
      PROVE  LET t == Shown(z, p, Total(c), c.paid)
             IN  t \in Projections /\ Sound(t, d)
  <2> DEFINE t == Shown(z, p, Total(c), c.paid)
  <2>1. z \in Rows /\ z.entitled \in {c.entitled, d.entitled} /\ z.status # "CLOSED"
    BY <1>5, <1>6, <1>9
  <2>2. t.row = z /\ t.released = c.paid /\ t \in Projections
    <3>1. Image(p, c) \in Projections
      BY <1>2, <1>9, ImageTyped DEF PeriodsFit
    <3>2. Total(c) \in AmountsPerAsset /\ c.paid \in AmountsPerKind /\ p \in Histories
      BY <3>1 DEF Projections, Image, Shown
    <3> QED
      BY <2>1, <3>2 DEF Projections, Shown
  <2>3. \A k \in Kinds, n \in Assets :
          /\ c.entitled[k][n] \in Nat /\ d.entitled[k][n] \in Nat /\ c.paid[k][n] \in Nat
          /\ c.entitled[k][n] <= d.entitled[k][n] /\ c.paid[k][n] <= c.entitled[k][n]
    <3>1. \A k \in Kinds, n \in Assets :
            c.entitled[k][n] \in Nat /\ d.entitled[k][n] \in Nat /\ c.paid[k][n] \in Nat
      BY <1>1, <1>2 DEF Contracts, AmountsPerKind, AmountsPerAsset
    <3> QED
      BY <1>1, <3>1 DEF Grows, ContractShape
  <2> HIDE DEF t
  <2>4. ASSUME NEW k \in Kinds, NEW n \in Assets
        PROVE  /\ t.row.entitled[k][n] <= d.entitled[k][n] /\ t.released[k][n] <= d.paid[k][n]
               /\ t.released[k][n] <= t.row.entitled[k][n]
    <3>1. z.entitled[k][n] = c.entitled[k][n] \/ z.entitled[k][n] = d.entitled[k][n]
      BY <2>1
    <3>2. d.paid[k][n] = c.paid[k][n] /\ t.released[k][n] = c.paid[k][n]
          /\ t.row.entitled[k][n] = z.entitled[k][n]
      BY <1>1, <2>2
    <3> QED
      BY <2>3, <3>1, <3>2
  <2>5. Sound(t, d)
    BY <2>1, <2>2, <2>4 DEF Sound
  <2> QED
    BY <2>2, <2>5 DEF t
<1>10. ASSUME c.type = "MONTHLY", NEW p, PeriodsFit(p, c), AddsUp(Image(p, c))
       PROVE  LET s == Image(p, c)
                  t == After(s, e)
              IN  /\ Accepts(s, e) /\ t \in Projections /\ Sound(t, d) /\ Accepts(t, f)
                  /\ After(t, f) = Image(p, d)
  <2> DEFINE s == Image(p, c)
             t == Shown(l, p, Total(c), c.paid)
  <2>1. Accepts(s, e) /\ After(s, e) = t
    BY <1>4, <1>6, <1>7 DEF l
  <2>2. t \in Projections /\ Sound(t, d)
    BY <1>9, <1>10
  <2>3. t.row = l /\ t.periods = p /\ t.funded = Total(c) /\ t.released = c.paid
    BY DEF Shown
  <2> HIDE DEF s, t
  <2>4. Accepts(t, f) /\ After(t, f) = Image(p, d)
    BY <1>4, <1>5, <1>7, <1>10, <2>3
  <2> QED
    BY <2>1, <2>2, <2>4 DEF s
<1>11. ASSUME c.type = "MONTHLY", NEW p, PeriodsFit(p, c), AddsUp(Image(p, c))
       PROVE  LET s == Image(p, c)
                  t == After(s, f)
              IN  /\ Accepts(s, f) /\ t \in Projections /\ Sound(t, d) /\ Accepts(t, e)
                  /\ After(t, e) = Image(p, d)
  <2> DEFINE s == Image(p, c)
             t == Shown(r, p, Total(c), c.paid)
  <2>1. Accepts(s, f) /\ After(s, f) = t
    BY <1>4, <1>6, <1>7 DEF r
  <2>2. t \in Projections /\ Sound(t, d)
    BY <1>9, <1>11
  <2>3. t.row = r /\ t.periods = p /\ t.funded = Total(c) /\ t.released = c.paid
    BY DEF Shown
  <2> HIDE DEF s, t
  <2>4. Accepts(t, e) /\ After(t, e) = Image(p, d)
    BY <1>4, <1>5, <1>7, <1>11, <2>3
  <2> QED
    BY <2>1, <2>2, <2>4 DEF s
<1>12. c.type = "MONTHLY" => FollowsTwice(c, e, f, d) /\ FollowsTwice(c, f, e, d)
  BY <1>3, <1>10, <1>11 DEF FollowsTwice
<1> QED
  BY <1>8, <1>12 DEF d, e, f, m

LEMMA CancelStep == FundingInv /\ CancelGoal => FundingInv'
<1> DEFINE c == contract
           m == Unvested(c)
           d == CancelledGoal(c)
           e == CancelledEvent
           f == ReturnedEvent(m)
<1> SUFFICES ASSUME FundingInv, CancelGoal
             PROVE  FundingInv'
  OBVIOUS
<1>1. /\ c.status = "OPEN" /\ contract' = d
      /\ IF c.type = "ONE_TIME" THEN Emit(<<e>>) ELSE Emit(<<e, f>>) \/ Emit(<<f, e>>)
      /\ UNCHANGED <<now, applied, rowVars, resets>>
  BY Zenon DEF CancelGoal, Unvested, CancelledGoal, CancelledEvent, ReturnedEvent
<1>2. ContractShape(c) /\ c.type \in GoalTypes
  BY DEF FundingInv, ContractShape, Contracts
<1>3. /\ ContractShape(d) /\ Grows(c, d) /\ d.status = "CANCELLED" /\ m \in AmountsPerAsset
  BY <1>1, <1>2, CancelledGoalFields
<1>4. e \in Events /\ f \in Events /\ e.name \in Inner /\ f.name \in Inner
  <2> HIDE DEF m
  <2> QED
    BY <1>3 DEF Events, CancelledEvent, ReturnedEvent, Inner
<1>5. /\ c.type = "ONE_TIME" => Follows(c, e, d)
      /\ c.type = "MONTHLY" => FollowsTwice(c, e, f, d) /\ FollowsTwice(c, f, e, d)
  BY <1>1, <1>2, CancelFollows
<1> HIDE DEF d, m, e, f
<1>6. CASE c.type = "ONE_TIME"
  <2>1. log' = log \o <<e>>
    BY <1>1, <1>6 DEF Emit
  <2> QED
    BY <1>1, <1>3, <1>4, <1>5, <1>6, <2>1, OneEvent
<1>7. CASE c.type = "MONTHLY"
  <2>1. log' = log \o <<e, f>> \/ log' = log \o <<f, e>>
    BY <1>1, <1>7 DEF Emit
  <2>2. CASE log' = log \o <<e, f>>
    BY <1>1, <1>3, <1>4, <1>5, <1>7, <2>2, TwoEvents
  <2>3. CASE log' = log \o <<f, e>>
    BY <1>1, <1>3, <1>4, <1>5, <1>7, <2>3, TwoEvents
  <2> QED
    BY <2>1, <2>2, <2>3
<1> QED
  BY <1>2, <1>6, <1>7 DEF GoalTypes

-----------------------------------------------------------------------------
(* Settlement of one period.                                                *)

VestedAmounts(c) == [a \in Assets |-> Vested(c, a)]

\* The recipient gets no more than there is.
LEMMA VestedBounded ==
  ASSUME NEW c \in Contracts, NEW a \in Assets
  PROVE  Vested(c, a) \in Nat /\ Vested(c, a) <= c.current[a] + c.carry[a]
<1> DEFINE x == c.current[a] + c.carry[a]
<1>1. x \in Nat
  BY DEF Contracts, AmountsPerAsset
<1>2. Target \in Nat
  BY EscrowFundingAssumption
<1> HIDE DEF x
<1>3. Min({Target, x}) \in {Target, x} /\ Min({Target, x}) <= x
  BY <1>1, <1>2, MinMember
<1>4. Vested(c, a) = x \/ Vested(c, a) = Min({Target, x})
  BY DEF Vested, x
<1> QED
  BY <1>1, <1>2, <1>3, <1>4 DEF x

LEMMA SettledGoalFields ==
  ASSUME NEW c, ContractShape(c), c.status = "OPEN", c.type = "MONTHLY"
  PROVE  LET d == SettlePeriod(c)
             v == VestedAmounts(c)
         IN  /\ d \in Contracts /\ ContractShape(d) /\ Grows(c, d) /\ Total(d) = Total(c)
             /\ d.status = (IF c.stopping THEN "CLOSED" ELSE "OPEN") /\ d.type = "MONTHLY"
             /\ d.policy = c.policy /\ d.stopping = c.stopping /\ d.settled = c.settled + 1
             /\ d.current = Nothing /\ d.paid = c.paid
             /\ d.entitled["CANCELLED_FUNDS"] = c.entitled["CANCELLED_FUNDS"]
             /\ v \in AmountsPerAsset
             /\ \A a \in Assets :
                  /\ d.entitled["EXPENSE"][a] = c.entitled["EXPENSE"][a] + v[a]
                  /\ c.current[a] + c.carry[a] = v[a] + d.carry[a]
<1> DEFINE d == SettlePeriod(c)
           v == VestedAmounts(c)
           x == [a \in Assets |-> c.entitled["EXPENSE"][a] + v[a]]
           y == [a \in Assets |-> c.current[a] + c.carry[a] - v[a]]
<1>1. c \in Contracts /\ c.entitled["CANCELLED_FUNDS"] = Nothing
  BY DEF ContractShape
<1>2. \A a \in Assets : /\ c.current[a] \in Nat /\ c.carry[a] \in Nat
                        /\ c.entitled["EXPENSE"][a] \in Nat
                        /\ c.entitled["CANCELLED_FUNDS"][a] \in Nat
                        /\ v[a] \in Nat /\ v[a] <= c.current[a] + c.carry[a]
                        /\ v[a] = Vested(c, a)
  <2>1. \A a \in Assets : /\ c.current[a] \in Nat /\ c.carry[a] \in Nat
                          /\ c.entitled["EXPENSE"][a] \in Nat
                          /\ c.entitled["CANCELLED_FUNDS"][a] \in Nat
    BY <1>1 DEF Contracts, AmountsPerKind, AmountsPerAsset, Kinds
  <2>2. \A a \in Assets : v[a] = Vested(c, a)
    BY DEF VestedAmounts
  <2> HIDE DEF v
  <2> QED
    BY <1>1, <2>1, <2>2, VestedBounded
<1>3. v \in AmountsPerAsset
  <2>1. v = [a \in Assets |-> v[a]]
    BY DEF VestedAmounts
  <2> HIDE DEF v
  <2> QED
    BY <1>2, <2>1 DEF AmountsPerAsset
<1>4. d = [c EXCEPT !.settled = @ + 1, !.status = IF c.stopping THEN "CLOSED" ELSE @,
                    !.entitled["EXPENSE"] = x, !.carry = y, !.current = Nothing]
  <2>1. /\ x = [a \in Assets |-> c.entitled["EXPENSE"][a] + Vested(c, a)]
        /\ y = [a \in Assets |-> c.current[a] + c.carry[a] - Vested(c, a)]
    BY DEF VestedAmounts
  <2> HIDE DEF x, y, v
  <2> QED
    BY <1>1, <2>1 DEF SettlePeriod, Contracts
<1> HIDE DEF v
<1>5. x \in AmountsPerAsset /\ y \in AmountsPerAsset
  BY <1>2 DEF AmountsPerAsset
<1>6. \A a \in Assets :
        x[a] = c.entitled["EXPENSE"][a] + v[a] /\ y[a] = c.current[a] + c.carry[a] - v[a]
  OBVIOUS
<1> HIDE DEF d, x, y
<1>7. /\ d.status = (IF c.stopping THEN "CLOSED" ELSE "OPEN") /\ d.type = c.type
      /\ d.policy = c.policy /\ d.stopping = c.stopping /\ d.settled = c.settled + 1
      /\ d.current = Nothing /\ d.carry = y /\ d.paid = c.paid
      /\ d.entitled = [c.entitled EXCEPT !["EXPENSE"] = x]
  BY <1>1, <1>4 DEF Contracts
<1>8. /\ d.entitled["EXPENSE"] = x /\ d.entitled["CANCELLED_FUNDS"] = Nothing
      /\ d.entitled \in AmountsPerKind
  BY <1>1, <1>5, <1>7 DEF Contracts, AmountsPerKind, Kinds
<1>9. d \in Contracts
  <2> DEFINE w == IF c.stopping THEN "CLOSED" ELSE c.status
             n == c.settled + 1
             m == d.entitled
  <2>1. w \in Statuses /\ n \in Nat /\ m \in AmountsPerKind
    BY <1>1, <1>8 DEF Contracts, Statuses
  <2>2. m = [c.entitled EXCEPT !["EXPENSE"] = x]
    BY <1>7
  <2>3. d = [c EXCEPT !.settled = n, !.status = w, !.entitled = [c.entitled EXCEPT !["EXPENSE"] = x],
                      !.carry = y, !.current = Nothing]
    BY <1>1, <1>4 DEF Contracts
  <2> HIDE DEF w, n, m
  <2>4. d = [c EXCEPT !.settled = n, !.status = w, !.entitled = m, !.carry = y, !.current = Nothing]
    BY <2>2, <2>3
  <2> QED
    BY <1>1, <1>5, <2>1, <2>4, NothingTyped DEF Contracts
<1>10. \A k \in Kinds, a \in Assets : /\ c.entitled[k][a] <= d.entitled[k][a]
                                      /\ c.paid[k][a] \in Nat /\ c.entitled[k][a] \in Nat
                                      /\ d.entitled[k][a] \in Nat
  <2>1. \A k \in Kinds : k = "EXPENSE" \/ k = "CANCELLED_FUNDS"
    BY DEF Kinds
  <2>2. \A k \in Kinds, a \in Assets : c.paid[k][a] \in Nat /\ c.entitled[k][a] \in Nat
                                       /\ d.entitled[k][a] \in Nat
    BY <1>1, <1>8 DEF Contracts, AmountsPerKind, AmountsPerAsset
  <2> QED
    BY <1>1, <1>2, <1>6, <1>8, <2>1, <2>2
<1>11. ContractShape(d)
  <2>1. \A k \in Kinds, a \in Assets : d.paid[k][a] <= d.entitled[k][a]
    <3>1. \A k \in Kinds, a \in Assets : c.paid[k][a] <= c.entitled[k][a]
      BY DEF ContractShape
    <3> QED
      BY <1>7, <1>10, <3>1
  <2> QED
    BY <1>7, <1>8, <1>9, <2>1 DEF ContractShape
<1>12. Grows(c, d)
  BY <1>7, <1>10 DEF Grows
<1>13. \A a \in Assets : c.current[a] + c.carry[a] = v[a] + y[a]
  BY <1>2, <1>6
<1>14. Total(d) = Total(c)
  <2>1. \A a \in Assets : Nothing[a] = 0
    BY DEF Nothing
  <2>2. ASSUME NEW a \in Assets
        PROVE  Total(d)[a] = Total(c)[a]
    <3>1. /\ Total(d)[a] = Nothing[a] + y[a] + x[a] + Nothing[a]
          /\ Total(c)[a] = c.current[a] + c.carry[a] + c.entitled["EXPENSE"][a] + Nothing[a]
      BY <1>1, <1>7, <1>8 DEF Total
    <3> QED
      BY <1>2, <1>6, <2>1, <3>1
  <2>3. Total(d) = [a \in Assets |-> Total(d)[a]] /\ Total(c) = [a \in Assets |-> Total(c)[a]]
    BY DEF Total
  <2> QED
    BY <2>2, <2>3
<1> QED
  BY <1>1, <1>3, <1>6, <1>7, <1>8, <1>9, <1>11, <1>12, <1>13, <1>14 DEF d, v

\* A figure of the assets in D, and another of those not yet accounted.
Part(D, x, y) == [a \in Assets |-> IF a \in D THEN x[a] ELSE y[a]]

\* The projection while the period is settled: it has accounted the assets in D.
MidRow(c, D) ==
  [exists |-> TRUE, status |-> "OPEN", type |-> "MONTHLY", policy |-> c.policy,
   scheduled |-> TRUE, stopping |-> c.stopping, settled |-> c.settled + 1,
   deadline |-> IF c.stopping THEN c.settled + 1 ELSE c.settled + 2,
   carry |-> Part(D, SettlePeriod(c).carry, c.carry),
   entitled |-> [c.entitled EXCEPT !["EXPENSE"] =
                   Part(D, SettlePeriod(c).entitled["EXPENSE"], c.entitled["EXPENSE"])]]

MidPeriod(c, D) ==
  [policy |-> c.policy, final |-> c.stopping, settled |-> TRUE, contributed |-> c.current,
   carryIn |-> c.carry, vested |-> Part(D, VestedAmounts(c), Nothing),
   carryOut |-> Part(D, SettlePeriod(c).carry, Nothing)]

MidNext(c, D) ==
  [policy |-> c.policy, final |-> FALSE, settled |-> FALSE, contributed |-> Nothing,
   carryIn |-> Part(D, SettlePeriod(c).carry, Nothing), vested |-> Nothing,
   carryOut |-> Nothing]

MidLast(p, c, D) == [p EXCEPT ![c.settled + 1] = MidPeriod(c, D)]

MidPeriods(p, c, D) ==
  IF c.stopping THEN MidLast(p, c, D)
  ELSE WithPeriod(MidLast(p, c, D), c.settled + 2, MidNext(c, D))

Mid(p, c, D) == Shown(MidRow(c, D), MidPeriods(p, c, D), Total(c), c.paid)

\* A monthly goal the contract may settle a period of.
Settling(c) == ContractShape(c) /\ c.status = "OPEN" /\ c.type = "MONTHLY"

LEMMA PartTyped ==
  ASSUME NEW D, NEW x \in AmountsPerAsset, NEW y \in AmountsPerAsset
  PROVE  /\ Part(D, x, y) \in AmountsPerAsset
         /\ Part({}, x, y) = y /\ Part(Assets, x, y) = x
         /\ \A a \in Assets : Part(D, x, y)[a] = IF a \in D THEN x[a] ELSE y[a]
<1>1. Part(D, x, y) \in AmountsPerAsset
  BY DEF Part, AmountsPerAsset
<1>2. x = [a \in Assets |-> x[a]] /\ y = [a \in Assets |-> y[a]]
  BY DEF AmountsPerAsset
<1>3. Part({}, x, y) = y /\ Part(Assets, x, y) = x
  BY <1>2 DEF Part
<1> QED
  BY <1>1, <1>3 DEF Part

LEMMA MidRowTyped ==
  ASSUME NEW c, Settling(c), NEW D
  PROVE  /\ MidRow(c, D) \in Rows
         /\ MidRow(c, D).entitled["CANCELLED_FUNDS"] = c.entitled["CANCELLED_FUNDS"]
         /\ MidRow(c, D).entitled["EXPENSE"]
              = Part(D, SettlePeriod(c).entitled["EXPENSE"], c.entitled["EXPENSE"])
<1> DEFINE d == SettlePeriod(c)
           m == [c.entitled EXCEPT !["EXPENSE"] =
                   Part(D, d.entitled["EXPENSE"], c.entitled["EXPENSE"])]
           t == IF c.stopping THEN c.settled + 1 ELSE c.settled + 2
           n == c.settled + 1
           w == Part(D, d.carry, c.carry)
           x == Part(D, d.entitled["EXPENSE"], c.entitled["EXPENSE"])
<1>1. d \in Contracts /\ c \in Contracts
  BY SettledGoalFields DEF Settling, ContractShape
<1>2. "EXPENSE" \in Kinds /\ "CANCELLED_FUNDS" \in Kinds
  BY DEF Kinds
<1> HIDE DEF d
<1>3. /\ d.carry \in AmountsPerAsset /\ c.carry \in AmountsPerAsset
      /\ d.entitled["EXPENSE"] \in AmountsPerAsset /\ c.entitled["EXPENSE"] \in AmountsPerAsset
      /\ c.entitled \in AmountsPerKind
  BY <1>1, <1>2 DEF Contracts, AmountsPerKind
<1>4. w \in AmountsPerAsset /\ x \in AmountsPerAsset
  <2>1. \A y, z \in AmountsPerAsset : Part(D, y, z) \in AmountsPerAsset
    BY PartTyped
  <2> QED
    BY <1>3, <2>1
<1>5. t \in Nat /\ n \in Nat /\ c.policy \in PolicyNames /\ c.stopping \in BOOLEAN
  BY <1>1 DEF Contracts
<1>6. m = [c.entitled EXCEPT !["EXPENSE"] = x]
  OBVIOUS
<1> HIDE DEF x, m
<1>7. m \in AmountsPerKind /\ m["EXPENSE"] = x
      /\ m["CANCELLED_FUNDS"] = c.entitled["CANCELLED_FUNDS"]
  BY <1>2, <1>3, <1>4, <1>6 DEF AmountsPerKind
<1>8. MidRow(c, D) = [exists |-> TRUE, status |-> "OPEN", type |-> "MONTHLY", policy |-> c.policy,
                      scheduled |-> TRUE, stopping |-> c.stopping, settled |-> n,
                      deadline |-> t, carry |-> w, entitled |-> m]
  BY Zenon DEF MidRow, d, x, m
<1> HIDE DEF w, t, n
<1>9. MidRow(c, D) \in Rows /\ MidRow(c, D).entitled = m
  BY <1>4, <1>5, <1>7, <1>8 DEF Rows, Statuses, GoalTypes
<1> QED
  BY <1>7, <1>9 DEF x, d

LEMMA MidPeriodsTyped ==
  ASSUME NEW c, Settling(c), NEW D, NEW p, PeriodsFit(p, c)
  PROVE  LET n == c.settled + 1
             r == MidPeriods(p, c, D)
         IN  /\ n \in Nat /\ p \in [1..n -> Periods] /\ p[n] = OpenPeriodOf(c)
             /\ MidPeriod(c, D) \in Periods /\ MidNext(c, D) \in Periods
             /\ MidLast(p, c, D) \in [1..n -> Periods] /\ MidLast(p, c, D) \in Histories
             /\ r \in Histories
             /\ DOMAIN r = (IF c.stopping THEN 1..n ELSE 1..n + 1)
             /\ r[n] = MidPeriod(c, D)
             /\ ~c.stopping => r[n + 1] = MidNext(c, D)
             /\ \A i \in 1..c.settled : r[i] = p[i]
<1> DEFINE d == SettlePeriod(c)
           n == c.settled + 1
           x == MidPeriod(c, D)
           y == MidNext(c, D)
           l == MidLast(p, c, D)
           r == MidPeriods(p, c, D)
<1>1. c \in Contracts /\ d \in Contracts /\ VestedAmounts(c) \in AmountsPerAsset
  BY SettledGoalFields DEF Settling, ContractShape
<1>2. n \in Nat /\ c.settled \in Nat /\ c.stopping \in BOOLEAN /\ n + 1 = c.settled + 2
  BY <1>1 DEF Contracts
<1>3. DOMAIN p = 1..n /\ p \in Histories /\ p[n] = OpenPeriodOf(c)
  BY DEF Settling, PeriodsFit
<1>4. p \in [1..n -> Periods]
  <2>1. PICK m \in Nat : p \in [1..m -> Periods]
    BY <1>3 DEF Histories
  <2>2. DOMAIN p = 1..m
    BY <2>1
  <2> QED
    BY <1>3, <2>1, <2>2
<1>5. x \in Periods /\ y \in Periods
  <2>1. /\ Part(D, VestedAmounts(c), Nothing) \in AmountsPerAsset
        /\ Part(D, d.carry, Nothing) \in AmountsPerAsset
    <3>1. d.carry \in AmountsPerAsset
      BY <1>1 DEF Contracts
    <3> QED
      BY <1>1, <3>1, NothingTyped, PartTyped
  <2>2. c.policy \in PolicyNames /\ c.current \in AmountsPerAsset /\ c.carry \in AmountsPerAsset
    BY <1>1 DEF Contracts
  <2> QED
    BY <1>2, <2>1, <2>2, NothingTyped DEF MidPeriod, MidNext, Periods
<1> HIDE DEF x, y, d
<1>6. /\ l \in [1..n -> Periods] /\ l[n] = x /\ \A i \in 1..c.settled : l[i] = p[i]
  <2>1. n \in 1..n /\ \A i \in 1..c.settled : i \in 1..n /\ i # n
    BY <1>2
  <2>2. l = [p EXCEPT ![n] = x]
    BY DEF MidLast, x
  <2> HIDE DEF l, n
  <2> QED
    BY <1>4, <1>5, <2>1, <2>2
<1> HIDE DEF l
<1>7. l \in Histories
  BY <1>2, <1>6 DEF Histories
<1>8. CASE c.stopping
  <2>1. r = l
    BY <1>8 DEF MidPeriods, l
  <2>2. DOMAIN l = 1..n
    BY <1>6
  <2> HIDE DEF r
  <2> QED
    BY <1>2, <1>3, <1>4, <1>5, <1>6, <1>7, <1>8, <2>1, <2>2 DEF x, y, l, r
<1>9. CASE ~c.stopping
  <2>1. r = WithPeriod(l, n + 1, y)
    BY <1>2, <1>9 DEF MidPeriods, l, y
  <2>2. /\ WithPeriod(l, n + 1, y) \in [1..n + 1 -> Periods]
        /\ WithPeriod(l, n + 1, y) \in Histories
        /\ WithPeriod(l, n + 1, y)[n + 1] = y
        /\ \A i \in 1..n : WithPeriod(l, n + 1, y)[i] = l[i]
    BY <1>2, <1>5, <1>6, LongerFields
  <2> HIDE DEF r
  <2>3. DOMAIN r = 1..n + 1 /\ r \in Histories /\ r[n + 1] = y /\ \A i \in 1..n : r[i] = l[i]
    BY <2>1, <2>2
  <2>4. n \in 1..n /\ \A i \in 1..c.settled : i \in 1..n
    BY <1>2
  <2>5. r[n] = x /\ \A i \in 1..c.settled : r[i] = p[i]
    BY <1>6, <2>3, <2>4
  <2> QED
    BY <1>2, <1>3, <1>4, <1>5, <1>6, <1>7, <1>9, <2>3, <2>5 DEF x, y, l, r
<1> QED
  BY <1>8, <1>9

LEMMA MidSound ==
  ASSUME NEW c, Settling(c), NEW D, NEW p, PeriodsFit(p, c)
  PROVE  Mid(p, c, D) \in Projections /\ Sound(Mid(p, c, D), SettlePeriod(c))
<1> DEFINE d == SettlePeriod(c)
           s == Mid(p, c, D)
           x == MidRow(c, D)
<1>1. /\ d \in Contracts /\ Grows(c, d) /\ d.paid = c.paid /\ c \in Contracts
      /\ d.entitled["CANCELLED_FUNDS"] = c.entitled["CANCELLED_FUNDS"]
      /\ c.status = "OPEN" /\ ContractShape(c)
  BY SettledGoalFields DEF Settling, ContractShape
<1>2. /\ x \in Rows /\ x.entitled["CANCELLED_FUNDS"] = c.entitled["CANCELLED_FUNDS"]
      /\ x.entitled["EXPENSE"] = Part(D, d.entitled["EXPENSE"], c.entitled["EXPENSE"])
  BY MidRowTyped
<1>3. x.status = "OPEN"
  BY DEF MidRow
<1>4. MidPeriods(p, c, D) \in Histories
  BY MidPeriodsTyped
<1>5. Total(c) \in AmountsPerAsset /\ c.paid \in AmountsPerKind
  <2>1. Image(p, c) \in Projections
    BY <1>1, ImageTyped DEF PeriodsFit
  <2> QED
    BY <2>1 DEF Projections, Image, Shown
<1>6. s \in Projections /\ s.row = x /\ s.released = c.paid
  BY <1>2, <1>4, <1>5 DEF Mid, Shown, Projections
<1> HIDE DEF s, x, d
<1>7. ASSUME NEW k \in Kinds, NEW a \in Assets
      PROVE  /\ x.entitled[k][a] \in {c.entitled[k][a], d.entitled[k][a]}
             /\ c.entitled[k][a] \in Nat /\ d.entitled[k][a] \in Nat /\ c.paid[k][a] \in Nat
             /\ c.entitled[k][a] <= d.entitled[k][a] /\ c.paid[k][a] <= c.entitled[k][a]
  <2>1. /\ c.entitled[k][a] \in Nat /\ d.entitled[k][a] \in Nat /\ c.paid[k][a] \in Nat
    BY <1>1 DEF Contracts, AmountsPerKind, AmountsPerAsset
  <2>2. c.entitled[k][a] <= d.entitled[k][a] /\ c.paid[k][a] <= c.entitled[k][a]
    BY <1>1 DEF Grows, ContractShape
  <2>3. CASE k = "CANCELLED_FUNDS"
    BY <1>2, <2>1, <2>2, <2>3
  <2>4. CASE k = "EXPENSE"
    <3>1. x.entitled[k][a] = IF a \in D THEN d.entitled[k][a] ELSE c.entitled[k][a]
      BY <1>2, <2>4 DEF Part
    <3> QED
      BY <2>1, <2>2, <3>1
  <2> QED
    BY <2>3, <2>4 DEF Kinds
<1>8. ASSUME NEW k \in Kinds, NEW a \in Assets
      PROVE  /\ s.row.entitled[k][a] <= d.entitled[k][a] /\ s.released[k][a] <= d.paid[k][a]
             /\ s.released[k][a] <= s.row.entitled[k][a]
  <2>1. /\ s.row.entitled[k][a] = x.entitled[k][a] /\ s.released[k][a] = c.paid[k][a]
        /\ d.paid[k][a] = c.paid[k][a]
    BY <1>1, <1>6
  <2> QED
    BY <1>7, <2>1
<1>9. Sound(s, d)
  BY <1>3, <1>6, <1>8 DEF Sound
<1> QED
  BY <1>6, <1>9 DEF s, d

PeriodEvent(c) ==
  [name |-> "MonthlyPeriodSettled", period |-> SettlePeriod(c).settled, policy |-> c.policy,
   final |-> c.stopping]

TokenEvent(c, a) ==
  [name |-> "MonthlyTokenSettled", period |-> SettlePeriod(c).settled, asset |-> a,
   contributed |-> c.current[a], carryIn |-> c.carry[a], vested |-> Vested(c, a),
   carryOut |-> SettlePeriod(c).carry[a]]

\* The settled period is created in its final state, the next one is opened.
LEMMA PeriodFollows ==
  ASSUME NEW c, Settling(c), NEW p, PeriodsFit(p, c)
  PROVE  LET e == PeriodEvent(c)
         IN  /\ e \in Events /\ Accepts(Image(p, c), e)
             /\ After(Image(p, c), e) = Mid(p, c, {})
<1> DEFINE n == c.settled + 1
           e == PeriodEvent(c)
           s == Image(p, c)
           d == SettlePeriod(c)
           x == RowOf(c)
           y == MidRow(c, {})
           o == OpenPeriodOf(c)
           f == MidPeriod(c, {})
           g == MidNext(c, {})
<1>1. /\ c \in Contracts /\ d \in Contracts /\ d.settled = n /\ c.status = "OPEN"
      /\ c.type = "MONTHLY" /\ c.stopping \in BOOLEAN /\ n \in Nat /\ n + 1 = c.settled + 2
      /\ c.policy \in PolicyNames /\ c.settled \in Nat
  BY SettledGoalFields DEF Settling, ContractShape, Contracts
<1>2. e \in Events /\ e.name = "MonthlyPeriodSettled" /\ e.period = n /\ e.final = c.stopping
      /\ e.policy = c.policy
  <2> HIDE DEF d
  <2> QED
    BY <1>1 DEF PeriodEvent, Events, d
<1>3. s.row = x /\ s.periods = p /\ s.funded = Total(c) /\ s.released = c.paid
  BY DEF Image, Shown
<1>4. /\ p \in [1..n -> Periods] /\ p[n] = o /\ f \in Periods /\ g \in Periods /\ o \in Periods
  BY <1>1, MidPeriodsTyped, OpenPeriodTyped
<1>5. Accepts(s, e)
  <2>1. x.exists /\ x.scheduled
    BY <1>1 DEF RowOf
  <2> HIDE DEF e, s, x
  <2> QED
    BY <1>2, <1>3, <2>1 DEF Accepts
<1>6. Advanced(x, e) = y
  <2> DEFINE z == Advanced(x, e)
             w == x.deadline
  <2>1. x \in Rows /\ y \in Rows
    BY <1>1, RowTyped, MidRowTyped
  <2>2. /\ y.exists = x.exists /\ y.status = x.status /\ y.type = x.type
        /\ y.policy = x.policy /\ y.scheduled = x.scheduled /\ y.stopping = x.stopping
    BY <1>1 DEF RowOf, MidRow
  <2>3. y.settled = n /\ y.deadline = (IF c.stopping THEN x.deadline ELSE n + 1)
    BY <1>1 DEF RowOf, MidRow
  <2>4. y.carry = x.carry /\ y.entitled = x.entitled
    <3>1. /\ d.carry \in AmountsPerAsset /\ c.carry \in AmountsPerAsset
          /\ d.entitled["EXPENSE"] \in AmountsPerAsset /\ c.entitled["EXPENSE"] \in AmountsPerAsset
          /\ c.entitled \in AmountsPerKind
      <4> HIDE DEF d
      <4> QED
        BY <1>1 DEF Contracts, AmountsPerKind, Kinds
    <3>2. /\ Part({}, d.carry, c.carry) = c.carry
          /\ Part({}, d.entitled["EXPENSE"], c.entitled["EXPENSE"]) = c.entitled["EXPENSE"]
      <4>1. \A u, v \in AmountsPerAsset : Part({}, u, v) = v
        BY PartTyped
      <4> QED
        BY <3>1, <4>1
    <3>3. [c.entitled EXCEPT !["EXPENSE"] = c.entitled["EXPENSE"]] = c.entitled
      BY <3>1 DEF AmountsPerKind
    <3> QED
      BY <3>2, <3>3 DEF RowOf, MidRow
  <2> HIDE DEF x, y, e
  <2>5. /\ z \in Rows
        /\ z.exists = x.exists /\ z.status = x.status /\ z.type = x.type
        /\ z.policy = x.policy /\ z.scheduled = x.scheduled /\ z.stopping = x.stopping
        /\ z.carry = x.carry /\ z.entitled = x.entitled /\ z.settled = e.period
        /\ z.deadline = (IF e.final THEN x.deadline ELSE e.period + 1)
    BY <1>1, <1>2, <2>1, AdvancedFields
  <2> HIDE DEF z
  <2>6. z.settled = y.settled /\ z.deadline = y.deadline
    BY <1>2, <2>3, <2>5
  <2>7. z = y
    BY <2>1, <2>2, <2>4, <2>5, <2>6, RowEqual
  <2> QED
    BY <2>7 DEF z
<1>7. Accounted(p, e) = MidPeriods(p, c, {})
  <2>1. [o EXCEPT !.policy = e.policy, !.final = e.final, !.settled = TRUE] = f
    <3>1. /\ o.contributed = c.current /\ o.carryIn = c.carry /\ o.vested = Nothing
          /\ o.carryOut = Nothing
      BY DEF OpenPeriodOf
    <3>2. /\ Part({}, VestedAmounts(c), Nothing) = Nothing /\ Part({}, d.carry, Nothing) = Nothing
      BY DEF Part, Nothing
    <3>3. /\ f.policy = c.policy /\ f.final = c.stopping /\ f.settled = TRUE
          /\ f.contributed = c.current /\ f.carryIn = c.carry /\ f.vested = Nothing
          /\ f.carryOut = Nothing
      BY <3>2 DEF MidPeriod
    <3> DEFINE z == [o EXCEPT !.policy = c.policy, !.final = c.stopping, !.settled = TRUE]
    <3> HIDE DEF o, f, e, d
    <3>4. /\ z \in Periods /\ z.policy = c.policy /\ z.final = c.stopping /\ z.settled = TRUE
          /\ z.contributed = o.contributed /\ z.carryIn = o.carryIn /\ z.vested = o.vested
          /\ z.carryOut = o.carryOut
      BY <1>1, <1>4 DEF Periods
    <3> HIDE DEF z
    <3>5. z = f
      BY <1>4, <3>1, <3>3, <3>4 DEF Periods
    <3> QED
      BY <1>2, <3>5 DEF z
  <2>2. NewPeriod(e.policy) = g
    <3>1. Part({}, d.carry, Nothing) = Nothing
      BY DEF Part, Nothing
    <3> HIDE DEF e, d
    <3> QED
      BY <1>2, <3>1 DEF NewPeriod, MidNext, d
  <2> DEFINE l == [p EXCEPT ![n] = f]
  <2>3. WithPeriod(p, n, f) = l
    <3> HIDE DEF f
    <3>1. DOMAIN p \cup {n} = DOMAIN p /\ n \in DOMAIN p
      BY <1>1, <1>4
    <3> QED
      BY <3>1 DEF WithPeriod
  <2>4. l = MidLast(p, c, {})
    BY DEF MidLast
  <2>5. DOMAIN l = 1..n /\ n \in DOMAIN p /\ n + 1 \notin 1..n
    BY <1>1, <1>4
  <2> HIDE DEF e, f, g, l, o, d
  <2>6. Accounted(p, e) = WithNextPeriod(l, e)
    <3>1. p[e.period] = o /\ e.period \in DOMAIN p
      BY <1>2, <1>4, <2>5
    <3> QED
      BY <1>2, <2>1, <2>3, <3>1 DEF Accounted
  <2>7. WithNextPeriod(l, e) = IF c.stopping THEN l ELSE WithPeriod(l, n + 1, g)
    BY <1>2, <2>2, <2>5 DEF WithNextPeriod
  <2> QED
    BY <1>1, <2>4, <2>6, <2>7 DEF MidPeriods, g
<1> HIDE DEF e, s, x, y
<1>8. RowAfter(s, e) = y /\ PeriodsAfter(s, e) = MidPeriods(p, c, {})
  BY <1>2, <1>3, <1>6, <1>7 DEF RowAfter, PeriodsAfter
<1>9. FundedAfter(s, e) = Total(c) /\ ReleasedAfter(s, e) = c.paid
  BY <1>2, <1>3 DEF FundedAfter, ReleasedAfter
<1>10. After(s, e) = Mid(p, c, {})
  BY <1>8, <1>9 DEF After, Mid, y
<1> QED
  BY <1>2, <1>5, <1>10 DEF e, s

\* Accounting one more asset changes its figure only.
LEMMA PartMore ==
  ASSUME NEW D, NEW x \in AmountsPerAsset, NEW y \in AmountsPerAsset, NEW a \in Assets
  PROVE  [Part(D, x, y) EXCEPT ![a] = x[a]] = Part(D \cup {a}, x, y)
BY DEF Part

\* The event of an asset not yet accounted accounts it.
LEMMA TokenFollows ==
  ASSUME NEW c, Settling(c), NEW p, PeriodsFit(p, c), NEW D, NEW a \in Assets, a \notin D
  PROVE  LET e == TokenEvent(c, a)
         IN  /\ e \in Events /\ Accepts(Mid(p, c, D), e)
             /\ After(Mid(p, c, D), e) = Mid(p, c, D \cup {a})
<1> DEFINE n == c.settled + 1
           e == TokenEvent(c, a)
           s == Mid(p, c, D)
           E == D \cup {a}
           d == SettlePeriod(c)
           v == VestedAmounts(c)
           u == d.entitled["EXPENSE"]
           t == c.entitled["EXPENSE"]
<1>1. /\ c \in Contracts /\ d \in Contracts /\ d.settled = n /\ n \in Nat /\ c.settled \in Nat
      /\ v \in AmountsPerAsset /\ u[a] = t[a] + v[a] /\ c.stopping \in BOOLEAN
  BY SettledGoalFields DEF Settling, ContractShape, Contracts
<1>2. v[a] = Vested(c, a)
  BY DEF VestedAmounts
<1> HIDE DEF d, v
<1>3. /\ d.carry \in AmountsPerAsset /\ c.carry \in AmountsPerAsset
      /\ u \in AmountsPerAsset /\ t \in AmountsPerAsset
      /\ c.entitled \in AmountsPerKind /\ c.current \in AmountsPerAsset
  BY <1>1 DEF Contracts, AmountsPerKind, Kinds
<1>4. /\ e.name = "MonthlyTokenSettled" /\ e.period = n /\ e.asset = a
      /\ e.contributed = c.current[a] /\ e.carryIn = c.carry[a] /\ e.vested = v[a]
      /\ e.carryOut = d.carry[a]
  BY <1>1, <1>2 DEF TokenEvent, d
<1>5. /\ c.current[a] \in Nat /\ c.carry[a] \in Nat /\ v[a] \in Nat /\ d.carry[a] \in Nat
  BY <1>1, <1>3 DEF AmountsPerAsset
<1>6. e \in Events
  <2>1. e = [name |-> "MonthlyTokenSettled", period |-> n, asset |-> a,
             contributed |-> c.current[a], carryIn |-> c.carry[a], vested |-> v[a],
             carryOut |-> d.carry[a]]
    BY <1>1, <1>2 DEF TokenEvent, d
  <2> HIDE DEF e
  <2> QED
    BY <1>1, <1>5, <2>1 DEF Events
<1>7. /\ s.row = MidRow(c, D) /\ s.periods = MidPeriods(p, c, D) /\ s.funded = Total(c)
      /\ s.released = c.paid
  BY DEF Mid, Shown
<1> HIDE DEF u, t
<1>8. /\ [Part(D, d.carry, c.carry) EXCEPT ![a] = d.carry[a]] = Part(E, d.carry, c.carry)
      /\ [Part(D, v, Nothing) EXCEPT ![a] = v[a]] = Part(E, v, Nothing)
      /\ [Part(D, d.carry, Nothing) EXCEPT ![a] = d.carry[a]] = Part(E, d.carry, Nothing)
      /\ [Part(D, u, t) EXCEPT ![a] = u[a]] = Part(E, u, t)
      /\ Part(D, u, t)[a] = t[a]
      /\ Part(D, u, t) \in AmountsPerAsset /\ Part(E, u, t) \in AmountsPerAsset
  <2> DEFINE P(B, x, y) == Part(B, x, y)
  <2>1. \A x, y \in AmountsPerAsset : /\ [P(D, x, y) EXCEPT ![a] = x[a]] = P(E, x, y)
                                      /\ P(D, x, y)[a] = y[a]
                                      /\ P(D, x, y) \in AmountsPerAsset
                                      /\ P(E, x, y) \in AmountsPerAsset
    BY PartMore, PartTyped
  <2> HIDE DEF P
  <2>2. /\ [P(D, d.carry, c.carry) EXCEPT ![a] = d.carry[a]] = P(E, d.carry, c.carry)
        /\ [P(D, v, Nothing) EXCEPT ![a] = v[a]] = P(E, v, Nothing)
        /\ [P(D, d.carry, Nothing) EXCEPT ![a] = d.carry[a]] = P(E, d.carry, Nothing)
        /\ [P(D, u, t) EXCEPT ![a] = u[a]] = P(E, u, t)
        /\ P(D, u, t)[a] = t[a]
        /\ P(D, u, t) \in AmountsPerAsset /\ P(E, u, t) \in AmountsPerAsset
    BY <1>1, <1>3, <2>1, NothingTyped
  <2> QED
    BY <2>2 DEF P
<1> DEFINE x == MidRow(c, D)
           y == MidRow(c, E)
           z == Accrued(x, e)
<1>9. z = y
  <2>1. x \in Rows /\ y \in Rows
    BY MidRowTyped
  <2>2. /\ y.exists = x.exists /\ y.status = x.status /\ y.type = x.type
        /\ y.policy = x.policy /\ y.scheduled = x.scheduled /\ y.stopping = x.stopping
        /\ y.settled = x.settled /\ y.deadline = x.deadline
    BY DEF MidRow
  <2>3. /\ x.carry = Part(D, d.carry, c.carry) /\ y.carry = Part(E, d.carry, c.carry)
        /\ x.entitled = [c.entitled EXCEPT !["EXPENSE"] = Part(D, u, t)]
        /\ y.entitled = [c.entitled EXCEPT !["EXPENSE"] = Part(E, u, t)]
    BY DEF MidRow, d, u, t
  <2> HIDE DEF x, y, e
  <2>4. /\ z \in Rows
        /\ z.exists = x.exists /\ z.status = x.status /\ z.type = x.type
        /\ z.policy = x.policy /\ z.scheduled = x.scheduled /\ z.stopping = x.stopping
        /\ z.settled = x.settled /\ z.deadline = x.deadline
        /\ z.carry = [x.carry EXCEPT ![e.asset] = e.carryOut]
        /\ z.entitled = [x.entitled EXCEPT !["EXPENSE"][e.asset] = @ + e.vested]
    BY <1>4, <1>5, <2>1, AccruedFields
  <2> HIDE DEF z
  <2>5. z.carry = y.carry
    BY <1>4, <1>8, <2>3, <2>4
  <2>6. z.entitled = y.entitled
    <3> DEFINE w == Part(D, u, t)
               r == Part(E, u, t)
    <3>1. w \in AmountsPerAsset /\ r = [w EXCEPT ![a] = w[a] + v[a]]
      BY <1>1, <1>8
    <3>2. x.entitled = [c.entitled EXCEPT !["EXPENSE"] = w]
          /\ y.entitled = [c.entitled EXCEPT !["EXPENSE"] = r]
      BY <2>3
    <3> HIDE DEF w, r
    <3>3. "EXPENSE" \in DOMAIN c.entitled
      BY <1>3 DEF AmountsPerKind, Kinds
    <3>4. x.entitled["EXPENSE"] = w
      BY <3>2, <3>3
    <3>5. z.entitled = [x.entitled EXCEPT !["EXPENSE"] = [w EXCEPT ![a] = w[a] + v[a]]]
      BY <1>4, <2>4, <3>4
    <3> QED
      BY <3>1, <3>2, <3>3, <3>5
  <2> QED
    BY <2>1, <2>2, <2>4, <2>5, <2>6, RowEqual
<1> DEFINE r == MidPeriods(p, c, D)
           q == MidPeriods(p, c, E)
           w == Carried(r, e)
<1>10. /\ DOMAIN r = DOMAIN q /\ n \in DOMAIN r
       /\ r[n] = MidPeriod(c, D) /\ q[n] = MidPeriod(c, E)
       /\ r[n] \in Periods /\ q[n] \in Periods
       /\ \A i \in DOMAIN r : i # n =>
            \/ i = n + 1 /\ r[i] = MidNext(c, D) /\ q[i] = MidNext(c, E)
               /\ r[i] \in Periods /\ q[i] \in Periods
            \/ i # n + 1 /\ r[i] = p[i] /\ q[i] = p[i]
  <2>1. /\ DOMAIN r = (IF c.stopping THEN 1..n ELSE 1..n + 1)
        /\ DOMAIN q = (IF c.stopping THEN 1..n ELSE 1..n + 1)
        /\ r[n] = MidPeriod(c, D) /\ q[n] = MidPeriod(c, E)
        /\ ~c.stopping => r[n + 1] = MidNext(c, D) /\ q[n + 1] = MidNext(c, E)
        /\ \A i \in 1..c.settled : r[i] = p[i] /\ q[i] = p[i]
    BY MidPeriodsTyped
  <2>2. /\ MidPeriod(c, D) \in Periods /\ MidNext(c, D) \in Periods
        /\ MidPeriod(c, E) \in Periods /\ MidNext(c, E) \in Periods
    BY MidPeriodsTyped
  <2> HIDE DEF r, q
  <2>3. \A i \in 1..n : i # n => i \in 1..c.settled /\ i # n + 1
    BY <1>1
  <2>4. \A i \in 1..n + 1 : i = n + 1 \/ i \in 1..n
    BY <1>1
  <2>5. n \in 1..n /\ n \in 1..n + 1 /\ n + 1 # n /\ n + 1 \notin 1..n
    BY <1>1
  <2>6. CASE c.stopping
    <3>1. \A i \in DOMAIN r : i # n => i \in 1..c.settled /\ i # n + 1
      BY <2>1, <2>3, <2>6
    <3> QED
      BY <2>1, <2>2, <2>5, <2>6, <3>1
  <2>7. CASE ~c.stopping
    <3>1. \A i \in DOMAIN r : i # n => i = n + 1 \/ (i \in 1..c.settled /\ i # n + 1)
      BY <2>1, <2>3, <2>4, <2>7
    <3> QED
      BY <2>1, <2>2, <2>5, <2>7, <3>1
  <2> QED
    BY <2>6, <2>7
<1>11. ASSUME NEW i \in DOMAIN r
       PROVE  w[i] = q[i]
  <2> DEFINE f == MidPeriod(c, D)
             g == MidPeriod(c, E)
             h == MidNext(c, D)
             k == MidNext(c, E)
  <2>1. CASE i = n
    <3> DEFINE l == [f EXCEPT !.contributed[a] = c.current[a], !.carryIn[a] = c.carry[a],
                              !.vested[a] = v[a], !.carryOut[a] = d.carry[a]]
    <3>1. w[i] = l
      <4>1. r[i] = f
        BY <1>10, <2>1
      <4> HIDE DEF e, r, f
      <4>2. i = e.period /\ i \in DOMAIN r /\ i # e.period + 1
        BY <1>1, <1>4, <2>1
      <4>3. w[i] = [r[i] EXCEPT !.contributed[e.asset] = e.contributed,
                                !.carryIn[e.asset] = e.carryIn,
                                !.vested[e.asset] = e.vested, !.carryOut[e.asset] = e.carryOut]
        BY <4>2 DEF Carried
      <4> QED
        BY <1>4, <4>1, <4>3
    <3>2. /\ g.policy = f.policy /\ g.final = f.final /\ g.settled = f.settled
          /\ g.contributed = f.contributed /\ g.carryIn = f.carryIn
          /\ f.contributed = c.current /\ f.carryIn = c.carry
          /\ f.vested = Part(D, v, Nothing) /\ g.vested = Part(E, v, Nothing)
          /\ f.carryOut = Part(D, d.carry, Nothing) /\ g.carryOut = Part(E, d.carry, Nothing)
      BY DEF MidPeriod, d, v
    <3>3. f \in Periods /\ g \in Periods
      BY <1>10
    <3> HIDE DEF f, g
    <3>4. /\ l.policy = f.policy /\ l.final = f.final /\ l.settled = f.settled
          /\ l.contributed = [f.contributed EXCEPT ![a] = c.current[a]]
          /\ l.carryIn = [f.carryIn EXCEPT ![a] = c.carry[a]]
          /\ l.vested = [f.vested EXCEPT ![a] = v[a]]
          /\ l.carryOut = [f.carryOut EXCEPT ![a] = d.carry[a]]
      BY <3>3 DEF Periods
    <3>5. l \in Periods
      BY <1>5, <3>3 DEF Periods, AmountsPerAsset
    <3> HIDE DEF l
    <3>6. l.contributed = g.contributed /\ l.carryIn = g.carryIn
      BY <1>3, <3>2, <3>4 DEF AmountsPerAsset
    <3>7. l.vested = g.vested /\ l.carryOut = g.carryOut
      BY <1>8, <3>2, <3>4
    <3>8. l = g
      BY <3>2, <3>3, <3>4, <3>5, <3>6, <3>7 DEF Periods
    <3> QED
      BY <1>10, <2>1, <3>1, <3>8 DEF g
  <2>2. CASE i = n + 1 /\ i # n
    <3> DEFINE l == [h EXCEPT !.carryIn[a] = d.carry[a]]
    <3>0. r[i] = h /\ q[i] = k /\ h \in Periods /\ k \in Periods
      BY <1>10, <2>2
    <3>1. w[i] = l
      <4>1. h.settled = FALSE
        BY DEF MidNext
      <4> HIDE DEF e, r, h
      <4> QED
        BY <1>4, <2>2, <3>0, <4>1 DEF Carried
    <3>2. /\ k.policy = h.policy /\ k.final = h.final /\ k.settled = h.settled
          /\ k.contributed = h.contributed /\ k.vested = h.vested /\ k.carryOut = h.carryOut
          /\ h.carryIn = Part(D, d.carry, Nothing) /\ k.carryIn = Part(E, d.carry, Nothing)
      BY DEF MidNext, d
    <3> HIDE DEF h, k
    <3>4. /\ l.policy = h.policy /\ l.final = h.final /\ l.settled = h.settled
          /\ l.contributed = h.contributed /\ l.vested = h.vested /\ l.carryOut = h.carryOut
          /\ l.carryIn = [h.carryIn EXCEPT ![a] = d.carry[a]]
      BY <3>0 DEF Periods
    <3>5. l \in Periods
      BY <1>5, <3>0 DEF Periods, AmountsPerAsset
    <3> HIDE DEF l
    <3>6. l.carryIn = k.carryIn
      BY <1>8, <3>2, <3>4
    <3>7. l = k
      BY <3>0, <3>2, <3>4, <3>5, <3>6 DEF Periods
    <3> QED
      BY <3>0, <3>1, <3>7
  <2>3. CASE i # n /\ i # n + 1
    <3> HIDE DEF e, r, q
    <3> QED
      BY <1>4, <1>10, <2>3 DEF Carried
  <2> QED
    BY <2>1, <2>2, <2>3
<1>12. w = q
  <2>1. w = [i \in DOMAIN r |-> w[i]]
    BY DEF Carried
  <2>2. q = [i \in DOMAIN q |-> q[i]]
    <3>1. q \in Histories
      BY MidPeriodsTyped
    <3> HIDE DEF q
    <3> QED
      BY <3>1 DEF Histories
  <2> HIDE DEF w, q, r
  <2> QED
    BY <1>10, <1>11, <2>1, <2>2
<1>13. Accepts(s, e)
  <2>1. MidRow(c, D).exists
    BY DEF MidRow
  <2> HIDE DEF e, s
  <2> QED
    BY <1>4, <1>7, <1>10, <2>1 DEF Accepts
<1> HIDE DEF e, s
<1>14. RowAfter(s, e) = y /\ FundedAfter(s, e) = Total(c) /\ ReleasedAfter(s, e) = c.paid
  BY <1>4, <1>7, <1>9 DEF RowAfter, FundedAfter, ReleasedAfter
<1>15. PeriodsAfter(s, e) = q
  BY <1>4, <1>7, <1>12 DEF PeriodsAfter
<1>16. After(s, e) = Mid(p, c, E)
  BY <1>14, <1>15 DEF After, Mid
<1> QED
  BY <1>6, <1>13, <1>16 DEF e, s

ClosedEvent(c) == [name |-> "GoalClosed", entitled |-> SettlePeriod(c).entitled["EXPENSE"]]

\* The sums over the periods once every asset is accounted.
LEMMA MidSums ==
  ASSUME NEW c, Settling(c), NEW p, PeriodsFit(p, c), NEW a \in Assets
  PROVE  LET r == MidPeriods(p, c, Assets)
         IN  /\ VestedIn(r, a) = VestedIn(p, a) + VestedAmounts(c)[a]
             /\ ContributedIn(r, a) = ContributedIn(p, a)
<1> DEFINE n == c.settled + 1
           o == OpenPeriodOf(c)
           f == MidPeriod(c, Assets)
           g == MidNext(c, Assets)
           l == MidLast(p, c, Assets)
           r == MidPeriods(p, c, Assets)
           v == VestedAmounts(c)
           S == 1..n
<1>1. /\ n \in Nat /\ p \in [S -> Periods] /\ p[n] = o /\ f \in Periods /\ g \in Periods
      /\ l \in [S -> Periods] /\ c.settled \in Nat /\ n + 1 = c.settled + 2
      /\ v \in AmountsPerAsset
  <2>1. c.settled \in Nat /\ v \in AmountsPerAsset
    BY SettledGoalFields DEF Settling, ContractShape, Contracts
  <2>2. /\ n \in Nat /\ p \in [S -> Periods] /\ p[n] = o /\ f \in Periods /\ g \in Periods
        /\ l \in [S -> Periods]
    BY MidPeriodsTyped
  <2> QED
    BY <2>1, <2>2
<1>2. /\ o.vested = Nothing /\ o.contributed = c.current /\ f.contributed = c.current
      /\ g.vested = Nothing /\ g.contributed = Nothing
      /\ f.vested = Part(Assets, v, Nothing) /\ Nothing[a] = 0
  BY DEF OpenPeriodOf, MidPeriod, MidNext, Nothing
<1>3. f.vested = v
  <2>1. Part(Assets, v, Nothing) = v
    BY <1>1, NothingTyped, PartTyped
  <2> QED
    BY <1>2, <2>1
<1>4. l = [p EXCEPT ![n] = f]
  BY DEF MidLast
<1>5. r = IF c.stopping THEN l ELSE WithPeriod(l, n + 1, g)
  BY <1>1 DEF MidPeriods
<1>6. n \in S /\ IsFiniteSet(S)
  <2>1. n \in S /\ n \in Int
    BY <1>1
  <2> HIDE DEF n
  <2> QED
    BY <2>1, FS_Interval
<1> HIDE DEF l, f, g, o, v, S, n, r
<1>7. l[n] = f /\ \A i \in S : i # n => l[i] = p[i]
  BY <1>1, <1>4, <1>6
<1>8. /\ \A i \in S : /\ p[i].vested[a] \in Nat /\ l[i].vested[a] \in Nat
                      /\ l[i].contributed = p[i].contributed
      /\ \A i \in S : i # n => l[i].vested = p[i].vested
      /\ VestedIn(p, a) = Sum(S, [i \in S |-> p[i].vested[a]])
      /\ VestedIn(l, a) = Sum(S, [i \in S |-> l[i].vested[a]])
      /\ ContributedIn(p, a) = Sum(S, [i \in S |-> p[i].contributed[a]])
      /\ ContributedIn(l, a) = Sum(S, [i \in S |-> l[i].contributed[a]])
  <2>1. \A i \in S : p[i].vested[a] \in Nat /\ l[i].vested[a] \in Nat
    BY <1>1 DEF Periods, AmountsPerAsset
  <2>2. \A i \in S : l[i].contributed = p[i].contributed
    BY <1>1, <1>2, <1>7
  <2>3. \A i \in S : i # n => l[i].vested = p[i].vested
    BY <1>7
  <2>4. DOMAIN p = S /\ DOMAIN l = S
    BY <1>1
  <2> QED
    BY <2>1, <2>2, <2>3, <2>4 DEF VestedIn, ContributedIn
<1>9. VestedIn(l, a) = VestedIn(p, a) + v[a]
  <2> DEFINE m == [i \in S |-> p[i].vested[a]]
             k == [i \in S |-> l[i].vested[a]]
  <2>1. /\ \A i \in S : m[i] \in Nat /\ k[i] \in Nat
        /\ \A i \in S \ {n} : m[i] = k[i]
        /\ m[n] = 0 /\ k[n] = v[a]
    BY <1>1, <1>2, <1>3, <1>6, <1>7, <1>8
  <2>2. VestedIn(l, a) = Sum(S, k) /\ VestedIn(p, a) = Sum(S, m)
    BY <1>8
  <2> HIDE DEF m, k
  <2>3. Sum(S, k) = Sum(S, m) - m[n] + k[n]
    <3>1. \A i \in S : m[i] \in Nat /\ k[i] \in Nat
      BY <2>1
    <3>2. \A i \in S \ {n} : m[i] = k[i]
      BY <2>1
    <3> QED
      BY <1>6, <3>1, <3>2, SumChange
  <2>4. Sum(S, m) \in Nat /\ v[a] \in Nat
    BY <1>1, <1>6, <2>1, SumRemove DEF AmountsPerAsset
  <2> QED
    BY <2>1, <2>2, <2>3, <2>4
<1>10. ContributedIn(l, a) = ContributedIn(p, a)
  <2> DEFINE m == [i \in S |-> p[i].contributed[a]]
             k == [i \in S |-> l[i].contributed[a]]
  <2>1. \A i \in S : k[i] = m[i]
    BY <1>8
  <2>2. ContributedIn(l, a) = Sum(S, k) /\ ContributedIn(p, a) = Sum(S, m)
    BY <1>8
  <2> HIDE DEF m, k
  <2> QED
    BY <1>6, <2>1, <2>2, SumSame
<1>11. CASE c.stopping
  BY <1>5, <1>9, <1>10, <1>11 DEF r, v
<1>12. CASE ~c.stopping
  <2> DEFINE q == WithPeriod(l, n + 1, g)
  <2>1. l \in [1..n -> Periods]
    BY <1>1 DEF S
  <2>2. VestedIn(q, a) = VestedIn(l, a) + g.vested[a]
        /\ ContributedIn(q, a) = ContributedIn(l, a) + g.contributed[a]
    BY <1>1, <2>1, LongerSums
  <2>3. r = q
    BY <1>5, <1>12
  <2> HIDE DEF q
  <2>4. VestedIn(p, a) \in Nat /\ ContributedIn(p, a) \in Nat /\ v[a] \in Nat
    <3> DEFINE m == [i \in S |-> p[i].vested[a]]
               k == [i \in S |-> p[i].contributed[a]]
    <3>1. \A i \in S : m[i] \in Nat /\ k[i] \in Nat
      BY <1>1 DEF Periods, AmountsPerAsset
    <3>2. VestedIn(p, a) = Sum(S, m) /\ ContributedIn(p, a) = Sum(S, k)
      BY <1>8
    <3> HIDE DEF m, k
    <3>3. Sum(S, m) \in Nat /\ Sum(S, k) \in Nat
      BY <1>6, <3>1, SumRemove
    <3> QED
      BY <1>1, <3>2, <3>3 DEF AmountsPerAsset
  <2> QED
    BY <1>2, <1>9, <1>10, <2>2, <2>3, <2>4 DEF r, v
<1> QED
  BY <1>11, <1>12

\* With every asset accounted, and the goal closed if this was the last period,
\* the projection is the image of the settled goal.
LEMMA LastFollows ==
  ASSUME NEW c, Settling(c), NEW p, PeriodsFit(p, c), AddsUp(Image(p, c))
  PROVE  LET d == SettlePeriod(c)
             r == MidPeriods(p, c, Assets)
             s == Mid(p, c, Assets)
             e == ClosedEvent(c)
         IN  /\ PeriodsFit(r, d) /\ AddsUp(Image(r, d))
             /\ ~c.stopping => s = Image(r, d)
             /\ c.stopping => e \in Events /\ Accepts(s, e) /\ After(s, e) = Image(r, d)
<1> DEFINE n == c.settled + 1
           d == SettlePeriod(c)
           r == MidPeriods(p, c, Assets)
           s == Mid(p, c, Assets)
           e == ClosedEvent(c)
           x == MidRow(c, Assets)
           y == RowOf(d)
           v == VestedAmounts(c)
           f == MidPeriod(c, Assets)
           g == MidNext(c, Assets)
           o == OpenPeriodOf(c)
<1>1. /\ c \in Contracts /\ d \in Contracts /\ Total(d) = Total(c)
      /\ d.status = (IF c.stopping THEN "CLOSED" ELSE "OPEN") /\ d.type = "MONTHLY"
      /\ d.policy = c.policy /\ d.stopping = c.stopping /\ d.settled = n
      /\ d.current = Nothing /\ d.paid = c.paid
      /\ d.entitled["CANCELLED_FUNDS"] = c.entitled["CANCELLED_FUNDS"]
      /\ v \in AmountsPerAsset
      /\ \A a \in Assets :
           /\ d.entitled["EXPENSE"][a] = c.entitled["EXPENSE"][a] + v[a]
           /\ c.current[a] + c.carry[a] = v[a] + d.carry[a]
      /\ c.stopping \in BOOLEAN /\ c.settled \in Nat /\ c.type = "MONTHLY"
  BY SettledGoalFields DEF Settling, ContractShape, Contracts
<1>2. /\ n \in Nat /\ p \in [1..n -> Periods] /\ p[n] = o /\ r \in Histories
      /\ DOMAIN r = (IF c.stopping THEN 1..n ELSE 1..n + 1)
      /\ r[n] = f /\ (~c.stopping => r[n + 1] = g)
      /\ \A i \in 1..c.settled : r[i] = p[i]
  <2> HIDE DEF d, s, e, x, y, v, g, f, o, r
  <2>1. /\ n \in Nat /\ p \in [1..n -> Periods] /\ p[n] = o /\ r \in Histories
        /\ DOMAIN r = (IF c.stopping THEN 1..n ELSE 1..n + 1)
    BY MidPeriodsTyped DEF r, o
  <2>2. /\ r[n] = f /\ (~c.stopping => r[n + 1] = g)
        /\ \A i \in 1..c.settled : r[i] = p[i]
    BY MidPeriodsTyped DEF r, f, g
  <2> QED
    BY <2>1, <2>2
<1> HIDE DEF d
<1>3. /\ d.carry \in AmountsPerAsset /\ c.carry \in AmountsPerAsset
      /\ d.entitled["EXPENSE"] \in AmountsPerAsset /\ c.entitled["EXPENSE"] \in AmountsPerAsset
      /\ d.entitled \in AmountsPerKind /\ c.entitled \in AmountsPerKind
  BY <1>1 DEF Contracts, AmountsPerKind, Kinds
<1>4. /\ Part(Assets, d.carry, c.carry) = d.carry /\ Part(Assets, d.carry, Nothing) = d.carry
      /\ Part(Assets, v, Nothing) = v
      /\ Part(Assets, d.entitled["EXPENSE"], c.entitled["EXPENSE"]) = d.entitled["EXPENSE"]
  <2>1. \A u, t \in AmountsPerAsset : Part(Assets, u, t) = u
    BY PartTyped
  <2> QED
    BY <1>1, <1>3, <2>1, NothingTyped
<1>5. [c.entitled EXCEPT !["EXPENSE"] = d.entitled["EXPENSE"]] = d.entitled
  BY <1>1, <1>3 DEF AmountsPerKind, Kinds
<1>6. /\ f.settled = TRUE /\ f.contributed = c.current /\ f.carryIn = c.carry /\ f.vested = v
      /\ f.carryOut = d.carry /\ g.settled = FALSE /\ g.carryIn = d.carry
      /\ o.carryIn = c.carry /\ o.settled = FALSE
  BY <1>4 DEF MidPeriod, MidNext, OpenPeriodOf, d
<1>7. ~c.stopping => g = OpenPeriodOf(d)
  BY <1>1, <1>4 DEF MidNext, OpenPeriodOf, d
<1>8. /\ x.exists = TRUE /\ x.status = "OPEN" /\ x.type = "MONTHLY" /\ x.policy = d.policy
      /\ x.scheduled = TRUE /\ x.stopping = d.stopping /\ x.settled = n
      /\ x.deadline = (IF c.stopping THEN n ELSE n + 1) /\ x.carry = d.carry
      /\ x.entitled = d.entitled
  BY <1>1, <1>4, <1>5 DEF MidRow, d
<1>9. x \in Rows /\ y \in Rows
  BY <1>1, RowTyped, MidRowTyped
<1>10. /\ y.exists = TRUE /\ y.type = "MONTHLY" /\ y.policy = d.policy
       /\ y.scheduled = TRUE /\ y.stopping = d.stopping /\ y.settled = n
       /\ y.deadline = (IF c.stopping THEN n ELSE n + 1) /\ y.carry = d.carry
       /\ y.entitled = d.entitled /\ y.status = (IF c.stopping THEN "CLOSED" ELSE "OPEN")
  <2>1. /\ y.exists = TRUE /\ y.type = "MONTHLY" /\ y.policy = d.policy
        /\ y.stopping = d.stopping /\ y.settled = n /\ y.carry = d.carry
        /\ y.entitled = d.entitled /\ y.status = (IF c.stopping THEN "CLOSED" ELSE "OPEN")
    BY <1>1 DEF RowOf
  <2>2. y.scheduled = TRUE
    BY <1>1 DEF RowOf
  <2>3. y.deadline = (IF c.stopping THEN n ELSE n + 1)
    BY <1>1 DEF RowOf
  <2> QED
    BY <2>1, <2>2, <2>3
<1> HIDE DEF f, g, o, x, v, r
<1>11. PeriodsFit(r, d)
  <2>1. DOMAIN r = 1..(IF d.status = "CLOSED" THEN d.settled ELSE d.settled + 1)
    BY <1>1, <1>2
  <2>2. d.status = "OPEN" => r[d.settled + 1] = OpenPeriodOf(d)
    BY <1>1, <1>2, <1>7
  <2> QED
    BY <1>1, <1>2, <2>1, <2>2 DEF PeriodsFit
<1>12. CarriesOver(p) /\ \A a \in Assets : /\ c.entitled["EXPENSE"][a] = VestedIn(p, a)
                                           /\ Total(c)[a] = ContributedIn(p, a)
  BY <1>1 DEF AddsUp, Image, Shown, RowOf
<1>13. CarriesOver(r)
  <2> SUFFICES ASSUME NEW i \in DOMAIN r, NEW a \in Assets, r[i].settled
               PROVE  /\ r[i].contributed[a] + r[i].carryIn[a] = r[i].vested[a] + r[i].carryOut[a]
                      /\ i + 1 \in DOMAIN r => r[i + 1].carryIn[a] = r[i].carryOut[a]
    BY DEF CarriesOver
  <2>1. i \in 1..n + 1
    BY <1>1, <1>2
  <2>2. CASE i = n + 1
    <3>1. ~c.stopping
      BY <1>1, <1>2, <2>2
    <3> QED
      BY <1>2, <1>6, <2>2, <3>1
  <2>3. CASE i = n
    <3>1. r[i].contributed[a] + r[i].carryIn[a] = r[i].vested[a] + r[i].carryOut[a]
      BY <1>1, <1>2, <1>6, <2>3
    <3>2. ASSUME i + 1 \in DOMAIN r
          PROVE  r[i + 1].carryIn[a] = r[i].carryOut[a]
      <4>1. ~c.stopping
        BY <1>1, <1>2, <2>3, <3>2
      <4> QED
        BY <1>2, <1>6, <2>3, <4>1
    <3> QED
      BY <3>1, <3>2
  <2>4. CASE i # n /\ i # n + 1
    <3>1. i \in 1..c.settled /\ i \in DOMAIN p /\ i + 1 \in DOMAIN p /\ r[i] = p[i]
          /\ (i + 1 # n => i + 1 \in 1..c.settled)
      BY <1>1, <1>2, <2>1, <2>4
    <3>2. r[i + 1].carryIn = p[i + 1].carryIn
      BY <1>2, <1>6, <3>1
    <3> QED
      BY <1>12, <3>1, <3>2 DEF CarriesOver
  <2> QED
    BY <2>1, <2>2, <2>3, <2>4
<1>14. AddsUp(Image(r, d))
  <2>1. ASSUME NEW a \in Assets
        PROVE  /\ d.entitled["EXPENSE"][a] = VestedIn(r, a) /\ Total(d)[a] = ContributedIn(r, a)
    <3>1. VestedIn(r, a) = VestedIn(p, a) + v[a] /\ ContributedIn(r, a) = ContributedIn(p, a)
      BY MidSums DEF r, v
    <3> QED
      BY <1>1, <1>12, <3>1
  <2> QED
    BY <1>13, <2>1 DEF AddsUp, Image, Shown, RowOf
<1>15. s = Shown(x, r, Total(d), d.paid) /\ Image(r, d) = Shown(y, r, Total(d), d.paid)
  BY <1>1 DEF Mid, Image, x, r
<1> HIDE DEF s, y, n
<1>16. ASSUME ~c.stopping
       PROVE  s = Image(r, d)
  <2>1. x = y
    BY <1>8, <1>9, <1>10, <1>16, RowEqual
  <2> QED
    BY <1>15, <2>1
<1>17. ASSUME c.stopping
       PROVE  e \in Events /\ Accepts(s, e) /\ After(s, e) = Image(r, d)
  <2> DEFINE m == d.entitled["EXPENSE"]
             z == Closed(x, m)
  <2>1. e.name = "GoalClosed" /\ e.entitled = m /\ m \in AmountsPerAsset /\ e \in Events
    BY <1>3 DEF ClosedEvent, Events, d
  <2>2. s.row = x /\ s.periods = r /\ s.funded = Total(d) /\ s.released = d.paid
    BY <1>15 DEF Shown
  <2> HIDE DEF e, m
  <2>3. Accepts(s, e)
    BY <1>8, <2>1, <2>2 DEF Accepts
  <2>4. /\ z \in Rows
        /\ z.exists = x.exists /\ z.type = x.type /\ z.policy = x.policy
        /\ z.scheduled = x.scheduled /\ z.stopping = x.stopping /\ z.settled = x.settled
        /\ z.deadline = x.deadline /\ z.carry = x.carry /\ z.status = "CLOSED"
        /\ z.entitled = [x.entitled EXCEPT !["EXPENSE"] = m]
    BY <1>9, <2>1, ClosedFields
  <2> HIDE DEF z
  <2>5. z.entitled = d.entitled
    BY <1>3, <1>8, <2>4 DEF AmountsPerKind, m
  <2>6. z = y
    <3>1. /\ z.exists = y.exists /\ z.status = y.status /\ z.type = y.type
          /\ z.policy = y.policy /\ z.scheduled = y.scheduled /\ z.stopping = y.stopping
      BY <1>8, <1>10, <1>17, <2>4
    <3>2. z.settled = y.settled /\ z.deadline = y.deadline /\ z.carry = y.carry
          /\ z.entitled = y.entitled
      BY <1>8, <1>10, <1>17, <2>4, <2>5
    <3> QED
      BY <1>9, <2>4, <3>1, <3>2, RowEqual
  <2>7. RowAfter(s, e) = y /\ PeriodsAfter(s, e) = r /\ FundedAfter(s, e) = Total(d)
        /\ ReleasedAfter(s, e) = d.paid
    BY <2>1, <2>2, <2>6 DEF RowAfter, PeriodsAfter, FundedAfter, ReleasedAfter, z
  <2>8. After(s, e) = Image(r, d)
    BY <1>15, <2>7 DEF After
  <2> QED
    BY <2>1, <2>3, <2>8
<1> QED
  BY <1>11, <1>14, <1>16, <1>17 DEF d, r, s, e

\* The handlers go through S when they apply the events T of one transaction.
Walks(S, T, d) ==
  /\ S \in [0..Len(T) -> Projections]
  /\ \A i \in 1..Len(T) : /\ Accepts(S[i - 1], T[i]) /\ S[i] = After(S[i - 1], T[i])
                          /\ T[i].name \in Inner
  /\ \A i \in 0..Len(T) : Sound(S[i], d)

LEMMA ReplayJoins ==
  ASSUME NEW l \in Seq(Events), NEW T \in Seq(Events), NEW s, NEW c \in Contracts,
         NEW d \in Contracts, NEW j, NEW q, Replays(l, s, c, j, q), Grows(c, d),
         NEW S, Walks(S, T, d), S[0] = s
  PROVE  Replays(l \o T, S[Len(T)], d, j, q)
<1>1. PICK h : Replay(h, l, c) /\ h[Len(l)] = s /\ j \in 0..Len(l) /\ h[j] = q
  BY DEF Replays
<1> DEFINE n == Len(l)
           k == Len(T)
           m == l \o T
           g == [i \in 0..n + k |-> IF i <= n THEN h[i] ELSE S[i - n]]
<1>2. /\ n \in Nat /\ k \in Nat /\ Len(m) = n + k /\ \A i \in 1..n : m[i] = l[i]
      /\ \A i \in 1..k : m[n + i] = T[i]
  OBVIOUS
<1>3. \A i \in 0..n : h[i] \in Projections /\ Sound(h[i], d)
  BY <1>1, SoundGrows DEF Replay
<1>4. /\ S \in [0..k -> Projections] /\ \A i \in 0..k : Sound(S[i], d)
  BY DEF Walks
<1> HIDE DEF m
<1>5. (\A i \in 0..n : g[i] = h[i]) /\ \A i \in 0..k : g[n + i] = S[i]
  <2>1. \A i \in 0..n : i \in 0..n + k /\ i <= n
    BY <1>2
  <2>2. ASSUME NEW i \in 0..k
        PROVE  g[n + i] = S[i]
    <3>1. n + i \in 0..n + k /\ (n + i <= n <=> i = 0) /\ n + i - n = i
      BY <1>2
    <3> QED
      BY <1>1, <3>1
  <2> QED
    BY <2>1, <2>2
<1>6. \A i \in 0..n + k : i \in 0..n \/ \E x \in 1..k : i = n + x
  <2> SUFFICES ASSUME NEW i \in 0..n + k, i \notin 0..n
               PROVE  i - n \in 1..k /\ i = n + (i - n)
    OBVIOUS
  <2> QED
    BY <1>2
<1>7. g \in [0..n + k -> Projections]
  <2>1. ASSUME NEW i \in 0..n + k
        PROVE  g[i] \in Projections
    <3>1. CASE i \in 0..n
      BY <1>3, <1>5, <3>1
    <3>2. CASE \E x \in 1..k : i = n + x
      <4>1. PICK x \in 1..k : i = n + x
        BY <3>2
      <4>2. x \in 0..k
        BY <1>2
      <4> QED
        BY <1>4, <1>5, <4>1, <4>2
    <3> QED
      BY <1>6, <3>1, <3>2
  <2>2. g = [i \in 0..n + k |-> g[i]]
    OBVIOUS
  <2> HIDE DEF g
  <2> QED
    BY <2>1, <2>2
<1> HIDE DEF g
<1>8. g[0] = Start
  <2>1. 0 \in 0..n
    BY <1>2
  <2> QED
    BY <1>1, <1>5, <2>1 DEF Replay
<1>9. ASSUME NEW i \in 1..n + k
      PROVE  /\ Accepts(g[i - 1], m[i]) /\ g[i] = After(g[i - 1], m[i])
             /\ m[i].name \notin Inner => AddsUp(g[i - 1])
  <2>1. CASE i \in 1..n
    <3>1. i - 1 \in 0..n /\ i \in 0..n
      BY <1>2, <2>1
    <3>2. m[i] = l[i] /\ g[i] = h[i] /\ g[i - 1] = h[i - 1]
      BY <1>2, <1>5, <2>1, <3>1
    <3>3. Accepts(h[i - 1], l[i]) /\ h[i] = After(h[i - 1], l[i])
          /\ (l[i].name \notin Inner => AddsUp(h[i - 1]))
      BY <1>1, <2>1 DEF Replay
    <3> QED
      BY <3>2, <3>3
  <2>2. CASE i \notin 1..n
    <3>1. i \in 0..n + k /\ i \notin 0..n
      BY <1>2, <2>2
    <3>2. PICK x \in 1..k : i = n + x
      BY <1>6, <3>1
    <3>3. x \in 0..k /\ x - 1 \in 0..k /\ i - 1 = n + (x - 1)
      BY <1>2, <3>2
    <3>4. m[i] = T[x] /\ g[i] = S[x] /\ g[i - 1] = S[x - 1]
      BY <1>2, <1>5, <3>2, <3>3
    <3>5. Accepts(S[x - 1], T[x]) /\ S[x] = After(S[x - 1], T[x]) /\ T[x].name \in Inner
      BY <3>2 DEF Walks
    <3> QED
      BY <3>4, <3>5
  <2> QED
    BY <2>1, <2>2
<1>10. ASSUME NEW i \in 0..n + k
       PROVE  Sound(g[i], d)
  <2>1. CASE i \in 0..n
    BY <1>3, <1>5, <2>1
  <2>2. CASE \E x \in 1..k : i = n + x
    <3>1. PICK x \in 1..k : i = n + x
      BY <2>2
    <3>2. x \in 0..k
      BY <1>2
    <3> QED
      BY <1>4, <1>5, <3>1, <3>2
  <2> QED
    BY <1>6, <2>1, <2>2
<1>11. Replay(g, m, d)
  BY <1>2, <1>7, <1>8, <1>9, <1>10 DEF Replay
<1>12. g[Len(m)] = S[k] /\ j \in 0..Len(m) /\ g[j] = q
  <2>1. k \in 0..k /\ j \in 0..n + k
    BY <1>1, <1>2
  <2> QED
    BY <1>1, <1>2, <1>5, <2>1
<1> QED
  BY <1>11, <1>12 DEF Replays, m

\* The assets accounted by the first i tokens of a settlement.
Done(i) == {AssetOrder[x] : x \in 1..i}

LEMMA DoneFacts ==
  LET N == Len(AssetOrder)
  IN  /\ N \in Nat /\ Done(0) = {} /\ Done(N) = Assets
      /\ \A i \in 1..N : /\ AssetOrder[i] \in Assets /\ AssetOrder[i] \notin Done(i - 1)
                         /\ Done(i) = Done(i - 1) \cup {AssetOrder[i]}
<1> DEFINE N == Len(AssetOrder)
<1>1. AssetOrder \in Seq(Assets) /\ IsInjective(AssetOrder)
  BY EscrowFundingAssumption
<1>2. N \in Nat /\ DOMAIN AssetOrder = 1..N
  BY <1>1
<1>3. Done(0) = {}
  BY DEF Done
<1>4. Done(N) = Assets
  BY <1>2 DEF Done, Assets, ToSet
<1>5. ASSUME NEW i \in 1..N
      PROVE  /\ AssetOrder[i] \in Assets /\ AssetOrder[i] \notin Done(i - 1)
             /\ Done(i) = Done(i - 1) \cup {AssetOrder[i]}
  <2>1. AssetOrder[i] \in Assets
    BY <1>2 DEF Assets, ToSet
  <2>2. \A x \in 1..i - 1 : x \in 1..N /\ x # i /\ x \in 1..i
    BY <1>2
  <2>3. AssetOrder[i] \notin Done(i - 1)
    BY <1>1, <1>2, <2>2 DEF Done, IsInjective
  <2>4. \A x \in 1..i : x = i \/ x \in 1..i - 1
    BY <1>2
  <2>5. i \in 1..i
    BY <1>2
  <2>6. Done(i) = Done(i - 1) \cup {AssetOrder[i]}
    BY <2>2, <2>4, <2>5 DEF Done
  <2> QED
    BY <2>1, <2>3, <2>6
<1> QED
  BY <1>2, <1>3, <1>4, <1>5

LEMMA SettlementEventsAre ==
  ASSUME NEW c, Settling(c)
  PROVE  LET N == Len(AssetOrder)
             T == SettlementEvents(c)
             k == IF c.stopping THEN N + 2 ELSE N + 1
         IN  /\ T \in Seq(Events) /\ Len(T) = k /\ T[1] = PeriodEvent(c)
             /\ \A i \in 1..N : T[i + 1] = TokenEvent(c, AssetOrder[i])
             /\ c.stopping => T[N + 2] = ClosedEvent(c)
<1> DEFINE N == Len(AssetOrder)
           T == SettlementEvents(c)
           P == PeriodEvent(c)
           Q == ClosedEvent(c)
           tokens == [i \in 1..N |-> TokenEvent(c, AssetOrder[i])]
<1>1. T = <<P>> \o tokens \o (IF c.stopping THEN <<Q>> ELSE <<>>)
  BY Zenon DEF SettlementEvents, PeriodEvent, TokenEvent, ClosedEvent
<1>2. N \in Nat /\ \A i \in 1..N : AssetOrder[i] \in Assets
  BY DoneFacts
<1>3. P \in Events /\ Q \in Events /\ \A a \in Assets : TokenEvent(c, a) \in Events
  <2>1. /\ c \in Contracts /\ SettlePeriod(c) \in Contracts /\ VestedAmounts(c) \in AmountsPerAsset
        /\ SettlePeriod(c).settled \in Nat
    BY SettledGoalFields DEF Settling, ContractShape, Contracts
  <2> DEFINE d == SettlePeriod(c)
  <2>2. P = [name |-> "MonthlyPeriodSettled", period |-> d.settled, policy |-> c.policy,
             final |-> c.stopping]
        /\ Q = [name |-> "GoalClosed", entitled |-> d.entitled["EXPENSE"]]
    BY DEF PeriodEvent, ClosedEvent
  <2> HIDE DEF d, P, Q
  <2>3. P \in Events
    <3>1. c.policy \in PolicyNames /\ c.stopping \in BOOLEAN /\ d.settled \in Nat
      BY <2>1 DEF Contracts, d
    <3> QED
      BY <2>2, <3>1 DEF Events
  <2>4. Q \in Events
    <3>1. d.entitled["EXPENSE"] \in AmountsPerAsset
      BY <2>1 DEF Contracts, AmountsPerKind, Kinds, d
    <3> QED
      BY <2>2, <3>1 DEF Events
  <2>5. ASSUME NEW a \in Assets
        PROVE  TokenEvent(c, a) \in Events
    <3>1. /\ c.current[a] \in Nat /\ c.carry[a] \in Nat /\ Vested(c, a) \in Nat
          /\ d.carry[a] \in Nat /\ d.settled \in Nat
      <4>1. c.current[a] \in Nat /\ c.carry[a] \in Nat /\ d.carry[a] \in Nat /\ d.settled \in Nat
        BY <2>1 DEF Contracts, AmountsPerAsset, d
      <4> QED
        BY <2>1, <4>1, VestedBounded
    <3> DEFINE w == Vested(c, a)
    <3>2. TokenEvent(c, a) = [name |-> "MonthlyTokenSettled", period |-> d.settled, asset |-> a,
                              contributed |-> c.current[a], carryIn |-> c.carry[a], vested |-> w,
                              carryOut |-> d.carry[a]]
      BY DEF TokenEvent, d
    <3> HIDE DEF w
    <3>3. w \in Nat
      BY <3>1 DEF w
    <3> QED
      BY <3>1, <3>2, <3>3 DEF Events
  <2> QED
    BY <2>3, <2>4, <2>5
<1> HIDE DEF T, P, Q
<1>4. /\ tokens \in Seq(Events) /\ Len(tokens) = N
      /\ \A i \in 1..N : tokens[i] = TokenEvent(c, AssetOrder[i])
  BY <1>2, <1>3
<1> HIDE DEF tokens, N
<1>5. CASE c.stopping
  <2>1. T = <<P>> \o tokens \o <<Q>>
    BY <1>1, <1>5
  <2>2. <<P>> \in Seq(Events) /\ <<Q>> \in Seq(Events)
    BY <1>3
  <2>3. /\ T \in Seq(Events) /\ Len(T) = N + 2 /\ T[1] = P /\ T[N + 2] = Q
        /\ \A i \in 1..N : T[i + 1] = tokens[i]
    BY <1>2, <1>4, <2>1, <2>2
  <2> QED
    BY <1>4, <1>5, <2>3 DEF T, P, Q, N
<1>6. CASE ~c.stopping
  <2>1. T = <<P>> \o tokens \o <<>>
    BY <1>1, <1>6
  <2>2. <<P>> \in Seq(Events) /\ <<>> \in Seq(Events)
    BY <1>3
  <2>3. /\ T \in Seq(Events) /\ Len(T) = N + 1 /\ T[1] = P
        /\ \A i \in 1..N : T[i + 1] = tokens[i]
    BY <1>2, <1>4, <2>1, <2>2
  <2> QED
    BY <1>4, <1>6, <2>3 DEF T, P, Q, N
<1> QED
  BY <1>5, <1>6

\* The events of a settlement turn the image of the goal into that of the
\* settled goal.
LEMMA SettlementWalk ==
  ASSUME NEW c, Settling(c), NEW p, PeriodsFit(p, c), AddsUp(Image(p, c))
  PROVE  LET T == SettlementEvents(c)
             d == SettlePeriod(c)
             r == MidPeriods(p, c, Assets)
         IN  \E S : Walks(S, T, d) /\ S[0] = Image(p, c) /\ S[Len(T)] = Image(r, d)
<1> DEFINE T == SettlementEvents(c)
           d == SettlePeriod(c)
           r == MidPeriods(p, c, Assets)
           N == Len(AssetOrder)
           k == Len(T)
           M(D) == Mid(p, c, D)
           first == Image(p, c)
           last == Image(r, d)
           S == [i \in 0..k |-> IF i = 0 THEN first ELSE IF i <= N + 1 THEN M(Done(i - 1)) ELSE last]
<1>1. /\ T \in Seq(Events) /\ k = (IF c.stopping THEN N + 2 ELSE N + 1)
      /\ T[1] = PeriodEvent(c) /\ \A i \in 1..N : T[i + 1] = TokenEvent(c, AssetOrder[i])
      /\ c.stopping => T[N + 2] = ClosedEvent(c)
  BY SettlementEventsAre
<1>2. /\ N \in Nat /\ Done(0) = {} /\ Done(N) = Assets
      /\ \A i \in 1..N : /\ AssetOrder[i] \in Assets /\ AssetOrder[i] \notin Done(i - 1)
                         /\ Done(i) = Done(i - 1) \cup {AssetOrder[i]}
  BY DoneFacts
<1>3. \A D : M(D) \in Projections /\ Sound(M(D), d)
  BY MidSound
<1>4. first \in Projections /\ Sound(first, d)
  <2>1. c \in Contracts /\ c.status # "NONE" /\ p \in Histories /\ ContractShape(c)
        /\ d \in Contracts /\ Grows(c, d)
    BY SettledGoalFields DEF Settling, ContractShape, PeriodsFit
  <2>2. first \in Projections /\ Sound(first, c)
    BY <2>1, ImageTyped, ImageSound
  <2> HIDE DEF d, first
  <2> QED
    BY <2>1, <2>2, SoundGrows
<1>5. /\ PeriodsFit(r, d) /\ AddsUp(last)
      /\ ~c.stopping => M(Assets) = last
      /\ c.stopping => Accepts(M(Assets), ClosedEvent(c)) /\ After(M(Assets), ClosedEvent(c)) = last
  BY LastFollows
<1>6. last \in Projections /\ Sound(last, d)
  <2>1. d \in Contracts /\ ContractShape(d) /\ d.status # "NONE"
    BY SettledGoalFields DEF Settling
  <2> HIDE DEF d, r
  <2> QED
    BY <1>5, <2>1, ImageTyped, ImageSound DEF PeriodsFit
<1>7. Accepts(first, PeriodEvent(c)) /\ After(first, PeriodEvent(c)) = M({})
  BY PeriodFollows
<1>8. \A D : \A a \in Assets :
        a \notin D => /\ Accepts(M(D), TokenEvent(c, a))
                     /\ After(M(D), TokenEvent(c, a)) = M(D \cup {a})
  BY TokenFollows
<1>9. /\ PeriodEvent(c).name \in Inner /\ ClosedEvent(c).name \in Inner
      /\ \A a : TokenEvent(c, a).name \in Inner
  BY DEF PeriodEvent, ClosedEvent, TokenEvent, Inner
<1> HIDE DEF T, d, r, M, first, last, N, k
<1>10. k \in Nat /\ S[0] = first /\ \A i \in 0..N : S[i + 1] = M(Done(i))
  <2>1. k \in Nat /\ N + 1 <= k
    BY <1>1, <1>2
  <2>2. ASSUME NEW i \in 0..N
        PROVE  S[i + 1] = M(Done(i))
    <3>1. i + 1 \in 0..k /\ i + 1 # 0 /\ i + 1 <= N + 1 /\ (i + 1) - 1 = i
      BY <1>2, <2>1
    <3> QED
      BY <3>1
  <2> QED
    BY <2>1, <2>2
<1>11. S[k] = last
  <2>1. CASE c.stopping
    <3>1. k = N + 2 /\ k \in 0..k /\ k # 0 /\ ~(k <= N + 1)
      BY <1>1, <1>2, <2>1
    <3> QED
      BY <3>1
  <2>2. CASE ~c.stopping
    <3>1. k = N + 1 /\ N \in 0..N
      BY <1>1, <1>2, <2>2
    <3> QED
      BY <1>2, <1>5, <1>10, <2>2, <3>1
  <2> QED
    BY <2>1, <2>2
<1>12. ASSUME NEW i \in 0..k
       PROVE  S[i] \in Projections /\ Sound(S[i], d)
  BY <1>3, <1>4, <1>6
<1>13. S \in [0..k -> Projections]
  BY <1>12
<1> HIDE DEF S
<1>14. ASSUME NEW i \in 1..k
       PROVE  /\ Accepts(S[i - 1], T[i]) /\ S[i] = After(S[i - 1], T[i]) /\ T[i].name \in Inner
  <2>1. i = 1 \/ (i # 1 /\ i <= N + 1) \/ (c.stopping /\ i = N + 2)
    BY <1>1, <1>2
  <2>2. CASE i = 1
    <3>1. i - 1 = 0 /\ 0 \in 0..N /\ 0 + 1 = 1
      BY <1>2, <2>2
    <3>2. S[1] = M(Done(0))
      BY <1>10, <3>1
    <3> QED
      BY <1>1, <1>2, <1>7, <1>9, <1>10, <2>2, <3>1, <3>2
  <2>3. CASE i # 1 /\ i <= N + 1
    <3> DEFINE x == i - 1
               y == i - 2
    <3>1. x \in 1..N /\ x \in 0..N /\ y \in 0..N /\ i = x + 1 /\ x = y + 1 /\ x - 1 = y
      BY <1>2, <2>3
    <3> HIDE DEF x, y
    <3>2. S[i] = M(Done(x)) /\ S[x] = M(Done(y)) /\ T[i] = TokenEvent(c, AssetOrder[x])
      BY <1>1, <1>10, <3>1
    <3>3. /\ AssetOrder[x] \in Assets /\ AssetOrder[x] \notin Done(y)
          /\ Done(x) = Done(y) \cup {AssetOrder[x]}
      BY <1>2, <3>1
    <3>4. i - 1 = x
      BY DEF x
    <3> QED
      BY <1>8, <1>9, <3>2, <3>3, <3>4
  <2>4. CASE c.stopping /\ i = N + 2
    <3>1. i - 1 = N + 1 /\ N \in 0..N /\ i = k
      BY <1>1, <1>2, <2>4
    <3>2. S[i - 1] = M(Done(N)) /\ S[i] = last /\ T[i] = ClosedEvent(c)
      BY <1>1, <1>10, <1>11, <2>4, <3>1
    <3> QED
      BY <1>2, <1>5, <1>9, <2>4, <3>2
  <2> QED
    BY <2>1, <2>2, <2>3, <2>4
<1>15. Walks(S, T, d)
  BY <1>12, <1>13, <1>14 DEF Walks, k
<1> QED
  BY <1>10, <1>11, <1>15 DEF T, d, r, k, first, last

LEMMA PeriodStep ==
  ASSUME NEW l \in Seq(Events), NEW s, NEW c, Settling(c), NEW j, NEW q,
         Replays(l, s, c, j, q), Mirrors(s, c)
  PROVE  \E t : /\ Replays(l \o SettlementEvents(c), t, SettlePeriod(c), j, q)
                /\ Mirrors(t, SettlePeriod(c))
<1> DEFINE T == SettlementEvents(c)
           d == SettlePeriod(c)
<1>1. PICK p : PeriodsFit(p, c) /\ s = Image(p, c) /\ AddsUp(s)
  BY DEF Mirrors
<1> DEFINE r == MidPeriods(p, c, Assets)
<1>2. PICK S : Walks(S, T, d) /\ S[0] = Image(p, c) /\ S[Len(T)] = Image(r, d)
  BY <1>1, SettlementWalk
<1>3. /\ c \in Contracts /\ d \in Contracts /\ Grows(c, d) /\ T \in Seq(Events)
  BY SettledGoalFields, SettlementEventsAre DEF Settling, ContractShape
<1>4. PeriodsFit(r, d) /\ AddsUp(Image(r, d))
  BY <1>1, LastFollows
<1> HIDE DEF T, d, r
<1>5. Replays(l \o T, S[Len(T)], d, j, q)
  BY <1>1, <1>2, <1>3, ReplayJoins
<1>6. Mirrors(S[Len(T)], d)
  BY <1>2, <1>4 DEF Mirrors
<1> QED
  BY <1>5, <1>6 DEF T, d

-----------------------------------------------------------------------------
(* Settlement of several periods in one transaction.                        *)

Settlements(c, k) ==
  LET after[i \in 0..k] == IF i = 0 THEN c ELSE SettlePeriod(after[i - 1])
  IN  after

Flattened(seqs) ==
  LET flatten[i \in 1..Len(seqs)] == IF i = 1 THEN seqs[i] ELSE flatten[i - 1] \o seqs[i]
  IN  flatten

LEMMA SettlementsDefined ==
  ASSUME NEW c, NEW k \in Nat
  PROVE  Settlements(c, k) = [i \in 0..k |-> IF i = 0 THEN c
                                             ELSE SettlePeriod(Settlements(c, k)[i - 1])]
<1> DEFINE Is(f, n) == f = [i \in 0..n |-> IF i = 0 THEN c ELSE SettlePeriod(f[i - 1])]
           bad == {n \in Nat : ~\E f : Is(f, n)}
<1>1. bad = {}
  <2>1. ASSUME NEW n \in bad
        PROVE  \E m \in bad : m < n
    <3>1. n \in Nat /\ ~\E f : Is(f, n)
      OBVIOUS
    <3>2. n # 0
      <4>1. Is([i \in 0..0 |-> c], 0)
        OBVIOUS
      <4> QED
        BY <3>1, <4>1
    <3>3. ASSUME n - 1 \notin bad
          PROVE  FALSE
      <4>0. n - 1 \in Nat
        BY <3>1, <3>2
      <4>1. PICK g : Is(g, n - 1)
        <5> HIDE DEF Is
        <5> QED
          BY <3>3, <4>0
      <4> DEFINE f == [i \in 0..n |-> IF i = n THEN SettlePeriod(g[n - 1]) ELSE g[i]]
      <4>2. ASSUME NEW i \in 0..n
            PROVE  f[i] = IF i = 0 THEN c ELSE SettlePeriod(f[i - 1])
        <5>1. CASE i = n
          <6>1. n - 1 \in 0..n /\ n - 1 # n
            BY <3>1, <3>2
          <6> QED
            BY <3>2, <5>1, <6>1
        <5>2. CASE i # n
          <6>1. i \in 0..n - 1 /\ (i # 0 => i - 1 \in 0..n /\ i - 1 # n)
            BY <3>1, <5>2
          <6>2. g[i] = IF i = 0 THEN c ELSE SettlePeriod(g[i - 1])
            BY <4>1, <6>1
          <6> QED
            BY <5>2, <6>1, <6>2
        <5> QED
          BY <5>1, <5>2
      <4>3. f = [i \in 0..n |-> f[i]]
        OBVIOUS
      <4> HIDE DEF f
      <4>4. Is(f, n)
        BY <4>2, <4>3
      <4> HIDE DEF Is
      <4> QED
        BY <3>1, <4>4
    <3>4. n - 1 < n
      BY <3>1
    <3> HIDE DEF bad
    <3> QED
      BY <3>3, <3>4
  <2> HIDE DEF bad
  <2>2. bad \subseteq Nat
    BY DEF bad
  <2> QED
    BY <2>1, <2>2, NoLeast
<1>2. \E f : Is(f, k)
  <2> HIDE DEF Is
  <2> QED
    BY <1>1
<1> DEFINE after == CHOOSE f : Is(f, k)
<1>3. Is(after, k)
  <2> HIDE DEF Is
  <2> QED
    BY <1>2
<1>4. Settlements(c, k) = after
  BY Zenon DEF Settlements
<1> HIDE DEF after
<1> QED
  BY <1>3, <1>4

LEMMA FlattenedDefined ==
  ASSUME NEW seqs, Len(seqs) \in Nat
  PROVE  Flattened(seqs) = [i \in 1..Len(seqs) |-> IF i = 1 THEN seqs[i]
                                                   ELSE Flattened(seqs)[i - 1] \o seqs[i]]
<1> DEFINE Is(f, n) == f = [i \in 1..n |-> IF i = 1 THEN seqs[i] ELSE f[i - 1] \o seqs[i]]
           bad == {n \in Nat : ~\E f : Is(f, n)}
           k == Len(seqs)
<1>1. bad = {}
  <2>1. ASSUME NEW n \in bad
        PROVE  \E m \in bad : m < n
    <3>1. n \in Nat /\ ~\E f : Is(f, n)
      OBVIOUS
    <3>2. n # 0
      <4>1. Is([i \in 1..0 |-> 0], 0)
        OBVIOUS
      <4> QED
        BY <3>1, <4>1
    <3>3. ASSUME n - 1 \notin bad
          PROVE  FALSE
      <4>0. n - 1 \in Nat
        BY <3>1, <3>2
      <4>1. PICK g : Is(g, n - 1)
        <5> HIDE DEF Is
        <5> QED
          BY <3>3, <4>0
      <4> DEFINE last == IF n = 1 THEN seqs[1] ELSE g[n - 1] \o seqs[n]
                 f == [i \in 1..n |-> IF i = n THEN last ELSE g[i]]
      <4>2. ASSUME NEW i \in 1..n
            PROVE  f[i] = IF i = 1 THEN seqs[i] ELSE f[i - 1] \o seqs[i]
        <5>1. CASE i = n
          <6>1. n # 1 => n - 1 \in 1..n /\ n - 1 # n
            BY <3>1, <3>2
          <6> QED
            BY <3>2, <5>1, <6>1
        <5>2. CASE i # n
          <6>1. i \in 1..n - 1 /\ (i # 1 => i - 1 \in 1..n /\ i - 1 # n)
            BY <3>1, <5>2
          <6>2. g[i] = IF i = 1 THEN seqs[i] ELSE g[i - 1] \o seqs[i]
            BY <4>1, <6>1
          <6> QED
            BY <5>2, <6>1, <6>2
        <5> QED
          BY <5>1, <5>2
      <4>3. f = [i \in 1..n |-> f[i]]
        OBVIOUS
      <4> HIDE DEF f
      <4>4. Is(f, n)
        BY <4>2, <4>3
      <4> HIDE DEF Is
      <4> QED
        BY <3>1, <4>4
    <3>4. n - 1 < n
      BY <3>1
    <3> HIDE DEF bad
    <3> QED
      BY <3>3, <3>4
  <2> HIDE DEF bad
  <2>2. bad \subseteq Nat
    BY DEF bad
  <2> QED
    BY <2>1, <2>2, NoLeast
<1>2. \E f : Is(f, k)
  <2> HIDE DEF Is
  <2> QED
    BY <1>1
<1> DEFINE flatten == CHOOSE f : Is(f, k)
<1>3. Is(flatten, k)
  <2> HIDE DEF Is
  <2> QED
    BY <1>2
<1>4. Flattened(seqs) = flatten
  BY Zenon DEF Flattened
<1> HIDE DEF flatten
<1> QED
  BY <1>3, <1>4

\* What is applied after i of the settled periods, whose events f joins up.
Longer(l, f, i) == IF i = 0 THEN l ELSE l \o f[i]

LEMMA Associative ==
  ASSUME NEW x \in Seq(Events), NEW y \in Seq(Events), NEW z \in Seq(Events)
  PROVE  x \o (y \o z) = (x \o y) \o z
OBVIOUS

LEMMA LongerFirst ==
  ASSUME NEW l \in Seq(Events), NEW f, NEW x \in Seq(Events), f[1] = x
  PROVE  f[1] \in Seq(Events) /\ Longer(l, f, 1) \in Seq(Events)
         /\ Longer(l, f, 1) = Longer(l, f, 0) \o x
BY DEF Longer

\* Every period of a settlement extends the replay to the image of the goal
\* with that period settled.
LEMMA SettleFollows ==
  ASSUME NEW l \in Seq(Events), NEW s, NEW c, Settling(c), NEW j, NEW q,
         Replays(l, s, c, j, q), Mirrors(s, c), NEW k \in Nat, k # 0, c.stopping => k = 1
  PROVE  LET A == Settlements(c, k)
             E == FlattenSeq([i \in 1..k |-> SettlementEvents(A[i - 1])])
         IN  /\ E \in Seq(Events) /\ ContractShape(A[k]) /\ A[k].status # "NONE"
             /\ \E t : Replays(l \o E, t, A[k], j, q) /\ Mirrors(t, A[k])
<1> DEFINE A == Settlements(c, k)
           seqs == [i \in 1..k |-> SettlementEvents(A[i - 1])]
           F == Flattened(seqs)
           L(i) == Longer(l, F, i)
           Good(i) == /\ ContractShape(A[i]) /\ A[i].type = "MONTHLY" /\ A[i].status # "NONE"
                      /\ A[i].stopping = c.stopping /\ (i < k => A[i].status = "OPEN")
                      /\ L(i) \in Seq(Events) /\ (i # 0 => F[i] \in Seq(Events))
                      /\ \E t : Replays(L(i), t, A[i], j, q) /\ Mirrors(t, A[i])
           bad == {i \in 0..k : ~Good(i)}
<1>1. A = [i \in 0..k |-> IF i = 0 THEN c ELSE SettlePeriod(A[i - 1])]
  BY SettlementsDefined
<1>2. Len(seqs) = k
  OBVIOUS
<1>3. F = [i \in 1..k |-> IF i = 1 THEN seqs[i] ELSE F[i - 1] \o seqs[i]]
  <2>1. Len(seqs) \in Nat
    BY <1>2
  <2> HIDE DEF seqs
  <2>2. F = [i \in 1..Len(seqs) |-> IF i = 1 THEN seqs[i] ELSE F[i - 1] \o seqs[i]]
    BY <2>1, FlattenedDefined
  <2> HIDE DEF F
  <2> QED
    BY <1>2, <2>2
<1>4. FlattenSeq(seqs) = F[k]
  <2>1. Len(seqs) # 0
    BY <1>2
  <2> HIDE DEF seqs
  <2>2. FlattenSeq(seqs) = F[Len(seqs)]
    BY <2>1, Zenon DEF FlattenSeq, Flattened
  <2> QED
    BY <1>2, <2>2
<1>5. \A i \in 1..k : seqs[i] = SettlementEvents(A[i - 1])
  OBVIOUS
<1> HIDE DEF A, seqs, F
<1>6. A[0] = c /\ \A i \in 1..k : A[i] = SettlePeriod(A[i - 1])
  <2>1. 0 \in 0..k /\ \A i \in 1..k : i \in 0..k /\ i # 0
    OBVIOUS
  <2> QED
    BY <1>1, <2>1
<1>7. \A i \in 1..k : F[i] = IF i = 1 THEN seqs[i] ELSE F[i - 1] \o seqs[i]
  BY <1>3
<1>8. Good(0)
  BY <1>6 DEF Settling, Longer
<1>9. ASSUME NEW i \in 1..k, Good(i - 1)
      PROVE  Good(i)
  <2> DEFINE b == A[i - 1]
             d == A[i]
             T == SettlementEvents(b)
             m == L(i - 1)
  <2>1. i - 1 < k /\ i - 1 \in Nat
    OBVIOUS
  <2>2. /\ Settling(b) /\ b.stopping = c.stopping /\ m \in Seq(Events)
        /\ \E t : Replays(m, t, b, j, q) /\ Mirrors(t, b)
    BY <1>9, <2>1 DEF Settling
  <2>3. d = SettlePeriod(b) /\ seqs[i] = T
    BY <1>5, <1>6
  <2>4. /\ ContractShape(d) /\ d.type = "MONTHLY" /\ d.stopping = b.stopping
        /\ d.status = IF b.stopping THEN "CLOSED" ELSE "OPEN"
    BY <2>2, <2>3, SettledGoalFields DEF Settling
  <2>5. T \in Seq(Events)
    BY <2>2, SettlementEventsAre
  <2>6. F[i] \in Seq(Events) /\ L(i) = m \o T /\ L(i) \in Seq(Events)
    <3>1. /\ i \in Nat /\ i # 0 /\ (i = 1 => F[i] = T)
          /\ (i # 1 => F[i - 1] \in Seq(Events) /\ F[i] = F[i - 1] \o T)
      <4>1. F[i] = IF i = 1 THEN T ELSE F[i - 1] \o T
        BY <1>7, <2>3
      <4>2. i # 1 => i - 1 # 0
        OBVIOUS
      <4>3. i # 1 => F[i - 1] \in Seq(Events)
        BY <1>9, <4>2
      <4> HIDE DEF T
      <4> QED
        BY <4>1, <4>3
    <3> HIDE DEF T
    <3>2. CASE i = 1
      <4>1. F[1] = T /\ i - 1 = 0
        BY <3>1, <3>2
      <4>2. F[1] \in Seq(Events) /\ Longer(l, F, 1) \in Seq(Events)
            /\ Longer(l, F, 1) = Longer(l, F, 0) \o T
        BY <2>5, <4>1, LongerFirst
      <4> QED
        BY <3>2, <4>1, <4>2
    <3>3. CASE i # 1
      <4>1. PICK n : n = i - 1
        OBVIOUS
      <4>2. n # 0 /\ i # 0 /\ F[n] \in Seq(Events) /\ F[i] = F[n] \o T
        BY <3>1, <3>3, <4>1
      <4> DEFINE y == F[n]
                 z == F[i]
      <4>3. y \in Seq(Events) /\ z = y \o T
        BY <4>2
      <4>4. Longer(l, F, n) = l \o y /\ Longer(l, F, i) = l \o z
        BY <4>2 DEF Longer
      <4> HIDE DEF y, z
      <4>5. z \in Seq(Events) /\ l \o z \in Seq(Events)
        BY <2>5, <4>3
      <4>6. l \o (y \o T) = (l \o y) \o T
        BY <2>5, <4>3, Associative
      <4>7. /\ z \in Seq(Events) /\ Longer(l, F, i) \in Seq(Events)
            /\ Longer(l, F, i) = Longer(l, F, n) \o T
        BY <4>3, <4>4, <4>5, <4>6
      <4> QED
        BY <4>1, <4>7 DEF z
    <3> QED
      BY <3>2, <3>3
  <2> HIDE DEF b, d, T, m, L
  <2>7. \E t : Replays(L(i), t, d, j, q) /\ Mirrors(t, d)
    <3>1. PICK t : Replays(m, t, b, j, q) /\ Mirrors(t, b)
      BY <2>2
    <3>2. \E u : Replays(m \o T, u, d, j, q) /\ Mirrors(u, d)
      BY <2>2, <2>3, <3>1, PeriodStep DEF T
    <3> QED
      BY <2>6, <3>2
  <2>8. d.status # "NONE" /\ (i < k => d.status = "OPEN")
    BY <2>2, <2>4
  <2> QED
    BY <2>2, <2>4, <2>6, <2>7, <2>8 DEF d
<1>10. bad = {}
  <2>1. bad \subseteq Nat
    OBVIOUS
  <2>2. ASSUME NEW i \in bad
        PROVE  \E n \in bad : n < i
    <3>1. i \in 0..k /\ ~Good(i)
      OBVIOUS
    <3> HIDE DEF Good
    <3>2. i \in 1..k /\ i - 1 \in 0..k /\ i - 1 < i
      <4>1. i # 0
        BY <1>8, <3>1
      <4> QED
        BY <3>1, <4>1
    <3>3. ~Good(i - 1)
      BY <1>9, <3>1, <3>2
    <3> QED
      BY <3>2, <3>3
  <2> HIDE DEF bad
  <2> QED
    BY <2>1, <2>2, NoLeast
<1>11. Good(k)
  <2>1. k \in 0..k
    OBVIOUS
  <2> HIDE DEF Good
  <2> QED
    BY <1>10, <2>1
<1>12. L(k) = l \o F[k] /\ F[k] \in Seq(Events)
  BY <1>11 DEF Longer
<1> QED
  BY <1>4, <1>11, <1>12 DEF A, seqs

LEMMA SettleStep == FundingInv /\ SettleMonthlyGoal => FundingInv'
<1> SUFFICES ASSUME FundingInv, SettleMonthlyGoal
             PROVE  FundingInv'
  OBVIOUS
<1> DEFINE c == contract
           A(k) == Settlements(c, k)
           E(k) == FlattenSeq([i \in 1..k |-> SettlementEvents(A(k)[i - 1])])
<1>1. /\ Due(c) > 0
      /\ \E k \in 1..Min({Due(c), MaxPerSettlement}) :
           contract' = A(k)[k] /\ Emit(E(k))
      /\ UNCHANGED <<now, applied, rowVars, resets>>
  BY Zenon DEF SettleMonthlyGoal, Settlements
<1>2. PICK k \in 1..Min({Due(c), MaxPerSettlement}) : contract' = A(k)[k] /\ Emit(E(k))
  BY <1>1
<1>3. PICK s, q : Replays(log, s, c, applied, q) /\ Projected(q)
                  /\ (c.status # "NONE" => Mirrors(s, c))
  BY DEF FundingInv
<1>4. /\ ContractShape(c) /\ c \in Contracts /\ now \in Nat /\ log \in Seq(Events)
      /\ c.settled \in Nat /\ c.stopping \in BOOLEAN
  BY DEF FundingInv, ContractShape, Contracts
<1>5. /\ c.status = "OPEN" /\ c.type = "MONTHLY" /\ Due(c) \in Nat
      /\ Due(c) = IF c.stopping THEN 1 ELSE now - c.settled
  BY <1>1, <1>4 DEF Due
<1>6. Settling(c)
  BY <1>4, <1>5 DEF Settling
<1>7. k \in Nat /\ k # 0 /\ (c.stopping => k = 1)
  <2> DEFINE m == Min({Due(c), MaxPerSettlement})
  <2>1. {Due(c), MaxPerSettlement} \subseteq Nat
    BY <1>5, EscrowFundingAssumption
  <2>2. m \in Nat /\ m <= Due(c)
    BY <2>1, MinMember
  <2>3. k \in 1..m
    OBVIOUS
  <2> HIDE DEF m
  <2> QED
    BY <1>5, <2>2, <2>3
<1> HIDE DEF c
<1>8. /\ E(k) \in Seq(Events) /\ ContractShape(A(k)[k]) /\ A(k)[k].status # "NONE"
      /\ \E t : Replays(log \o E(k), t, A(k)[k], applied, q) /\ Mirrors(t, A(k)[k])
  BY <1>3, <1>4, <1>5, <1>6, <1>7, SettleFollows
<1>9. log' = log \o E(k)
  BY <1>2 DEF Emit
<1> DEFINE e == E(k)
<1>10. e \in Seq(Events) /\ log' = log \o e
  BY <1>8, <1>9
<1> HIDE DEF A, E, e
<1>11. PICK t : Replays(log', t, contract', applied, q) /\ Mirrors(t, contract')
  BY <1>2, <1>8, <1>9
<1>12. log' \in Seq(Events) /\ (log' # <<>> => log'[1].name = "GoalCreated")
  BY <1>5, <1>10, LogStarts DEF c
<1>13. now' \in Nat /\ ContractShape(contract') /\ contract'.status # "NONE"
  BY <1>1, <1>2, <1>4, <1>8
<1> QED
  BY <1>1, <1>3, <1>11, <1>12, <1>13, Mirrored

-----------------------------------------------------------------------------
(* What the API shows of the history and of the amounts.                    *)

LEMMA AssetsFinite == IsFiniteSet(Assets)
<1> DEFINE n == Len(AssetOrder)
<1>1. AssetOrder \in [1..n -> Assets] /\ n \in Nat
  BY EscrowFundingAssumption
<1>2. IsFiniteSet(1..n)
  <2> HIDE DEF n
  <2> QED
    BY <1>1, FS_Interval
<1>3. AssetOrder \in Surjection(1..n, Assets)
  BY <1>1 DEF Assets, ToSet, Surjection
<1> QED
  BY <1>2, <1>3, FS_Surjection

\* The sums of the presenter are sums over the assets.
LEMMA EntitledIsSum == EntitledTotal = Sum(Assets, row.entitled["EXPENSE"])
BY DEF EntitledTotal, MapThenSumSet, MapThenFoldSet, Sum, Solves, First

LEMMA ReleasedIsSum == ReleasedTotal = Sum(Assets, released["EXPENSE"])
BY DEF ReleasedTotal, MapThenSumSet, MapThenFoldSet, Sum, Solves, First

\* The sums of the period history are sums over the period's numbers.
LEMMA VestedIsSum ==
  ASSUME periods \in Histories, NEW a
  PROVE  MapThenSumSet(LAMBDA i : periods[i].vested[a], DOMAIN periods) = VestedIn(periods, a)
<1> DEFINE S == DOMAIN periods
           m == [i \in S |-> periods[i].vested[a]]
           Fold(f) == f = [s \in SUBSET S |-> IF s = {} THEN 0
                             ELSE periods[First(s)].vested[a] + f[s \ {First(s)}]]
           g == CHOOSE f : Fold(f)
<1>1. IsFiniteSet(S)
  BY HistoryNumbered
<1>2. ASSUME NEW f
      PROVE  Solves(S, m, f) <=> Fold(f)
  <2> DEFINE u == [s \in SUBSET S |-> IF s = {} THEN 0 ELSE m[First(s)] + f[s \ {First(s)}]]
             v == [s \in SUBSET S |-> IF s = {} THEN 0
                     ELSE periods[First(s)].vested[a] + f[s \ {First(s)}]]
  <2>1. ASSUME NEW s \in SUBSET S, s # {}
        PROVE  m[First(s)] = periods[First(s)].vested[a]
    BY <2>1, FirstMember
  <2> HIDE DEF m
  <2>2. \A s \in SUBSET S : u[s] = v[s]
    BY <2>1
  <2>3. u = v
    BY <2>2
  <2> QED
    BY <2>3 DEF Solves
<1>3. Fold(g)
  <2> HIDE DEF m, Fold
  <2>1. \E f : Fold(f)
    BY <1>1, <1>2, SumExists
  <2> QED
    BY <2>1
<1>4. g[S] = Sum(S, m)
  <2> HIDE DEF g, m, Fold
  <2> QED
    BY <1>1, <1>2, <1>3, SumSolves
<1>5. MapThenSumSet(LAMBDA i : periods[i].vested[a], DOMAIN periods) = g[S]
  BY DEF MapThenSumSet, MapThenFoldSet, First
<1> QED
  BY <1>4, <1>5 DEF VestedIn

LEMMA ContributedIsSum ==
  ASSUME periods \in Histories, NEW a
  PROVE  MapThenSumSet(LAMBDA i : periods[i].contributed[a], DOMAIN periods)
           = ContributedIn(periods, a)
<1> DEFINE S == DOMAIN periods
           m == [i \in S |-> periods[i].contributed[a]]
           Fold(f) == f = [s \in SUBSET S |-> IF s = {} THEN 0
                             ELSE periods[First(s)].contributed[a] + f[s \ {First(s)}]]
           g == CHOOSE f : Fold(f)
<1>1. IsFiniteSet(S)
  BY HistoryNumbered
<1>2. ASSUME NEW f
      PROVE  Solves(S, m, f) <=> Fold(f)
  <2> DEFINE u == [s \in SUBSET S |-> IF s = {} THEN 0 ELSE m[First(s)] + f[s \ {First(s)}]]
             v == [s \in SUBSET S |-> IF s = {} THEN 0
                     ELSE periods[First(s)].contributed[a] + f[s \ {First(s)}]]
  <2>1. ASSUME NEW s \in SUBSET S, s # {}
        PROVE  m[First(s)] = periods[First(s)].contributed[a]
    BY <2>1, FirstMember
  <2> HIDE DEF m
  <2>2. \A s \in SUBSET S : u[s] = v[s]
    BY <2>1
  <2>3. u = v
    BY <2>2
  <2> QED
    BY <2>3 DEF Solves
<1>3. Fold(g)
  <2> HIDE DEF m, Fold
  <2>1. \E f : Fold(f)
    BY <1>1, <1>2, SumExists
  <2> QED
    BY <2>1
<1>4. g[S] = Sum(S, m)
  <2> HIDE DEF g, m, Fold
  <2> QED
    BY <1>1, <1>2, <1>3, SumSolves
<1>5. MapThenSumSet(LAMBDA i : periods[i].contributed[a], DOMAIN periods) = g[S]
  BY DEF MapThenSumSet, MapThenFoldSet, First
<1> QED
  BY <1>4, <1>5 DEF ContributedIn

LEMMA InvAddsUp == FundingInv => PeriodHistoryAddsUp
<1> SUFFICES ASSUME FundingInv, AtBoundary, row.exists, row.type = "MONTHLY"
             PROVE  /\ CarriesOver(periods)
                    /\ \A a \in Assets :
                         /\ row.entitled["EXPENSE"][a]
                              = MapThenSumSet(LAMBDA i : periods[i].vested[a], DOMAIN periods)
                         /\ funded[a] = MapThenSumSet(LAMBDA i : periods[i].contributed[a],
                                                      DOMAIN periods)
  BY DEF PeriodHistoryAddsUp, CarriesOver
<1>1. PICK s, q : /\ Replays(log, s, contract, applied, q) /\ Projected(q)
                  /\ IF contract.status = "NONE" THEN contract = NoGoal /\ log = <<>>
                     ELSE Mirrors(s, contract)
  BY DEF FundingInv
<1>2. log \in Seq(Events) /\ q \in Projections /\ (applied = Len(log) => q = s)
      /\ (log = <<>> => s = Start)
  BY <1>1, ReplayFacts DEF FundingInv
<1>3. row = q.row /\ periods = q.periods /\ funded = q.funded /\ periods \in Histories
  <2>1. [NoRow EXCEPT !.exists = TRUE].type = "ONE_TIME"
    BY DEF NoRow
  <2> QED
    BY <1>1, <1>2, <2>1 DEF Projected, Projections
<1>4. AddsUp(q)
  <2>1. CASE applied = Len(log)
    <3>1. q = s
      BY <1>2, <2>1
    <3>2. CASE contract.status = "NONE"
      <4>1. q.row.type = "ONE_TIME"
        BY <1>1, <1>2, <3>1, <3>2 DEF Start, Shown, NoRow
      <4> QED
        BY <4>1 DEF AddsUp
    <3>3. CASE contract.status # "NONE"
      BY <1>1, <3>1, <3>3 DEF Mirrors
    <3> QED
      BY <3>2, <3>3
  <2>2. CASE applied # Len(log)
    BY <1>1, <1>2, <2>2, ReplayNext DEF AtBoundary, Inner
  <2> QED
    BY <2>1, <2>2
<1>5. /\ CarriesOver(periods)
      /\ \A a \in Assets : /\ row.entitled["EXPENSE"][a] = VestedIn(periods, a)
                           /\ funded[a] = ContributedIn(periods, a)
  BY <1>3, <1>4 DEF AddsUp
<1>6. ASSUME NEW a \in Assets
      PROVE  /\ row.entitled["EXPENSE"][a]
                  = MapThenSumSet(LAMBDA i : periods[i].vested[a], DOMAIN periods)
             /\ funded[a] = MapThenSumSet(LAMBDA i : periods[i].contributed[a], DOMAIN periods)
  <2> DEFINE v == MapThenSumSet(LAMBDA i : periods[i].vested[a], DOMAIN periods)
             w == MapThenSumSet(LAMBDA i : periods[i].contributed[a], DOMAIN periods)
  <2>1. v = VestedIn(periods, a)
    BY <1>3, VestedIsSum
  <2>2. w = ContributedIn(periods, a)
    BY <1>3, ContributedIsSum
  <2>3. row.entitled["EXPENSE"][a] = VestedIn(periods, a) /\ funded[a] = ContributedIn(periods, a)
    BY <1>5
  <2> HIDE DEF v, w
  <2>4. row.entitled["EXPENSE"][a] = v /\ funded[a] = w
    BY <2>1, <2>2, <2>3
  <2> QED
    BY <2>4 DEF v, w
<1> QED
  BY <1>5, <1>6

LEMMA InvSettled == FundingInv => SettledMeansPaidInFull
<1> SUFFICES ASSUME FundingInv, ShownAsSettled, row.exists
             PROVE  contract.status = "CLOSED" /\ released["EXPENSE"] = row.entitled["EXPENSE"]
  BY DEF SettledMeansPaidInFull
<1>1. PICK s, q : Replays(log, s, contract, applied, q) /\ Projected(q)
  BY DEF FundingInv
<1>2. q \in Projections /\ Sound(q, contract)
  BY <1>1, ReplayFacts DEF FundingInv
<1>3. row = q.row /\ released = q.released
  <2>1. [NoRow EXCEPT !.exists = TRUE].status = "OPEN"
    BY DEF NoRow
  <2> QED
    BY <1>1, <2>1 DEF Projected, ShownAsSettled
<1>4. contract.status = "CLOSED"
  BY <1>2, <1>3 DEF Sound, ShownAsSettled
<1> DEFINE m == released["EXPENSE"]
           n == row.entitled["EXPENSE"]
<1>5. m \in AmountsPerAsset /\ n \in AmountsPerAsset
  BY <1>2, <1>3 DEF Projections, Rows, AmountsPerKind, Kinds
<1>6. \A a \in Assets : m[a] <= n[a]
  BY <1>2, <1>3 DEF Sound, Kinds
<1>7. Sum(Assets, m) = Sum(Assets, n)
  BY EntitledIsSum, ReleasedIsSum DEF ShownAsSettled
<1> HIDE DEF m, n
<1>8. \A a \in Assets : m[a] = n[a]
  BY <1>5, <1>6, <1>7, AssetsFinite, SumEqual DEF AmountsPerAsset
<1>9. m = n
  BY <1>5, <1>8 DEF AmountsPerAsset
<1> QED
  BY <1>4, <1>9 DEF m, n

-----------------------------------------------------------------------------
(* The theorems.                                                            *)

LEMMA FundingInit == Init => FundingInv
<1> SUFFICES ASSUME Init
             PROVE  FundingInv
  OBVIOUS
<1>1. contract = NoGoal /\ log = <<>> /\ applied = 0 /\ now = 0 /\ resets = 0
  BY DEF Init
<1>2. NoGoal \in Contracts
  BY NothingTyped DEF NoGoal, Contracts, Statuses, GoalTypes, PolicyNames
<1>3. ContractShape(NoGoal)
  <2>1. NoGoal.status = "NONE" /\ NoGoal.paid = NoGoal.entitled
    BY DEF NoGoal
  <2>2. \A k \in Kinds, a \in Assets : NoGoal.paid[k][a] \in Nat
    BY <1>2 DEF Contracts, AmountsPerKind, AmountsPerAsset
  <2> QED
    BY <1>2, <2>1, <2>2 DEF ContractShape
<1>4. Replays(log, Start, contract, applied, Start)
  BY <1>1, <1>2, ReplayStart
<1>5. Projected(Start)
  BY DEF Init, Projected, Start, Shown
<1>6. log \in Seq(Events) /\ now \in Nat /\ resets \in 0..MaxResets
  BY <1>1, EscrowFundingAssumption
<1>7. contract.status = "NONE"
  BY <1>1 DEF NoGoal
<1> QED
  BY <1>1, <1>3, <1>4, <1>5, <1>6, <1>7 DEF FundingInv

\* FundingInv is an inductive invariant: the contract keeps a replay of its log,
\* and what is projected is a state of it.
THEOREM FundingInvariant == Spec => []FundingInv
<1>1. FundingInv /\ [Next]_vars => FundingInv'
  <2> SUFFICES ASSUME FundingInv, [Next]_vars
               PROVE  FundingInv'
    OBVIOUS
  <2>1. CASE ContractStep
    BY <2>1, CreateStep, ContributeStep, PolicyStep, StopStep, SettleStep, CloseStep,
       CancelStep, ReleaseStep, TickStep DEF ContractStep
  <2>2. CASE Handle
    BY <2>2, HandleStep
  <2>3. CASE ResetChainProjection
    BY <2>3, ResetStep
  <2>4. CASE UNCHANGED vars
    BY <2>4 DEF vars, contractVars, rowVars, FundingInv, Projected
  <2> QED
    BY <2>1, <2>2, <2>3, <2>4 DEF Next
<1> QED
  BY <1>1, FundingInit, PTL DEF Spec

\* No event the contract emits makes its handler throw (handleDecodedEscrowEvent),
\* wherever the projection stands and however often it was reset: a contribution
\* finds its open period and a settlement the period it accounts.
THEOREM EventsAreAccepted == Spec => []HandlersAcceptTheLog
BY FundingInvariant, InvAccepts, PTL

\* The rows keep their types and, once every event is applied, are the image of
\* the contract: status, policy, stop, carry, entitlements, payments, open period,
\* the balance reconcileEscrow compares and the phase and periods the API shows.
THEOREM ProjectionFollows == Spec => []ProjectionFollowsContract
<1>1. FundingInv => ProjectionFollowsContract
  BY InvTypeOK, InvMatches, InvSchedule DEF ProjectionFollowsContract
<1> QED
  BY <1>1, FundingInvariant, PTL

\* At no moment, also between two events of one transaction or while a replay
\* catches up, do the rows show more owed or paid than the contract has.
THEOREM OwedIsNeverOverstated == Spec => []NeverOverstatesWhatIsOwed
BY FundingInvariant, InvOverstatesNothing, PTL

\* Between two transactions the period history adds up: what came into a settled
\* period was vested or carried over, and the entitlement and the contributions
\* are the sums of the periods; and a goal the presenter shows as settled was
\* closed by the contract and paid in full in every asset.
THEOREM SettlementsAddUp == Spec => []SettlementAddsUp
<1>1. FundingInv => SettlementAddsUp
  BY InvAddsUp, InvSettled DEF SettlementAddsUp
<1> QED
  BY <1>1, FundingInvariant, PTL

=============================================================================
