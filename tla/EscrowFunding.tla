--------------------------- MODULE EscrowFunding ---------------------------
(***************************************************************************)
(* One funding goal: the escrow contract, the event handlers that project  *)
(* it (handleDecodedEscrowEvent in apps/worker/src/event-handlers.ts), the *)
(* reset that precedes a replay, and what the public API shows of it.      *)
(*                                                                         *)
(* EscrowIndexer shows that the events of a fork reach the handlers once   *)
(* and in order, each in a transaction of its own; here they are taken     *)
(* from the log in that order, so the projection lags behind the contract  *)
(* and may stand between two events of one contract transaction.  The      *)
(* contract lives in another repository: its state and errors are those of *)
(* its ABI.  Period k of a monthly goal ends at time k; addresses, texts   *)
(* and metadata are left out, Safe payouts are in SafePayouts.             *)
(***************************************************************************)
EXTENDS Integers, Sequences, FiniteSets, FiniteSetsExt, SequencesExt, TLC

CONSTANTS AssetOrder,       \* the order in which a settlement accounts the assets
          Types,            \* the types of goal under consideration
          Policies,         \* monthly surplus policies
          Amounts,          \* amounts of one contribution or release
          Target,           \* the goal's target in every asset
          MaxPerSettlement, \* MAX_MONTHLY_PERIODS_PER_SETTLEMENT
          MaxFunded,        \* bound: contributions of one asset
          MaxTime,          \* bound: period ends that pass
          MaxLog,           \* bound: events a transaction may start at
          MaxResets         \* bound: projection resets

Assets == ToSet(AssetOrder)

ASSUME EscrowFundingAssumption ==
  /\ AssetOrder \in Seq(Assets) /\ IsInjective(AssetOrder)
  /\ Types \subseteq {"ONE_TIME", "MONTHLY"}
  /\ Policies \subseteq {"PAYOUT_ALL", "ROLL_OVER"}
  /\ Amounts \subseteq Nat \ {0}
  /\ {Target, MaxFunded, MaxTime, MaxLog, MaxResets} \subseteq Nat
  /\ MaxPerSettlement \in Nat \ {0}

VARIABLES contract, now,     \* the escrow's record of the goal; period ends passed
          log,               \* the events it emitted
          applied,           \* how many of them the handlers have applied
          row, periods,      \* the FundingGoal row, its FundingGoalPeriod rows
          funded, released,  \* sums of the CryptoContribution and executed Payout rows
          resets

contractVars == <<contract, now, log>>
rowVars == <<row, periods, funded, released>>
vars == <<contractVars, applied, rowVars, resets>>

Kinds == {"EXPENSE", "CANCELLED_FUNDS"}
Nothing == [a \in Assets |-> 0]

-----------------------------------------------------------------------------
\* The contract.

NoGoal ==
  [status |-> "NONE", type |-> "ONE_TIME", policy |-> "NONE", stopping |-> FALSE,
   settled |-> 0, current |-> Nothing, carry |-> Nothing,
   entitled |-> [k \in Kinds |-> Nothing], paid |-> [k \in Kinds |-> Nothing]]

Emit(events) ==
  /\ Len(log) < MaxLog
  /\ log' = log \o events

\* Periods that have ended unsettled; a goal that stops settles only its last.
Due(c) == IF c.status # "OPEN" \/ c.type # "MONTHLY" \/ now <= c.settled THEN 0
          ELSE IF c.stopping THEN 1 ELSE now - c.settled

CreateGoal ==
  /\ contract.status = "NONE"
  /\ \E type \in Types, policy \in Policies :
       /\ contract' = [NoGoal EXCEPT !.status = "OPEN", !.type = type,
                                     !.policy = IF type = "MONTHLY" THEN policy ELSE @]
       /\ Emit(<<[name |-> "GoalCreated"]>> \o
               (IF type = "MONTHLY" THEN <<[name |-> "MonthlyGoalCreated", policy |-> policy]>>
                                    ELSE <<>>))
  /\ UNCHANGED <<now, applied, rowVars, resets>>

\* All that was ever contributed; releases leave the entitlements alone.
Received(a) == contract.current[a] + contract.carry[a]
               + contract.entitled["EXPENSE"][a] + contract.entitled["CANCELLED_FUNDS"][a]

\* MonthlySettlementRequired refuses a contribution to a period that has ended.
Contribute ==
  /\ contract.status = "OPEN" /\ Due(contract) = 0
  /\ \E a \in Assets, amount \in Amounts :
       /\ Received(a) + amount <= MaxFunded
       /\ contract' = [contract EXCEPT !.current[a] = @ + amount]
       /\ Emit(<<[name |-> "ContributionReceived", asset |-> a, amount |-> amount]>>)
  /\ UNCHANGED <<now, applied, rowVars, resets>>

SetMonthlySurplusPolicy ==
  /\ contract.status = "OPEN" /\ contract.type = "MONTHLY" /\ Due(contract) = 0
  /\ \E policy \in Policies \ {contract.policy} :
       /\ contract' = [contract EXCEPT !.policy = policy]
       /\ Emit(<<[name |-> "MonthlySurplusPolicyUpdated", policy |-> policy]>>)
  /\ UNCHANGED <<now, applied, rowVars, resets>>

RequestMonthlyGoalStop ==
  /\ contract.status = "OPEN" /\ contract.type = "MONTHLY"
  /\ Due(contract) = 0 /\ ~contract.stopping
  /\ contract' = [contract EXCEPT !.stopping = TRUE]
  /\ Emit(<<[name |-> "MonthlyGoalStopRequested"]>>)
  /\ UNCHANGED <<now, applied, rowVars, resets>>

\* What the recipient is owed of an asset when a period is settled.
Vested(c, a) ==
  LET available == c.current[a] + c.carry[a]
  IN  IF c.policy = "PAYOUT_ALL" \/ c.stopping THEN available ELSE Min({Target, available})

SettlePeriod(c) ==
  [c EXCEPT !.settled = @ + 1,
            !.status = IF c.stopping THEN "CLOSED" ELSE @,
            !.entitled["EXPENSE"] = [a \in Assets |-> @[a] + Vested(c, a)],
            !.carry = [a \in Assets |-> c.current[a] + @[a] - Vested(c, a)],
            !.current = Nothing]

SettlementEvents(c) ==
  LET after == SettlePeriod(c)
  IN  <<[name |-> "MonthlyPeriodSettled", period |-> after.settled, policy |-> c.policy,
         final |-> c.stopping]>>
      \o [i \in 1..Len(AssetOrder) |->
            LET a == AssetOrder[i]
            IN  [name |-> "MonthlyTokenSettled", period |-> after.settled, asset |-> a,
                 contributed |-> c.current[a], carryIn |-> c.carry[a],
                 vested |-> Vested(c, a), carryOut |-> after.carry[a]]]
      \o (IF c.stopping THEN <<[name |-> "GoalClosed", entitled |-> after.entitled["EXPENSE"]]>>
                        ELSE <<>>)

\* settleMonthlyGoal(goalId, maxPeriods): several periods in one transaction.
SettleMonthlyGoal ==
  /\ Due(contract) > 0
  /\ \E k \in 1..Min({Due(contract), MaxPerSettlement}) :
       LET after[i \in 0..k] == IF i = 0 THEN contract ELSE SettlePeriod(after[i - 1])
       IN  /\ contract' = after[k]
           /\ Emit(FlattenSeq([i \in 1..k |-> SettlementEvents(after[i - 1])]))
  /\ UNCHANGED <<now, applied, rowVars, resets>>

CloseGoal ==
  /\ contract.status = "OPEN" /\ contract.type = "ONE_TIME"
  /\ contract' = [contract EXCEPT !.status = "CLOSED", !.current = Nothing,
                                  !.entitled["EXPENSE"] = contract.current]
  /\ Emit(<<[name |-> "GoalClosed", entitled |-> contract.current]>>)
  /\ UNCHANGED <<now, applied, rowVars, resets>>

\* cancelGoal and cancelMonthlyGoal: what has not vested goes to the treasury.
CancelGoal ==
  /\ contract.status = "OPEN" /\ Due(contract) = 0
  /\ LET added == [a \in Assets |-> contract.current[a] + contract.carry[a]]
         cancelled == [name |-> "GoalCancelled"]
         monthly == [name |-> "MonthlyGoalCancelled", added |-> added]
     IN  /\ contract' = [contract EXCEPT !.status = "CANCELLED", !.current = Nothing,
                                         !.carry = Nothing, !.entitled["CANCELLED_FUNDS"] = added]
         /\ IF contract.type = "ONE_TIME" THEN Emit(<<cancelled>>)
            ELSE Emit(<<cancelled, monthly>>) \/ Emit(<<monthly, cancelled>>)
  /\ UNCHANGED <<now, applied, rowVars, resets>>

\* releaseExpense and releaseCancelledFunds, within what is owed.
Release ==
  /\ \E k \in Kinds, a \in Assets, amount \in Amounts :
       /\ contract.paid[k][a] + amount <= contract.entitled[k][a]
       /\ contract' = [contract EXCEPT !.paid[k][a] = @ + amount]
       /\ Emit(<<[name |-> "Released", kind |-> k, asset |-> a, amount |-> amount]>>)
  /\ UNCHANGED <<now, applied, rowVars, resets>>

Tick ==
  /\ now < MaxTime
  /\ now' = now + 1
  /\ UNCHANGED <<contract, log, applied, rowVars, resets>>

ContractStep ==
  \/ CreateGoal \/ Contribute \/ SetMonthlySurplusPolicy \/ RequestMonthlyGoalStop
  \/ SettleMonthlyGoal \/ CloseGoal \/ CancelGoal \/ Release \/ Tick

-----------------------------------------------------------------------------
\* The event handlers.

NoRow ==
  [exists |-> FALSE, status |-> "OPEN", type |-> "ONE_TIME", policy |-> "NONE",
   scheduled |-> FALSE, stopping |-> FALSE, settled |-> 0, deadline |-> 0,
   carry |-> Nothing, entitled |-> [k \in Kinds |-> Nothing]]

NewPeriod(policy) ==
  [policy |-> policy, final |-> FALSE, settled |-> FALSE, contributed |-> Nothing,
   carryIn |-> Nothing, vested |-> Nothing, carryOut |-> Nothing]

\* The FundingGoalPeriod rows with number n created or overwritten.
WithPeriod(rows, n, period) == [i \in DOMAIN rows \cup {n} |-> IF i = n THEN period ELSE rows[i]]

OpenPeriod == row.settled + 1

\* The errors the handlers raise; the transaction is rolled back and retried.
Throws(e) ==
  \/ e.name # "GoalCreated" /\ ~row.exists
  \/ /\ e.name = "ContributionReceived"
     /\ row.type = "MONTHLY" /\ OpenPeriod \notin DOMAIN periods
  \/ e.name = "MonthlyPeriodSettled" /\ ~row.scheduled
  \/ e.name = "MonthlyTokenSettled" /\ e.period \notin DOMAIN periods

OnGoalCreated(e) ==
  /\ e.name = "GoalCreated"
  /\ row' = [NoRow EXCEPT !.exists = TRUE]
  /\ UNCHANGED <<periods, funded, released>>

OnMonthlyGoalCreated(e) ==
  /\ e.name = "MonthlyGoalCreated"
  /\ row' = [row EXCEPT !.type = "MONTHLY", !.policy = e.policy, !.scheduled = TRUE, !.deadline = 1]
  /\ periods' = IF 1 \in DOMAIN periods THEN [periods EXCEPT ![1].policy = e.policy]
                ELSE WithPeriod(periods, 1, NewPeriod(e.policy))
  /\ UNCHANGED <<funded, released>>

CreditPeriod(e) == [periods EXCEPT ![OpenPeriod].contributed[e.asset] = @ + e.amount]

OnContributionReceived(e) ==
  /\ e.name = "ContributionReceived"
  /\ funded' = [funded EXCEPT ![e.asset] = @ + e.amount]
  /\ periods' = IF row.type = "MONTHLY" THEN CreditPeriod(e) ELSE periods
  /\ UNCHANGED <<row, released>>

OnSurplusPolicyUpdated(e) ==
  /\ e.name = "MonthlySurplusPolicyUpdated"
  /\ row' = [row EXCEPT !.policy = e.policy]
  /\ periods' = [i \in DOMAIN periods |->
                   IF i = OpenPeriod /\ ~periods[i].settled
                   THEN [periods[i] EXCEPT !.policy = e.policy] ELSE periods[i]]
  /\ UNCHANGED <<funded, released>>

OnStopRequested(e) ==
  /\ e.name = "MonthlyGoalStopRequested"
  /\ row' = [row EXCEPT !.stopping = TRUE]
  /\ UNCHANGED <<periods, funded, released>>

NoNextPeriod(settled, e) == settled

PeriodAfterNext(settled, e) ==
  IF e.final THEN settled ELSE WithPeriod(settled, e.period + 2, NewPeriod(e.policy))

DeadlineNotMoved(e) == [row EXCEPT !.settled = e.period]

\* The next period is opened unless this one is the last, and keeps its policy.
WithNextPeriod(settled, e) ==
  IF e.final \/ e.period + 1 \in DOMAIN settled THEN settled
  ELSE WithPeriod(settled, e.period + 1, NewPeriod(e.policy))

\* nextMonthlySettlementUtc moves the deadline to the next period's end.
SettledRow(e) == [row EXCEPT !.settled = e.period, !.deadline = IF e.final THEN @ ELSE e.period + 1]

OnPeriodSettled(e) ==
  /\ e.name = "MonthlyPeriodSettled"
  /\ row' = SettledRow(e)
  /\ LET before == IF e.period \in DOMAIN periods THEN periods[e.period] ELSE NewPeriod(e.policy)
         settled == [before EXCEPT !.policy = e.policy, !.final = e.final, !.settled = TRUE]
     IN  periods' = WithNextPeriod(WithPeriod(periods, e.period, settled), e)
  /\ UNCHANGED <<funded, released>>

CarryStays(e) ==
  [periods EXCEPT ![e.period].contributed[e.asset] = e.contributed,
                  ![e.period].carryIn[e.asset] = e.carryIn,
                  ![e.period].vested[e.asset] = e.vested,
                  ![e.period].carryOut[e.asset] = e.carryOut]

\* The settled period takes the contract's figures, an open next one its carry.
CarryForward(e) ==
  [i \in DOMAIN periods |->
     CASE i = e.period ->
            [periods[i] EXCEPT !.contributed[e.asset] = e.contributed,
                               !.carryIn[e.asset] = e.carryIn,
                               !.vested[e.asset] = e.vested,
                               !.carryOut[e.asset] = e.carryOut]
       [] i = e.period + 1 /\ ~periods[i].settled ->
            [periods[i] EXCEPT !.carryIn[e.asset] = e.carryOut]
       [] OTHER -> periods[i]]

OnTokenSettled(e) ==
  /\ e.name = "MonthlyTokenSettled"
  /\ periods' = CarryForward(e)
  /\ row' = [row EXCEPT !.carry[e.asset] = e.carryOut,
                        !.entitled["EXPENSE"][e.asset] = @ + e.vested]
  /\ UNCHANGED <<funded, released>>

ClosedAdding(e) ==
  [row EXCEPT !.status = "CLOSED",
              !.entitled["EXPENSE"] = [a \in Assets |-> @[a] + e.entitled[a]]]

ClosedRow(e) == [row EXCEPT !.status = "CLOSED", !.entitled["EXPENSE"] = e.entitled]

OnGoalClosed(e) ==
  /\ e.name = "GoalClosed"
  /\ row' = ClosedRow(e)
  /\ UNCHANGED <<periods, funded, released>>

CancelledCounting(e) ==
  [row EXCEPT !.status = "CANCELLED", !.entitled["CANCELLED_FUNDS"] = funded]

\* Contributions of a one-time goal; a monthly goal has an event of its own.
CancelledRow(e) ==
  [row EXCEPT !.status = "CANCELLED",
              !.entitled["CANCELLED_FUNDS"] = IF row.type = "ONE_TIME" THEN funded ELSE @]

OnGoalCancelled(e) ==
  /\ e.name = "GoalCancelled"
  /\ row' = CancelledRow(e)
  /\ UNCHANGED <<periods, funded, released>>

OnMonthlyGoalCancelled(e) ==
  /\ e.name = "MonthlyGoalCancelled"
  /\ row' = [row EXCEPT !.carry = Nothing,
                        !.entitled["CANCELLED_FUNDS"] = [a \in Assets |-> @[a] + e.added[a]]]
  /\ UNCHANGED <<periods, funded, released>>

\* ExpenseReleased and CancelledFundsReleased; which payout row, see SafePayouts.
OnReleased(e) ==
  /\ e.name = "Released"
  /\ released' = [released EXCEPT ![e.kind][e.asset] = @ + e.amount]
  /\ UNCHANGED <<row, periods, funded>>

Handle ==
  /\ applied < Len(log)
  /\ LET e == log[applied + 1]
     IN  /\ ~Throws(e)
         /\ \/ OnGoalCreated(e) \/ OnMonthlyGoalCreated(e) \/ OnContributionReceived(e)
            \/ OnSurplusPolicyUpdated(e) \/ OnStopRequested(e) \/ OnPeriodSettled(e)
            \/ OnTokenSettled(e) \/ OnGoalClosed(e) \/ OnGoalCancelled(e)
            \/ OnMonthlyGoalCancelled(e) \/ OnReleased(e)
  /\ applied' = applied + 1
  /\ UNCHANGED <<contractVars, resets>>

ResetKeepingPeriods == UNCHANGED periods

ResetPeriods == periods' = <<>>

\* resetChainProjection before a replay; a goal with Safe intents keeps its row.
ResetChainProjection ==
  /\ row.exists /\ applied > 0
  /\ resets < MaxResets
  /\ resets' = resets + 1
  /\ applied' = 0
  /\ \E retained \in BOOLEAN : row' = [NoRow EXCEPT !.exists = retained]
  /\ ResetPeriods
  /\ funded' = Nothing
  /\ released' = [k \in Kinds |-> Nothing]
  /\ UNCHANGED contractVars

Init ==
  /\ contract = NoGoal /\ now = 0 /\ log = <<>>
  /\ applied = 0 /\ row = NoRow /\ periods = <<>>
  /\ funded = Nothing /\ released = [k \in Kinds |-> Nothing]
  /\ resets = 0

Next == ContractStep \/ Handle \/ ResetChainProjection

Spec == Init /\ [][Next]_vars

-----------------------------------------------------------------------------
\* What the API shows: mapPublicFundingGoal and settlementRequest.

EntitledTotal == MapThenSumSet(LAMBDA a : row.entitled["EXPENSE"][a], Assets)
ReleasedTotal == MapThenSumSet(LAMBDA a : released["EXPENSE"][a], Assets)

SettledWithoutClose == EntitledTotal = ReleasedTotal

\* The amounts of all assets are added before they are compared.
ShownAsSettled == row.status = "CLOSED" /\ ReleasedTotal = EntitledTotal

Phase ==
  CASE row.status = "CANCELLED" -> "CANCELLED"
    [] row.status = "CLOSED" -> "CLOSED"
    [] row.status = "OPEN" /\ row.deadline <= now -> "SETTLEMENT_DUE"
    [] row.status = "OPEN" /\ row.deadline > now /\ row.stopping -> "STOPPING"
    [] OTHER -> "ACTIVE"

\* The periods settlementRequest counts as due.
PeriodsDue ==
  IF row.type # "MONTHLY" \/ row.status # "OPEN" \/ row.deadline > now THEN 0
  ELSE IF row.stopping THEN 1 ELSE now - row.deadline + 1

\* What reconcileEscrow expects the contract to hold.
Expected(a) == funded[a] - released["EXPENSE"][a] - released["CANCELLED_FUNDS"][a]

-----------------------------------------------------------------------------
CaughtUp == applied = Len(log) /\ contract.status # "NONE"

\* Between two contract transactions: no event of a settlement or a
\* cancellation is still to come.
AtBoundary ==
  \/ applied = Len(log)
  \/ log[applied + 1].name \notin {"MonthlyGoalCreated", "MonthlyTokenSettled", "GoalCancelled",
                                   "MonthlyGoalCancelled", "GoalClosed", "MonthlyPeriodSettled"}

AmountsPerAsset == [Assets -> Nat]

\* The rows hold amounts for every asset, and periods are numbered from one.
TypeOK ==
  /\ row.status \in {"OPEN", "CLOSED", "CANCELLED"}
  /\ row.entitled \in [Kinds -> AmountsPerAsset] /\ row.carry \in AmountsPerAsset
  /\ funded \in AmountsPerAsset /\ released \in [Kinds -> AmountsPerAsset]
  /\ DOMAIN periods = 1..Cardinality(DOMAIN periods)
  /\ applied \in 0..Len(log) /\ resets \in 0..MaxResets

\* No event the contract emits makes its handler throw: a contribution always
\* finds an open period and a settlement the period it accounts
\* (event-handlers.ts:508, 563, 614 and the update at 687), also in a replay.
HandlersAcceptTheLog == applied < Len(log) => ~Throws(log[applied + 1])

\* Once every event is applied the projection is the contract's state, however
\* the transactions interleaved with resets: status, policy, stop, settled
\* periods, carry, both entitlements, the open period, and the balance that
\* reconcileEscrow compares.
ProjectionMatchesContract ==
  CaughtUp =>
    /\ row.exists /\ row.status = contract.status /\ row.type = contract.type
    /\ row.policy = contract.policy /\ row.stopping = contract.stopping
    /\ row.settled = contract.settled /\ row.carry = contract.carry
    /\ row.entitled = contract.entitled /\ released = contract.paid
    /\ contract.type = "MONTHLY" /\ contract.status = "OPEN" =>
         /\ periods[OpenPeriod].contributed = contract.current
         /\ periods[OpenPeriod].carryIn = contract.carry
         /\ periods[OpenPeriod].policy = contract.policy
    /\ \A a \in Assets :
         Expected(a) = Received(a) - contract.paid["EXPENSE"][a]
                       - contract.paid["CANCELLED_FUNDS"][a]

\* The period history adds up: in every settled period what came in went to the
\* recipient or into the next period, the recipient's entitlement is what the
\* periods vested, and contributions are never counted in two periods.
PeriodHistoryAddsUp ==
  AtBoundary /\ row.exists /\ row.type = "MONTHLY" =>
    /\ \A i \in DOMAIN periods, a \in Assets :
         periods[i].settled =>
           /\ periods[i].contributed[a] + periods[i].carryIn[a]
                = periods[i].vested[a] + periods[i].carryOut[a]
           /\ i + 1 \in DOMAIN periods => periods[i + 1].carryIn[a] = periods[i].carryOut[a]
    /\ \A a \in Assets :
         /\ row.entitled["EXPENSE"][a]
              = MapThenSumSet(LAMBDA i : periods[i].vested[a], DOMAIN periods)
         /\ funded[a] = MapThenSumSet(LAMBDA i : periods[i].contributed[a], DOMAIN periods)

\* At no moment, also between two events of one transaction or during a replay,
\* does the projection show more owed to the recipient or the treasury than the
\* contract owes; the admin API offers payouts from these figures.
NeverOverstatesWhatIsOwed ==
  \A k \in Kinds, a \in Assets :
    /\ row.entitled[k][a] <= contract.entitled[k][a]
    /\ released[k][a] <= contract.paid[k][a]

\* A goal is shown as settled only when the contract has closed it and the
\* recipient was paid in full in every asset, although the code adds up the
\* amounts of different assets (funding-presenter.ts:96-102).
SettledMeansPaidInFull ==
  ShownAsSettled /\ row.exists =>
    /\ contract.status = "CLOSED"
    /\ released["EXPENSE"] = row.entitled["EXPENSE"]

\* What the reconcile-escrow job asserts (main.ts:139-143) whenever it runs: the
\* confirmed contributions less the executed payouts are the contract's balance.
ReconciliationMatches ==
  \A a \in Assets : Expected(a) = Received(a) - contract.paid["EXPENSE"][a]
                                 - contract.paid["CANCELLED_FUNDS"][a]

\* Once caught up, the phase shown tells whether the contract accepts a
\* contribution, and a settlement request asks for the periods that are due.
ScheduleMatchesContract ==
  CaughtUp /\ contract.type = "MONTHLY" =>
    /\ (Phase \in {"ACTIVE", "STOPPING"}) = (contract.status = "OPEN" /\ Due(contract) = 0)
    /\ PeriodsDue = Due(contract)

=============================================================================
