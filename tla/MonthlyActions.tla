---------------------------- MODULE MonthlyActions ----------------------------
(***************************************************************************)
(* The lifecycle of a goal after publication: closing and cancelling a     *)
(* one-time goal, and the policy, stop and cancellation of a monthly one.  *)
(*                                                                         *)
(* The goal's controller gets a call to send himself; an owner of the Safe *)
(* gets a Safe intent, or a manual export.  Preparing one is a chain of    *)
(* statements without a common transaction, submitting it another.  A      *)
(* worker pass follows the Safe proposals; the escrow indexer projects the *)
(* events and credits them to proposals.                                   *)
(*                                                                         *)
(* An action is "ROLL_OVER" or "PAYOUT_ALL" (setMonthlySurplusPolicy),     *)
(* "STOP", "CANCEL", or "CLOSE" of a one-time goal.                        *)
(***************************************************************************)
EXTENDS Integers, Sequences, FiniteSets

CONSTANTS
    MonthlyIntents, \* Safe intents that can be prepared, in order of use
    MaxChainEvents, \* bound: events of the goal
    MaxSafeTx,      \* bound: Safe transactions executed
    MaxAttempts     \* bound: requests that prepare or submit

VARIABLES
    chain,    \* the goal on the contract; late: its deadline has passed
    events,   \* what happened to it
    goal,     \* FundingGoal, and how many events it reflects
    rows,     \* SafeGoalActionIntent with its SafeGoalActionProposal
    prep,     \* prepareGoalLifecycle on its way to an intent or an export
    send,     \* submitSafeGoalAction, by intent
    outside,  \* calls handed out to be sent by the controller or the Safe
    safeQueue, \* proposals the Transaction Service holds
    executed, \* the Safe's transactions: who, and whether it succeeded
    round,    \* syncSafeGoalActionProposals
    attempts

maVars == <<chain, events, goal, rows, prep, send, outside, safeQueue, executed, round, attempts>>

Policies == {"ROLL_OVER", "PAYOUT_ALL"}
MonthlyKinds == Policies \union {"STOP", "CANCEL"}
PendingActions == {"SUBMITTING", "AWAITING"}  \* AWAITING: also READY_TO_EXECUTE
Idle == [pc |-> "idle"]
NoRow == [used |-> FALSE, status |-> "none", consumed |-> FALSE, expired |-> FALSE]

MonthlyInit ==
    /\ chain \in [monthly : BOOLEAN, open : {TRUE}, policy : {"ROLL_OVER"}, stopping : {FALSE},
                  period : {0}, late : {FALSE}]
    /\ events = <<>>
    /\ goal = [open |-> TRUE, policy |-> "ROLL_OVER", stopping |-> FALSE, period |-> 0, cursor |-> 0]
    /\ rows = [i \in MonthlyIntents |-> NoRow]
    /\ prep = Idle
    /\ send = [i \in MonthlyIntents |-> "idle"]
    /\ outside = {}
    /\ safeQueue = {}
    /\ executed = <<>>
    /\ round = Idle
    /\ attempts = 0

-----------------------------------------------------------------------------
(* The contract.                                                            *)

Applies(action) ==
    /\ chain.open
    /\ Len(events) < MaxChainEvents
    /\ IF action \in Policies THEN chain.monthly /\ ~chain.stopping /\ ~chain.late /\ chain.policy # action
       ELSE IF action = "STOP" THEN chain.monthly /\ ~chain.stopping /\ ~chain.late
       ELSE action = "CLOSE" => ~chain.monthly

Perform(action) ==
    /\ events' = Append(events, action)
    /\ chain' = CASE action \in Policies -> [chain EXCEPT !.policy = action]
                  [] action = "STOP" -> [chain EXCEPT !.stopping = TRUE]
                  [] action \in {"CANCEL", "CLOSE"} -> [chain EXCEPT !.open = FALSE]

(* The deadline passes, and anyone settles the period that is over.         *)
Elapse ==
    /\ chain.monthly /\ chain.open /\ ~chain.late
    /\ Len(events) < MaxChainEvents
    /\ chain' = [chain EXCEPT !.late = TRUE]
    /\ UNCHANGED <<events, goal, rows, prep, send, outside, safeQueue, executed, round, attempts>>

SettlePeriod ==
    /\ chain.late /\ chain.open
    /\ Len(events) < MaxChainEvents
    /\ events' = Append(events, "SETTLED")
    /\ chain' = [chain EXCEPT !.late = FALSE, !.period = @ + 1]
    /\ UNCHANGED <<goal, rows, prep, send, outside, safeQueue, executed, round, attempts>>

(* A transaction that does not apply reverts; the Safe's nonce is spent.    *)
SendOutside(c) ==
    /\ c \in outside
    /\ outside' = outside \ {c}
    /\ IF Applies(c.action) THEN Perform(c.action) ELSE UNCHANGED <<chain, events>>
    /\ \/ c.by = "controller" /\ UNCHANGED executed
       \/ /\ c.by = "safe" /\ Len(executed) < MaxSafeTx
          /\ executed' = Append(executed, [by |-> "export", ok |-> Applies(c.action)])
    /\ UNCHANGED <<goal, rows, prep, send, safeQueue, round, attempts>>

ExecuteAction(i) ==
    /\ i \in safeQueue
    /\ rows[i].nonce = Len(executed)
    /\ Len(executed) < MaxSafeTx
    /\ executed' = Append(executed, [by |-> i, ok |-> Applies(rows[i].action)])
    /\ IF Applies(rows[i].action) THEN Perform(rows[i].action) ELSE UNCHANGED <<chain, events>>
    /\ UNCHANGED <<goal, rows, prep, send, outside, safeQueue, round, attempts>>

-----------------------------------------------------------------------------
(* Preparing.                                                               *)

(* The deadline the projection shows has passed.                            *)
Overdue == goal.period < chain.period \/ chain.late

(* The checks of prepareGoalLifecycle.                                      *)
Admissible(action) ==
    /\ chain.monthly /\ goal.open /\ ~Overdue
    /\ action \in Policies => action # goal.policy
    /\ action # "CANCEL" => ~goal.stopping

(* closeProposal, cancelProposal, and the direct answer of                  *)
(* prepareGoalLifecycle, for the owner or the manager who created the goal. *)
PrepareDirectCall(action) ==
    /\ attempts < MaxAttempts
    /\ IF chain.monthly THEN action \in MonthlyKinds \ {"CANCEL"} /\ Admissible(action)
       ELSE action \in {"CLOSE", "CANCEL"} /\ goal.open
    /\ outside' = outside \union {[by |-> "controller", action |-> action]}
    /\ attempts' = attempts + 1
    /\ UNCHANGED <<chain, events, goal, rows, prep, send, safeQueue, executed, round>>

Expected == [policy |-> goal.policy, stopping |-> goal.stopping, period |-> goal.period, open |-> goal.open]

(* A Safe owner's request: a manual export retires every intent nobody      *)
(* submitted, the service retires those that expired.                       *)
PrepareForSafe(action, manual) ==
    /\ prep = Idle
    /\ attempts < MaxAttempts
    /\ action \in MonthlyKinds /\ Admissible(action)
    /\ prep' = [pc |-> IF manual THEN "manual" ELSE "service", action |-> action, expected |-> Expected]
    /\ rows' = [i \in MonthlyIntents |->
           IF rows[i].used /\ rows[i].status = "none" /\ (manual \/ rows[i].expired)
           THEN [rows[i] EXCEPT !.consumed = TRUE] ELSE rows[i]]
    /\ attempts' = attempts + 1
    /\ UNCHANGED <<chain, events, goal, send, outside, safeQueue, executed, round>>

ActiveRows == {i \in MonthlyIntents : rows[i].status \in PendingActions}
OpenIntents == {i \in MonthlyIntents : rows[i].used /\ ~rows[i].consumed}

(* assertManualReplacementAllowed and the supersession of a submission      *)
(* that was never confirmed, then the export.                               *)
ExportAction(confirmedAbsent) ==
    /\ prep.pc = "manual"
    /\ prep' = Idle
    /\ \/ /\ ActiveRows = {}
          /\ outside' = outside \union {[by |-> "safe", action |-> prep.action]}
          /\ UNCHANGED rows
       \/ /\ confirmedAbsent
          /\ \E i \in ActiveRows :
                /\ rows[i].status = "SUBMITTING" /\ rows[i].doubt
                /\ rows' = [rows EXCEPT ![i].status = "STALE"]
          /\ outside' = outside \union {[by |-> "safe", action |-> prep.action]}
       \/ /\ ActiveRows # {}
          /\ UNCHANGED <<outside, rows>>
    /\ UNCHANGED <<chain, events, goal, send, safeQueue, executed, round, attempts>>

NextActionNonce ==
    LET behind == {Len(executed)} \union {rows[i].nonce + 1 : i \in {j \in safeQueue : rows[j].nonce >= Len(executed)}}
    IN  CHOOSE n \in behind : \A m \in behind : m <= n

(* No action may be active; then the Safe is asked for its nonce.           *)
FindActive ==
    /\ prep.pc = "service"
    /\ prep' = IF ActiveRows # {} \/ \E i \in OpenIntents : ~rows[i].expired
               THEN Idle ELSE [prep EXCEPT !.pc = "free"]
    /\ UNCHANGED <<chain, events, goal, rows, send, outside, safeQueue, executed, round, attempts>>

ReadActionNonce ==
    /\ prep.pc = "free"
    /\ prep' = [pc |-> "create", action |-> prep.action, expected |-> prep.expected, nonce |-> NextActionNonce]
    /\ UNCHANGED <<chain, events, goal, rows, send, outside, safeQueue, executed, round, attempts>>

(* The unique index admits one unconsumed intent for the Safe.              *)
CreateAction(i) ==
    /\ prep.pc = "create"
    /\ prep' = Idle
    /\ \/ /\ OpenIntents = {} /\ ~rows[i].used
          /\ rows' = [rows EXCEPT ![i] =
                 [used |-> TRUE, status |-> "none", consumed |-> FALSE, expired |-> FALSE, doubt |-> FALSE,
                  action |-> prep.action, expected |-> prep.expected, nonce |-> prep.nonce]]
       \/ OpenIntents # {} /\ UNCHANGED rows
    /\ UNCHANGED <<chain, events, goal, send, outside, safeQueue, executed, round, attempts>>

ExpireAction(i) ==
    /\ rows[i].used /\ ~rows[i].consumed /\ ~rows[i].expired
    /\ rows' = [rows EXCEPT ![i].expired = TRUE]
    /\ UNCHANGED <<chain, events, goal, prep, send, outside, safeQueue, executed, round, attempts>>

-----------------------------------------------------------------------------
(* submitSafeGoalAction.                                                    *)

GoalUnchanged(i) == rows[i].expected = Expected /\ ~Overdue

CheckAction(i) ==
    /\ send[i] = "idle"
    /\ attempts < MaxAttempts
    /\ rows[i].used
    /\ \/ rows[i].status = "none" /\ ~rows[i].expired /\ rows[i].nonce = NextActionNonce
       \/ rows[i].status = "SUBMITTING"
    /\ GoalUnchanged(i)
    /\ send' = [send EXCEPT ![i] = "checked"]
    /\ attempts' = attempts + 1
    /\ UNCHANGED <<chain, events, goal, rows, prep, outside, safeQueue, executed, round>>

\* Fault: the claim does not look at consumedAt.
ClaimConsumed(i) == rows[i].status = "none" /\ ~rows[i].expired

Claimable(i) == rows[i].status = "none" /\ ~rows[i].expired /\ ~rows[i].consumed

ClaimAction(i) ==
    /\ send[i] = "checked"
    /\ IF Claimable(i)
       THEN /\ rows' = [rows EXCEPT ![i].status = "SUBMITTING", ![i].consumed = TRUE]
            /\ send' = [send EXCEPT ![i] = "proposing"]
       ELSE /\ send' = [send EXCEPT ![i] = IF rows[i].status = "SUBMITTING" THEN "proposing" ELSE "idle"]
            /\ UNCHANGED rows
    /\ UNCHANGED <<chain, events, goal, prep, outside, safeQueue, executed, round, attempts>>

(* safe.propose: accepted, refused, or accepted with a lost answer.         *)
ProposeAction(i) ==
    /\ send[i] = "proposing"
    /\ \/ /\ rows[i].nonce >= Len(executed) \/ i \in safeQueue
          /\ safeQueue' = safeQueue \union {i}
          /\ \E answer \in {"accepted", "failed"} : send' = [send EXCEPT ![i] = answer]
       \/ send' = [send EXCEPT ![i] = "failed"] /\ UNCHANGED safeQueue
    /\ UNCHANGED <<chain, events, goal, rows, prep, outside, executed, round, attempts>>

RecordAction(i) ==
    /\ send[i] \in {"accepted", "failed"}
    /\ send' = [send EXCEPT ![i] = "idle"]
    /\ rows' = IF rows[i].status # "SUBMITTING" THEN rows
               ELSE IF send[i] = "accepted"
               THEN [rows EXCEPT ![i].status = "AWAITING", ![i].doubt = FALSE]
               ELSE [rows EXCEPT ![i].doubt = TRUE]
    /\ UNCHANGED <<chain, events, goal, prep, outside, safeQueue, executed, round, attempts>>

-----------------------------------------------------------------------------
(* syncSafeGoalActionProposals.                                             *)

BeginRound ==
    /\ round = Idle
    /\ ActiveRows # {}
    /\ round' = [pc |-> "run", nonce |-> Len(executed), left |-> ActiveRows]
    /\ UNCHANGED <<chain, events, goal, rows, prep, send, outside, safeQueue, executed, attempts>>

EndRound ==
    /\ round # Idle /\ round.left = {}
    /\ round' = Idle
    /\ UNCHANGED <<chain, events, goal, rows, prep, send, outside, safeQueue, executed, attempts>>

(* applyStatusUpdate: only a pending proposal changes.                      *)
StoreStatus(i, status, doubt) ==
    /\ round' = [round EXCEPT !.left = @ \ {i}]
    /\ rows' = IF rows[i].status \in PendingActions
               THEN [rows EXCEPT ![i].status = status, ![i].doubt = doubt] ELSE rows
    /\ UNCHANGED <<chain, events, goal, prep, send, outside, safeQueue, executed, attempts>>

\* Fault: an executed transaction is taken for a successful one.
StatusWithoutSuccess(i) ==
    LET at == executed[rows[i].nonce + 1] IN IF at.by = i THEN "EXECUTED" ELSE "STALE"

(* classifySafeProposal of what was executed at the proposal's nonce.       *)
StatusAtNonce(i) ==
    LET at == executed[rows[i].nonce + 1]
    IN  IF at.by = i THEN IF at.ok THEN "EXECUTED" ELSE "FAILED" ELSE "STALE"

\* Fault: a proposal behind the Safe's nonce is not looked up any further.
FollowQueuedOnly(i) ==
    /\ round # Idle /\ i \in round.left
    /\ StoreStatus(i, IF rows[i].nonce < Len(executed) /\ executed[rows[i].nonce + 1].by = i
                      THEN StatusAtNonce(i) ELSE rows[i].status, rows[i].doubt)

(* The service knows the proposal and what was executed at its nonce.       *)
FollowAction(i) ==
    /\ round # Idle /\ i \in round.left
    /\ \/ /\ i \in safeQueue
          /\ IF rows[i].nonce < Len(executed) /\ (executed[rows[i].nonce + 1].by = i \/ rows[i].nonce < round.nonce)
             THEN StoreStatus(i, StatusAtNonce(i), FALSE)
             ELSE StoreStatus(i, "AWAITING", FALSE)
       \/ /\ i \notin safeQueue
          /\ rows[i].status = "SUBMITTING"
          /\ StoreStatus(i, IF rows[i].nonce < Len(executed) THEN "STALE" ELSE "FAILED", TRUE)

(* A failed lookup, a young submission, or an execution not yet indexed by  *)
(* the service.                                                             *)
ActionUnavailable(i) ==
    /\ round # Idle /\ i \in round.left
    /\ StoreStatus(i, rows[i].status, TRUE)

-----------------------------------------------------------------------------
(* The indexer.                                                             *)

EligibleRows(action) == {i \in ActiveRows : rows[i].action = action}

(* confirmSafeGoalAction: the only eligible proposal is credited.           *)
CreditedRows(event) ==
    IF Cardinality(EligibleRows(event)) = 1
    THEN [i \in MonthlyIntents |-> IF i \in EligibleRows(event)
                                   THEN [rows[i] EXCEPT !.status = "EXECUTED"] ELSE rows[i]]
    ELSE rows

GoalAfter(event) ==
    LET g == [goal EXCEPT !.cursor = @ + 1]
    IN  CASE event \in Policies -> [g EXCEPT !.policy = event]
          [] event = "STOP" -> [g EXCEPT !.stopping = TRUE]
          [] event \in {"CANCEL", "CLOSE"} -> [g EXCEPT !.open = FALSE]
          [] event = "SETTLED" -> [g EXCEPT !.period = @ + 1]

IndexGoalEvent ==
    /\ goal.cursor < Len(events)
    /\ LET event == events[goal.cursor + 1]
       IN  /\ goal' = GoalAfter(event)
           /\ rows' = IF event \in MonthlyKinds /\ chain.monthly THEN CreditedRows(event) ELSE rows
    /\ UNCHANGED <<chain, events, prep, send, outside, safeQueue, executed, round, attempts>>

-----------------------------------------------------------------------------
MonthlyNext ==
    \/ Elapse \/ SettlePeriod
    \/ \E c \in outside : SendOutside(c)
    \/ \E action \in MonthlyKinds \union {"CLOSE"} :
          \/ PrepareDirectCall(action)
          \/ \E manual \in BOOLEAN : PrepareForSafe(action, manual)
    \/ \E absent \in BOOLEAN : ExportAction(absent)
    \/ FindActive \/ ReadActionNonce
    \/ \E i \in MonthlyIntents :
          \/ CreateAction(i) \/ ExpireAction(i)
          \/ CheckAction(i) \/ ClaimAction(i) \/ ProposeAction(i) \/ RecordAction(i)
          \/ ExecuteAction(i)
          \/ FollowAction(i) \/ ActionUnavailable(i)
    \/ BeginRound \/ EndRound \/ IndexGoalEvent

MonthlySpec == MonthlyInit /\ [][MonthlyNext]_maVars

(* The worker's rounds repeat, and a lookup that keeps being made succeeds. *)
MonthlyFairness ==
    /\ WF_maVars(BeginRound) /\ WF_maVars(EndRound)
    /\ \A i \in MonthlyIntents : SF_maVars(FollowAction(i))

-----------------------------------------------------------------------------
(* An EXECUTED proposal had its effect on the goal, although a reverted     *)
(* Safe transaction, an identical call of the controller and an export all  *)
(* reach its row.                                                           *)
ExecutedActionTookEffect ==
    \A i \in MonthlyIntents :
        rows[i].status = "EXECUTED" => \E n \in DOMAIN events : events[n] = rows[i].action

(* An intent that a manual export or its expiry retired is not submitted    *)
(* any more, also by a request that was checked before: the export and the  *)
(* proposal would be signed side by side.                                   *)
RetiredIntentsStayRetired ==
    [][\A i \in MonthlyIntents :
          rows[i].consumed /\ rows[i].status = "none" => rows'[i].status = "none"]_maVars

(* A proposal whose Safe nonce is spent leaves the pending statuses.        *)
SpentActionEnds ==
    \A i \in MonthlyIntents :
        (i \in ActiveRows /\ rows[i].nonce < Len(executed)) ~> i \notin ActiveRows
=============================================================================
