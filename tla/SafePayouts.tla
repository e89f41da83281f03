----------------------------- MODULE SafePayouts -----------------------------
(***************************************************************************)
(* Payouts of collected funds through the owning Safe.                     *)
(*                                                                         *)
(* Four parties work on the same tables without a common lock: the admin   *)
(* API (createSafePayoutIntent, submitSafePayoutProposal,                  *)
(* cancelManualSafePayout), the Safe sync job (syncSafePayoutProposals),   *)
(* the escrow indexer (the ExpenseReleased / CancelledFundsReleased        *)
(* handler, resetChainProjection) and, outside the program, the owners     *)
(* who execute Safe transactions.  The API and the sync job talk to the    *)
(* Safe Transaction Service, which holds the queue and learns of           *)
(* executions with a delay.                                                *)
(*                                                                         *)
(* A payout p stands for the Payout row, its SafePayoutIntent and, once    *)
(* submitted, its SafePayoutProposal.  Its key stands for the goal, asset, *)
(* kind and amount: two payouts with one key are indistinguishable to the  *)
(* event handler.  A Safe nonce n is spent by the transaction spent[n+1],  *)
(* whose index also serves as its chain transaction hash.                  *)
(*                                                                         *)
(* prop[p].late is no column: it remembers that the proposal reached the   *)
(* service only after the fifteen minutes the sync job gives it.           *)
(***************************************************************************)
EXTENDS Integers, Sequences, FiniteSets

CONSTANTS
    Ids,          \* payouts the API can create
    Keys,         \* (goal, asset, kind, amount) of a payout
    Requests,     \* createSafePayoutIntent calls, each made once
    Deliveries,   \* the deliveries the operators ask for
    Entitlement,  \* payouts of one key the escrow contract can release
    MaxNonce,     \* bound: Safe transactions executed
    MaxOutside,   \* bound: those prepared outside the application
    MaxResets     \* bound: projection resets

ASSUME PayoutAssumption ==
    /\ Deliveries \subseteq {"SERVICE", "MANUAL"}
    /\ {Entitlement, MaxNonce, MaxOutside, MaxResets} \subseteq Nat
    /\ "outside" \notin Ids /\ "no release" \notin Keys

VARIABLES
    payout,   \* Payout rows with an intent: status, key, chainTxHash
    intent,   \* SafePayoutIntent: delivery, safeNonce, expiry, consumedAt
    prop,     \* SafePayoutProposal: status, nonce, executionTxHash, reason, age, late
    rows,     \* Payout rows without an intent, EXECUTED, by chainTxHash
    create,   \* createSafePayoutIntent calls between their awaits
    submit,   \* submitSafePayoutProposal calls, one at a time for a payout
    sync,     \* the sync pass
    handler,  \* the event handler between its reads and its writes
    cursor,   \* Safe transactions whose events are indexed
    goals,    \* has the goal's own history been indexed (since the last reset)?
    spent,    \* Safe transactions executed on chain, by nonce
    seen,     \* how many of them the Transaction Service knows
    queue,    \* own Safe transactions the Transaction Service holds
    resets

vars == <<payout, intent, prop, rows, create, submit, sync, handler, cursor,
          goals, spent, seen, queue, resets>>
chain == <<spent, seen, resets>>

Outside == "outside"   \* a Safe transaction not prepared by the application
NoKey == "no release"  \* an execution that releases nothing

Pending == {"SUBMITTING", "AWAITING"}  \* AWAITING: also READY_TO_EXECUTE
Absent(p) == payout[p].st = "NONE"
Unconsumed(int) == {p \in Ids : payout[p].st # "NONE" /\ ~int[p].consumed}
Released(k) == Cardinality({i \in DOMAIN spent : spent[i].key = k})

Idle == [pc |-> "idle"]
Ended == [pc |-> "ended"]
NoProposal == [st |-> "NONE", nonce |-> 0, exec |-> 0, reason |-> FALSE,
               aged |-> FALSE, late |-> FALSE]

Init ==
    /\ payout = [p \in Ids |-> [st |-> "NONE", key |-> NoKey, tx |-> 0]]
    /\ intent = [p \in Ids |-> [delivery |-> "SERVICE", nonce |-> 0,
                                due |-> FALSE, consumed |-> FALSE]]
    /\ prop = [p \in Ids |-> NoProposal]
    /\ rows = {}
    /\ create = [r \in Requests |-> Idle]
    /\ submit = [p \in Ids |-> "idle"]
    /\ sync = Idle
    /\ handler = Idle
    /\ cursor = 0
    /\ goals = TRUE
    /\ spent = <<>>
    /\ seen = 0
    /\ queue = {}
    /\ resets = 0

-----------------------------------------------------------------------------
(* expireUnconsumedSafePayoutIntents: the claim on consumedAt decides       *)
(* between an expiry and a concurrent submission.                           *)

\* Fault: only an intent with a proposal expires.
ExpirableSubmitted ==
    {p \in Ids : /\ payout[p].st = "PROPOSED"
                 /\ intent[p].delivery = "SERVICE"
                 /\ ~intent[p].consumed
                 /\ intent[p].due
                 /\ prop[p].st # "NONE"}

Expirable ==
    {p \in Ids : /\ payout[p].st = "PROPOSED"
                 /\ intent[p].delivery = "SERVICE"
                 /\ ~intent[p].consumed
                 /\ intent[p].due
                 /\ prop[p].st = "NONE"}

ExpiredPayouts ==
    [p \in Ids |-> IF p \in Expirable
                   THEN [payout[p] EXCEPT !.st = "FAILED"] ELSE payout[p]]

ExpiredIntents ==
    [p \in Ids |-> IF p \in Expirable
                   THEN [intent[p] EXCEPT !.consumed = TRUE] ELSE intent[p]]

(* The expiry on its own: a list request, or a create call that stops there. *)
ExpireAbandonedSafeIntents ==
    /\ Expirable # {}
    /\ payout' = ExpiredPayouts
    /\ intent' = ExpiredIntents
    /\ UNCHANGED <<prop, rows, create, submit, sync, handler, cursor, goals, queue, chain>>

-----------------------------------------------------------------------------
(* The Safe Transaction Service, the Safe and its owners.                   *)

\* Fault: behind the last proposal of the database, wherever it got to.
NextNonceOfRows ==
    LET queued == {prop[p].nonce + 1 : p \in {q \in Ids : /\ prop[q].st # "NONE"
                                                         /\ prop[q].nonce >= Len(spent)}}
    IN  CHOOSE n \in queued \union {Len(spent)} :
            \A m \in queued \union {Len(spent)} : m <= n

(* getNextNonce: behind the last transaction queued or executed.            *)
NextNonce ==
    LET queued == {prop[p].nonce + 1 : p \in {q \in queue : prop[q].nonce >= Len(spent)}}
    IN  CHOOSE n \in queued \union {Len(spent)} :
            \A m \in queued \union {Len(spent)} : m <= n

(* The owners execute a queued Safe transaction; the escrow contract        *)
(* releases the funds when the entitlement allows it.                       *)
ExecuteQueued(p) ==
    /\ p \in queue
    /\ prop[p].nonce = Len(spent)
    /\ Len(spent) < MaxNonce
    /\ \/ /\ Released(payout[p].key) < Entitlement
          /\ spent' = Append(spent, [by |-> p, key |-> payout[p].key])
       \/ spent' = Append(spent, [by |-> p, key |-> NoKey])
    /\ UNCHANGED <<payout, intent, prop, rows, create, submit, sync, handler,
                   cursor, goals, seen, queue, resets>>

(* The owners execute a transaction of their own at the next nonce: an      *)
(* exported manual payout, another release, or anything else.               *)
ExecuteOutside(k) ==
    /\ Len(spent) < MaxNonce
    /\ Cardinality({i \in DOMAIN spent : spent[i].by = Outside}) < MaxOutside
    /\ k # NoKey => Released(k) < Entitlement
    /\ spent' = Append(spent, [by |-> Outside, key |-> k])
    /\ UNCHANGED <<payout, intent, prop, rows, create, submit, sync, handler,
                   cursor, goals, seen, queue, resets>>

(* The service indexes one more execution.                                  *)
ServiceObserves ==
    /\ seen < Len(spent)
    /\ seen' = seen + 1
    /\ UNCHANGED <<payout, intent, prop, rows, create, submit, sync, handler,
                   cursor, goals, spent, queue, resets>>

(* Ten minutes pass: an intent's expiresAt is reached.                      *)
IntentFallsDue(p) ==
    /\ p \in Unconsumed(intent)
    /\ intent[p].delivery = "SERVICE"
    /\ ~intent[p].due
    /\ intent' = [intent EXCEPT ![p].due = TRUE]
    /\ UNCHANGED <<payout, prop, rows, create, submit, sync, handler, cursor,
                   goals, queue, chain>>

(* Fifteen minutes pass since a proposal was created.                       *)
ProposalAges(p) ==
    /\ prop[p].st = "SUBMITTING"
    /\ ~prop[p].aged
    /\ prop' = [prop EXCEPT ![p].aged = TRUE]
    /\ UNCHANGED <<payout, intent, rows, create, submit, sync, handler, cursor,
                   goals, queue, chain>>

-----------------------------------------------------------------------------
(* createSafePayoutIntent: each read is an await of its own, and nothing    *)
(* but the unique index looks again at what the earlier ones found.         *)

(* An intent that is prepared, exported, or has a pending proposal.         *)
Active(p, statuses) ==
    /\ payout[p].st = "PROPOSED"
    /\ \/ intent[p].delivery = "MANUAL"
       \/ ~intent[p].consumed /\ ~intent[p].due
       \/ prop[p].st \in statuses

(* assertManualReplacementAllowed: a queued proposal is never duplicated,   *)
(* an uncertain one only after the operator has looked at the Safe queue.   *)
ManualReplacementAllowed(p) ==
    \/ prop[p].st \notin Pending
    \/ prop[p].st = "SUBMITTING" /\ prop[p].reason /\ p \notin queue

(* What is released or reserved of the entitlement already.                 *)
Allocated(k) ==
    Cardinality({p \in Ids : /\ payout[p].key = k
                             /\ payout[p].st \in {"PROPOSED", "EXECUTED"}})
    + Cardinality({i \in rows : spent[i].key = k})

(* The call goes on with its next await, or it ends with an error.          *)
Proceeds(r, ok, pc) ==
    create' = [create EXCEPT ![r] = IF ok THEN [@ EXCEPT !.pc = pc] ELSE Ended]

(* The call begins; it expires what was abandoned.                          *)
BeginCreate(r, k, d) ==
    /\ create[r] = Idle
    /\ create' = [create EXCEPT ![r] = [pc |-> "active", key |-> k, delivery |-> d]]
    /\ payout' = ExpiredPayouts
    /\ intent' = ExpiredIntents
    /\ UNCHANGED <<prop, rows, submit, sync, handler, cursor, goals, queue, chain>>

(* A payout of this key that is active already: exported again, replaced by *)
(* a manual one, or the reason to refuse.                                   *)
FindActive(r) ==
    LET active == {p \in Ids : payout[p].key = create[r].key /\ Active(p, Pending)}
    IN  /\ create[r].pc = "active"
        /\ \/ /\ active = {}
              /\ Proceeds(r, TRUE, "blocking")
           \/ \E p \in active :
                 create' = [create EXCEPT ![r] =
                     IF /\ create[r].delivery = "MANUAL"
                        /\ intent[p].delivery = "SERVICE"
                        /\ ManualReplacementAllowed(p)
                     THEN [pc |-> "replace", p |-> p, proposal |-> prop[p].st # "NONE"]
                     ELSE Ended]
        /\ UNCHANGED <<payout, intent, prop, rows, submit, sync, handler, cursor,
                       goals, queue, chain>>

(* Any payout of the Safe that is being prepared or submitted blocks.       *)
FindBlocking(r) ==
    /\ create[r].pc = "blocking"
    /\ Proceeds(r, \A p \in Ids : ~Active(p, {"SUBMITTING"}), "goal")
    /\ UNCHANGED <<payout, intent, prop, rows, submit, sync, handler, cursor,
                   goals, queue, chain>>

(* The goal with its payouts: is so much of the entitlement left?           *)
ReadGoal(r) ==
    /\ create[r].pc = "goal"
    /\ Proceeds(r, goals /\ Allocated(create[r].key) < Entitlement, "nonce")
    /\ UNCHANGED <<payout, intent, prop, rows, submit, sync, handler, cursor,
                   goals, queue, chain>>

(* The nonce a SERVICE payout is prepared for.                              *)
ReadNonce(r) ==
    /\ create[r].pc = "nonce"
    /\ create' = [create EXCEPT ![r] =
           [pc |-> "insert", key |-> create[r].key, delivery |-> create[r].delivery,
            nonce |-> IF create[r].delivery = "SERVICE" THEN NextNonce ELSE 0]]
    /\ UNCHANGED <<payout, intent, prop, rows, submit, sync, handler, cursor,
                   goals, queue, chain>>

(* The transaction that hands a prepared payout over to manual execution;   *)
(* it looks again at the proposal it has read, and at nothing else.         *)
ReplaceIntent(r) ==
    /\ create[r].pc = "replace"
    /\ create' = [create EXCEPT ![r] = Ended]
    /\ LET p == create[r].p
       IN  IF (create[r].proposal => prop[p].st = "SUBMITTING")
              /\ Unconsumed(intent) \subseteq {p}
           THEN /\ intent' = [intent EXCEPT ![p] = [delivery |-> "MANUAL", nonce |-> 0,
                                                    due |-> FALSE, consumed |-> FALSE]]
                /\ prop' = IF create[r].proposal
                           THEN [prop EXCEPT ![p].st = "STALE", ![p].reason = TRUE]
                           ELSE prop
           ELSE UNCHANGED <<intent, prop>>
    /\ UNCHANGED <<payout, rows, submit, sync, handler, cursor, goals, queue, chain>>

(* The transaction that creates payout and intent; the unique index on      *)
(* unconsumed intents of a Safe rejects a second one.                       *)
InsertIntent(r) ==
    /\ create[r].pc = "insert"
    /\ create' = [create EXCEPT ![r] = Ended]
    /\ \/ /\ Unconsumed(intent) = {}
          /\ \E p \in Ids :
                /\ Absent(p)
                /\ payout' = [payout EXCEPT ![p] = [st |-> "PROPOSED", tx |-> 0,
                                                    key |-> create[r].key]]
                /\ intent' = [intent EXCEPT ![p].delivery = create[r].delivery,
                                            ![p].nonce = create[r].nonce]
       \/ /\ Unconsumed(intent) # {} \/ \A p \in Ids : ~Absent(p)
          /\ UNCHANGED <<payout, intent>>
    /\ UNCHANGED <<prop, rows, submit, sync, handler, cursor, goals, queue, chain>>

(* cancelManualSafePayout.                                                  *)
CancelManual(p) ==
    /\ payout[p].st = "PROPOSED"
    /\ intent[p].delivery = "MANUAL"
    /\ payout' = [payout EXCEPT ![p].st = "FAILED"]
    /\ intent' = [intent EXCEPT ![p].consumed = TRUE]
    /\ UNCHANGED <<prop, rows, create, submit, sync, handler, cursor, goals, queue, chain>>

-----------------------------------------------------------------------------
(* submitSafePayoutProposal.                                                *)

(* The intent is read and checked.  A signed proposal that is SUBMITTING    *)
(* may be sent again at any time; a first one goes on to the Safe's nonce,  *)
(* or, when it comes too late, expires what is due and is refused.          *)
BeginSubmit(p) ==
    /\ submit[p] = "idle"
    /\ payout[p].st = "PROPOSED"
    /\ intent[p].delivery = "SERVICE"
    /\ \/ /\ prop[p].st = "SUBMITTING"
          /\ submit' = [submit EXCEPT ![p] = "proposing"]
          /\ UNCHANGED <<payout, intent>>
       \/ /\ prop[p].st = "NONE" /\ ~intent[p].due
          /\ submit' = [submit EXCEPT ![p] = "nonce"]
          /\ UNCHANGED <<payout, intent>>
       \/ /\ prop[p].st = "NONE" /\ intent[p].due
          /\ payout' = ExpiredPayouts
          /\ intent' = ExpiredIntents
          /\ UNCHANGED submit
    /\ UNCHANGED <<prop, rows, create, sync, handler, cursor, goals, queue, chain>>

(* Is the nonce still the Safe's next one?                                  *)
CheckNonce(p) ==
    /\ submit[p] = "nonce"
    /\ submit' = [submit EXCEPT ![p] = IF NextNonce = intent[p].nonce
                                       THEN "claiming" ELSE "idle"]
    /\ UNCHANGED <<payout, intent, prop, rows, create, sync, handler, cursor,
                   goals, queue, chain>>

(* The transaction that claims the intent and creates the proposal; with    *)
(* one call at a time, no other call has created one when the claim fails.  *)
ClaimIntent(p) ==
    /\ submit[p] = "claiming"
    /\ IF /\ payout[p].st = "PROPOSED"
          /\ intent[p].delivery = "SERVICE"
          /\ ~intent[p].consumed
          /\ ~intent[p].due
       THEN /\ intent' = [intent EXCEPT ![p].consumed = TRUE]
            /\ prop' = [prop EXCEPT ![p] = [NoProposal EXCEPT
                            !.st = "SUBMITTING", !.nonce = intent[p].nonce]]
            /\ submit' = [submit EXCEPT ![p] = "proposing"]
       ELSE /\ submit' = [submit EXCEPT ![p] = "idle"]
            /\ UNCHANGED <<intent, prop>>
    /\ UNCHANGED <<payout, rows, create, sync, handler, cursor, goals, queue, chain>>

(* The service takes a proposal whose nonce is not spent.                   *)
Propose(p) ==
    /\ submit[p] = "proposing"
    /\ prop[p].nonce >= Len(spent) \/ p \in queue
    /\ queue' = queue \union {p}
    /\ submit' = [submit EXCEPT ![p] = "accepted"]
    /\ prop' = [prop EXCEPT ![p].late = @ \/ (prop[p].aged /\ p \notin queue)]
    /\ UNCHANGED <<payout, intent, rows, create, sync, handler, cursor, goals, chain>>

(* safe.propose fails: the proposal was rejected or its answer was lost and *)
(* the lookup that follows failed too.                                      *)
ProposeFails(p) ==
    /\ submit[p] \in {"proposing", "accepted"}
    /\ submit' = [submit EXCEPT ![p] = "idle"]
    /\ prop' = IF prop[p].st = "SUBMITTING"
               THEN [prop EXCEPT ![p].reason = TRUE] ELSE prop
    /\ UNCHANGED <<payout, intent, rows, create, sync, handler, cursor, goals, queue, chain>>

(* The API process dies around the call: nothing records its outcome.       *)
SubmitDies(p) ==
    /\ submit[p] # "idle"
    /\ submit' = [submit EXCEPT ![p] = "idle"]
    /\ UNCHANGED <<payout, intent, prop, rows, create, sync, handler, cursor,
                   goals, queue, chain>>

(* The transaction after a successful safe.propose.                         *)
SubmitDone(p) ==
    /\ submit[p] = "accepted"
    /\ submit' = [submit EXCEPT ![p] = "idle"]
    /\ prop' = IF prop[p].st = "SUBMITTING"
               THEN [prop EXCEPT ![p].st = "AWAITING", ![p].reason = FALSE] ELSE prop
    /\ UNCHANGED <<payout, intent, rows, create, sync, handler, cursor, goals, queue, chain>>

-----------------------------------------------------------------------------
(* syncSafePayoutProposals: expire intents, reconcile executed proposals    *)
(* whose payout is still PROPOSED, then look up every pending proposal.     *)

(* reconcileConfirmedSafePayout: the intent-less row with this release.     *)
ConfirmedProjection(p, tx) ==
    IF tx \in rows /\ spent[tx].key = payout[p].key THEN tx ELSE 0

SyncBegin ==
    /\ sync = Idle
    /\ payout' = ExpiredPayouts
    /\ intent' = ExpiredIntents
    /\ sync' = [pc |-> "reconcile",
                todo |-> {p \in Ids : /\ prop[p].st = "EXECUTED"
                                      /\ prop[p].exec # 0
                                      /\ ExpiredPayouts[p].st = "PROPOSED"}]
    /\ UNCHANGED <<prop, rows, create, submit, handler, cursor, goals, queue, chain>>

(* The transaction of an executed proposal whose payout lags: its read.     *)
ReconcileFind(p) ==
    /\ sync.pc = "reconcile"
    /\ p \in sync.todo
    /\ sync' = [pc |-> "reconciling", todo |-> sync.todo \ {p}, p |-> p,
                tx |-> prop[p].exec, row |-> ConfirmedProjection(p, prop[p].exec)]
    /\ UNCHANGED <<payout, intent, prop, rows, create, submit, handler, cursor,
                   goals, queue, chain>>

(* What the rest of reconcileConfirmedSafePayout does with the row it read: *)
(* nothing without one or when the payout has moved on; it fails, and its   *)
(* transaction rolls back, when the row is gone.                            *)
Promotes(p, row) == row # 0 /\ payout[p].st = "PROPOSED"

\* Fault: the row is read and used without noticing that it is gone.
RowGoneIgnored(p, row) == FALSE

RowGone(p, row) == Promotes(p, row) /\ row \notin rows

ReconcileCommit ==
    /\ sync.pc = "reconciling"
    /\ IF Promotes(sync.p, sync.row) /\ ~RowGone(sync.p, sync.row)
       THEN /\ payout' = [payout EXCEPT ![sync.p].st = "EXECUTED",
                                        ![sync.p].tx = sync.tx]
            /\ rows' = rows \ {sync.row}
       ELSE UNCHANGED <<payout, rows>>
    /\ sync' = IF RowGone(sync.p, sync.row) THEN Idle
               ELSE [pc |-> "reconcile", todo |-> sync.todo]
    /\ UNCHANGED <<intent, prop, create, submit, handler, cursor, goals, queue, chain>>

(* The list of pending proposals and the Safe's nonce.                      *)
SyncPending ==
    /\ sync.pc = "reconcile"
    /\ sync.todo = {}
    /\ LET pending == {p \in Ids : prop[p].st \in Pending}
       IN  sync' = IF pending = {} THEN Idle
                   ELSE [pc |-> "pass", todo |-> pending, nonce |-> Len(spent)]
    /\ UNCHANGED <<payout, intent, prop, rows, create, submit, handler, cursor,
                   goals, queue, chain>>

(* The service's knowledge of the transaction that spent nonce n.           *)
KnownAt(n) == IF n < seen THEN {spent[n + 1]} ELSE {}

\* Fault: an advanced nonce counts as proof of a replacement.
ClassifyByNonce(p, nonce, known) ==
    IF prop[p].nonce < nonce THEN [st |-> "STALE", exec |-> 0, reason |-> TRUE]
    ELSE [st |-> "AWAITING", exec |-> 0, reason |-> FALSE]

(* classifySafeProposal on the transaction the service returned, with       *)
(* resolveSafeTransaction's proof of a replacement.                         *)
Classify(p, nonce, known) ==
    LET own == \E t \in KnownAt(prop[p].nonce) : t.by = p
        replaced == \E t \in KnownAt(prop[p].nonce) : t.by # p
        tx == prop[p].nonce + 1
    IN  CASE own /\ ~known -> [st |-> "AWAITING", exec |-> tx, reason |-> TRUE]
          [] own /\ known /\ spent[tx].key # NoKey ->
                [st |-> "EXECUTED", exec |-> tx, reason |-> FALSE]
          [] own /\ known /\ spent[tx].key = NoKey ->
                [st |-> "FAILED", exec |-> tx, reason |-> TRUE]
          [] replaced /\ prop[p].nonce < nonce ->
                [st |-> "STALE", exec |-> 0, reason |-> TRUE]
          [] OTHER -> [st |-> "AWAITING", exec |-> 0, reason |-> prop[p].nonce < nonce]

SyncView(p, next) ==
    sync' = [pc |-> "commit", todo |-> sync.todo \ {p}, nonce |-> sync.nonce, p |-> p,
             next |-> next, row |-> IF next.st = "EXECUTED"
                                    THEN ConfirmedProjection(p, next.exec) ELSE 0]

(* getTransaction answers; the success of an execution may not be known.    *)
SyncRead(p, known) ==
    /\ sync.pc = "pass"
    /\ p \in sync.todo
    /\ p \in queue
    /\ SyncView(p, Classify(p, sync.nonce, known))
    /\ UNCHANGED <<payout, intent, prop, rows, create, submit, handler, cursor,
                   goals, queue, chain>>

(* getTransaction fails: with 404 on an old submission the job goes on to   *)
(* look at the nonce, otherwise it notes a reason.                          *)
SyncFails(p) ==
    /\ sync.pc = "pass"
    /\ p \in sync.todo
    /\ \/ /\ p \notin queue
          /\ prop[p].st = "SUBMITTING"
          /\ prop[p].aged
          /\ sync' = [pc |-> "missing", todo |-> sync.todo \ {p},
                      nonce |-> sync.nonce, p |-> p]
          /\ UNCHANGED prop
       \/ /\ sync' = [sync EXCEPT !.todo = @ \ {p}]
          /\ prop' = IF prop[p].st \in Pending
                     THEN [prop EXCEPT ![p].reason = TRUE] ELSE prop
    /\ UNCHANGED <<payout, intent, rows, create, submit, handler, cursor,
                   goals, queue, chain>>

(* The transactions at the nonce: the proposal after all, a replacement, or *)
(* nothing (classifyMissingSafeSubmission).                                 *)
SyncMissing ==
    /\ sync.pc = "missing"
    /\ LET p == sync.p
       IN  SyncView(p,
             IF \E t \in KnownAt(prop[p].nonce) : t.by # p
             THEN [st |-> "STALE", exec |-> prop[p].exec, reason |-> TRUE]
             ELSE IF p \in queue THEN Classify(p, sync.nonce, TRUE)
             ELSE IF prop[p].nonce < sync.nonce
             THEN [st |-> "SUBMITTING", exec |-> prop[p].exec, reason |-> TRUE]
             ELSE [st |-> "FAILED", exec |-> prop[p].exec, reason |-> TRUE])
    /\ UNCHANGED <<payout, intent, prop, rows, create, submit, handler, cursor,
                   goals, queue, chain>>

(* applyPendingSafeProposalUpdate: only a pending proposal changes.         *)
StillPending(p) == prop[p].st \in Pending

(* The transaction of one pending proposal: its update, the failure of its  *)
(* payout, the promotion of a payout whose release is already projected.    *)
SyncCommit ==
    /\ sync.pc = "commit"
    /\ LET p == sync.p
           next == sync.next
       IN  /\ prop' = IF ~StillPending(p) THEN prop
                      ELSE IF RowGone(p, sync.row) THEN [prop EXCEPT ![p].reason = TRUE]
                      ELSE [prop EXCEPT ![p].st = next.st, ![p].exec = next.exec,
                                        ![p].reason = next.reason]
           /\ payout' = IF ~StillPending(p) \/ payout[p].st # "PROPOSED" THEN payout
                        ELSE IF next.st \in {"FAILED", "STALE"}
                        THEN [payout EXCEPT ![p].st = "FAILED"]
                        ELSE IF sync.row # 0 /\ ~RowGone(p, sync.row)
                        THEN [payout EXCEPT ![p].st = "EXECUTED", ![p].tx = sync.row]
                        ELSE payout
           /\ rows' = IF StillPending(p) /\ Promotes(p, sync.row)
                      THEN rows \ {sync.row} ELSE rows
    /\ sync' = [pc |-> "pass", todo |-> sync.todo, nonce |-> sync.nonce]
    /\ UNCHANGED <<intent, create, submit, handler, cursor, goals, queue, chain>>

SyncEnd ==
    /\ sync.pc = "pass"
    /\ sync.todo = {}
    /\ sync' = Idle
    /\ UNCHANGED <<payout, intent, prop, rows, create, submit, handler, cursor,
                   goals, queue, chain>>

-----------------------------------------------------------------------------
(* The escrow indexer.                                                      *)

(* The release event's candidates: by the exact transaction hash, else the  *)
(* only one there is provided it has no hash yet, else none.                *)
MatchingPayout(i) ==
    LET candidates == {p \in Ids : payout[p].st = "PROPOSED" /\ payout[p].key = spent[i].key}
        exact == {p \in candidates : prop[p].exec = i}
    IN  IF exact # {} THEN exact
        ELSE IF Cardinality(candidates) = 1
        THEN {p \in candidates : prop[p].exec = 0} ELSE {}

EventRead ==
    /\ handler = Idle
    /\ goals
    /\ cursor < Len(spent)
    /\ spent[cursor + 1].key # NoKey
    /\ LET match == MatchingPayout(cursor + 1)
       IN  \/ /\ match = {}
              /\ handler' = [pc |-> "project"]
           \/ \E p \in match :
                 handler' = [pc |-> "settle", p |-> p,
                             proposal |-> /\ intent[p].delivery = "SERVICE"
                                          /\ prop[p].st # "NONE",
                             manual |-> intent[p].delivery = "MANUAL"]
    /\ UNCHANGED <<payout, intent, prop, rows, create, submit, sync, cursor,
                   goals, queue, chain>>

(* The writes, by row id: they do not look at the status again.             *)
EventWrite ==
    /\ handler # Idle
    /\ cursor' = cursor + 1
    /\ handler' = Idle
    /\ \/ /\ handler.pc = "project"
          /\ rows' = rows \union {cursor + 1}
          /\ UNCHANGED <<payout, intent, prop>>
       \/ /\ handler.pc = "settle"
          /\ LET p == handler.p
             IN  /\ payout' = [payout EXCEPT ![p].st = "EXECUTED", ![p].tx = cursor + 1]
                 /\ prop' = IF handler.proposal
                            THEN [prop EXCEPT ![p].st = "EXECUTED", ![p].exec = cursor + 1,
                                              ![p].reason = FALSE]
                            ELSE prop
                 /\ intent' = IF handler.manual
                              THEN [intent EXCEPT ![p].consumed = TRUE] ELSE intent
          /\ UNCHANGED rows
    /\ UNCHANGED <<create, submit, sync, goals, queue, chain>>

(* Blocks without a release event; after a reset, the goal's own events.    *)
IndexOther ==
    /\ handler = Idle
    /\ \/ /\ goals
          /\ cursor < Len(spent)
          /\ spent[cursor + 1].key = NoKey
          /\ cursor' = cursor + 1
          /\ UNCHANGED goals
       \/ /\ ~goals
          /\ goals' = TRUE
          /\ UNCHANGED cursor
    /\ UNCHANGED <<payout, intent, prop, rows, create, submit, sync, handler, queue, chain>>

\* Fault: the indexer goes on from where it was.
ResetKeepingCursor ==
    /\ handler = Idle
    /\ resets < MaxResets
    /\ resets' = resets + 1
    /\ cursor' = cursor
    /\ goals' = FALSE
    /\ rows' = {}
    /\ prop' = [p \in Ids |->
                   IF prop[p].st = "EXECUTED" /\ payout[p].st = "EXECUTED"
                   THEN [prop[p] EXCEPT !.st = "SUBMITTING", !.exec = 0, !.reason = FALSE]
                   ELSE prop[p]]
    /\ payout' = [p \in Ids |->
                   IF payout[p].st = "EXECUTED"
                   THEN [payout[p] EXCEPT !.st = "PROPOSED", !.tx = 0] ELSE payout[p]]
    /\ UNCHANGED <<intent, create, submit, sync, handler, queue, spent, seen>>

(* resetChainProjection: everything derived from the chain goes; intents    *)
(* and proposals stay and wait to be matched again.                         *)
ResetChainProjection ==
    /\ handler = Idle
    /\ resets < MaxResets
    /\ resets' = resets + 1
    /\ cursor' = 0
    /\ goals' = FALSE
    /\ rows' = {}
    /\ prop' = [p \in Ids |->
                   IF prop[p].st = "EXECUTED" /\ payout[p].st = "EXECUTED"
                   THEN [prop[p] EXCEPT !.st = "SUBMITTING", !.exec = 0, !.reason = FALSE]
                   ELSE prop[p]]
    /\ payout' = [p \in Ids |->
                   IF payout[p].st = "EXECUTED"
                   THEN [payout[p] EXCEPT !.st = "PROPOSED", !.tx = 0] ELSE payout[p]]
    /\ UNCHANGED <<intent, create, submit, sync, handler, queue, spent, seen>>

-----------------------------------------------------------------------------
ApiStep ==
    \/ ExpireAbandonedSafeIntents
    \/ \E r \in Requests, k \in Keys, d \in Deliveries : BeginCreate(r, k, d)
    \/ \E r \in Requests : \/ FindActive(r) \/ FindBlocking(r) \/ ReadGoal(r)
                           \/ ReadNonce(r) \/ ReplaceIntent(r) \/ InsertIntent(r)
    \/ \E p \in Ids : \/ CancelManual(p) \/ BeginSubmit(p) \/ CheckNonce(p)
                      \/ ClaimIntent(p) \/ Propose(p) \/ ProposeFails(p)
                      \/ SubmitDies(p) \/ SubmitDone(p)

SyncStep ==
    \/ SyncBegin \/ ReconcileCommit \/ SyncPending \/ SyncMissing \/ SyncCommit \/ SyncEnd
    \/ \E p \in Ids : ReconcileFind(p) \/ SyncRead(p, TRUE)

SyncTrouble == \E p \in Ids : SyncRead(p, FALSE) \/ SyncFails(p)

IndexerStep == EventRead \/ EventWrite \/ IndexOther

SafeStep ==
    \/ \E p \in Ids : ExecuteQueued(p) \/ IntentFallsDue(p) \/ ProposalAges(p)
    \/ \E k \in Keys \union {NoKey} : ExecuteOutside(k)
    \/ ServiceObserves

Next == \/ ApiStep \/ SyncStep \/ SyncTrouble \/ IndexerStep
        \/ SafeStep \/ ResetChainProjection

Spec == Init /\ [][Next]_vars

(* Two schedulers run the indexer and the sync job again and again, the     *)
(* service answers and observes executions in the end, and clocks advance.  *)
(* Calls to the API end; nobody has to make one, or to execute anything.    *)
FairSpec ==
    /\ Spec
    /\ WF_vars(IndexerStep)
    /\ WF_vars(SyncStep \/ SyncTrouble)
    /\ WF_vars(ServiceObserves)
    /\ \A p \in Ids : /\ SF_vars(SyncRead(p, TRUE))
                      /\ WF_vars(IntentFallsDue(p))
                      /\ WF_vars(SubmitDone(p))

-----------------------------------------------------------------------------
(* No proposal got to the service after the sync job's fifteen minutes.     *)
OnTime == \A p \in Ids : ~prop[p].late

(* Every release the indexer has passed is exactly one EXECUTED payout, be  *)
(* it a prepared one or a row of its own, and no payout is EXECUTED without *)
(* a release: what reconcileEscrow compares with the escrow's balance.  A   *)
(* proposal sent again after it was given up can break the first half, and  *)
(* nothing else can.                                                        *)
ReleaseProjectedOnce ==
    LET as(i) == {p \in Ids : payout[p].st = "EXECUTED" /\ payout[p].tx = i}
    IN  /\ OnTime => \A i \in 1..cursor : spent[i].key # NoKey =>
              Cardinality(as(i)) + (IF i \in rows THEN 1 ELSE 0) = 1
        /\ rows \subseteq 1..cursor
        /\ \A p \in Ids : payout[p].st = "EXECUTED" =>
              payout[p].tx \in 1..cursor /\ spent[payout[p].tx].key = payout[p].key

(* A payout is given up as FAILED only if its Safe transaction has released *)
(* nothing, unless that transaction was sent again after its fifteen        *)
(* minutes; a proposal becomes STALE only if its nonce is spent by another. *)
GivenUpReleasesNothing ==
    \A p \in Ids : intent[p].delivery = "SERVICE" =>
        /\ payout[p].st = "FAILED" /\ ~prop[p].late =>
              \A i \in DOMAIN spent : spent[i].by = p => spent[i].key = NoKey
        /\ prop[p].st = "STALE" =>
              prop[p].nonce < Len(spent) /\ spent[prop[p].nonce + 1].by # p

(* No payout waits for a nonce that nobody fills: up to its own, every      *)
(* nonce the Safe has still to spend has a transaction in the queue.  So    *)
(* owners who execute the queue reach every prepared and proposed payout,   *)
(* in whatever order the calls that prepared them read, failed and retried. *)
NoNonceGap ==
    LET filled(n) == \A m \in Len(spent)..(n - 1) : \E q \in queue : prop[q].nonce = m
    IN  \A p \in Ids : filled(prop[p].nonce) /\ filled(intent[p].nonce)

(* A payout reserved for manual execution has no Safe transaction of its    *)
(* own that could still be executed.                                        *)
ManualIsNotQueued ==
    \A p \in queue : payout[p].st = "PROPOSED" /\ intent[p].delivery = "MANUAL" =>
        prop[p].nonce < Len(spent)

(* A proposal the job fails because it "did not reach the Safe Transaction  *)
(* Service" is not in that service.                                         *)
FailedDidNotReach ==
    \A p \in queue : prop[p].st = "FAILED" => prop[p].exec # 0

(* A payout whose Safe transaction released its funds becomes EXECUTED,     *)
(* unless it was made a manual one while its submission was under way, or   *)
(* was sent again after its fifteen minutes.                                *)
ReleasedPayoutSettles ==
    \A p \in Ids :
        (\E i \in DOMAIN spent : spent[i].by = p /\ spent[i].key # NoKey)
            ~> \/ payout[p].st = "EXECUTED"
               \/ intent[p].delivery = "MANUAL" \/ prop[p].late

(* A prepared payout does not hold up the Safe's other payouts for ever:    *)
(* while it waits to be paid, its intent is submitted, expires or becomes a *)
(* manual one.  (One settled by an equal release made by other means does   *)
(* hold them up: its intent is neither consumed nor expired.)               *)
PreparationEnds ==
    LET prepared(p) == p \in Unconsumed(intent) /\ intent[p].delivery = "SERVICE"
                       /\ payout[p].st = "PROPOSED"
    IN  \A p \in Ids : prepared(p) ~> ~prepared(p)
=============================================================================
