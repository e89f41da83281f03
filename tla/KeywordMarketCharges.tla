----------------------- MODULE KeywordMarketCharges -----------------------
(***************************************************************************)
(* The durable click-billing ledger and the worker pass that settles it    *)
(* (processAdChargeJob in apps/worker/src/keyword-market-charges.ts), with *)
(* the API operations that feed it.                                        *)
(*                                                                         *)
(* click, batch and run are the tables AdBillingClick, AdChargeBatch and   *)
(* AdChargeRun; auto and checkpoint are columns of AdChargeSettings.  Row  *)
(* ids are numbers in creation order.  One pass runs at a time (the queue  *)
(* has global concurrency 1); `pass' is its local state.  A pass is a      *)
(* sequence of steps between which the chain and the API move, and it may  *)
(* crash before any of them.  Error codes are kept as classes: only        *)
(* CAPTURE_PROOF_ORPHANED and WAITING_CONFIRMATION steer the code.         *)
(***************************************************************************)
EXTENDS KeywordMarketChain

CONSTANTS NClicks,         \* bound: clicks
          NRuns,           \* bound: charge runs kept at a time
          Amount,          \* amountPreRaw of each click
          ClickThreshold,  \* AdChargeSettings.clickThreshold
          InitialAuto,     \* automaticEnabled when the instance starts
          Moves            \* what the environment may do: change the setting,
                           \* request manual runs, fail RPC calls, crash passes

Clicks == 1..NClicks
Batches == 1..NClicks   \* a batch has a click of its own
Runs == 1..NRuns

ASSUME ChargeAssumption ==
  /\ NClicks \in Nat /\ NRuns \in Nat /\ ClickThreshold \in Nat \ {0}
  /\ Amount \in [Clicks -> Nat]
  /\ InitialAuto \in BOOLEAN
  /\ NoTx \notin [charge : Batches, nonce : Nat, attempt : Nat, stake : Stakes,
                  version : Nat, amount : Nat]
  /\ Moves \subseteq {"toggle", "manual", "rpc", "crash"}

VARIABLES click, batch, run, auto, checkpoint,
          jobs,   \* manual jobs waiting in the queue
          pass,   \* local state of the running pass
          sent    \* history: every charge transaction signed

dbVars == <<click, batch, run, auto, checkpoint, jobs, sent>>
vars == <<chainVars, dbVars, pass>>

Terminal == {"CONFIRMED", "PARTIAL", "UNCOLLECTABLE"}
InFlight == {"SIGNED", "SUBMITTED", "RECONCILING"}

\* What the run loop prepares and a manual run takes over.
Preparable == {"PREPARED", "FAILED"}

RecoverableRuns == {"QUEUED", "RUNNING", "BLOCKED"}
Errors == {"none", "orphaned", "other"}

NoBlock == [n |-> -1, hash |-> -1]
Unread == [n \in 0..MaxHeight |-> -1]

IdlePass ==
  [pc |-> "idle", job |-> 0, cutoff |-> 0, head |-> 0, seen |-> Unread,
   previous |-> FALSE, todo |-> {}, refresh |-> {}, runs |-> {}, run |-> 0,
   batch |-> 0, waiting |-> FALSE, blocked |-> "none", failure |-> "none",
   reply |-> "none", auto |-> FALSE, outage |-> FALSE]

Init ==
  /\ ChainInit
  /\ click = [c \in Clicks |->
       [status |-> "none", stake |-> CHOOSE s \in Stakes : TRUE, version |-> 0,
        bid |-> NoBlock, price |-> NoBlock, batch |-> 0, aged |-> FALSE]]
  /\ batch = [b \in Batches |->
       [status |-> "none", run |-> 0, stake |-> CHOOSE s \in Stakes : TRUE,
        version |-> 0, due |-> 0, charged |-> -1, nonce |-> -1, attempts |-> 0,
        receipt |-> NoBlock, error |-> "none", deferred |-> FALSE]]
  /\ run = [r \in Runs |->
       [trigger |-> "none", status |-> "none", error |-> "none", cutoff |-> -1]]
  /\ auto = InitialAuto
  /\ checkpoint = NoBlock
  /\ jobs = {}
  /\ pass = IdlePass
  /\ sent = {}

-----------------------------------------------------------------------------
(***************************************************************************)
(* Reads of the ledger.                                                    *)
(***************************************************************************)
ClicksOf(b) == {c \in Clicks : click[c].batch = b}
BatchesOf(r) == {b \in Batches : batch[b].run = r}
Claimed == Cardinality({c \in Clicks : click[c].status # "none"})
Due(cs) == MapThenSumSet(LAMBDA c : Amount[c], cs)
Transaction(b) ==
  [charge |-> b, nonce |-> batch[b].nonce, attempt |-> batch[b].attempts,
   stake |-> batch[b].stake, version |-> batch[b].version, amount |-> batch[b].due]
Signed(b) == batch[b].nonce # -1
Outstanding == {c \in Clicks : click[c].status = "PENDING" /\ click[c].batch = 0}
Groups(cs) ==
  {{d \in cs : click[d].stake = click[c].stake /\ click[d].version = click[c].version}
     : c \in cs}
ChargeGroupDue(g) == Cardinality(g) >= ClickThreshold \/ \E c \in g : click[c].aged

\* A finished run no batch refers to has no further effect: its id is reused.
FreeRuns ==
  {r \in Runs : /\ run[r].status \notin RecoverableRuns
                /\ BatchesOf(r) = {}
                /\ r \notin jobs \cup pass.runs \cup pass.refresh \cup {pass.run, pass.job}}

\* Block hashes are read once per pass: a later change is not seen by it.
Hash(n) == IF pass.seen[n] = -1 THEN BlockHash(n) ELSE pass.seen[n]
Seen(ns) == [n \in 0..MaxHeight |-> IF n \in ns THEN Hash(n) ELSE pass.seen[n]]
Canonical(e) == e.n <= Height /\ BlockHash(e.n) = e.hash
PassFinalized == Finalized(pass.head)

-----------------------------------------------------------------------------
(***************************************************************************)
(* The API: clicks, the operator's settings and manual runs.               *)
(***************************************************************************)

\* captureBillingClick claims the delivery before it reads the chain.
ClaimClick(s) ==
  /\ Claimed < NClicks
  /\ click' = [click EXCEPT ![Claimed + 1] =
       [@ EXCEPT !.status = "CAPTURING", !.stake = s,
                 !.version = Position(s, Height).version]]
  /\ UNCHANGED <<chainVars, batch, run, auto, checkpoint, jobs, pass, sent>>

\* ... and records bid and price from one block: the latest of the node, or
\* the projection's when the node does not answer.  A contract without a
\* price leaves the click PRICE_PENDING.
FinishCapture(c, n, priced) ==
  /\ click[c].status = "CAPTURING"
  /\ LET p == Position(click[c].stake, n)
         e == [n |-> n, hash |-> BlockHash(n)]
     IN  click' = [click EXCEPT ![c] =
           IF p.version # click[c].version \/ p.amount = 0
           THEN [@ EXCEPT !.status = "UNBILLED"]
           ELSE [@ EXCEPT !.bid = e,
                          !.price = IF priced THEN e ELSE NoBlock,
                          !.status = IF ~priced THEN "PRICE_PENDING"
                                     ELSE IF Amount[c] = 0 THEN "SETTLED"
                                     ELSE "PENDING"]]
  /\ UNCHANGED <<chainVars, batch, run, auto, checkpoint, jobs, pass, sent>>

\* updateSettings
ToggleAutomatic ==
  /\ "toggle" \in Moves
  /\ auto' = ~auto
  /\ UNCHANGED <<chainVars, click, batch, run, checkpoint, jobs, pass, sent>>

\* run: coalesces with a QUEUED or RUNNING manual run.  Enqueueing may fail,
\* or may be ignored because the queue still holds a job of that id.
RequestManualRun(enqueued) ==
  LET active == {r \in Runs : run[r].trigger = "MANUAL"
                              /\ run[r].status \in {"QUEUED", "RUNNING"}}
      r == IF active # {} THEN Max(active) ELSE Min(FreeRuns)
      failed == ~enqueued /\ (active = {} \/ run[r].status = "QUEUED")
  IN  /\ "manual" \in Moves
      /\ active # {} \/ FreeRuns # {}
      /\ run' = [run EXCEPT ![r] =
           [trigger |-> "MANUAL",
            status |-> IF active # {} THEN @.status ELSE "QUEUED",
            error |-> IF failed THEN "other" ELSE IF active # {} THEN @.error ELSE "none",
            cutoff |-> IF active # {} THEN @.cutoff ELSE -1]]
      /\ jobs' = IF enqueued THEN jobs \cup {r} ELSE jobs
      /\ UNCHANGED <<chainVars, click, batch, auto, checkpoint, pass, sent>>

\* Time passes between passes: a click reaches intervalMinutes, a failed batch
\* its nextAttemptAt.
Age(c) ==
  /\ pass.pc = "idle" /\ ClickThreshold > 1
  /\ click[c].status \in {"PENDING", "PRICE_PENDING"} /\ ~click[c].aged
  /\ click' = [click EXCEPT ![c].aged = TRUE]
  /\ UNCHANGED <<chainVars, batch, run, auto, checkpoint, jobs, pass, sent>>

ReachNextAttempt(b) ==
  /\ pass.pc = "idle" /\ batch[b].deferred
  /\ batch' = [batch EXCEPT ![b].deferred = FALSE]
  /\ UNCHANGED <<chainVars, click, run, auto, checkpoint, jobs, pass, sent>>

-----------------------------------------------------------------------------
(***************************************************************************)
(* The pass: prices, evidence and the reconciliation of known batches.     *)
(***************************************************************************)

\* convertPendingPrices: captures interrupted for five minutes are closed, and
\* clicks without a price take the projection's, when it has a fresh one.
Converted(c, stale, snapshot) ==
  LET n == Projected(Height)
  IN  CASE c \in stale -> [click[c] EXCEPT !.status = "UNBILLED"]
        [] click[c].status = "PRICE_PENDING" /\ snapshot ->
             [click[c] EXCEPT !.status = IF Amount[c] = 0 THEN "SETTLED" ELSE "PENDING",
                              !.price = [n |-> n, hash |-> BlockHash(n)]]
        [] OTHER -> click[c]

\* A scheduled tick (job 0) or a manual job starts a pass.  It reads the head,
\* the hash of the finalized block, and whether the checkpoint of the last
\* complete reconciliation is still canonical.
BeginPass(job, stale, snapshot) ==
  /\ pass.pc = "idle"
  /\ job # 0 => job \in jobs
  /\ stale \subseteq {c \in Clicks : click[c].status = "CAPTURING"}
  /\ click' = [c \in Clicks |-> Converted(c, stale, snapshot)]
  /\ jobs' = jobs \ {job}
  /\ LET fin == Finalized(Height)
         old == checkpoint.n # -1 /\ checkpoint.n <= fin
     IN  pass' = [IdlePass EXCEPT
           !.pc = "fetch", !.job = job, !.cutoff = Claimed, !.head = Height,
           !.seen = Seen({fin} \cup (IF old THEN {checkpoint.n} ELSE {})),
           !.previous = old /\ Canonical(checkpoint)]
  /\ UNCHANGED <<chainVars, batch, run, auto, checkpoint, sent>>

\* The blocks a click's bid and price were read from.
Evidence(c) == {click[c].bid} \cup ({click[c].price} \ {NoBlock})
EvidenceRead(cs) == {e.n : e \in UNION {Evidence(c) : c \in cs}} \cap (0..PassFinalized)
Orphaned(e) == e.n <= PassFinalized /\ Hash(e.n) # e.hash

\* validateClickEvidence: an unbatched click loses its bid block, or (once the
\* bid block is final) its price block, to a reorganization.
EvidenceLost(c) ==
  \/ Orphaned(click[c].bid)
  \/ /\ click[c].bid.n <= PassFinalized
     /\ click[c].price # NoBlock
     /\ Orphaned(click[c].price)

\* Batches to reconcile: all that are unresolved, and the terminal ones the
\* checkpoint does not cover.
ToReconcile ==
  {b \in Batches :
     \/ batch[b].status \in InFlight \cup {"FAILED"}
     \/ /\ batch[b].status \in Terminal
        /\ pass.previous => batch[b].receipt.n > checkpoint.n \/ batch[b].receipt = NoBlock}

ValidateAndFetch ==
  /\ pass.pc = "fetch"
  /\ LET cs == {c \in Clicks : click[c].status \in {"PENDING", "PRICE_PENDING"}
                               /\ click[c].batch = 0}
     IN  /\ click' = [c \in Clicks |-> IF c \in cs /\ EvidenceLost(c)
                                       THEN [click[c] EXCEPT !.status = "UNBILLED"]
                                       ELSE click[c]]
         /\ pass' = [pass EXCEPT !.pc = "reconcile", !.seen = Seen(EvidenceRead(cs)),
                                 !.todo = ToReconcile, !.previous = FALSE]
  /\ UNCHANGED <<chainVars, batch, run, auto, checkpoint, jobs, sent>>

\* reconcileChargeBatch returns to its caller: the reconciliation loop, or
\* the run loop (prepareBatch), which stops at a batch that waits.
Returned(p, waiting) ==
  IF p.run = 0
  THEN [p EXCEPT !.pc = "reconcile", !.waiting = @ \/ waiting,
                 !.refresh = @ \cup {batch[p.batch].run}, !.batch = 0]
  ELSE [p EXCEPT !.pc = IF p.waiting \/ waiting THEN "finish" ELSE "prepare",
                 !.waiting = @ \/ waiting, !.batch = 0]

\* ... or throws: the pass is blocked without a checkpoint, or the run records
\* the failure and goes on only past an orphaned batch.
Threw(p, error) ==
  IF p.run = 0
  THEN [p EXCEPT !.pc = "settings", !.blocked = error, !.batch = 0]
  ELSE [p EXCEPT !.pc = IF error = "orphaned" THEN "prepare" ELSE "finish",
                 !.failure = error, !.batch = 0]

Stored(error) == IF error = "waiting" THEN "other" ELSE error

\* Faults: a batch is reopened without its clicks, or without its run.
ReopenedBatchOnly(b) ==
  /\ batch' = [batch EXCEPT ![b] =
       [@ EXCEPT !.status = IF Signed(b) THEN "RECONCILING" ELSE "PREPARED",
                 !.charged = -1, !.receipt = NoBlock, !.error = "other"]]
  /\ run' = [run EXCEPT ![batch[b].run] =
               [@ EXCEPT !.status = "RUNNING", !.error = "other"]]
  /\ UNCHANGED click

ReopenedWithoutRun(b) ==
  /\ batch' = [batch EXCEPT ![b] =
       [@ EXCEPT !.status = IF Signed(b) THEN "RECONCILING" ELSE "PREPARED",
                 !.charged = -1, !.receipt = NoBlock, !.error = "other"]]
  /\ click' = [c \in Clicks |-> IF c \in ClicksOf(b)
                                THEN [click[c] EXCEPT !.status = "RESERVED"]
                                ELSE click[c]]
  /\ UNCHANGED run

\* A terminal batch whose receipt block was reorganized away is reopened with
\* its clicks and its run.
Reopened(b) ==
  /\ batch' = [batch EXCEPT ![b] =
       [@ EXCEPT !.status = IF Signed(b) THEN "RECONCILING" ELSE "PREPARED",
                 !.charged = -1, !.receipt = NoBlock, !.error = "other"]]
  /\ click' = [c \in Clicks |-> IF c \in ClicksOf(b)
                                THEN [click[c] EXCEPT !.status = "RESERVED"]
                                ELSE click[c]]
  /\ run' = [run EXCEPT ![batch[b].run] =
               [@ EXCEPT !.status = "RUNNING", !.error = "other"]]

ReconcileNext ==
  /\ pass.pc = "reconcile" /\ pass.todo # {}
  /\ UNCHANGED <<chainVars, auto, checkpoint, jobs, sent>>
  /\ LET b == Min(pass.todo)
         proof == batch[b].receipt
         closed == batch[b].status \in Terminal /\ proof # NoBlock
         p == [pass EXCEPT !.todo = @ \ {b}, !.batch = b,
                           !.seen = IF closed THEN Seen({proof.n}) ELSE @]
         go == IF Signed(b) THEN [p EXCEPT !.pc = "receipt"] ELSE Returned(p, FALSE)
     IN  \/ /\ closed /\ Hash(proof.n) = proof.hash
            /\ pass' = Returned(p, FALSE)
            /\ UNCHANGED <<click, batch, run>>
         \/ /\ closed /\ Hash(proof.n) # proof.hash
            /\ Reopened(b)
            /\ pass' = go
         \/ /\ ~closed
            /\ pass' = go
            /\ UNCHANGED <<click, batch, run>>

\* settleChargeReceipt: the charged PRE pays the clicks in order while it
\* lasts; a click that cannot be paid whole consumes the rest.
Paid(b, c, charged) == Due({d \in ClicksOf(b) : d <= c}) <= charged

\* Fault: the requested amount is booked instead of the charged one.
SettleRequested(b, n) ==
  /\ batch' = [batch EXCEPT ![b] =
       [@ EXCEPT !.status = "CONFIRMED", !.charged = batch[b].due,
                 !.receipt = [n |-> n, hash |-> BlockHash(n)],
                 !.error = "none", !.deferred = FALSE]]
  /\ click' = [c \in Clicks |-> IF c \in ClicksOf(b)
                                THEN [click[c] EXCEPT !.status = "SETTLED"]
                                ELSE click[c]]

Settle(b, n) ==
  LET charged == Block(n).charged
      short == batch[b].due > charged
  IN  /\ batch' = [batch EXCEPT ![b] =
           [@ EXCEPT !.status = IF short THEN "PARTIAL" ELSE "CONFIRMED",
                     !.charged = charged,
                     !.receipt = [n |-> n, hash |-> BlockHash(n)],
                     !.error = IF short THEN "other" ELSE "none",
                     !.deferred = FALSE]]
      /\ click' = [c \in Clicks |->
           IF c \notin ClicksOf(b) THEN click[c]
           ELSE [click[c] EXCEPT !.status =
                   IF Paid(b, c, charged) THEN "SETTLED" ELSE "UNCOLLECTABLE"]]

Reconciling(b, error) ==
  /\ batch' = [batch EXCEPT ![b] = [@ EXCEPT !.status = "RECONCILING",
                                             !.error = Stored(error)]]
  /\ UNCHANGED click

\* Fault: a receipt is taken from an unconfirmed block.
ConfirmedEarly(n) == pass.head >= n /\ Hash(n) = BlockHash(n)

\* A receipt in block n counts once the block has its confirmations at the
\* head the pass started from, and still has the hash the pass knows.
Confirmed(n) == pass.head >= n + Confirmations /\ Hash(n) = BlockHash(n)

\* settleIndexedCharge: the indexed StakeCharged event of the charge id.
SettleIndexed(b, indexed) ==
  LET found == {n \in ChargedIn(b) : indexed /\ Confirmed(n)}
  IN  IF found # {}
      THEN /\ Settle(b, Min(found))
           /\ pass' = Returned([pass EXCEPT !.seen = Seen(found)], FALSE)
      ELSE /\ Reconciling(b, "other")
           /\ pass' = Returned(pass, TRUE)

\* The signed transaction has a receipt.
ReadReceipt(indexed) ==
  /\ pass.pc = "receipt"
  /\ LET b == pass.batch
         mined == MinedIn(Transaction(b))
         n == Min(mined)
         final == pass.head >= n + Confirmations
         p == [pass EXCEPT !.seen = IF final THEN Seen({n}) ELSE @]
         proof == [n |-> n, hash |-> BlockHash(n)]
     IN  /\ mined # {}
         /\ \/ ~Confirmed(n) /\ Reconciling(b, "waiting") /\ pass' = Returned(p, TRUE)
            \/ /\ Confirmed(n) /\ Block(n).result = "reverted"
               /\ batch' = IF batch[b].status = "FAILED" /\ batch[b].receipt = proof
                           THEN batch
                           ELSE [batch EXCEPT ![b] =
                                  [@ EXCEPT !.status = "FAILED", !.receipt = proof,
                                            !.error = "other", !.deferred = TRUE]]
               /\ UNCHANGED click
               /\ pass' = Returned(p, FALSE)
            \/ /\ Confirmed(n) /\ Block(n).result = "duplicate"
               /\ SettleIndexed(b, indexed)
            \/ /\ Confirmed(n) /\ Block(n).result = "charged"
               /\ Settle(b, n)
               /\ pass' = Returned(p, FALSE)
  /\ UNCHANGED <<chainVars, run, auto, checkpoint, jobs, sent>>

\* It has none.
ReceiptMissing ==
  /\ pass.pc = "receipt"
  /\ MinedIn(Transaction(pass.batch)) = {}
  /\ pass' = [pass EXCEPT !.pc = "unseen"]
  /\ UNCHANGED <<chainVars, dbVars>>

\* Fault: only the bid is proven.
CaptureErrorsBidOnly(b) ==
  LET es == {click[c].bid : c \in ClicksOf(b)}
  IN  {x \in {"orphaned", "waiting"} :
         \/ x = "orphaned" /\ \E e \in es : Orphaned(e)
         \/ x = "waiting" /\ \E e \in es : e.n > PassFinalized}

\* assertBatchCapture: what the clicks of a batch can make it throw.
CaptureErrors(b) ==
  LET es == UNION {Evidence(c) : c \in ClicksOf(b)}
  IN  {x \in {"orphaned", "waiting"} :
         \/ x = "orphaned" /\ \E e \in es : Orphaned(e)
         \/ x = "waiting" /\ \E e \in es : e.n > PassFinalized}

\* Without a receipt: the charge may have been executed by other bytes, an
\* earlier nonce may be missing, the click evidence may be gone; otherwise the
\* same bytes are sent again.
ResolveUnseen(indexed) ==
  /\ pass.pc = "unseen"
  /\ UNCHANGED <<chainVars, run, auto, checkpoint, jobs, sent>>
  /\ LET b == pass.batch
         gap == PendingNonce < batch[b].nonce
         predecessor == \E d \in Batches \ {b} : batch[d].status \in InFlight
                                              /\ batch[d].nonce = PendingNonce
         p == [pass EXCEPT !.seen = Seen(EvidenceRead(ClicksOf(b)))]
     IN  \/ Processed(b) /\ SettleIndexed(b, indexed)
         \/ /\ ~Processed(b) /\ gap /\ predecessor
            /\ Reconciling(b, "waiting")
            /\ pass' = Returned(pass, TRUE)
         \/ /\ ~Processed(b) /\ gap /\ ~predecessor
            /\ Reconciling(b, "other")
            /\ pass' = Threw(pass, "other")
         \/ /\ ~Processed(b) /\ ~gap
            /\ \E error \in CaptureErrors(b) :
                 /\ Reconciling(b, error)
                 /\ pass' = IF error = "waiting" THEN Returned(p, TRUE)
                            ELSE Threw(p, error)
         \/ /\ ~Processed(b) /\ ~gap /\ CaptureErrors(b) = {}
            /\ pass' = [p EXCEPT !.pc = "broadcast"]
            /\ UNCHANGED <<click, batch>>

\* sendRawTransaction.  The node accepts a nonce it does not hold yet; the
\* answer may be lost, or the transaction refused (also for lack of gas).
Broadcast(accepted, reply) ==
  /\ pass.pc = "broadcast"
  /\ LET tx == Transaction(pass.batch)
         fresh == tx.nonce >= AccountNonce /\ \A t \in mempool : t.nonce # tx.nonce
     IN  /\ accepted => fresh
         /\ "rpc" \notin Moves => (accepted <=> fresh)
         /\ reply = "accepted" => accepted
         /\ reply = "gas" => ~accepted
         /\ "rpc" \notin Moves => (reply = IF accepted THEN "accepted" ELSE "unknown")
         /\ mempool' = IF accepted THEN mempool \cup {tx} ELSE mempool
         /\ pass' = [pass EXCEPT !.pc = "record", !.reply = reply,
                                 !.outage = @ \/ (fresh /\ ~accepted)]
  /\ UNCHANGED <<chain, forks, changes, dbVars>>

\* Fault: an unanswered broadcast counts as a failed transaction.
RecordBroadcastFailed ==
  /\ pass.pc = "record"
  /\ batch' = [batch EXCEPT ![pass.batch] =
       [@ EXCEPT !.status = IF pass.reply = "accepted" THEN "SUBMITTED" ELSE "FAILED",
                 !.error = "other"]]
  /\ pass' = Returned([pass EXCEPT !.reply = "none"], TRUE)
  /\ UNCHANGED <<chainVars, click, run, auto, checkpoint, jobs, sent>>

RecordBroadcast ==
  /\ pass.pc = "record"
  /\ LET p == [pass EXCEPT !.reply = "none"]
     IN  /\ batch' = [batch EXCEPT ![pass.batch] =
              [@ EXCEPT !.status = IF pass.reply = "accepted" THEN "SUBMITTED"
                                   ELSE "RECONCILING",
                        !.error = "other"]]
         /\ pass' = IF pass.reply = "gas" THEN Threw(p, "other") ELSE Returned(p, TRUE)
  /\ UNCHANGED <<chainVars, click, run, auto, checkpoint, jobs, sent>>

-----------------------------------------------------------------------------
(***************************************************************************)
(* The pass: runs, reservation and signing.                                *)
(***************************************************************************)

\* refreshRun: a run is finished when nothing of it is pending and nothing
\* failed.  A manual run also waits for the unbatched clicks up to its cutoff.
Awaiting(r) ==
  {c \in Clicks : /\ run[r].trigger = "MANUAL"
                  /\ c <= run[r].cutoff
                  /\ click[c].batch = 0
                  /\ click[c].status \in {"PENDING", "PRICE_PENDING"}}


Unsettled(r) == {b \in BatchesOf(r) : batch[b].status \notin Terminal}

Refreshed(r, failed, error) ==
  LET unpriced == \E c \in Awaiting(r) : click[c].status = "PRICE_PENDING"
      failure == IF failed = "none" /\ unpriced THEN "other" ELSE failed
      pending == \/ Awaiting(r) # {}
                 \/ Unsettled(r) # {}
                 \/ failure # "none"
      partial == \E b \in BatchesOf(r) : batch[b].status \in {"PARTIAL", "UNCOLLECTABLE"}
  IN  [run[r] EXCEPT
         !.status = IF pending THEN IF failure \in {"none", "waiting"} THEN "RUNNING"
                                    ELSE "BLOCKED"
                    ELSE IF partial THEN "PARTIAL" ELSE "COMPLETED",
         !.error = IF pending \/ partial
                   THEN IF failure # "none" THEN Stored(failure) ELSE error
                   ELSE "none"]

\* The error code of some batch of the run, if one has any.
BatchError(r) ==
  LET found == {batch[b].error : b \in BatchesOf(r)} \ {"none"}
  IN  IF found = {} THEN {"none"} ELSE found

AfterRefresh(p) ==
  [p EXCEPT !.pc = IF p.refresh # {} THEN "refresh" ELSE IF p.run = 0 THEN "plan"
                   ELSE "prepare"]

RefreshRun ==
  /\ pass.pc = "refresh"
  /\ LET r == Min(pass.refresh)
     IN  /\ \E error \in BatchError(r) :
              run' = [run EXCEPT ![r] = Refreshed(r, "none", error)]
         /\ pass' = AfterRefresh([pass EXCEPT !.refresh = @ \ {r}])
  /\ UNCHANGED <<chainVars, click, batch, auto, checkpoint, jobs, sent>>

\* Fault: the checkpoint's hash is read at the end of the reconciliation.
SaveCheckpointLate(ready) ==
  /\ pass.pc = "settings" \/ (pass.pc = "reconcile" /\ pass.todo = {})
  /\ ready \/ "rpc" \in Moves
  /\ checkpoint' = IF pass.blocked = "none"
                   THEN [n |-> PassFinalized, hash |-> BlockHash(PassFinalized)]
                   ELSE checkpoint
  /\ pass' = AfterRefresh([pass EXCEPT !.auto = auto, !.todo = {},
                 !.blocked = IF @ = "none" /\ ~ready THEN "other" ELSE @,
                 !.outage = @ \/ ~ready])
  /\ UNCHANGED <<chainVars, click, batch, run, auto, jobs, sent>>

\* The readiness checks (contract, keystore, operator, gas) pass or block the
\* runs; the checkpoint is the finalized block read BEFORE the batches were
\* reconciled, saved only when all of them were.
SaveCheckpoint(ready) ==
  /\ pass.pc = "settings" \/ (pass.pc = "reconcile" /\ pass.todo = {})
  /\ ready \/ "rpc" \in Moves
  /\ checkpoint' = IF pass.blocked = "none"
                   THEN [n |-> PassFinalized, hash |-> Hash(PassFinalized)]
                   ELSE checkpoint
  /\ pass' = AfterRefresh([pass EXCEPT !.auto = auto, !.todo = {},
                 !.blocked = IF @ = "none" /\ ~ready THEN "other" ELSE @,
                 !.outage = @ \/ ~ready])
  /\ UNCHANGED <<chainVars, click, batch, run, auto, jobs, sent>>

\* The run loop goes on, or the pass ends.
NextRun(p, runs) ==
  IF runs = {} THEN IdlePass ELSE [p EXCEPT !.pc = "run", !.runs = runs, !.run = 0]

\* The runs to process: the job's, or every recoverable one and a new
\* automatic run when a group is due.  Automatic runs are left alone while
\* the setting is off.
PlanRuns ==
  /\ pass.pc = "plan"
  /\ LET found == {r \in Runs : run[r].status \in RecoverableRuns
                                /\ (pass.job # 0 => r = pass.job)}
         open == /\ pass.job = 0 /\ pass.auto /\ pass.blocked = "none"
                 /\ \A r \in found : run[r].trigger = "AUTO" => run[r].error = "orphaned"
                 /\ \E g \in Groups(Outstanding) : ChargeGroupDue(g)
                 /\ FreeRuns # {}
         new == Min(FreeRuns)
     IN  /\ run' = IF open THEN [run EXCEPT ![new] =
                        [trigger |-> "AUTO", status |-> "QUEUED", error |-> "none",
                         cutoff |-> -1]]
                   ELSE run
         /\ pass' = NextRun(pass, {r \in found : run[r].trigger = "AUTO" => pass.auto}
                                  \cup (IF open THEN {new} ELSE {}))
  /\ UNCHANGED <<chainVars, click, batch, auto, checkpoint, jobs, sent>>

BlockRun ==
  /\ pass.pc = "run" /\ pass.blocked # "none"
  /\ LET r == Min(pass.runs)
     IN  /\ run' = [run EXCEPT ![r] =
                     [@ EXCEPT !.status = "BLOCKED", !.error = pass.blocked]]
         /\ pass' = NextRun(pass, pass.runs \ {r})
  /\ UNCHANGED <<chainVars, click, batch, auto, checkpoint, jobs, sent>>

\* reserveRun, one database transaction.  A manual run takes over the batches
\* of automatic runs that are not signed, then every due group of unbatched
\* clicks up to the run's cutoff, with a final bid, becomes a batch.
Takes(r) ==
  {q \in Runs : /\ run[r].trigger = "MANUAL" /\ run[q].trigger = "AUTO"
                /\ run[q].status \in RecoverableRuns}

Reservable(r) ==
  LET cutoff == IF run[r].cutoff = -1 THEN pass.cutoff ELSE run[r].cutoff
  IN  {g \in Groups({c \in Outstanding : c <= cutoff /\ click[c].bid.n <= PassFinalized}) :
         run[r].trigger = "MANUAL" \/ ChargeGroupDue(g)}

\* Fault: clicks are linked to a batch that is never created.
NewBatchMissing(g, r) == NClicks + 1

\* Groups become batches in the order of their oldest clicks.
NewBatch(g, r) ==
  Cardinality({b \in Batches : batch[b].status # "none"})
    + Cardinality({h \in Reservable(r) : Min(h) <= Min(g)})

ReserveRun ==
  /\ pass.pc = "run" /\ pass.blocked = "none"
  /\ LET r == Min(pass.runs)
         gs == Reservable(r)
         taken == {b \in Batches : batch[b].run \in Takes(r)
                                  /\ batch[b].status \in Preparable}
         table == [b \in Batches |->
           IF b \in taken THEN [batch[b] EXCEPT !.run = r]
           ELSE IF batch[b].status = "none" /\ \E g \in gs : NewBatch(g, r) = b
           THEN LET g == CHOOSE g \in gs : NewBatch(g, r) = b
                IN  [batch[b] EXCEPT
                       !.run = r, !.stake = click[Min(g)].stake,
                       !.version = click[Min(g)].version, !.due = Due(g),
                       !.status = IF Due(g) = 0 THEN "CONFIRMED" ELSE "PREPARED",
                       !.charged = IF Due(g) = 0 THEN 0 ELSE -1]
           ELSE batch[b]]
     IN  /\ batch' = table
         /\ click' = [c \in Clicks |->
              IF \E g \in gs : c \in g
              THEN LET g == CHOOSE g \in gs : c \in g
                   IN  [click[c] EXCEPT !.batch = NewBatch(g, r),
                          !.status = IF Due(g) = 0 THEN "SETTLED" ELSE "RESERVED"]
              ELSE click[c]]
         /\ run' = [run EXCEPT ![r] =
              [@ EXCEPT !.status = "RUNNING", !.error = "none",
                        !.cutoff = IF run[r].cutoff = -1 THEN pass.cutoff
                                   ELSE run[r].cutoff]]
         /\ pass' = AfterRefresh([pass EXCEPT
              !.run = r, !.runs = @ \ {r}, !.refresh = Takes(r),
              !.todo = {b \in Batches : table[b].run = r
                                       /\ table[b].status \in Preparable}])
  /\ UNCHANGED <<chainVars, auto, checkpoint, jobs, sent>>

\* The next batch of the run.  The setting is read again before each.
PrepareNext ==
  /\ pass.pc = "prepare" /\ pass.todo # {}
  /\ LET b == Min(pass.todo)
     IN  pass' = IF batch[b].deferred THEN [pass EXCEPT !.todo = @ \ {b}]
                 ELSE IF run[pass.run].trigger = "AUTO" /\ ~auto
                 THEN [pass EXCEPT !.pc = "finish", !.todo = {}]
                 ELSE [pass EXCEPT !.pc = "check", !.batch = b, !.todo = @ \ {b}]
  /\ UNCHANGED <<chainVars, dbVars>>

\* prepareBatch throws: the batch keeps its status.
Failed(b, error) ==
  /\ batch' = [batch EXCEPT ![b].error = Stored(error)]
  /\ UNCHANGED <<click, sent>>

\* uncollectable: the position was closed in a finalized block.
WriteOff(b) ==
  /\ batch' = [batch EXCEPT ![b] =
       [@ EXCEPT !.status = "UNCOLLECTABLE", !.charged = 0, !.error = "other",
                 !.receipt = [n |-> PassFinalized, hash |-> Hash(PassFinalized)]]]
  /\ click' = [c \in Clicks |-> IF c \in ClicksOf(b)
                                THEN [click[c] EXCEPT !.status = "UNCOLLECTABLE"]
                                ELSE click[c]]
  /\ UNCHANGED sent

Covers(b, n) ==
  LET p == Position(batch[b].stake, n)
  IN  p.version = batch[b].version /\ p.amount > 0

\* The checks of prepareBatch before it takes the wallet lock.
CheckBatch ==
  /\ pass.pc = "check"
  /\ UNCHANGED <<chainVars, run, auto, checkpoint, jobs>>
  /\ LET b == pass.batch
         p == [pass EXCEPT !.seen = Seen(EvidenceRead(ClicksOf(b)))]
         proven == CaptureErrors(b) = {}
     IN  \/ \E error \in CaptureErrors(b) : Failed(b, error) /\ pass' = Threw(p, error)
         \/ /\ proven /\ ~Covers(b, PassFinalized)
            /\ WriteOff(b)
            /\ pass' = Returned(p, FALSE)
         \/ /\ proven /\ Covers(b, PassFinalized) /\ ~Covers(b, Height)
            /\ Failed(b, "waiting")
            /\ pass' = Threw(p, "waiting")
         \/ /\ proven /\ Covers(b, PassFinalized) /\ Covers(b, Height) /\ Processed(b)
            /\ Failed(b, "other")
            /\ pass' = Threw(p, "other")
         \/ /\ proven /\ Covers(b, PassFinalized) /\ Covers(b, Height) /\ ~Processed(b)
            /\ pass' = [p EXCEPT !.pc = "sign"]
            /\ UNCHANGED <<click, batch, sent>>

\* Fault: finished batches no longer reserve their nonces.
AboveLatestInFlight ==
  \A b \in Batches : batch[b].status \in InFlight => batch[b].nonce < PendingNonce

\* The node's nonce is above every nonce of the journal (latestNonce).
AboveLatest == \A b \in Batches : batch[b].nonce < PendingNonce
OtherInFlight(b) == \E d \in Batches \ {b} : batch[d].status \in InFlight

\* chain.sign simulates the call against the current state before it signs: the
\* position must still be there, unless the charge is known already.
SimulationFails(b) == ~Covers(b, Height) /\ ~Processed(b)

\* The wallet-lock transaction: nonce and bytes are stored before anything is
\* sent.
SignBatch ==
  /\ pass.pc = "sign"
  /\ UNCHANGED <<chainVars, click, run, auto, checkpoint, jobs>>
  /\ LET b == pass.batch
         fails == SimulationFails(b)
     IN  \/ /\ OtherInFlight(b)
            /\ Failed(b, "waiting")
            /\ pass' = Threw(pass, "waiting")
         \/ /\ ~OtherInFlight(b) /\ (~AboveLatest \/ fails)
            /\ Failed(b, "other")
            /\ pass' = Threw(pass, "other")
         \/ /\ ~OtherInFlight(b) /\ AboveLatest /\ ~fails
            /\ batch' = [batch EXCEPT ![b] =
                 [@ EXCEPT !.status = "SIGNED", !.nonce = PendingNonce,
                           !.attempts = batch[b].attempts + 1, !.error = "none",
                           !.deferred = FALSE, !.receipt = NoBlock]]
            /\ sent' = sent \cup {[Transaction(b) EXCEPT !.nonce = PendingNonce,
                                                        !.attempt = batch[b].attempts + 1]}
            /\ pass' = [pass EXCEPT !.pc = "receipt"]

FinishRun ==
  /\ pass.pc = "finish" \/ (pass.pc = "prepare" /\ pass.todo = {})
  /\ LET r == pass.run
     IN  /\ \E error \in BatchError(r) :
              run' = [run EXCEPT ![r] = Refreshed(r, pass.failure, error)]
         /\ pass' = NextRun([pass EXCEPT !.todo = {}, !.failure = "none",
              !.blocked = IF pass.failure \in {"none", "waiting", "orphaned"} THEN @
                          ELSE pass.failure], pass.runs)
  /\ UNCHANGED <<chainVars, click, batch, auto, checkpoint, jobs, sent>>

\* An RPC call of the pass fails.  While the click evidence is checked again
\* the failure is also recorded as RECONCILING (noted).
RpcFails(noted) ==
  /\ "rpc" \in Moves
  /\ pass.pc \in {"fetch", "reconcile", "receipt", "unseen", "check", "sign"}
  /\ pass.pc = "reconcile" => pass.todo # {}
  /\ noted => pass.pc = "unseen"
  /\ batch' = IF noted THEN [batch EXCEPT ![pass.batch] =
                              [@ EXCEPT !.status = "RECONCILING", !.error = "other"]]
              ELSE IF pass.run = 0 THEN batch
              ELSE [batch EXCEPT ![pass.batch].error = "other"]
  /\ pass' = Threw([pass EXCEPT !.outage = TRUE], "other")
  /\ UNCHANGED <<chainVars, click, run, auto, checkpoint, jobs, sent>>

\* The worker stops, or a database call fails: the pass ends where it is.
Crash ==
  /\ "crash" \in Moves /\ pass.pc # "idle"
  /\ pass' = [IdlePass EXCEPT !.outage = TRUE]
  /\ UNCHANGED <<chainVars, dbVars>>

-----------------------------------------------------------------------------
\* Blocks matter to the ledger until what they hold is final.
AwaitsConfirmation ==
  \E n \in (Finalized(Height) + 1)..Height :
    \/ Block(n).tx # NoTx
    \/ Block(n).position # Block(n - 1).position
    \/ \E c \in Clicks : \E e \in Evidence(c) : e.n = n

ChainStep ==
  /\ UNCHANGED <<dbVars, pass>>
  /\ \/ \E tx \in mempool : MineTransaction(tx) \/ LoseTransaction(tx)
     \/ AwaitsConfirmation /\ MineEmpty
     \/ \E s \in Stakes : ChangeStake(s)
     \/ \E depth \in 1..MaxDepth, again, returned \in BOOLEAN : Reorg(depth, again, returned)

ApiStep ==
  \/ \E s \in Stakes : ClaimClick(s)
  \/ \E c \in Clicks, n \in {Height, Projected(Height)}, priced \in BOOLEAN :
       FinishCapture(c, n, priced)
  \/ ToggleAutomatic
  \/ \E enqueued \in BOOLEAN : RequestManualRun(enqueued)

TimeStep ==
  \/ \E c \in Clicks : Age(c)
  \/ \E b \in Batches : ReachNextAttempt(b)

Start ==
  \E job \in Runs \cup {0}, stale \in SUBSET Clicks, snapshot \in BOOLEAN :
    BeginPass(job, stale, snapshot)

PassStep ==
  \/ ValidateAndFetch \/ ReconcileNext
  \/ \E indexed \in BOOLEAN : ReadReceipt(indexed) \/ ResolveUnseen(indexed)
  \/ ReceiptMissing
  \/ \E accepted \in BOOLEAN, reply \in {"accepted", "unknown", "gas"} :
       Broadcast(accepted, reply)
  \/ RecordBroadcast
  \/ \E ready \in BOOLEAN : SaveCheckpoint(ready)
  \/ RefreshRun \/ PlanRuns \/ BlockRun \/ ReserveRun
  \/ PrepareNext \/ CheckBatch \/ SignBatch \/ FinishRun

Next == ChainStep \/ ApiStep \/ TimeStep \/ Start \/ PassStep \/ Crash
        \/ \E noted \in BOOLEAN : RpcFails(noted)

Spec == Init /\ [][Next]_vars

\* The scheduler starts a pass every fifteen seconds and a pass runs to its
\* end; blocks are mined, and a transaction that is sent again and again is
\* executed in the end.  Outages end: calls succeed, the node takes what it can.
Fairness ==
  /\ WF_vars(Start)
  /\ WF_vars(PassStep)
  /\ SF_vars(TimeStep)   \* time passes, also when passes follow one another
  /\ WF_vars(AwaitsConfirmation /\ MineEmpty /\ UNCHANGED <<dbVars, pass>>)
  /\ SF_vars(UNCHANGED <<dbVars, pass>> /\ \E tx \in mempool : MineTransaction(tx))
  /\ <>[]~pass.outage

FairSpec == Spec /\ Fairness

-----------------------------------------------------------------------------
(***************************************************************************)
(* Properties.                                                             *)
(***************************************************************************)
BlockRefs == [n : -1..MaxHeight, hash : -1..MaxForks]

TypeOK ==
  /\ click \in [Clicks ->
       [status : {"none", "CAPTURING", "PRICE_PENDING", "PENDING", "RESERVED", "SETTLED",
                  "UNCOLLECTABLE", "UNBILLED"},
        stake : Stakes, version : Nat, bid : BlockRefs, price : BlockRefs,
        batch : Batches \cup {0}, aged : BOOLEAN]]
  /\ batch \in [Batches ->
       [status : {"none", "PREPARED", "FAILED"} \cup InFlight \cup Terminal,
        run : Runs \cup {0}, stake : Stakes, version : Nat, due : Nat,
        charged : Nat \cup {-1}, nonce : Nat \cup {-1}, attempts : Nat,
        receipt : BlockRefs, error : Errors, deferred : BOOLEAN]]
  /\ run \in [Runs ->
       [trigger : {"none", "AUTO", "MANUAL"},
        status : {"none", "COMPLETED", "PARTIAL"} \cup RecoverableRuns,
        error : Errors, cutoff : -1..NClicks]]
  /\ auto \in BOOLEAN
  /\ checkpoint \in BlockRefs
  /\ jobs \subseteq Runs

\* A terminal batch agrees with the chain its evidence is part of: CONFIRMED
\* and PARTIAL record what that block charged, and an UNCOLLECTABLE batch was
\* never charged at all.  (settleChargeReceipt, uncollectable: a concurrent
\* reorganization must not pair one fork's state with another's hash.)
LedgerMatchesChain ==
  \A b \in Batches :
    batch[b].status \in Terminal /\ batch[b].receipt # NoBlock
      /\ Canonical(batch[b].receipt) =>
        IF batch[b].status = "UNCOLLECTABLE" THEN ~Processed(b)
        ELSE /\ batch[b].receipt.n \in ChargedIn(b)
             /\ batch[b].charged = Block(batch[b].receipt.n).charged

\* While the checkpoint is canonical, so is the evidence of every terminal
\* batch it covers: those batches are not looked at again.
\* (reconciliationCheckpoint in processAdChargeJob.)
CheckpointCoversReceipts ==
  checkpoint # NoBlock /\ Canonical(checkpoint) =>
    \A b \in Batches :
      batch[b].status \in Terminal /\ batch[b].receipt # NoBlock
        /\ batch[b].receipt.n <= checkpoint.n => Canonical(batch[b].receipt)

\* The clicks of a batch follow it through settlement, write-off and
\* reopening, and what is settled never exceeds what was charged.
ClicksFollowBatch ==
  \A b \in Batches :
    LET mine == ClicksOf(b)
        settled == {c \in mine : click[c].status = "SETTLED"}
    IN  /\ batch[b].status # "none" => mine # {} /\ batch[b].due = Due(mine)
        /\ batch[b].status = "none" => mine = {}
        /\ batch[b].status \in {"PREPARED", "FAILED"} \cup InFlight =>
             \A c \in mine : click[c].status = "RESERVED"
        /\ batch[b].status \in Terminal =>
             /\ \A c \in mine : click[c].status \in {"SETTLED", "UNCOLLECTABLE"}
             /\ Due(settled) <= batch[b].charged
             /\ batch[b].status = "CONFIRMED" <=> settled = mine

\* A run reported COMPLETED or PARTIAL has no batch left to settle, also after
\* a reorganization reopened one or a manual run took batches over.
FinishedRunsAreSettled ==
  \A r \in Runs : run[r].status \in {"COMPLETED", "PARTIAL"} =>
    \A b \in BatchesOf(r) : batch[b].status \in Terminal

\* The signatures of the journal implement the wallet reservation: no nonce is
\* signed twice, and a batch signed again keeps its charge id.
Wallet == INSTANCE KeywordMarketWallet WITH
  Charges <- Batches, Publications <- {}, Wallets <- {"operator"}, NoWallet <- "none",
  Nonces <- 0..(MaxHeight + NClicks), Attempts <- 0..(MaxHeight + NClicks),
  NonceRollback <- TRUE,
  state <- [b \in Batches |-> IF batch[b].status \in InFlight THEN "inFlight" ELSE "resting"],
  signer <- [b \in Batches |-> IF Signed(b) THEN "operator" ELSE "none"],
  nonce <- [b \in Batches |-> batch[b].nonce],
  attempts <- [b \in Batches |-> batch[b].attempts],
  sent <- {[row |-> t.charge, wallet |-> "operator", nonce |-> t.nonce,
            attempt |-> t.attempt] : t \in sent},
  accountNonce <- [w \in {"operator"} |-> AccountNonce]

\* No two transactions are ever signed for one nonce: the later one would
\* replace, or be replaced by, one the ledger still relies on.  (prepareBatch
\* under the wallet lock, over reorganizations of any depth.)
NonceNeverReused ==
  \A t, u \in sent : t.nonce = u.nonce => t.charge = u.charge /\ t.attempt = u.attempt

\* prepareBatch and reconcileChargeBatch, over crashes, lost answers, retries
\* and reorganizations of any depth, only reserve nonces the way the wallet
\* lock allows.
ImplementsWallet == Wallet!Spec

\* For reorganizations no deeper than Confirmations:

\* A batch that reached a terminal status is never reopened or charged anew.
\* (The confirmation tests of reconcileChargeBatch and prepareBatch.)
SettlementIsFinal ==
  [][\A b \in Batches : batch[b].status \in Terminal =>
       batch'[b].status = batch[b].status /\ batch'[b].charged = batch[b].charged]_batch

\* Every transaction the network may still execute is the one its batch
\* records, and the batch is in flight: no crash, lost answer or retry leaves
\* signed bytes behind that the ledger does not know.
PoolIsJournaled ==
  \A tx \in mempool : batch[tx.charge].nonce = tx.nonce
                     /\ batch[tx.charge].status \in InFlight

\* Only clicks whose bid and price blocks are canonical are ever charged.
\* (assertBatchCapture, before signing and before every broadcast.)
EvidenceBacksCharges ==
  \A b \in Batches :
    (Processed(b) \/ \E tx \in mempool : tx.charge = b) =>
      \A c \in ClicksOf(b) : \A e \in Evidence(c) : Canonical(e)

\* With automatic settlement on for good, every billable click is eventually
\* settled, written off or unbilled, whatever failed on the way, unless its
\* proof was lost after it was batched: an orphaned, waiting or failed batch
\* never starves the others for good.
Resolved(c) ==
  \/ click[c].status \in {"SETTLED", "UNCOLLECTABLE", "UNBILLED"}
  \/ click[c].batch # 0 /\ batch[click[c].batch].error = "orphaned"

\* Manual runs have not used up the run ids of the instance.
RunsLeft == \E r \in Runs : run[r].trigger # "MANUAL"


\* "A setting change between queued work and signing must stop automatic
\* sends" (keyword-market-charges.ts:849): an automatic run signs nothing
\* while automatic settlement is off.
AutomaticOffStopsSigning ==
  [][\A b \in Batches :
       batch[b].status # "SIGNED" /\ batch'[b].status = "SIGNED"
         /\ run[batch[b].run].trigger = "AUTO" => auto]_vars
=============================================================================
