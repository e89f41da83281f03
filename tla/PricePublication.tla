------------------------- MODULE PricePublication -------------------------
(***************************************************************************)
(* The publication of PRE/USD quotes to the Keyword Market contract        *)
(* (processPreUsdPricePublication in apps/worker/src/pre-usd-price-        *)
(* publication.ts), with the collector that stores the quotes and the      *)
(* chain as the worker sees it.                                            *)
(*                                                                         *)
(* A quote is its provider timestamp (quotedAt, unique per quote), so its  *)
(* price needs no value of its own, and `row' is the AdPricePublication    *)
(* table keyed by it.  Error codes steer nothing here and are left out.    *)
(* One job runs at a time; `pass' is its local state and it may crash      *)
(* before any step.  The signer is a dedicated wallet, whose owner may     *)
(* also use it by hand.                                                    *)
(***************************************************************************)
EXTENDS Integers, Sequences, FiniteSets, FiniteSetsExt

CONSTANTS NQuotes,         \* bound: quotes
          Confirmations,   \* keywordMarketConfirmations(...)
          MaxHeight,       \* bound: height of the chain
          MaxForks,        \* bound: reorganizations
          MaxDepth,        \* blocks a reorganization may replace
          MaxForeign,      \* bound: transactions sent by hand from the wallet
          ByHand,          \* quotes published by hand (0: some other call)
          MaxReverts,      \* bound: reverted transactions
          NoTx,            \* a block without a transaction of the wallet
          Moves            \* "rpc": calls fail, "crash": jobs stop

Quotes == 1..NQuotes

ASSUME PublicationAssumption ==
  /\ {NQuotes, MaxHeight, MaxForks, MaxDepth, MaxForeign, MaxReverts} \subseteq Nat
  /\ ByHand \subseteq Quotes \cup {0}
  /\ Confirmations \in Nat \ {0}
  /\ NoTx \notin [quote : Quotes, nonce : Nat, attempt : Nat]
  /\ Moves \subseteq {"rpc", "crash"}

VARIABLES chain,    \* block number n is chain[n + 1]
          pool,     \* transactions waiting at the node
          forks, foreign,
          quotes,   \* PreUsdPrice rows
          row,      \* AdPricePublication rows
          pass,
          sent      \* history: every publication signed

chainVars == <<chain, pool, forks, foreign>>
vars == <<chainVars, quotes, row, pass, sent>>

InFlight == {"SIGNED", "SUBMITTED", "RECONCILING"}
NoBlock == [n |-> -1, hash |-> -1, result |-> "none"]

IdlePass ==
  [pc |-> "idle", head |-> 0, todo |-> {}, active |-> 0, live |-> FALSE,
   caller |-> "loop", receipt |-> NoBlock, reply |-> "none",
   outage |-> FALSE]

Init ==
  /\ chain = <<[fork |-> 0, tx |-> NoTx, result |-> "none", price |-> 0]>>
  /\ pool = {} /\ forks = 0 /\ foreign = 0
  /\ quotes = {}
  /\ row = [q \in Quotes |-> [status |-> "none", nonce |-> -1, attempts |-> 0,
                              receipt |-> NoBlock, deferred |-> FALSE]]
  /\ pass = IdlePass
  /\ sent = {}

-----------------------------------------------------------------------------
Height == Len(chain) - 1
Block(n) == chain[n + 1]
Price(n) == Block(n).price
Canonical(e) == Block(e.n).fork = e.hash

\* finalizedAdsBlock
Finalized(head) == IF head >= Confirmations THEN head - Confirmations + 1 ELSE 0

Mined == {n \in 0..Height : Block(n).tx # NoTx}
AccountNonce == Cardinality(Mined)   \* the nonce at "latest"
PendingNonce ==
  Min({n \in AccountNonce..(AccountNonce + Cardinality(pool)) :
         \A t \in pool : t.nonce # n})

Transaction(q) == [quote |-> q, nonce |-> row[q].nonce, attempt |-> row[q].attempts]

\* updatePreUsdPrice: an older quote reverts, the same one emits no event.
Outcome(q) ==
  IF q < Price(Height) THEN "reverted" ELSE IF q = Price(Height) THEN "duplicate" ELSE "updated"

Extend(tx, result, price) ==
  /\ Height < MaxHeight
  /\ chain' = Append(chain, [fork |-> forks, tx |-> tx, result |-> result, price |-> price])

\* A transaction also reverts while the updater role is withdrawn.
Mine(tx, authorized) ==
  /\ tx.nonce = AccountNonce
  /\ authorized \/ Cardinality({n \in Mined : Block(n).result = "reverted"}) < MaxReverts
  /\ LET result == IF authorized THEN Outcome(tx.quote) ELSE "reverted"
     IN  Extend(tx, result, IF result = "updated" THEN tx.quote ELSE Price(Height))
  /\ pool' = {t \in pool : t.nonce # tx.nonce}
  /\ UNCHANGED <<forks, foreign, quotes, row, pass, sent>>

\* The wallet's owner publishes quote q by hand, or sends something else (0).
SendByHand(q) ==
  /\ foreign < MaxForeign
  /\ Extend([quote |-> q, nonce |-> AccountNonce, attempt |-> 0], "updated", Max({q, Price(Height)}))
  /\ pool' = {t \in pool : t.nonce # AccountNonce}
  /\ foreign' = foreign + 1
  /\ UNCHANGED <<forks, quotes, row, pass, sent>>

AwaitsConfirmation == \E n \in (Finalized(Height) + 1)..Height : Block(n).tx # NoTx

MineEmpty ==
  /\ AwaitsConfirmation
  /\ Extend(NoTx, "none", Price(Height))
  /\ UNCHANGED <<pool, forks, foreign, quotes, row, pass, sent>>

\* The last blocks are replaced by empty ones of a new fork; their
\* transactions go back to the pool or are lost.
Reorg(depth, returned) ==
  LET keep == Len(chain) - depth
      dropped == {chain[i].tx : i \in (keep + 1)..Len(chain)} \ {NoTx}
  IN  /\ forks < MaxForks /\ depth <= Height
      /\ chain' = [i \in 1..Len(chain) |-> IF i <= keep THEN chain[i]
                     ELSE [fork |-> forks + 1, tx |-> NoTx, result |-> "none",
                           price |-> chain[keep].price]]
      /\ pool' = IF returned THEN pool \cup (dropped \cap sent) ELSE pool
      /\ forks' = forks + 1
      /\ UNCHANGED <<foreign, quotes, row, pass, sent>>

Lose(tx) ==
  /\ pool' = pool \ {tx}
  /\ UNCHANGED <<chain, forks, foreign, quotes, row, pass, sent>>

-----------------------------------------------------------------------------
\* collectPreUsdPrice: the provider may answer with an older quote than the
\* last one; a quote that is known already changes nothing.
CollectQuote(q) ==
  /\ q \notin quotes
  /\ quotes' = quotes \cup {q}
  /\ UNCHANGED <<chainVars, row, pass, sent>>

\* nextAttemptAt of a failed row is reached.
ReachNextAttempt(q) ==
  /\ pass.pc = "idle" /\ row[q].deferred
  /\ row' = [row EXCEPT ![q].deferred = FALSE]
  /\ UNCHANGED <<chainVars, quotes, pass, sent>>

BeginJob ==
  /\ pass.pc = "idle"
  /\ pass' = [IdlePass EXCEPT !.pc = "loop", !.head = Height,
                !.todo = {q \in Quotes : row[q].status \in InFlight}]
  /\ UNCHANGED <<chainVars, quotes, row, sent>>

NextOutstanding ==
  /\ pass.pc = "loop" /\ pass.todo # {}
  /\ pass' = [pass EXCEPT !.pc = "receipt", !.caller = "loop", !.live = TRUE,
                !.active = Min(pass.todo), !.todo = @ \ {Min(pass.todo)}]
  /\ UNCHANGED <<chainVars, quotes, row, sent>>

\* reconcilePublication returns: a row that waits ends the job, and so does
\* the row the job has just signed.
Returned(waiting) ==
  pass' = IF waiting \/ pass.caller = "signed" THEN IdlePass
          ELSE [pass EXCEPT !.pc = IF pass.caller = "loop" THEN "loop" ELSE "quote",
                            !.receipt = NoBlock]

\* Fault: the row becomes RECONCILING although it was never signed.
ThrewAlways(outage) ==
  /\ row' = IF pass.active # 0
            THEN [row EXCEPT ![pass.active].status = "RECONCILING"] ELSE row
  /\ pass' = [IdlePass EXCEPT !.outage = outage]

\* An error ends the job.  Its row becomes RECONCILING if it was in flight
\* when the job read it, whatever it has become since.
Threw(outage) ==
  /\ row' = IF pass.active # 0 /\ pass.live
            THEN [row EXCEPT ![pass.active].status = "RECONCILING"] ELSE row
  /\ pass' = [IdlePass EXCEPT !.outage = outage]

\* eth_getTransactionReceipt; the block hash is read in a later step.
ReadReceipt ==
  /\ pass.pc = "receipt"
  /\ LET mined == {n \in Mined : Block(n).tx = Transaction(pass.active)}
         n == Min(mined)
     IN  pass' = IF mined = {} THEN [pass EXCEPT !.pc = "nonces"]
                 ELSE [pass EXCEPT !.pc = "resolve",
                         !.receipt = [n |-> n, hash |-> Block(n).fork, result |-> Block(n).result]]
  /\ UNCHANGED <<chainVars, quotes, row, sent>>

\* Fault: a receipt in an unconfirmed block is taken as final.
ConfirmedEarly(e) == Canonical(e)

Confirmed(e) == e.n <= Finalized(pass.head) /\ Canonical(e)

\* Fault: a reverted transaction is recorded as published.
ResolvedReverted(e, q) == [row[q] EXCEPT !.status = "CONFIRMED", !.receipt = e]

Resolved(e, q) ==
  IF e.result = "reverted"
  THEN [row[q] EXCEPT !.status = "FAILED", !.receipt = e, !.deferred = TRUE]
  ELSE [row[q] EXCEPT !.status = "CONFIRMED", !.receipt = e, !.deferred = FALSE]

ResolveReceipt ==
  /\ pass.pc = "resolve"
  /\ LET q == pass.active
         e == pass.receipt
     IN  \/ /\ ~Confirmed(e)
            /\ row' = [row EXCEPT ![q].status = "RECONCILING"]
            /\ Returned(TRUE)
         \/ /\ Confirmed(e) /\ e.result # "duplicate"
            /\ row' = [row EXCEPT ![q] = Resolved(e, q)]
            /\ Returned(FALSE)
         \/ /\ Confirmed(e) /\ e.result = "duplicate"
            /\ pass' = [pass EXCEPT !.pc = "duplicate"]
            /\ UNCHANGED row
  /\ UNCHANGED <<chainVars, quotes, sent>>

\* The receipt has no event: the contract's quote at its block, which is read
\* by number, decides.  An older one is TRANSACTION_UNKNOWN.
CheckDuplicate ==
  /\ pass.pc = "duplicate"
  /\ LET q == pass.active
         current == Price(pass.receipt.n)
     IN  IF current >= q
         THEN /\ row' = [row EXCEPT ![q] =
                   [@ EXCEPT !.status = IF current > q THEN "SUPERSEDED" ELSE "CONFIRMED",
                             !.receipt = pass.receipt, !.deferred = FALSE]]
              /\ Returned(FALSE)
         ELSE Threw(FALSE)
  /\ UNCHANGED <<chainVars, quotes, sent>>

\* No receipt: the nonce may be used up ...
ReadLatestNonce ==
  /\ pass.pc = "nonces"
  /\ pass' = [pass EXCEPT !.pc = IF AccountNonce > row[pass.active].nonce
                                 THEN "consumed" ELSE "pending"]
  /\ UNCHANGED <<chainVars, quotes, row, sent>>

\* ... by another publication of this quote or a newer one, ...
ConsumedNonce ==
  /\ pass.pc = "consumed"
  /\ \/ /\ Price(Finalized(pass.head)) >= pass.active
        /\ row' = [row EXCEPT ![pass.active].status = "SUPERSEDED"]
        /\ Returned(FALSE)
     \/ Price(Finalized(pass.head)) < pass.active /\ Threw(FALSE)
  /\ UNCHANGED <<chainVars, quotes, sent>>

\* ... or an earlier one may be missing.
ReadPendingNonce ==
  /\ pass.pc = "pending"
  /\ \/ PendingNonce < row[pass.active].nonce /\ Threw(FALSE)
     \/ /\ PendingNonce >= row[pass.active].nonce
        /\ pass' = [pass EXCEPT !.pc = "broadcast"]
        /\ UNCHANGED row
  /\ UNCHANGED <<chainVars, quotes, sent>>

\* The same bytes are sent; the answer may be lost.
Broadcast(accepted, reply) ==
  /\ pass.pc = "broadcast"
  /\ LET tx == Transaction(pass.active)
         fresh == tx.nonce >= AccountNonce /\ \A t \in pool : t.nonce # tx.nonce
     IN  /\ IF "rpc" \in Moves THEN accepted => fresh ELSE accepted <=> fresh
         /\ reply = "accepted" => accepted
         /\ reply = "gas" => ~accepted
         /\ "rpc" \notin Moves => (reply = IF accepted THEN "accepted" ELSE "unknown")
         /\ pool' = IF accepted THEN pool \cup {tx} ELSE pool
         /\ pass' = [pass EXCEPT !.pc = "record", !.reply = reply,
                                 !.outage = fresh /\ ~accepted]
  /\ UNCHANGED <<chain, forks, foreign, quotes, row, sent>>

RecordBroadcast ==
  /\ pass.pc = "record"
  /\ row' = [row EXCEPT ![pass.active].status =
               IF pass.reply = "accepted" THEN "SUBMITTED" ELSE "RECONCILING"]
  /\ pass' = [IdlePass EXCEPT !.outage = pass.outage]
  /\ UNCHANGED <<chainVars, quotes, sent>>

-----------------------------------------------------------------------------
\* The resolved row with the newest receipt is reopened when a
\* reorganization replaced its block.
Settled ==
  {q \in Quotes : /\ row[q].status \in {"CONFIRMED", "FAILED", "SUPERSEDED"}
                  /\ row[q].nonce # -1 /\ row[q].receipt # NoBlock}
Newest == {q \in Settled : \A p \in Settled : row[p].receipt.n <= row[q].receipt.n}

CheckPrevious ==
  /\ pass.pc = "loop" /\ pass.todo = {}
  /\ \/ /\ \A q \in Newest : Canonical(row[q].receipt)
        /\ pass' = [pass EXCEPT !.pc = "quote", !.active = 0, !.live = FALSE]
        /\ UNCHANGED row
     \/ \E q \in Newest :
        /\ ~Canonical(row[q].receipt)
        /\ row' = [row EXCEPT ![q].status = "RECONCILING"]
        /\ pass' = [pass EXCEPT !.pc = "receipt", !.caller = "previous",
                      !.active = q, !.live = TRUE]
  /\ UNCHANGED <<chainVars, quotes, sent>>

\* Fault: only quotes without a row are published.
ReadQuoteNewest ==
  /\ pass.pc = "quote"
  /\ pass' = IF quotes = {} \/ row[Max(quotes)].status # "none" THEN IdlePass
             ELSE [pass EXCEPT !.pc = "sign", !.active = Max(quotes), !.live = FALSE]
  /\ row' = IF pass'.pc = "sign"
            THEN [row EXCEPT ![Max(quotes)].status = "PREPARED"] ELSE row
  /\ UNCHANGED <<chainVars, quotes, sent>>

\* publicationQuote and the comparison with the contract's own quote.
ReadQuote ==
  /\ pass.pc = "quote"
  /\ LET q == Max(quotes)
         current == Price(Height)
     IN  \/ quotes = {} /\ pass' = IdlePass /\ UNCHANGED row
         \/ /\ quotes # {} /\ current >= q
            /\ row' = [p \in Quotes |-> IF p <= current /\ row[p].status \in {"PREPARED", "FAILED"}
                                        THEN [row[p] EXCEPT !.status = "SUPERSEDED"] ELSE row[p]]
            /\ pass' = IdlePass
         \/ /\ quotes # {} /\ current < q
            /\ row' = IF row[q].status = "none"
                      THEN [row EXCEPT ![q].status = "PREPARED"] ELSE row
            /\ pass' = IF row[q].deferred THEN IdlePass
                       ELSE [pass EXCEPT !.pc = "sign", !.active = q,
                                         !.live = row[q].status \in InFlight]
  /\ UNCHANGED <<chainVars, quotes, sent>>

AboveLatest(p) == \A q \in Quotes : row[q].nonce < p
OtherInFlight(q) == \E p \in Quotes \ {q} : row[p].status \in InFlight

\* chain.sign simulates the call before it signs, and throws where it reverts.
SimulationFails(q) == Outcome(q) = "reverted"

\* The wallet-lock transaction.  (A row found in flight there would be sent
\* as it is; with one job at a time there is none.)
SignPublication ==
  /\ pass.pc = "sign"
  /\ LET q == pass.active
         refused == \/ OtherInFlight(q)
                    \/ PendingNonce # AccountNonce
                    \/ ~AboveLatest(PendingNonce)
                    \/ SimulationFails(q)
     IN  \/ refused /\ Threw(FALSE) /\ UNCHANGED sent
         \/ /\ ~refused
            /\ row' = [row EXCEPT ![q] =
                 [@ EXCEPT !.status = "SIGNED", !.nonce = PendingNonce,
                           !.attempts = row[q].attempts + 1,
                           !.receipt = NoBlock, !.deferred = FALSE]]
            /\ sent' = sent \cup {[quote |-> q, nonce |-> PendingNonce,
                                   attempt |-> row[q].attempts + 1]}
            /\ pass' = [pass EXCEPT !.pc = "receipt", !.caller = "signed", !.live = TRUE]
  /\ UNCHANGED <<chainVars, quotes>>

\* An RPC call, the readiness checks or the keystore fail.
CallFails ==
  /\ "rpc" \in Moves
  /\ pass.pc \in {"receipt", "resolve", "duplicate", "nonces", "consumed", "pending",
                 "broadcast", "quote", "sign"}
     \/ (pass.pc = "loop" /\ pass.todo = {})
  /\ Threw(TRUE)
  /\ UNCHANGED <<chainVars, quotes, sent>>

Crash ==
  /\ "crash" \in Moves /\ pass.pc # "idle"
  /\ pass' = [IdlePass EXCEPT !.outage = TRUE]
  /\ UNCHANGED <<chainVars, quotes, row, sent>>

-----------------------------------------------------------------------------
JobStep ==
  \/ BeginJob \/ NextOutstanding \/ ReadReceipt \/ ResolveReceipt
  \/ CheckDuplicate \/ ReadLatestNonce \/ ConsumedNonce \/ ReadPendingNonce
  \/ \E accepted \in BOOLEAN, reply \in {"accepted", "unknown", "gas"} :
       Broadcast(accepted, reply)
  \/ RecordBroadcast \/ CheckPrevious \/ ReadQuote \/ SignPublication

Next ==
  \/ \E tx \in pool, authorized \in BOOLEAN : Mine(tx, authorized)
  \/ \E tx \in pool : Lose(tx)
  \/ \E q \in ByHand : SendByHand(q)
  \/ MineEmpty
  \/ \E depth \in 1..MaxDepth, returned \in BOOLEAN : Reorg(depth, returned)
  \/ \E q \in Quotes : CollectQuote(q) \/ ReachNextAttempt(q)
  \/ JobStep \/ CallFails \/ Crash

Spec == Init /\ [][Next]_vars

\* A job starts every fifteen seconds and runs to its end; time passes, blocks
\* are mined, and a transaction that is sent again and again is executed.
\* Outages end.
Fairness ==
  /\ WF_vars(JobStep)
  /\ \A q \in Quotes : SF_vars(ReachNextAttempt(q))
  /\ WF_vars(MineEmpty)
  /\ SF_vars(\E tx \in pool : Mine(tx, TRUE))
  /\ <>[]~pass.outage

FairSpec == Spec /\ Fairness

-----------------------------------------------------------------------------
\* The publication journal implements the wallet reservation over
\* reorganizations of any depth, crashes and use of the wallet by hand.
Wallet == INSTANCE KeywordMarketWallet WITH
  Charges <- {}, Publications <- Quotes, Wallets <- {"updater"}, NoWallet <- "none",
  Nonces <- 0..MaxHeight, Attempts <- 0..(MaxHeight + 1), NonceRollback <- TRUE,
  state <- [q \in Quotes |-> IF row[q].status \in InFlight THEN "inFlight" ELSE "resting"],
  signer <- [q \in Quotes |-> IF row[q].nonce # -1 THEN "updater" ELSE "none"],
  nonce <- [q \in Quotes |-> row[q].nonce],
  attempts <- [q \in Quotes |-> row[q].attempts],
  sent <- {[row |-> t.quote, wallet |-> "updater", nonce |-> t.nonce,
            attempt |-> t.attempt] : t \in sent},
  accountNonce <- [w \in {"updater"} |-> AccountNonce]

ImplementsWallet == Wallet!Spec

\* No two publications are ever signed for one nonce: the later one would replace,
\* or be replaced by, one the journal still relies on.  (The wallet-lock transaction
\* of processPreUsdPricePublication.)
NonceNeverReused ==
  \A t, u \in sent : t.nonce = u.nonce => t.quote = u.quote /\ t.attempt = u.attempt

\* A CONFIRMED row whose receipt block is canonical was executed there: the
\* contract held that quote at the end of the block.  (reconcilePublication
\* reads receipt, hash and price in separate calls.)
ConfirmedIsPublished ==
  \A q \in Quotes :
    row[q].status = "CONFIRMED" /\ row[q].receipt # NoBlock /\ Canonical(row[q].receipt) =>
      Price(row[q].receipt.n) = q

\* For reorganizations shallower than Confirmations:

\* A quote recorded as CONFIRMED stays in force: the contract never again
\* holds an older one.  ("reorgs return the saved transaction to
\* reconciliation", docs/pre-usd-price.md:19, is then never needed.)
ConfirmedStaysPublished ==
  \A q \in Quotes : row[q].status = "CONFIRMED" => Price(Height) >= q

\* A transaction is resolved before another is prepared: of all the bytes
\* ever signed, at most one can still be executed, while nobody publishes by
\* hand.  ("resolves the transaction before preparing another",
\* docs/pre-usd-price.md:19.)
OneLiveTransaction ==
  Cardinality({t \in sent : t.nonce >= AccountNonce}) <= 1

\* As long as nobody else uses the wallet, a stored quote is eventually in
\* force, or a newer one is, in a final block, whatever calls fail on the way.
QuotesArePublished ==
  \A q \in Quotes : q \in quotes ~> Price(Finalized(Height)) >= q \/ foreign > 0
=============================================================================
