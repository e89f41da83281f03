----------------------------- MODULE MarketRelease -----------------------------
(* Releasing a replacement of the Keyword Market with a fresh start             *)
(* (ops/cutover-keyword-market.sh, ops/reset-keyword-market.mjs,                *)
(* apps/worker/src/backfill.ts and keyword-market-readiness.ts).  The operator  *)
(* stops the services and keeps them stopped after a failure; the old market    *)
(* still mines what was signed, the Safe configures the new one, and any step   *)
(* may fail and be run again.                                                   *)
EXTENDS Naturals

CONSTANTS Signed,      \* transactions the worker may sign: charges and price publications
          MaxFailures

VARIABLES
  units,    \* "old", "none" or "new"
  journal,  \* the row of each transaction: see Statuses
  mined,    \* the transactions the chain has included
  tables,   \* the tables of the market: "old", "cut" (positions, events and cursor
            \* truncated), "empty" or "new"
  redis,    \* counters and queues of the old market are in Redis
  feature,  \* keywordMarketEnabled
  paused,   \* the new market, which the Safe unpauses
  priced,   \* it has a price updater and a first quote
  phase,    \* KEYWORD_MARKET_RELEASE_PHASE
  step,
  checked,  \* the state of the market that was confirmed
  cleared,  \* the journal when the tables were cleared, a history variable
  failures

releaseVars == <<units, journal, mined, tables, redis, feature, paused, priced, phase, step,
                 checked, cleared, failures>>

Statuses == {"none", "prepared", "signed", "submitted", "reconciling", "failed", "settled"}
Unresolved == {"signed", "submitted", "reconciling"}
Nobody == [t \in Signed |-> "none"]
NotChecked == [paused |-> TRUE, priced |-> FALSE]

ReleaseInit ==
  /\ units = "old" /\ journal = Nobody /\ mined = {} /\ tables = "old" /\ redis = TRUE
  /\ feature \in BOOLEAN /\ paused = TRUE /\ priced = FALSE
  /\ phase \in {"active", "preopen", "bootstrap"}
  /\ step = "idle" /\ checked = NotChecked /\ cleared = Nobody /\ failures = 0

At(s, next) == step = s /\ step' = next
World == <<journal, mined, paused, priced, phase, failures>>
OldData == <<tables, redis, cleared>>

-----------------------------------------------------------------------------
(* The old release, the chain and the Safe. *)

Moves == {<<"none", "prepared">>, <<"prepared", "signed">>, <<"signed", "submitted">>,
          <<"submitted", "reconciling">>}

\* The old worker prepares, signs, broadcasts and reconciles; a transaction that
\* was signed and is given up keeps its bytes in a failed row.
WorkerMoves(t) ==
  /\ units = "old" /\ tables = "old"
  /\ \E s \in Statuses :
       /\ \/ <<journal[t], s>> \in Moves
          \/ journal[t] \in Unresolved /\ s = "failed"
          \/ journal[t] \in Unresolved /\ t \in mined /\ s = "settled"
       /\ journal' = [journal EXCEPT ![t] = s]
  /\ UNCHANGED <<units, mined, OldData, feature, paused, priced, phase, step, checked, failures>>

\* What was signed can be mined at any time (external).
Mine(t) ==
  /\ journal[t] \notin {"none", "prepared"} \/ cleared[t] \notin {"none", "prepared"}
  /\ t \notin mined /\ mined' = mined \union {t}
  /\ UNCHANGED <<units, journal, OldData, feature, paused, priced, phase, step, checked, failures>>

\* The Safe pauses or unpauses the new market; the first quote (external).
Configure ==
  /\ \/ paused' = ~paused /\ UNCHANGED priced
     \/ ~priced /\ priced' = TRUE /\ UNCHANGED paused
  /\ UNCHANGED <<units, journal, mined, OldData, feature, phase, step, checked, failures>>

-----------------------------------------------------------------------------
(* The script. *)

\* The script does not ask for stopped units.
WithUnits == step = "idle"

\* Every unit has stopped; the operator did that, and the script refuses otherwise.
UnitsStopped == units = "none"

StopUnits ==
  /\ step = "idle" /\ units = "old" /\ units' = "none"
  /\ UNCHANGED <<World, OldData, feature, step, checked>>

\* The environments agree; the database is dumped and the dump restored elsewhere.
Prepare ==
  /\ At("idle", "migrate") /\ UnitsStopped
  /\ UNCHANGED <<units, World, OldData, feature, checked>>

\* Positions, events and cursor are truncated before the migrations and the seed;
\* then the feature is switched off.
MigrateWithFeature == feature

FeatureAfterMigration == FALSE

Migrate ==
  /\ At("migrate", "reset") /\ tables' = "cut" /\ feature' = FeatureAfterMigration
  /\ UNCHANGED <<units, World, redis, cleared, checked>>

\* Only what was broadcast keeps the reset from happening.
PendingBroadcast == \E t \in Signed : journal[t] \in {"submitted", "reconciling"}

\* A transaction is signed and its row has no receipt.
PendingJournal ==
  \E t \in Signed : journal[t] \in Unresolved \/ journal[t] = "failed"

\* resetKeywordMarket under exclusive locks: Redis is cleared before the commit.
ClearRedis ==
  /\ At("reset", "commit") /\ ~PendingJournal
  /\ redis' = FALSE
  /\ UNCHANGED <<units, World, tables, cleared, feature, checked>>

CommitReset ==
  /\ At("commit", "backfill")
  /\ tables' = "empty" /\ journal' = Nobody
  /\ cleared' = [t \in Signed |-> IF journal[t] = "none" THEN cleared[t] ELSE journal[t]]
  /\ UNCHANGED <<units, mined, redis, feature, paused, priced, phase, checked, failures>>


\* verifyKeywordMarketReadiness on the market as it is: active needs a price and
\* an unpaused market, preopen a paused one.
Ready ==
  /\ phase = "active" => priced /\ ~paused
  /\ phase = "preopen" => paused

\* The backfill projects the new market and verifies it, ...
Backfill ==
  /\ At("backfill", "check") /\ Ready /\ tables' = "new"
  /\ UNCHANGED <<units, World, redis, cleared, feature, checked>>

\* ... and check-keyword-market verifies it again.
CheckReadiness ==
  /\ At("check", "promote") /\ Ready
  /\ checked' = [paused |-> paused, priced |-> priced]
  /\ UNCHANGED <<units, World, OldData, feature>>

PromoteRelease ==
  /\ At("promote", "released") /\ units' = "new"
  /\ UNCHANGED <<World, OldData, feature, checked>>

\* The administrator enables the market.
EnableFeature ==
  /\ step = "released" /\ feature' = TRUE
  /\ UNCHANGED <<units, World, OldData, step, checked>>

\* A step fails, perhaps half done: the services stay stopped, and the script runs
\* again from its start.
Fails ==
  /\ step \notin {"idle", "released"} /\ failures < MaxFailures
  /\ step' = "idle" /\ failures' = failures + 1
  /\ tables' \in CASE step = "migrate" -> {tables, "cut"}
                   [] step = "backfill" -> {tables, "new"}
                   [] OTHER -> {tables}
  /\ redis' \in IF step = "reset" /\ ~PendingJournal THEN {redis, FALSE} ELSE {redis}
  /\ UNCHANGED <<units, journal, mined, cleared, feature, paused, priced, phase, checked>>

\* The operator gives the release up before the script has run.
GiveUp ==
  /\ step = "idle" /\ units = "none" /\ failures = 0
  /\ units' = "old"
  /\ UNCHANGED <<World, OldData, feature, step, checked>>

ReleaseNext ==
  \/ \E t \in Signed : WorkerMoves(t) \/ Mine(t)
  \/ Configure \/ StopUnits \/ Prepare \/ Migrate \/ ClearRedis \/ CommitReset \/ Backfill
  \/ CheckReadiness \/ PromoteRelease \/ EnableFeature \/ Fails \/ GiveUp

ReleaseSpec == ReleaseInit /\ [][ReleaseNext]_releaseVars

-----------------------------------------------------------------------------
(* Properties. *)

\* No signed transaction that may still be mined loses its journal to the reset,
\* whatever the worker was doing when it was stopped (resetKeywordMarket).
SignedIsNotForgotten ==
  \A t \in Signed : t \in mined /\ journal[t] = "none" => cleared[t] = "settled"

\* The new release starts on a projection of the new market that was verified for
\* its phase, with the feature off until the administrator enables it, whatever
\* failed and was run again before (cutover-keyword-market.sh).
ReleasedIsReady ==
  units = "new" =>
    /\ tables = "new" /\ ~redis
    /\ phase = "active" => checked.priced /\ ~checked.paused
    /\ step = "released"

\* Tables that were truncated or cleared belong to no release that runs, although a
\* failed attempt has already truncated them, and a market is never opened to the old
\* release's data (the trap of cutover-keyword-market.sh keeps the services stopped).
CutCleanly ==
  /\ units = "old" => tables = "old" /\ redis
  /\ step \in {"reset", "commit", "backfill", "check", "promote"} => ~feature /\ units = "none"

ReleaseInv == SignedIsNotForgotten /\ ReleasedIsReady /\ CutCleanly
=============================================================================
