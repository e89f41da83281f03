---------------------------- MODULE AdsIndexer ----------------------------
(***************************************************************************)
(* The Keyword Market indexer: ContractAdsChainSource.index in apps/       *)
(* worker/src/ads-chain-source.ts with the projection of ads-projection.ts *)
(* and the reset of packages/database/src/ads-projection.ts.  The worker's *)
(* index-ads job and the backfill command may run it at the same time, so  *)
(* it is a set of processes; between two of their RPC calls the chain may  *)
(* grow or reorganize.                                                     *)
(*                                                                         *)
(* A block holds the contract's logs and the contract's state after it.    *)
(* Its hash commits to all of its ancestors, so the hash of block n is the *)
(* chain up to n.  Block 1 is the deployment block.  Transactions keep     *)
(* their hash when another fork includes them again.  Bids, coverage and   *)
(* eligibility are stored as they come and are left out, as is verify(),   *)
(* which only compares constants of the deployment.                        *)
(***************************************************************************)
EXTENDS Integers, Sequences, FiniteSets, FiniteSetsExt, SequencesExt

CONSTANTS Processes,      \* the job and the backfill command
          Stakers,        \* positions of one keyword
          Confirmations,  \* keywordMarketConfirmations(...)
          ChunkSize,      \* INDEXER_LOG_BLOCK_RANGE
          MaxHeight,      \* bound: height of the chain
          MaxForks,       \* bound: reorganizations
          MaxDepth,       \* how far below the highest head a fork may start
          MaxStake,       \* bound: stake of a position
          MaxConfig,      \* bound: configuration changes
          MaxFailures,    \* bound: jobs that fail on an error or a crash
          FreshForks,     \* FALSE: the node may return to an abandoned fork
          None

ASSUME AdsIndexerAssumption ==
  /\ Confirmations \in Nat \ {0}
  /\ ChunkSize \in Nat \ {0}
  /\ {MaxHeight, MaxForks, MaxDepth, MaxStake, MaxConfig, MaxFailures} \subseteq Nat
  /\ FreshForks \in BOOLEAN

VARIABLES chain,     \* the canonical chain of the node
          forks,     \* reorganizations so far
          peak,      \* the highest head so far
          state,     \* the AdIndexerState row
          rows,      \* AdStakePosition rows
          events,    \* AdChainEvent rows
          job,       \* job[p]: local state of a run of index()
          failures

chainVars == <<chain, forks, peak>>
dbVars == <<state, rows, events>>
vars == <<chainVars, dbVars, job, failures>>

-----------------------------------------------------------------------------
\* The contract and the node.

Height == Len(chain)
Hash(n) == SubSeq(chain, 1, n)
Contract == chain[Height].contract

Nonce == Cardinality({n \in 1..Height : chain[n].logs # <<>>})

PositionChanged(s, stake, version) ==
  [name |-> "PositionChanged", staker |-> s, stake |-> stake,
   previous |-> Contract.stake[s], version |-> version, tx |-> Nonce]
StakeCharged(s) ==
  [name |-> "StakeCharged", staker |-> s, stake |-> 0, previous |-> 0,
   version |-> Contract.version[s], tx |-> Nonce]

NewContract(s, stake, version, config) ==
  [stake |-> [Contract.stake EXCEPT ![s] = stake],
   version |-> [Contract.version EXCEPT ![s] = version],
   config |-> config]

Mine(logs, contract) ==
  /\ Height < MaxHeight
  /\ \E fork \in IF FreshForks THEN {forks} ELSE 0..forks :
       chain' = Append(chain, [fork |-> fork, logs |-> logs, contract |-> contract])
  /\ peak' = Max({peak, Height + 1})
  /\ UNCHANGED <<forks, dbVars, job, failures>>

\* stake: opens a position under a new version, tops one up, or (with no
\* deposit) only changes the bid.
Stake(s) ==
  \E deposit \in 0..MaxStake :
    LET stake == Contract.stake[s] + deposit
        opens == Contract.stake[s] = 0
        version == Contract.version[s] + IF opens THEN 1 ELSE 0
    IN  /\ stake \in 1..MaxStake
        /\ Mine(<<PositionChanged(s, stake, version)>>,
                NewContract(s, stake, version, Contract.config))

\* unstake
Unstake(s) ==
  /\ Contract.stake[s] > 0
  /\ Mine(<<PositionChanged(s, 0, Contract.version[s])>>,
          NewContract(s, 0, Contract.version[s], Contract.config))

\* chargeStake
Charge(s) ==
  /\ Contract.stake[s] > 0
  /\ LET stake == Contract.stake[s] - 1
     IN  Mine(<<StakeCharged(s), PositionChanged(s, stake, Contract.version[s])>>,
              NewContract(s, stake, Contract.version[s], Contract.config))

\* The owner changes the minimum stake, the pause, an authority or the price.
Configure ==
  /\ Contract.config < MaxConfig
  /\ Mine(<<>>, [Contract EXCEPT !.config = @ + 1])

MineEmpty == Mine(<<>>, Contract)

\* The node leaves its fork; the new one is mined from there.
Reorganize ==
  /\ forks < MaxForks
  /\ \E n \in 1..(Height - 1) :
       /\ n >= peak - MaxDepth
       /\ chain' = Hash(n)
  /\ forks' = forks + 1
  /\ UNCHANGED <<peak, dbVars, job, failures>>

-----------------------------------------------------------------------------
\* What the node answers.

\* getContractEvents: the logs of some events in a range of blocks.
LogsOf(c, from, to, names) ==
  {[block |-> x[1], logIndex |-> x[2], log |-> c[x[1]].logs[x[2]]] :
     x \in {y \in (from..to) \X (1..2) :
              /\ y[1] <= Len(c)
              /\ y[2] <= Len(c[y[1]].logs)
              /\ c[y[1]].logs[y[2]].name \in names}}

\* eventAfter
EventAfter(x, y) == x.block > y.block \/ (x.block = y.block /\ x.logIndex > y.logIndex)

Sorted(logs) == SetToSortSeq(logs, LAMBDA x, y : EventAfter(y, x))

FinalizedAdsBlock(head) ==
  IF head > Confirmations - 1 THEN head - (Confirmations - 1) ELSE 0

-----------------------------------------------------------------------------
\* The projection.

At(x) == [block |-> x.block, logIndex |-> x.logIndex]

\* applyAdPositionChange
ApplyAdPositionChange(row, x) ==
  LET opened == \/ row = None
                \/ x.log.previous = 0 /\ x.log.stake > 0
                \/ row.version # x.log.version
      changed == row = None \/ row.stake # x.log.stake
  IN  IF row # None /\ ~EventAfter(x, row.position)
      THEN row
      ELSE [stake |-> x.log.stake, version |-> x.log.version,
            stakeSince |-> IF opened THEN At(x) ELSE row.stakeSince,
            amountSince |-> IF changed THEN At(x) ELSE row.amountSince,
            position |-> At(x)]

EventKey(x) == [tx |-> x.log.tx, logIndex |-> x.logIndex]

\* One log of a chunk: claimed by its transaction and index, then projected.
ApplyLog(db, x) ==
  IF \E e \in db.events : EventKey(e) = EventKey(x)
  THEN db
  ELSE [events |-> db.events \cup {x},
        rows |-> IF x.log.name = "PositionChanged"
                 THEN [db.rows EXCEPT ![x.log.staker] =
                         ApplyAdPositionChange(db.rows[x.log.staker], x)]
                 ELSE db.rows]

ApplyLogs(logs) == FoldLeft(ApplyLog, [events |-> events, rows |-> rows], Sorted(logs))

\* Fault: the checkpoint stores the first block not indexed.
AdvanceOneFurther(block, hash, config) ==
  [block |-> block + 1, hash |-> hash, config |-> config]

\* advanceAdsIndexerState; `config' is None when no snapshot was taken.
AdvanceAdsIndexerState(block, hash, config) ==
  IF state # None /\ state.block > block
  THEN state
  ELSE LET kept == IF state = None THEN None ELSE state.config
       IN  [block |-> block, hash |-> hash,
            config |-> IF config = None THEN kept ELSE config]

SameCheckpoint(x, y) ==
  /\ (x = None) = (y = None)
  /\ x # None => x.block = y.block /\ x.hash = y.hash

NoRows == [s \in Stakers |-> None]

-----------------------------------------------------------------------------
\* index(): every step up to an RPC call or a transaction is one action, and
\* an error ends the job without a trace in the database.

IdleJob == [pc |-> "idle", safe |-> 0, seen |-> None, start |-> 0, hash |-> None,
            unread |-> {}, logs |-> {}, config |-> None]

Init ==
  /\ chain = <<[fork |-> 0, logs |-> <<>>,
               contract |-> [stake |-> [s \in Stakers |-> 0],
                             version |-> [s \in Stakers |-> 0], config |-> 0]]>>
  /\ forks = 0 /\ peak = 1
  /\ state = None /\ rows = NoRows /\ events = {}
  /\ job = [p \in Processes |-> IdleJob]
  /\ failures = 0

Pc(p, pc) == job[p].pc = pc
Set(p, j) == job' = [job EXCEPT ![p] = j]
Go(p, pc) == Set(p, [job[p] EXCEPT !.pc = pc])
Stop(p) == Set(p, IdleJob)

End(p) == Min({job[p].start + ChunkSize - 1, job[p].safe})
Canonical(c) == c.block <= Height /\ Hash(c.block) = c.hash

\* The head is read; a deployment without enough confirmations is left alone.
Begin(p) ==
  /\ Pc(p, "idle")
  /\ FinalizedAdsBlock(Height) >= 1
  /\ Set(p, [IdleJob EXCEPT !.pc = "state", !.safe = FinalizedAdsBlock(Height)])
  /\ UNCHANGED <<chainVars, dbVars, failures>>

ReadState(p) ==
  /\ Pc(p, "state")
  /\ Set(p, [job[p] EXCEPT
       !.pc = IF state = None THEN "chunk" ELSE "checkpoint",
       !.seen = IF state = None THEN None ELSE [block |-> state.block, hash |-> state.hash],
       !.start = IF state = None THEN 1 ELSE state.block + 1])
  /\ UNCHANGED <<chainVars, dbVars, failures>>

\* Fault: a checkpoint on an abandoned fork is an error and not a reset.
CheckWithoutReset(p) ==
  /\ Pc(p, "checkpoint")
  /\ IF ~Canonical(job[p].seen) \/ job[p].seen.block > job[p].safe
     THEN Stop(p)
     ELSE Go(p, IF job[p].seen.block = job[p].safe THEN "refresh" ELSE "chunk")
  /\ UNCHANGED <<chainVars, dbVars, failures>>

\* The checkpoint is compared with the canonical block of its number.
CheckState(p) ==
  LET j == job[p]
  IN  /\ Pc(p, "checkpoint")
      /\ \/ j.seen.block > Height /\ Stop(p)
         \/ /\ j.seen.block <= Height /\ Hash(j.seen.block) # j.seen.hash
            /\ Go(p, "reset")
         \/ /\ Canonical(j.seen) /\ j.seen.block > j.safe
            /\ Stop(p)
         \/ /\ Canonical(j.seen) /\ j.seen.block = j.safe
            /\ Go(p, "refresh")
         \/ /\ Canonical(j.seen) /\ j.seen.block < j.safe
            /\ Go(p, "chunk")
      /\ UNCHANGED <<chainVars, dbVars, failures>>

\* resetAdsProjectionAfterReorg: one transaction clears the projection.
ResetAdsProjection(p) ==
  /\ Pc(p, "reset")
  /\ state' = None /\ rows' = NoRows /\ events' = {}
  /\ Set(p, [job[p] EXCEPT !.pc = "chunk", !.seen = None, !.start = 1])
  /\ UNCHANGED <<chainVars, failures>>

\* contractSnapshot
Snapshot(p, n, next) ==
  \/ n > Height /\ Stop(p)
  \/ /\ n <= Height
     /\ Set(p, [job[p] EXCEPT !.pc = next,
                !.config = [value |-> chain[n].contract.config, block |-> n]])

\* Fault: the checkpoint is not compared again.
AssertNothing(p, next) == Go(p, next)

\* assertCanonicalCheckpoint
AssertCanonical(p, next) ==
  IF job[p].seen = None \/ Canonical(job[p].seen) THEN Go(p, next) ELSE Stop(p)

\* Nothing to index: only the configuration is refreshed.
ReadConfig(p) ==
  /\ Pc(p, "refresh")
  /\ Snapshot(p, job[p].safe, "recheck")
  /\ UNCHANGED <<chainVars, dbVars, failures>>

\* The same comparison on the refresh path, where there is a checkpoint.
RecheckState(p) ==
  /\ Pc(p, "recheck")
  /\ IF Canonical(job[p].seen) THEN Go(p, "save") ELSE Stop(p)
  /\ UNCHANGED <<chainVars, dbVars, failures>>

\* Fault: a stale job stores its configuration without looking at the row.
SaveConfigBlindly(p) ==
  LET seen == job[p].seen
  IN  /\ Pc(p, "save")
      /\ state' = AdvanceAdsIndexerState(seen.block, seen.hash, job[p].config)
      /\ Stop(p)
      /\ UNCHANGED <<chainVars, rows, events, failures>>

SaveConfig(p) ==
  LET seen == job[p].seen
  IN  /\ Pc(p, "save")
      /\ state' = IF SameCheckpoint(state, seen)
                  THEN AdvanceAdsIndexerState(seen.block, seen.hash, job[p].config)
                  ELSE state
      /\ Stop(p)
      /\ UNCHANGED <<chainVars, rows, events, failures>>

\* A chunk of blocks.
CheckBefore(p) ==
  /\ Pc(p, "chunk")
  /\ AssertCanonical(p, "end")
  /\ UNCHANGED <<chainVars, dbVars, failures>>

ReadEnd(p) ==
  /\ Pc(p, "end")
  /\ IF End(p) > Height
     THEN Stop(p)
     ELSE Set(p, [job[p] EXCEPT !.pc = "logs", !.hash = Hash(End(p)), !.logs = {},
                    !.unread = {"PositionChanged", "StakeCharged"}])
  /\ UNCHANGED <<chainVars, dbVars, failures>>

\* The two queries run concurrently and are answered in either order.
ReadLogs(p) ==
  /\ Pc(p, "logs")
  /\ \E name \in job[p].unread :
       LET left == job[p].unread \ {name}
       IN  Set(p, [job[p] EXCEPT
             !.logs = @ \cup LogsOf(chain, job[p].start, End(p), {name}),
             !.unread = left,
             !.pc = IF left # {} THEN "logs"
                    ELSE IF End(p) = job[p].safe THEN "snapshot" ELSE "again"])
  /\ UNCHANGED <<chainVars, dbVars, failures>>

ReadSnapshot(p) ==
  /\ Pc(p, "snapshot")
  /\ Snapshot(p, End(p), "again")
  /\ UNCHANGED <<chainVars, dbVars, failures>>

\* Fault: the end of the chunk is not read again.
ReadEndOnce(p) ==
  /\ Pc(p, "again")
  /\ Go(p, "after")
  /\ UNCHANGED <<chainVars, dbVars, failures>>

ReadEndAgain(p) ==
  /\ Pc(p, "again")
  /\ IF Canonical([block |-> End(p), hash |-> job[p].hash])
     THEN Go(p, "after")
     ELSE Stop(p)
  /\ UNCHANGED <<chainVars, dbVars, failures>>

CheckAfter(p) ==
  /\ Pc(p, "after")
  /\ AssertCanonical(p, "commit")
  /\ UNCHANGED <<chainVars, dbVars, failures>>

Projected(p) ==
  LET db == ApplyLogs(job[p].logs)
  IN  /\ state' = AdvanceAdsIndexerState(End(p), job[p].hash, job[p].config)
      /\ rows' = db.rows /\ events' = db.events

NextChunk(p) ==
  IF End(p) = job[p].safe
  THEN Stop(p)
  ELSE Set(p, [job[p] EXCEPT !.pc = "chunk", !.start = End(p) + 1, !.logs = {},
                 !.seen = [block |-> End(p), hash |-> job[p].hash],
                 !.hash = None])

\* Fault: the transaction does not look at the checkpoint.
CommitBlindly(p) ==
  /\ Pc(p, "commit")
  /\ Projected(p) /\ NextChunk(p)
  /\ UNCHANGED <<chainVars, failures>>

\* The serializable transaction; another job's checkpoint aborts it.
CommitChunk(p) ==
  /\ Pc(p, "commit")
  /\ IF SameCheckpoint(state, job[p].seen)
     THEN Projected(p) /\ NextChunk(p)
     ELSE Stop(p) /\ UNCHANGED dbVars
  /\ UNCHANGED <<chainVars, failures>>

\* An RPC or database error, or the process stops.
Fail(p) ==
  /\ job[p].pc # "idle"
  /\ failures < MaxFailures
  /\ failures' = failures + 1
  /\ Stop(p)
  /\ UNCHANGED <<chainVars, dbVars>>

IndexStep(p) ==
  \/ Begin(p) \/ ReadState(p) \/ CheckState(p) \/ ResetAdsProjection(p)
  \/ ReadConfig(p) \/ RecheckState(p) \/ SaveConfig(p)
  \/ CheckBefore(p) \/ ReadEnd(p) \/ ReadLogs(p) \/ ReadSnapshot(p)
  \/ ReadEndAgain(p) \/ CheckAfter(p) \/ CommitChunk(p)

ChainStep ==
  \/ \E s \in Stakers : Stake(s) \/ Unstake(s) \/ Charge(s)
  \/ Configure \/ MineEmpty \/ Reorganize

Next ==
  \/ ChainStep
  \/ \E p \in Processes : IndexStep(p) \/ Fail(p)

Spec == Init /\ [][Next]_vars

\* The job is scheduled every 15 seconds and the network keeps mining.
FairSpec ==
  /\ Spec
  /\ WF_vars(MineEmpty)
  /\ \A p \in Processes : WF_vars(IndexStep(p))

-----------------------------------------------------------------------------
\* Properties.

Positions == [block : 1..MaxHeight, logIndex : 1..2]

TypeOK ==
  /\ Height \in 1..MaxHeight /\ forks \in 0..MaxForks /\ peak \in Height..MaxHeight
  /\ state = None \/ (state.block \in 1..MaxHeight /\ Len(state.hash) = state.block)
  /\ \A s \in Stakers : rows[s] = None \/
       /\ rows[s].stake \in 0..MaxStake
       /\ {rows[s].stakeSince, rows[s].amountSince, rows[s].position} \subseteq Positions
  /\ \A p \in Processes : job[p].pc = "idle" => job[p] = IdleJob

\* What the log of a fork says of a position, without replaying it: the opening
\* is the last log that leaves an empty position, the amount is as old as the
\* oldest log since which the stake has not changed.
PositionLogs(c, s) ==
  {x \in LogsOf(c, 1, Len(c), {"PositionChanged"}) : x.log.staker = s}
Latest(logs) == CHOOSE x \in logs : \A y \in logs : ~EventAfter(y, x)
Earliest(logs) == CHOOSE x \in logs : \A y \in logs : ~EventAfter(x, y)

ReferenceRow(c, s) ==
  LET logs == PositionLogs(c, s)
      last == Latest(logs)
      opening == Latest({x \in logs : x.log.previous = 0 /\ x.log.stake > 0})
      steady == {x \in logs : \A y \in logs : ~EventAfter(x, y) => y.log.stake = last.log.stake}
  IN  IF logs = {} THEN None
      ELSE [stake |-> last.log.stake, version |-> last.log.version,
            stakeSince |-> At(opening), amountSince |-> At(Earliest(steady)),
            position |-> At(last)]

\* The projection is the log of exactly the fork whose block hash the checkpoint
\* names, up to that block: whatever reorganizations hit the reads of a job, jobs
\* that overlap and jobs that fail, no event of another fork is in it, none is
\* missing or applied twice, and each position carries the opening and amount age
\* that the ranking and the billing use.
ProjectionIsOneFork ==
  LET c == IF state = None THEN <<>> ELSE state.hash
  IN  /\ events = LogsOf(c, 1, Len(c), {"PositionChanged", "StakeCharged"})
      /\ \A s \in Stakers : rows[s] = ReferenceRow(c, s)

\* The configuration the API serves is the contract's at the block it is stored
\* for, on the checkpoint's own fork.
ConfigurationIsOfItsBlock ==
  state # None /\ state.config # None =>
    /\ state.config.block <= state.block
    /\ state.config.value = state.hash[state.config.block].contract.config

\* Until it is reset the checkpoint only moves along its own fork: a delayed job
\* never takes it back, nor sideways, and it never takes the configuration back.
CheckpointFollowsOneFork ==
  [][state # None /\ state' # None =>
       /\ IsPrefix(state.hash, state'.hash)
       /\ state.config # None => state'.config.block >= state.config.block]_vars

\* Once the chain rests, the projection holds its finalized part and its configuration.
Synced ==
  /\ state # None
  /\ state.hash = Hash(FinalizedAdsBlock(Height))
  /\ state.config = [value |-> chain[state.block].contract.config, block |-> state.block]
EventuallySynced == <>[]Synced

=============================================================================
