------------------------ MODULE KeywordMarketChain ------------------------
(***************************************************************************)
(* The chain as the charge worker sees it through its RPC node: blocks,    *)
(* the transaction pool, the positions of the PREKeywordMarket contract    *)
(* and the charges it executed.  The contract and the node are outside the *)
(* repository; what they do is taken from how keyword-market-charges-      *)
(* chain.ts uses them.                                                     *)
(*                                                                         *)
(* A block is identified by its number and the fork that mined it: a fork  *)
(* mines a number at most once, so the fork stands for the block hash.  A  *)
(* reorganization replaces the last blocks by as many of a new fork at     *)
(* once, because a node only ever switches to a chain that is no shorter.  *)
(***************************************************************************)
EXTENDS Integers, Sequences, FiniteSets, FiniteSetsExt

CONSTANTS Stakes,           \* (keyword, staker) pairs
          InitialStake,     \* PRE deposited when a position is opened
          Confirmations,    \* keywordMarketConfirmations(...)
          InitialHeight,    \* blocks mined before the first click
          MaxHeight,        \* bound: height of the chain
          MaxForks,         \* bound: number of reorganizations
          MaxDepth,         \* blocks a reorganization may replace
          MaxStakeChanges,  \* bound: positions closed and reopened
          NoTx              \* a block without a charge transaction

ASSUME ChainAssumption ==
  /\ Confirmations \in Nat \ {0}
  /\ InitialStake \in Nat \ {0}
  /\ {InitialHeight, MaxHeight, MaxForks, MaxDepth, MaxStakeChanges} \subseteq Nat
  /\ InitialHeight <= MaxHeight /\ Stakes # {}

VARIABLES chain,     \* blocks; block number n is chain[n + 1]
          mempool,   \* transactions waiting at the node
          forks,     \* reorganizations so far
          changes    \* position changes so far

chainVars == <<chain, mempool, forks, changes>>

Height == Len(chain) - 1
Block(n) == chain[n + 1]
BlockHash(n) == Block(n).fork
Finalized(head) == IF head >= Confirmations THEN head - Confirmations ELSE 0

\* The projection's checkpoint (finalizedAdsBlock), one block nearer the head.
Projected(head) == Finalized(head + 1)

Position(s, n) == Block(n).position[s]
Mined == {n \in 0..Height : Block(n).tx # NoTx}
MinedIn(tx) == {n \in Mined : Block(n).tx = tx}
ChargedIn(charge) ==
  {n \in Mined : Block(n).tx.charge = charge /\ Block(n).result = "charged"}
Processed(charge) == ChargedIn(charge) # {}
AccountNonce == Cardinality(Mined)
PendingNonce ==
  Min({n \in AccountNonce..(AccountNonce + Cardinality(mempool)) :
         \A t \in mempool : t.nonce # n})

-----------------------------------------------------------------------------
\* chargeStake: a repeated charge id is a no-op without an event, a stale or
\* empty position reverts, and a charge takes at most what is staked.
Outcome(tx) ==
  LET p == Position(tx.stake, Height)
  IN  CASE Processed(tx.charge) -> "duplicate"
        [] ~Processed(tx.charge) /\ p.version = tx.version /\ p.amount > 0 -> "charged"
        [] OTHER -> "reverted"

Taken(tx) == Min({Position(tx.stake, Height).amount, tx.amount})

NewBlock(tx, result, charged, position) ==
  [fork |-> forks, tx |-> tx, result |-> result, charged |-> charged,
   position |-> position]

EmptyBlock(fork, position) ==
  [fork |-> fork, tx |-> NoTx, result |-> "none", charged |-> 0,
   position |-> position]

ChainInit ==
  /\ chain = [i \in 1..(InitialHeight + 1) |->
       EmptyBlock(0, [s \in Stakes |-> [version |-> 1, amount |-> InitialStake]])]
  /\ mempool = {}
  /\ forks = 0
  /\ changes = 0

MineTransaction(tx) ==
  /\ Height < MaxHeight
  /\ tx \in mempool
  /\ tx.nonce = AccountNonce
  /\ LET old == Block(Height).position
         charged == IF Outcome(tx) = "charged" THEN Taken(tx) ELSE 0
     IN  chain' = Append(chain, NewBlock(tx, Outcome(tx), charged,
                    [old EXCEPT ![tx.stake].amount = @ - charged]))
  /\ mempool' = {t \in mempool : t.nonce # tx.nonce}
  /\ UNCHANGED <<forks, changes>>

MineEmpty ==
  /\ Height < MaxHeight
  /\ chain' = Append(chain, EmptyBlock(forks, Block(Height).position))
  /\ UNCHANGED <<mempool, forks, changes>>

\* A staker withdraws, or opens the position again under a new version.
ChangeStake(s) ==
  /\ Height < MaxHeight
  /\ changes < MaxStakeChanges
  /\ LET p == Position(s, Height)
         q == IF p.amount > 0 THEN [p EXCEPT !.amount = 0]
              ELSE [version |-> p.version + 1, amount |-> InitialStake]
     IN  chain' = Append(chain,
                    EmptyBlock(forks, [Block(Height).position EXCEPT ![s] = q]))
  /\ changes' = changes + 1
  /\ UNCHANGED <<mempool, forks>>

\* The last `depth' blocks are replaced.  Either their transactions are mined
\* again at the same heights, or the replacements are empty and the
\* transactions go back to the pool or are lost.
Reorg(depth, again, returned) ==
  /\ forks < MaxForks
  /\ depth <= Height
  /\ LET keep == Len(chain) - depth
         dropped == {chain[i].tx : i \in (keep + 1)..Len(chain)} \ {NoTx}
     IN  /\ chain' = [i \in 1..Len(chain) |->
                       IF i <= keep THEN chain[i]
                       ELSE IF again THEN [chain[i] EXCEPT !.fork = forks + 1]
                       ELSE EmptyBlock(forks + 1, chain[keep].position)]
         /\ mempool' = IF again \/ ~returned THEN mempool ELSE mempool \cup dropped
  /\ forks' = forks + 1
  /\ UNCHANGED changes

\* The node forgets a pending transaction.
LoseTransaction(tx) ==
  /\ tx \in mempool
  /\ mempool' = mempool \ {tx}
  /\ UNCHANGED <<chain, forks, changes>>
=============================================================================
