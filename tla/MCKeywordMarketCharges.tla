---------------------- MODULE MCKeywordMarketCharges ----------------------
(***************************************************************************)
(* Instances of KeywordMarketCharges for TLC: the PRE amounts of clicks.   *)
(***************************************************************************)
EXTENDS KeywordMarketCharges

UnitAmounts == [c \in Clicks |-> 1]
RisingAmounts == [c \in Clicks |-> c]

(* A state constraint: the last block is mined for a single click only,     *)
(* which suffices for a delayed attempt and keeps two clicks small.         *)
LastBlockForOneClick == Claimed > 1 => Height < MaxHeight

(* A state constraint: with a reorganization, a manual run and a setting    *)
(* switched off do not come together; without one they may.  No fairness is *)
(* assumed of the steps it refuses.                                         *)
ForkOrManualWhileOff ==
  forks > 0 /\ (\E r \in Runs : run[r].trigger = "MANUAL") => auto

(* The books of the charge worker agree: ledger and chain, batches and       *)
(* clicks, finished runs and their batches (settleBatch, reconcileBatch,     *)
(* refreshRuns).                                                             *)
BooksAgree == TypeOK /\ LedgerMatchesChain /\ ClicksFollowBatch /\ FinishedRunsAreSettled
=============================================================================
