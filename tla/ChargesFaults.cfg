\* One click under failing RPC calls, lost answers, crashes, manual runs and a
\* setting that is switched at any moment, with a reorganization no deeper than
\* the confirmations.  MaxHeight leaves room for every confirmation.
CONSTANTS
  Stakes = {s1}
  InitialStake = 1
  Confirmations = 1
  InitialHeight = 1
  MaxHeight = 6
  MaxForks = 1
  MaxDepth = 1
  MaxStakeChanges = 0
  NoTx = NoTx
  NClicks = 1
  NRuns = 1
  Amount <- UnitAmounts
  ClickThreshold = 2
  InitialAuto = TRUE
  Moves = {"rpc", "crash", "manual", "toggle"}
SPECIFICATION FairSpec
INVARIANTS PoolIsJournaled EvidenceBacksCharges
PROPERTIES SettlementIsFinal 
CONSTRAINT ForkOrManualWhileOff
