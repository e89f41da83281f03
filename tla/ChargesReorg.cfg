\* Two clicks that cost 1 and 2 against a stake of 2, so a settlement can be
\* partial; a deep reorganization that reopens batches and runs, and a
\* position that may be closed so that a transaction reverts.
CONSTANTS
  Stakes = {s1}
  InitialStake = 2
  Confirmations = 1
  InitialHeight = 1
  MaxHeight = 5
  MaxForks = 1
  MaxDepth = 2
  MaxStakeChanges = 1
  NoTx = NoTx
  NClicks = 2
  NRuns = 2
  Amount <- RisingAmounts
  ClickThreshold = 1
  InitialAuto = TRUE
  Moves = {}
SPECIFICATION Spec
INVARIANTS CheckpointCoversReceipts BooksAgree NonceNeverReused
CONSTRAINT LastBlockForOneClick
