\* The escrow indexer with a stopping job, malformed logs, chunks of two blocks
\* and a fork, of the unconfirmed blocks at any moment, of any depth while nothing
\* is half done; the metadata of two goals, one of them per job; two overlapping
\* flushes of which one stops half-way; and one wallet with two charge batches and
\* a publication, whose executed nonces can be undone.
CONSTANTS
  Processes = {p1}
  Confirmations = 1
  ChunkSize = 2
  Kinds = {"event", "malformed"}
  MaxLogs = 1
  MaxHeight = 4
  MaxForks = 1
  MaxDepth = 1
  DeepWhenQuiet = TRUE
  MaxFailures = 1
  None = None
  Goals = {g1, g2}
  Limit = 1
  Documents = {"valid", "invalid", "missing"}
  MaxOutages = 1
  MaxWrites = 1
  MaxCrashes = 1
  Increments = {i1, i2}
  Batches = {k1, k2}
  Workers = {w1, w2}
  MaxStops = 1
  NoBatch = NoBatch
  Charges = {b1, b2}
  Publications = {q1}
  Wallets = {a1}
  NoWallet = NoWallet
  Nonces <- MCNonces
  Attempts <- MCAttempts
  NonceRollback = TRUE
SPECIFICATION ServicesSpec
INVARIANTS EventsInOrder FlushInvariant WalletInv PanelsInv
PROPERTY ServicesCatchUp
CHECK_DEADLOCK FALSE
