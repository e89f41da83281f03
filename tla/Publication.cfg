\* Two quotes under failing calls, lost answers and crashes, with a reverted
\* publication, a shallow reorganization and the newest quote published by hand.
\* MaxHeight leaves room for every retry and confirmation.
CONSTANTS
  NQuotes = 2
  Confirmations = 2
  MaxHeight = 10
  MaxForks = 1
  MaxDepth = 1
  MaxForeign = 1
  ByHand = {2}
  MaxReverts = 1
  NoTx = NoTx
  Moves = {"rpc", "crash"}
SPECIFICATION FairSpec
INVARIANT PublishedInv
PROPERTIES ImplementsWallet QuotesArePublished
