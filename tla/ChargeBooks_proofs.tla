------------------------- MODULE ChargeBooks_proofs -------------------------
(***************************************************************************)
(* The books of the charge worker agree with each other and with the chain *)
(* for every number of clicks, runs and stakes, every schedule of passes,  *)
(* crashes, lost answers and failing calls, and reorganizations of every   *)
(* depth.  While no reorganization replaces more blocks than the worker    *)
(* waits for, what it settled stays settled, what the network may still    *)
(* execute is in its journal, and only proven clicks are charged.          *)
(***************************************************************************)
EXTENDS KeywordMarketCharges_proofs

-----------------------------------------------------------------------------
(* The books.                                                              *)

\* The fork a pass reads is still the one its finalized block is on; what it has read
\* or written below that block is then on the chain.
AtFork(p) == BlockHash(Finalized(p.head)) = p.seen[Finalized(p.head)]
OneFork(p, e) == AtFork(p) => Canonical(e)

\* The finalized block of the running pass, or the least one of the next.
LedgerHead == IF pass.pc = "idle" THEN Height ELSE pass.head

\* A position whose deposit a batch was made for is used up or withdrawn.
Gone(b, n) ==
  LET p == Position(batch[b].stake, n)
  IN  p.version > batch[b].version \/ (p.version = batch[b].version /\ p.amount = 0)

\* What a block proves of the batch whose receipt it is.
Proves(b) ==
  LET n == batch[b].receipt.n
  IN  /\ batch[b].status \in {"CONFIRMED", "PARTIAL"} =>
           n \in ChargedIn(b) /\ batch[b].charged = Block(n).charged
      /\ batch[b].status = "UNCOLLECTABLE" => ~Processed(b) /\ Gone(b, n)
      /\ batch[b].status = "FAILED" =>
           Block(n).tx = Transaction(b) /\ Block(n).result = "reverted"

Closed == Terminal \cup {"FAILED"}
HasReceipt(b) == batch[b].status \in Closed /\ batch[b].receipt # NoBlock

RowBooks(b) ==
  /\ batch[b].status = "none" => batch[b].receipt = NoBlock
  /\ batch[b].status = "FAILED" => Signed(b) /\ batch[b].receipt # NoBlock
  /\ batch[b].receipt # NoBlock =>
       batch[b].receipt.hash \in 0..forks /\ batch[b].receipt.n <= Finalized(LedgerHead)
  /\ batch[b].receipt # NoBlock /\ Canonical(batch[b].receipt) => Proves(b)
  /\ checkpoint # NoBlock /\ Canonical(checkpoint)
       /\ batch[b].status \in Terminal /\ batch[b].receipt # NoBlock
       /\ batch[b].receipt.n <= checkpoint.n => Canonical(batch[b].receipt)

\* The bid a click was captured with is of the position it was captured for.
ClickBooks(c) ==
  /\ click[c].status \in {"none", "CAPTURING"} => click[c].bid = NoBlock
  /\ click[c].status \in {"PRICE_PENDING", "PENDING"} \/ click[c].batch # 0 =>
       click[c].bid # NoBlock
  /\ click[c].bid # NoBlock => click[c].bid.n \in 0..Height /\ click[c].bid.hash \in 0..forks
  /\ click[c].bid # NoBlock /\ Canonical(click[c].bid) =>
       Position(click[c].stake, click[c].bid.n).version = click[c].version
  /\ click[c].batch # 0 => /\ click[c].stake = batch[click[c].batch].stake
                           /\ click[c].version = batch[click[c].batch].version

\* Every transaction of a batch names its position.
SameTerms ==
  \A t \in sent : t.stake = batch[t.charge].stake /\ t.version = batch[t.charge].version

CheckpointKnown ==
  checkpoint # NoBlock => checkpoint.n \in 0..Height /\ checkpoint.hash \in 0..forks

\* The local state of a pass.
RunPhase(p) ==
  \/ p.pc \in {"refresh", "plan", "run", "prepare", "finish"} \cup PrepareSteps
  \/ p.pc \in SignedSteps /\ p.run # 0
Judged(p, b) == HasReceipt(b) => OneFork(p, batch[b].receipt)
Reading(p) ==
  /\ p.seen[Finalized(p.head)] # -1
  /\ \A n \in 0..MaxHeight : p.seen[n] # -1 =>
       /\ n <= Finalized(p.head) /\ p.seen[n] \in 0..forks
       /\ OneFork(p, [n |-> n, hash |-> p.seen[n]])
Phase(p) ==
  /\ p.run # 0 => p.blocked = "none"
  /\ p.pc \in SignedSteps \cup {"fetch", "reconcile"} => p.blocked = "none"
  /\ p.pc \in {"fetch", "reconcile", "settings"} => p.run = 0
  /\ p.pc = "settings" => p.blocked # "none"
Checked(p) ==
  /\ p.pc = "fetch" /\ p.previous =>
       checkpoint # NoBlock /\ checkpoint.n <= Finalized(p.head) /\ OneFork(p, checkpoint)
  /\ p.pc # "fetch" /\ p.blocked = "none" =>
       \A b \in Batches : Judged(p, b) \/ (~RunPhase(p) /\ b \in p.todo \cup {p.batch})
  /\ RunPhase(p) /\ p.blocked = "none" =>
       checkpoint = [n |-> Finalized(p.head), hash |-> p.seen[Finalized(p.head)]]
PassBooks == pass.pc # "idle" => Reading(pass) /\ Phase(pass) /\ Checked(pass)

Books ==
  /\ \A b \in Batches : RowBooks(b)
  /\ \A c \in Clicks : ClickBooks(c)
  /\ SameTerms /\ CheckpointKnown /\ PassBooks
BooksInv == TableInv /\ Books

-----------------------------------------------------------------------------
\* What the chain says of a block does not change when the chain does not.
ChainSame == chain' = chain /\ forks' = forks

\* What the books read of a row.
KeepRow(b) ==
  /\ batch'[b].status = batch[b].status /\ batch'[b].receipt = batch[b].receipt
  /\ batch'[b].nonce = batch[b].nonce /\ batch'[b].attempts = batch[b].attempts
  /\ batch'[b].stake = batch[b].stake /\ batch'[b].version = batch[b].version
  /\ batch'[b].due = batch[b].due /\ batch'[b].charged = batch[b].charged

LEMMA SameBlocks ==
  ASSUME ChainSame
  PROVE  /\ Height' = Height /\ \A n : Block(n)' = Block(n) /\ BlockHash(n)' = BlockHash(n)
         /\ \A e : Canonical(e)' = Canonical(e)
         /\ \A b : ChargedIn(b)' = ChargedIn(b) /\ Processed(b)' = Processed(b)
         /\ \A s, n : Position(s, n)' = Position(s, n)
<1>1. Height' = Height /\ \A n : Block(n)' = Block(n) /\ BlockHash(n)' = BlockHash(n)
  BY DEF ChainSame, Height, Block, BlockHash
<1>2. \A e : Canonical(e)' = Canonical(e)
  BY DEF ChainSame, Height, Block, BlockHash, Canonical
<1>3. \A b : ChargedIn(b)' = ChargedIn(b) /\ Processed(b)' = Processed(b)
  BY DEF ChainSame, Height, Block, ChargedIn, Processed, Mined
<1>4. \A s, n : Position(s, n)' = Position(s, n)
  BY DEF ChainSame, Position, Block
<1> QED
  BY <1>1, <1>2, <1>3, <1>4

HeadKept == Finalized(LedgerHead) <= Finalized(LedgerHead)'

\* The least finalized block is one of the chain.
LEMMA LedgerFinal ==
  ASSUME TableInv
  PROVE  /\ Finalized(LedgerHead) \in 0..Height
         /\ pass.pc # "idle" => Finalized(LedgerHead) = PassFinalized
<1>1. NodeShape /\ PassFields(pass)
  BY DEF TableInv, Tables, PassTypes
<1>2. Height \in Nat /\ Finalized(Height) \in 0..Height /\ PassFinalized \in 0..Height
  BY <1>1, NodeFacts, FinalizedBound, PassFinalizedBound
<1> QED
  BY <1>2 DEF LedgerHead, PassFinalized

LEMMA LedgerFinalInt == TableInv => Finalized(LedgerHead) \in Int
  BY LedgerFinal

LEMMA RowKept ==
  ASSUME TableInv, NEW b \in Batches, RowBooks(b), ChainSame,
         HeadKept, TableInv', KeepRow(b),
         checkpoint' # NoBlock /\ Canonical(checkpoint')
           /\ batch[b].status \in Terminal /\ batch[b].receipt # NoBlock
           /\ batch[b].receipt.n <= checkpoint'.n => Canonical(batch[b].receipt)
  PROVE  RowBooks(b)'
<1>1. Transaction(b)' = Transaction(b) /\ Signed(b)' = Signed(b)
  BY DEF Transaction, Signed, KeepRow
<1>2. batch[b].receipt.n \in Int
  BY DEF TableInv, Tables, RowTypes, BatchRecords, BlockRefs
<1>3. Finalized(LedgerHead) \in Int /\ Finalized(LedgerHead)' \in Int
  <2>1. Finalized(LedgerHead) \in Int
    BY LedgerFinal
  <2>2. (TableInv => Finalized(LedgerHead) \in Int)'
    BY LedgerFinalInt, PTL
  <2> QED
    BY <2>1, <2>2
<1>4. Proves(b)' = Proves(b)
  BY <1>1, SameBlocks DEF Proves, KeepRow, Gone
<1>5. (batch[b].receipt.n <= Finalized(LedgerHead)) => (batch[b].receipt.n <= Finalized(LedgerHead)')
  BY <1>2, <1>3 DEF HeadKept
<1> HIDE DEF Finalized, LedgerHead
<1>6. Canonical(batch[b].receipt)' = Canonical(batch[b].receipt)
  BY SameBlocks DEF KeepRow, Canonical
<1>7. Canonical(checkpoint)' = Canonical(checkpoint')
  BY SameBlocks DEF Canonical
<1> QED
  BY <1>1, <1>4, <1>5, <1>6, <1>7 DEF RowBooks, KeepRow, ChainSame

LEMMA RowSame ==
  ASSUME TableInv, NEW b \in Batches, RowBooks(b), ChainSame, checkpoint' = checkpoint,
         HeadKept, TableInv', KeepRow(b)
  PROVE  RowBooks(b)'
  BY RowKept DEF RowBooks

\* A batch that is open, or open again, proves nothing yet.
LEMMA RowOpens ==
  ASSUME TableInv, TableInv', NEW b \in Batches, RowBooks(b), ChainSame, HeadKept,
         batch'[b].status \in InFlight \cup {"PREPARED"},
         batch'[b].receipt \in {batch[b].receipt, NoBlock}
  PROVE  RowBooks(b)'
<1>1. batch'[b].status \notin Terminal \cup {"FAILED", "none", "CONFIRMED", "PARTIAL", "UNCOLLECTABLE"}
  BY DEF InFlight, Terminal
<1>2. batch[b].receipt.n \in Int
  BY DEF TableInv, Tables, RowTypes, BatchRecords, BlockRefs
<1>3. Finalized(LedgerHead) \in Int /\ Finalized(LedgerHead)' \in Int
  <2>1. Finalized(LedgerHead) \in Int
    BY LedgerFinalInt
  <2>2. (TableInv => Finalized(LedgerHead) \in Int)'
    BY LedgerFinalInt, PTL
  <2> QED
    BY <2>1, <2>2
<1>4. (batch[b].receipt.n <= Finalized(LedgerHead)) => (batch[b].receipt.n <= Finalized(LedgerHead)')
  BY <1>2, <1>3 DEF HeadKept
<1>5. Proves(b)'
  BY <1>1 DEF Proves
<1> HIDE DEF Finalized, LedgerHead
<1> QED
  BY <1>1, <1>4, <1>5 DEF RowBooks, ChainSame

\* A block of the chain as evidence.
LEMMA OnChain ==
  ASSUME NodeShape, NEW n \in 0..Height
  PROVE  Canonical([n |-> n, hash |-> BlockHash(n)])
  BY NodeFacts DEF Canonical

LEMMA RowSettles ==
  ASSUME TableInv, TableInv', NEW b \in Batches, ChainSame,
         NEW n \in ChargedIn(b), n <= Finalized(LedgerHead)',
         batch'[b].status \in {"CONFIRMED", "PARTIAL"}, batch'[b].charged = Block(n).charged,
         batch'[b].receipt = [n |-> n, hash |-> BlockHash(n)]
  PROVE  RowBooks(b)'
<1>1. NodeShape /\ n \in 0..Height
  BY DEF TableInv, Tables, ChargedIn, Mined
<1>2. batch'[b].receipt # NoBlock /\ batch'[b].receipt.n = n
      /\ batch'[b].receipt.hash \in 0..forks /\ Canonical(batch'[b].receipt)
  BY <1>1, BlockRef, OnChain
<1>3. Canonical(batch[b].receipt)'
  BY <1>2, SameBlocks DEF Canonical
<1>4. Proves(b)'
  BY <1>2, SameBlocks DEF Proves
<1> QED
  BY <1>2, <1>3, <1>4 DEF RowBooks, ChainSame

LEMMA RowFails ==
  ASSUME TableInv, TableInv', NEW b \in Batches, ChainSame, Signed(b),
         NEW n \in 0..Height, n <= Finalized(LedgerHead)',
         Block(n).tx = Transaction(b), Block(n).result = "reverted",
         batch'[b].status = "FAILED", batch'[b].receipt = [n |-> n, hash |-> BlockHash(n)],
         batch'[b].nonce = batch[b].nonce, batch'[b].attempts = batch[b].attempts,
         batch'[b].stake = batch[b].stake, batch'[b].version = batch[b].version,
         batch'[b].due = batch[b].due
  PROVE  RowBooks(b)'
<1>1. NodeShape
  BY DEF TableInv, Tables
<1>2. batch'[b].receipt # NoBlock /\ batch'[b].receipt.n = n
      /\ batch'[b].receipt.hash \in 0..forks /\ Canonical(batch'[b].receipt)
  BY <1>1, BlockRef, OnChain
<1>3. Transaction(b)' = Transaction(b) /\ Signed(b)'
  BY DEF Transaction, Signed
<1>4. Proves(b)'
  BY <1>2, <1>3, SameBlocks DEF Proves
<1> QED
  BY <1>2, <1>3, <1>4 DEF RowBooks, ChainSame, Terminal

\* The clicks keep what they were captured with, and the rows what they charge for.
KeepClick(c) ==
  /\ click'[c].bid = click[c].bid /\ click'[c].stake = click[c].stake
  /\ click'[c].version = click[c].version /\ click'[c].batch = click[c].batch
  /\ click'[c].status \in {"none", "CAPTURING"} => click[c].status \in {"none", "CAPTURING"}
  /\ click'[c].status \in {"PRICE_PENDING", "PENDING"} =>
       click[c].status \in {"PRICE_PENDING", "PENDING"}
KeepTerms(b) == batch'[b].stake = batch[b].stake /\ batch'[b].version = batch[b].version

LEMMA ClickKept ==
  ASSUME TableInv, ChainSame, NEW c \in Clicks, ClickBooks(c), KeepClick(c),
         \A b \in Batches : click[c].batch = b => KeepTerms(b)
  PROVE  ClickBooks(c)'
<1>1. click[c].batch \in Batches \cup {0}
  BY DEF TableInv, Tables, RowTypes, ClickRecords
<1>2. Canonical(click[c].bid)' = Canonical(click[c].bid)
  BY SameBlocks DEF KeepClick, Canonical
<1>3. Position(click[c].stake, click[c].bid.n)' = Position(click[c].stake, click[c].bid.n)
  BY SameBlocks DEF KeepClick, Position
<1> HIDE DEF Position
<1> QED
  BY <1>1, <1>2, <1>3, SameBlocks DEF ClickBooks, KeepClick, KeepTerms, ChainSame

\* Nothing of the books but the local state of the pass changes.
LEMMA QuietBooks ==
  ASSUME BooksInv, TableInv', ChainSame, checkpoint' = checkpoint, sent' = sent, HeadKept,
         \A b \in Batches : RowBooks(b)' /\ KeepTerms(b),
         \A c \in Clicks : KeepClick(c), PassBooks'
  PROVE  Books'
<1>1. \A c \in Clicks : ClickBooks(c)'
  BY ClickKept DEF BooksInv, Books
<1>2. SameTerms'
  <2>1. \A t \in sent : t.charge \in Batches
    BY DEF BooksInv, TableInv, Tables, NodeShape, Transactions
  <2> QED
    BY <2>1 DEF BooksInv, Books, SameTerms, KeepTerms
<1>3. CheckpointKnown'
  BY SameBlocks DEF BooksInv, Books, CheckpointKnown, ChainSame
<1> QED
  BY <1>1, <1>2, <1>3 DEF Books

-----------------------------------------------------------------------------
(* The local state of the pass. *)

LEMMA HeadStays ==
  ASSUME TableInv, ChainSame, pass.pc = "idle" => pass' = pass,
         pass'.pc = "idle" \/ pass'.head = pass.head
  PROVE  HeadKept
<1>1. NodeShape /\ PassFields(pass)
  BY DEF TableInv, Tables, PassTypes
<1>2. Height \in Nat /\ pass.head \in Nat /\ pass.head <= Height
  BY <1>1, NodeFacts, PassFinalizedBound
<1>3. /\ Finalized(Height) \in Int /\ Finalized(pass.head) \in Int
      /\ Finalized(pass.head) <= Finalized(Height)
  BY <1>2, FinalizedBound
<1>4. Height' = Height
  BY SameBlocks
<1>5. CASE pass.pc = "idle"
  <2>1. LedgerHead' = LedgerHead /\ LedgerHead = Height
    BY <1>4, <1>5 DEF LedgerHead
  <2>2. Finalized(LedgerHead)' = Finalized(Height)
    BY <2>1 DEF Finalized
  <2> QED
    BY <1>3, <2>1, <2>2 DEF HeadKept
<1>6. CASE pass.pc # "idle"
  <2>1. LedgerHead = pass.head /\ LedgerHead' \in {pass.head, Height}
    BY <1>4, <1>6 DEF LedgerHead
  <2>2. Finalized(LedgerHead)' \in {Finalized(pass.head), Finalized(Height)}
    BY <2>1 DEF Finalized
  <2> QED
    BY <1>3, <2>1, <2>2 DEF HeadKept
<1> QED
  BY <1>5, <1>6

LEMMA SameReading ==
  ASSUME ChainSame, NEW p, NEW q, q.head = p.head, q.seen = p.seen, Reading(p)
  PROVE  Reading(q) /\ Reading(q)'
<1>1. Reading(q)
  BY DEF Reading, OneFork, AtFork
<1> QED
  BY <1>1, SameBlocks DEF Reading, OneFork, AtFork, ChainSame

\* Reading more blocks below the finalized one.
LEMMA ReadMore ==
  ASSUME TableInv, Reading(pass), NEW ns \in SUBSET (0..PassFinalized), NEW q,
         q.head = pass.head, q.seen = Seen(ns)
  PROVE  /\ Reading(q) /\ q.seen[PassFinalized] = pass.seen[PassFinalized]
         /\ \A n \in ns : q.seen[n] = Hash(n) /\ q.seen[n] # -1
<1>1. NodeShape /\ PassFields(pass)
  BY DEF TableInv, Tables, PassTypes
<1>2. /\ PassFinalized \in 0..Height /\ PassFinalized \in 0..MaxHeight /\ Height \in 0..MaxHeight
      /\ MaxHeight \in Nat
  BY <1>1, PassFinalizedBound, NodeFacts, ChainAssumption
<1>3. \A n \in 0..MaxHeight : q.seen[n] = IF n \in ns THEN Hash(n) ELSE pass.seen[n]
  BY DEF Seen
<1>4. \A n \in 0..MaxHeight : pass.seen[n] # -1 => q.seen[n] = pass.seen[n]
  BY <1>3 DEF Hash
<1>5. q.seen[PassFinalized] = pass.seen[PassFinalized] /\ Finalized(q.head) = PassFinalized
  BY <1>2, <1>4 DEF Reading, PassFinalized
<1>6. \A n \in ns : n \in 0..MaxHeight /\ n \in 0..Height /\ n <= PassFinalized
  BY <1>2
<1>7. \A n \in 0..MaxHeight : pass.seen[n] = -1 /\ q.seen[n] # -1 =>
        n \in ns /\ q.seen[n] = BlockHash(n)
  BY <1>3 DEF Hash
<1>8. ASSUME NEW n \in 0..MaxHeight, q.seen[n] # -1
      PROVE  /\ n <= PassFinalized /\ q.seen[n] \in 0..forks
             /\ OneFork(q, [n |-> n, hash |-> q.seen[n]])
  <2>1. CASE pass.seen[n] = -1
    <3>1. n \in ns /\ q.seen[n] = BlockHash(n)
      BY <1>7, <1>8, <2>1
    <3> QED
      BY <1>1, <1>6, <3>1, BlockRef, OnChain DEF OneFork
  <2>2. CASE pass.seen[n] # -1
    <3>1. q.seen[n] = pass.seen[n] /\ (AtFork(q) <=> AtFork(pass))
      BY <1>4, <1>5, <2>2 DEF AtFork, PassFinalized
    <3> QED
      BY <2>2, <3>1 DEF Reading, OneFork, PassFinalized
  <2> QED
    BY <2>1, <2>2
<1>9. Reading(q)
  <2>1. q.seen[Finalized(q.head)] # -1
    BY <1>5 DEF Reading, PassFinalized
  <2> QED
    BY <1>5, <1>8, <2>1 DEF Reading
<1>10. \A n \in ns : q.seen[n] = Hash(n) /\ q.seen[n] # -1
  <2> SUFFICES ASSUME NEW n \in ns
               PROVE  q.seen[n] = Hash(n) /\ q.seen[n] # -1
    OBVIOUS
  <2>1. q.seen[n] = Hash(n) /\ n \in 0..Height
    BY <1>3, <1>6
  <2>2. BlockHash(n) \in 0..forks /\ forks \in Nat
    BY <1>1, <2>1, BlockRef, NodeFacts
  <2>3. BlockHash(n) # -1
    BY <2>2
  <2> QED
    BY <2>1, <2>3 DEF Hash
<1> QED
  BY <1>5, <1>9, <1>10

\* A row that the pass judged stays so unless it changes.
LEMMA JudgedKept ==
  ASSUME ChainSame, NEW b, NEW q, q.head = pass.head,
         q.seen[PassFinalized] = pass.seen[PassFinalized],
         \/ KeepRow(b) /\ Judged(pass, b)
         \/ batch'[b].status \notin Closed \/ batch'[b].receipt = NoBlock
         \/ Canonical(batch'[b].receipt)
  PROVE  Judged(q, b)'
<1>1. AtFork(q)' <=> AtFork(pass)
  BY SameBlocks DEF AtFork, PassFinalized
<1>2. Canonical(batch[b].receipt)' <=> Canonical(batch'[b].receipt)
  BY SameBlocks DEF Canonical
<1> QED
  BY <1>1, <1>2 DEF Judged, HasReceipt, OneFork, KeepRow

\* The pass goes on: what is not judged yet is still on its list.
LEMMA GoesOn ==
  ASSUME BooksInv, ChainSame, checkpoint' = checkpoint, pass.pc \notin {"idle", "fetch"},
         NEW q, pass' = q, q.pc # "fetch", q.head = pass.head,
         q.seen[PassFinalized] = pass.seen[PassFinalized], Reading(q), Phase(q),
         q.blocked = "none" => pass.blocked = "none", RunPhase(q) => RunPhase(pass),
         \A b \in Batches : Judged(pass, b) => Judged(q, b)',
         \A b \in Batches : b \in pass.todo \cup {pass.batch} =>
           RunPhase(pass) \/ b \in q.todo \cup {q.batch} \/ Judged(q, b)'
  PROVE  PassBooks'
<1>1. Reading(q)'
  BY SameReading
<1>2. Finalized(q.head) = PassFinalized /\ Checked(pass)
  BY DEF PassFinalized, BooksInv, Books, PassBooks
<1>3. q.blocked = "none" => \A b \in Batches : Judged(q, b)'
                                            \/ (~RunPhase(q) /\ b \in q.todo \cup {q.batch})
  BY <1>2 DEF Checked
<1>4. RunPhase(q) /\ q.blocked = "none" =>
        checkpoint' = [n |-> Finalized(q.head), hash |-> q.seen[Finalized(q.head)]]
  BY <1>2 DEF Checked, PassFinalized
<1>5. Checked(q)'
  BY <1>3, <1>4 DEF Checked
<1>6. Reading(pass)' /\ Phase(pass)' /\ Checked(pass)'
  BY <1>1, <1>5 DEF Reading, Phase, Checked, OneFork, AtFork, RunPhase, Judged
<1> QED
  BY <1>6 DEF PassBooks

\* Working on a batch of a run, or signing one, follows a checkpoint.
LEMMA WorkingPhase ==
  ASSUME TableInv, pass.pc \in SignedSteps \cup PrepareSteps
  PROVE  /\ pass.pc \notin {"idle", "fetch"} /\ pass.batch \in Batches
         /\ pass.run # 0 => RunPhase(pass)
         /\ pass.pc \in PrepareSteps => pass.run # 0
         /\ pass.run = 0 => ~RunPhase(pass)
         /\ RunPhase(pass) <=> pass.run # 0
  BY DEF RunPhase, SignedSteps, PrepareSteps, TableInv, JournalInv, PassShape

LEMMA ReturnedBooks ==
  ASSUME BooksInv, ChainSame, checkpoint' = checkpoint,
         pass.pc \notin {"idle", "fetch"}, NEW p, PassFields(p), p.head = pass.head,
         p.seen[PassFinalized] = pass.seen[PassFinalized], Reading(p),
         p.blocked = "none", pass.blocked = "none", p.run # 0 => RunPhase(pass),
         NEW w, pass' = Returned(p, w),
         \A b \in Batches : Judged(pass, b) => Judged(p, b)',
         \A b \in Batches : b \in pass.todo \cup {pass.batch} =>
           RunPhase(pass) \/ b \in p.todo \/ Judged(p, b)'
  PROVE  PassBooks' /\ pass'.head = pass.head
<1>1. PICK q : q = Returned(p, w)
  OBVIOUS
<1>2. /\ q.head = p.head /\ q.seen = p.seen /\ q.todo = p.todo /\ q.blocked = p.blocked
      /\ q.run = p.run
      /\ q.pc = IF p.run = 0 THEN "reconcile"
                ELSE IF p.waiting \/ w THEN "finish" ELSE "prepare"
  <2>1. CASE p.run = 0
    <3>1. q = [p EXCEPT !.pc = "reconcile", !.waiting = @ \/ w,
                        !.refresh = @ \cup {batch[p.batch].run}, !.batch = 0]
      BY <1>1, <2>1 DEF Returned
    <3> QED
      BY <2>1, <3>1 DEF PassFields, IdlePass
  <2>2. CASE p.run # 0
    <3>1. q = [p EXCEPT !.pc = IF p.waiting \/ w THEN "finish" ELSE "prepare",
                        !.waiting = @ \/ w, !.batch = 0]
      BY <1>1, <2>2 DEF Returned
    <3> QED
      BY <2>2, <3>1 DEF PassFields, IdlePass
  <2> QED
    BY <2>1, <2>2
<1>3. Reading(q)
  BY <1>2, SameReading
<1>4. Phase(q)
  BY <1>2 DEF Phase, SignedSteps
<1>5. q.pc # "fetch" /\ (RunPhase(q) => RunPhase(pass))
  BY <1>2 DEF RunPhase, SignedSteps, PrepareSteps
<1>6. \A b \in Batches : Judged(p, b)' => Judged(q, b)'
  BY <1>2 DEF Judged, OneFork, AtFork
<1>7. /\ \A b \in Batches : Judged(pass, b) => Judged(q, b)'
      /\ \A b \in Batches : b \in pass.todo \cup {pass.batch} =>
           RunPhase(pass) \/ b \in q.todo \cup {q.batch} \/ Judged(q, b)'
  BY <1>2, <1>6
<1>8. pass' = q /\ q.head = pass.head /\ q.seen[PassFinalized] = pass.seen[PassFinalized]
  BY <1>1, <1>2
<1> QED
  BY <1>2, <1>3, <1>4, <1>5, <1>7, <1>8, GoesOn

LEMMA ThrewBooks ==
  ASSUME BooksInv, ChainSame, checkpoint' = checkpoint,
         pass.pc \notin {"idle", "fetch"}, NEW p, PassFields(p), p.head = pass.head,
         p.seen[PassFinalized] = pass.seen[PassFinalized], Reading(p),
         p.blocked = "none", pass.blocked = "none", p.run # 0 => RunPhase(pass),
         NEW error, error # "none", pass' = Threw(p, error),
         p.run # 0 => \A b \in Batches : Judged(pass, b) => Judged(p, b)'
  PROVE  PassBooks' /\ pass'.head = pass.head
<1>1. PICK q : q = Threw(p, error)
  OBVIOUS
<1>2. CASE p.run = 0
  <2>1. q = [p EXCEPT !.pc = "settings", !.blocked = error, !.batch = 0]
    BY <1>1, <1>2 DEF Threw
  <2>2. /\ q.head = p.head /\ q.seen = p.seen /\ q.blocked # "none" /\ q.run = 0
        /\ q.pc = "settings"
    BY <1>2, <2>1 DEF PassFields, IdlePass
  <2>3. Reading(q)'
    BY <2>2, SameReading
  <2>4. Phase(q) /\ Checked(q)'
    BY <2>2 DEF Phase, Checked, SignedSteps, PrepareSteps, RunPhase
  <2>5. pass' = q
    BY <1>1
  <2>6. Reading(pass)' /\ Phase(pass)' /\ Checked(pass)'
    BY <2>3, <2>4, <2>5 DEF Reading, Phase, Checked, OneFork, AtFork, RunPhase, Judged
  <2> QED
    BY <2>2, <2>5, <2>6 DEF PassBooks
<1>3. CASE p.run # 0
  <2>1. q = [p EXCEPT !.pc = IF error = "orphaned" THEN "prepare" ELSE "finish",
                      !.failure = error, !.batch = 0]
    BY <1>1, <1>3 DEF Threw
  <2>2. /\ q.head = p.head /\ q.seen = p.seen /\ q.blocked = p.blocked /\ q.run = p.run
        /\ q.pc \in {"prepare", "finish"}
    BY <2>1 DEF PassFields, IdlePass
  <2>3. Reading(q)
    BY <2>2, SameReading
  <2>4. Phase(q)
    BY <2>2 DEF Phase, SignedSteps
  <2>5. q.pc # "fetch" /\ RunPhase(pass)
    BY <1>3, <2>2
  <2>6. \A b \in Batches : Judged(pass, b) => Judged(q, b)'
    BY <1>3, <2>2 DEF Judged, OneFork, AtFork
  <2>7. pass' = q /\ q.head = pass.head /\ q.seen[PassFinalized] = pass.seen[PassFinalized]
    BY <1>1, <2>2
  <2> QED
    BY <2>2, <2>3, <2>4, <2>5, <2>6, <2>7, GoesOn
<1> QED
  BY <1>2, <1>3

\* Rows and clicks keep what the books read of them.
LEMMA SameRows ==
  ASSUME BooksInv, TableInv', ChainSame, checkpoint' = checkpoint, sent' = sent,
         \A b \in Batches : KeepRow(b), \A c \in Clicks : KeepClick(c),
         pass.pc = "idle" => pass' = pass, pass'.pc = "idle" \/ pass'.head = pass.head, PassBooks'
  PROVE  Books'
<1>1. HeadKept
  BY HeadStays DEF BooksInv
<1>2. \A b \in Batches : RowBooks(b)' /\ KeepTerms(b)
  BY <1>1, RowSame DEF BooksInv, Books, KeepRow, KeepTerms
<1> QED
  BY <1>1, <1>2, QuietBooks

LEMMA SamePassBooks ==
  ASSUME BooksInv, ChainSame, checkpoint' = checkpoint, pass' = pass,
         \A b \in Batches : KeepRow(b)
  PROVE  PassBooks'
<1>1. PICK q : q = pass
  OBVIOUS
<1>2. CASE pass.pc = "idle"
  BY <1>2 DEF PassBooks
<1>3. CASE pass.pc # "idle"
  <2>1. Reading(q) /\ Phase(q)
    BY <1>1, <1>3 DEF BooksInv, Books, PassBooks
  <2>2. Reading(q)'
    BY <2>1, SameReading
  <2>3. \A b \in Batches : Judged(pass, b) => Judged(q, b)'
    BY <1>1, JudgedKept
  <2>4. Checked(pass)
    BY <1>3 DEF BooksInv, Books, PassBooks
  <2>5. \A e : OneFork(q, e) => OneFork(q, e)'
    BY SameBlocks DEF OneFork, AtFork
  <2>6. Checked(q)'
    BY <1>1, <2>3, <2>4, <2>5 DEF Checked
  <2>7. Reading(pass)' /\ Phase(pass)' /\ Checked(pass)'
    BY <1>1, <2>1, <2>2, <2>6 DEF Reading, Phase, Checked, OneFork, AtFork, RunPhase, Judged
  <2> QED
    BY <2>7 DEF PassBooks
<1> QED
  BY <1>2, <1>3

-----------------------------------------------------------------------------
(* The steps of the API and of time, and the start of a pass. *)

LEMMA ClaimClickBooks ==
  ASSUME BooksInv, TableInv', NEW s \in Stakes, ClaimClick(s)
  PROVE  Books'
<1>1. PICK c : c = Claimed + 1
  OBVIOUS
<1>2. /\ ChainSame /\ batch' = batch /\ checkpoint' = checkpoint /\ pass' = pass
      /\ sent' = sent
  BY DEF ClaimClick, chainVars, ChainSame
<1>3. PICK v : click' = [click EXCEPT ![c] = [@ EXCEPT !.status = "CAPTURING", !.stake = s,
                                                      !.version = v]]
  BY <1>1 DEF ClaimClick
<1>4. click \in [Clicks -> ClickRecords] /\ ClickOrder /\ NodeShape /\ LinkShape
  BY DEF BooksInv, TableInv, Tables, RowTypes, LinkShape
<1>5. c \in Clicks /\ Claimed \in Nat
  BY <1>1, <1>4, ClaimedBound, ChargeAssumption DEF ClaimClick, Clicks
<1>6. click[c].status = "none" /\ click[c].batch = 0
  BY <1>1, <1>4, <1>5 DEF ClickOrder, LinkShape, Unbatched
<1>7. \A b \in Batches : RowBooks(b)' /\ KeepTerms(b)
  <2>1. HeadKept
    BY <1>2, HeadStays DEF BooksInv
  <2> QED
    BY <1>2, <2>1, RowSame DEF BooksInv, Books, KeepRow, KeepTerms
<1>8. PassBooks'
  BY <1>2, SamePassBooks DEF KeepRow
<1>9. ASSUME NEW d \in Clicks
      PROVE  ClickBooks(d)'
  <2>1. CASE d = c
    <3>1. click'[c].status = "CAPTURING" /\ click'[c].bid = click[c].bid /\ click'[c].batch = 0
      BY <1>3, <1>4, <1>5, <1>6 DEF ClickRecords
    <3>2. click[c].bid = NoBlock
      BY <1>5, <1>6 DEF BooksInv, Books, ClickBooks
    <3> QED
      BY <2>1, <3>1, <3>2 DEF ClickBooks
  <2>2. CASE d # c
    <3>1. click'[d] = click[d]
      BY <1>3, <1>4, <2>2
    <3> QED
      BY <1>2, <1>7, <3>1, ClickKept DEF BooksInv, Books, KeepClick
  <2> QED
    BY <2>1, <2>2
<1>10. SameTerms' /\ CheckpointKnown'
  BY <1>2, SameBlocks DEF BooksInv, Books, SameTerms, CheckpointKnown, ChainSame
<1> QED
  BY <1>7, <1>8, <1>9, <1>10 DEF Books

LEMMA FinishCaptureBooks ==
  ASSUME BooksInv, TableInv', NEW c \in Clicks, NEW n \in {Height, Projected(Height)},
         NEW priced \in BOOLEAN, FinishCapture(c, n, priced)
  PROVE  Books'
<1> DEFINE p == Position(click[c].stake, n)
           e == [n |-> n, hash |-> BlockHash(n)]
           unbilled == [click[c] EXCEPT !.status = "UNBILLED"]
           price == IF priced THEN e ELSE NoBlock
           status == IF ~priced THEN "PRICE_PENDING"
                     ELSE IF Amount[c] = 0 THEN "SETTLED" ELSE "PENDING"
           billed == [click[c] EXCEPT !.bid = e, !.price = price, !.status = status]
<1>1. /\ ChainSame /\ batch' = batch /\ checkpoint' = checkpoint /\ pass' = pass
      /\ sent' = sent
  BY DEF FinishCapture, chainVars, ChainSame
<1>2. click \in [Clicks -> ClickRecords] /\ NodeShape /\ LinkShape
  BY DEF BooksInv, TableInv, Tables, RowTypes
<1>3. n \in 0..Height
  BY <1>2, NodeFacts, ProjectedBound
<1>4. /\ click[c].status = "CAPTURING" /\ click[c].batch = 0 /\ click[c].bid = NoBlock
      /\ click[c] \in ClickRecords
  BY <1>2 DEF FinishCapture, LinkShape, Unbatched, BooksInv, Books, ClickBooks
<1>5. \/ click' = [click EXCEPT ![c] = unbilled]
      \/ click' = [click EXCEPT ![c] = billed] /\ p.version = click[c].version
  BY DEF FinishCapture
<1>6. e # NoBlock /\ e.n = n /\ e.hash \in 0..forks /\ n \in 0..Height
  BY <1>2, <1>3, BlockRef
<1>7. p.version = Position(click[c].stake, e.n).version
  OBVIOUS
<1> HIDE DEF e, p, status, price
<1>8. /\ unbilled.status = "UNBILLED" /\ unbilled.bid = NoBlock /\ unbilled.batch = 0
      /\ billed.bid = e /\ billed.batch = 0 /\ billed.stake = click[c].stake
      /\ billed.version = click[c].version
  BY <1>4 DEF ClickRecords
<1>9. billed.status \in {"PRICE_PENDING", "SETTLED", "PENDING"}
  BY <1>4 DEF ClickRecords, status
<1>10. \A b \in Batches : RowBooks(b)' /\ KeepTerms(b)
  <2>1. HeadKept
    BY <1>1, HeadStays DEF BooksInv
  <2> QED
    BY <1>1, <2>1, RowSame DEF BooksInv, Books, KeepRow, KeepTerms
<1>11. PassBooks'
  BY <1>1, SamePassBooks DEF KeepRow
<1> HIDE DEF unbilled, billed
<1>12. ASSUME NEW d \in Clicks
       PROVE  ClickBooks(d)'
  <2>1. CASE d # c
    <3>1. click'[d] = click[d]
      BY <1>2, <1>5, <2>1
    <3> QED
      BY <1>1, <1>10, <3>1, ClickKept DEF BooksInv, Books, KeepClick
  <2>2. CASE d = c /\ click' = [click EXCEPT ![c] = unbilled]
    <3>1. click'[d] = unbilled
      BY <1>2, <2>2
    <3> QED
      BY <1>8, <3>1 DEF ClickBooks
  <2>3. CASE d = c /\ click' = [click EXCEPT ![c] = billed] /\ p.version = click[c].version
    <3>1. click'[d] = billed
      BY <1>2, <2>3
    <3>2. /\ click'[d].bid = e /\ click'[d].batch = 0 /\ click'[d].stake = click[c].stake
          /\ click'[d].version = click[c].version
          /\ click'[d].status \notin {"none", "CAPTURING"}
      BY <1>8, <1>9, <3>1
    <3>3. Block(n)' = Block(n) /\ click'[d].bid.n = n
      BY <1>1, <1>6, <3>2, SameBlocks
    <3>4. (Position(click[d].stake, click[d].bid.n).version = click[d].version)'
      BY <2>3, <3>2, <3>3 DEF Position, p
    <3>5. e.n \in 0..Height' /\ e.hash \in 0..forks'
      BY <1>1, <1>6, SameBlocks DEF ChainSame
    <3> QED
      BY <1>6, <3>2, <3>4, <3>5 DEF ClickBooks
  <2> QED
    BY <1>5, <2>1, <2>2, <2>3
<1>13. SameTerms' /\ CheckpointKnown'
  BY <1>1, SameBlocks DEF BooksInv, Books, SameTerms, CheckpointKnown, ChainSame
<1> QED
  BY <1>10, <1>11, <1>12, <1>13 DEF Books

\* Steps that leave all the books read as it is.
LEMMA QuietApiBooks ==
  ASSUME BooksInv, TableInv',
         \/ ToggleAutomatic \/ \E enqueued \in BOOLEAN : RequestManualRun(enqueued)
         \/ \E c \in Clicks : Age(c)
         \/ \E b \in Batches : ReachNextAttempt(b)
         \/ UNCHANGED vars
  PROVE  Books'
<1>1. ChainSame /\ checkpoint' = checkpoint /\ sent' = sent /\ pass' = pass
  BY DEF ToggleAutomatic, RequestManualRun, Age, ReachNextAttempt, chainVars, vars, dbVars,
         ChainSame
<1>2. click \in [Clicks -> ClickRecords] /\ batch \in [Batches -> BatchRecords]
  BY DEF BooksInv, TableInv, Tables, RowTypes
<1>3. \A b \in Batches : KeepRow(b)
  <2>1. CASE batch' = batch
    BY <2>1 DEF KeepRow
  <2>2. ASSUME NEW d \in Batches, batch' = [batch EXCEPT ![d].deferred = FALSE]
        PROVE  \A b \in Batches : KeepRow(b)
    BY <1>2, <2>2 DEF KeepRow, BatchRecords
  <2> QED
    BY <2>1, <2>2 DEF ToggleAutomatic, RequestManualRun, Age, ReachNextAttempt, vars, dbVars
<1>4. \A c \in Clicks : KeepClick(c)
  <2>1. CASE click' = click
    BY <2>1 DEF KeepClick
  <2>2. ASSUME NEW d \in Clicks, click' = [click EXCEPT ![d].aged = TRUE]
        PROVE  \A c \in Clicks : KeepClick(c)
    BY <1>2, <2>2 DEF KeepClick, ClickRecords
  <2> QED
    BY <2>1, <2>2 DEF ToggleAutomatic, RequestManualRun, Age, ReachNextAttempt, vars, dbVars
<1>5. PassBooks'
  BY <1>1, <1>3, SamePassBooks
<1> QED
  BY <1>1, <1>3, <1>4, <1>5, SameRows

LEMMA BeginPassBooks ==
  ASSUME BooksInv, TableInv', NEW job \in Runs \cup {0}, NEW stale \in SUBSET Clicks,
         NEW snapshot \in BOOLEAN, BeginPass(job, stale, snapshot)
  PROVE  Books'
<1> DEFINE old == checkpoint.n # -1 /\ checkpoint.n <= Finalized(Height)
           ns == {Finalized(Height)} \cup (IF old THEN {checkpoint.n} ELSE {})
<1>1. NodeShape /\ PassFields(pass) /\ LinkShape /\ pass.pc = "idle" /\ pass.seen = Unread
  BY DEF BooksInv, TableInv, Tables, PassTypes, BeginPass
<1>2. click \in [Clicks -> ClickRecords] /\ checkpoint \in BlockRefs
  BY DEF BooksInv, TableInv, Tables, RowTypes
<1>3. /\ Finalized(Height) \in 0..Height /\ Height \in Nat /\ Height \in 0..MaxHeight
      /\ MaxHeight \in Nat /\ forks \in Nat
  BY <1>1, NodeFacts, FinalizedBound, ChainAssumption
<1>4. /\ ChainSame /\ batch' = batch /\ checkpoint' = checkpoint /\ sent' = sent
  BY DEF BeginPass, chainVars, ChainSame
<1>5. ns \in SUBSET (0..Height) /\ \A n \in ns : n <= Finalized(Height) /\ n \in 0..MaxHeight
  <2>1. checkpoint.n \in -1..MaxHeight
    BY <1>2 DEF BlockRefs
  <2> QED
    BY <1>3, <2>1
<1>6. PICK q : /\ pass' = q /\ q.pc = "fetch" /\ q.head = Height /\ q.seen = Seen(ns)
               /\ q.run = 0 /\ q.blocked = "none"
               /\ q.previous => old /\ Canonical(checkpoint)
  <2>1. pass' = [IdlePass EXCEPT !.pc = "fetch", !.job = job, !.cutoff = Claimed,
                   !.head = Height, !.seen = Seen(ns), !.previous = old /\ Canonical(checkpoint)]
    BY DEF BeginPass
  <2> DEFINE previous == old /\ Canonical(checkpoint)
  <2> HIDE DEF ns, old, previous
  <2>2. /\ pass'.pc = "fetch" /\ pass'.head = Height /\ pass'.seen = Seen(ns)
        /\ pass'.previous = previous /\ pass'.run = 0 /\ pass'.blocked = "none"
    BY <2>1 DEF IdlePass, previous
  <2>3. pass'.previous => old /\ Canonical(checkpoint)
    BY <2>2, Zenon DEF previous
  <2> QED
    BY <2>2, <2>3
<1>7. Finalized(Height) \in ns /\ (old => checkpoint.n \in ns)
  OBVIOUS
<1> HIDE DEF ns
<1>8. \A n \in 0..MaxHeight : q.seen[n] = IF n \in ns THEN BlockHash(n) ELSE -1
  BY <1>1, <1>6 DEF Seen, Hash, Unread
<1>9. \A n \in ns : BlockHash(n) \in 0..forks /\ Canonical([n |-> n, hash |-> BlockHash(n)])
  BY <1>1, <1>5, BlockRef, OnChain
<1>10. \A n \in ns : BlockHash(n) # -1
  <2>1. \A x \in 0..forks : x # -1
    BY <1>3
  <2> QED
    BY <1>9, <2>1
<1>11. Reading(q)
  BY <1>5, <1>6, <1>7, <1>8, <1>9, <1>10 DEF Reading, OneFork
<1>12. Reading(q)'
  BY <1>4, <1>11, SameReading
<1>13. Phase(q)
  BY <1>6 DEF Phase, SignedSteps
<1>14. Checked(q)'
  <2>1. ~RunPhase(q)
    BY <1>6 DEF RunPhase, SignedSteps, PrepareSteps
  <2>2. q.previous => checkpoint # NoBlock /\ checkpoint.n <= Finalized(q.head)
                      /\ Canonical(checkpoint)
    BY <1>2, <1>6 DEF NoBlock, BlockRefs
  <2> QED
    BY <1>4, <1>6, <2>1, <2>2, SameBlocks DEF Checked, OneFork, RunPhase, Canonical
<1>15. PassBooks'
  <2>1. Reading(pass)' /\ Phase(pass)' /\ Checked(pass)'
    BY <1>6, <1>12, <1>13, <1>14 DEF Reading, Phase, Checked, OneFork, AtFork, RunPhase, Judged
  <2> QED
    BY <2>1 DEF PassBooks
<1>16. HeadKept
  <2>1. LedgerHead = Height /\ LedgerHead' = Height
    BY <1>1, <1>6 DEF LedgerHead
  <2>2. Finalized(LedgerHead) = Finalized(Height) /\ Finalized(LedgerHead)' = Finalized(Height)
    BY <2>1 DEF Finalized
  <2> QED
    BY <1>3, <2>2 DEF HeadKept
<1>17. ASSUME NEW c \in Clicks
       PROVE  KeepClick(c)
  <2>1. click'[c] = Converted(c, stale, snapshot)
    BY DEF BeginPass
  <2>2. PICK e : \/ c \in stale /\ click'[c] = [click[c] EXCEPT !.status = "UNBILLED"]
                 \/ /\ click[c].status = "PRICE_PENDING"
                    /\ click'[c] = [click[c] EXCEPT
                                      !.status = IF Amount[c] = 0 THEN "SETTLED" ELSE "PENDING",
                                      !.price = e]
                 \/ click'[c] = click[c]
    BY <2>1 DEF Converted
  <2>3. click[c] \in ClickRecords
    BY <1>2
  <2> QED
    BY <2>2, <2>3 DEF KeepClick, ClickRecords
<1>18. \A b \in Batches : RowBooks(b)' /\ KeepTerms(b)
  BY <1>4, <1>16, RowSame DEF BooksInv, Books, KeepRow, KeepTerms
<1> QED
  BY <1>4, <1>15, <1>16, <1>17, <1>18, QuietBooks

-----------------------------------------------------------------------------
(* The reconciliation. *)

LEMMA ValidateBooks ==
  ASSUME BooksInv, TableInv', ValidateAndFetch
  PROVE  Books'
<1> DEFINE cs == {c \in Clicks : click[c].status \in {"PENDING", "PRICE_PENDING"}
                                /\ click[c].batch = 0}
           ns == EvidenceRead(cs)
           td == ToReconcile
<1>1. /\ TableInv /\ NodeShape /\ PassFields(pass) /\ pass.pc = "fetch" /\ Reading(pass)
      /\ Phase(pass) /\ Checked(pass)
  BY DEF BooksInv, Books, PassBooks, TableInv, Tables, PassTypes, ValidateAndFetch
<1>2. /\ click \in [Clicks -> ClickRecords] /\ batch \in [Batches -> BatchRecords]
      /\ checkpoint \in BlockRefs
  BY DEF BooksInv, TableInv, Tables, RowTypes
<1>3. /\ ChainSame /\ batch' = batch /\ checkpoint' = checkpoint /\ sent' = sent
  BY DEF ValidateAndFetch, chainVars, ChainSame
<1>4. ns \in SUBSET (0..PassFinalized)
  BY DEF EvidenceRead
<1>5. PICK q : /\ pass' = q /\ q.pc = "reconcile" /\ q.head = pass.head /\ q.seen = Seen(ns)
               /\ q.run = 0 /\ q.blocked = "none" /\ q.todo = td
  <2>1. pass' = [pass EXCEPT !.pc = "reconcile", !.seen = Seen(ns), !.todo = td, !.previous = FALSE]
    BY DEF ValidateAndFetch
  <2>2. pass.run = 0 /\ pass.blocked = "none"
    BY <1>1 DEF Phase
  <2>3. DOMAIN pass = DOMAIN IdlePass
    BY <1>1 DEF PassFields
  <2> DEFINE seen == Seen(ns)
  <2> HIDE DEF ns, td, seen
  <2>4. /\ pass'.pc = "reconcile" /\ pass'.head = pass.head /\ pass'.seen = seen
        /\ pass'.run = pass.run /\ pass'.blocked = pass.blocked /\ pass'.todo = td
    BY <2>1, <2>3 DEF IdlePass, seen
  <2> QED
    BY <2>2, <2>4 DEF seen
<1> HIDE DEF ns
<1>6. Reading(q) /\ q.seen[PassFinalized] = pass.seen[PassFinalized]
  BY <1>1, <1>4, <1>5, ReadMore
<1>7. Reading(q)'
  BY <1>3, <1>6, SameReading
<1>8. ASSUME NEW b \in Batches, b \notin q.todo
      PROVE  Judged(q, b)'
  <2>1. CASE ~HasReceipt(b)
    BY <1>3, <2>1 DEF Judged, HasReceipt
  <2>2. CASE HasReceipt(b)
    <3>1. batch[b].status \in Terminal /\ batch[b].receipt # NoBlock
      BY <1>5, <1>8, <2>2 DEF ToReconcile, HasReceipt, Closed
    <3>2. pass.previous /\ ~(batch[b].receipt.n > checkpoint.n)
      BY <1>5, <1>8, <3>1 DEF ToReconcile
    <3>3. batch[b].receipt.n <= checkpoint.n
      BY <1>2, <3>2 DEF BatchRecords, BlockRefs
    <3>4. checkpoint # NoBlock /\ (AtFork(pass) => Canonical(checkpoint))
      BY <1>1, <3>2 DEF Checked, OneFork
    <3>5. AtFork(pass) => Canonical(batch[b].receipt)
      BY <3>1, <3>3, <3>4 DEF BooksInv, Books, RowBooks
    <3>6. Judged(pass, b)
      BY <3>5 DEF Judged, OneFork
    <3> QED
      BY <1>3, <1>5, <1>6, <3>6, JudgedKept DEF KeepRow
  <2> QED
    BY <2>1, <2>2
<1>9. Phase(q) /\ ~RunPhase(q)
  BY <1>5 DEF Phase, SignedSteps, PrepareSteps, RunPhase
<1>10. PassBooks'
  <2>1. Checked(q)'
    BY <1>5, <1>8, <1>9 DEF Checked, RunPhase
  <2>2. Reading(pass)' /\ Phase(pass)' /\ Checked(pass)'
    BY <1>5, <1>7, <1>9, <2>1 DEF Reading, Phase, Checked, OneFork, AtFork, RunPhase, Judged
  <2> QED
    BY <2>2 DEF PassBooks
<1>11. ASSUME NEW c \in Clicks
       PROVE  KeepClick(c)
  <2>1. \/ c \in cs /\ click'[c] = [click[c] EXCEPT !.status = "UNBILLED"]
        \/ click'[c] = click[c]
    BY DEF ValidateAndFetch
  <2> QED
    BY <1>2, <2>1 DEF KeepClick, ClickRecords
<1>12. \A b \in Batches : KeepRow(b)
  BY <1>3 DEF KeepRow
<1> QED
  BY <1>1, <1>3, <1>5, <1>10, <1>11, <1>12, SameRows

LEMMA ReconcileNextBooks ==
  ASSUME BooksInv, TableInv', ReconcileNext
  PROVE  Books'
<1>0. PICK b \in Batches : b = Min(pass.todo) /\ b \in pass.todo
  <2>1. pass.todo \subseteq Batches /\ pass.todo # {}
    BY DEF ReconcileNext, BooksInv, TableInv, JournalInv, PassShape
  <2>2. pass.todo \subseteq Nat
    BY <2>1 DEF Batches
  <2> QED
    BY <2>1, <2>2, MinMember
<1> DEFINE proof == batch[b].receipt
           closed == batch[b].status \in Terminal /\ proof # NoBlock
           seen == IF closed THEN Seen({proof.n}) ELSE pass.seen
<1>p. PICK p : p = [pass EXCEPT !.todo = @ \ {b}, !.batch = b, !.seen = seen]
  OBVIOUS
<1>q. PICK q : q = [p EXCEPT !.pc = "receipt"]
  OBVIOUS
<1>1. /\ TableInv /\ NodeShape /\ PassFields(pass) /\ ReceiptBlocks /\ LinkShape
      /\ pass.pc = "reconcile" /\ Reading(pass) /\ Phase(pass) /\ Checked(pass)
  BY DEF BooksInv, Books, PassBooks, TableInv, Tables, PassTypes, ReconcileNext
<1>2. /\ click \in [Clicks -> ClickRecords] /\ batch \in [Batches -> BatchRecords]
      /\ RowBooks(b)
  BY DEF BooksInv, Books, TableInv, Tables, RowTypes
<1>3. /\ ChainSame /\ checkpoint' = checkpoint /\ sent' = sent
  BY DEF ReconcileNext, chainVars, ChainSame
<1>4. /\ pass.pc \notin {"idle", "fetch"} /\ pass.run = 0 /\ pass.blocked = "none"
      /\ pass.batch = 0 /\ Finalized(LedgerHead) = PassFinalized
  BY <1>1, LedgerFinal DEF Phase, TableInv, JournalInv, PassShape, SignedSteps, PrepareSteps
<1>5. closed => proof.n \in 0..PassFinalized
  <2> SUFFICES ASSUME closed
               PROVE  proof.n \in 0..PassFinalized
    OBVIOUS
  <2>1. proof.n \in 0..Height /\ proof.n <= PassFinalized
    BY <1>1, <1>2, <1>4 DEF ReceiptBlocks, RowBooks
  <2>2. PassFinalized \in 0..Height
    BY <1>1, PassFinalizedBound
  <2> QED
    BY <2>1, <2>2
<1>6. \/ /\ closed /\ Hash(proof.n) = proof.hash
         /\ pass' = Returned(p, FALSE)
         /\ UNCHANGED <<click, batch, run>>
      \/ /\ closed /\ Reopened(b)
         /\ IF Signed(b) THEN pass' = q ELSE pass' = Returned(p, FALSE)
      \/ /\ ~closed
         /\ IF Signed(b) THEN pass' = q ELSE pass' = Returned(p, FALSE)
         /\ UNCHANGED <<click, batch, run>>
  BY <1>0, <1>p, <1>q DEF ReconcileNext
<1>7. seen \in [0..MaxHeight -> -1..MaxForks]
  <2>1. CASE closed
    <3>1. {proof.n} \in SUBSET (0..Height)
      BY <1>1, <2>1 DEF ReceiptBlocks
    <3> QED
      BY <1>1, <2>1, <3>1, SeenFields
  <2>2. CASE ~closed
    BY <1>1, <2>2 DEF PassFields
  <2> QED
    BY <2>1, <2>2
<1>8. /\ PassFields(p) /\ p.todo = pass.todo \ {b} /\ p.batch = b /\ p.run = 0
      /\ p.head = pass.head /\ p.seen = seen /\ p.blocked = "none"
  <2> HIDE DEF seen
  <2> QED
    BY <1>1, <1>4, <1>7, <1>p DEF PassFields, IdlePass
<1>9. /\ Reading(p) /\ p.seen[PassFinalized] = pass.seen[PassFinalized]
      /\ closed => p.seen[proof.n] = Hash(proof.n) /\ p.seen[proof.n] # -1
  <2>1. CASE closed
    <3>1. {proof.n} \in SUBSET (0..PassFinalized)
      BY <1>5, <2>1
    <3>2. p.seen = Seen({proof.n})
      BY <1>8, <2>1
    <3> HIDE DEF seen, proof
    <3> QED
      BY <1>1, <1>8, <3>1, <3>2, ReadMore
  <2>2. CASE ~closed
    <3>1. p.seen = pass.seen
      BY <1>8, <2>2
    <3> QED
      BY <1>1, <1>3, <1>8, <2>2, <3>1, SameReading
  <2> QED
    BY <2>1, <2>2
<1> HIDE DEF seen
<1>10. /\ q.head = pass.head /\ q.seen = p.seen /\ q.todo = p.todo /\ q.batch = b /\ q.run = 0
       /\ q.blocked = "none" /\ q.pc = "receipt"
  BY <1>8, <1>q DEF PassFields, IdlePass
<1>11. ASSUME \A d \in Batches : Judged(pass, d) => Judged(p, d)',
              pass' = q \/ (pass' = Returned(p, FALSE) /\ Judged(p, b)')
       PROVE  PassBooks' /\ pass'.head = pass.head
  <2>1. CASE pass' = q
    <3>1. Reading(q)
      BY <1>3, <1>9, <1>10, <1>8, SameReading
    <3>2. Phase(q) /\ ~RunPhase(q)
      BY <1>10 DEF Phase, RunPhase, SignedSteps, PrepareSteps
    <3>3. \A d \in Batches : Judged(pass, d) => Judged(q, d)'
      <4>1. AtFork(q)' <=> AtFork(p)'
        BY <1>8, <1>10 DEF AtFork
      <4> QED
        BY <1>11, <4>1 DEF Judged, OneFork
    <3>4. \A d \in Batches : d \in pass.todo \cup {pass.batch} => d \in q.todo \cup {q.batch}
      BY <1>4, <1>8, <1>10 DEF Batches
    <3>5. q.seen[PassFinalized] = pass.seen[PassFinalized] /\ q.pc # "fetch"
      BY <1>9, <1>10
    <3> QED
      BY <1>3, <1>4, <1>10, <2>1, <3>1, <3>2, <3>3, <3>4, <3>5, GoesOn
  <2>2. CASE pass' = Returned(p, FALSE) /\ Judged(p, b)'
    <3>1. \A d \in Batches : d \in pass.todo \cup {pass.batch} =>
            RunPhase(pass) \/ d \in p.todo \/ Judged(p, d)'
      BY <1>4, <1>8, <2>2 DEF Batches
    <3> QED
      BY <1>3, <1>4, <1>8, <1>9, <1>11, <2>2, <3>1, ReturnedBooks
  <2> QED
    BY <1>11, <2>1, <2>2
<1>12. CASE UNCHANGED <<click, batch, run>>
  <2>1. \A d \in Batches : KeepRow(d)
    BY <1>12 DEF KeepRow
  <2>2. \A c \in Clicks : KeepClick(c)
    BY <1>12 DEF KeepClick
  <2>3. \A d \in Batches : Judged(pass, d) => Judged(p, d)'
    BY <1>3, <1>8, <1>9, <2>1, JudgedKept
  <2>4. pass' = q \/ (pass' = Returned(p, FALSE) /\ Judged(pass, b))
    <3>1. CASE closed /\ Hash(proof.n) = proof.hash /\ pass' = Returned(p, FALSE)
      <4>1. /\ proof.n \in 0..MaxHeight /\ p.seen[proof.n] = proof.hash /\ p.seen[proof.n] # -1
        <5>1. PassFinalized \in 0..MaxHeight /\ MaxHeight \in Nat
          BY <1>1, PassFinalizedBound, ChainAssumption
        <5> QED
          BY <1>5, <1>9, <3>1, <5>1
      <4>2. OneFork(p, [n |-> proof.n, hash |-> proof.hash])
        BY <1>9, <4>1 DEF Reading
      <4>3. [n |-> proof.n, hash |-> proof.hash] = proof
        BY <1>2 DEF BatchRecords, BlockRefs
      <4>4. AtFork(pass) <=> AtFork(p)
        BY <1>8, <1>9 DEF AtFork, PassFinalized
      <4> QED
        BY <3>1, <4>2, <4>3, <4>4 DEF Judged, OneFork
    <3>2. CASE ~closed /\ ~Signed(b)
      <4>1. ~HasReceipt(b)
        BY <1>2, <3>2 DEF HasReceipt, Closed, RowBooks
      <4> QED
        BY <1>6, <3>2, <4>1 DEF Judged
    <3>3. CASE closed /\ Reopened(b) /\ UNCHANGED batch
      <4>1. batch'[b].receipt = NoBlock
        BY <1>2, <3>3 DEF Reopened, BatchRecords
      <4> QED
        BY <3>3, <4>1
    <3> QED
      BY <1>6, <1>12, <3>1, <3>2, <3>3
  <2>5. PassBooks' /\ pass'.head = pass.head
    BY <1>11, <2>3, <2>4
  <2> QED
    BY <1>1, <1>3, <1>4, <2>1, <2>2, <2>5, SameRows DEF BooksInv
<1>13. CASE closed /\ Reopened(b) /\ IF Signed(b) THEN pass' = q ELSE pass' = Returned(p, FALSE)
  <2> DEFINE status == IF Signed(b) THEN "RECONCILING" ELSE "PREPARED"
             row == [batch[b] EXCEPT !.status = status, !.charged = -1, !.receipt = NoBlock,
                                     !.error = "other"]
  <2>1. batch' = [batch EXCEPT ![b] = row]
    BY <1>13 DEF Reopened
  <2>2. /\ row.status \in InFlight \cup {"PREPARED"} /\ row.receipt = NoBlock
        /\ row.stake = batch[b].stake /\ row.version = batch[b].version
    BY <1>2 DEF BatchRecords, InFlight
  <2> HIDE DEF row
  <2>3. /\ batch'[b] = row /\ \A d \in Batches \ {b} : batch'[d] = batch[d]
    BY <1>2, <2>1
  <2>4. \A d \in Batches : KeepTerms(d)
    BY <2>2, <2>3 DEF KeepTerms
  <2>5. Judged(p, b)'
    BY <2>2, <2>3 DEF Judged, HasReceipt
  <2>6. \A d \in Batches : Judged(pass, d) => Judged(p, d)'
    <3> SUFFICES ASSUME NEW d \in Batches, d # b, Judged(pass, d)
                 PROVE  Judged(p, d)'
      BY <2>5
    <3>1. KeepRow(d)
      BY <2>3 DEF KeepRow
    <3> QED
      BY <1>3, <1>8, <1>9, <3>1, JudgedKept
  <2>7. PassBooks' /\ pass'.head = pass.head
    BY <1>11, <1>13, <2>5, <2>6
  <2>8. HeadKept
    BY <1>1, <1>3, <1>4, <2>7, HeadStays
  <2>9. ASSUME NEW d \in Batches
        PROVE  RowBooks(d)'
    <3>1. CASE d = b
      BY <1>1, <1>2, <1>3, <2>2, <2>3, <2>8, <3>1, RowOpens
    <3>2. CASE d # b
      <4>1. KeepRow(d)
        BY <2>3, <3>2 DEF KeepRow
      <4> QED
        BY <1>1, <1>3, <2>8, <4>1, RowSame DEF BooksInv, Books
    <3> QED
      BY <3>1, <3>2
  <2>10. ASSUME NEW c \in Clicks
         PROVE  KeepClick(c)
    <3>1. \/ click'[c] = [click[c] EXCEPT !.status = "RESERVED"]
          \/ click'[c] = click[c]
      BY <1>13 DEF Reopened
    <3> QED
      BY <1>2, <3>1 DEF KeepClick, ClickRecords
  <2> QED
    BY <1>1, <1>3, <2>4, <2>7, <2>8, <2>9, <2>10, QuietBooks
<1> QED
  BY <1>6, <1>12, <1>13

-----------------------------------------------------------------------------
(* The steps that give a batch back. *)

LEMMA BackBooks ==
  ASSUME BooksInv, TableInv', ChainSame, checkpoint' = checkpoint, sent' = sent,
         pass.pc \in SignedSteps \cup PrepareSteps, NEW b \in Batches, b = pass.batch,
         NEW p, PassFields(p), p.head = pass.head, Reading(p),
         p.seen[PassFinalized] = pass.seen[PassFinalized],
         p.todo = pass.todo, p.run = pass.run, p.blocked = pass.blocked,
         \A d \in Batches \ {b} : batch'[d] = batch[d],
         HeadKept => RowBooks(b)', KeepTerms(b), Judged(pass, b) => Judged(p, b)',
         pass.run = 0 => Judged(p, b)', \A c \in Clicks : KeepClick(c),
         \/ \E w : pass' = Returned(p, w)
         \/ \E error : error # "none" /\ pass' = Threw(p, error)
  PROVE  Books'
<1>1. TableInv /\ Phase(pass)
  BY WorkingPhase DEF BooksInv, Books, PassBooks
<1>2. /\ pass.pc \notin {"idle", "fetch"} /\ (pass.run # 0 => RunPhase(pass))
      /\ pass.blocked = "none"
  BY <1>1, WorkingPhase DEF Phase
<1>3. \A d \in Batches : Judged(pass, d) => Judged(p, d)'
  <2> SUFFICES ASSUME NEW d \in Batches, d # b, Judged(pass, d)
               PROVE  Judged(p, d)'
    OBVIOUS
  <2>1. KeepRow(d)
    BY DEF KeepRow
  <2> QED
    BY <2>1, JudgedKept
<1>4. PassBooks' /\ pass'.head = pass.head
  <2>1. ASSUME NEW w, pass' = Returned(p, w)
        PROVE  PassBooks' /\ pass'.head = pass.head
    <3>1. \A d \in Batches : d \in pass.todo \cup {pass.batch} =>
            RunPhase(pass) \/ d \in p.todo \/ Judged(p, d)'
      BY <1>2
    <3> QED
      BY <1>2, <1>3, <2>1, <3>1, ReturnedBooks
  <2>2. ASSUME NEW error, error # "none", pass' = Threw(p, error)
        PROVE  PassBooks' /\ pass'.head = pass.head
    BY <1>2, <1>3, <2>2, ThrewBooks
  <2> QED
    BY <2>1, <2>2
<1>5. HeadKept
  BY <1>1, <1>2, <1>4, HeadStays
<1>6. ASSUME NEW d \in Batches
      PROVE  RowBooks(d)' /\ KeepTerms(d)
  <2>1. CASE d = b
    BY <1>5, <2>1
  <2>2. CASE d # b
    <3>1. KeepRow(d) /\ KeepTerms(d)
      BY <2>2 DEF KeepRow, KeepTerms
    <3> QED
      BY <1>1, <1>5, <3>1, RowSame DEF BooksInv, Books
  <2> QED
    BY <2>1, <2>2
<1> QED
  BY <1>4, <1>5, <1>6, QuietBooks

\* The batch is still open.
LEMMA OpenRowBooks ==
  ASSUME BooksInv, TableInv', ChainSame, checkpoint' = checkpoint, sent' = sent,
         pass.pc \in SignedSteps, NEW b \in Batches, b = pass.batch,
         NEW p, PassFields(p), p.head = pass.head, Reading(p),
         p.seen[PassFinalized] = pass.seen[PassFinalized],
         p.todo = pass.todo, p.run = pass.run, p.blocked = pass.blocked,
         NEW row, batch' = [batch EXCEPT ![b] = row], click' = click,
         row.status \in InFlight, row.receipt = batch[b].receipt,
         row.stake = batch[b].stake, row.version = batch[b].version,
         \/ \E w : pass' = Returned(p, w)
         \/ \E error : error # "none" /\ pass' = Threw(p, error)
  PROVE  Books'
<1>1. batch \in [Batches -> BatchRecords] /\ TableInv /\ RowBooks(b)
  BY DEF BooksInv, Books, TableInv, Tables, RowTypes
<1>2. batch'[b] = row /\ \A d \in Batches \ {b} : batch'[d] = batch[d]
  BY <1>1
<1>3. HeadKept => RowBooks(b)'
  BY <1>1, <1>2, RowOpens
<1>4. Judged(p, b)'
  BY <1>2 DEF Judged, HasReceipt, Closed, Terminal, InFlight
<1>5. KeepTerms(b) /\ \A c \in Clicks : KeepClick(c)
  BY <1>2 DEF KeepTerms, KeepClick
<1> QED
  BY <1>2, <1>3, <1>4, <1>5, BackBooks

LEMMA ReconcilingBooks ==
  ASSUME BooksInv, TableInv', ChainSame, checkpoint' = checkpoint, sent' = sent,
         pass.pc \in SignedSteps, NEW error, Reconciling(pass.batch, error),
         NEW p, PassFields(p), p.head = pass.head, Reading(p),
         p.seen[PassFinalized] = pass.seen[PassFinalized],
         p.todo = pass.todo, p.run = pass.run, p.blocked = pass.blocked,
         \/ \E w : pass' = Returned(p, w)
         \/ error # "none" /\ pass' = Threw(p, error)
  PROVE  Books'
<1>0. PICK b \in Batches : b = pass.batch /\ batch[b] \in BatchRecords
  BY SignedOpen DEF BooksInv
<1> DEFINE row == [batch[b] EXCEPT !.status = "RECONCILING", !.error = Stored(error)]
<1>1. batch' = [batch EXCEPT ![b] = row] /\ click' = click
  BY <1>0 DEF Reconciling
<1>2. /\ row.status \in InFlight /\ row.receipt = batch[b].receipt
      /\ row.stake = batch[b].stake /\ row.version = batch[b].version
  BY <1>0 DEF BatchRecords, InFlight
<1> HIDE DEF row
<1> QED
  BY <1>0, <1>1, <1>2, OpenRowBooks

\* The batch settles with what a final block charged.
LEMMA SettleBooks ==
  ASSUME BooksInv, TableInv', ChainSame, checkpoint' = checkpoint, sent' = sent,
         pass.pc \in SignedSteps, NEW n \in ChargedIn(pass.batch), n <= PassFinalized,
         Settle(pass.batch, n),
         NEW p, PassFields(p), p.head = pass.head, Reading(p),
         p.seen[PassFinalized] = pass.seen[PassFinalized],
         p.todo = pass.todo, p.run = pass.run, p.blocked = pass.blocked,
         NEW w, pass' = Returned(p, w)
  PROVE  Books'
<1>0. PICK b \in Batches : b = pass.batch /\ batch[b] \in BatchRecords
  BY SignedOpen DEF BooksInv
<1> DEFINE charged == Block(n).charged
           short == batch[b].due > charged
           proof == [n |-> n, hash |-> BlockHash(n)]
           row == [batch[b] EXCEPT !.status = IF short THEN "PARTIAL" ELSE "CONFIRMED",
                     !.charged = charged, !.receipt = proof,
                     !.error = IF short THEN "other" ELSE "none", !.deferred = FALSE]
<1>1. /\ batch \in [Batches -> BatchRecords] /\ click \in [Clicks -> ClickRecords]
      /\ TableInv /\ NodeShape /\ pass.pc # "idle"
  BY DEF BooksInv, TableInv, Tables, RowTypes, SignedSteps
<1>2. batch' = [batch EXCEPT ![b] = row]
  BY <1>0 DEF Settle
<1> HIDE DEF charged, proof, short
<1>3. /\ row.status \in {"CONFIRMED", "PARTIAL"} /\ row.charged = charged /\ row.receipt = proof
      /\ row.stake = batch[b].stake /\ row.version = batch[b].version
  BY <1>0 DEF BatchRecords
<1> HIDE DEF row
<1>4. batch'[b] = row /\ \A d \in Batches \ {b} : batch'[d] = batch[d]
  BY <1>1, <1>2
<1>5. n \in 0..Height /\ Finalized(LedgerHead) = PassFinalized /\ Finalized(LedgerHead) \in 0..Height
  BY <1>1, LedgerFinal DEF ChargedIn, Mined
<1>6. HeadKept => RowBooks(b)'
  <2> SUFFICES ASSUME HeadKept
               PROVE  RowBooks(b)'
    OBVIOUS
  <2>1. Finalized(LedgerHead)' \in Int
    <3>1. (TableInv => Finalized(LedgerHead) \in Int)'
      BY LedgerFinalInt, PTL
    <3> QED
      BY <3>1
  <2>2. Finalized(LedgerHead) <= Finalized(LedgerHead)'
    BY DEF HeadKept
  <2> HIDE DEF Finalized, LedgerHead
  <2>3. n <= Finalized(LedgerHead)'
    BY <1>5, <2>1, <2>2
  <2>4. n \in ChargedIn(b)
    BY <1>0
  <2> QED
    BY <1>1, <1>3, <1>4, <2>3, <2>4, RowSettles DEF charged, proof
<1>7. Judged(p, b)'
  <2>1. Canonical(batch'[b].receipt)
    BY <1>1, <1>3, <1>4, <1>5, OnChain DEF proof
  <2> QED
    BY <2>1, JudgedKept
<1>8. ASSUME NEW c \in Clicks
      PROVE  KeepClick(c)
  <2>1. \/ c \notin ClicksOf(b) /\ click'[c] = click[c]
        \/ \E s \in {"SETTLED", "UNCOLLECTABLE"} : click'[c] = [click[c] EXCEPT !.status = s]
    BY <1>0 DEF Settle
  <2> QED
    BY <1>1, <2>1 DEF KeepClick, ClickRecords
<1>9. KeepTerms(b)
  BY <1>3, <1>4 DEF KeepTerms
<1> QED
  BY <1>0, <1>4, <1>6, <1>7, <1>8, <1>9, BackBooks

LEMMA FinalBlock ==
  ASSUME NodeShape, PassFields(pass), NEW n \in 0..Height, pass.head >= n + Confirmations
  PROVE  n \in 0..PassFinalized
<1>1. pass.head \in Nat /\ Confirmations \in Nat /\ Height \in Nat
  BY PassFinalizedBound, NodeFacts, ChainAssumption
<1> QED
  BY <1>1 DEF PassFinalized, Finalized

LEMMA ReadPass ==
  ASSUME TableInv, Reading(pass), NEW ns \in SUBSET (0..PassFinalized),
         NEW p, p = [pass EXCEPT !.seen = Seen(ns)]
  PROVE  /\ PassFields(p) /\ p.head = pass.head /\ Reading(p)
         /\ p.seen[PassFinalized] = pass.seen[PassFinalized]
         /\ p.todo = pass.todo /\ p.run = pass.run /\ p.blocked = pass.blocked
         /\ p.batch = pass.batch
<1>1. NodeShape /\ PassFields(pass)
  BY DEF TableInv, Tables, PassTypes
<1>2. ns \in SUBSET (0..Height)
  BY <1>1, PassFinalizedBound, NodeFacts
<1>3. /\ PassFields(p) /\ p.head = pass.head /\ p.seen = Seen(ns)
      /\ p.todo = pass.todo /\ p.run = pass.run /\ p.blocked = pass.blocked
      /\ p.batch = pass.batch
  BY <1>1, <1>2, SeenPass
<1> QED
  BY <1>3, ReadMore

LEMMA WorkingPass ==
  ASSUME BooksInv, pass.pc \in SignedSteps \cup PrepareSteps
  PROVE  TableInv /\ NodeShape /\ PassFields(pass) /\ Reading(pass) /\ Phase(pass) /\ Checked(pass)
  BY DEF BooksInv, Books, PassBooks, TableInv, Tables, PassTypes, SignedSteps, PrepareSteps

LEMMA SettleIndexedBooks ==
  ASSUME BooksInv, TableInv', ChainSame, checkpoint' = checkpoint, sent' = sent,
         pass.pc \in SignedSteps, NEW indexed, SettleIndexed(pass.batch, indexed)
  PROVE  Books'
<1> DEFINE found == {n \in ChargedIn(pass.batch) : indexed /\ Confirmed(n)}
<1>1. TableInv /\ NodeShape /\ PassFields(pass) /\ Reading(pass)
  BY WorkingPass
<1>2. found \in SUBSET (0..PassFinalized) /\ found \subseteq Nat
  <2>1. \A n \in found : n \in 0..Height /\ pass.head >= n + Confirmations
    BY DEF ChargedIn, Mined, Confirmed
  <2> HIDE DEF found
  <2>2. \A n \in found : n \in 0..PassFinalized
    BY <1>1, <2>1, FinalBlock
  <2>3. \A n \in found : n \in Nat
    BY <2>1
  <2> QED
    BY <2>2, <2>3
<1>3. PICK p : p = [pass EXCEPT !.seen = Seen(found)]
  OBVIOUS
<1>4. CASE found # {} /\ Settle(pass.batch, Min(found)) /\ pass' = Returned(p, FALSE)
  <2>1. PICK n : n = Min(found)
    OBVIOUS
  <2>2. n \in found
    <3> HIDE DEF found
    <3> QED
      BY <1>2, <1>4, <2>1, MinMember
  <2>3. n \in ChargedIn(pass.batch) /\ n <= PassFinalized
    BY <1>2, <2>2
  <2> HIDE DEF found
  <2>4. /\ PassFields(p) /\ p.head = pass.head /\ Reading(p)
        /\ p.seen[PassFinalized] = pass.seen[PassFinalized]
        /\ p.todo = pass.todo /\ p.run = pass.run /\ p.blocked = pass.blocked
    BY <1>1, <1>2, <1>3, ReadPass
  <2> QED
    BY <1>4, <2>1, <2>3, <2>4, SettleBooks
<1>5. CASE Reconciling(pass.batch, "other") /\ pass' = Returned(pass, TRUE)
  BY <1>1, <1>5, ReconcilingBooks
<1> QED
  BY <1>3, <1>4, <1>5 DEF SettleIndexed

LEMMA ReadReceiptBooks ==
  ASSUME BooksInv, TableInv', NEW indexed, ReadReceipt(indexed)
  PROVE  Books'
<1>0. PICK b \in Batches : b = pass.batch /\ Signed(b) /\ batch[b] \in BatchRecords
  BY SignedOpen DEF BooksInv, ReadReceipt, SignedSteps
<1> DEFINE mined == MinedIn(Transaction(b))
           proof(n) == [n |-> n, hash |-> BlockHash(n)]
           row(n) == [batch[b] EXCEPT !.status = "FAILED", !.receipt = proof(n),
                                      !.error = "other", !.deferred = TRUE]
<1>1. /\ pass.pc \in SignedSteps /\ ChainSame /\ checkpoint' = checkpoint /\ sent' = sent
  BY DEF ReadReceipt, SignedSteps, chainVars, ChainSame
<1>2. /\ TableInv /\ NodeShape /\ PassFields(pass) /\ Reading(pass)
      /\ batch \in [Batches -> BatchRecords] /\ RowBooks(b) /\ pass.pc # "idle"
  BY <1>1, WorkingPass DEF BooksInv, Books, TableInv, Tables, RowTypes, SignedSteps
<1>3. PICK n : n = Min(mined)
  OBVIOUS
<1>4. n \in mined /\ n \in 0..Height /\ n \in Mined /\ Block(n).tx = Transaction(b)
  <2>1. mined \subseteq Nat /\ mined # {}
    BY <1>0, <1>2, NodeFacts DEF MinedIn, ReadReceipt
  <2>2. n \in mined
    <3> HIDE DEF mined
    <3> QED
      BY <1>3, <2>1, MinMember
  <2> QED
    BY <2>2 DEF MinedIn, Mined
<1>5. PICK p : p = [pass EXCEPT !.seen = IF pass.head >= n + Confirmations THEN Seen({n})
                                         ELSE @]
  OBVIOUS
<1>6. \/ Reconciling(b, "waiting") /\ pass' = Returned(p, TRUE)
      \/ /\ Confirmed(n) /\ Block(n).result = "reverted"
         /\ \/ batch[b].status = "FAILED" /\ batch[b].receipt = proof(n) /\ batch' = batch
            \/ batch' = [batch EXCEPT ![b] = row(n)]
         /\ click' = click
         /\ pass' = Returned(p, FALSE)
      \/ SettleIndexed(b, indexed)
      \/ /\ Confirmed(n) /\ Block(n).result = "charged"
         /\ Settle(b, n) /\ pass' = Returned(p, FALSE)
  BY <1>0, <1>3, <1>5 DEF ReadReceipt
<1>7. /\ PassFields(p) /\ p.head = pass.head /\ Reading(p)
      /\ p.seen[PassFinalized] = pass.seen[PassFinalized]
      /\ p.todo = pass.todo /\ p.run = pass.run /\ p.blocked = pass.blocked
  <2>1. CASE pass.head >= n + Confirmations
    <3>1. p = [pass EXCEPT !.seen = Seen({n})]
      BY <1>5, <2>1
    <3>2. {n} \in SUBSET (0..PassFinalized)
      BY <1>2, <1>4, <2>1, FinalBlock
    <3> QED
      BY <1>2, <3>1, <3>2, ReadPass
  <2>2. CASE ~(pass.head >= n + Confirmations)
    <3>1. p = [pass EXCEPT !.seen = pass.seen] /\ pass.seen \in [0..MaxHeight -> -1..MaxForks]
      BY <1>2, <1>5, <2>2 DEF PassFields
    <3>2. /\ PassFields(p) /\ p.head = pass.head /\ p.seen = pass.seen
          /\ p.todo = pass.todo /\ p.run = pass.run /\ p.blocked = pass.blocked
      BY <1>2, <3>1, SeenPassFields
    <3> QED
      BY <1>1, <1>2, <3>2, SameReading
  <2> QED
    BY <2>1, <2>2
<1>8. CASE Reconciling(b, "waiting") /\ pass' = Returned(p, TRUE)
  BY <1>0, <1>1, <1>7, <1>8, ReconcilingBooks
<1>9. CASE SettleIndexed(b, indexed)
  BY <1>0, <1>1, <1>9, SettleIndexedBooks
<1>10. Confirmed(n) => n <= PassFinalized
  <2>1. pass.head >= n + Confirmations => n \in 0..PassFinalized
    BY <1>2, <1>4, FinalBlock
  <2> QED
    BY <2>1 DEF Confirmed
<1>11. CASE /\ Confirmed(n) /\ Block(n).result = "charged" /\ Settle(b, n)
            /\ pass' = Returned(p, FALSE)
  <2>1. n \in ChargedIn(pass.batch)
    BY <1>0, <1>4, <1>11 DEF ChargedIn, Transaction
  <2> QED
    BY <1>0, <1>1, <1>7, <1>10, <1>11, <2>1, SettleBooks
<1>12. Canonical(proof(n)) /\ proof(n) # NoBlock
  BY <1>2, <1>4, OnChain, BlockRef
<1>13. CASE /\ Confirmed(n) /\ Block(n).result = "reverted" /\ batch[b].status = "FAILED"
            /\ batch[b].receipt = proof(n) /\ batch' = batch /\ click' = click
            /\ pass' = Returned(p, FALSE)
  <2>1. HeadKept => RowBooks(b)'
    BY <1>1, <1>2, <1>13, RowSame DEF KeepRow
  <2>2. Canonical(batch'[b].receipt)
    BY <1>12, <1>13
  <2>3. Judged(p, b)'
    BY <1>1, <1>7, <2>2, JudgedKept
  <2>4. KeepTerms(b) /\ \A c \in Clicks : KeepClick(c)
    BY <1>13 DEF KeepTerms, KeepClick
  <2> QED
    BY <1>0, <1>1, <1>7, <1>13, <2>1, <2>3, <2>4, BackBooks
<1>14. CASE /\ Confirmed(n) /\ Block(n).result = "reverted"
            /\ batch' = [batch EXCEPT ![b] = row(n)]
            /\ click' = click /\ pass' = Returned(p, FALSE)
  <2>0. PICK proven : proven = proof(n)
    OBVIOUS
  <2>1. PICK new : new = row(n)
    OBVIOUS
  <2>2. /\ new.status = "FAILED" /\ new.receipt = proof(n)
        /\ new.nonce = batch[b].nonce /\ new.attempts = batch[b].attempts
        /\ new.stake = batch[b].stake /\ new.version = batch[b].version /\ new.due = batch[b].due
    <3> HIDE DEF proof
    <3> QED
      BY <1>0, <2>1 DEF BatchRecords
  <2>3. batch'[b] = new /\ \A d \in Batches \ {b} : batch'[d] = batch[d]
    BY <1>2, <1>14, <2>1
  <2>4. HeadKept => RowBooks(b)'
    <3> SUFFICES ASSUME HeadKept
                 PROVE  RowBooks(b)'
      OBVIOUS
    <3>1. Finalized(LedgerHead) = PassFinalized /\ Finalized(LedgerHead) \in 0..Height
      BY <1>2, LedgerFinal
    <3>2. (TableInv => Finalized(LedgerHead) \in Int)'
      BY LedgerFinalInt, PTL
    <3>3. Finalized(LedgerHead) <= Finalized(LedgerHead)'
      BY DEF HeadKept
    <3> HIDE DEF Finalized, LedgerHead
    <3>4. n <= Finalized(LedgerHead)'
      BY <1>4, <1>10, <1>14, <3>1, <3>2, <3>3
    <3> QED
      BY <1>0, <1>1, <1>2, <1>4, <1>14, <2>2, <2>3, <3>4, RowFails
  <2>5. Canonical(batch'[b].receipt)
    BY <1>12, <2>2, <2>3
  <2>6. Judged(p, b)'
    BY <1>1, <1>7, <2>5, JudgedKept
  <2>7. KeepTerms(b) /\ \A c \in Clicks : KeepClick(c)
    BY <1>14, <2>2, <2>3 DEF KeepTerms, KeepClick
  <2> QED
    BY <1>0, <1>1, <1>7, <1>14, <2>3, <2>4, <2>6, <2>7, BackBooks
<1> QED
  BY <1>6, <1>8, <1>9, <1>11, <1>13, <1>14

\* The next step on the same batch.
LEMMA SameWorkBooks ==
  ASSUME BooksInv, TableInv', ChainSame, checkpoint' = checkpoint, sent' = sent, batch' = batch,
         click' = click, NEW q, pass' = q,
         \/ pass.pc \in SignedSteps /\ q.pc \in SignedSteps
         \/ pass.pc \in PrepareSteps /\ q.pc \in PrepareSteps,
         q.head = pass.head, Reading(q), q.seen[PassFinalized] = pass.seen[PassFinalized],
         q.todo = pass.todo, q.run = pass.run, q.blocked = pass.blocked, q.batch = pass.batch
  PROVE  Books'
<1>1. TableInv /\ Phase(pass)
  BY WorkingPass
<1>2. /\ pass.pc \notin {"idle", "fetch"} /\ q.pc \notin {"idle", "fetch"}
      /\ RunPhase(q) => RunPhase(pass)
  BY DEF SignedSteps, PrepareSteps, RunPhase
<1>3. Phase(q)
  BY <1>1 DEF Phase, SignedSteps, PrepareSteps
<1>4. \A b \in Batches : KeepRow(b)
  BY DEF KeepRow
<1>5. \A b \in Batches : Judged(pass, b) => Judged(q, b)'
  BY <1>4, JudgedKept
<1>6. PassBooks'
  BY <1>2, <1>3, <1>5, GoesOn
<1>7. \A c \in Clicks : KeepClick(c)
  BY DEF KeepClick
<1> QED
  BY <1>2, <1>4, <1>6, <1>7, SameRows

LEMMA ResolveUnseenBooks ==
  ASSUME BooksInv, TableInv', NEW indexed, ResolveUnseen(indexed)
  PROVE  Books'
<1>1. /\ pass.pc \in SignedSteps /\ pass.pc = "unseen" /\ ChainSame /\ checkpoint' = checkpoint
      /\ sent' = sent
  BY DEF ResolveUnseen, SignedSteps, chainVars, ChainSame
<1>2. /\ TableInv /\ NodeShape /\ PassFields(pass) /\ Reading(pass) /\ Phase(pass)
      /\ pass.batch \in Batches /\ PassBooks
  BY <1>1, WorkingPass, SignedOpen DEF BooksInv, Books
<1> DEFINE ns == EvidenceRead(ClicksOf(pass.batch))
<1>3. PICK p : p = [pass EXCEPT !.seen = Seen(ns)]
  OBVIOUS
<1>4. \/ SettleIndexed(pass.batch, indexed)
      \/ Reconciling(pass.batch, "waiting") /\ pass' = Returned(pass, TRUE)
      \/ Reconciling(pass.batch, "other") /\ pass' = Threw(pass, "other")
      \/ Reconciling(pass.batch, "waiting") /\ pass' = Returned(p, TRUE)
      \/ Reconciling(pass.batch, "orphaned") /\ pass' = Threw(p, "orphaned")
      \/ pass' = [p EXCEPT !.pc = "broadcast"] /\ batch' = batch /\ click' = click
  <2>1. \A e \in CaptureErrors(pass.batch) : e \in {"orphaned", "waiting"}
    BY DEF CaptureErrors
  <2> QED
    BY <1>3, <2>1 DEF ResolveUnseen
<1>5. ns \in SUBSET (0..PassFinalized)
  BY DEF EvidenceRead
<1> HIDE DEF ns
<1>6. /\ PassFields(p) /\ p.head = pass.head /\ Reading(p)
      /\ p.seen[PassFinalized] = pass.seen[PassFinalized]
      /\ p.todo = pass.todo /\ p.run = pass.run /\ p.blocked = pass.blocked
      /\ p.batch = pass.batch
  BY <1>2, <1>3, <1>5, ReadPass
<1>7. CASE SettleIndexed(pass.batch, indexed)
  BY <1>1, <1>7, SettleIndexedBooks
<1>8. CASE Reconciling(pass.batch, "waiting") /\ pass' = Returned(pass, TRUE)
  BY <1>1, <1>2, <1>8, ReconcilingBooks
<1>9. CASE Reconciling(pass.batch, "other") /\ pass' = Threw(pass, "other")
  BY <1>1, <1>2, <1>9, ReconcilingBooks
<1>10. CASE Reconciling(pass.batch, "waiting") /\ pass' = Returned(p, TRUE)
  BY <1>1, <1>6, <1>10, ReconcilingBooks
<1>11. CASE Reconciling(pass.batch, "orphaned") /\ pass' = Threw(p, "orphaned")
  BY <1>1, <1>6, <1>11, ReconcilingBooks
<1>12. CASE pass' = [p EXCEPT !.pc = "broadcast"] /\ batch' = batch /\ click' = click
  <2>1. PICK q : q = [p EXCEPT !.pc = "broadcast"]
    OBVIOUS
  <2>2. /\ q.pc = "broadcast" /\ q.head = pass.head /\ q.seen = p.seen /\ q.todo = pass.todo
        /\ q.run = pass.run /\ q.blocked = pass.blocked /\ q.batch = pass.batch
    BY <1>6, <2>1 DEF PassFields, IdlePass
  <2>3. q.seen[PassFinalized] = pass.seen[PassFinalized] /\ Reading(q)
    BY <1>1, <1>6, <2>2, SameReading
  <2>4. q.pc \in SignedSteps /\ q.pc \notin {"fetch", "idle"} /\ pass' = q
    BY <1>12, <2>1, <2>2 DEF SignedSteps
  <2> QED
    BY <1>1, <1>2, <1>12, <2>2, <2>3, <2>4, SameWorkBooks
<1> QED
  BY <1>4, <1>7, <1>8, <1>9, <1>10, <1>11, <1>12

LEMMA RecordBroadcastBooks ==
  ASSUME BooksInv, TableInv', RecordBroadcast
  PROVE  Books'
<1>1. /\ pass.pc \in SignedSteps /\ ChainSame /\ checkpoint' = checkpoint /\ sent' = sent
      /\ click' = click
  BY DEF RecordBroadcast, SignedSteps, chainVars, ChainSame
<1>2. PassFields(pass) /\ Reading(pass)
  BY <1>1, WorkingPass
<1>3. PICK b \in Batches : b = pass.batch /\ batch[b] \in BatchRecords
  BY <1>1, SignedOpen DEF BooksInv
<1>4. PICK p : p = [pass EXCEPT !.reply = "none"]
  OBVIOUS
<1>5. /\ PassFields(p) /\ p.head = pass.head /\ p.seen = pass.seen
      /\ p.todo = pass.todo /\ p.run = pass.run /\ p.blocked = pass.blocked
  BY <1>2, <1>4 DEF PassFields, IdlePass
<1>6. Reading(p)
  BY <1>1, <1>2, <1>5, SameReading
<1>7. PICK status \in InFlight :
        batch' = [batch EXCEPT ![b] = [batch[b] EXCEPT !.status = status, !.error = "other"]]
  BY <1>3 DEF RecordBroadcast, InFlight
<1>8. PICK row : row = [batch[b] EXCEPT !.status = status, !.error = "other"]
  OBVIOUS
<1>9. /\ row.status \in InFlight /\ row.receipt = batch[b].receipt
      /\ row.stake = batch[b].stake /\ row.version = batch[b].version
  BY <1>3, <1>8 DEF BatchRecords
<1>10. pass' = Threw(p, "other") \/ pass' = Returned(p, TRUE)
  BY <1>4 DEF RecordBroadcast
<1> QED
  BY <1>1, <1>3, <1>5, <1>6, <1>7, <1>8, <1>9, <1>10, OpenRowBooks

LEMMA ReceiptMissingBooks ==
  ASSUME BooksInv, TableInv', ReceiptMissing
  PROVE  Books'
<1>1. /\ pass.pc \in SignedSteps /\ ChainSame /\ checkpoint' = checkpoint /\ sent' = sent
      /\ click' = click /\ batch' = batch
  BY DEF ReceiptMissing, SignedSteps, chainVars, ChainSame, dbVars
<1>2. PassFields(pass) /\ Reading(pass)
  BY <1>1, WorkingPass
<1>3. PICK q : q = [pass EXCEPT !.pc = "unseen"]
  OBVIOUS
<1>4. /\ q.pc = "unseen" /\ q.head = pass.head /\ q.seen = pass.seen /\ q.todo = pass.todo
      /\ q.run = pass.run /\ q.blocked = pass.blocked /\ q.batch = pass.batch
  BY <1>2, <1>3 DEF PassFields, IdlePass
<1>5. Reading(q) /\ pass' = q /\ q.pc \in SignedSteps
  BY <1>1, <1>2, <1>3, <1>4, SameReading DEF ReceiptMissing, SignedSteps
<1> QED
  BY <1>1, <1>4, <1>5, SameWorkBooks

LEMMA BroadcastBooks ==
  ASSUME BooksInv, TableInv', NEW accepted, NEW reply, Broadcast(accepted, reply)
  PROVE  Books'
<1>1. /\ pass.pc \in SignedSteps /\ ChainSame /\ checkpoint' = checkpoint /\ sent' = sent
      /\ click' = click /\ batch' = batch
  BY DEF Broadcast, SignedSteps, ChainSame, dbVars
<1>2. PassFields(pass) /\ Reading(pass)
  BY <1>1, WorkingPass
<1>3. PICK outage : pass' = [pass EXCEPT !.pc = "record", !.reply = reply, !.outage = outage]
  BY DEF Broadcast
<1>4. PICK q : q = [pass EXCEPT !.pc = "record", !.reply = reply, !.outage = outage]
  OBVIOUS
<1>5. /\ q.pc = "record" /\ q.head = pass.head /\ q.seen = pass.seen /\ q.todo = pass.todo
      /\ q.run = pass.run /\ q.blocked = pass.blocked /\ q.batch = pass.batch
  BY <1>2, <1>4 DEF PassFields, IdlePass
<1>6. Reading(q) /\ pass' = q /\ q.pc \in SignedSteps
  BY <1>1, <1>2, <1>3, <1>4, <1>5, SameReading DEF SignedSteps
<1> QED
  BY <1>1, <1>5, <1>6, SameWorkBooks

LEMMA RpcFailsBooks ==
  ASSUME BooksInv, TableInv', NEW noted \in BOOLEAN, RpcFails(noted)
  PROVE  Books'
<1>1. /\ ChainSame /\ checkpoint' = checkpoint /\ sent' = sent /\ click' = click
      /\ pass.pc \in {"fetch", "reconcile", "receipt", "unseen", "check", "sign"}
  BY DEF RpcFails, chainVars, ChainSame
<1>2. /\ TableInv /\ NodeShape /\ PassFields(pass) /\ Reading(pass) /\ Phase(pass) /\ Checked(pass)
      /\ PassShape
  BY <1>1 DEF BooksInv, Books, PassBooks, TableInv, Tables, PassTypes, JournalInv
<1>3. batch \in [Batches -> BatchRecords]
  BY <1>2 DEF TableInv, Tables, RowTypes
<1>4. PICK p : p = [pass EXCEPT !.outage = TRUE]
  OBVIOUS
<1>5. /\ PassFields(p) /\ p.head = pass.head /\ p.seen = pass.seen
      /\ p.todo = pass.todo /\ p.run = pass.run /\ p.blocked = pass.blocked
  BY <1>2, <1>4 DEF PassFields, IdlePass
<1>6. Reading(p) /\ pass' = Threw(p, "other")
  BY <1>1, <1>2, <1>4, <1>5, SameReading DEF RpcFails
<1>7. CASE noted
  <2>0. /\ pass.pc \in SignedSteps
        /\ batch' = [batch EXCEPT ![pass.batch] =
                       [@ EXCEPT !.status = "RECONCILING", !.error = "other"]]
    BY <1>7 DEF RpcFails, SignedSteps
  <2>1. PICK b \in Batches : b = pass.batch /\ batch[b] \in BatchRecords
    BY <1>2, <2>0, SignedOpen
  <2>2. PICK row : row = [batch[b] EXCEPT !.status = "RECONCILING", !.error = "other"]
    OBVIOUS
  <2>3. batch' = [batch EXCEPT ![b] = row]
    BY <2>0, <2>1, <2>2
  <2>4. /\ row.status \in InFlight /\ row.receipt = batch[b].receipt
        /\ row.stake = batch[b].stake /\ row.version = batch[b].version
    BY <2>1, <2>2 DEF BatchRecords, InFlight
  <2> QED
    BY <1>1, <1>5, <1>6, <2>0, <2>1, <2>3, <2>4, OpenRowBooks
<1>8. CASE ~noted
  <2>1. \A b \in Batches : KeepRow(b)
    <3>1. batch' = batch \/ batch' = [batch EXCEPT ![pass.batch].error = "other"]
      BY <1>8 DEF RpcFails
    <3> QED
      BY <1>3, <3>1 DEF KeepRow, BatchRecords
  <2>2. \A c \in Clicks : KeepClick(c)
    BY <1>1 DEF KeepClick
  <2>3. PassBooks' /\ pass'.head = pass.head
    <3>1. CASE pass.pc # "fetch"
      <4>1. p.seen[PassFinalized] = pass.seen[PassFinalized]
        BY <1>5
      <4>2. \A b \in Batches : Judged(pass, b) => Judged(p, b)'
        BY <1>1, <1>5, <2>1, <4>1, JudgedKept
      <4>3. pass.blocked = "none" /\ (pass.run # 0 => RunPhase(pass))
        <5>1. CASE pass.pc \in SignedSteps \cup PrepareSteps
          BY <1>2, <5>1, WorkingPhase DEF Phase
        <5>2. CASE pass.pc = "reconcile"
          BY <1>2, <5>2 DEF Phase
        <5> QED
          BY <1>1, <3>1, <5>1, <5>2 DEF SignedSteps, PrepareSteps
      <4>4. pass.pc \notin {"idle", "fetch"}
        BY <1>1, <3>1
      <4> QED
        BY <1>1, <1>5, <1>6, <4>1, <4>2, <4>3, <4>4, ThrewBooks
    <3>2. CASE pass.pc = "fetch"
      <4>1. p.run = 0
        BY <1>2, <1>5, <3>2 DEF Phase
      <4>2. PICK q : q = [p EXCEPT !.pc = "settings", !.blocked = "other", !.batch = 0]
        OBVIOUS
      <4>3. /\ q.pc = "settings" /\ q.blocked = "other" /\ q.run = 0 /\ q.head = pass.head
            /\ q.seen = pass.seen
        BY <1>5, <4>1, <4>2 DEF PassFields, IdlePass
      <4>4. pass' = q
        BY <1>6, <4>1, <4>2 DEF Threw
      <4>5. Reading(q)'
        BY <1>1, <1>2, <4>3, SameReading
      <4>6. Phase(q) /\ Checked(q)'
        BY <4>3 DEF Phase, Checked, SignedSteps, PrepareSteps, RunPhase
      <4>7. Reading(pass)' /\ Phase(pass)' /\ Checked(pass)'
        BY <4>4, <4>5, <4>6 DEF Reading, Phase, Checked, OneFork, AtFork, RunPhase, Judged
      <4> QED
        BY <4>3, <4>4, <4>7 DEF PassBooks
    <3> QED
      BY <3>1, <3>2
  <2> QED
    BY <1>1, <1>2, <2>1, <2>2, <2>3, SameRows
<1> QED
  BY <1>7, <1>8

LEMMA CrashBooks ==
  ASSUME BooksInv, TableInv', Crash
  PROVE  Books'
<1>1. /\ ChainSame /\ checkpoint' = checkpoint /\ sent' = sent /\ click' = click
      /\ batch' = batch /\ pass'.pc = "idle" /\ pass.pc # "idle"
  BY DEF Crash, chainVars, dbVars, ChainSame, IdlePass
<1>2. PassBooks'
  BY <1>1 DEF PassBooks
<1> QED
  BY <1>1, <1>2, SameRows DEF KeepRow, KeepClick

-----------------------------------------------------------------------------
(* The checkpoint. *)

LEMMA SaveCheckpointBooks ==
  ASSUME BooksInv, TableInv', NEW ready, SaveCheckpoint(ready)
  PROVE  Books'
<1> DEFINE here == [n |-> PassFinalized, hash |-> pass.seen[PassFinalized]]
<1>1. /\ ChainSame /\ sent' = sent /\ click' = click /\ batch' = batch
      /\ pass.pc = "settings" \/ (pass.pc = "reconcile" /\ pass.todo = {})
  BY DEF SaveCheckpoint, chainVars, ChainSame
<1>2. /\ TableInv /\ NodeShape /\ PassFields(pass) /\ Reading(pass) /\ Phase(pass) /\ Checked(pass)
      /\ PassShape
  BY <1>1 DEF BooksInv, Books, PassBooks, TableInv, Tables, PassTypes, JournalInv
<1>3. pass.run = 0 /\ pass.batch = 0
  BY <1>1, <1>2 DEF Phase, PassShape, SignedSteps, PrepareSteps
<1>4. PassFinalized \in 0..Height /\ PassFinalized \in 0..MaxHeight /\ MaxHeight \in Nat
  BY <1>2, PassFinalizedBound, ChainAssumption
<1>5. pass.seen[PassFinalized] \in 0..forks /\ pass.seen[PassFinalized] # -1
  BY <1>2, <1>4 DEF Reading, PassFinalized
<1>6. checkpoint' = IF pass.blocked = "none" THEN here ELSE checkpoint
  BY <1>5 DEF SaveCheckpoint, Hash
<1>7. PICK blocked, outage :
        /\ pass' = AfterRefresh([pass EXCEPT !.auto = auto, !.todo = {}, !.blocked = blocked,
                                             !.outage = outage])
        /\ pass.blocked # "none" => blocked # "none"
  <2> DEFINE blocked == IF pass.blocked = "none" /\ ~ready THEN "other" ELSE pass.blocked
             outage == pass.outage \/ ~ready
  <2>1. pass' = AfterRefresh([pass EXCEPT !.auto = auto, !.todo = {}, !.blocked = blocked,
                                          !.outage = outage])
    BY DEF SaveCheckpoint
  <2>2. pass.blocked # "none" => blocked # "none"
    OBVIOUS
  <2> HIDE DEF blocked, outage
  <2> QED
    BY <2>1, <2>2
<1>8. PICK q : /\ pass' = q /\ q.head = pass.head /\ q.seen = pass.seen /\ q.run = 0
               /\ q.blocked = blocked /\ q.pc \in {"refresh", "plan"}
  <2>1. PICK p : p = [pass EXCEPT !.auto = auto, !.todo = {}, !.blocked = blocked,
                                  !.outage = outage]
    OBVIOUS
  <2>2. /\ DOMAIN p = DOMAIN IdlePass /\ p.head = pass.head /\ p.seen = pass.seen /\ p.run = 0
        /\ p.blocked = blocked
    BY <1>2, <1>3, <2>1 DEF PassFields, IdlePass
  <2>3. pass' = [p EXCEPT !.pc = IF p.refresh # {} THEN "refresh" ELSE "plan"]
    BY <1>7, <2>1, <2>2 DEF AfterRefresh
  <2>4. /\ pass'.head = pass.head /\ pass'.seen = pass.seen /\ pass'.run = 0
        /\ pass'.blocked = blocked /\ pass'.pc \in {"refresh", "plan"}
    BY <2>2, <2>3 DEF IdlePass
  <2> QED
    BY <2>4
<1>9. Reading(q) /\ Reading(q)' /\ q.seen[PassFinalized] = pass.seen[PassFinalized]
  BY <1>1, <1>2, <1>8, SameReading
<1>10. Phase(q)
  BY <1>8 DEF Phase, SignedSteps
<1>11. pass.blocked = "none" => \A b \in Batches : Judged(pass, b)
  BY <1>1, <1>2, <1>3 DEF Checked, Phase, Batches
<1>12. Canonical(here) => AtFork(pass)
  BY DEF Canonical, AtFork, PassFinalized
<1>13. PassBooks'
  <2>1. Checked(q)'
    <3>1. CASE q.blocked # "none"
      BY <1>8, <3>1 DEF Checked
    <3>2. CASE q.blocked = "none"
      <4>1. pass.blocked = "none"
        BY <1>7, <1>8, <3>2
      <4>2. \A b \in Batches : Judged(q, b)'
        BY <1>1, <1>8, <1>9, <1>11, <4>1, JudgedKept DEF KeepRow
      <4>3. checkpoint' = [n |-> Finalized(q.head), hash |-> q.seen[Finalized(q.head)]]
        BY <1>6, <1>8, <4>1 DEF PassFinalized
      <4> QED
        BY <1>8, <4>2, <4>3 DEF Checked
    <3> QED
      BY <3>1, <3>2
  <2>2. Reading(pass)' /\ Phase(pass)' /\ Checked(pass)'
    BY <1>8, <1>9, <1>10, <2>1 DEF Reading, Phase, Checked, OneFork, AtFork, RunPhase, Judged
  <2> QED
    BY <2>2 DEF PassBooks
<1>14. HeadKept
  BY <1>1, <1>2, <1>8, HeadStays
<1>15. ASSUME NEW b \in Batches
       PROVE  RowBooks(b)'
  <2>1. RowBooks(b) /\ KeepRow(b)
    BY <1>1 DEF BooksInv, Books, KeepRow
  <2>2. CASE pass.blocked # "none"
    <3>1. checkpoint' = checkpoint
      BY <1>6, <2>2
    <3> QED
      BY <1>1, <1>2, <1>14, <2>1, <3>1, RowSame
  <2>3. CASE pass.blocked = "none"
    <3>1. checkpoint' = here
      BY <1>6, <2>3
    <3>2. Canonical(here) /\ batch[b].status \in Terminal /\ batch[b].receipt # NoBlock =>
            Canonical(batch[b].receipt)
      BY <1>11, <1>12, <2>3 DEF Judged, HasReceipt, Closed, OneFork
    <3> HIDE DEF here
    <3> QED
      BY <1>1, <1>2, <1>14, <2>1, <3>1, <3>2, RowKept
  <2> QED
    BY <2>2, <2>3
<1>16. ASSUME NEW c \in Clicks
       PROVE  ClickBooks(c)'
  BY <1>1, <1>2, ClickKept DEF BooksInv, Books, KeepClick, KeepTerms
<1>17. SameTerms'
  BY <1>1 DEF BooksInv, Books, SameTerms
<1>18. CheckpointKnown'
  BY <1>1, <1>4, <1>5, <1>6, SameBlocks DEF BooksInv, Books, CheckpointKnown, ChainSame
<1> QED
  BY <1>13, <1>15, <1>16, <1>17, <1>18 DEF Books

-----------------------------------------------------------------------------
(* Runs. *)

\* Runs are looked at, and maybe the next one is begun.
LEMMA RunBooks ==
  ASSUME BooksInv, TableInv', ChainSame, checkpoint' = checkpoint, sent' = sent,
         batch' = batch, click' = click, RunPhase(pass), NEW q, pass' = q,
         \/ q.pc = "idle"
         \/ /\ q.head = pass.head /\ q.seen = pass.seen
            /\ q.pc \in {"refresh", "plan", "run", "prepare", "check", "finish"}
            /\ q.run # 0 => pass.run # 0
            /\ q.blocked = "none" => pass.blocked = "none"
            /\ q.run # 0 => q.blocked = "none"
  PROVE  Books'
<1>1. TableInv
  BY DEF BooksInv
<1>2. pass.pc \notin {"idle", "fetch"}
  BY DEF RunPhase, SignedSteps, PrepareSteps
<1>3. \A b \in Batches : KeepRow(b)
  BY DEF KeepRow
<1>4. \A c \in Clicks : KeepClick(c)
  BY DEF KeepClick
<1>5. PassBooks'
  <2>1. CASE q.pc = "idle"
    BY <2>1 DEF PassBooks
  <2>2. CASE q.pc # "idle"
    <3>1. Reading(pass)
      BY <1>2 DEF BooksInv, Books, PassBooks
    <3>2. Reading(q) /\ q.seen[PassFinalized] = pass.seen[PassFinalized]
      BY <2>2, <3>1, SameReading
    <3>3. Phase(q)
      BY <2>2 DEF Phase, SignedSteps
    <3>4. \A b \in Batches : Judged(pass, b) => Judged(q, b)'
      BY <1>3, <2>2, <3>2, JudgedKept
    <3> QED
      BY <1>2, <2>2, <3>2, <3>3, <3>4, GoesOn
  <2> QED
    BY <2>1, <2>2
<1> QED
  BY <1>1, <1>2, <1>3, <1>4, <1>5, SameRows

LEMMA NextRunFields ==
  ASSUME NEW p, DOMAIN p = DOMAIN IdlePass, NEW runs, NEW q, q = NextRun(p, runs)
  PROVE  \/ q.pc = "idle"
         \/ /\ q.head = p.head /\ q.seen = p.seen /\ q.blocked = p.blocked
            /\ q.run = 0 /\ q.pc = "run"
  BY DEF NextRun, IdlePass

LEMMA AfterRefreshFields ==
  ASSUME NEW p, DOMAIN p = DOMAIN IdlePass, NEW q, q = AfterRefresh(p)
  PROVE  /\ q.head = p.head /\ q.seen = p.seen /\ q.blocked = p.blocked /\ q.run = p.run
         /\ q.pc \in {"refresh", "plan", "prepare"}
  BY DEF AfterRefresh, IdlePass

LEMMA RefreshRunBooks ==
  ASSUME BooksInv, TableInv', RefreshRun
  PROVE  Books'
<1>1. /\ ChainSame /\ checkpoint' = checkpoint /\ sent' = sent /\ click' = click
      /\ batch' = batch /\ pass.pc = "refresh" /\ RunPhase(pass)
  BY DEF RefreshRun, chainVars, ChainSame, RunPhase
<1>2. PassFields(pass) /\ Phase(pass)
  BY <1>1 DEF BooksInv, Books, PassBooks, TableInv, Tables, PassTypes
<1>3. PICK p : p = [pass EXCEPT !.refresh = @ \ {Min(pass.refresh)}]
  OBVIOUS
<1>4. /\ DOMAIN p = DOMAIN IdlePass /\ p.head = pass.head /\ p.seen = pass.seen
      /\ p.blocked = pass.blocked /\ p.run = pass.run
  BY <1>2, <1>3 DEF PassFields, IdlePass
<1>5. PICK q : q = AfterRefresh(p)
  OBVIOUS
<1>6. /\ q.head = p.head /\ q.seen = p.seen /\ q.blocked = p.blocked /\ q.run = p.run
      /\ q.pc \in {"refresh", "plan", "prepare"}
  BY <1>4, <1>5, AfterRefreshFields
<1>7. pass' = q
  BY <1>3, <1>5 DEF RefreshRun
<1> QED
  BY <1>1, <1>2, <1>4, <1>6, <1>7, RunBooks DEF Phase

LEMMA PlanRunsBooks ==
  ASSUME BooksInv, TableInv', PlanRuns
  PROVE  Books'
<1>1. /\ ChainSame /\ checkpoint' = checkpoint /\ sent' = sent /\ click' = click
      /\ batch' = batch /\ pass.pc = "plan" /\ RunPhase(pass)
  BY DEF PlanRuns, chainVars, ChainSame, RunPhase
<1>2. DOMAIN pass = DOMAIN IdlePass
  BY DEF BooksInv, TableInv, Tables, PassTypes, PassFields
<1>3. PICK runs : pass' = NextRun(pass, runs)
  BY DEF PlanRuns
<1>4. PICK q : q = NextRun(pass, runs)
  OBVIOUS
<1>5. \/ q.pc = "idle"
      \/ /\ q.head = pass.head /\ q.seen = pass.seen /\ q.blocked = pass.blocked
         /\ q.run = 0 /\ q.pc = "run"
  BY <1>2, <1>4, NextRunFields
<1> QED
  BY <1>1, <1>3, <1>4, <1>5, RunBooks

LEMMA BlockRunBooks ==
  ASSUME BooksInv, TableInv', BlockRun
  PROVE  Books'
<1>1. /\ ChainSame /\ checkpoint' = checkpoint /\ sent' = sent /\ click' = click
      /\ batch' = batch /\ pass.pc = "run" /\ RunPhase(pass)
  BY DEF BlockRun, chainVars, ChainSame, RunPhase
<1>2. DOMAIN pass = DOMAIN IdlePass
  BY DEF BooksInv, TableInv, Tables, PassTypes, PassFields
<1>3. PICK runs : pass' = NextRun(pass, runs)
  BY DEF BlockRun
<1>4. PICK q : q = NextRun(pass, runs)
  OBVIOUS
<1>5. \/ q.pc = "idle"
      \/ /\ q.head = pass.head /\ q.seen = pass.seen /\ q.blocked = pass.blocked
         /\ q.run = 0 /\ q.pc = "run"
  BY <1>2, <1>4, NextRunFields
<1> QED
  BY <1>1, <1>3, <1>4, <1>5, RunBooks

LEMMA FinishRunBooks ==
  ASSUME BooksInv, TableInv', FinishRun
  PROVE  Books'
<1>1. /\ ChainSame /\ checkpoint' = checkpoint /\ sent' = sent /\ click' = click
      /\ batch' = batch /\ RunPhase(pass)
  BY DEF FinishRun, chainVars, ChainSame, RunPhase
<1>2. DOMAIN pass = DOMAIN IdlePass
  BY DEF BooksInv, TableInv, Tables, PassTypes, PassFields
<1>3. PICK blocked :
        /\ pass' = NextRun([pass EXCEPT !.todo = {}, !.failure = "none", !.blocked = blocked],
                           pass.runs)
        /\ blocked = "none" => pass.blocked = "none"
  <2> DEFINE blocked == IF pass.failure \in {"none", "waiting", "orphaned"} THEN pass.blocked
                        ELSE pass.failure
  <2>1. /\ pass' = NextRun([pass EXCEPT !.todo = {}, !.failure = "none", !.blocked = blocked],
                           pass.runs)
    BY DEF FinishRun
  <2>2. blocked = "none" => pass.blocked = "none"
    OBVIOUS
  <2> HIDE DEF blocked
  <2> QED
    BY <2>1, <2>2
<1>4. PICK p : p = [pass EXCEPT !.todo = {}, !.failure = "none", !.blocked = blocked]
  OBVIOUS
<1>5. /\ DOMAIN p = DOMAIN IdlePass /\ p.head = pass.head /\ p.seen = pass.seen
      /\ p.blocked = blocked
  BY <1>2, <1>4 DEF IdlePass
<1>6. PICK q : q = NextRun(p, pass.runs)
  OBVIOUS
<1>7. \/ q.pc = "idle"
      \/ /\ q.head = p.head /\ q.seen = p.seen /\ q.blocked = p.blocked
         /\ q.run = 0 /\ q.pc = "run"
  BY <1>5, <1>6, NextRunFields
<1>8. pass' = q
  BY <1>3, <1>4, <1>6
<1> QED
  BY <1>1, <1>3, <1>5, <1>7, <1>8, RunBooks

LEMMA PrepareNextBooks ==
  ASSUME BooksInv, TableInv', PrepareNext
  PROVE  Books'
<1>1. /\ ChainSame /\ checkpoint' = checkpoint /\ sent' = sent /\ click' = click
      /\ batch' = batch /\ pass.pc = "prepare" /\ RunPhase(pass)
  BY DEF PrepareNext, chainVars, dbVars, ChainSame, RunPhase
<1>2. DOMAIN pass = DOMAIN IdlePass /\ Phase(pass)
  BY <1>1 DEF BooksInv, Books, PassBooks, TableInv, Tables, PassTypes, PassFields
<1>3. PICK b : \/ pass' = [pass EXCEPT !.todo = @ \ {b}]
               \/ pass' = [pass EXCEPT !.pc = "finish", !.todo = {}]
               \/ pass' = [pass EXCEPT !.pc = "check", !.batch = b, !.todo = @ \ {b}]
  <2>1. PICK b : b = Min(pass.todo)
    OBVIOUS
  <2>2. pass' = IF batch[b].deferred THEN [pass EXCEPT !.todo = @ \ {b}]
                ELSE IF run[pass.run].trigger = "AUTO" /\ ~auto
                THEN [pass EXCEPT !.pc = "finish", !.todo = {}]
                ELSE [pass EXCEPT !.pc = "check", !.batch = b, !.todo = @ \ {b}]
    BY <2>1 DEF PrepareNext
  <2> QED
    BY <2>2, Zenon
<1>4. /\ pass'.head = pass.head /\ pass'.seen = pass.seen /\ pass'.run = pass.run
      /\ pass'.blocked = pass.blocked /\ pass'.pc \in {"prepare", "finish", "check"}
  BY <1>1, <1>2, <1>3 DEF IdlePass
<1>5. PICK q : pass' = q
  OBVIOUS
<1> QED
  BY <1>1, <1>2, <1>4, <1>5, RunBooks DEF Phase

-----------------------------------------------------------------------------
(* The preparation of a batch. *)

\* The checks fail: the row keeps everything but its error.
LEMMA FailedBooks ==
  ASSUME BooksInv, TableInv', ChainSame, checkpoint' = checkpoint, pass.pc \in PrepareSteps,
         NEW b \in Batches, b = pass.batch, NEW error, error # "none", NEW x, Failed(b, x),
         NEW p, PassFields(p), p.head = pass.head, Reading(p),
         p.seen[PassFinalized] = pass.seen[PassFinalized],
         p.todo = pass.todo, p.run = pass.run, p.blocked = pass.blocked,
         pass' = Threw(p, error)
  PROVE  Books'
<1>1. /\ TableInv /\ batch \in [Batches -> BatchRecords] /\ RowBooks(b) /\ pass.run # 0
  BY WorkingPhase DEF BooksInv, Books, TableInv, Tables, RowTypes
<1>2. batch' = [batch EXCEPT ![b].error = Stored(x)] /\ sent' = sent /\ click' = click
  BY DEF Failed
<1>3. \A d \in Batches : KeepRow(d)
  BY <1>1, <1>2 DEF KeepRow, BatchRecords
<1>4. \A d \in Batches \ {b} : batch'[d] = batch[d]
  BY <1>1, <1>2
<1>5. HeadKept => RowBooks(b)'
  BY <1>1, <1>3, RowSame
<1>6. KeepTerms(b) /\ \A c \in Clicks : KeepClick(c)
  BY <1>2, <1>3 DEF KeepTerms, KeepRow, KeepClick
<1>7. Judged(pass, b) => Judged(p, b)'
  BY <1>3, JudgedKept
<1> QED
  BY <1>1, <1>2, <1>4, <1>5, <1>6, <1>7, BackBooks

\* Nonces rise along the chain.
LEMMA NoncesRise ==
  ASSUME NodeShape, NEW m \in Mined, NEW n \in Mined, m < n
  PROVE  Block(m).tx.nonce < Block(n).tx.nonce
<1>1. m \in Nat /\ n \in Nat /\ IsFiniteSet(Mined)
  BY NodeFacts DEF Mined
<1>2. IsFiniteSet(Earlier(m)) /\ IsFiniteSet(Earlier(n)) /\ m \notin Earlier(m)
  BY <1>1, FS_Subset DEF Earlier
<1>3. Cardinality(Earlier(m) \cup {m}) = Cardinality(Earlier(m)) + 1
  BY <1>2, FS_AddElement
<1>4. Earlier(m) \cup {m} \subseteq Earlier(n)
  <2> SUFFICES ASSUME NEW x \in Mined, x < m \/ x = m
               PROVE  x < n
    BY DEF Earlier
  <2>1. x \in Nat
    BY NodeFacts
  <2> HIDE DEF Mined
  <2> QED
    BY <1>1, <2>1
<1>5. Cardinality(Earlier(m) \cup {m}) <= Cardinality(Earlier(n))
  BY <1>2, <1>4, FS_Subset
<1>6. Cardinality(Earlier(m)) \in Nat /\ Cardinality(Earlier(n)) \in Nat
  BY <1>2, FS_CardinalityType
<1> QED
  BY <1>3, <1>5, <1>6 DEF NonceOrder, NodeShape

\* A batch that rests was never charged on the fork its failure is proven on.
LEMMA RestingUncharged ==
  ASSUME BooksInv, NEW b \in Batches, batch[b].status \in Preparable,
         batch[b].status = "FAILED" => Canonical(batch[b].receipt)
  PROVE  ~Processed(b)
<1>1. TableInv /\ NodeShape /\ SentShape /\ RowBooks(b) /\ LinkShape /\ ReceiptBlocks /\ RowTypes
  BY DEF BooksInv, Books, TableInv, Tables
<1> SUFFICES ASSUME NEW m \in ChargedIn(b)
             PROVE  FALSE
  BY DEF Processed
<1>2. /\ m \in Mined /\ Block(m).tx.charge = b /\ Block(m).result = "charged"
      /\ m \in 0..Height /\ Block(m).tx # NoTx
  BY DEF ChargedIn, Mined
<1>3. PICK t \in sent : t = Block(m).tx
  BY <1>1, <1>2, NodeFacts DEF BlockRecords
<1>4. t.nonce <= batch[b].nonce /\ t.nonce \in Nat /\ batch[b].nonce \in Nat \cup {-1}
  BY <1>1, <1>2, <1>3 DEF SentShape, NodeShape, Transactions, RowTypes, BatchRecords
<1>5. Signed(b)
  BY <1>4 DEF Signed
<1>6. batch[b].status = "FAILED" /\ batch[b].receipt # NoBlock
  BY <1>1, <1>5 DEF LinkShape, Preparable, RowBooks
<1> DEFINE n == batch[b].receipt.n
<1>7. n \in 0..Height /\ Block(n).tx = Transaction(b) /\ Block(n).result = "reverted"
  BY <1>1, <1>6 DEF ReceiptBlocks, RowBooks, Proves
<1>8. Transaction(b) \in sent /\ Transaction(b).charge = b /\ Transaction(b).nonce = batch[b].nonce
  BY <1>1, <1>5 DEF SentShape, Transaction
<1>9. Block(n).tx # NoTx /\ n \in Mined
  BY <1>1, <1>7, <1>8, ChargeAssumption DEF NodeShape, Transactions, Mined
<1> HIDE DEF n
<1>10. m \in Int /\ n \in Int
  BY <1>2, <1>7
<1>11. CASE m = n
  BY <1>2, <1>7, <1>11
<1>12. CASE m < n
  <2>1. m + 1 \in DOMAIN chain /\ n + 1 \in DOMAIN chain /\ m + 1 < n + 1
    BY <1>1, <1>2, <1>7, <1>10, <1>12, NodeFacts
  <2>2. chain[n + 1].result = "duplicate"
    <3>1. /\ chain[m + 1].tx # NoTx /\ chain[n + 1].tx # NoTx
          /\ chain[m + 1].result = "charged" /\ chain[m + 1].tx.charge = chain[n + 1].tx.charge
      BY <1>2, <1>7, <1>8, <1>9 DEF Block
    <3> QED
      BY <1>1, <2>1, <3>1 DEF ChargeOnce, NodeShape
  <2> QED
    BY <1>7, <2>2 DEF Block
<1>13. CASE n < m
  <2>1. Block(n).tx.nonce < Block(m).tx.nonce
    BY <1>1, <1>2, <1>9, <1>13, NoncesRise
  <2> QED
    BY <1>3, <1>4, <1>7, <1>8, <2>1
<1> QED
  BY <1>10, <1>11, <1>12, <1>13

\* Proven clicks were captured with the position of their batch.
LEMMA ProvenPosition ==
  ASSUME BooksInv, pass.pc \in PrepareSteps, NEW b \in Batches, batch[b].status # "none",
         NEW p, p = [pass EXCEPT !.seen = Seen(EvidenceRead(ClicksOf(b)))],
         CaptureErrors(b) = {}, AtFork(pass)
  PROVE  Position(batch[b].stake, PassFinalized).version >= batch[b].version
<1>1. TableInv /\ NodeShape /\ PassFields(pass) /\ Reading(pass)
  BY WorkingPass
<1>2. LinkShape /\ RowTypes
  BY <1>1 DEF TableInv, Tables
<1>3. PICK c \in ClicksOf(b) : c \in Clicks /\ click[c].batch = b
  <2>1. Follows(b)
    BY <1>2, FollowsAll DEF LinkShape
  <2>2. ClicksOf(b) # {}
    BY <2>1 DEF Follows
  <2> QED
    BY <2>2 DEF ClicksOf
<1>4. b # 0
  BY DEF Batches
<1>5. ClickBooks(c)
  BY <1>3 DEF BooksInv, Books
<1> DEFINE e == click[c].bid
<1>6. /\ e # NoBlock /\ e.n \in 0..Height /\ click[c].stake = batch[b].stake
      /\ click[c].version = batch[b].version
  BY <1>3, <1>4, <1>5 DEF ClickBooks
<1>7. e \in UNION {Evidence(d) : d \in ClicksOf(b)} /\ e \in BlockRefs
  BY <1>2, <1>3 DEF Evidence, RowTypes, ClickRecords
<1>8. e.n <= PassFinalized /\ ~Orphaned(e)
  <2>1. ~Orphaned(e) /\ ~(e.n > PassFinalized)
    BY <1>7 DEF CaptureErrors
  <2>2. e.n \in Int /\ PassFinalized \in Int
    BY <1>1, <1>6, PassFinalizedBound
  <2> HIDE DEF e, PassFinalized
  <2> QED
    BY <2>1, <2>2
<1>9. Hash(e.n) = e.hash
  BY <1>8 DEF Orphaned
<1>10. PassFinalized \in 0..Height /\ PassFinalized \in 0..MaxHeight /\ Height \in Nat
       /\ MaxHeight \in Nat
  BY <1>1, PassFinalizedBound, NodeFacts, ChainAssumption
<1>11. e.n \in 0..PassFinalized /\ e.n \in 0..MaxHeight
  <2> HIDE DEF e
  <2> QED
    BY <1>6, <1>8, <1>10
<1>12. e.n \in EvidenceRead(ClicksOf(b)) /\ EvidenceRead(ClicksOf(b)) \in SUBSET (0..PassFinalized)
  BY <1>7, <1>11 DEF EvidenceRead
<1> HIDE DEF e
<1> DEFINE ns == EvidenceRead(ClicksOf(b))
<1>13. /\ Reading(p) /\ p.seen[PassFinalized] = pass.seen[PassFinalized] /\ p.head = pass.head
       /\ p.seen[e.n] = Hash(e.n) /\ p.seen[e.n] # -1
  <2>1. ns \in SUBSET (0..PassFinalized) /\ ns \in SUBSET (0..Height) /\ e.n \in ns
    BY <1>10, <1>12
  <2>2. p = [pass EXCEPT !.seen = Seen(ns)]
    OBVIOUS
  <2> HIDE DEF ns
  <2>3. p.head = pass.head /\ p.seen = Seen(ns)
    BY <1>1, <2>1, <2>2, SeenPass
  <2> QED
    BY <1>1, <2>1, <2>3, ReadMore
<1>14. OneFork(p, [n |-> e.n, hash |-> e.hash])
  BY <1>9, <1>11, <1>13 DEF Reading
<1>15. [n |-> e.n, hash |-> e.hash] = e
  BY <1>7 DEF BlockRefs
<1>16. Canonical(e)
  BY <1>13, <1>14, <1>15 DEF OneFork, AtFork, PassFinalized
<1>17. Position(batch[b].stake, e.n).version = batch[b].version
  BY <1>5, <1>6, <1>16 DEF ClickBooks, e
<1>18. /\ e.n + 1 \in DOMAIN chain /\ PassFinalized + 1 \in DOMAIN chain
       /\ e.n + 1 <= PassFinalized + 1
  <2>1. e.n + 1 \in DOMAIN chain /\ PassFinalized + 1 \in DOMAIN chain
    BY <1>1, <1>6, <1>10, NodeFacts
  <2> HIDE DEF PassFinalized
  <2> QED
    BY <1>6, <1>8, <1>10, <2>1
<1>19. batch[b].stake \in Stakes
  BY <1>2 DEF RowTypes, BatchRecords
<1>20. NotAfter(chain[e.n + 1].position[batch[b].stake],
                chain[PassFinalized + 1].position[batch[b].stake])
  BY <1>1, <1>18, <1>19 DEF PositionOrder, NodeShape
<1>21. /\ Position(batch[b].stake, e.n) = chain[e.n + 1].position[batch[b].stake]
       /\ Position(batch[b].stake, PassFinalized) = chain[PassFinalized + 1].position[batch[b].stake]
  BY DEF Position, Block
<1>22. /\ Position(batch[b].stake, PassFinalized).version \in Nat
       /\ Position(batch[b].stake, e.n).version \in Nat
  <2>1. Block(e.n) \in BlockRecords /\ Block(PassFinalized) \in BlockRecords
    BY <1>1, <1>6, <1>10, NodeFacts
  <2> QED
    BY <1>19, <2>1 DEF BlockRecords, Position
<1> QED
  BY <1>17, <1>20, <1>21, <1>22 DEF NotAfter

\* A write-off is proven by the block the checkpoint is at.
LEMMA WriteOffBooks ==
  ASSUME BooksInv, TableInv', ChainSame, checkpoint' = checkpoint, pass.pc \in PrepareSteps,
         NEW b \in Batches, b = pass.batch,
         NEW p, p = [pass EXCEPT !.seen = Seen(EvidenceRead(ClicksOf(b)))],
         CaptureErrors(b) = {}, ~Covers(b, PassFinalized), WriteOff(b),
         pass' = Returned(p, FALSE)
  PROVE  Books'
<1> DEFINE here == [n |-> PassFinalized, hash |-> pass.seen[PassFinalized]]
           proof == [n |-> PassFinalized, hash |-> Hash(PassFinalized)]
<1>1. /\ TableInv /\ NodeShape /\ PassFields(pass) /\ Reading(pass) /\ Phase(pass) /\ Checked(pass)
      /\ LinkShape /\ batch \in [Batches -> BatchRecords] /\ click \in [Clicks -> ClickRecords]
  BY WorkingPass DEF TableInv, Tables, RowTypes
<1>2. /\ batch[b].status \in Preparable /\ batch[b].status # "none" /\ pass.run # 0
      /\ pass.blocked = "none" /\ RunPhase(pass) /\ pass.pc # "fetch" /\ pass.pc # "idle"
  BY <1>1, PreparedOpen, WorkingPhase DEF Phase
<1>3. PassFinalized \in 0..Height /\ PassFinalized \in 0..MaxHeight
  BY <1>1, PassFinalizedBound
<1>4. /\ pass.seen[PassFinalized] \in 0..forks /\ pass.seen[PassFinalized] # -1
      /\ proof = here
  BY <1>1, <1>3 DEF Reading, PassFinalized, Hash
<1>5. here # NoBlock /\ here.n = PassFinalized /\ here.hash \in 0..forks
  BY <1>4 DEF NoBlock
<1>6. checkpoint = here
  BY <1>1, <1>2 DEF Checked, PassFinalized
<1>7. Canonical(here) <=> AtFork(pass)
  <2>1. PassFinalized <= Height
    <3>1. Height \in Nat
      BY <1>1, NodeFacts
    <3> HIDE DEF PassFinalized
    <3> QED
      BY <1>3, <3>1
  <2> QED
    BY <2>1 DEF Canonical, AtFork, PassFinalized
<1> HIDE DEF here, proof
<1>8. Canonical(here) => ~Processed(b) /\ Gone(b, PassFinalized)
  <2> SUFFICES ASSUME Canonical(here)
               PROVE  ~Processed(b) /\ Gone(b, PassFinalized)
    OBVIOUS
  <2>1. AtFork(pass)
    BY <1>7
  <2>2. ~Processed(b)
    <3>1. batch[b].status = "FAILED" => Canonical(batch[b].receipt)
      <4>1. batch[b].status = "FAILED" => HasReceipt(b)
        BY DEF BooksInv, Books, RowBooks, HasReceipt, Closed
      <4>2. Judged(pass, b)
        BY <1>1, <1>2 DEF Checked
      <4> QED
        BY <2>1, <4>1, <4>2 DEF Judged, OneFork
    <3> QED
      BY <1>2, <3>1, RestingUncharged
  <2>3. Gone(b, PassFinalized)
    <3> DEFINE q == Position(batch[b].stake, PassFinalized)
    <3>1. q.version >= batch[b].version
      BY <1>2, <2>1, ProvenPosition
    <3>2. q.version \in Nat /\ q.amount \in Nat /\ batch[b].version \in Nat
      <4>1. Block(PassFinalized) \in BlockRecords /\ batch[b] \in BatchRecords
        BY <1>1, <1>3, NodeFacts
      <4> QED
        BY <4>1 DEF BlockRecords, BatchRecords, Position
    <3>3. ~(q.version = batch[b].version /\ q.amount > 0)
      BY DEF Covers
    <3> HIDE DEF q
    <3>4. q.version > batch[b].version \/ (q.version = batch[b].version /\ q.amount = 0)
      BY <3>1, <3>2, <3>3
    <3> QED
      BY <3>4 DEF Gone, q
  <2> QED
    BY <2>2, <2>3
<1>9. PICK row : /\ batch' = [batch EXCEPT ![b] = row]
                 /\ row.status = "UNCOLLECTABLE" /\ row.receipt = here
                 /\ row.stake = batch[b].stake /\ row.version = batch[b].version
  <2>1. batch' = [batch EXCEPT ![b] =
          [batch[b] EXCEPT !.status = "UNCOLLECTABLE", !.charged = 0, !.error = "other",
                           !.receipt = here]]
    BY <1>4 DEF WriteOff, proof
  <2>2. batch[b] \in BatchRecords
    BY <1>1
  <2>3. PICK row : row = [batch[b] EXCEPT !.status = "UNCOLLECTABLE", !.charged = 0,
                                          !.error = "other", !.receipt = here]
    OBVIOUS
  <2>4. /\ row.status = "UNCOLLECTABLE" /\ row.receipt = here
        /\ row.stake = batch[b].stake /\ row.version = batch[b].version
    BY <2>2, <2>3 DEF BatchRecords
  <2> QED
    BY <2>1, <2>3, <2>4
<1>10. batch'[b] = row /\ \A d \in Batches \ {b} : batch'[d] = batch[d]
  BY <1>1, <1>9
<1>11. sent' = sent
  BY DEF WriteOff
<1>12. HeadKept => RowBooks(b)'
  <2> SUFFICES ASSUME HeadKept
               PROVE  RowBooks(b)'
    OBVIOUS
  <2>1. PICK h : h = here /\ h # NoBlock /\ h.n = PassFinalized /\ h.hash \in 0..forks
    BY <1>5
  <2>2. PICK m : m = PassFinalized /\ m \in 0..Height
    BY <1>3
  <2>3. m <= Finalized(LedgerHead)'
    <3>1. Finalized(LedgerHead) = m
      BY <1>1, <1>2, <2>2, LedgerFinal
    <3> QED
      BY <3>1 DEF HeadKept
  <2>4. Processed(b)' = Processed(b) /\ Canonical(h)' = Canonical(h)
    BY SameBlocks
  <2>5. Gone(b, m)' = Gone(b, m)
    BY <1>9, <1>10, SameBlocks DEF Gone
  <2>6. Canonical(h)' => Proves(b)'
    <3>1. Canonical(h)' => ~Processed(b)' /\ Gone(b, m)'
      BY <1>8, <2>1, <2>2, <2>4, <2>5
    <3>2. batch'[b].status = "UNCOLLECTABLE" /\ batch'[b].receipt.n = m
      BY <1>9, <1>10, <2>1, <2>2
    <3> QED
      BY <3>1, <3>2 DEF Proves
  <2>7. Canonical(batch[b].receipt)' = Canonical(h)' /\ Canonical(checkpoint)' = Canonical(h)'
    BY <1>6, <1>9, <1>10, <2>1 DEF Canonical
  <2>8. batch'[b].receipt = h /\ batch'[b].status = "UNCOLLECTABLE"
    BY <1>9, <1>10, <2>1
  <2> QED
    BY <2>1, <2>2, <2>3, <2>6, <2>7, <2>8 DEF RowBooks, ChainSame
<1>13. /\ PassFields(p) /\ p.head = pass.head /\ Reading(p)
       /\ p.seen[PassFinalized] = pass.seen[PassFinalized]
       /\ p.todo = pass.todo /\ p.run = pass.run /\ p.blocked = pass.blocked
  <2>1. EvidenceRead(ClicksOf(b)) \in SUBSET (0..PassFinalized)
    BY DEF EvidenceRead
  <2> QED
    BY <1>1, <2>1, ReadPass
<1>14. Judged(p, b)'
  <2>1. PICK h : h = here
    OBVIOUS
  <2>2. batch'[b].receipt = h
    BY <1>9, <1>10, <2>1
  <2>3. AtFork(p) <=> AtFork(pass)
    BY <1>13 DEF AtFork, PassFinalized
  <2>4. AtFork(p)' => Canonical(h)'
    BY <1>7, <2>1, <2>3, SameBlocks DEF AtFork
  <2>5. Canonical(batch[b].receipt)' = Canonical(h)'
    BY <2>2 DEF Canonical
  <2> QED
    BY <2>4, <2>5 DEF Judged, OneFork
<1>15. ASSUME NEW c \in Clicks
       PROVE  KeepClick(c)
  <2>1. \/ click'[c] = [click[c] EXCEPT !.status = "UNCOLLECTABLE"]
        \/ click'[c] = click[c]
    BY DEF WriteOff
  <2> QED
    BY <1>1, <2>1 DEF KeepClick, ClickRecords
<1>16. KeepTerms(b)
  BY <1>9, <1>10 DEF KeepTerms
<1> QED
  BY <1>10, <1>11, <1>12, <1>13, <1>14, <1>15, <1>16, BackBooks

LEMMA CheckBatchBooks ==
  ASSUME BooksInv, TableInv', CheckBatch
  PROVE  Books'
<1>1. /\ pass.pc = "check" /\ pass.pc \in PrepareSteps /\ ChainSame /\ checkpoint' = checkpoint
  BY DEF CheckBatch, PrepareSteps, chainVars, ChainSame
<1>2. TableInv /\ NodeShape /\ PassFields(pass) /\ Reading(pass) /\ Phase(pass)
  BY <1>1, WorkingPass
<1>3. PICK b \in Batches : b = pass.batch
  BY <1>1, <1>2, PreparedOpen
<1>4. PICK p : p = [pass EXCEPT !.seen = Seen(EvidenceRead(ClicksOf(b)))]
  OBVIOUS
<1>5. /\ PassFields(p) /\ p.head = pass.head /\ Reading(p)
      /\ p.seen[PassFinalized] = pass.seen[PassFinalized]
      /\ p.todo = pass.todo /\ p.run = pass.run /\ p.blocked = pass.blocked
      /\ p.batch = pass.batch
  <2>1. EvidenceRead(ClicksOf(b)) \in SUBSET (0..PassFinalized)
    BY DEF EvidenceRead
  <2> QED
    BY <1>2, <1>4, <2>1, ReadPass
<1>6. \/ \E error \in {"orphaned", "waiting", "other"} : Failed(b, error) /\ pass' = Threw(p, error)
      \/ /\ CaptureErrors(b) = {} /\ ~Covers(b, PassFinalized)
         /\ WriteOff(b) /\ pass' = Returned(p, FALSE)
      \/ pass' = [p EXCEPT !.pc = "sign"] /\ UNCHANGED <<click, batch, sent>>
  <2>1. CaptureErrors(b) \subseteq {"orphaned", "waiting"}
    BY DEF CaptureErrors
  <2> QED
    BY <1>3, <1>4, <2>1 DEF CheckBatch
<1>7. ASSUME NEW error \in {"orphaned", "waiting", "other"}, Failed(b, error),
             pass' = Threw(p, error)
      PROVE  Books'
  <2>1. error # "none"
    OBVIOUS
  <2> QED
    BY <1>1, <1>3, <1>5, <1>7, <2>1, FailedBooks
<1>8. CASE /\ CaptureErrors(b) = {} /\ ~Covers(b, PassFinalized)
           /\ WriteOff(b) /\ pass' = Returned(p, FALSE)
  BY <1>1, <1>3, <1>4, <1>8, WriteOffBooks
<1>9. CASE pass' = [p EXCEPT !.pc = "sign"] /\ UNCHANGED <<click, batch, sent>>
  <2>1. PICK q : q = [p EXCEPT !.pc = "sign"]
    OBVIOUS
  <2>2. /\ q.pc = "sign" /\ q.head = pass.head /\ q.seen = p.seen /\ q.todo = pass.todo
        /\ q.run = pass.run /\ q.blocked = pass.blocked /\ q.batch = pass.batch
    BY <1>5, <2>1 DEF PassFields, IdlePass
  <2>3. Reading(q) /\ pass' = q /\ q.pc \in PrepareSteps
    BY <1>1, <1>5, <1>9, <2>1, <2>2, SameReading DEF PrepareSteps
  <2>4. q.seen[PassFinalized] = pass.seen[PassFinalized]
    BY <1>5, <2>2
  <2> QED
    BY <1>1, <1>9, <2>2, <2>3, <2>4, SameWorkBooks
<1> QED
  BY <1>6, <1>7, <1>8, <1>9

LEMMA SignBatchBooks ==
  ASSUME BooksInv, TableInv', SignBatch
  PROVE  Books'
<1>1. /\ pass.pc = "sign" /\ pass.pc \in PrepareSteps /\ ChainSame /\ checkpoint' = checkpoint
      /\ click' = click
  BY DEF SignBatch, PrepareSteps, chainVars, ChainSame
<1>2. /\ TableInv /\ NodeShape /\ PassFields(pass) /\ Reading(pass) /\ Phase(pass)
      /\ batch \in [Batches -> BatchRecords]
  BY <1>1, WorkingPass DEF TableInv, Tables, RowTypes
<1>3. PICK b \in Batches : b = pass.batch
  BY <1>1, <1>2, PreparedOpen
<1>4. \/ \E error \in {"waiting", "other"} : Failed(b, error) /\ pass' = Threw(pass, error)
      \/ /\ batch' = [batch EXCEPT ![b] =
              [@ EXCEPT !.status = "SIGNED", !.nonce = PendingNonce,
                        !.attempts = batch[b].attempts + 1, !.error = "none",
                        !.deferred = FALSE, !.receipt = NoBlock]]
         /\ sent' = sent \cup {[Transaction(b) EXCEPT !.nonce = PendingNonce,
                                                     !.attempt = batch[b].attempts + 1]}
         /\ pass' = [pass EXCEPT !.pc = "receipt"]
  BY <1>3 DEF SignBatch
<1>5. ASSUME NEW error \in {"waiting", "other"}, Failed(b, error), pass' = Threw(pass, error)
      PROVE  Books'
  <2>1. error # "none"
    OBVIOUS
  <2> QED
    BY <1>1, <1>2, <1>3, <1>5, <2>1, FailedBooks
<1>6. CASE /\ batch' = [batch EXCEPT ![b] =
                [@ EXCEPT !.status = "SIGNED", !.nonce = PendingNonce,
                          !.attempts = batch[b].attempts + 1, !.error = "none",
                          !.deferred = FALSE, !.receipt = NoBlock]]
           /\ sent' = sent \cup {[Transaction(b) EXCEPT !.nonce = PendingNonce,
                                                       !.attempt = batch[b].attempts + 1]}
           /\ pass' = [pass EXCEPT !.pc = "receipt"]
  <2>1. PICK row : row = [batch[b] EXCEPT !.status = "SIGNED", !.nonce = PendingNonce,
                            !.attempts = batch[b].attempts + 1, !.error = "none",
                            !.deferred = FALSE, !.receipt = NoBlock]
    OBVIOUS
  <2>2. batch[b] \in BatchRecords
    BY <1>2
  <2>3. /\ row.status = "SIGNED" /\ row.receipt = NoBlock
        /\ row.stake = batch[b].stake /\ row.version = batch[b].version
    BY <2>1, <2>2 DEF BatchRecords
  <2>4. batch'[b] = row /\ \A d \in Batches \ {b} : batch'[d] = batch[d]
    BY <1>2, <1>6, <2>1
  <2>5. PICK tx : tx = [Transaction(b) EXCEPT !.nonce = PendingNonce,
                                              !.attempt = batch[b].attempts + 1]
    OBVIOUS
  <2>6. tx.charge = b /\ tx.stake = batch[b].stake /\ tx.version = batch[b].version
    BY <2>5 DEF Transaction
  <2>7. PICK q : q = [pass EXCEPT !.pc = "receipt"]
    OBVIOUS
  <2>8. /\ q.pc = "receipt" /\ q.head = pass.head /\ q.seen = pass.seen /\ q.todo = pass.todo
        /\ q.run = pass.run /\ q.blocked = pass.blocked /\ q.batch = pass.batch
    BY <1>2, <2>7 DEF PassFields, IdlePass
  <2>9. /\ pass.run # 0 /\ pass.pc \notin {"idle", "fetch"} /\ RunPhase(pass)
        /\ pass.blocked = "none"
    BY <1>1, <1>2, WorkingPhase DEF Phase
  <2>10. Reading(q)
    BY <1>1, <1>2, <2>8, SameReading
  <2>11. Phase(q)
    BY <2>8, <2>9 DEF Phase, SignedSteps
  <2>12. \A d \in Batches : Judged(pass, d) => Judged(q, d)'
    <3> SUFFICES ASSUME NEW d \in Batches, Judged(pass, d)
                 PROVE  Judged(q, d)'
      OBVIOUS
    <3>1. KeepRow(d) \/ batch'[d].receipt = NoBlock
      BY <2>3, <2>4 DEF KeepRow
    <3> QED
      BY <1>1, <2>8, <3>1, JudgedKept
  <2>13. pass' = q /\ q.pc # "fetch"
    BY <1>6, <2>7, <2>8
  <2>14. PassBooks'
    BY <1>1, <2>8, <2>9, <2>10, <2>11, <2>12, <2>13, GoesOn
  <2>15. HeadKept
    BY <1>1, <1>2, <2>8, <2>9, <2>13, HeadStays
  <2>16. ASSUME NEW d \in Batches
         PROVE  RowBooks(d)' /\ KeepTerms(d)
    <3>1. RowBooks(d)
      BY DEF BooksInv, Books
    <3>2. CASE d = b
      <4>1. batch'[d].status \in InFlight \cup {"PREPARED"} /\ batch'[d].receipt = NoBlock
        BY <2>3, <2>4, <3>2 DEF InFlight
      <4>2. RowBooks(d)'
        BY <1>1, <1>2, <2>15, <3>1, <4>1, RowOpens
      <4> QED
        BY <2>3, <2>4, <3>2, <4>2 DEF KeepTerms
    <3>3. CASE d # b
      <4>1. KeepRow(d) /\ KeepTerms(d)
        BY <2>4, <3>3 DEF KeepRow, KeepTerms
      <4> QED
        BY <1>1, <1>2, <2>15, <3>1, <4>1, RowSame
    <3> QED
      BY <3>2, <3>3
  <2>17. \A c \in Clicks : ClickBooks(c)'
    BY <1>1, <1>2, <2>16, ClickKept DEF BooksInv, Books, KeepClick
  <2>18. SameTerms'
    <3> SUFFICES ASSUME NEW t \in sent'
                 PROVE  t.stake = batch'[t.charge].stake /\ t.version = batch'[t.charge].version
      BY DEF SameTerms
    <3>1. CASE t = tx
      BY <2>3, <2>4, <2>6, <3>1
    <3>2. CASE t \in sent
      <4>1. t.charge \in Batches
        BY <1>2, <3>2 DEF NodeShape, Transactions
      <4> QED
        BY <2>16, <3>2, <4>1 DEF KeepTerms, BooksInv, Books, SameTerms
    <3> QED
      BY <1>6, <2>5, <3>1, <3>2
  <2>19. CheckpointKnown'
    BY <1>1, SameBlocks DEF BooksInv, Books, CheckpointKnown, ChainSame
  <2> QED
    BY <2>14, <2>16, <2>17, <2>18, <2>19 DEF Books
<1> QED
  BY <1>4, <1>5, <1>6

\* A reservation moves rows as they are and makes rows that owe evidence of nothing.
LEMMA ReserveRunBooks ==
  ASSUME BooksInv, TableInv', ReserveRun
  PROVE  Books'
<1>1. PICK r : r = Min(pass.runs)
  OBVIOUS
<1>2. r \in Runs
  BY <1>1, MinRun DEF BooksInv, TableInv, Tables, PassTypes, PassFields, ReserveRun
<1>3. /\ TableInv /\ RowTypes /\ LinkShape /\ PassFields(pass)
      /\ \A b \in Batches : Follows(b)
  BY FollowsAll DEF BooksInv, TableInv, Tables, LinkShape, PassTypes
<1>4. PICK k \in 0..NClicks : {b \in Batches : batch[b].status # "none"} = 1..k
  BY <1>3 DEF LinkShape, BatchOrder
<1>5. /\ ChainSame /\ checkpoint' = checkpoint /\ sent' = sent
      /\ pass.pc = "run" /\ pass.blocked = "none" /\ RunPhase(pass)
  BY DEF ReserveRun, chainVars, ChainSame, RunPhase
<1>6. /\ \A b \in Batches :
           \/ batch'[b] = batch[b]
           \/ batch[b].status \in Preparable /\ batch'[b] = MovedTo(b, r)
           \/ \E g \in Reservable(r) : batch[b].status = "none" /\ batch'[b] = Fresh(b, g, r)
      /\ \A g \in Reservable(r) : /\ NewBatch(g, r) \in Batches
                                  /\ batch'[NewBatch(g, r)] = Fresh(NewBatch(g, r), g, r)
      /\ \A c \in Clicks :
           \/ click'[c] = click[c]
           \/ \E g \in Reservable(r) : c \in g /\ click'[c] = Bound(c, g, r)
  BY <1>1, <1>3, <1>4, ReservedRows
<1>7. \A b \in Batches :
        /\ MovedTo(b, r).status = batch[b].status /\ MovedTo(b, r).stake = batch[b].stake
        /\ MovedTo(b, r).version = batch[b].version /\ MovedTo(b, r).due = batch[b].due
        /\ MovedTo(b, r).charged = batch[b].charged /\ MovedTo(b, r).nonce = batch[b].nonce
        /\ MovedTo(b, r).attempts = batch[b].attempts
        /\ MovedTo(b, r).receipt = batch[b].receipt
  BY <1>2, <1>3, MovedRow
<1>8. \A g \in Reservable(r) : g \in SUBSET Clicks /\ Min(g) \in Clicks
  BY <1>3, ReservedGroups
<1>9. \A b \in Batches : \A g \in Reservable(r) :
        /\ Fresh(b, g, r).status \in {"CONFIRMED", "PREPARED"}
        /\ Fresh(b, g, r).stake = click[Min(g)].stake
        /\ Fresh(b, g, r).version = click[Min(g)].version
        /\ Fresh(b, g, r).receipt = batch[b].receipt
  <2> SUFFICES ASSUME NEW b \in Batches, NEW g \in Reservable(r)
               PROVE  /\ Fresh(b, g, r).status \in {"CONFIRMED", "PREPARED"}
                      /\ Fresh(b, g, r).stake = click[Min(g)].stake
                      /\ Fresh(b, g, r).version = click[Min(g)].version
                      /\ Fresh(b, g, r).receipt = batch[b].receipt
    OBVIOUS
  <2>1. /\ Fresh(b, g, r).stake = click[Min(g)].stake
        /\ Fresh(b, g, r).version = click[Min(g)].version
        /\ Fresh(b, g, r).status = IF Due(g) = 0 THEN "CONFIRMED" ELSE "PREPARED"
        /\ \A f \in {"nonce", "attempts", "receipt", "error", "deferred"} :
              Fresh(b, g, r)[f] = batch[b][f]
    BY <1>2, <1>3, <1>8, FreshRow
  <2>2. Fresh(b, g, r)["receipt"] = batch[b]["receipt"]
    BY <2>1
  <2> QED
    BY <2>1, <2>2
<1>10. \A b \in Batches : batch[b].status # "none" => KeepRow(b) /\ KeepTerms(b)
  BY <1>6, <1>7 DEF KeepRow, KeepTerms
<1>11. \A b \in Batches : batch[b].status = "none" =>
         \/ batch'[b] = batch[b]
         \/ batch'[b].status \in {"CONFIRMED", "PREPARED"} /\ batch'[b].receipt = NoBlock
  <2>1. \A b \in Batches : batch[b].status = "none" => batch[b].receipt = NoBlock
    BY DEF BooksInv, Books, RowBooks
  <2> QED
    BY <1>6, <1>9, <2>1 DEF Preparable
<1>12. PICK todo : pass' = AfterRefresh([pass EXCEPT !.run = r, !.runs = @ \ {r},
                                             !.refresh = Takes(r), !.todo = todo])
  BY <1>1 DEF ReserveRun
<1>13. PICK p : p = [pass EXCEPT !.run = r, !.runs = @ \ {r}, !.refresh = Takes(r), !.todo = todo]
  OBVIOUS
<1>14. DOMAIN p = DOMAIN IdlePass /\ p.head = pass.head /\ p.seen = pass.seen
       /\ p.blocked = pass.blocked /\ p.run = r
  BY <1>3, <1>13 DEF PassFields, IdlePass
<1>15. PICK q : q = AfterRefresh(p)
  OBVIOUS
<1>16. /\ q.head = p.head /\ q.seen = p.seen /\ q.blocked = p.blocked /\ q.run = p.run
       /\ q.pc \in {"refresh", "plan", "prepare"}
  BY <1>14, <1>15, AfterRefreshFields
<1>17. pass' = q
  BY <1>12, <1>13, <1>15
<1>18. HeadKept
  BY <1>3, <1>5, <1>14, <1>16, <1>17, HeadStays
<1>19. PassBooks'
  <2>1. Reading(pass) /\ Phase(pass)
    BY <1>5 DEF BooksInv, Books, PassBooks
  <2>2. Reading(q) /\ q.seen[PassFinalized] = pass.seen[PassFinalized]
    BY <1>5, <1>14, <1>16, <2>1, SameReading
  <2>3. Phase(q)
    BY <1>5, <1>14, <1>16, <2>1 DEF Phase, SignedSteps
  <2>4. ASSUME NEW b \in Batches, Judged(pass, b)
        PROVE  Judged(q, b)'
    <3>1. KeepRow(b) \/ batch'[b].receipt = NoBlock
      <4>1. CASE batch'[b] = batch[b]
        BY <4>1 DEF KeepRow
      <4> QED
        BY <1>10, <1>11, <4>1
    <3> QED
      BY <1>5, <1>14, <1>16, <2>2, <2>4, <3>1, JudgedKept
  <2>5. pass.pc \notin {"idle", "fetch"} /\ q.pc # "fetch" /\ q.head = pass.head
    BY <1>5, <1>14, <1>16
  <2> QED
    BY <1>5, <1>17, <2>2, <2>3, <2>4, <2>5, GoesOn
<1>20. ASSUME NEW b \in Batches
       PROVE  RowBooks(b)'
  <2>1. RowBooks(b)
    BY DEF BooksInv, Books
  <2>2. CASE KeepRow(b)
    BY <1>3, <1>5, <1>18, <2>1, <2>2, RowSame
  <2>3. CASE batch'[b].status \in {"CONFIRMED", "PREPARED"} /\ batch'[b].receipt = NoBlock
    BY <2>3 DEF RowBooks
  <2>4. CASE batch'[b] = batch[b]
    <3>1. KeepRow(b)
      BY <2>4 DEF KeepRow
    <3> QED
      BY <2>2, <3>1
  <2> QED
    BY <1>10, <1>11, <2>2, <2>3, <2>4
<1>21. ASSUME NEW c \in Clicks
       PROVE  ClickBooks(c)'
  <2>1. ClickBooks(c)
    BY DEF BooksInv, Books
  <2>2. CASE click'[c] = click[c]
    <3>1. ASSUME NEW b \in Batches, click[c].batch = b
          PROVE  KeepTerms(b)
      <4>1. c \in ClicksOf(b)
        BY <3>1 DEF ClicksOf
      <4>2. batch[b].status = "none" => ClicksOf(b) = {}
        BY <1>3 DEF Follows
      <4>3. batch[b].status # "none"
        BY <4>1, <4>2
      <4> QED
        BY <1>10, <4>3
    <3>2. KeepClick(c)
      BY <2>2 DEF KeepClick
    <3> QED
      BY <1>3, <1>5, <2>1, <3>1, <3>2, ClickKept
  <2>3. ASSUME NEW g \in Reservable(r), c \in g, click'[c] = Bound(c, g, r)
        PROVE  ClickBooks(c)'
    <3>1. /\ click[c].status = "PENDING" /\ click[c].stake = click[Min(g)].stake
          /\ click[c].version = click[Min(g)].version
      BY <1>3, <2>3, ReservedGroups
    <3>2. PICK b \in Batches : b = NewBatch(g, r)
      BY <1>6
    <3>3. /\ Bound(c, g, r).batch = NewBatch(g, r)
          /\ Bound(c, g, r).status = IF Due(g) = 0 THEN "SETTLED" ELSE "RESERVED"
          /\ \A f \in {"stake", "version", "bid", "price", "aged"} :
                Bound(c, g, r)[f] = click[c][f]
      BY <1>3, <3>2, BoundClick
    <3>4. /\ Bound(c, g, r)["stake"] = click[c]["stake"]
          /\ Bound(c, g, r)["version"] = click[c]["version"]
          /\ Bound(c, g, r)["bid"] = click[c]["bid"]
      BY <3>3
    <3>5. /\ click'[c].batch = b /\ click'[c].status \in {"SETTLED", "RESERVED"}
          /\ click'[c].stake = click[c].stake /\ click'[c].version = click[c].version
          /\ click'[c].bid = click[c].bid
      BY <2>3, <3>2, <3>3, <3>4
    <3>6. batch'[b].stake = click[c].stake /\ batch'[b].version = click[c].version
      BY <1>6, <1>9, <3>1, <3>2
    <3>7. /\ click[c].bid # NoBlock /\ click[c].bid.n \in 0..Height
          /\ click[c].bid.hash \in 0..forks
      BY <2>1, <3>1 DEF ClickBooks
    <3>8. Canonical(click[c].bid)' = Canonical(click[c].bid)
      BY <1>5, <3>5, SameBlocks DEF Canonical
    <3>9. Position(click[c].stake, click[c].bid.n)' = Position(click[c].stake, click[c].bid.n)
      BY <1>5, <3>5, SameBlocks DEF Position
    <3>10. Canonical(click[c].bid) =>
             Position(click[c].stake, click[c].bid.n).version = click[c].version
      BY <2>1, <3>7 DEF ClickBooks
    <3>11. Height' = Height /\ forks' = forks
      BY <1>5, SameBlocks DEF ChainSame
    <3> HIDE DEF Position, Height
    <3> QED
      BY <3>5, <3>6, <3>7, <3>8, <3>9, <3>10, <3>11 DEF ClickBooks
  <2> QED
    BY <1>6, <2>2, <2>3
<1>22. SameTerms'
  <2> SUFFICES ASSUME NEW t \in sent
               PROVE  t.stake = batch'[t.charge].stake /\ t.version = batch'[t.charge].version
    BY <1>5 DEF SameTerms
  <2>1. t.charge \in Batches /\ t.nonce \in Nat /\ t.nonce <= batch[t.charge].nonce
    BY <1>3 DEF TableInv, Tables, NodeShape, Transactions, SentShape
  <2>2. Signed(t.charge)
    BY <2>1 DEF Signed
  <2>3. batch[t.charge].status # "none"
    BY <1>3, <2>1, <2>2 DEF LinkShape
  <2> QED
    BY <1>10, <2>1, <2>3 DEF KeepTerms, BooksInv, Books, SameTerms
<1>23. CheckpointKnown'
  BY <1>5, SameBlocks DEF BooksInv, Books, CheckpointKnown, ChainSame
<1> QED
  BY <1>19, <1>20, <1>21, <1>22, <1>23 DEF Books

-----------------------------------------------------------------------------
(* The chain moves. *)

\* Nothing is executed that was not executed before, or is executed in the next block.
ChainAdds ==
  \A n \in 0..Height' : Block(n)'.tx # NoTx =>
    \/ n \in 0..Height /\ Block(n)'.tx = Block(n).tx /\ Block(n)'.result = Block(n).result
    \/ Block(n)'.tx \in mempool /\ Block(n)'.result = Outcome(Block(n)'.tx)

LEMMA Appended ==
  ASSUME NodeShape, NEW new, chain' = Append(chain, new)
  PROVE  /\ Height' = Height + 1 /\ Block(Height)' = new
         /\ \A n \in 0..Height : Block(n)' = Block(n)
<1>1. Height \in Nat /\ Len(chain) = Height + 1 /\ chain \in Seq(BlockRecords)
  BY NodeFacts DEF NodeShape
<1>2. Len(chain') = Len(chain) + 1 /\ Height' = Height + 1
  BY <1>1 DEF Height
<1>3. \A n \in 0..Height : Block(n)' = Block(n)
  <2> SUFFICES ASSUME NEW n \in 0..Height
               PROVE  Block(n)' = Block(n)
    OBVIOUS
  <2>1. n + 1 \in 1..Len(chain)
    BY <1>1
  <2>2. chain'[n + 1] = chain[n + 1]
    BY <1>1, <2>1
  <2> QED
    BY <2>2 DEF Block
<1>4. PICK h : h = Height + 1
  OBVIOUS
<1>5. Block(h)' = new
  <2>1. h + 1 = Len(chain) + 1 /\ h + 1 \in 1..(Len(chain) + 1)
    BY <1>1, <1>4
  <2>2. chain'[h + 1] = new
    BY <1>1, <2>1
  <2> QED
    BY <2>2 DEF Block
<1>6. Block(Height)' = Block(h)'
  BY <1>2, <1>4 DEF Block
<1> QED
  BY <1>2, <1>3, <1>5, <1>6

LEMMA AddedBlock ==
  ASSUME NodeShape, NEW new, chain' = Append(chain, new),
         new.tx # NoTx => new.tx \in mempool /\ new.result = Outcome(new.tx)
  PROVE  ChainAdds
<1>1. PICK h : h = Height + 1 /\ Height' = h /\ Block(h)' = new
  BY Appended DEF Block
<1>2. Height \in Nat /\ \A n \in 0..Height : Block(n)' = Block(n)
  BY NodeFacts, Appended
<1>3. \A n \in 0..Height' : n \in 0..Height \/ n = h
  BY <1>1, <1>2
<1> HIDE DEF Height, Block
<1> QED
  BY <1>1, <1>2, <1>3 DEF ChainAdds

LEMMA ReorgAdds ==
  ASSUME NodeShape, NEW depth \in 1..MaxDepth, NEW again \in BOOLEAN, NEW returned \in BOOLEAN,
         Reorg(depth, again, returned)
  PROVE  ChainAdds
<1>1. /\ Height \in Nat /\ Len(chain) = Height + 1 /\ chain \in Seq(BlockRecords)
      /\ \A n \in 0..Height : Block(n) \in BlockRecords
  BY NodeFacts DEF NodeShape
<1>2. PICK keep : keep = Len(chain) - depth
  OBVIOUS
<1>3. chain' = [i \in 1..Len(chain) |->
                  IF i <= keep THEN chain[i]
                  ELSE IF again THEN [chain[i] EXCEPT !.fork = forks + 1]
                  ELSE EmptyBlock(forks + 1, chain[keep].position)]
  BY <1>2 DEF Reorg
<1>4. Len(chain') = Len(chain) /\ Height' = Height
  <2>1. Len(chain') = Len(chain)
    BY <1>1, <1>3
  <2> QED
    BY <2>1 DEF Height
<1> SUFFICES ASSUME NEW n \in 0..Height, Block(n)'.tx # NoTx
             PROVE  Block(n)'.tx = Block(n).tx /\ Block(n)'.result = Block(n).result
  BY <1>4 DEF ChainAdds
<1>5. n + 1 \in 1..Len(chain)
  BY <1>1
<1>6. Block(n)' \in {Block(n), [Block(n) EXCEPT !.fork = forks + 1],
                     EmptyBlock(forks + 1, chain[keep].position)}
  BY <1>3, <1>5 DEF Block
<1>7. Block(n) \in BlockRecords
  BY <1>1
<1>8. CASE Block(n)' = [Block(n) EXCEPT !.fork = forks + 1]
  BY <1>7, <1>8 DEF BlockRecords
<1>9. CASE Block(n)' = EmptyBlock(forks + 1, chain[keep].position)
  BY <1>9 DEF EmptyBlock
<1> QED
  BY <1>6, <1>8, <1>9

LEMMA ChainStepAdds ==
  ASSUME NodeShape, ChainStep
  PROVE  ChainAdds
<1>1. ASSUME NEW tx \in mempool, MineTransaction(tx)
      PROVE  ChainAdds
  <2> DEFINE charged == IF Outcome(tx) = "charged" THEN Taken(tx) ELSE 0
             new == NewBlock(tx, Outcome(tx), charged,
                      [Block(Height).position EXCEPT ![tx.stake].amount = @ - charged])
  <2>1. chain' = Append(chain, new)
    BY <1>1 DEF MineTransaction
  <2>2. new.tx = tx /\ new.result = Outcome(tx)
    BY DEF NewBlock
  <2> HIDE DEF new
  <2> QED
    BY <2>1, <2>2, AddedBlock
<1>2. CASE MineEmpty
  <2>1. EmptyBlock(forks, Block(Height).position).tx = NoTx
    BY DEF EmptyBlock
  <2>2. chain' = Append(chain, EmptyBlock(forks, Block(Height).position))
    BY <1>2 DEF MineEmpty
  <2> QED
    BY <2>1, <2>2, AddedBlock
<1>3. ASSUME NEW s \in Stakes, ChangeStake(s)
      PROVE  ChainAdds
  <2>1. PICK position : chain' = Append(chain, EmptyBlock(forks, position))
    BY <1>3 DEF ChangeStake
  <2>2. EmptyBlock(forks, position).tx = NoTx
    BY DEF EmptyBlock
  <2> QED
    BY <2>1, <2>2, AddedBlock
<1>4. ASSUME NEW tx \in mempool, LoseTransaction(tx)
      PROVE  ChainAdds
  <2>1. chain' = chain
    BY <1>4 DEF LoseTransaction
  <2> QED
    BY <2>1 DEF ChainAdds, Height, Block
<1> QED
  BY <1>1, <1>2, <1>3, <1>4, ReorgAdds DEF ChainStep

\* Evidence that is on the chain after the step was on it before, with all below it.
LEMMA StillCanonical ==
  ASSUME NodeShape, ChainMoves, NEW e, e.n \in 0..Height, e.hash \in 0..forks, Canonical(e)'
  PROVE  Canonical(e) /\ \A m \in 0..e.n : Block(m)' = Block(m)
<1>1. forks \in Nat /\ Height \in Nat /\ Block(e.n) \in BlockRecords
  BY NodeFacts
<1>2. Block(e.n)'.fork = e.hash
  BY DEF Canonical, BlockHash
<1>3. ~(Block(e.n)'.fork > forks)
  BY <1>1, <1>2
<1>4. \A m \in 0..e.n : Block(m)' = Block(m)
  BY <1>3 DEF ChainMoves
<1>5. Block(e.n)' = Block(e.n) /\ e.n <= Height
  BY <1>1, <1>4
<1> QED
  BY <1>2, <1>4, <1>5 DEF Canonical, BlockHash

LEMMA StaysCanonical ==
  ASSUME NodeShape, ChainMoves, NEW e, e.n \in 0..Height, Canonical(e), Block(e.n)' = Block(e.n)
  PROVE  Canonical(e)'
<1>1. Height \in Nat /\ Height' \in Nat /\ Height <= Height'
  BY NodeFacts DEF ChainMoves
<1>2. e.n <= Height'
  BY <1>1
<1> QED
  BY <1>2 DEF Canonical, BlockHash

\* What a block of the chain proves of a batch is proved for good.
LEMMA ProofStays ==
  ASSUME BooksInv, ChainMoves, ChainAdds, batch' = batch, NEW b \in Batches,
         batch[b].receipt.n \in 0..Height, Proves(b),
         \A m \in 0..batch[b].receipt.n : Block(m)' = Block(m)
  PROVE  Proves(b)'
<1>1. PICK n \in 0..Height : n = batch[b].receipt.n
  OBVIOUS
<1>2. NodeShape /\ RowTypes /\ SameTerms
  BY DEF BooksInv, TableInv, Tables, Books
<1>3. Height \in Nat /\ Height' \in Nat /\ Height <= Height' /\ n \in 0..Height'
  BY <1>2, NodeFacts DEF ChainMoves
<1>4. Block(n)' = Block(n)
  BY <1>1, <1>3
<1>5. n \in ChargedIn(b) => n \in ChargedIn(b)'
  BY <1>3, <1>4 DEF ChargedIn, Mined
<1>6. ASSUME ~Processed(b), Gone(b, n)
      PROVE  ~Processed(b)'
  <2> SUFFICES ASSUME NEW k \in 0..Height', Block(k)'.tx # NoTx, Block(k)'.tx.charge = b,
                      Block(k)'.result = "charged"
               PROVE  FALSE
    BY DEF Processed, ChargedIn, Mined
  <2>1. CASE /\ k \in 0..Height /\ Block(k)'.tx = Block(k).tx
             /\ Block(k)'.result = Block(k).result
    BY <1>6, <2>1 DEF Processed, ChargedIn, Mined
  <2>2. CASE Block(k)'.tx \in mempool /\ Block(k)'.result = Outcome(Block(k)'.tx)
    <3>1. PICK t \in mempool : t = Block(k)'.tx
      BY <2>2
    <3>2. t.charge = b /\ Outcome(t) = "charged"
      BY <2>2, <3>1
    <3>3. t \in sent /\ t.stake = batch[b].stake /\ t.version = batch[b].version
      BY <1>2, <3>2 DEF NodeShape, SameTerms
    <3>4. /\ Position(t.stake, Height).version = t.version
          /\ Position(t.stake, Height).amount > 0
      BY <3>2 DEF Outcome
    <3>5. PICK s \in Stakes : s = batch[b].stake
      BY <1>2 DEF RowTypes, BatchRecords
    <3>6. NotAfter(Position(s, n), Position(s, Height))
      <4>1. n + 1 \in DOMAIN chain /\ Height + 1 \in DOMAIN chain /\ n + 1 <= Height + 1
        BY <1>2, <1>3, NodeFacts
      <4> QED
        BY <1>2, <4>1 DEF NodeShape, PositionOrder, Position, Block
    <3>7. /\ Position(s, n) \in [version : Nat, amount : Nat]
          /\ Position(s, Height) \in [version : Nat, amount : Nat]
          /\ batch[b].version \in Nat
      <4>1. Block(n) \in BlockRecords /\ Block(Height) \in BlockRecords
        BY <1>2, <1>3, NodeFacts
      <4>2. batch[b].version \in Nat
        BY <1>2 DEF RowTypes, BatchRecords
      <4> QED
        BY <4>1, <4>2 DEF Position, BlockRecords
    <3>8. \/ Position(s, n).version > batch[b].version
          \/ Position(s, n).version = batch[b].version /\ Position(s, n).amount = 0
      BY <1>6, <3>5 DEF Gone
    <3>9. Position(s, Height).version = batch[b].version /\ Position(s, Height).amount > 0
      BY <3>3, <3>4, <3>5
    <3> HIDE DEF Position, Height
    <3> QED
      BY <3>6, <3>7, <3>8, <3>9 DEF NotAfter
  <2> QED
    BY <2>1, <2>2 DEF ChainAdds
<1>7. Gone(b, n) => Gone(b, n)'
  BY <1>4 DEF Gone, Position
<1>8. Transaction(b)' = Transaction(b)
  BY DEF Transaction
<1> HIDE DEF Processed, ChargedIn, Gone, Transaction, Block
<1> QED
  BY <1>1, <1>4, <1>5, <1>6, <1>7, <1>8 DEF Proves

LEMMA ChainStepBooks ==
  ASSUME BooksInv, TableInv', ChainStep
  PROVE  Books'
<1>1. /\ batch' = batch /\ click' = click /\ sent' = sent /\ checkpoint' = checkpoint
      /\ pass' = pass
  BY DEF ChainStep, dbVars
<1>2. /\ NodeShape /\ RowTypes /\ PassFields(pass) /\ ReceiptBlocks /\ Books
      /\ \A b \in Batches : RowBooks(b)
      /\ \A c \in Clicks : ClickBooks(c)
  BY DEF BooksInv, TableInv, Tables, PassTypes, Books
<1>3. ChainMoves /\ ChainAdds
  BY <1>2, ChainStepNode, ChainStepAdds
<1>4. /\ forks \in Nat /\ forks' \in Nat /\ forks <= forks'
      /\ Height \in Nat /\ Height' \in Nat /\ Height <= Height'
  BY <1>2, <1>3, NodeFacts DEF ChainMoves
<1>5. /\ \A n : n \in 0..Height => n \in 0..Height'
      /\ \A h : h \in 0..forks => h \in 0..forks'
  BY <1>4
<1>6. HeadKept
  <2>1. CASE pass.pc = "idle"
    <3>1. PICK h, k : h = Height /\ k = Height'
      OBVIOUS
    <3>2. h \in Nat /\ k \in Nat /\ h <= k
      BY <1>4, <3>1
    <3>3. Finalized(h) <= Finalized(k)
      BY <3>2, FinalizedBound
    <3>4. LedgerHead = h /\ LedgerHead' = k
      BY <1>1, <2>1, <3>1 DEF LedgerHead
    <3>5. Finalized(LedgerHead)' = Finalized(k)
      BY <3>4 DEF Finalized
    <3> QED
      BY <3>3, <3>4, <3>5 DEF HeadKept
  <2>2. CASE pass.pc # "idle"
    <3>1. LedgerHead' = LedgerHead
      BY <1>1, <2>2 DEF LedgerHead
    <3>2. Finalized(LedgerHead)' = Finalized(LedgerHead)
      BY <3>1 DEF Finalized
    <3>3. Finalized(LedgerHead) \in Int
      BY LedgerFinalInt DEF BooksInv
    <3> QED
      BY <3>2, <3>3 DEF HeadKept
  <2> QED
    BY <2>1, <2>2
<1>7. \A b \in Batches : batch[b].receipt # NoBlock =>
        batch[b].receipt.n \in 0..Height /\ batch[b].receipt.hash \in 0..forks
        /\ batch[b].receipt.n <= Finalized(LedgerHead)
  BY <1>2 DEF ReceiptBlocks, RowBooks
<1>8. ASSUME NEW b \in Batches
      PROVE  RowBooks(b)'
  <2>1. PICK e : e = batch[b].receipt
    OBVIOUS
  <2>2. PICK x : x = checkpoint
    OBVIOUS
  <2>3. Transaction(b)' = Transaction(b) /\ Signed(b)' = Signed(b)
    BY <1>1 DEF Transaction, Signed
  <2>4. e # NoBlock => e.hash \in 0..forks' /\ e.n <= Finalized(LedgerHead)'
    <3>1. Finalized(LedgerHead) \in Int
      BY LedgerFinalInt DEF BooksInv
    <3>2. Finalized(LedgerHead)' \in Int
      <4>1. (TableInv => Finalized(LedgerHead) \in Int)'
        BY LedgerFinalInt, PTL
      <4> QED
        BY <4>1
    <3> HIDE DEF Finalized, LedgerHead
    <3> QED
      BY <1>5, <1>6, <1>7, <2>1, <3>1, <3>2 DEF HeadKept
  <2>5. ASSUME e # NoBlock, Canonical(e)'
        PROVE  Proves(b)'
    <3>1. Canonical(e) /\ \A m \in 0..e.n : Block(m)' = Block(m)
      BY <1>2, <1>3, <1>7, <2>1, <2>5, StillCanonical
    <3>2. Proves(b)
      BY <1>2, <2>1, <2>5, <3>1 DEF RowBooks
    <3> QED
      BY <1>1, <1>3, <1>7, <2>1, <2>5, <3>1, <3>2, ProofStays
  <2>6. ASSUME x # NoBlock, Canonical(x)', batch[b].status \in Terminal, e # NoBlock,
               e.n <= x.n
        PROVE  Canonical(e)'
    <3>1. x.n \in 0..Height /\ x.hash \in 0..forks
      BY <1>2, <2>2, <2>6 DEF Books, CheckpointKnown
    <3>2. Canonical(x) /\ \A m \in 0..x.n : Block(m)' = Block(m)
      BY <1>2, <1>3, <2>6, <3>1, StillCanonical
    <3>3. Canonical(e)
      BY <1>2, <2>1, <2>2, <2>6, <3>2 DEF RowBooks
    <3>4. e.n \in 0..Height /\ Block(e.n)' = Block(e.n)
      <4>1. e.n \in 0..Height
        BY <1>7, <2>1, <2>6
      <4>2. e.n \in 0..x.n
        BY <2>6, <3>1, <4>1
      <4> QED
        BY <3>2, <4>1, <4>2
    <3> QED
      BY <1>2, <1>3, <3>3, <3>4, StaysCanonical
  <2>7. batch'[b].receipt = e /\ batch'[b].status = batch[b].status /\ checkpoint' = x
    BY <1>1, <2>1, <2>2
  <2>8. /\ batch[b].status = "none" => e = NoBlock
        /\ batch[b].status = "FAILED" => Signed(b) /\ e # NoBlock
    BY <1>2, <2>1 DEF RowBooks
  <2> HIDE DEF Finalized, LedgerHead
  <2>9. /\ Canonical(batch[b].receipt)' = Canonical(e)'
        /\ Canonical(checkpoint)' = Canonical(x)'
    BY <2>7 DEF Canonical
  <2> QED
    BY <2>3, <2>4, <2>5, <2>6, <2>7, <2>8, <2>9 DEF RowBooks
<1>9. ASSUME NEW c \in Clicks
      PROVE  ClickBooks(c)'
  <2>1. PICK e : e = click[c].bid
    OBVIOUS
  <2>2. PICK s : s = click[c].stake
    OBVIOUS
  <2>3. ASSUME e # NoBlock, Canonical(e)'
        PROVE  Position(s, e.n)'.version = click[c].version
    <3>1. e.n \in 0..Height /\ e.hash \in 0..forks
      BY <1>2, <2>1, <2>3 DEF ClickBooks
    <3>2. Canonical(e) /\ \A m \in 0..e.n : Block(m)' = Block(m)
      BY <1>2, <1>3, <2>3, <3>1, StillCanonical
    <3>3. Block(e.n)' = Block(e.n)
      BY <3>1, <3>2
    <3>4. Position(s, e.n).version = click[c].version
      BY <1>2, <2>1, <2>2, <2>3, <3>2 DEF ClickBooks
    <3> QED
      BY <3>3, <3>4 DEF Position
  <2>4. /\ Canonical(click[c].bid)' = Canonical(e)'
        /\ Position(click[c].stake, click[c].bid.n)' = Position(s, e.n)'
    BY <1>1, <2>1, <2>2 DEF Canonical, Position
  <2>5. ClickBooks(c)
    BY <1>2
  <2> HIDE DEF Position, Canonical
  <2> QED
    BY <1>1, <1>5, <2>1, <2>3, <2>4, <2>5 DEF ClickBooks
<1>10. SameTerms'
  BY <1>1, <1>2 DEF Books, SameTerms
<1>11. CheckpointKnown'
  BY <1>1, <1>2, <1>5 DEF Books, CheckpointKnown
<1>12. PassBooks'
  <2>1. CASE pass.pc = "idle"
    BY <1>1, <2>1 DEF PassBooks
  <2>2. CASE pass.pc # "idle"
    <3>1. PICK p : p = pass
      OBVIOUS
    <3>2. Reading(p) /\ Phase(p) /\ Checked(p)
      BY <1>2, <2>2, <3>1 DEF Books, PassBooks
    <3>3. PICK f \in 0..Height : f = PassFinalized /\ f \in 0..MaxHeight
      BY <1>2, PassFinalizedBound
    <3>4. f = Finalized(p.head)
      BY <3>1, <3>3 DEF PassFinalized
    <3>5. p.seen[f] \in 0..forks /\ p.seen[f] # -1
      BY <3>2, <3>3, <3>4 DEF Reading
    <3>6. ASSUME AtFork(p)'
          PROVE  AtFork(p) /\ \A m \in 0..f : Block(m)' = Block(m)
      <4>1. PICK e : e = [n |-> f, hash |-> p.seen[f]]
        OBVIOUS
      <4>2. e.n = f /\ e.hash = p.seen[f]
        BY <4>1
      <4>3. BlockHash(f)' = p.seen[f]
        BY <3>4, <3>6 DEF AtFork, Finalized
      <4>4. Canonical(e)'
        BY <1>5, <3>3, <4>2, <4>3 DEF Canonical
      <4>5. Canonical(e) /\ \A m \in 0..e.n : Block(m)' = Block(m)
        BY <1>2, <1>3, <3>5, <4>2, <4>4, StillCanonical
      <4> QED
        BY <3>4, <4>2, <4>5 DEF Canonical, AtFork
    <3>7. ASSUME NEW e, e.n \in 0..f, OneFork(p, e)
          PROVE  OneFork(p, e)'
      <4> SUFFICES ASSUME AtFork(p)'
                   PROVE  Canonical(e)'
        BY DEF OneFork
      <4>1. AtFork(p) /\ \A m \in 0..f : Block(m)' = Block(m)
        BY <3>6
      <4>2. Canonical(e)
        BY <3>7, <4>1 DEF OneFork
      <4>3. PICK m \in 0..f : m = e.n
        BY <3>7
      <4>4. Block(m)' = Block(m)
        BY <4>1
      <4>5. Block(e.n)' = Block(e.n)
        BY <4>3, <4>4 DEF Block
      <4>6. e.n \in 0..Height
        BY <1>4, <3>3, <3>7
      <4> QED
        BY <1>2, <1>3, <4>2, <4>5, <4>6, StaysCanonical
    <3>8. Reading(p)'
      <4>1. ASSUME NEW n \in 0..MaxHeight, p.seen[n] # -1
            PROVE  /\ n <= f /\ p.seen[n] \in 0..forks'
                   /\ OneFork(p, [n |-> n, hash |-> p.seen[n]])'
        <5>1. /\ n <= f /\ p.seen[n] \in 0..forks
              /\ OneFork(p, [n |-> n, hash |-> p.seen[n]])
          BY <3>2, <3>4, <4>1 DEF Reading
        <5>2. n \in 0..f
          BY <5>1
        <5>3. PICK e : e = [n |-> n, hash |-> p.seen[n]]
          OBVIOUS
        <5>4. e.n \in 0..f /\ OneFork(p, e)
          BY <5>1, <5>2, <5>3
        <5>5. OneFork(p, e)'
          BY <3>7, <5>4
        <5> QED
          BY <1>5, <5>1, <5>3, <5>5
      <4>2. Finalized(p.head)' = f
        BY <3>4 DEF Finalized
      <4> QED
        BY <3>4, <3>5, <4>1, <4>2 DEF Reading
    <3>9. ASSUME NEW b \in Batches, Judged(p, b)
          PROVE  Judged(p, b)'
      <4>1. PICK e : e = batch[b].receipt
        OBVIOUS
      <4>2. HasReceipt(b)' = HasReceipt(b)
        BY <1>1 DEF HasReceipt
      <4>3. ASSUME HasReceipt(b)
            PROVE  OneFork(p, e)'
        <5>1. e.n \in 0..Height /\ e.n <= Finalized(LedgerHead)
          BY <1>7, <4>1, <4>3 DEF HasReceipt
        <5>2. Finalized(LedgerHead) = f
          BY <2>2, <3>3, LedgerFinal DEF BooksInv
        <5>3. e.n \in 0..f
          BY <3>3, <5>1, <5>2
        <5>4. OneFork(p, e)
          BY <3>9, <4>1, <4>3 DEF Judged
        <5> QED
          BY <3>7, <5>3, <5>4
      <4>4. OneFork(p, batch[b].receipt)' = OneFork(p, e)'
        BY <1>1, <4>1 DEF OneFork, AtFork, Canonical
      <4> HIDE DEF OneFork
      <4> QED
        BY <4>2, <4>3, <4>4 DEF Judged
    <3>10. Checked(p)'
      <4>1. ASSUME p.pc = "fetch", p.previous
            PROVE  /\ checkpoint' # NoBlock /\ checkpoint'.n <= Finalized(p.head)
                   /\ OneFork(p, checkpoint)'
        <5>1. PICK x : x = checkpoint
          OBVIOUS
        <5>2. x # NoBlock /\ x.n <= f /\ OneFork(p, x)
          BY <3>2, <3>4, <4>1, <5>1 DEF Checked
        <5>3. x.n \in 0..Height
          BY <1>2, <5>1, <5>2 DEF Books, CheckpointKnown
        <5>4. x.n \in 0..f
          BY <3>3, <5>2, <5>3
        <5>5. OneFork(p, x)'
          BY <3>7, <5>2, <5>4
        <5>6. OneFork(p, checkpoint)' = OneFork(p, x)'
          BY <1>1, <5>1 DEF OneFork, AtFork, Canonical
        <5> QED
          BY <1>1, <3>4, <5>1, <5>2, <5>5, <5>6
      <4>2. Finalized(p.head)' = Finalized(p.head)
        BY DEF Finalized
      <4>3. RunPhase(p)' = RunPhase(p)
        BY DEF RunPhase
      <4> HIDE DEF OneFork, Finalized, RunPhase
      <4> QED
        BY <1>1, <3>2, <3>9, <4>1, <4>2, <4>3 DEF Checked
    <3>11. Reading(pass)' /\ Phase(pass)' /\ Checked(pass)'
      BY <1>1, <3>1, <3>2, <3>8, <3>10
         DEF Reading, Phase, Checked, OneFork, AtFork, RunPhase, Judged
    <3> QED
      BY <3>11 DEF PassBooks
  <2> QED
    BY <2>1, <2>2
<1> QED
  BY <1>8, <1>9, <1>10, <1>11, <1>12 DEF Books

-----------------------------------------------------------------------------
(* The theorems. *)

LEMMA BooksInit ==
  ASSUME Init
  PROVE  BooksInv
<1>1. TableInv
  BY TableInit
<1>2. \A b \in Batches : batch[b].status = "none" /\ batch[b].receipt = NoBlock
  BY DEF Init
<1>3. \A b \in Batches : RowBooks(b)
  BY <1>2 DEF RowBooks, Terminal
<1>4. \A c \in Clicks : click[c].status = "none" /\ click[c].bid = NoBlock /\ click[c].batch = 0
  BY DEF Init
<1>5. \A c \in Clicks : ClickBooks(c)
  BY <1>4 DEF ClickBooks
<1>6. SameTerms /\ CheckpointKnown /\ PassBooks
  BY DEF Init, SameTerms, CheckpointKnown, PassBooks, IdlePass
<1> QED
  BY <1>1, <1>3, <1>5, <1>6 DEF BooksInv, Books

LEMMA BooksStep ==
  ASSUME BooksInv, [Next]_vars
  PROVE  BooksInv'
<1>1. TableInv'
  BY TableStep DEF BooksInv
<1> SUFFICES Books'
  BY <1>1 DEF BooksInv
<1>2. CASE ChainStep
  BY <1>1, <1>2, ChainStepBooks
<1>3. CASE ApiStep \/ TimeStep
  <2>1. ASSUME NEW s \in Stakes, ClaimClick(s)
        PROVE  Books'
    BY <1>1, <2>1, ClaimClickBooks
  <2>2. ASSUME NEW c \in Clicks, NEW n \in {Height, Projected(Height)}, NEW priced \in BOOLEAN,
               FinishCapture(c, n, priced)
        PROVE  Books'
    BY <1>1, <2>2, FinishCaptureBooks
  <2> QED
    BY <1>1, <1>3, <2>1, <2>2, QuietApiBooks DEF ApiStep, TimeStep
<1>4. CASE Start
  BY <1>1, <1>4, BeginPassBooks DEF Start
<1>5. CASE \/ ValidateAndFetch \/ ReconcileNext \/ ReceiptMissing \/ RecordBroadcast
           \/ \E indexed \in BOOLEAN : ReadReceipt(indexed) \/ ResolveUnseen(indexed)
           \/ \E accepted \in BOOLEAN, reply \in {"accepted", "unknown", "gas"} :
                Broadcast(accepted, reply)
  BY <1>1, <1>5, ValidateBooks, ReconcileNextBooks, ReceiptMissingBooks, RecordBroadcastBooks,
     ReadReceiptBooks, ResolveUnseenBooks, BroadcastBooks
<1>6. CASE \/ \E ready \in BOOLEAN : SaveCheckpoint(ready)
           \/ RefreshRun \/ PlanRuns \/ BlockRun \/ ReserveRun
           \/ PrepareNext \/ CheckBatch \/ SignBatch \/ FinishRun
  BY <1>1, <1>6, SaveCheckpointBooks, RefreshRunBooks, PlanRunsBooks, BlockRunBooks,
     ReserveRunBooks, PrepareNextBooks, CheckBatchBooks, SignBatchBooks, FinishRunBooks
<1>7. CASE Crash \/ \E noted \in BOOLEAN : RpcFails(noted)
  BY <1>1, <1>7, CrashBooks, RpcFailsBooks
<1>8. CASE UNCHANGED vars
  BY <1>1, <1>8, QuietApiBooks
<1> QED
  BY <1>2, <1>3, <1>4, <1>5, <1>6, <1>7, <1>8 DEF Next, PassStep

\* The tables and the books hold together in every reachable state.
THEOREM BooksInvariant == Spec => []BooksInv
<1>1. Init => BooksInv
  BY BooksInit
<1>2. BooksInv /\ [Next]_vars => BooksInv'
  BY BooksStep
<1> QED
  BY <1>1, <1>2, PTL DEF Spec

\* What the worker writes down as charged, written off or finished is what the chain its
\* evidence is part of did, and the clicks and runs follow their batches: settleBatch,
\* reconcileBatch, uncollectable and refreshRuns never contradict each other.
THEOREM BooksAlwaysAgree == Spec => []BooksAgree
<1>1. BooksInv => BooksAgree
  <2> SUFFICES ASSUME BooksInv
               PROVE  BooksAgree
    OBVIOUS
  <2>1. RowTypes /\ LinkShape /\ \A b \in Batches : RowBooks(b)
    BY DEF BooksInv, TableInv, Tables, Books
  <2>2. TypeOK
    BY <2>1, RowTypesOK
  <2>3. LedgerMatchesChain
    <3> SUFFICES ASSUME NEW b \in Batches, batch[b].status \in Terminal,
                        batch[b].receipt # NoBlock, Canonical(batch[b].receipt)
                 PROVE  IF batch[b].status = "UNCOLLECTABLE" THEN ~Processed(b)
                        ELSE /\ batch[b].receipt.n \in ChargedIn(b)
                             /\ batch[b].charged = Block(batch[b].receipt.n).charged
      BY DEF LedgerMatchesChain
    <3>1. Proves(b)
      BY <2>1 DEF RowBooks
    <3> QED
      BY <3>1 DEF Proves, Terminal
  <2> QED
    BY <2>1, <2>2, <2>3 DEF BooksAgree, LinkShape
<1> QED
  BY <1>1, BooksInvariant, PTL

\* While the checkpoint is on the chain, so is the evidence of every finished batch it
\* covers: a pass that trusts it (reconciliationCheckpoint in processAdChargeJob) leaves no
\* orphaned receipt behind.
THEOREM CheckpointIsSound == Spec => []CheckpointCoversReceipts
<1>1. BooksInv => CheckpointCoversReceipts
  BY DEF BooksInv, Books, RowBooks, CheckpointCoversReceipts
<1> QED
  BY <1>1, BooksInvariant, PTL

-----------------------------------------------------------------------------
(* What holds as long as final blocks stay.                                *)

\* Blocks that have their confirmations.
IsFinal(n) == n \in 0..Finalized(Height)

\* The pass still reads the fork it started from, and receipts are on it.
ForkKept == pass.pc # "idle" => AtFork(pass)
ReceiptsStand ==
  \A b \in Batches : batch[b].receipt # NoBlock => Canonical(batch[b].receipt)

\* The pool holds nothing the chain has executed.
PoolAhead == \A t \in mempool : t.nonce >= AccountNonce

\* What the network may still execute: the pool, and the blocks a reorganization may
\* give back to it.
Live(t) == t \in mempool \/ \E n \in Mined : ~IsFinal(n) /\ Block(n).tx = t
LiveJournaled ==
  \A t \in sent : Live(t) =>
    batch[t.charge].nonce = t.nonce /\ batch[t.charge].status \in InFlight

\* A batch is only signed again when the bytes before have failed for good.
Reverted(t) ==
  \E n \in Mined : IsFinal(n) /\ Block(n).tx = t /\ Block(n).result = "reverted"
Superseded == \A t \in sent : t.nonce < batch[t.charge].nonce => Reverted(t)

\* The clicks of what is or may be signed were captured in final blocks.
Proven(b) ==
  \A c \in ClicksOf(b) : \A e \in Evidence(c) : IsFinal(e.n) /\ Canonical(e)
ChargedProven ==
  \A b \in Batches : Signed(b) \/ (pass.pc = "sign" /\ pass.batch = b) => Proven(b)
PricesKnown ==
  \A c \in Clicks : click[c].price # NoBlock => click[c].price.n \in 0..Height

Finality ==
  /\ ForkKept /\ ReceiptsStand /\ PoolAhead /\ LiveJournaled
  /\ Superseded /\ ChargedProven /\ PricesKnown
FinalInv == BooksInv /\ Finality

\* What a step may never do to a settled row.
SettledStays ==
  \A b \in Batches : batch[b].status \in Terminal =>
    batch'[b].status = batch[b].status /\ batch'[b].charged = batch[b].charged

-----------------------------------------------------------------------------
(* Final blocks.                                                           *)

LEMMA FinalBlocks ==
  ASSUME NodeShape
  PROVE  Finalized(Height) \in 0..Height /\ \A n : IsFinal(n) => n \in 0..Height
<1>1. Height \in Nat
  BY NodeFacts
<1>2. Finalized(Height) \in 0..Height
  BY <1>1, FinalizedBound
<1> HIDE DEF Finalized, Height
<1> QED
  BY <1>1, <1>2 DEF IsFinal

LEMMA ReadFinal ==
  ASSUME NodeShape, PassFields(pass)
  PROVE  PassFinalized \in 0..Height /\ \A n \in 0..PassFinalized : IsFinal(n)
<1>1. /\ PassFinalized \in 0..Height /\ pass.head \in Nat /\ pass.head <= Height /\ Height \in Nat
  BY PassFinalizedBound, NodeFacts
<1>2. Finalized(pass.head) <= Finalized(Height) /\ Finalized(Height) \in 0..Height
  BY <1>1, FinalizedBound
<1> HIDE DEF Finalized, Height
<1> QED
  BY <1>1, <1>2 DEF IsFinal, PassFinalized

\* A receipt names a final block.
LEMMA FinalReceipt ==
  ASSUME BooksInv, NEW b \in Batches, batch[b].receipt # NoBlock
  PROVE  IsFinal(batch[b].receipt.n)
<1>1. /\ TableInv /\ NodeShape /\ PassFields(pass) /\ RowBooks(b) /\ ReceiptBlocks
  BY DEF BooksInv, Books, TableInv, Tables, PassTypes
<1>2. LedgerHead \in Nat /\ Height \in Nat /\ LedgerHead <= Height
  BY <1>1, PassFinalizedBound, NodeFacts DEF LedgerHead
<1>3. /\ Finalized(LedgerHead) <= Finalized(Height)
      /\ Finalized(Height) \in 0..Height /\ Finalized(LedgerHead) \in 0..LedgerHead
  BY <1>2, FinalizedBound
<1>4. batch[b].receipt.n \in 0..Height /\ batch[b].receipt.n <= Finalized(LedgerHead)
  BY <1>1 DEF ReceiptBlocks, RowBooks
<1> HIDE DEF Finalized, Height, LedgerHead
<1> QED
  BY <1>2, <1>3, <1>4 DEF IsFinal

\* A pass on its fork knows the hashes of the chain.
LEMMA TrueHash ==
  ASSUME FinalInv, pass.pc # "idle", NEW n \in 0..Height
  PROVE  Hash(n) = BlockHash(n)
<1>1. NodeShape /\ Reading(pass) /\ AtFork(pass)
  BY DEF FinalInv, Finality, ForkKept, BooksInv, Books, PassBooks, TableInv, Tables
<1>2. n \in 0..MaxHeight
  <2>1. Height \in 0..MaxHeight /\ MaxHeight \in Nat
    BY <1>1, NodeFacts, ChainAssumption
  <2> HIDE DEF Height
  <2> QED
    BY <2>1
<1>3. CASE pass.seen[n] = -1
  BY <1>3 DEF Hash
<1>4. CASE pass.seen[n] # -1
  <2>1. Canonical([n |-> n, hash |-> pass.seen[n]])
    BY <1>1, <1>2, <1>4 DEF Reading, OneFork
  <2> QED
    BY <1>4, <2>1 DEF Hash, Canonical
<1> QED
  BY <1>3, <1>4

\* What is executed has a nonce below the account's.
LEMMA ExecutedNonce ==
  ASSUME NodeShape, NEW n \in Mined
  PROVE  Block(n).tx.nonce \in Nat /\ Block(n).tx.nonce < AccountNonce
<1>1. n \in Nat /\ IsFiniteSet(Mined) /\ AccountNonce \in Nat
  BY NodeFacts DEF Mined
<1>2. Earlier(n) \subseteq Mined /\ n \notin Earlier(n)
  BY <1>1 DEF Earlier
<1>3. IsFiniteSet(Earlier(n)) /\ Cardinality(Earlier(n) \cup {n}) = Cardinality(Earlier(n)) + 1
  BY <1>1, <1>2, FS_Subset, FS_AddElement
<1>4. Earlier(n) \cup {n} \subseteq Mined
  BY <1>2
<1>5. Cardinality(Earlier(n) \cup {n}) <= Cardinality(Mined)
  BY <1>1, <1>4, FS_Subset
<1>6. Cardinality(Earlier(n)) \in Nat
  BY <1>3, FS_CardinalityType
<1>7. Block(n).tx.nonce = Cardinality(Earlier(n))
  BY DEF NodeShape, NonceOrder
<1> HIDE DEF Mined, Earlier
<1> QED
  BY <1>1, <1>3, <1>5, <1>6, <1>7 DEF AccountNonce

\* Nothing at or below an executed final nonce can be executed any more.
LEMMA SpentNotLive ==
  ASSUME NodeShape, PoolAhead, NEW n \in Mined, IsFinal(n), NEW t \in sent, Live(t)
  PROVE  Block(n).tx.nonce < t.nonce
<1>1. /\ n \in Nat /\ IsFiniteSet(Mined) /\ Mined \subseteq 0..Height /\ AccountNonce \in Nat
      /\ Height \in Nat
  BY NodeFacts DEF Mined
<1>2. t.nonce \in Nat
  BY DEF NodeShape, Transactions
<1>3. CASE t \in mempool
  <2>1. Block(n).tx.nonce \in Nat /\ Block(n).tx.nonce < AccountNonce
    BY ExecutedNonce
  <2>2. t.nonce >= AccountNonce
    BY <1>3 DEF PoolAhead
  <2> HIDE DEF AccountNonce
  <2> QED
    BY <1>1, <1>2, <2>1, <2>2
<1>4. CASE t \notin mempool
  <2>1. PICK m \in Mined : ~IsFinal(m) /\ Block(m).tx = t
    BY <1>4 DEF Live
  <2>2. m \in 0..Height /\ n \in 0..Height
    BY <1>1, <2>1
  <2>3. Finalized(Height) \in 0..Height
    BY FinalBlocks
  <2>4. n < m
    <3> HIDE DEF Finalized, Height, Mined
    <3> QED
      BY <1>1, <2>1, <2>2, <2>3 DEF IsFinal
  <2> QED
    BY <2>1, <2>4, NoncesRise
<1> QED
  BY <1>3, <1>4
-----------------------------------------------------------------------------
(* A step of the program that neither sends nor signs.                     *)

\* The transaction a batch records is executed in a final block.
Spent(b) ==
  \E n \in Mined : IsFinal(n) /\ Block(n).tx.charge = b /\ Block(n).tx.nonce = batch[b].nonce

RowGoesOn(b) ==
  /\ batch'[b].nonce = batch[b].nonce
  /\ batch'[b].receipt \in {batch[b].receipt, NoBlock} \/ Canonical(batch'[b].receipt)
  /\ batch[b].status \in Terminal =>
       batch'[b].status = batch[b].status /\ batch'[b].charged = batch[b].charged
  /\ batch[b].status \in InFlight => batch'[b].status \in InFlight \/ Spent(b)

ClickGoesOn(c) ==
  /\ click'[c].price = click[c].price \/ click'[c].price = NoBlock
       \/ click'[c].price.n \in 0..Height
  /\ click'[c].batch # click[c].batch => click'[c].batch # 0 /\ ~Signed(click'[c].batch)
  /\ click'[c].batch # 0 => click'[c].bid = click[c].bid /\ click'[c].price = click[c].price

PassGoesOn ==
  /\ \/ pass'.pc = "idle"
     \/ /\ pass.pc # "idle" /\ pass'.head = pass.head
        /\ pass'.seen[PassFinalized] = pass.seen[PassFinalized]
  /\ pass'.pc = "sign" =>
       /\ pass'.batch \in Batches /\ Proven(pass'.batch)
       /\ \A c \in Clicks : click'[c].batch = click[c].batch

LEMMA SameFinal ==
  ASSUME ChainSame
  PROVE  /\ Mined' = Mined /\ AccountNonce' = AccountNonce
         /\ \A n : IsFinal(n)' <=> IsFinal(n)
         /\ \A t : Reverted(t)' <=> Reverted(t)
  BY DEF ChainSame, Mined, AccountNonce, IsFinal, Finalized, Height, Reverted, Block

\* The clicks of a batch keep their proofs.
LEMMA ProvenStays ==
  ASSUME ChainSame, NEW b \in Batches, Proven(b), \A c \in Clicks : ClickGoesOn(c),
         \A c \in Clicks : click'[c].batch = b => click[c].batch = b
  PROVE  Proven(b)'
<1> SUFFICES ASSUME NEW c \in Clicks, click'[c].batch = b, NEW e \in Evidence(c)'
             PROVE  IsFinal(e.n)' /\ Canonical(e)'
  BY DEF Proven, ClicksOf
<1>1. c \in ClicksOf(b) /\ click'[c].batch # 0
  BY DEF ClicksOf, Batches
<1>2. e \in Evidence(c)
  BY <1>1 DEF ClickGoesOn, Evidence
<1>3. IsFinal(e.n) /\ Canonical(e)
  BY <1>1, <1>2 DEF Proven
<1> QED
  BY <1>3, SameFinal, SameBlocks

\* ... whatever it does to the pool.
LEMMA ProgramKeeps ==
  ASSUME FinalInv, ChainSame, sent' = sent,
         \A b \in Batches : RowGoesOn(b), \A c \in Clicks : ClickGoesOn(c), PassGoesOn
  PROVE  /\ ForkKept' /\ ReceiptsStand' /\ Superseded' /\ ChargedProven' /\ PricesKnown'
         /\ SettledStays
<1>1. NodeShape /\ SentShape
  BY DEF FinalInv, BooksInv, TableInv, Tables
<1>2. ForkKept'
  <2> SUFFICES ASSUME pass'.pc # "idle"
               PROVE  AtFork(pass)'
    BY DEF ForkKept
  <2>1. /\ pass.pc # "idle" /\ pass'.head = pass.head
        /\ pass'.seen[PassFinalized] = pass.seen[PassFinalized]
    BY DEF PassGoesOn
  <2>2. AtFork(pass)
    BY <2>1 DEF FinalInv, Finality, ForkKept
  <2> QED
    BY <2>1, <2>2, SameBlocks DEF AtFork, PassFinalized
<1>3. ReceiptsStand'
  <2> SUFFICES ASSUME NEW b \in Batches, batch'[b].receipt # NoBlock
               PROVE  Canonical(batch[b].receipt)'
    BY DEF ReceiptsStand
  <2>1. PICK e : e = batch'[b].receipt
    OBVIOUS
  <2>2. Canonical(e)
    BY <2>1 DEF RowGoesOn, FinalInv, Finality, ReceiptsStand
  <2>3. Canonical(e)'
    BY <2>2, SameBlocks
  <2> QED
    BY <2>1, <2>3 DEF Canonical
<1>4. Superseded'
  <2> SUFFICES ASSUME NEW t \in sent, t.nonce < batch'[t.charge].nonce
               PROVE  Reverted(t)'
    BY DEF Superseded
  <2>1. t.charge \in Batches
    BY <1>1 DEF NodeShape, Transactions
  <2>2. Reverted(t)
    BY <2>1 DEF RowGoesOn, FinalInv, Finality, Superseded
  <2> QED
    BY <2>2, SameFinal
<1>5. ChargedProven'
  <2> SUFFICES ASSUME NEW b \in Batches, Signed(b)' \/ (pass'.pc = "sign" /\ pass'.batch = b)
               PROVE  Proven(b)'
    BY DEF ChargedProven
  <2>1. CASE pass'.pc = "sign" /\ pass'.batch = b
    <3>1. Proven(b) /\ \A c \in Clicks : click'[c].batch = click[c].batch
      BY <2>1 DEF PassGoesOn
    <3> QED
      BY <3>1, ProvenStays
  <2>2. CASE Signed(b)'
    <3>1. Signed(b)
      BY <2>2 DEF Signed, RowGoesOn
    <3>2. Proven(b)
      BY <3>1 DEF FinalInv, Finality, ChargedProven
    <3>3. \A c \in Clicks : click'[c].batch = b => click[c].batch = b
      BY <3>1 DEF ClickGoesOn
    <3> QED
      BY <3>2, <3>3, ProvenStays
  <2> QED
    BY <2>1, <2>2
<1>6. PricesKnown'
  <2> SUFFICES ASSUME NEW c \in Clicks, click'[c].price # NoBlock
               PROVE  click'[c].price.n \in 0..Height'
    BY DEF PricesKnown
  <2>1. click'[c].price.n \in 0..Height
    BY DEF ClickGoesOn, FinalInv, Finality, PricesKnown
  <2> QED
    BY <2>1, SameBlocks
<1>7. SettledStays
  BY DEF SettledStays, RowGoesOn
<1> QED
  BY <1>2, <1>3, <1>4, <1>5, <1>6, <1>7

LEMMA ProgramStep ==
  ASSUME FinalInv, ChainSame, mempool' = mempool, sent' = sent,
         \A b \in Batches : RowGoesOn(b), \A c \in Clicks : ClickGoesOn(c), PassGoesOn
  PROVE  Finality' /\ SettledStays
<1>1. NodeShape /\ SentShape
  BY DEF FinalInv, BooksInv, TableInv, Tables
<1>2. PoolAhead'
  BY SameFinal DEF PoolAhead, FinalInv, Finality
<1>3. LiveJournaled'
  <2> SUFFICES ASSUME NEW t \in sent, Live(t)'
               PROVE  batch'[t.charge].nonce = t.nonce /\ batch'[t.charge].status \in InFlight
    BY DEF LiveJournaled
  <2>1. Live(t)
    BY SameFinal, SameBlocks DEF Live
  <2>2. batch[t.charge].nonce = t.nonce /\ batch[t.charge].status \in InFlight
    BY <2>1 DEF FinalInv, Finality, LiveJournaled
  <2>3. PICK b \in Batches : b = t.charge
    BY <1>1 DEF NodeShape, Transactions
  <2>4. ~Spent(b)
    <3> SUFFICES ASSUME NEW n \in Mined, IsFinal(n), Block(n).tx.nonce = t.nonce
                 PROVE  FALSE
      BY <2>2, <2>3 DEF Spent
    <3>1. Block(n).tx.nonce < t.nonce
      BY <1>1, <2>1, SpentNotLive DEF FinalInv, Finality
    <3>2. t.nonce \in Nat
      BY <1>1 DEF NodeShape, Transactions
    <3> QED
      BY <3>1, <3>2
  <2> QED
    BY <2>2, <2>3, <2>4 DEF RowGoesOn
<1> QED
  BY <1>2, <1>3, ProgramKeeps DEF Finality

\* Control is given back.
LEMMA BackGoesOn ==
  ASSUME NEW p, PassFields(p), pass.pc # "idle", p.head = pass.head,
         p.seen[PassFinalized] = pass.seen[PassFinalized],
         \/ \E w : pass' = Returned(p, w)
         \/ \E error : pass' = Threw(p, error)
  PROVE  PassGoesOn
<1>1. ASSUME NEW w, pass' = Returned(p, w)
      PROVE  pass'.head = p.head /\ pass'.seen = p.seen /\ pass'.pc # "sign"
  BY <1>1 DEF Returned, PassFields, IdlePass
<1>2. ASSUME NEW error, pass' = Threw(p, error)
      PROVE  pass'.head = p.head /\ pass'.seen = p.seen /\ pass'.pc # "sign"
  BY <1>2 DEF Threw, PassFields, IdlePass
<1>3. pass'.head = p.head /\ pass'.seen = p.seen /\ pass'.pc # "sign"
  BY <1>1, <1>2
<1> QED
  BY <1>3 DEF PassGoesOn

\* A step that leaves rows and clicks alone.
LEMMA SameRow ==
  ASSUME NEW b, batch'[b] = batch[b]
  PROVE  RowGoesOn(b)
  BY DEF RowGoesOn

LEMMA SameClick ==
  ASSUME NEW c, click'[c].batch = click[c].batch, click'[c].bid = click[c].bid,
         click'[c].price = click[c].price
  PROVE  ClickGoesOn(c)
  BY DEF ClickGoesOn
-----------------------------------------------------------------------------
(* The steps of the API and of time, and the start of a pass.              *)

LEMMA PassStays ==
  ASSUME FinalInv, pass' = pass, \A c \in Clicks : click'[c].batch = click[c].batch
  PROVE  PassGoesOn
<1>1. pass.pc = "sign" => pass.batch \in Batches
  BY DEF FinalInv, BooksInv, TableInv, JournalInv, PassShape, PrepareSteps
<1>2. pass.pc = "sign" => Proven(pass.batch)
  BY <1>1 DEF FinalInv, Finality, ChargedProven
<1>3. PICK b : b = pass.batch /\ pass'.batch = b
  OBVIOUS
<1>4. pass'.pc = "sign" => b \in Batches /\ Proven(b)
  BY <1>1, <1>2, <1>3
<1> QED
  BY <1>3, <1>4 DEF PassGoesOn

\* One click changes that no batch has.
LEMMA OneClickFinal ==
  ASSUME FinalInv, ChainSame, mempool' = mempool, sent' = sent, pass' = pass, batch' = batch,
         NEW c \in Clicks, NEW new, click' = [click EXCEPT ![c] = new],
         new.batch = click[c].batch, new.batch = 0 \/ new.bid = click[c].bid,
         new.price = click[c].price \/ (new.batch = 0 /\ new.price = NoBlock)
           \/ (new.batch = 0 /\ new.price.n \in 0..Height)
  PROVE  Finality' /\ SettledStays
<1>1. click \in [Clicks -> ClickRecords]
  BY DEF FinalInv, BooksInv, TableInv, Tables, RowTypes
<1>2. ASSUME NEW d \in Clicks
      PROVE  ClickGoesOn(d) /\ click'[d].batch = click[d].batch
  <2>1. CASE d = c
    <3>1. click'[d] = new
      BY <1>1, <2>1
    <3> QED
      BY <2>1, <3>1 DEF ClickGoesOn
  <2>2. CASE d # c
    <3>1. click'[d] = click[d]
      BY <1>1, <2>2
    <3> QED
      BY <3>1, SameClick
  <2> QED
    BY <2>1, <2>2
<1>3. PassGoesOn
  BY <1>2, PassStays
<1>4. \A b \in Batches : RowGoesOn(b)
  BY SameRow
<1>5. \A d \in Clicks : ClickGoesOn(d)
  BY <1>2
<1> QED
  BY <1>3, <1>4, <1>5, ProgramStep

LEMMA ClaimClickFinal ==
  ASSUME FinalInv, NEW s \in Stakes, ClaimClick(s)
  PROVE  Finality' /\ SettledStays
<1>1. PICK c : c = Claimed + 1
  OBVIOUS
<1>2. /\ ChainSame /\ mempool' = mempool /\ batch' = batch /\ pass' = pass /\ sent' = sent
  BY DEF ClaimClick, chainVars, ChainSame
<1>3. PICK v : click' = [click EXCEPT ![c] = [@ EXCEPT !.status = "CAPTURING", !.stake = s,
                                                      !.version = v]]
  BY <1>1 DEF ClaimClick
<1>4. click \in [Clicks -> ClickRecords] /\ ClickOrder
  BY DEF FinalInv, BooksInv, TableInv, Tables, RowTypes, LinkShape
<1>5. c \in Clicks
  BY <1>1, <1>4, ClaimedBound, ChargeAssumption DEF ClaimClick, Clicks
<1>6. PICK new : /\ click' = [click EXCEPT ![c] = new] /\ new.batch = click[c].batch
                 /\ new.bid = click[c].bid /\ new.price = click[c].price
  <2>1. PICK new : new = [click[c] EXCEPT !.status = "CAPTURING", !.stake = s, !.version = v]
    OBVIOUS
  <2>2. /\ new.batch = click[c].batch /\ new.bid = click[c].bid /\ new.price = click[c].price
    BY <1>4, <1>5, <2>1 DEF ClickRecords
  <2> QED
    BY <1>3, <2>1, <2>2
<1> QED
  BY <1>2, <1>5, <1>6, OneClickFinal

LEMMA FinishCaptureFinal ==
  ASSUME FinalInv, NEW c \in Clicks, NEW n \in {Height, Projected(Height)},
         NEW priced \in BOOLEAN, FinishCapture(c, n, priced)
  PROVE  Finality' /\ SettledStays
<1> DEFINE e == [n |-> n, hash |-> BlockHash(n)]
           price == IF priced THEN e ELSE NoBlock
           status == IF ~priced THEN "PRICE_PENDING"
                     ELSE IF Amount[c] = 0 THEN "SETTLED" ELSE "PENDING"
           unbilled == [click[c] EXCEPT !.status = "UNBILLED"]
           billed == [click[c] EXCEPT !.bid = e, !.price = price, !.status = status]
<1>1. /\ ChainSame /\ mempool' = mempool /\ batch' = batch /\ pass' = pass /\ sent' = sent
  BY DEF FinishCapture, chainVars, ChainSame
<1>2. click[c] \in ClickRecords /\ NodeShape /\ click[c].batch = 0
  BY DEF FinalInv, BooksInv, TableInv, Tables, RowTypes, FinishCapture, LinkShape, Unbatched
<1>3. n \in 0..Height
  BY <1>2, NodeFacts, ProjectedBound
<1>4. click' = [click EXCEPT ![c] = unbilled] \/ click' = [click EXCEPT ![c] = billed]
  BY DEF FinishCapture
<1>5. price = NoBlock \/ price.n \in 0..Height
  BY <1>3
<1> HIDE DEF e, price, status
<1>6. /\ unbilled.batch = 0 /\ unbilled.bid = click[c].bid /\ unbilled.price = click[c].price
      /\ billed.batch = 0 /\ billed.price = price
  BY <1>2 DEF ClickRecords
<1> HIDE DEF unbilled, billed
<1> QED
  BY <1>1, <1>2, <1>4, <1>5, <1>6, OneClickFinal

LEMMA QuietApiFinal ==
  ASSUME FinalInv,
         \/ ToggleAutomatic \/ \E enqueued \in BOOLEAN : RequestManualRun(enqueued)
         \/ \E c \in Clicks : Age(c)
         \/ \E b \in Batches : ReachNextAttempt(b)
         \/ UNCHANGED vars
  PROVE  Finality' /\ SettledStays
<1>1. ChainSame /\ mempool' = mempool /\ sent' = sent /\ pass' = pass
  BY DEF ToggleAutomatic, RequestManualRun, Age, ReachNextAttempt, chainVars, vars, dbVars,
         ChainSame
<1>2. click \in [Clicks -> ClickRecords] /\ batch \in [Batches -> BatchRecords]
  BY DEF FinalInv, BooksInv, TableInv, Tables, RowTypes
<1>3. \A b \in Batches : RowGoesOn(b)
  <2>1. CASE batch' = batch
    BY <2>1, SameRow
  <2>2. ASSUME NEW d \in Batches, batch' = [batch EXCEPT ![d].deferred = FALSE]
        PROVE  \A b \in Batches : RowGoesOn(b)
    BY <1>2, <2>2 DEF RowGoesOn, BatchRecords
  <2> QED
    BY <2>1, <2>2 DEF ToggleAutomatic, RequestManualRun, Age, ReachNextAttempt, vars, dbVars
<1>4. \A c \in Clicks : /\ click'[c].batch = click[c].batch /\ click'[c].bid = click[c].bid
                        /\ click'[c].price = click[c].price
  <2>1. CASE click' = click
    BY <2>1
  <2>2. ASSUME NEW d \in Clicks, click' = [click EXCEPT ![d].aged = TRUE]
        PROVE  \A c \in Clicks : /\ click'[c].batch = click[c].batch
                                 /\ click'[c].bid = click[c].bid
                                 /\ click'[c].price = click[c].price
    BY <1>2, <2>2 DEF ClickRecords
  <2> QED
    BY <2>1, <2>2 DEF ToggleAutomatic, RequestManualRun, Age, ReachNextAttempt, vars, dbVars
<1>5. PassGoesOn
  BY <1>1, <1>4, PassStays
<1>6. \A c \in Clicks : ClickGoesOn(c)
  BY <1>4, SameClick
<1> QED
  BY <1>1, <1>3, <1>5, <1>6, ProgramStep

\* A new pass reads the final block of the chain it finds.
LEMMA BeginPassFinal ==
  ASSUME FinalInv, NEW job \in Runs \cup {0}, NEW stale \in SUBSET Clicks,
         NEW snapshot \in BOOLEAN, BeginPass(job, stale, snapshot)
  PROVE  Finality' /\ SettledStays
<1> DEFINE old == checkpoint.n # -1 /\ checkpoint.n <= Finalized(Height)
           ns == {Finalized(Height)} \cup (IF old THEN {checkpoint.n} ELSE {})
<1>1. /\ NodeShape /\ SentShape /\ LinkShape /\ click \in [Clicks -> ClickRecords]
      /\ pass.pc = "idle" /\ pass.seen = Unread
  BY DEF FinalInv, BooksInv, TableInv, Tables, PassTypes, RowTypes, BeginPass
<1>2. ChainSame /\ mempool' = mempool /\ sent' = sent /\ batch' = batch
  BY DEF BeginPass, chainVars, ChainSame
<1>3. /\ Finalized(Height) \in 0..Height /\ Height \in 0..MaxHeight /\ MaxHeight \in Nat
      /\ Height \in Nat
  BY <1>1, NodeFacts, FinalizedBound, ChainAssumption
<1>4. pass'.pc = "fetch" /\ pass'.head = Height /\ pass'.seen = Seen(ns)
  <2>1. PICK previous : pass' = [IdlePass EXCEPT !.pc = "fetch", !.job = job, !.cutoff = Claimed,
                                   !.head = Height, !.seen = Seen(ns), !.previous = previous]
    BY DEF BeginPass
  <2> HIDE DEF ns
  <2> QED
    BY <2>1 DEF IdlePass
<1>5. ForkKept'
  <2>1. Finalized(Height) \in ns /\ Finalized(Height) \in 0..MaxHeight
    BY <1>3
  <2> HIDE DEF ns
  <2>2. Seen(ns)[Finalized(Height)] = BlockHash(Finalized(Height))
    BY <1>1, <2>1 DEF Seen, Hash, Unread
  <2>3. PICK n : n = Finalized(Height)
    OBVIOUS
  <2>4. pass'.seen[n] = BlockHash(n) /\ Finalized(pass'.head) = n
    BY <1>4, <2>2, <2>3
  <2>5. BlockHash(n)' = BlockHash(n)
    BY <1>2, SameBlocks
  <2>6. AtFork(pass)'
    BY <2>4, <2>5 DEF AtFork, BlockHash, Block
  <2> QED
    BY <2>6 DEF ForkKept
<1>6. ASSUME NEW c \in Clicks
      PROVE  ClickGoesOn(c) /\ click'[c].batch = click[c].batch
  <2> DEFINE n == Projected(Height)
  <2>1. click'[c] = Converted(c, stale, snapshot) /\ click[c] \in ClickRecords
    BY <1>1 DEF BeginPass
  <2>2. PICK e : /\ e.n \in 0..Height
                 /\ \/ c \in stale /\ click'[c] = [click[c] EXCEPT !.status = "UNBILLED"]
                    \/ /\ click[c].status = "PRICE_PENDING"
                       /\ click'[c] = [click[c] EXCEPT
                                         !.status = IF Amount[c] = 0 THEN "SETTLED" ELSE "PENDING",
                                         !.price = e]
                    \/ click'[c] = click[c]
    <3>1. n \in 0..Height
      BY <1>1, ProjectedBound
    <3>2. PICK e : e = [n |-> n, hash |-> BlockHash(n)]
      OBVIOUS
    <3>3. e.n \in 0..Height
      BY <3>1, <3>2
    <3>4. \/ c \in stale /\ click'[c] = [click[c] EXCEPT !.status = "UNBILLED"]
          \/ /\ click[c].status = "PRICE_PENDING"
             /\ click'[c] = [click[c] EXCEPT
                               !.status = IF Amount[c] = 0 THEN "SETTLED" ELSE "PENDING",
                               !.price = e]
          \/ click'[c] = click[c]
      BY <2>1, <3>2 DEF Converted
    <3> QED
      BY <3>3, <3>4
  <2>3. CASE click'[c] = [click[c] EXCEPT !.status = "UNBILLED"] \/ click'[c] = click[c]
    <3>1. /\ click'[c].batch = click[c].batch /\ click'[c].bid = click[c].bid
          /\ click'[c].price = click[c].price
      BY <2>1, <2>3 DEF ClickRecords
    <3> QED
      BY <3>1, SameClick
  <2>4. CASE /\ click[c].status = "PRICE_PENDING"
             /\ click'[c] = [click[c] EXCEPT
                               !.status = IF Amount[c] = 0 THEN "SETTLED" ELSE "PENDING",
                               !.price = e]
    <3>1. click[c].batch = 0
      BY <1>1, <2>4 DEF LinkShape, Unbatched
    <3>2. click'[c].batch = 0 /\ click'[c].price = e
      BY <2>1, <2>4, <3>1 DEF ClickRecords
    <3> QED
      BY <2>2, <3>1, <3>2 DEF ClickGoesOn
  <2> QED
    BY <2>2, <2>3, <2>4
<1>7. ChargedProven'
  <2> SUFFICES ASSUME NEW b \in Batches, Signed(b)
               PROVE  Proven(b)'
    BY <1>2, <1>4 DEF ChargedProven, Signed
  <2>1. Proven(b)
    BY DEF FinalInv, Finality, ChargedProven
  <2> QED
    BY <1>2, <1>6, <2>1, ProvenStays
<1>8. PricesKnown'
  BY <1>2, <1>6, SameBlocks DEF PricesKnown, ClickGoesOn, FinalInv, Finality
<1>9. ReceiptsStand'
  BY <1>2, SameBlocks DEF ReceiptsStand, FinalInv, Finality
<1>10. PoolAhead' /\ Superseded'
  BY <1>2, SameFinal DEF PoolAhead, Superseded, FinalInv, Finality
<1>11. LiveJournaled'
  <2>1. \A t : Live(t)' <=> Live(t)
    BY <1>2, SameFinal, SameBlocks DEF Live
  <2> QED
    BY <1>2, <2>1 DEF LiveJournaled, FinalInv, Finality
<1>12. SettledStays
  BY <1>2 DEF SettledStays
<1> QED
  BY <1>5, <1>7, <1>8, <1>9, <1>10, <1>11, <1>12 DEF Finality
-----------------------------------------------------------------------------
(* The steps of a pass that write no batch.                                *)

\* Rows and clicks stay, the pass goes on or ends.
LEMMA QuietPassFinal ==
  ASSUME FinalInv, ChainSame, mempool' = mempool, sent' = sent, batch' = batch, click' = click,
         pass.pc # "idle", pass'.pc # "sign",
         pass'.pc = "idle" \/ (pass'.head = pass.head /\ pass'.seen = pass.seen)
  PROVE  Finality' /\ SettledStays
<1>1. \A b \in Batches : RowGoesOn(b)
  BY SameRow
<1>2. \A c \in Clicks : ClickGoesOn(c)
  BY SameClick
<1>3. PassGoesOn
  BY DEF PassGoesOn
<1> QED
  BY <1>1, <1>2, <1>3, ProgramStep

LEMMA QuietStepsFinal ==
  ASSUME FinalInv,
         \/ ReceiptMissing \/ RefreshRun \/ PlanRuns \/ BlockRun \/ PrepareNext \/ FinishRun
         \/ Crash \/ \E ready \in BOOLEAN : SaveCheckpoint(ready)
  PROVE  Finality' /\ SettledStays
<1>1. ChainSame /\ mempool' = mempool /\ sent' = sent /\ batch' = batch /\ click' = click
  BY DEF ReceiptMissing, RefreshRun, PlanRuns, BlockRun, PrepareNext, FinishRun, Crash,
         SaveCheckpoint, chainVars, dbVars, ChainSame
<1>2. pass.pc # "idle"
  BY DEF ReceiptMissing, RefreshRun, PlanRuns, BlockRun, PrepareNext, FinishRun, Crash,
         SaveCheckpoint
<1>3. DOMAIN pass = DOMAIN IdlePass
  BY DEF FinalInv, BooksInv, TableInv, Tables, PassTypes, PassFields
<1> DEFINE Moved == /\ pass'.pc # "sign"
                    /\ pass'.pc = "idle" \/ (pass'.head = pass.head /\ pass'.seen = pass.seen)
<1>4. CASE ReceiptMissing
  <2>1. pass' = [pass EXCEPT !.pc = "unseen"]
    BY <1>4 DEF ReceiptMissing
  <2>2. Moved
    BY <1>3, <2>1 DEF IdlePass
  <2> QED
    BY <1>1, <1>2, <2>2, QuietPassFinal
<1>5. ASSUME NEW p, DOMAIN p = DOMAIN IdlePass, p.head = pass.head, p.seen = pass.seen,
             pass' = AfterRefresh(p) \/ \E runs : pass' = NextRun(p, runs)
      PROVE  Moved
  <2>1. CASE pass' = AfterRefresh(p)
    BY <1>5, <2>1, AfterRefreshFields
  <2>2. CASE \E runs : pass' = NextRun(p, runs)
    BY <1>5, <2>2, NextRunFields
  <2> QED
    BY <1>5, <2>1, <2>2
<1>6. CASE RefreshRun
  <2>1. PICK p : p = [pass EXCEPT !.refresh = @ \ {Min(pass.refresh)}]
    OBVIOUS
  <2>2. DOMAIN p = DOMAIN IdlePass /\ p.head = pass.head /\ p.seen = pass.seen
    BY <1>3, <2>1 DEF IdlePass
  <2>3. pass' = AfterRefresh(p)
    BY <1>6, <2>1 DEF RefreshRun
  <2>4. Moved
    BY <1>5, <2>2, <2>3
  <2> QED
    BY <1>1, <1>2, <2>4, QuietPassFinal
<1>7. CASE PlanRuns \/ BlockRun
  <2>1. PICK runs : pass' = NextRun(pass, runs)
    BY <1>7 DEF PlanRuns, BlockRun
  <2>2. Moved
    BY <1>3, <1>5, <2>1
  <2> QED
    BY <1>1, <1>2, <2>2, QuietPassFinal
<1>8. CASE FinishRun
  <2>1. PICK blocked :
          pass' = NextRun([pass EXCEPT !.todo = {}, !.failure = "none", !.blocked = blocked],
                          pass.runs)
    BY <1>8 DEF FinishRun
  <2>2. PICK p : p = [pass EXCEPT !.todo = {}, !.failure = "none", !.blocked = blocked]
    OBVIOUS
  <2>3. DOMAIN p = DOMAIN IdlePass /\ p.head = pass.head /\ p.seen = pass.seen
    BY <1>3, <2>2 DEF IdlePass
  <2>4. \E runs : pass' = NextRun(p, runs)
    BY <2>1, <2>2
  <2>5. Moved
    BY <1>5, <2>3, <2>4
  <2> QED
    BY <1>1, <1>2, <2>5, QuietPassFinal
<1>9. CASE PrepareNext
  <2>1. PICK b : b = Min(pass.todo)
    OBVIOUS
  <2>2. pass' = IF batch[b].deferred THEN [pass EXCEPT !.todo = @ \ {b}]
                ELSE IF run[pass.run].trigger = "AUTO" /\ ~auto
                THEN [pass EXCEPT !.pc = "finish", !.todo = {}]
                ELSE [pass EXCEPT !.pc = "check", !.batch = b, !.todo = @ \ {b}]
    BY <1>9, <2>1 DEF PrepareNext
  <2>3. \/ pass' = [pass EXCEPT !.todo = @ \ {b}]
        \/ pass' = [pass EXCEPT !.pc = "finish", !.todo = {}]
        \/ pass' = [pass EXCEPT !.pc = "check", !.batch = b, !.todo = @ \ {b}]
    BY <2>2, Zenon
  <2>4. pass.pc = "prepare"
    BY <1>9 DEF PrepareNext
  <2>5. Moved
    BY <1>3, <2>3, <2>4 DEF IdlePass
  <2> QED
    BY <1>1, <1>2, <2>5, QuietPassFinal
<1>10. CASE Crash
  <2>1. pass'.pc = "idle"
    BY <1>10 DEF Crash, IdlePass
  <2> QED
    BY <1>1, <1>2, <2>1, QuietPassFinal
<1>11. ASSUME NEW ready \in BOOLEAN, SaveCheckpoint(ready)
       PROVE  Finality' /\ SettledStays
  <2>1. PICK blocked, outage :
          pass' = AfterRefresh([pass EXCEPT !.auto = auto, !.todo = {}, !.blocked = blocked,
                                            !.outage = outage])
    BY <1>11 DEF SaveCheckpoint
  <2>2. PICK p : p = [pass EXCEPT !.auto = auto, !.todo = {}, !.blocked = blocked,
                                  !.outage = outage]
    OBVIOUS
  <2>3. DOMAIN p = DOMAIN IdlePass /\ p.head = pass.head /\ p.seen = pass.seen
    BY <1>3, <2>2 DEF IdlePass
  <2>4. Moved
    BY <1>5, <2>1, <2>2, <2>3
  <2> QED
    BY <1>1, <1>2, <2>4, QuietPassFinal
<1> QED
  BY <1>4, <1>6, <1>7, <1>8, <1>9, <1>10, <1>11

\* Reading evidence does not change what the pass knows of its final block.
LEMMA ValidateFinal ==
  ASSUME FinalInv, ValidateAndFetch
  PROVE  Finality' /\ SettledStays
<1> DEFINE cs == {c \in Clicks : click[c].status \in {"PENDING", "PRICE_PENDING"}
                                /\ click[c].batch = 0}
           ns == EvidenceRead(cs)
<1>1. /\ TableInv /\ PassFields(pass) /\ pass.pc = "fetch" /\ Reading(pass)
      /\ click \in [Clicks -> ClickRecords]
  BY DEF FinalInv, BooksInv, Books, PassBooks, TableInv, Tables, PassTypes, RowTypes,
         ValidateAndFetch
<1>2. ChainSame /\ mempool' = mempool /\ sent' = sent /\ batch' = batch
  BY DEF ValidateAndFetch, chainVars, ChainSame
<1>3. ns \in SUBSET (0..PassFinalized)
  BY DEF EvidenceRead
<1>4. PICK q : pass' = q /\ q.pc = "reconcile" /\ q.head = pass.head /\ q.seen = Seen(ns)
  <2>1. PICK td : pass' = [pass EXCEPT !.pc = "reconcile", !.seen = Seen(ns), !.todo = td,
                                       !.previous = FALSE]
    BY DEF ValidateAndFetch
  <2>2. DOMAIN pass = DOMAIN IdlePass
    BY <1>1 DEF PassFields
  <2> DEFINE seen == Seen(ns)
  <2> HIDE DEF ns, seen
  <2>3. pass'.pc = "reconcile" /\ pass'.head = pass.head /\ pass'.seen = seen
    BY <2>1, <2>2 DEF IdlePass, seen
  <2> QED
    BY <2>3 DEF seen
<1> HIDE DEF ns
<1>5. q.seen[PassFinalized] = pass.seen[PassFinalized]
  BY <1>1, <1>3, <1>4, ReadMore
<1>6. PassGoesOn
  BY <1>1, <1>4, <1>5 DEF PassGoesOn
<1>7. ASSUME NEW c \in Clicks
      PROVE  ClickGoesOn(c)
  <2>1. \/ click'[c] = [click[c] EXCEPT !.status = "UNBILLED"]
        \/ click'[c] = click[c]
    BY DEF ValidateAndFetch
  <2>2. /\ click'[c].batch = click[c].batch /\ click'[c].bid = click[c].bid
        /\ click'[c].price = click[c].price
    BY <1>1, <2>1 DEF ClickRecords
  <2> QED
    BY <2>2, SameClick
<1>8. \A b \in Batches : RowGoesOn(b)
  BY <1>2, SameRow
<1> QED
  BY <1>2, <1>6, <1>7, <1>8, ProgramStep

\* No receipt is found replaced, so no batch is opened again.
LEMMA ReconcileNextFinal ==
  ASSUME FinalInv, ReconcileNext
  PROVE  Finality' /\ SettledStays
<1>0. PICK b \in Batches : b = Min(pass.todo)
  <2>1. pass.todo \subseteq Batches /\ pass.todo # {}
    BY DEF ReconcileNext, FinalInv, BooksInv, TableInv, JournalInv, PassShape
  <2>2. pass.todo \subseteq Nat
    BY <2>1 DEF Batches
  <2> QED
    BY <2>1, <2>2, MinMember
<1> DEFINE proof == batch[b].receipt
           closed == batch[b].status \in Terminal /\ proof # NoBlock
           seen == IF closed THEN Seen({proof.n}) ELSE pass.seen
<1>1. /\ TableInv /\ NodeShape /\ PassFields(pass) /\ ReceiptBlocks /\ RowBooks(b)
      /\ pass.pc = "reconcile" /\ Reading(pass)
  BY DEF FinalInv, BooksInv, Books, PassBooks, TableInv, Tables, PassTypes, ReconcileNext
<1>2. ChainSame /\ mempool' = mempool /\ sent' = sent
  BY DEF ReconcileNext, chainVars, ChainSame
<1>3. closed => proof.n \in 0..PassFinalized /\ proof.n \in 0..Height
  <2> SUFFICES ASSUME closed
               PROVE  proof.n \in 0..PassFinalized /\ proof.n \in 0..Height
    OBVIOUS
  <2>1. proof.n \in 0..Height /\ proof.n <= PassFinalized
    BY <1>1, LedgerFinal DEF ReceiptBlocks, RowBooks
  <2>2. PassFinalized \in 0..Height
    BY <1>1, PassFinalizedBound
  <2> QED
    BY <2>1, <2>2
<1>4. closed => Hash(proof.n) = proof.hash
  <2> SUFFICES ASSUME closed
               PROVE  Hash(proof.n) = proof.hash
    OBVIOUS
  <2>1. Hash(proof.n) = BlockHash(proof.n)
    BY <1>1, <1>3, TrueHash
  <2>2. Canonical(proof)
    BY DEF FinalInv, Finality, ReceiptsStand
  <2> QED
    BY <2>1, <2>2 DEF Canonical
<1>5. PICK p : p = [pass EXCEPT !.todo = @ \ {b}, !.batch = b, !.seen = seen]
  OBVIOUS
<1>6. /\ UNCHANGED <<click, batch, run>>
      /\ pass' = Returned(p, FALSE) \/ pass' = [p EXCEPT !.pc = "receipt"]
  BY <1>0, <1>4, <1>5 DEF ReconcileNext
<1>7. p.head = pass.head /\ p.seen = seen /\ DOMAIN p = DOMAIN IdlePass
  <2> HIDE DEF seen
  <2> QED
    BY <1>1, <1>5 DEF PassFields, IdlePass
<1>8. p.seen[PassFinalized] = pass.seen[PassFinalized]
  <2>1. CASE closed
    <3>1. {proof.n} \in SUBSET (0..PassFinalized) /\ p.seen = Seen({proof.n})
      BY <1>3, <1>7, <2>1
    <3> HIDE DEF seen, proof
    <3> QED
      BY <1>1, <1>7, <3>1, ReadMore
  <2>2. CASE ~closed
    BY <1>7, <2>2
  <2> QED
    BY <2>1, <2>2
<1> HIDE DEF seen
<1>9. pass'.head = pass.head /\ pass'.seen = p.seen /\ pass'.pc # "sign"
  <2>1. CASE pass' = Returned(p, FALSE)
    BY <1>7, <2>1 DEF Returned, IdlePass
  <2>2. CASE pass' = [p EXCEPT !.pc = "receipt"]
    BY <1>7, <2>2 DEF IdlePass
  <2> QED
    BY <1>6, <2>1, <2>2
<1>10. PassGoesOn
  BY <1>1, <1>8, <1>9 DEF PassGoesOn
<1>11. \A d \in Batches : RowGoesOn(d)
  BY <1>6, SameRow
<1>12. \A c \in Clicks : ClickGoesOn(c)
  BY <1>6, SameClick
<1> QED
  BY <1>2, <1>10, <1>11, <1>12, ProgramStep
-----------------------------------------------------------------------------
(* The steps that reconcile a signed batch.                                *)

\* One row is written and given back.
LEMMA OneRowFinal ==
  ASSUME FinalInv, ChainSame, mempool' = mempool, sent' = sent, pass.pc # "idle",
         NEW b \in Batches, RowGoesOn(b), \A d \in Batches \ {b} : batch'[d] = batch[d],
         \A c \in Clicks : ClickGoesOn(c),
         NEW p, PassFields(p), p.head = pass.head,
         p.seen[PassFinalized] = pass.seen[PassFinalized],
         \/ \E w : pass' = Returned(p, w)
         \/ \E error : pass' = Threw(p, error)
  PROVE  Finality' /\ SettledStays
<1>1. PassGoesOn
  BY BackGoesOn
<1>2. \A d \in Batches : RowGoesOn(d)
  BY SameRow
<1> QED
  BY <1>1, <1>2, ProgramStep

\* What a final block charged was charged by the transaction the batch records.
LEMMA ChargedSpent ==
  ASSUME FinalInv, NEW b \in Batches, NEW n \in ChargedIn(b), IsFinal(n)
  PROVE  Spent(b)
<1>1. NodeShape /\ SentShape /\ Superseded /\ RowTypes
  BY DEF FinalInv, Finality, BooksInv, TableInv, Tables
<1>2. /\ n \in Mined /\ Block(n).tx.charge = b /\ Block(n).result = "charged"
      /\ n \in 0..Height /\ Block(n).tx # NoTx
  BY DEF ChargedIn, Mined
<1>3. PICK t \in sent : t = Block(n).tx
  BY <1>1, <1>2, NodeFacts DEF BlockRecords
<1>4. t.nonce <= batch[b].nonce /\ t.nonce \in Nat /\ batch[b].nonce \in Nat \cup {-1}
  BY <1>1, <1>2, <1>3 DEF SentShape, NodeShape, Transactions, RowTypes, BatchRecords
<1>5. CASE t.nonce = batch[b].nonce
  BY <1>2, <1>3, <1>5 DEF Spent
<1>6. CASE t.nonce < batch[b].nonce
  <2>1. Reverted(t)
    BY <1>1, <1>2, <1>3, <1>6 DEF Superseded
  <2>2. PICK m \in Mined : Block(m).tx = t /\ Block(m).result = "reverted"
    BY <2>1 DEF Reverted
  <2>3. m \in Nat /\ n \in Nat /\ m # n
    BY <1>1, <1>2, <2>2, NodeFacts
  <2>4. CASE m < n
    <3>1. Block(m).tx.nonce < Block(n).tx.nonce
      BY <1>1, <1>2, <2>4, NoncesRise
    <3> QED
      BY <1>3, <1>4, <2>2, <3>1
  <2>5. CASE n < m
    <3>1. Block(n).tx.nonce < Block(m).tx.nonce
      BY <1>1, <1>2, <2>5, NoncesRise
    <3> QED
      BY <1>3, <1>4, <2>2, <3>1
  <2> QED
    BY <2>3, <2>4, <2>5
<1> QED
  BY <1>4, <1>5, <1>6

\* The batch is still in flight.
LEMMA InFlightFinal ==
  ASSUME FinalInv, ChainSame, mempool' = mempool, sent' = sent, click' = click,
         pass.pc \in SignedSteps, NEW b \in Batches, b = pass.batch,
         NEW row, batch' = [batch EXCEPT ![b] = row],
         row.status \in InFlight, row.receipt = batch[b].receipt, row.nonce = batch[b].nonce,
         NEW p, PassFields(p), p.head = pass.head,
         p.seen[PassFinalized] = pass.seen[PassFinalized],
         \/ \E w : pass' = Returned(p, w)
         \/ \E error : pass' = Threw(p, error)
  PROVE  Finality' /\ SettledStays
<1>1. /\ batch \in [Batches -> BatchRecords] /\ batch[b].status \notin Terminal
      /\ pass.pc # "idle"
  BY SignedOpen DEF FinalInv, BooksInv, TableInv, Tables, RowTypes, PassTypes, SignedSteps
<1>2. batch'[b] = row /\ \A d \in Batches \ {b} : batch'[d] = batch[d]
  BY <1>1
<1>3. RowGoesOn(b)
  BY <1>1, <1>2 DEF RowGoesOn
<1>4. \A c \in Clicks : ClickGoesOn(c)
  BY SameClick
<1> QED
  BY <1>1, <1>2, <1>3, <1>4, OneRowFinal

LEMMA ReconcilingFinal ==
  ASSUME FinalInv, ChainSame, mempool' = mempool, sent' = sent,
         pass.pc \in SignedSteps, NEW error, Reconciling(pass.batch, error),
         NEW p, PassFields(p), p.head = pass.head,
         p.seen[PassFinalized] = pass.seen[PassFinalized],
         \/ \E w : pass' = Returned(p, w)
         \/ \E x : pass' = Threw(p, x)
  PROVE  Finality' /\ SettledStays
<1>0. PICK b \in Batches : b = pass.batch /\ batch[b] \in BatchRecords
  BY SignedOpen DEF FinalInv, BooksInv
<1> DEFINE row == [batch[b] EXCEPT !.status = "RECONCILING", !.error = Stored(error)]
<1>1. batch' = [batch EXCEPT ![b] = row] /\ click' = click
  BY <1>0 DEF Reconciling
<1>2. row.status \in InFlight /\ row.receipt = batch[b].receipt /\ row.nonce = batch[b].nonce
  BY <1>0 DEF BatchRecords, InFlight
<1> HIDE DEF row
<1> QED
  BY <1>0, <1>1, <1>2, InFlightFinal

LEMMA SettleFinal ==
  ASSUME FinalInv, ChainSame, mempool' = mempool, sent' = sent, pass.pc \in SignedSteps,
         NEW n \in ChargedIn(pass.batch), n \in 0..PassFinalized, Settle(pass.batch, n),
         NEW p, PassFields(p), p.head = pass.head,
         p.seen[PassFinalized] = pass.seen[PassFinalized],
         NEW w, pass' = Returned(p, w)
  PROVE  Finality' /\ SettledStays
<1>0. PICK b \in Batches : b = pass.batch /\ batch[b] \in BatchRecords
  BY SignedOpen DEF FinalInv, BooksInv
<1> DEFINE charged == Block(n).charged
           short == batch[b].due > charged
           proof == [n |-> n, hash |-> BlockHash(n)]
           row == [batch[b] EXCEPT !.status = IF short THEN "PARTIAL" ELSE "CONFIRMED",
                     !.charged = charged, !.receipt = proof,
                     !.error = IF short THEN "other" ELSE "none", !.deferred = FALSE]
<1>1. /\ batch \in [Batches -> BatchRecords] /\ click \in [Clicks -> ClickRecords]
      /\ NodeShape /\ PassFields(pass) /\ pass.pc # "idle" /\ batch[b].status \notin Terminal
  BY <1>0 DEF FinalInv, BooksInv, TableInv, Tables, RowTypes, PassTypes, SignedSteps
<1>2. batch' = [batch EXCEPT ![b] = row]
  BY <1>0 DEF Settle
<1>3. n \in 0..Height /\ IsFinal(n)
  BY <1>1, ReadFinal DEF ChargedIn, Mined
<1>4. Canonical(proof)
  BY <1>1, <1>3, OnChain
<1>5. Spent(b)
  BY <1>0, <1>3, ChargedSpent
<1> HIDE DEF charged, proof, short
<1>6. row.receipt = proof /\ row.nonce = batch[b].nonce
  BY <1>0 DEF BatchRecords
<1> HIDE DEF row
<1>7. batch'[b] = row /\ \A d \in Batches \ {b} : batch'[d] = batch[d]
  BY <1>1, <1>2
<1>8. RowGoesOn(b)
  BY <1>1, <1>4, <1>5, <1>6, <1>7 DEF RowGoesOn
<1>9. ASSUME NEW c \in Clicks
      PROVE  ClickGoesOn(c)
  <2>1. \/ c \notin ClicksOf(b) /\ click'[c] = click[c]
        \/ \E s \in {"SETTLED", "UNCOLLECTABLE"} : click'[c] = [click[c] EXCEPT !.status = s]
    BY <1>0 DEF Settle
  <2>2. /\ click'[c].batch = click[c].batch /\ click'[c].bid = click[c].bid
        /\ click'[c].price = click[c].price
    BY <1>1, <2>1 DEF ClickRecords
  <2> QED
    BY <2>2, SameClick
<1> QED
  BY <1>1, <1>7, <1>8, <1>9, OneRowFinal

LEMMA SettleIndexedFinal ==
  ASSUME FinalInv, ChainSame, mempool' = mempool, sent' = sent, pass.pc \in SignedSteps,
         NEW indexed, SettleIndexed(pass.batch, indexed)
  PROVE  Finality' /\ SettledStays
<1> DEFINE found == {n \in ChargedIn(pass.batch) : indexed /\ Confirmed(n)}
<1>1. TableInv /\ NodeShape /\ PassFields(pass) /\ Reading(pass)
  BY WorkingPass DEF FinalInv
<1>2. found \in SUBSET (0..PassFinalized) /\ found \subseteq Nat
  <2>1. \A n \in found : n \in 0..Height /\ pass.head >= n + Confirmations
    BY DEF ChargedIn, Mined, Confirmed
  <2> HIDE DEF found
  <2>2. \A n \in found : n \in 0..PassFinalized
    BY <1>1, <2>1, FinalBlock
  <2>3. \A n \in found : n \in Nat
    BY <2>1
  <2> QED
    BY <2>2, <2>3
<1>3. PICK p : p = [pass EXCEPT !.seen = Seen(found)]
  OBVIOUS
<1>4. CASE found # {} /\ Settle(pass.batch, Min(found)) /\ pass' = Returned(p, FALSE)
  <2>1. PICK n : n = Min(found)
    OBVIOUS
  <2>2. n \in found
    <3> HIDE DEF found
    <3> QED
      BY <1>2, <1>4, <2>1, MinMember
  <2>3. n \in ChargedIn(pass.batch) /\ n \in 0..PassFinalized
    BY <1>2, <2>2
  <2> HIDE DEF found
  <2>4. /\ PassFields(p) /\ p.head = pass.head
        /\ p.seen[PassFinalized] = pass.seen[PassFinalized]
    BY <1>1, <1>2, <1>3, ReadPass
  <2> QED
    BY <1>4, <2>1, <2>3, <2>4, SettleFinal
<1>5. CASE Reconciling(pass.batch, "other") /\ pass' = Returned(pass, TRUE)
  BY <1>1, <1>5, ReconcilingFinal
<1> QED
  BY <1>3, <1>4, <1>5 DEF SettleIndexed

LEMMA ReadReceiptFinal ==
  ASSUME FinalInv, NEW indexed, ReadReceipt(indexed)
  PROVE  Finality' /\ SettledStays
<1>0. PICK b \in Batches : b = pass.batch /\ Signed(b) /\ batch[b] \in BatchRecords
  BY SignedOpen DEF FinalInv, BooksInv, ReadReceipt, SignedSteps
<1> DEFINE mined == MinedIn(Transaction(b))
           proof(n) == [n |-> n, hash |-> BlockHash(n)]
           row(n) == [batch[b] EXCEPT !.status = "FAILED", !.receipt = proof(n),
                                      !.error = "other", !.deferred = TRUE]
<1>1. /\ pass.pc \in SignedSteps /\ ChainSame /\ mempool' = mempool /\ sent' = sent
  BY DEF ReadReceipt, SignedSteps, chainVars, ChainSame
<1>2. /\ TableInv /\ NodeShape /\ PassFields(pass) /\ Reading(pass)
      /\ batch \in [Batches -> BatchRecords] /\ pass.pc # "idle" /\ batch[b].status \notin Terminal
  BY <1>0, <1>1, WorkingPass DEF FinalInv, TableInv, Tables, RowTypes, PassTypes, SignedSteps
<1>3. PICK n : n = Min(mined)
  OBVIOUS
<1>4. n \in 0..Height /\ n \in Mined /\ Block(n).tx = Transaction(b)
  <2>1. mined \subseteq Nat /\ mined # {}
    BY <1>0, <1>2, NodeFacts DEF MinedIn, ReadReceipt
  <2>2. n \in mined
    <3> HIDE DEF mined
    <3> QED
      BY <1>3, <2>1, MinMember
  <2> QED
    BY <2>2 DEF MinedIn, Mined
<1>5. PICK p : p = [pass EXCEPT !.seen = IF pass.head >= n + Confirmations THEN Seen({n})
                                         ELSE @]
  OBVIOUS
<1>6. \/ Reconciling(b, "waiting") /\ pass' = Returned(p, TRUE)
      \/ /\ Confirmed(n) /\ Block(n).result = "reverted"
         /\ \/ batch' = batch
            \/ batch' = [batch EXCEPT ![b] = row(n)]
         /\ click' = click
         /\ pass' = Returned(p, FALSE)
      \/ SettleIndexed(b, indexed)
      \/ /\ Confirmed(n) /\ Block(n).result = "charged"
         /\ Settle(b, n) /\ pass' = Returned(p, FALSE)
  BY <1>0, <1>3, <1>5 DEF ReadReceipt
<1>7. /\ PassFields(p) /\ p.head = pass.head
      /\ p.seen[PassFinalized] = pass.seen[PassFinalized]
  <2>1. CASE pass.head >= n + Confirmations
    <3>1. p = [pass EXCEPT !.seen = Seen({n})]
      BY <1>5, <2>1
    <3>2. {n} \in SUBSET (0..PassFinalized)
      BY <1>2, <1>4, <2>1, FinalBlock
    <3> QED
      BY <1>2, <3>1, <3>2, ReadPass
  <2>2. CASE ~(pass.head >= n + Confirmations)
    <3>1. p = [pass EXCEPT !.seen = pass.seen] /\ pass.seen \in [0..MaxHeight -> -1..MaxForks]
      BY <1>2, <1>5, <2>2 DEF PassFields
    <3>2. PassFields(p) /\ p.head = pass.head /\ p.seen = pass.seen
      BY <1>2, <3>1, SeenPassFields
    <3> QED
      BY <3>2
  <2> QED
    BY <2>1, <2>2
<1>8. CASE Reconciling(b, "waiting") /\ pass' = Returned(p, TRUE)
  BY <1>0, <1>1, <1>7, <1>8, ReconcilingFinal
<1>9. CASE SettleIndexed(b, indexed)
  BY <1>0, <1>1, <1>9, SettleIndexedFinal
<1>10. Confirmed(n) => n \in 0..PassFinalized
  BY <1>2, <1>4, FinalBlock DEF Confirmed
<1>11. CASE /\ Confirmed(n) /\ Block(n).result = "charged" /\ Settle(b, n)
            /\ pass' = Returned(p, FALSE)
  <2>1. n \in ChargedIn(pass.batch)
    BY <1>0, <1>4, <1>11 DEF ChargedIn, Transaction
  <2> QED
    BY <1>0, <1>1, <1>7, <1>10, <1>11, <2>1, SettleFinal
<1>12. \A c \in Clicks : click' = click => ClickGoesOn(c)
  BY SameClick
<1>13. CASE batch' = batch /\ click' = click /\ pass' = Returned(p, FALSE)
  <2>1. RowGoesOn(b)
    BY <1>13, SameRow
  <2> QED
    BY <1>1, <1>2, <1>7, <1>12, <1>13, <2>1, OneRowFinal
<1>14. CASE /\ Confirmed(n) /\ batch' = [batch EXCEPT ![b] = row(n)]
            /\ click' = click /\ pass' = Returned(p, FALSE)
  <2>1. PICK new : new = row(n)
    OBVIOUS
  <2>2. new.receipt = proof(n) /\ new.nonce = batch[b].nonce
    <3> HIDE DEF proof
    <3> QED
      BY <1>0, <2>1 DEF BatchRecords
  <2>3. batch'[b] = new /\ \A d \in Batches \ {b} : batch'[d] = batch[d]
    BY <1>2, <1>14, <2>1
  <2>4. Canonical(proof(n))
    BY <1>2, <1>4, OnChain
  <2>5. Spent(b)
    <3>1. IsFinal(n)
      BY <1>2, <1>10, <1>14, ReadFinal
    <3>2. Transaction(b).charge = b /\ Transaction(b).nonce = batch[b].nonce
      BY DEF Transaction
    <3> QED
      BY <1>4, <3>1, <3>2 DEF Spent
  <2> HIDE DEF proof
  <2>6. RowGoesOn(b)
    BY <1>2, <2>2, <2>3, <2>4, <2>5 DEF RowGoesOn
  <2> QED
    BY <1>1, <1>2, <1>7, <1>12, <1>14, <2>3, <2>6, OneRowFinal
<1> QED
  BY <1>6, <1>8, <1>9, <1>11, <1>13, <1>14

\* Work on the same batch goes on.
LEMMA SameWorkFinal ==
  ASSUME FinalInv, ChainSame, mempool' = mempool, sent' = sent, batch' = batch, click' = click,
         pass.pc # "idle", pass'.pc # "sign", pass'.head = pass.head,
         pass'.seen[PassFinalized] = pass.seen[PassFinalized]
  PROVE  Finality' /\ SettledStays
<1>1. \A b \in Batches : RowGoesOn(b)
  BY SameRow
<1>2. \A c \in Clicks : ClickGoesOn(c)
  BY SameClick
<1>3. PassGoesOn
  BY DEF PassGoesOn
<1> QED
  BY <1>1, <1>2, <1>3, ProgramStep

LEMMA ResolveUnseenFinal ==
  ASSUME FinalInv, NEW indexed, ResolveUnseen(indexed)
  PROVE  Finality' /\ SettledStays
<1>1. /\ pass.pc \in SignedSteps /\ pass.pc # "idle" /\ ChainSame /\ mempool' = mempool
      /\ sent' = sent
  BY DEF ResolveUnseen, SignedSteps, chainVars, ChainSame
<1>2. TableInv /\ NodeShape /\ PassFields(pass) /\ Reading(pass)
  BY <1>1, WorkingPass DEF FinalInv
<1> DEFINE ns == EvidenceRead(ClicksOf(pass.batch))
<1>3. PICK p : p = [pass EXCEPT !.seen = Seen(ns)]
  OBVIOUS
<1>4. \/ SettleIndexed(pass.batch, indexed)
      \/ \E error : Reconciling(pass.batch, error)
                    /\ (pass' = Returned(pass, TRUE) \/ pass' = Threw(pass, error))
      \/ \E error : Reconciling(pass.batch, error)
                    /\ (pass' = Returned(p, TRUE) \/ pass' = Threw(p, error))
      \/ pass' = [p EXCEPT !.pc = "broadcast"] /\ batch' = batch /\ click' = click
  BY <1>3 DEF ResolveUnseen
<1>5. ns \in SUBSET (0..PassFinalized)
  BY DEF EvidenceRead
<1> HIDE DEF ns
<1>6. /\ PassFields(p) /\ p.head = pass.head
      /\ p.seen[PassFinalized] = pass.seen[PassFinalized]
  BY <1>2, <1>3, <1>5, ReadPass
<1>7. CASE SettleIndexed(pass.batch, indexed)
  BY <1>1, <1>7, SettleIndexedFinal
<1>8. ASSUME NEW error, Reconciling(pass.batch, error),
             pass' = Returned(pass, TRUE) \/ pass' = Threw(pass, error)
      PROVE  Finality' /\ SettledStays
  BY <1>1, <1>2, <1>8, ReconcilingFinal
<1>9. ASSUME NEW error, Reconciling(pass.batch, error),
             pass' = Returned(p, TRUE) \/ pass' = Threw(p, error)
      PROVE  Finality' /\ SettledStays
  BY <1>1, <1>6, <1>9, ReconcilingFinal
<1>10. CASE pass' = [p EXCEPT !.pc = "broadcast"] /\ batch' = batch /\ click' = click
  <2>1. pass'.pc # "sign" /\ pass'.head = pass.head /\ pass'.seen = p.seen
    BY <1>6, <1>10 DEF PassFields, IdlePass
  <2> QED
    BY <1>1, <1>6, <1>10, <2>1, SameWorkFinal
<1> QED
  BY <1>4, <1>7, <1>8, <1>9, <1>10

LEMMA RecordBroadcastFinal ==
  ASSUME FinalInv, RecordBroadcast
  PROVE  Finality' /\ SettledStays
<1>1. /\ pass.pc \in SignedSteps /\ ChainSame /\ mempool' = mempool /\ sent' = sent
      /\ click' = click
  BY DEF RecordBroadcast, SignedSteps, chainVars, ChainSame
<1>2. PassFields(pass)
  BY <1>1, WorkingPass DEF FinalInv
<1>3. PICK b \in Batches : b = pass.batch /\ batch[b] \in BatchRecords
  BY <1>1, SignedOpen DEF FinalInv, BooksInv
<1>4. PICK p : p = [pass EXCEPT !.reply = "none"]
  OBVIOUS
<1>5. PassFields(p) /\ p.head = pass.head /\ p.seen = pass.seen
  BY <1>2, <1>4 DEF PassFields, IdlePass
<1>6. PICK status \in InFlight :
        batch' = [batch EXCEPT ![b] = [batch[b] EXCEPT !.status = status, !.error = "other"]]
  BY <1>3 DEF RecordBroadcast, InFlight
<1>7. PICK row : row = [batch[b] EXCEPT !.status = status, !.error = "other"]
  OBVIOUS
<1>8. row.status \in InFlight /\ row.receipt = batch[b].receipt /\ row.nonce = batch[b].nonce
  BY <1>3, <1>7 DEF BatchRecords
<1>9. pass' = Threw(p, "other") \/ pass' = Returned(p, TRUE)
  BY <1>4 DEF RecordBroadcast
<1> QED
  BY <1>1, <1>3, <1>5, <1>6, <1>7, <1>8, <1>9, InFlightFinal

\* Rows only change in what finality does not read.
LEMMA KeptRowsFinal ==
  ASSUME FinalInv, ChainSame, mempool' = mempool, sent' = sent, click' = click,
         pass.pc # "idle", \A b \in Batches : KeepRow(b),
         NEW p, PassFields(p), p.head = pass.head,
         p.seen[PassFinalized] = pass.seen[PassFinalized],
         \/ \E w : pass' = Returned(p, w)
         \/ \E error : pass' = Threw(p, error)
  PROVE  Finality' /\ SettledStays
<1>1. PassGoesOn
  BY BackGoesOn
<1>2. \A b \in Batches : RowGoesOn(b)
  BY DEF KeepRow, RowGoesOn
<1>3. \A c \in Clicks : ClickGoesOn(c)
  BY SameClick
<1> QED
  BY <1>1, <1>2, <1>3, ProgramStep

LEMMA RpcFailsFinal ==
  ASSUME FinalInv, NEW noted \in BOOLEAN, RpcFails(noted)
  PROVE  Finality' /\ SettledStays
<1>1. /\ ChainSame /\ mempool' = mempool /\ sent' = sent /\ click' = click /\ pass.pc # "idle"
  BY DEF RpcFails, chainVars, ChainSame
<1>2. TableInv /\ PassFields(pass) /\ batch \in [Batches -> BatchRecords]
  BY DEF FinalInv, BooksInv, TableInv, Tables, PassTypes, RowTypes
<1>3. PICK p : p = [pass EXCEPT !.outage = TRUE]
  OBVIOUS
<1>4. PassFields(p) /\ p.head = pass.head /\ p.seen = pass.seen
  BY <1>2, <1>3 DEF PassFields, IdlePass
<1>5. pass' = Threw(p, "other")
  BY <1>3 DEF RpcFails
<1>6. CASE noted
  <2>0. /\ pass.pc \in SignedSteps
        /\ batch' = [batch EXCEPT ![pass.batch] =
                       [@ EXCEPT !.status = "RECONCILING", !.error = "other"]]
    BY <1>6 DEF RpcFails, SignedSteps
  <2>1. PICK b \in Batches : b = pass.batch /\ batch[b] \in BatchRecords
    BY <1>2, <2>0, SignedOpen
  <2>2. PICK row : row = [batch[b] EXCEPT !.status = "RECONCILING", !.error = "other"]
    OBVIOUS
  <2>3. batch' = [batch EXCEPT ![b] = row]
    BY <2>0, <2>1, <2>2
  <2>4. row.status \in InFlight /\ row.receipt = batch[b].receipt /\ row.nonce = batch[b].nonce
    BY <2>1, <2>2 DEF BatchRecords, InFlight
  <2> QED
    BY <1>1, <1>4, <1>5, <2>0, <2>1, <2>3, <2>4, InFlightFinal
<1>7. CASE ~noted
  <2>1. batch' = batch \/ batch' = [batch EXCEPT ![pass.batch].error = "other"]
    BY <1>7 DEF RpcFails
  <2>2. \A b \in Batches : KeepRow(b)
    BY <1>2, <2>1 DEF KeepRow, BatchRecords
  <2> QED
    BY <1>1, <1>4, <1>5, <2>2, KeptRowsFinal
<1> QED
  BY <1>6, <1>7
-----------------------------------------------------------------------------
(* The steps that prepare a batch.                                         *)

LEMMA FailedFinal ==
  ASSUME FinalInv, ChainSame, mempool' = mempool, pass.pc \in PrepareSteps,
         NEW b \in Batches, NEW x, Failed(b, x),
         NEW p, PassFields(p), p.head = pass.head,
         p.seen[PassFinalized] = pass.seen[PassFinalized],
         NEW error, pass' = Threw(p, error)
  PROVE  Finality' /\ SettledStays
<1>1. batch \in [Batches -> BatchRecords] /\ pass.pc # "idle"
  BY DEF FinalInv, BooksInv, TableInv, Tables, RowTypes, PrepareSteps
<1>2. batch' = [batch EXCEPT ![b].error = Stored(x)] /\ sent' = sent /\ click' = click
  BY DEF Failed
<1>3. \A d \in Batches : KeepRow(d)
  BY <1>1, <1>2 DEF KeepRow, BatchRecords
<1> QED
  BY <1>1, <1>2, <1>3, KeptRowsFinal

\* A position that is gone in a final block writes the batch off.
LEMMA WriteOffFinal ==
  ASSUME FinalInv, ChainSame, mempool' = mempool, pass.pc \in PrepareSteps,
         NEW b \in Batches, b = pass.batch, WriteOff(b), PassFields(pass),
         NEW p, PassFields(p), p.head = pass.head,
         p.seen[PassFinalized] = pass.seen[PassFinalized],
         NEW w, pass' = Returned(p, w)
  PROVE  Finality' /\ SettledStays
<1> DEFINE proof == [n |-> PassFinalized, hash |-> Hash(PassFinalized)]
           row == [batch[b] EXCEPT !.status = "UNCOLLECTABLE", !.charged = 0, !.error = "other",
                                   !.receipt = proof]
<1>1. /\ NodeShape /\ pass.pc # "idle" /\ TableInv
      /\ batch \in [Batches -> BatchRecords] /\ click \in [Clicks -> ClickRecords]
  BY DEF FinalInv, BooksInv, TableInv, Tables, RowTypes, PrepareSteps
<1>2. batch[b].status \notin Terminal \cup InFlight
  BY <1>1, PreparedOpen DEF Preparable, Terminal, InFlight
<1>3. PassFinalized \in 0..Height
  BY <1>1, PassFinalizedBound
<1>4. Canonical(proof)
  <2>1. Hash(PassFinalized) = BlockHash(PassFinalized)
    BY <1>1, <1>3, TrueHash
  <2> QED
    BY <1>1, <1>3, <2>1, OnChain
<1> HIDE DEF proof
<1>5. batch' = [batch EXCEPT ![b] = row] /\ sent' = sent
  BY DEF WriteOff, proof
<1>6. row.receipt = proof /\ row.nonce = batch[b].nonce
  BY <1>1 DEF BatchRecords
<1> HIDE DEF row
<1>7. batch'[b] = row /\ \A d \in Batches \ {b} : batch'[d] = batch[d]
  BY <1>1, <1>5
<1>8. RowGoesOn(b)
  BY <1>2, <1>4, <1>6, <1>7 DEF RowGoesOn
<1>9. ASSUME NEW c \in Clicks
      PROVE  ClickGoesOn(c)
  <2>1. click'[c] = click[c] \/ click'[c] = [click[c] EXCEPT !.status = "UNCOLLECTABLE"]
    BY DEF WriteOff
  <2>2. /\ click'[c].batch = click[c].batch /\ click'[c].bid = click[c].bid
        /\ click'[c].price = click[c].price
    BY <1>1, <2>1 DEF ClickRecords
  <2> QED
    BY <2>2, SameClick
<1> QED
  BY <1>1, <1>5, <1>7, <1>8, <1>9, OneRowFinal

\* Evidence the checks let pass is on the chain for good.
LEMMA CheckedProven ==
  ASSUME FinalInv, pass.pc # "idle", NEW b \in Batches, CaptureErrors(b) = {}
  PROVE  Proven(b)
<1>1. /\ NodeShape /\ PassFields(pass) /\ PricesKnown
      /\ \A c \in Clicks : ClickBooks(c)
  BY DEF FinalInv, Finality, BooksInv, Books, TableInv, Tables, PassTypes
<1> SUFFICES ASSUME NEW c \in ClicksOf(b), NEW e \in Evidence(c)
             PROVE  IsFinal(e.n) /\ Canonical(e)
  BY DEF Proven
<1>2. c \in Clicks /\ click[c].batch # 0
  BY DEF ClicksOf, Batches
<1>3. e.n \in 0..Height
  <2>1. click[c].bid # NoBlock /\ click[c].bid.n \in 0..Height
    BY <1>1, <1>2 DEF ClickBooks
  <2>2. click[c].price # NoBlock => click[c].price.n \in 0..Height
    BY <1>1, <1>2 DEF PricesKnown
  <2> QED
    BY <2>1, <2>2 DEF Evidence
<1>4. e \in UNION {Evidence(d) : d \in ClicksOf(b)}
  OBVIOUS
<1>5. ~(e.n > PassFinalized) /\ ~Orphaned(e)
  BY <1>4 DEF CaptureErrors
<1>6. PassFinalized \in 0..Height /\ Height \in Nat
  BY <1>1, PassFinalizedBound, NodeFacts
<1> HIDE DEF PassFinalized, Height
<1>7. e.n \in 0..PassFinalized
  BY <1>3, <1>5, <1>6
<1>8. Hash(e.n) = e.hash
  BY <1>5, <1>7, <1>6 DEF Orphaned
<1>9. BlockHash(e.n) = e.hash
  BY <1>3, <1>8, TrueHash
<1>10. e.n <= Height
  BY <1>3, <1>6
<1> QED
  BY <1>1, <1>7, <1>9, <1>10, ReadFinal DEF Canonical

LEMMA CheckBatchFinal ==
  ASSUME FinalInv, CheckBatch
  PROVE  Finality' /\ SettledStays
<1>1. /\ pass.pc \in PrepareSteps /\ pass.pc # "idle" /\ ChainSame /\ mempool' = mempool
  BY DEF CheckBatch, PrepareSteps, chainVars, ChainSame
<1>2. TableInv /\ NodeShape /\ PassFields(pass) /\ Reading(pass)
  BY <1>1, WorkingPass DEF FinalInv
<1>3. PICK b \in Batches : b = pass.batch
  BY <1>1, <1>2, PreparedOpen
<1>4. PICK p : p = [pass EXCEPT !.seen = Seen(EvidenceRead(ClicksOf(b)))]
  OBVIOUS
<1>5. /\ PassFields(p) /\ p.head = pass.head
      /\ p.seen[PassFinalized] = pass.seen[PassFinalized] /\ p.batch = pass.batch
  <2>1. EvidenceRead(ClicksOf(b)) \in SUBSET (0..PassFinalized)
    BY DEF EvidenceRead
  <2> QED
    BY <1>2, <1>4, <2>1, ReadPass
<1>6. \/ \E error : Failed(b, error) /\ pass' = Threw(p, error)
      \/ WriteOff(b) /\ pass' = Returned(p, FALSE)
      \/ /\ CaptureErrors(b) = {} /\ pass' = [p EXCEPT !.pc = "sign"]
         /\ UNCHANGED <<click, batch, sent>>
  BY <1>3, <1>4 DEF CheckBatch
<1>7. ASSUME NEW error, Failed(b, error), pass' = Threw(p, error)
      PROVE  Finality' /\ SettledStays
  BY <1>1, <1>5, <1>7, FailedFinal
<1>8. CASE WriteOff(b) /\ pass' = Returned(p, FALSE)
  BY <1>1, <1>2, <1>3, <1>5, <1>8, WriteOffFinal
<1>9. CASE /\ CaptureErrors(b) = {} /\ pass' = [p EXCEPT !.pc = "sign"]
           /\ UNCHANGED <<click, batch, sent>>
  <2>1. pass'.head = pass.head /\ pass'.seen = p.seen /\ pass'.batch = b
    BY <1>3, <1>5, <1>9 DEF PassFields, IdlePass
  <2>2. Proven(b)
    BY <1>1, <1>9, CheckedProven
  <2>3. pass'.seen[PassFinalized] = pass.seen[PassFinalized]
    BY <1>5, <2>1
  <2>4. PassGoesOn
    <3>1. pass'.batch \in Batches /\ \A c \in Clicks : click'[c].batch = click[c].batch
      BY <1>9, <2>1
    <3>2. PICK d : d = pass'.batch
      OBVIOUS
    <3>3. Proven(d)
      BY <2>1, <2>2, <3>2
    <3> QED
      BY <1>1, <2>1, <2>3, <3>1, <3>2, <3>3 DEF PassGoesOn
  <2>5. \A d \in Batches : RowGoesOn(d)
    BY <1>9, SameRow
  <2>6. \A c \in Clicks : ClickGoesOn(c)
    BY <1>9, SameClick
  <2> QED
    BY <1>1, <1>9, <2>4, <2>5, <2>6, ProgramStep
<1> QED
  BY <1>6, <1>7, <1>8, <1>9

LEMMA ReserveRunFinal ==
  ASSUME FinalInv, ReserveRun
  PROVE  Finality' /\ SettledStays
<1>1. PICK r : r = Min(pass.runs)
  OBVIOUS
<1>2. r \in Runs
  BY <1>1, MinRun DEF FinalInv, BooksInv, TableInv, Tables, PassTypes, PassFields, ReserveRun
<1>3. RowTypes /\ LinkShape /\ PassFields(pass)
  BY DEF FinalInv, BooksInv, TableInv, Tables, LinkShape, PassTypes
<1>4. PICK k \in 0..NClicks : {b \in Batches : batch[b].status # "none"} = 1..k
  BY <1>3 DEF LinkShape, BatchOrder
<1>5. ChainSame /\ mempool' = mempool /\ sent' = sent /\ pass.pc # "idle"
  BY DEF ReserveRun, chainVars, ChainSame
<1>6. /\ \A b \in Batches :
           \/ batch'[b] = batch[b]
           \/ batch[b].status \in Preparable /\ batch'[b] = MovedTo(b, r)
           \/ \E g \in Reservable(r) : batch[b].status = "none" /\ batch'[b] = Fresh(b, g, r)
      /\ \A g \in Reservable(r) : /\ NewBatch(g, r) \in Batches
                                  /\ batch[NewBatch(g, r)].status = "none"
      /\ \A c \in Clicks :
           \/ click'[c] = click[c]
           \/ \E g \in Reservable(r) : c \in g /\ click'[c] = Bound(c, g, r)
  BY <1>1, <1>3, <1>4, ReservedRows
<1>7. ASSUME NEW b \in Batches
      PROVE  RowGoesOn(b)
  <2>1. CASE batch'[b] = batch[b]
    BY <2>1, SameRow
  <2>2. CASE batch[b].status \in Preparable /\ batch'[b] = MovedTo(b, r)
    <3>1. batch'[b].nonce = batch[b].nonce /\ batch'[b].receipt = batch[b].receipt
      BY <1>2, <1>3, <2>2, MovedRow
    <3>2. batch[b].status \notin Terminal \cup InFlight
      BY <2>2 DEF Preparable, Terminal, InFlight
    <3> QED
      BY <3>1, <3>2 DEF RowGoesOn
  <2>3. ASSUME NEW g \in Reservable(r), batch[b].status = "none", batch'[b] = Fresh(b, g, r)
        PROVE  RowGoesOn(b)
    <3>1. g \in SUBSET Clicks /\ Min(g) \in Clicks
      BY <1>3, ReservedGroups
    <3>2. \A f \in {"nonce", "attempts", "receipt", "error", "deferred"} :
            Fresh(b, g, r)[f] = batch[b][f]
      BY <1>2, <1>3, <3>1, FreshRow
    <3>3. /\ Fresh(b, g, r)["nonce"] = batch[b]["nonce"]
          /\ Fresh(b, g, r)["receipt"] = batch[b]["receipt"]
      BY <3>2
    <3>4. batch'[b].nonce = batch[b].nonce /\ batch'[b].receipt = batch[b].receipt
      BY <2>3, <3>3
    <3>5. batch[b].status \notin Terminal \cup InFlight
      BY <2>3 DEF Terminal, InFlight
    <3> QED
      BY <3>4, <3>5 DEF RowGoesOn
  <2> QED
    BY <1>6, <2>1, <2>2, <2>3
<1>8. ASSUME NEW c \in Clicks
      PROVE  ClickGoesOn(c)
  <2>1. CASE click'[c] = click[c]
    BY <2>1, SameClick
  <2>2. ASSUME NEW g \in Reservable(r), c \in g, click'[c] = Bound(c, g, r)
        PROVE  ClickGoesOn(c)
    <3>1. PICK b \in Batches : b = NewBatch(g, r)
      BY <1>6
    <3>2. /\ Bound(c, g, r).batch = b
          /\ \A f \in {"stake", "version", "bid", "price", "aged"} :
                Bound(c, g, r)[f] = click[c][f]
      BY <1>3, <3>1, BoundClick
    <3>3. Bound(c, g, r)["bid"] = click[c]["bid"] /\ Bound(c, g, r)["price"] = click[c]["price"]
      BY <3>2
    <3>4. click'[c].batch = b /\ click'[c].bid = click[c].bid /\ click'[c].price = click[c].price
      BY <2>2, <3>2, <3>3
    <3>5. ~Signed(b) /\ b # 0
      BY <1>3, <1>6, <3>1 DEF LinkShape, Batches
    <3> QED
      BY <3>4, <3>5 DEF ClickGoesOn
  <2> QED
    BY <1>6, <2>1, <2>2
<1>9. PICK todo : pass' = AfterRefresh([pass EXCEPT !.run = r, !.runs = @ \ {r},
                                            !.refresh = Takes(r), !.todo = todo])
  BY <1>1 DEF ReserveRun
<1>10. PICK p : p = [pass EXCEPT !.run = r, !.runs = @ \ {r}, !.refresh = Takes(r), !.todo = todo]
  OBVIOUS
<1>11. DOMAIN p = DOMAIN IdlePass /\ p.head = pass.head /\ p.seen = pass.seen
  BY <1>3, <1>10 DEF PassFields, IdlePass
<1>12. pass'.head = pass.head /\ pass'.seen = pass.seen /\ pass'.pc # "sign"
  BY <1>9, <1>10, <1>11, AfterRefreshFields
<1>13. PassGoesOn
  BY <1>5, <1>12 DEF PassGoesOn
<1> QED
  BY <1>5, <1>7, <1>8, <1>13, ProgramStep
-----------------------------------------------------------------------------
(* The steps that send and sign.                                           *)

\* A signed batch whose transaction the account has still to execute is in flight: what
\* failed is executed in the block that proves it.
LEMMA FreshInFlight ==
  ASSUME FinalInv, NEW b \in Batches, Signed(b), batch[b].status \notin Terminal,
         batch[b].nonce >= AccountNonce
  PROVE  batch[b].status \in InFlight
<1>1. /\ NodeShape /\ LinkShape /\ RowBooks(b) /\ ReceiptsStand /\ RowTypes /\ ReceiptBlocks
  BY DEF FinalInv, Finality, BooksInv, Books, TableInv, Tables
<1>2. batch[b].status # "FAILED"
  <2> SUFFICES ASSUME batch[b].status = "FAILED"
               PROVE  FALSE
    OBVIOUS
  <2>1. batch[b].receipt # NoBlock /\ Canonical(batch[b].receipt)
    BY <1>1 DEF RowBooks, ReceiptsStand
  <2>2. PICK n : n = batch[b].receipt.n
    OBVIOUS
  <2>3. Block(n).tx = Transaction(b) /\ n \in 0..Height
    BY <1>1, <2>1, <2>2 DEF RowBooks, Proves, ReceiptBlocks
  <2>4. Transaction(b) \in Transactions
    BY <1>1 DEF FinalInv, BooksInv, TableInv, Tables, SentShape, NodeShape
  <2>5. Transaction(b).nonce = batch[b].nonce /\ Transaction(b) # NoTx
    BY <2>4, ChargeAssumption DEF Transactions, Transaction
  <2>6. n \in Mined
    BY <2>3, <2>5 DEF Mined
  <2>7. batch[b].nonce \in Nat /\ batch[b].nonce < AccountNonce /\ AccountNonce \in Nat
    BY <1>1, <2>3, <2>5, <2>6, ExecutedNonce, NodeFacts
  <2> HIDE DEF AccountNonce
  <2> QED
    BY <2>7
<1>3. batch[b].status \notin {"none", "PREPARED"}
  BY <1>1 DEF LinkShape
<1>4. batch[b] \in BatchRecords
  BY <1>1 DEF RowTypes
<1> QED
  BY <1>2, <1>3, <1>4 DEF BatchRecords, InFlight, Terminal

LEMMA BroadcastFinal ==
  ASSUME FinalInv, NEW accepted, NEW reply, Broadcast(accepted, reply)
  PROVE  Finality' /\ SettledStays
<1>1. /\ pass.pc \in SignedSteps /\ pass.pc # "idle" /\ ChainSame /\ sent' = sent
      /\ click' = click /\ batch' = batch
  BY DEF Broadcast, SignedSteps, ChainSame, dbVars
<1>2. TableInv /\ NodeShape /\ SentShape /\ PassFields(pass)
  BY <1>1, WorkingPass DEF FinalInv, TableInv, Tables
<1>3. PICK outage : pass' = [pass EXCEPT !.pc = "record", !.reply = reply, !.outage = outage]
  BY DEF Broadcast
<1>4. pass'.pc = "record" /\ pass'.head = pass.head /\ pass'.seen = pass.seen
  BY <1>2, <1>3 DEF PassFields, IdlePass
<1>5. PICK b \in Batches : b = pass.batch /\ Signed(b) /\ batch[b].status \notin Terminal
  BY <1>1, <1>2, SignedBatch DEF TableInv, Tables, PassTypes
<1>6. PICK tx \in sent : tx = Transaction(b)
  BY <1>2, <1>5 DEF SentShape
<1>7. tx.charge = b /\ tx.nonce = batch[b].nonce
  BY <1>6 DEF Transaction
<1>8. \/ mempool' = mempool
      \/ mempool' = mempool \cup {tx} /\ tx.nonce >= AccountNonce
  BY <1>5, <1>6 DEF Broadcast
<1>9. CASE mempool' = mempool
  BY <1>1, <1>4, <1>9, SameWorkFinal
<1>10. CASE mempool' = mempool \cup {tx} /\ tx.nonce >= AccountNonce
  <2>1. \A d \in Batches : RowGoesOn(d)
    BY <1>1, SameRow
  <2>2. \A c \in Clicks : ClickGoesOn(c)
    BY <1>1, SameClick
  <2>3. PassGoesOn
    BY <1>1, <1>4 DEF PassGoesOn
  <2>4. PoolAhead'
    BY <1>1, <1>10, SameFinal DEF PoolAhead, FinalInv, Finality
  <2>5. LiveJournaled'
    <3> SUFFICES ASSUME NEW t \in sent, Live(t)'
                 PROVE  batch[t.charge].nonce = t.nonce /\ batch[t.charge].status \in InFlight
      BY <1>1 DEF LiveJournaled
    <3>1. Live(t) \/ t = tx
      BY <1>1, <1>10, SameFinal, SameBlocks DEF Live
    <3>2. CASE Live(t)
      BY <3>2 DEF FinalInv, Finality, LiveJournaled
    <3>3. CASE t = tx
      BY <1>5, <1>7, <1>10, <3>3, FreshInFlight
    <3> QED
      BY <3>1, <3>2, <3>3
  <2> QED
    BY <1>1, <2>1, <2>2, <2>3, <2>4, <2>5, ProgramKeeps DEF Finality
<1> QED
  BY <1>8, <1>9, <1>10

\* A batch is signed again only when no bytes of it may still be executed.
LEMMA SignedFinal ==
  ASSUME FinalInv, ChainSame, mempool' = mempool, click' = click, pass.pc = "sign",
         NEW b \in Batches, b = pass.batch, NEW row, batch' = [batch EXCEPT ![b] = row],
         row.status = "SIGNED", row.nonce = PendingNonce, row.receipt = NoBlock,
         NEW tx, sent' = sent \cup {tx}, tx.charge = b, tx.nonce = PendingNonce,
         pass'.pc = "receipt", pass'.head = pass.head, pass'.seen = pass.seen
  PROVE  Finality' /\ SettledStays
<1>1. /\ NodeShape /\ SentShape /\ TableInv /\ RowTypes /\ LinkShape /\ ReceiptsStand
      /\ ReceiptBlocks /\ RowBooks(b) /\ BooksInv
  BY DEF FinalInv, Finality, BooksInv, Books, TableInv, Tables
<1>2. batch[b].status \in Preparable /\ batch[b].status \notin Terminal \cup InFlight
  <2>1. batch[b].status \in Preparable
    BY <1>1, PreparedOpen DEF PrepareSteps
  <2> QED
    BY <2>1 DEF Preparable, Terminal, InFlight
<1>3. batch'[b] = row /\ \A d \in Batches \ {b} : batch'[d] = batch[d]
  BY <1>1 DEF RowTypes
<1>4. \A t \in sent : t.charge \in Batches /\ t.nonce \in Nat
  BY <1>1 DEF NodeShape, Transactions
<1>5. PendingNonce \in Nat
  BY <1>1, PendingNonceBound DEF TableInv, JournalInv
<1>6. Signed(b) => batch[b].status = "FAILED"
  BY <1>1, <1>2 DEF LinkShape, Preparable
<1>7. ForkKept'
  <2>1. AtFork(pass)
    BY DEF FinalInv, Finality, ForkKept
  <2> QED
    BY <2>1, SameBlocks DEF ForkKept, AtFork
<1>8. ReceiptsStand'
  <2> SUFFICES ASSUME NEW d \in Batches, batch'[d].receipt # NoBlock
               PROVE  Canonical(batch[d].receipt)'
    BY DEF ReceiptsStand
  <2>1. d # b /\ batch'[d] = batch[d]
    BY <1>3
  <2>2. PICK e : e = batch[d].receipt /\ e = batch'[d].receipt
    BY <2>1
  <2>3. Canonical(e)'
    BY <1>1, <2>2, SameBlocks DEF ReceiptsStand
  <2> QED
    BY <2>2, <2>3 DEF Canonical
<1>9. PoolAhead'
  BY SameFinal DEF PoolAhead, FinalInv, Finality
<1>10. ASSUME NEW t \in sent, t.charge = b
       PROVE  Reverted(t)
  <2>1. t.nonce <= batch[b].nonce
    BY <1>1, <1>10 DEF SentShape
  <2>2. CASE t.nonce < batch[b].nonce
    BY <1>10, <2>2 DEF FinalInv, Finality, Superseded
  <2>3. CASE t.nonce = batch[b].nonce
    <3>1. t = Transaction(b) /\ batch[b].status = "FAILED"
      BY <1>1, <1>4, <1>6, <1>10, <2>3 DEF SentShape, Signed
    <3>2. batch[b].receipt # NoBlock /\ Canonical(batch[b].receipt)
      BY <1>1, <3>1 DEF RowBooks, ReceiptsStand
    <3>3. PICK n : n = batch[b].receipt.n
      OBVIOUS
    <3>4. Block(n).tx = t /\ Block(n).result = "reverted" /\ n \in 0..Height
      BY <1>1, <3>1, <3>2, <3>3 DEF RowBooks, Proves, ReceiptBlocks
    <3>5. t # NoTx
      BY <1>1, ChargeAssumption DEF NodeShape, Transactions
    <3>6. n \in Mined /\ IsFinal(n)
      BY <1>1, <3>2, <3>3, <3>4, <3>5, FinalReceipt DEF Mined
    <3> QED
      BY <3>4, <3>6 DEF Reverted
  <2>4. batch[b].nonce \in Nat \cup {-1}
    BY <1>1 DEF RowTypes, BatchRecords
  <2> QED
    BY <1>4, <2>1, <2>2, <2>3, <2>4
<1>11. LiveJournaled'
  <2> SUFFICES ASSUME NEW t \in sent', Live(t)'
               PROVE  batch'[t.charge].nonce = t.nonce /\ batch'[t.charge].status \in InFlight
    BY DEF LiveJournaled
  <2>1. CASE t = tx
    BY <1>3, <2>1 DEF InFlight
  <2>2. CASE t \in sent
    <3>1. Live(t)
      BY SameFinal, SameBlocks DEF Live
    <3>2. batch[t.charge].nonce = t.nonce /\ batch[t.charge].status \in InFlight
      BY <2>2, <3>1 DEF FinalInv, Finality, LiveJournaled
    <3>3. t.charge \in Batches \ {b}
      BY <1>2, <1>4, <2>2, <3>2
    <3> QED
      BY <1>3, <3>2, <3>3
  <2> QED
    BY <2>1, <2>2
<1>12. Superseded'
  <2> SUFFICES ASSUME NEW t \in sent', t.nonce < batch'[t.charge].nonce
               PROVE  Reverted(t)'
    BY DEF Superseded
  <2>1. CASE t = tx
    BY <1>3, <1>5, <2>1
  <2>2. CASE t \in sent
    <3>1. Reverted(t)
      BY <1>3, <1>4, <1>10, <2>2 DEF FinalInv, Finality, Superseded
    <3> QED
      BY <3>1, SameFinal
  <2> QED
    BY <2>1, <2>2
<1>13. ChargedProven'
  <2> SUFFICES ASSUME NEW d \in Batches, Signed(d)'
               PROVE  Proven(d)'
    BY DEF ChargedProven
  <2>1. Proven(d)
    <3>1. CASE d = b
      BY <3>1 DEF FinalInv, Finality, ChargedProven
    <3>2. CASE d # b
      <4>1. Signed(d)
        BY <1>3, <3>2 DEF Signed
      <4> QED
        BY <4>1 DEF FinalInv, Finality, ChargedProven
    <3> QED
      BY <3>1, <3>2
  <2>2. \A c \in Clicks : ClickGoesOn(c)
    BY SameClick
  <2> QED
    BY <2>1, <2>2, ProvenStays
<1>14. PricesKnown'
  BY SameBlocks DEF PricesKnown, FinalInv, Finality
<1>15. SettledStays
  BY <1>2, <1>3 DEF SettledStays
<1> QED
  BY <1>7, <1>8, <1>9, <1>11, <1>12, <1>13, <1>14, <1>15 DEF Finality

LEMMA SignBatchFinal ==
  ASSUME FinalInv, SignBatch
  PROVE  Finality' /\ SettledStays
<1>1. /\ pass.pc = "sign" /\ pass.pc \in PrepareSteps /\ ChainSame /\ mempool' = mempool
      /\ click' = click
  BY DEF SignBatch, PrepareSteps, chainVars, ChainSame
<1>2. TableInv /\ NodeShape /\ PassFields(pass) /\ batch \in [Batches -> BatchRecords]
  BY <1>1, WorkingPass DEF FinalInv, TableInv, Tables, RowTypes
<1>3. PICK b \in Batches : b = pass.batch
  BY <1>1, <1>2, PreparedOpen
<1>4. \/ \E error \in {"waiting", "other"} : Failed(b, error) /\ pass' = Threw(pass, error)
      \/ /\ batch' = [batch EXCEPT ![b] =
              [@ EXCEPT !.status = "SIGNED", !.nonce = PendingNonce,
                        !.attempts = batch[b].attempts + 1, !.error = "none",
                        !.deferred = FALSE, !.receipt = NoBlock]]
         /\ sent' = sent \cup {[Transaction(b) EXCEPT !.nonce = PendingNonce,
                                                     !.attempt = batch[b].attempts + 1]}
         /\ pass' = [pass EXCEPT !.pc = "receipt"]
  BY <1>3 DEF SignBatch
<1>5. ASSUME NEW error \in {"waiting", "other"}, Failed(b, error), pass' = Threw(pass, error)
      PROVE  Finality' /\ SettledStays
  BY <1>1, <1>2, <1>5, FailedFinal
<1>6. CASE /\ batch' = [batch EXCEPT ![b] =
                [@ EXCEPT !.status = "SIGNED", !.nonce = PendingNonce,
                          !.attempts = batch[b].attempts + 1, !.error = "none",
                          !.deferred = FALSE, !.receipt = NoBlock]]
           /\ sent' = sent \cup {[Transaction(b) EXCEPT !.nonce = PendingNonce,
                                                       !.attempt = batch[b].attempts + 1]}
           /\ pass' = [pass EXCEPT !.pc = "receipt"]
  <2>1. PICK row : row = [batch[b] EXCEPT !.status = "SIGNED", !.nonce = PendingNonce,
                            !.attempts = batch[b].attempts + 1, !.error = "none",
                            !.deferred = FALSE, !.receipt = NoBlock]
    OBVIOUS
  <2>2. batch[b] \in BatchRecords
    BY <1>2
  <2>3. row.status = "SIGNED" /\ row.nonce = PendingNonce /\ row.receipt = NoBlock
    BY <2>1, <2>2 DEF BatchRecords
  <2>4. PICK tx : tx = [Transaction(b) EXCEPT !.nonce = PendingNonce,
                                              !.attempt = batch[b].attempts + 1]
    OBVIOUS
  <2>5. tx.charge = b /\ tx.nonce = PendingNonce
    BY <2>4 DEF Transaction
  <2>6. pass'.pc = "receipt" /\ pass'.head = pass.head /\ pass'.seen = pass.seen
    BY <1>2, <1>6 DEF PassFields, IdlePass
  <2>7. batch' = [batch EXCEPT ![b] = row] /\ sent' = sent \cup {tx}
    BY <1>6, <2>1, <2>4
  <2> QED
    BY <1>1, <1>3, <2>3, <2>5, <2>6, <2>7, SignedFinal
<1> QED
  BY <1>4, <1>5, <1>6
-----------------------------------------------------------------------------
(* The chain moves, and final blocks stay.                                 *)

FinalKept == \A n : IsFinal(n) => IsFinal(n)' /\ Block(n)' = Block(n)

\* What comes to the pool was in it, or in a block that was not final.
PoolBack == \A t \in mempool' : Live(t)
PoolMoves == PoolAhead' /\ PoolBack /\ FinalKept

\* A block is mined.
LEMMA GrownFinal ==
  ASSUME NodeShape, NEW new, chain' = Append(chain, new)
  PROVE  /\ FinalKept
         /\ new.tx = NoTx => Mined' = Mined
         /\ new.tx # NoTx => AccountNonce' = AccountNonce + 1
<1>1. PICK h : h = Height + 1 /\ Height' = h /\ Block(h)' = new
  BY Appended DEF Block
<1>2. /\ Height \in Nat /\ \A n \in 0..Height : Block(n)' = Block(n)
      /\ Mined \subseteq 0..Height /\ IsFiniteSet(Mined)
  BY NodeFacts, Appended
<1>3. Finalized(Height) <= Finalized(h) /\ Finalized(Height) \in 0..Height /\ Finalized(h) \in 0..h
  <2> HIDE DEF Height, Finalized
  <2> QED
    BY <1>1, <1>2, FinalizedBound
<1>4. FinalKept
  <2> SUFFICES ASSUME NEW n, n \in 0..Finalized(Height)
               PROVE  n \in 0..Finalized(h) /\ Block(n)' = Block(n)
    BY <1>1 DEF FinalKept, IsFinal, Finalized
  <2> HIDE DEF Height, Finalized, Block
  <2> QED
    BY <1>1, <1>2, <1>3
<1>5. \A n : n \in 0..h <=> n \in 0..Height \/ n = h
  BY <1>1, <1>2
<1>6. h \notin Mined
  BY <1>1, <1>2
<1>7. \A n : n \in Mined' <=> n \in Mined \/ (n = h /\ new.tx # NoTx)
  BY <1>1, <1>2, <1>5 DEF Mined
<1>8. new.tx = NoTx => Mined' = Mined
  BY <1>7
<1>9. ASSUME new.tx # NoTx
      PROVE  AccountNonce' = AccountNonce + 1
  <2>1. Mined' = Mined \cup {h}
    BY <1>7, <1>9
  <2>2. Cardinality(Mined \cup {h}) = Cardinality(Mined) + 1
    BY <1>2, <1>6, FS_AddElement
  <2> QED
    BY <2>1, <2>2 DEF AccountNonce
<1> QED
  BY <1>4, <1>8, <1>9

LEMMA MineTransactionFinal ==
  ASSUME NodeShape, PoolAhead, NEW tx \in mempool, MineTransaction(tx)
  PROVE  PoolMoves
<1> DEFINE charged == IF Outcome(tx) = "charged" THEN Taken(tx) ELSE 0
           new == NewBlock(tx, Outcome(tx), charged,
                    [Block(Height).position EXCEPT ![tx.stake].amount = @ - charged])
<1>1. chain' = Append(chain, new) /\ tx.nonce = AccountNonce
      /\ mempool' = {t \in mempool : t.nonce # tx.nonce}
  BY DEF MineTransaction
<1>2. new.tx = tx
  BY DEF NewBlock
<1>3. tx # NoTx /\ \A t \in mempool : t.nonce \in Nat
  BY ChargeAssumption DEF NodeShape, Transactions
<1> HIDE DEF new
<1>4. FinalKept /\ AccountNonce' = AccountNonce + 1 /\ AccountNonce \in Nat
  BY <1>1, <1>2, <1>3, GrownFinal, NodeFacts
<1>5. PoolAhead'
  <2> SUFFICES ASSUME NEW t \in mempool, t.nonce # AccountNonce
               PROVE  t.nonce >= AccountNonce + 1
    BY <1>1, <1>4 DEF PoolAhead
  <2>1. t.nonce >= AccountNonce
    BY DEF PoolAhead
  <2> HIDE DEF AccountNonce
  <2> QED
    BY <1>3, <1>4, <2>1
<1>6. PoolBack
  BY <1>1 DEF PoolBack, Live
<1> QED
  BY <1>4, <1>5, <1>6 DEF PoolMoves

\* A block without a charge.
LEMMA EmptyFinal ==
  ASSUME NodeShape, PoolAhead, NEW fork, NEW position,
         chain' = Append(chain, EmptyBlock(fork, position)), mempool' = mempool
  PROVE  PoolMoves
<1>1. PICK new : new = EmptyBlock(fork, position)
  OBVIOUS
<1>2. new.tx = NoTx /\ chain' = Append(chain, new)
  BY <1>1 DEF EmptyBlock
<1>3. FinalKept /\ Mined' = Mined
  BY <1>2, GrownFinal
<1> QED
  BY <1>3 DEF PoolMoves, PoolAhead, PoolBack, Live, AccountNonce

\* Blocks are replaced, none of them final.
LEMMA ReorgFinal ==
  ASSUME NodeShape, PoolAhead, MaxDepth <= Confirmations, sent' = sent,
         NEW depth \in 1..MaxDepth, NEW again \in BOOLEAN, NEW returned \in BOOLEAN,
         Reorg(depth, again, returned)
  PROVE  PoolMoves
<1>1. /\ Height' = Height /\ \A n \in 0..Height : n <= Height - depth => Block(n)' = Block(n)
      /\ \/ mempool' = mempool /\ Mined' = Mined
         \/ /\ Mined' = {n \in Mined : n <= Height - depth}
            /\ \A t \in mempool' : \/ t \in mempool
                                   \/ \E n \in Mined : n > Height - depth /\ Block(n).tx = t
  BY ReorgNode
<1>2. /\ Height \in Nat /\ Mined \subseteq 0..Height /\ IsFiniteSet(Mined) /\ AccountNonce \in Nat
      /\ depth \in Nat /\ depth <= Height /\ depth <= Confirmations /\ Confirmations \in Nat
  BY NodeFacts, ChainAssumption DEF Reorg
<1>3. Finalized(Height) <= Height - depth /\ Finalized(Height) \in 0..Height
  BY <1>2 DEF Finalized
<1>4. \A n : IsFinal(n)' <=> IsFinal(n)
  BY <1>1 DEF IsFinal, Finalized
<1>5. \A n \in 0..Height : IsFinal(n) <=> n <= Finalized(Height)
  <2> HIDE DEF Height, Finalized
  <2> QED
    BY <1>2, <1>3 DEF IsFinal
<1>6. \A n : IsFinal(n) => n \in 0..Height
  <2> HIDE DEF Height, Finalized
  <2> QED
    BY <1>2, <1>3 DEF IsFinal
<1>7. FinalKept
  <2> SUFFICES ASSUME NEW n \in 0..Height, n <= Finalized(Height)
               PROVE  Block(n)' = Block(n)
    BY <1>4, <1>5, <1>6 DEF FinalKept
  <2>1. n <= Height - depth
    <3> HIDE DEF Height, Finalized
    <3> QED
      BY <1>2, <1>3
  <2> QED
    BY <1>1, <2>1
<1>8. \A n \in Mined : n > Height - depth => ~IsFinal(n)
  <2> SUFFICES ASSUME NEW n \in 0..Height, n > Height - depth
               PROVE  ~(n <= Finalized(Height))
    BY <1>2, <1>5
  <2> HIDE DEF Height, Finalized
  <2> QED
    BY <1>2, <1>3
<1>9. PoolBack
  BY <1>1, <1>8 DEF PoolBack, Live
<1>10. PoolAhead'
  <2>1. CASE mempool' = mempool /\ Mined' = Mined
    BY <2>1 DEF PoolAhead, AccountNonce
  <2>2. CASE /\ Mined' = {n \in Mined : n <= Height - depth}
             /\ \A t \in mempool' : \/ t \in mempool
                                    \/ \E n \in Mined : n > Height - depth /\ Block(n).tx = t
    <3> SUFFICES ASSUME NEW t \in mempool'
                 PROVE  t.nonce >= AccountNonce'
      BY DEF PoolAhead
    <3>1. IsFiniteSet(Mined') /\ Cardinality(Mined') <= Cardinality(Mined)
          /\ Cardinality(Mined') \in Nat
      <4>1. Mined' \subseteq Mined
        BY <2>2
      <4> QED
        BY <1>2, <4>1, FS_Subset, FS_CardinalityType
    <3>2. CASE t \in mempool
      <4>1. t.nonce \in Nat /\ t.nonce >= Cardinality(Mined)
        BY <3>2 DEF PoolAhead, AccountNonce, NodeShape, Transactions
      <4>2. Cardinality(Mined) \in Nat
        BY <1>2 DEF AccountNonce
      <4>3. t.nonce >= Cardinality(Mined')
        BY <3>1, <4>1, <4>2
      <4> QED
        BY <4>3 DEF AccountNonce
    <3>3. ASSUME NEW n \in Mined, n > Height - depth, Block(n).tx = t
          PROVE  t.nonce >= AccountNonce'
      <4>1. Mined' \subseteq Earlier(n)
        <5> SUFFICES ASSUME NEW m \in Mined, m <= Height - depth
                     PROVE  m < n
          BY <2>2 DEF Earlier
        <5>1. m \in Nat /\ n \in Nat
          BY <1>2
        <5> HIDE DEF Height, Mined
        <5> QED
          BY <1>2, <3>3, <5>1
      <4>2. IsFiniteSet(Earlier(n))
        BY <1>2, FS_Subset DEF Earlier
      <4>3. Cardinality(Mined') <= Cardinality(Earlier(n)) /\ Cardinality(Earlier(n)) \in Nat
        BY <4>1, <4>2, FS_Subset, FS_CardinalityType
      <4>4. t.nonce = Cardinality(Earlier(n))
        BY <3>3 DEF NodeShape, NonceOrder
      <4>5. t.nonce >= Cardinality(Mined')
        BY <3>1, <4>3, <4>4
      <4> QED
        BY <4>5 DEF AccountNonce
    <3> QED
      BY <2>2, <3>2, <3>3
  <2> QED
    BY <1>1, <2>1, <2>2
<1> QED
  BY <1>7, <1>9, <1>10 DEF PoolMoves

LEMMA ChainStepMoves ==
  ASSUME NodeShape, PoolAhead, MaxDepth <= Confirmations, ChainStep
  PROVE  PoolMoves
<1>1. sent' = sent
  BY DEF ChainStep, dbVars
<1>2. ASSUME NEW tx \in mempool, LoseTransaction(tx)
      PROVE  PoolMoves
  <2>1. chain' = chain /\ mempool' \subseteq mempool
    BY <1>2 DEF LoseTransaction
  <2>2. Height' = Height /\ Mined' = Mined /\ \A n : Block(n)' = Block(n)
    BY <2>1 DEF Height, Mined, Block
  <2> QED
    BY <2>1, <2>2
       DEF PoolMoves, PoolAhead, AccountNonce, PoolBack, Live, FinalKept, IsFinal, Finalized
<1>3. CASE MineEmpty
  BY <1>3, EmptyFinal DEF MineEmpty
<1>4. ASSUME NEW s \in Stakes, ChangeStake(s)
      PROVE  PoolMoves
  <2>1. PICK position : chain' = Append(chain, EmptyBlock(forks, position))
    BY <1>4 DEF ChangeStake
  <2>2. mempool' = mempool
    BY <1>4 DEF ChangeStake
  <2> QED
    BY <2>1, <2>2, EmptyFinal
<1> QED
  BY <1>1, <1>2, <1>3, <1>4, MineTransactionFinal, ReorgFinal DEF ChainStep
\* Evidence in a final block stays evidence.
LEMMA EvidenceKept ==
  ASSUME NodeShape, ChainMoves, FinalKept, NEW e, IsFinal(e.n), Canonical(e)
  PROVE  IsFinal(e.n)' /\ Canonical(e)'
<1>1. e.n \in 0..Height
  BY FinalBlocks
<1>2. \A n : n = e.n => IsFinal(n)' /\ Block(n)' = Block(n)
  BY DEF FinalKept
<1>3. PICK n : n = e.n
  OBVIOUS
<1>4. IsFinal(n)' /\ Block(n)' = Block(n)
  BY <1>2, <1>3
<1> QED
  BY <1>1, <1>3, <1>4, StaysCanonical

LEMMA ChainStepFinal ==
  ASSUME FinalInv, MaxDepth <= Confirmations, ChainStep
  PROVE  Finality' /\ SettledStays
<1>1. /\ batch' = batch /\ click' = click /\ sent' = sent /\ pass' = pass
  BY DEF ChainStep, dbVars
<1>2. /\ NodeShape /\ SentShape /\ PassFields(pass) /\ ReceiptBlocks /\ BooksInv /\ Finality
  BY DEF FinalInv, BooksInv, TableInv, Tables, PassTypes
<1>3. ChainMoves /\ ChainAdds /\ PoolMoves
  BY <1>2, ChainStepNode, ChainStepAdds, ChainStepMoves DEF Finality
<1>4. PoolAhead' /\ PoolBack /\ FinalKept
  BY <1>3 DEF PoolMoves
<1>5. Height \in Nat /\ Height' \in Nat /\ Height <= Height'
  BY <1>2, <1>3, NodeFacts DEF ChainMoves
<1>6. \A n : n \in 0..Height => n \in 0..Height'
  BY <1>5
<1>7. ForkKept'
  <2> SUFFICES ASSUME pass.pc # "idle"
               PROVE  AtFork(pass)'
    BY <1>1 DEF ForkKept
  <2>1. PICK n : n = PassFinalized /\ n = Finalized(pass'.head)
    BY <1>1 DEF PassFinalized, Finalized
  <2>2. IsFinal(n)
    BY <1>2, <2>1, ReadFinal
  <2>3. Block(n)' = Block(n)
    BY <1>4, <2>2 DEF FinalKept
  <2>4. Block(n).fork = pass.seen[n]
    BY <1>2, <2>1 DEF Finality, ForkKept, AtFork, PassFinalized, BlockHash
  <2> QED
    BY <1>1, <2>1, <2>3, <2>4 DEF AtFork, BlockHash
<1>8. ReceiptsStand'
  <2> SUFFICES ASSUME NEW b \in Batches, batch[b].receipt # NoBlock
               PROVE  Canonical(batch[b].receipt)'
    BY <1>1 DEF ReceiptsStand
  <2>1. PICK e : e = batch[b].receipt
    OBVIOUS
  <2>2. IsFinal(e.n) /\ Canonical(e)
    BY <1>2, <2>1, FinalReceipt DEF Finality, ReceiptsStand
  <2>3. Canonical(e)'
    BY <1>2, <1>3, <1>4, <2>2, EvidenceKept
  <2> QED
    BY <1>1, <2>1, <2>3
<1>9. LiveJournaled'
  <2> SUFFICES ASSUME NEW t \in sent, Live(t)'
               PROVE  Live(t)
    BY <1>1, <1>2 DEF Finality, LiveJournaled
  <2>1. t # NoTx
    BY <1>2, ChargeAssumption DEF NodeShape, Transactions
  <2>2. CASE t \in mempool'
    BY <1>4, <2>2 DEF PoolBack
  <2>3. ASSUME NEW n \in Mined', ~IsFinal(n)', Block(n)'.tx = t
        PROVE  Live(t)
    <3>1. n \in 0..Height'
      BY DEF Mined
    <3>2. \/ n \in 0..Height /\ Block(n).tx = t
          \/ t \in mempool
      BY <1>3, <2>1, <2>3, <3>1 DEF ChainAdds
    <3>3. ~IsFinal(n)
      BY <1>4, <2>3 DEF FinalKept
    <3> QED
      BY <2>1, <3>2, <3>3 DEF Live, Mined
  <2> QED
    BY <2>2, <2>3 DEF Live
<1>10. Superseded'
  <2> SUFFICES ASSUME NEW t \in sent, Reverted(t)
               PROVE  Reverted(t)'
    BY <1>1, <1>2 DEF Finality, Superseded
  <2>1. PICK n \in Mined : IsFinal(n) /\ Block(n).tx = t /\ Block(n).result = "reverted"
    BY DEF Reverted
  <2>2. IsFinal(n)' /\ Block(n)' = Block(n)
    BY <1>4, <2>1 DEF FinalKept
  <2>3. n \in Mined'
    BY <1>6, <2>2 DEF Mined
  <2> QED
    BY <2>1, <2>2, <2>3 DEF Reverted
<1>11. ChargedProven'
  <2> SUFFICES ASSUME NEW b \in Batches, Proven(b)
               PROVE  Proven(b)'
    BY <1>1, <1>2 DEF Finality, ChargedProven, Signed
  <2> SUFFICES ASSUME NEW c \in ClicksOf(b), NEW e \in Evidence(c)
               PROVE  IsFinal(e.n)' /\ Canonical(e)'
    BY <1>1 DEF Proven, ClicksOf, Evidence
  <2>1. IsFinal(e.n) /\ Canonical(e)
    BY DEF Proven
  <2> QED
    BY <1>2, <1>3, <1>4, <2>1, EvidenceKept
<1>12. PricesKnown'
  BY <1>1, <1>2, <1>6 DEF Finality, PricesKnown
<1>13. SettledStays
  BY <1>1 DEF SettledStays
<1> QED
  BY <1>4, <1>7, <1>8, <1>9, <1>10, <1>11, <1>12, <1>13 DEF Finality

-----------------------------------------------------------------------------
(* The theorems.                                                           *)

LEMMA FinalInit ==
  ASSUME Init
  PROVE  FinalInv
<1>1. BooksInv
  BY BooksInit
<1>2. /\ pass.pc = "idle" /\ sent = {} /\ mempool = {}
      /\ \A b \in Batches : batch[b].receipt = NoBlock /\ ~Signed(b)
      /\ \A c \in Clicks : click[c].price = NoBlock
  BY DEF Init, IdlePass, ChainInit, Signed
<1> QED
  BY <1>1, <1>2 DEF FinalInv, Finality, ForkKept, ReceiptsStand, PoolAhead, LiveJournaled,
                    Superseded, ChargedProven, PricesKnown

LEMMA FinalStep ==
  ASSUME FinalInv, MaxDepth <= Confirmations, [Next]_vars
  PROVE  FinalInv' /\ SettledStays
<1>1. BooksInv'
  BY BooksStep DEF FinalInv
<1> SUFFICES Finality' /\ SettledStays
  BY <1>1 DEF FinalInv
<1>2. CASE ChainStep
  BY <1>2, ChainStepFinal
<1>3. CASE ApiStep \/ TimeStep
  <2>1. ASSUME NEW s \in Stakes, ClaimClick(s)
        PROVE  Finality' /\ SettledStays
    BY <2>1, ClaimClickFinal
  <2>2. ASSUME NEW c \in Clicks, NEW n \in {Height, Projected(Height)}, NEW priced \in BOOLEAN,
               FinishCapture(c, n, priced)
        PROVE  Finality' /\ SettledStays
    BY <2>2, FinishCaptureFinal
  <2> QED
    BY <1>3, <2>1, <2>2, QuietApiFinal DEF ApiStep, TimeStep
<1>4. CASE Start
  BY <1>4, BeginPassFinal DEF Start
<1>5. CASE \/ ValidateAndFetch \/ ReconcileNext \/ RecordBroadcast
           \/ \E indexed \in BOOLEAN : ReadReceipt(indexed) \/ ResolveUnseen(indexed)
           \/ \E accepted \in BOOLEAN, reply \in {"accepted", "unknown", "gas"} :
                Broadcast(accepted, reply)
  BY <1>5, ValidateFinal, ReconcileNextFinal, RecordBroadcastFinal,
     ReadReceiptFinal, ResolveUnseenFinal, BroadcastFinal
<1>6. CASE ReserveRun \/ CheckBatch \/ SignBatch
  BY <1>6, ReserveRunFinal, CheckBatchFinal, SignBatchFinal
<1>7. CASE \/ ReceiptMissing \/ \E ready \in BOOLEAN : SaveCheckpoint(ready)
           \/ RefreshRun \/ PlanRuns \/ BlockRun \/ PrepareNext \/ FinishRun \/ Crash
  BY <1>7, QuietStepsFinal
<1>8. CASE \E noted \in BOOLEAN : RpcFails(noted)
  BY <1>8, RpcFailsFinal
<1>9. CASE UNCHANGED vars
  BY <1>9, QuietApiFinal
<1> QED
  BY <1>2, <1>3, <1>4, <1>5, <1>6, <1>7, <1>8, <1>9 DEF Next, PassStep

\* If no reorganization replaces more blocks than the worker waits for, what it read,
\* booked and signed stays true of the chain (the confirmation tests of
\* reconcileChargeBatch, assertBatchCapture and finalizedBlock).
THEOREM FinalityInvariant ==
  ASSUME MaxDepth <= Confirmations
  PROVE  Spec => []FinalInv
<1>1. Init => FinalInv
  BY FinalInit
<1>2. FinalInv /\ [Next]_vars => FinalInv'
  BY FinalStep
<1> QED
  BY <1>1, <1>2, PTL DEF Spec

\* A batch that is confirmed, partial or written off is never opened or charged again
\* (reconcileChargeBatch reopens terminal batches, but only when their receipt is gone).
THEOREM SettledForGood ==
  ASSUME MaxDepth <= Confirmations
  PROVE  Spec => SettlementIsFinal
<1>1. FinalInv /\ [Next]_vars =>
        [\A b \in Batches : batch[b].status \in Terminal =>
           batch'[b].status = batch[b].status /\ batch'[b].charged = batch[b].charged]_batch
  BY FinalStep DEF SettledStays
<1> QED
  BY <1>1, FinalityInvariant, PTL DEF Spec, SettlementIsFinal

\* Whatever crash, lost answer, failing call or reorganization came before, the network
\* holds no signed bytes but those the batch records, and the batch is still to be
\* reconciled: prepareBatch stores what it signs before anything is sent, and signs a
\* batch anew only after the bytes before have failed in a final block.
THEOREM PoolAlwaysJournaled ==
  ASSUME MaxDepth <= Confirmations
  PROVE  Spec => []PoolIsJournaled
<1>1. FinalInv => PoolIsJournaled
  BY DEF FinalInv, Finality, BooksInv, TableInv, Tables, NodeShape, LiveJournaled, Live,
         PoolIsJournaled
<1> QED
  BY <1>1, FinalityInvariant, PTL

\* Nobody is charged for a click whose bid or price was read from a block that was
\* reorganized away (assertBatchCapture, before signing and before every broadcast).
THEOREM OnlyProvenClicksCharged ==
  ASSUME MaxDepth <= Confirmations
  PROVE  Spec => []EvidenceBacksCharges
<1>1. FinalInv => EvidenceBacksCharges
  <2> SUFFICES ASSUME FinalInv, NEW b \in Batches,
                      Processed(b) \/ \E tx \in mempool : tx.charge = b,
                      NEW c \in ClicksOf(b), NEW e \in Evidence(c)
               PROVE  Canonical(e)
    BY DEF EvidenceBacksCharges
  <2>1. NodeShape /\ SentShape /\ RowTypes /\ ChargedProven
    BY DEF FinalInv, Finality, BooksInv, TableInv, Tables
  <2>2. PICK t \in sent : t.charge = b
    <3>1. CASE Processed(b)
      <4>1. PICK n \in Mined : Block(n).tx.charge = b
        BY <3>1 DEF Processed, ChargedIn
      <4>2. Block(n) \in BlockRecords /\ Block(n).tx # NoTx
        BY <2>1, NodeFacts DEF Mined
      <4> QED
        BY <4>1, <4>2 DEF BlockRecords
    <3>2. CASE \E tx \in mempool : tx.charge = b
      BY <2>1, <3>2 DEF NodeShape
    <3> QED
      BY <3>1, <3>2
  <2>3. t.nonce \in Nat /\ t.nonce <= batch[b].nonce
    BY <2>1, <2>2 DEF NodeShape, Transactions, SentShape
  <2>4. Signed(b)
    BY <2>3 DEF Signed
  <2> QED
    BY <2>1, <2>4 DEF ChargedProven, Proven
<1> QED
  BY <1>1, FinalityInvariant, PTL
=============================================================================
