---------------------- MODULE PricePublication_proofs ----------------------
(***************************************************************************)
(* The publication journal implements the wallet reservation for every     *)
(* number of quotes, every chain, reorganizations of every depth and any   *)
(* use of the wallet by hand, so no nonce is signed twice.  The second     *)
(* part proves what a row recorded as CONFIRMED says of the contract, the  *)
(* last that at most one publication is on its way: a row comes to rest    *)
(* only when its nonce is used up in a final block (Final).                *)
(*                                                                         *)
(* The signing step finds its row at rest only because a pass has by then  *)
(* reconciled every row in flight: PassShape says that a row in flight is  *)
(* on the list of the pass or in its hands.  A failed pass puts a row in   *)
(* flight that it remembers as being there, which is right only because    *)
(* a row that was once signed keeps its nonce (TableShape).                *)
(***************************************************************************)
EXTENDS MCPricePublication, FiniteSetTheorems, WellFoundedInduction, TLAPS

\* The wallet reservation again, with its theorems.
Journal == INSTANCE KeywordMarketWallet_proofs WITH
  Charges <- {}, Publications <- Quotes, Wallets <- {"updater"}, NoWallet <- "none",
  Nonces <- 0..MaxHeight, Attempts <- 0..(MaxHeight + 1), NonceRollback <- TRUE,
  state <- [q \in Quotes |-> IF row[q].status \in InFlight THEN "inFlight" ELSE "resting"],
  signer <- [q \in Quotes |-> IF row[q].nonce # -1 THEN "updater" ELSE "none"],
  nonce <- [q \in Quotes |-> row[q].nonce],
  attempts <- [q \in Quotes |-> row[q].attempts],
  sent <- {[row |-> t.quote, wallet |-> "updater", nonce |-> t.nonce,
            attempt |-> t.attempt] : t \in sent},
  accountNonce <- [w \in {"updater"} |-> AccountNonce]

-----------------------------------------------------------------------------
\* The chain is a sequence of blocks within its bound; the first one is empty and
\* outside the reach of every reorganization.
ChainShape ==
  /\ chain \in Seq({chain[i] : i \in DOMAIN chain})
  /\ Len(chain) >= 1 /\ Height <= MaxHeight
  /\ chain[1].tx = NoTx

Columns == {"status", "nonce", "attempts", "receipt"}
USE DEF Columns

\* The columns of the journal.  A signed row was attempted at least once, and at
\* most once for every nonce up to its own.
TableShape ==
  /\ quotes \subseteq Quotes
  /\ DOMAIN row = Quotes
  /\ \A q \in Quotes :
       /\ Columns \subseteq DOMAIN row[q]
       /\ row[q].nonce \in Nat \cup {-1}
       /\ row[q].attempts \in Nat /\ row[q].attempts <= row[q].nonce + 1
       /\ row[q].nonce # -1 => row[q].attempts >= 1
       /\ row[q].status \in InFlight => row[q].nonce # -1

ReconcileSteps == {"receipt", "resolve", "duplicate", "nonces", "consumed", "pending",
                   "broadcast", "record"}

\* While a pass runs every row in flight is on its list, or is the one it
\* reconciles; when it turns to a new quote there is none left.
PassShape ==
  /\ DOMAIN pass = DOMAIN IdlePass
  /\ pass.pc \in {"idle", "loop", "quote", "sign"} \cup ReconcileSteps
  /\ pass.todo \subseteq Quotes /\ \A q \in pass.todo : row[q].nonce # -1
  /\ pass.active # 0 /\ pass.live => pass.active \in Quotes /\ row[pass.active].nonce # -1
  /\ pass.pc \in ReconcileSteps =>
       /\ pass.active \in Quotes /\ row[pass.active].nonce # -1
       /\ pass.caller \notin {"loop", "signed"} => pass.todo = {}
       /\ \A q \in Quotes : row[q].status \in InFlight => q \in pass.todo \cup {pass.active}
  /\ pass.pc = "loop" => \A q \in Quotes : row[q].status \in InFlight => q \in pass.todo
  /\ pass.pc \in {"quote", "sign"} => \A q \in Quotes : row[q].status \notin InFlight
  /\ pass.pc = "sign" => pass.active \in Quotes

JournalInv == ChainShape /\ TableShape /\ PassShape

-----------------------------------------------------------------------------
\* Min of a nonempty set of numbers is one of them, and the least.
LEMMA MinMember ==
  ASSUME NEW S, S \subseteq Nat, S # {}
  PROVE  Min(S) \in S /\ \A y \in S : Min(S) <= y
<1> DEFINE R == OpToRel(<, Nat)
<1>1. \A x, y \in Nat : y < x => <<y, x>> \in R
  BY DEF OpToRel
<1>2. IsWellFoundedOn(R, Nat)
  BY NatLessThanWellFounded
<1> HIDE DEF R
<1>3. PICK x \in S : \A y \in S : ~ (<<y, x>> \in R)
  BY <1>2, WFMin
<1>4. ASSUME NEW y \in S
      PROVE  x <= y
  <2>1. x \in Nat /\ y \in Nat
    OBVIOUS
  <2>2. ~ (y < x)
    BY <1>1, <1>3, <2>1
  <2> QED
    BY <2>1, <2>2
<1> QED
  BY <1>4 DEF Min

\* Max of a nonempty bounded set of numbers is one of them.
LEMMA MaxMember ==
  ASSUME NEW N \in Nat, NEW S, S \subseteq 0..N, S # {}
  PROVE  Max(S) \in S
<1> DEFINE T == {N - x : x \in S}
<1>1. T \subseteq Nat /\ T # {}
  <2>1. \A x \in S : N - x \in Nat
    OBVIOUS
  <2> QED
    BY <2>1
<1>2. Min(T) \in T /\ \A y \in T : Min(T) <= y
  BY <1>1, MinMember
<1>3. PICK x \in S : Min(T) = N - x
  BY <1>2
<1>4. ASSUME NEW y \in S
      PROVE  y <= x
  <2>1. N - y \in T
    OBVIOUS
  <2>2. N - x <= N - y
    BY <1>2, <1>3, <2>1
  <2> QED
    BY <2>2
<1> QED
  BY <1>4 DEF Max

LEMMA MaxOfTwo ==
  ASSUME NEW a \in Nat, NEW b \in Nat
  PROVE  Max({a, b}) \in Nat /\ Max({a, b}) >= a /\ Max({a, b}) >= b
<1>1. \E x \in {a, b} : \A y \in {a, b} : x >= y
  BY a >= b \/ b >= a
<1> QED
  BY <1>1 DEF Max

\* The executed count is a number within the bound of the chain.
LEMMA AccountNonceBound == ChainShape => AccountNonce \in 0..MaxHeight
<1> SUFFICES ASSUME ChainShape
             PROVE  AccountNonce \in 0..MaxHeight
  OBVIOUS
<1>1. Height \in Nat /\ Height <= MaxHeight /\ MaxHeight \in Nat
  BY PublicationAssumption DEF ChainShape, Height
<1>2. IsFiniteSet(1..Height) /\ Cardinality(1..Height) = Height
  BY <1>1, FS_Interval
<1>3. Mined \in SUBSET (1..Height)
  <2>1. 0 \notin Mined
    BY DEF Mined, Block, ChainShape
  <2> QED
    BY <1>1, <2>1 DEF Mined
<1>4. IsFiniteSet(Mined) /\ Cardinality(Mined) <= Height
  BY <1>2, <1>3, FS_Subset
<1> QED
  BY <1>1, <1>4, FS_CardinalityType DEF AccountNonce

-----------------------------------------------------------------------------
\* What a step may do to the journal without signing: at most one row enters
\* or leaves flight, and only a signed row enters it.
RowStep(b) ==
  /\ chain' = chain /\ sent' = sent
  /\ \A q \in Quotes : row'[q].nonce = row[q].nonce /\ row'[q].attempts = row[q].attempts
  /\ \A q \in Quotes \ {b} : row'[q].status \in InFlight <=> row[q].status \in InFlight
  /\ b \in Quotes /\ row'[b].status \in InFlight =>
       row[b].status \in InFlight \/ row[b].nonce # -1

\* Such a step concludes or reopens the row, or is invisible to the wallet.
LEMMA RowStepRefines ==
  ASSUME NEW b, RowStep(b)
  PROVE  [Journal!Next]_(Journal!vars)
<1> DEFINE st == [q \in Quotes |-> IF row[q].status \in InFlight THEN "inFlight"
                                   ELSE "resting"]
<1>1. /\ \A q \in Quotes : row'[q].nonce = row[q].nonce
      /\ \A q \in Quotes : row'[q].attempts = row[q].attempts
      /\ \A q \in Quotes \ {b} : row'[q].status \in InFlight <=> row[q].status \in InFlight
      /\ chain' = chain /\ sent' = sent
  BY DEF RowStep
<1>2. [q \in Quotes |-> row[q].nonce]' = [q \in Quotes |-> row[q].nonce]
  BY <1>1
<1>3. [q \in Quotes |-> row[q].attempts]' = [q \in Quotes |-> row[q].attempts]
  BY <1>1
<1>4. [q \in Quotes |-> IF row[q].nonce # -1 THEN "updater" ELSE "none"]'
        = [q \in Quotes |-> IF row[q].nonce # -1 THEN "updater" ELSE "none"]
  BY <1>1
<1>5. AccountNonce' = AccountNonce
  BY <1>1 DEF AccountNonce, Mined, Height, Block
<1>6. CASE b \notin Quotes \/ (row'[b].status \in InFlight <=> row[b].status \in InFlight)
  <2>1. st' = st
    BY <1>1, <1>6
  <2> QED
    BY <1>1, <1>2, <1>3, <1>4, <1>5, <2>1 DEF Journal!vars
<1>7. CASE b \in Quotes /\ row'[b].status \notin InFlight /\ row[b].status \in InFlight
  <2>1. st' = [st EXCEPT ![b] = "resting"] /\ st[b] = "inFlight"
    BY <1>1, <1>7
  <2>2. Journal!Conclude(b)
    BY <1>1, <1>2, <1>3, <1>4, <1>5, <2>1 DEF Journal!Conclude
  <2> QED
    BY <1>7, <2>2 DEF Journal!Next, Journal!Rows
<1>8. CASE b \in Quotes /\ row'[b].status \in InFlight /\ row[b].status \notin InFlight
  <2>1. st' = [st EXCEPT ![b] = "inFlight"] /\ st[b] = "resting"
    BY <1>1, <1>8
  <2>2. row[b].nonce # -1
    BY <1>8 DEF RowStep
  <2>3. Journal!Reopen(b)
    BY <1>1, <1>2, <1>3, <1>4, <1>5, <1>8, <2>1, <2>2 DEF Journal!Reopen
  <2> QED
    BY <1>8, <2>3 DEF Journal!Next, Journal!Rows
<1> QED
  BY <1>6, <1>7, <1>8

\* The chain executes or undoes transactions of the wallet.
LEMMA ChainStepRefines ==
  ASSUME ChainShape, ChainShape', UNCHANGED <<row, sent>>
  PROVE  [Journal!Next]_(Journal!vars)
<1> DEFINE an == [w \in {"updater"} |-> AccountNonce]
<1>1. AccountNonce \in 0..MaxHeight /\ MaxHeight \in Nat
  BY AccountNonceBound, PublicationAssumption
<1>2. AccountNonce' \in 0..MaxHeight
  <2>1. (ChainShape => AccountNonce \in 0..MaxHeight)'
    BY AccountNonceBound, PTL
  <2> QED
    BY <2>1
<1>3. an' = [an EXCEPT !["updater"] = AccountNonce'] /\ an["updater"] = AccountNonce
  OBVIOUS
<1>4. CASE AccountNonce' = AccountNonce
  BY <1>4 DEF Journal!vars
<1>5. CASE AccountNonce' > AccountNonce
  <2>1. Journal!Execute("updater", AccountNonce')
    BY <1>3, <1>5 DEF Journal!Execute
  <2> QED
    BY <1>2, <2>1 DEF Journal!Next
<1>6. CASE AccountNonce' < AccountNonce
  <2>1. Journal!Rollback("updater", AccountNonce')
    BY <1>3, <1>6 DEF Journal!Rollback
  <2> QED
    BY <1>2, <2>1 DEF Journal!Next
<1> QED
  BY <1>1, <1>2, <1>4, <1>5, <1>6

-----------------------------------------------------------------------------
\* What a step without a signature leaves of the journal's shape.
LEMMA RowStepKeeps ==
  ASSUME JournalInv, NEW b, RowStep(b), quotes' \subseteq Quotes, DOMAIN row' = Quotes,
         \A q \in Quotes : Columns \subseteq DOMAIN row'[q]
  PROVE  ChainShape' /\ TableShape'
<1>1. ChainShape'
  BY DEF RowStep, JournalInv, ChainShape, Height
<1>2. TableShape'
  <2>1. ASSUME NEW q \in Quotes
        PROVE  /\ row'[q].nonce = row[q].nonce /\ row'[q].attempts = row[q].attempts
               /\ row'[q].status \in InFlight => row'[q].nonce # -1
    <3>1. CASE q = b
      BY <3>1, <2>1 DEF RowStep, JournalInv, TableShape
    <3>2. CASE q # b
      BY <3>2, <2>1 DEF RowStep, JournalInv, TableShape
    <3> QED
      BY <3>1, <3>2
  <2> QED
    BY <2>1 DEF JournalInv, TableShape
<1> QED
  BY <1>1, <1>2

\* One row gets another status, which is in flight only if the row was signed.
LEMMA StatusStep ==
  ASSUME JournalInv, NEW b \in Quotes, NEW r,
         Columns \subseteq DOMAIN r,
         r.nonce = row[b].nonce, r.attempts = row[b].attempts,
         r.status \in InFlight => row[b].nonce # -1,
         row' = [row EXCEPT ![b] = r], chain' = chain, sent' = sent, quotes' = quotes
  PROVE  /\ ChainShape' /\ TableShape' /\ [Journal!Next]_(Journal!vars)
         /\ row'[b] = r /\ \A q \in Quotes \ {b} : row'[q] = row[q]
         /\ \A q \in Quotes : row'[q].nonce = row[q].nonce
<1>1. /\ row'[b] = r /\ \A q \in Quotes \ {b} : row'[q] = row[q]
      /\ DOMAIN row' = Quotes
  BY DEF JournalInv, TableShape
<1>2. \A q \in Quotes : row'[q].nonce = row[q].nonce /\ row'[q].attempts = row[q].attempts
  BY <1>1
<1>3. RowStep(b)
  BY <1>1, <1>2 DEF RowStep
<1>4. \A q \in Quotes : Columns \subseteq DOMAIN row'[q]
  BY <1>1 DEF JournalInv, TableShape
<1>5. quotes' \subseteq Quotes
  BY DEF JournalInv, TableShape
<1> QED
  BY <1>1, <1>2, <1>3, <1>4, <1>5, RowStepKeeps, RowStepRefines

\* Steps that leave journal and chain alone.
LEMMA QuietStep ==
  ASSUME JournalInv, row' = row, chain' = chain, sent' = sent, quotes' \subseteq Quotes
  PROVE  ChainShape' /\ TableShape' /\ [Journal!Next]_(Journal!vars)
<1>1. RowStep(0)
  BY DEF RowStep, Quotes
<1> QED
  BY <1>1, RowStepKeeps, RowStepRefines DEF JournalInv, TableShape

LEMMA IdleShape == ASSUME NEW o, pass' = [IdlePass EXCEPT !.outage = o] \/ pass' = IdlePass
                   PROVE  PassShape'
  BY DEF IdlePass, PassShape, ReconcileSteps

-----------------------------------------------------------------------------
(* The steps of a job. *)

\* An error: the row the job holds goes back into flight only if it was signed.
LEMMA ThrewStep ==
  ASSUME JournalInv, NEW outage, Threw(outage), chain' = chain, sent' = sent, quotes' = quotes
  PROVE  JournalInv' /\ [Journal!Next]_(Journal!vars)
<1>1. pass' = [IdlePass EXCEPT !.outage = outage]
  BY DEF Threw
<1>2. PassShape'
  BY <1>1, IdleShape
<1>3. CASE pass.active # 0 /\ pass.live
  <2> DEFINE r == [row[pass.active] EXCEPT !.status = "RECONCILING"]
  <2>1. pass.active \in Quotes /\ row[pass.active].nonce # -1
    BY <1>3 DEF JournalInv, PassShape
  <2>2. /\ Columns \subseteq DOMAIN r
        /\ r.nonce = row[pass.active].nonce /\ r.attempts = row[pass.active].attempts
    BY <2>1 DEF JournalInv, TableShape
  <2>3. row' = [row EXCEPT ![pass.active] = r]
    BY <1>3, <2>1 DEF Threw
  <2> HIDE DEF r
  <2> QED
    BY <1>2, <2>1, <2>2, <2>3, StatusStep DEF JournalInv
<1>4. CASE ~(pass.active # 0 /\ pass.live)
  <2>1. row' = row
    BY <1>4 DEF Threw
  <2> QED
    BY <1>2, <2>1, QuietStep DEF JournalInv, TableShape
<1> QED
  BY <1>3, <1>4

\* A reconciled row is handed back: at rest, unless the job ends with it.
LEMMA ReturnedShape ==
  ASSUME JournalInv, pass.pc \in ReconcileSteps, NEW waiting \in BOOLEAN, Returned(waiting),
         row'[pass.active].status \in InFlight => waiting,
         \A q \in Quotes \ {pass.active} : row'[q] = row[q],
         \A q \in Quotes : row'[q].nonce = row[q].nonce
  PROVE  PassShape'
<1>1. CASE waiting \/ pass.caller = "signed"
  BY <1>1, IdleShape DEF Returned
<1>2. CASE ~(waiting \/ pass.caller = "signed")
  <2>1. /\ pass.active \in Quotes
        /\ pass.caller \notin {"loop", "signed"} => pass.todo = {}
        /\ \A q \in Quotes : row[q].status \in InFlight => q \in pass.todo \cup {pass.active}
    BY DEF JournalInv, PassShape
  <2>2. \A q \in Quotes : row'[q].status \in InFlight => q \in pass.todo
    BY <1>2, <2>1
  <2>3. /\ DOMAIN pass' = DOMAIN IdlePass /\ pass'.todo = pass.todo
        /\ pass'.active = pass.active /\ pass'.live = pass.live
        /\ pass'.pc = IF pass.caller = "loop" THEN "loop" ELSE "quote"
    BY <1>2 DEF Returned, JournalInv, PassShape, IdlePass
  <2>4. pass'.pc = "quote" => pass'.todo = {}
    BY <1>2, <2>1, <2>3
  <2> QED
    BY <2>1, <2>2, <2>3, <2>4 DEF JournalInv, PassShape, ReconcileSteps
<1> QED
  BY <1>1, <1>2

\* A reconciling step that records the fate of the row in its hands.
LEMMA SettleStep ==
  ASSUME JournalInv, pass.pc \in ReconcileSteps, NEW waiting \in BOOLEAN, Returned(waiting),
         NEW r, Columns \subseteq DOMAIN r,
         r.nonce = row[pass.active].nonce, r.attempts = row[pass.active].attempts,
         r.status \in InFlight => waiting,
         row' = [row EXCEPT ![pass.active] = r], chain' = chain, sent' = sent, quotes' = quotes
  PROVE  JournalInv' /\ [Journal!Next]_(Journal!vars)
<1>1. pass.active \in Quotes /\ row[pass.active].nonce # -1
  BY DEF JournalInv, PassShape
<1>2. /\ ChainShape' /\ TableShape' /\ [Journal!Next]_(Journal!vars)
      /\ row'[pass.active] = r /\ \A q \in Quotes \ {pass.active} : row'[q] = row[q]
      /\ \A q \in Quotes : row'[q].nonce = row[q].nonce
  BY <1>1, StatusStep
<1>3. PassShape'
  BY <1>2, ReturnedShape
<1> QED
  BY <1>2, <1>3 DEF JournalInv

LEMMA ResolveReceiptStep ==
  ASSUME JournalInv, ResolveReceipt
  PROVE  JournalInv' /\ [Journal!Next]_(Journal!vars)
<1> DEFINE q == pass.active
           e == pass.receipt
<1>1. /\ pass.pc \in ReconcileSteps /\ chain' = chain /\ sent' = sent /\ quotes' = quotes
  BY DEF ResolveReceipt, chainVars, ReconcileSteps
<1>2. q \in Quotes /\ Columns \subseteq DOMAIN row[q]
  BY <1>1 DEF JournalInv, PassShape, TableShape
<1>3. CASE row' = [row EXCEPT ![q].status = "RECONCILING"] /\ Returned(TRUE)
  <2> DEFINE r == [row[q] EXCEPT !.status = "RECONCILING"]
  <2>1. /\ Columns \subseteq DOMAIN r
        /\ r.nonce = row[q].nonce /\ r.attempts = row[q].attempts
    BY <1>2
  <2>2. row' = [row EXCEPT ![q] = r]
    BY <1>3
  <2> HIDE DEF r
  <2> QED
    BY <1>1, <1>3, <2>1, <2>2, SettleStep
<1>4. CASE row' = [row EXCEPT ![q] = Resolved(e, q)] /\ Returned(FALSE)
  <2>1. /\ Columns \subseteq DOMAIN Resolved(e, q)
        /\ Resolved(e, q).nonce = row[q].nonce /\ Resolved(e, q).attempts = row[q].attempts
        /\ Resolved(e, q).status \notin InFlight
    BY <1>2 DEF Resolved, InFlight
  <2> QED
    BY <1>1, <1>4, <2>1, SettleStep
<1>5. CASE pass' = [pass EXCEPT !.pc = "duplicate"] /\ row' = row
  <2>1. PassShape'
    BY <1>1, <1>5 DEF JournalInv, PassShape, ReconcileSteps
  <2> QED
    BY <1>1, <1>5, <2>1, QuietStep DEF JournalInv, TableShape
<1> QED
  BY <1>3, <1>4, <1>5 DEF ResolveReceipt

LEMMA CheckDuplicateStep ==
  ASSUME JournalInv, CheckDuplicate
  PROVE  JournalInv' /\ [Journal!Next]_(Journal!vars)
<1> DEFINE q == pass.active
<1>1. /\ pass.pc \in ReconcileSteps /\ chain' = chain /\ sent' = sent /\ quotes' = quotes
  BY DEF CheckDuplicate, chainVars, ReconcileSteps
<1>2. q \in Quotes /\ Columns \subseteq DOMAIN row[q]
  BY <1>1 DEF JournalInv, PassShape, TableShape
<1>3. ASSUME NEW status \in {"SUPERSEDED", "CONFIRMED"}, Returned(FALSE),
             row' = [row EXCEPT ![q] = [@ EXCEPT !.status = status, !.receipt = pass.receipt,
                                                 !.deferred = FALSE]]
      PROVE  JournalInv' /\ [Journal!Next]_(Journal!vars)
  <2> DEFINE r == [row[q] EXCEPT !.status = status, !.receipt = pass.receipt,
                                 !.deferred = FALSE]
  <2>1. /\ Columns \subseteq DOMAIN r
        /\ r.nonce = row[q].nonce /\ r.attempts = row[q].attempts
        /\ r.status \notin InFlight
    BY <1>2 DEF InFlight
  <2>2. row' = [row EXCEPT ![q] = r]
    BY <1>3
  <2> HIDE DEF r
  <2> QED
    BY <1>1, <1>3, <2>1, <2>2, SettleStep
<1>4. CASE Threw(FALSE)
  BY <1>1, <1>4, ThrewStep
<1> QED
  BY <1>3, <1>4 DEF CheckDuplicate

LEMMA ConsumedNonceStep ==
  ASSUME JournalInv, ConsumedNonce
  PROVE  JournalInv' /\ [Journal!Next]_(Journal!vars)
<1> DEFINE q == pass.active
           r == [row[q] EXCEPT !.status = "SUPERSEDED"]
<1>1. /\ pass.pc \in ReconcileSteps /\ chain' = chain /\ sent' = sent /\ quotes' = quotes
  BY DEF ConsumedNonce, chainVars, ReconcileSteps
<1>2. q \in Quotes /\ Columns \subseteq DOMAIN row[q]
  BY <1>1 DEF JournalInv, PassShape, TableShape
<1>3. \/ row' = [row EXCEPT ![q].status = "SUPERSEDED"] /\ Returned(FALSE)
      \/ Threw(FALSE)
  BY DEF ConsumedNonce
<1>4. CASE row' = [row EXCEPT ![q].status = "SUPERSEDED"] /\ Returned(FALSE)
  <2>1. /\ Columns \subseteq DOMAIN r
        /\ r.nonce = row[q].nonce /\ r.attempts = row[q].attempts
        /\ r.status \notin InFlight
    BY <1>2 DEF InFlight
  <2>2. row' = [row EXCEPT ![q] = r]
    BY <1>4
  <2> HIDE DEF r
  <2> QED
    BY <1>1, <1>4, <2>1, <2>2, SettleStep
<1>5. CASE Threw(FALSE)
  BY <1>1, <1>5, ThrewStep
<1> QED
  BY <1>3, <1>4, <1>5

LEMMA ReadPendingNonceStep ==
  ASSUME JournalInv, ReadPendingNonce
  PROVE  JournalInv' /\ [Journal!Next]_(Journal!vars)
<1>1. /\ pass.pc \in ReconcileSteps /\ chain' = chain /\ sent' = sent /\ quotes' = quotes
  BY DEF ReadPendingNonce, chainVars, ReconcileSteps
<1>2. CASE Threw(FALSE)
  BY <1>1, <1>2, ThrewStep
<1>3. CASE pass' = [pass EXCEPT !.pc = "broadcast"] /\ row' = row
  <2>1. PassShape'
    BY <1>1, <1>3 DEF JournalInv, PassShape, ReconcileSteps
  <2> QED
    BY <1>1, <1>3, <2>1, QuietStep DEF JournalInv, TableShape
<1> QED
  BY <1>2, <1>3 DEF ReadPendingNonce

LEMMA RecordBroadcastStep ==
  ASSUME JournalInv, RecordBroadcast
  PROVE  JournalInv' /\ [Journal!Next]_(Journal!vars)
<1> DEFINE q == pass.active
           s == IF pass.reply = "accepted" THEN "SUBMITTED" ELSE "RECONCILING"
           r == [row[q] EXCEPT !.status = s]
<1>1. /\ pass.pc \in ReconcileSteps /\ chain' = chain /\ sent' = sent /\ quotes' = quotes
  BY DEF RecordBroadcast, chainVars, ReconcileSteps
<1>2. /\ q \in Quotes /\ row[q].nonce # -1
      /\ Columns \subseteq DOMAIN row[q]
  BY <1>1 DEF JournalInv, PassShape, TableShape
<1>3. /\ Columns \subseteq DOMAIN r
      /\ r.nonce = row[q].nonce /\ r.attempts = row[q].attempts
  BY <1>2
<1>4. row' = [row EXCEPT ![q] = r]
  BY DEF RecordBroadcast
<1>5. PassShape'
  BY IdleShape DEF RecordBroadcast
<1> HIDE DEF r
<1> QED
  BY <1>1, <1>2, <1>3, <1>4, <1>5, StatusStep DEF JournalInv

\* Steps that only move the pass along.
LEMMA PassStep ==
  ASSUME JournalInv,
         \/ BeginJob \/ NextOutstanding \/ ReadReceipt \/ ReadLatestNonce \/ Crash
         \/ \E accepted \in BOOLEAN, reply \in {"accepted", "unknown", "gas"} :
              Broadcast(accepted, reply)
  PROVE  JournalInv' /\ [Journal!Next]_(Journal!vars)
<1>1. /\ row' = row /\ chain' = chain /\ sent' = sent /\ quotes' = quotes
  BY DEF BeginJob, NextOutstanding, ReadReceipt, ReadLatestNonce, Crash, Broadcast, chainVars
<1>2. ASSUME BeginJob
      PROVE  PassShape'
  <2>1. /\ DOMAIN pass' = DOMAIN IdlePass /\ pass'.pc = "loop" /\ pass'.active = 0
        /\ pass'.todo = {q \in Quotes : row[q].status \in InFlight}
    BY <1>2 DEF BeginJob, IdlePass
  <2>2. \A q \in pass'.todo : row[q].nonce # -1
    BY <2>1 DEF JournalInv, TableShape
  <2> QED
    BY <1>1, <2>1, <2>2 DEF PassShape, ReconcileSteps
<1>3. ASSUME NextOutstanding
      PROVE  PassShape'
  <2> DEFINE q == Min(pass.todo)
  <2>1. pass.todo \subseteq Quotes /\ pass.todo # {} /\ Quotes \subseteq Nat
    BY <1>3 DEF JournalInv, PassShape, NextOutstanding, Quotes
  <2>2. q \in pass.todo
    BY <2>1, MinMember
  <2> HIDE DEF q
  <2>3. /\ DOMAIN pass' = DOMAIN IdlePass /\ pass'.pc = "receipt" /\ pass'.caller = "loop"
        /\ pass'.active = q /\ pass'.todo = pass.todo \ {q}
    BY <1>3 DEF NextOutstanding, IdlePass, JournalInv, PassShape, q
  <2> QED
    BY <1>1, <1>3, <2>1, <2>2, <2>3 DEF PassShape, ReconcileSteps, JournalInv, NextOutstanding
<1>4. ASSUME ReadReceipt
      PROVE  PassShape'
  <2>1. /\ pass.pc = "receipt" /\ pass'.pc \in {"nonces", "resolve"}
        /\ DOMAIN pass' = DOMAIN IdlePass /\ pass'.caller = pass.caller
        /\ pass'.active = pass.active /\ pass'.todo = pass.todo /\ pass'.live = pass.live
    BY <1>4 DEF ReadReceipt, IdlePass, JournalInv, PassShape
  <2> QED
    BY <1>1, <2>1 DEF PassShape, ReconcileSteps, JournalInv
<1>5. ASSUME \E accepted \in BOOLEAN, reply \in {"accepted", "unknown", "gas"} :
               Broadcast(accepted, reply)
      PROVE  PassShape'
  <2>1. /\ pass.pc = "broadcast" /\ pass'.pc = "record"
        /\ DOMAIN pass' = DOMAIN IdlePass /\ pass'.caller = pass.caller
        /\ pass'.active = pass.active /\ pass'.todo = pass.todo /\ pass'.live = pass.live
    BY <1>5 DEF Broadcast, IdlePass, JournalInv, PassShape
  <2> QED
    BY <1>1, <2>1 DEF PassShape, ReconcileSteps, JournalInv
<1>6. ASSUME Crash
      PROVE  PassShape'
  BY <1>6, IdleShape DEF Crash
<1>7. ASSUME ReadLatestNonce
      PROVE  PassShape'
  <2>1. /\ pass.pc = "nonces" /\ pass'.pc \in {"consumed", "pending"}
        /\ DOMAIN pass' = DOMAIN IdlePass /\ pass'.caller = pass.caller
        /\ pass'.active = pass.active /\ pass'.todo = pass.todo /\ pass'.live = pass.live
    BY <1>7 DEF ReadLatestNonce, IdlePass, JournalInv, PassShape
  <2> QED
    BY <1>1, <2>1 DEF PassShape, ReconcileSteps, JournalInv
<1>8. PassShape'
  BY <1>2, <1>3, <1>4, <1>5, <1>6, <1>7
<1> QED
  BY <1>1, <1>8, QuietStep DEF JournalInv, TableShape

\* With nothing left to reconcile, a resolved row may be reopened.
LEMMA CheckPreviousStep ==
  ASSUME JournalInv, CheckPrevious
  PROVE  JournalInv' /\ [Journal!Next]_(Journal!vars)
<1>1. /\ pass.pc = "loop" /\ pass.todo = {} /\ chain' = chain /\ sent' = sent /\ quotes' = quotes
      /\ \A q \in Quotes : row[q].status \notin InFlight
  BY DEF CheckPrevious, chainVars, JournalInv, PassShape
<1>2. CASE row' = row /\ pass' = [pass EXCEPT !.pc = "quote", !.active = 0, !.live = FALSE]
  <2>1. /\ DOMAIN pass' = DOMAIN IdlePass /\ pass'.pc = "quote" /\ pass'.active = 0
        /\ pass'.todo = {}
    BY <1>1, <1>2 DEF IdlePass, JournalInv, PassShape
  <2>2. PassShape'
    BY <1>1, <1>2, <2>1 DEF PassShape, ReconcileSteps
  <2> QED
    BY <1>1, <1>2, <2>2, QuietStep DEF JournalInv, TableShape
<1>3. ASSUME NEW q \in Newest,
             row' = [row EXCEPT ![q].status = "RECONCILING"],
             pass' = [pass EXCEPT !.pc = "receipt", !.caller = "previous",
                                  !.active = q, !.live = TRUE]
      PROVE  JournalInv' /\ [Journal!Next]_(Journal!vars)
  <2> DEFINE r == [row[q] EXCEPT !.status = "RECONCILING"]
  <2>1. q \in Quotes /\ row[q].nonce # -1 /\ Columns \subseteq DOMAIN row[q]
    BY <1>3 DEF Newest, Settled, JournalInv, TableShape
  <2>2. /\ Columns \subseteq DOMAIN r
        /\ r.nonce = row[q].nonce /\ r.attempts = row[q].attempts
    BY <2>1
  <2>3. row' = [row EXCEPT ![q] = r]
    BY <1>3
  <2> HIDE DEF r
  <2>4. /\ ChainShape' /\ TableShape' /\ [Journal!Next]_(Journal!vars)
        /\ \A p \in Quotes \ {q} : row'[p] = row[p]
        /\ \A p \in Quotes : row'[p].nonce = row[p].nonce
    BY <1>1, <2>1, <2>2, <2>3, StatusStep
  <2>5. /\ DOMAIN pass' = DOMAIN IdlePass /\ pass'.pc = "receipt" /\ pass'.caller = "previous"
        /\ pass'.active = q /\ pass'.todo = {}
    BY <1>1, <1>3 DEF IdlePass, JournalInv, PassShape
  <2>6. PassShape'
    BY <1>1, <2>1, <2>4, <2>5 DEF PassShape, ReconcileSteps
  <2> QED
    BY <2>4, <2>6 DEF JournalInv
<1> QED
  BY <1>2, <1>3 DEF CheckPrevious

\* A quote is prepared, or older ones are given up: rows at rest stay at rest.
LEMMA ReadQuoteStep ==
  ASSUME JournalInv, ReadQuote
  PROVE  JournalInv' /\ [Journal!Next]_(Journal!vars)
<1>1. /\ pass.pc = "quote" /\ chain' = chain /\ sent' = sent /\ quotes' = quotes
      /\ \A q \in Quotes : row[q].status \notin InFlight
      /\ DOMAIN row = Quotes /\ quotes \subseteq Quotes
      /\ \A q \in Quotes : Columns \subseteq DOMAIN row[q]
  BY DEF ReadQuote, chainVars, JournalInv, PassShape, TableShape
<1>2. ASSUME row' = row
      PROVE  /\ ChainShape' /\ TableShape' /\ [Journal!Next]_(Journal!vars)
             /\ \A q \in Quotes : row'[q].status \notin InFlight /\ row'[q].nonce = row[q].nonce
  BY <1>1, <1>2, QuietStep
<1>3. ASSUME NEW current,
             row' = [p \in Quotes |-> IF p <= current /\ row[p].status \in {"PREPARED", "FAILED"}
                                      THEN [row[p] EXCEPT !.status = "SUPERSEDED"] ELSE row[p]]
      PROVE  /\ ChainShape' /\ TableShape' /\ [Journal!Next]_(Journal!vars)
             /\ \A q \in Quotes : row'[q].status \notin InFlight /\ row'[q].nonce = row[q].nonce
  <2>1. DOMAIN row' = Quotes
    BY <1>3
  <2>2. ASSUME NEW p \in Quotes
        PROVE  /\ row'[p].nonce = row[p].nonce /\ row'[p].attempts = row[p].attempts
               /\ row'[p].status \notin InFlight
               /\ Columns \subseteq DOMAIN row'[p]
    <3>1. row'[p] = row[p] \/ row'[p] = [row[p] EXCEPT !.status = "SUPERSEDED"]
      BY <1>3
    <3> QED
      BY <1>1, <3>1 DEF InFlight
  <2>3. RowStep(0)
    BY <1>1, <2>2 DEF RowStep, Quotes
  <2> QED
    BY <1>1, <2>1, <2>2, <2>3, RowStepKeeps, RowStepRefines
<1>4. ASSUME quotes # {}, row' = [row EXCEPT ![Max(quotes)].status = "PREPARED"]
      PROVE  /\ ChainShape' /\ TableShape' /\ [Journal!Next]_(Journal!vars)
             /\ \A q \in Quotes : row'[q].status \notin InFlight /\ row'[q].nonce = row[q].nonce
  <2> DEFINE q == Max(quotes)
             r == [row[q] EXCEPT !.status = "PREPARED"]
  <2>1. q \in Quotes
    <3>1. quotes \subseteq 0..NQuotes /\ NQuotes \in Nat
      BY <1>1, PublicationAssumption DEF Quotes
    <3> QED
      BY <1>1, <1>4, <3>1, MaxMember
  <2> HIDE DEF q
  <2>2. /\ Columns \subseteq DOMAIN r
        /\ r.nonce = row[q].nonce /\ r.attempts = row[q].attempts /\ r.status \notin InFlight
    BY <1>1, <2>1 DEF InFlight
  <2>3. row' = [row EXCEPT ![q] = r]
    BY <1>4 DEF q
  <2> HIDE DEF r
  <2> QED
    BY <1>1, <2>1, <2>2, <2>3, StatusStep
<1>5. /\ ChainShape' /\ TableShape' /\ [Journal!Next]_(Journal!vars)
      /\ \A q \in Quotes : row'[q].status \notin InFlight /\ row'[q].nonce = row[q].nonce
  BY <1>2, <1>3, <1>4 DEF ReadQuote
<1>6. PassShape'
  <2>1. CASE pass' = IdlePass
    BY <2>1, IdleShape
  <2>2. CASE pass' # IdlePass
    <3> DEFINE q == Max(quotes)
    <3>1. /\ quotes # {}
          /\ pass' = [pass EXCEPT !.pc = "sign", !.active = q,
                                  !.live = row[q].status \in InFlight]
      BY <2>2 DEF ReadQuote
    <3>2. q \in Quotes
      <4>1. quotes \subseteq 0..NQuotes /\ NQuotes \in Nat
        BY <1>1, PublicationAssumption DEF Quotes
      <4> QED
        BY <1>1, <3>1, <4>1, MaxMember
    <3> HIDE DEF q
    <3>3. /\ DOMAIN pass' = DOMAIN IdlePass /\ pass'.pc = "sign" /\ pass'.active = q
          /\ pass'.todo = pass.todo /\ pass'.live = (row[q].status \in InFlight)
      BY <3>1 DEF JournalInv, PassShape, IdlePass
    <3>4. ~ pass'.live
      BY <1>1, <3>2, <3>3
    <3> QED
      BY <1>5, <3>2, <3>3, <3>4 DEF JournalInv, PassShape, ReconcileSteps
  <2> QED
    BY <2>1, <2>2
<1> QED
  BY <1>5, <1>6 DEF JournalInv

\* The wallet-lock transaction signs the next nonce of the chain.
LEMMA SignRefines ==
  ASSUME JournalInv, NEW b \in Quotes, NEW pn, pn = AccountNonce, NEW tx, chain' = chain,
         \A q \in Quotes : row[q].status \notin InFlight, \A q \in Quotes : row[q].nonce < pn,
         \A q \in Quotes \ {b} : row'[q] = row[q],
         row'[b].status = "SIGNED", row'[b].nonce = pn,
         row'[b].attempts = row[b].attempts + 1,
         sent' = sent \cup {tx}, tx.quote = b, tx.nonce = pn,
         tx.attempt = row[b].attempts + 1
  PROVE  Journal!Next
<1> DEFINE st == [q \in Quotes |-> IF row[q].status \in InFlight THEN "inFlight"
                                   ELSE "resting"]
           sg == [q \in Quotes |-> IF row[q].nonce # -1 THEN "updater" ELSE "none"]
           no == [q \in Quotes |-> row[q].nonce]
           at == [q \in Quotes |-> row[q].attempts]
           se == {[row |-> t.quote, wallet |-> "updater", nonce |-> t.nonce,
                   attempt |-> t.attempt] : t \in sent}
           an == [w \in {"updater"} |-> AccountNonce]
<1>0. /\ pn \in 0..MaxHeight /\ MaxHeight \in Nat
      /\ row[b].attempts \in Nat /\ row[b].attempts <= row[b].nonce + 1
      /\ row[b].nonce \in Nat \cup {-1}
  BY AccountNonceBound, PublicationAssumption DEF JournalInv, TableShape
<1>1. st[b] = "resting" /\ st' = [st EXCEPT ![b] = "inFlight"]
  BY DEF InFlight
<1>2. sg' = [sg EXCEPT ![b] = "updater"]
  <2>1. row'[b].nonce # -1
    BY <1>0
  <2>2. \A q \in Quotes : sg'[q] = IF q = b THEN "updater" ELSE sg[q]
    BY <2>1
  <2> QED
    BY <2>2
<1>3. no' = [no EXCEPT ![b] = pn]
  OBVIOUS
<1>4. at' = [at EXCEPT ![b] = @ + 1] /\ at[b] + 1 \in 0..(MaxHeight + 1)
      /\ at[b] = row[b].attempts
  <2>1. \A q \in Quotes : row'[q].attempts = IF q = b THEN row[b].attempts + 1
                                             ELSE row[q].attempts
    OBVIOUS
  <2>2. at' = [at EXCEPT ![b] = row[b].attempts + 1]
    BY <2>1
  <2>3. row[b].nonce < pn
    OBVIOUS
  <2>4. row[b].attempts + 1 \in 0..(MaxHeight + 1)
    BY <1>0, <2>3
  <2> QED
    BY <2>2, <2>4
<1>5. se' = se \cup {[row |-> b, wallet |-> "updater", nonce |-> pn,
                      attempt |-> at[b] + 1]}
  BY <1>4
<1>6. an' = an /\ an["updater"] = AccountNonce
  BY DEF AccountNonce, Mined, Height, Block
<1>7. ~ Journal!Pending(b, "updater")
  BY DEF Journal!Pending, Journal!Rows
<1>8. Journal!AboveLatest(pn, "updater")
  BY DEF Journal!AboveLatest, Journal!Rows
<1>9. Journal!Sign(b, "updater", pn)
  BY <1>0, <1>1, <1>2, <1>3, <1>4, <1>5, <1>6, <1>7, <1>8 DEF Journal!Sign
<1> QED
  BY <1>0, <1>9 DEF Journal!Next, Journal!Rows

LEMMA SignPublicationStep ==
  ASSUME JournalInv, SignPublication
  PROVE  JournalInv' /\ [Journal!Next]_(Journal!vars)
<1> DEFINE q == pass.active
           pn == AccountNonce
           r == [row[q] EXCEPT !.status = "SIGNED", !.nonce = pn,
                   !.attempts = row[q].attempts + 1, !.receipt = NoBlock, !.deferred = FALSE]
           tx == [quote |-> q, nonce |-> pn, attempt |-> row[q].attempts + 1]
<1>1. /\ pass.pc = "sign" /\ chain' = chain /\ quotes' = quotes
      /\ q \in Quotes /\ \A p \in Quotes : row[p].status \notin InFlight
  BY DEF SignPublication, chainVars, JournalInv, PassShape
<1>2. \/ Threw(FALSE) /\ sent' = sent
      \/ /\ \A p \in Quotes : row[p].nonce < pn
         /\ row' = [row EXCEPT ![q] = r] /\ sent' = sent \cup {tx}
         /\ pass' = [pass EXCEPT !.pc = "receipt", !.caller = "signed", !.live = TRUE]
  <2>1. CASE \/ OtherInFlight(q) \/ PendingNonce # AccountNonce
             \/ ~AboveLatest(PendingNonce) \/ Outcome(q) = "reverted"
    BY <2>1 DEF SignPublication, SimulationFails
  <2>2. CASE /\ PendingNonce = AccountNonce /\ AboveLatest(PendingNonce)
             /\ ~OtherInFlight(q) /\ Outcome(q) # "reverted"
    BY <2>2 DEF SignPublication, SimulationFails, AboveLatest
  <2> QED
    BY <2>1, <2>2
<1>3. CASE Threw(FALSE) /\ sent' = sent
  BY <1>1, <1>3, ThrewStep
<1>4. ASSUME \A p \in Quotes : row[p].nonce < pn,
             row' = [row EXCEPT ![q] = r], sent' = sent \cup {tx},
             pass' = [pass EXCEPT !.pc = "receipt", !.caller = "signed", !.live = TRUE]
      PROVE  JournalInv' /\ [Journal!Next]_(Journal!vars)
  <2>1. /\ Columns \subseteq DOMAIN row[q]
        /\ row[q].nonce \in Nat \cup {-1}
        /\ row[q].attempts \in Nat /\ row[q].attempts <= row[q].nonce + 1
        /\ pn \in Nat /\ row[q].nonce < pn /\ DOMAIN row = Quotes
    BY <1>1, <1>4, AccountNonceBound DEF JournalInv, TableShape
  <2>2. /\ Columns \subseteq DOMAIN r
        /\ r.status = "SIGNED" /\ r.nonce = pn /\ r.attempts = row[q].attempts + 1
    BY <2>1
  <2>3. tx.quote = q /\ tx.nonce = pn /\ tx.attempt = row[q].attempts + 1
    OBVIOUS
  <2>4. DOMAIN row' = Quotes /\ row'[q] = r /\ \A p \in Quotes \ {q} : row'[p] = row[p]
    BY <1>1, <1>4, <2>1
  <2>5. pass.todo \subseteq Quotes /\ \A p \in pass.todo : row[p].nonce # -1
    BY DEF JournalInv, PassShape
  <2>6. /\ DOMAIN pass' = DOMAIN IdlePass /\ pass'.pc = "receipt" /\ pass'.caller = "signed"
        /\ pass'.active = q /\ pass'.todo = pass.todo
    BY <1>4 DEF IdlePass, JournalInv, PassShape
  <2>7. sent' = sent \cup {tx}
    BY <1>4
  <2> HIDE DEF r, tx, q
  <2>8. Journal!Next
    BY <1>1, <1>4, <2>2, <2>3, <2>4, <2>7, SignRefines
  <2>9. ChainShape'
    BY <1>1 DEF JournalInv, ChainShape, Height
  <2>10. TableShape'
    <3>1. /\ r.nonce \in Nat \cup {-1} /\ r.attempts \in Nat /\ r.attempts <= r.nonce + 1
          /\ r.nonce # -1 /\ r.attempts >= 1
      BY <2>1, <2>2
    <3>2. ASSUME NEW p \in Quotes
          PROVE  /\ Columns \subseteq DOMAIN row'[p]
                 /\ row'[p].nonce \in Nat \cup {-1}
                 /\ row'[p].attempts \in Nat /\ row'[p].attempts <= row'[p].nonce + 1
                 /\ row'[p].nonce # -1 => row'[p].attempts >= 1
                 /\ row'[p].status \in InFlight => row'[p].nonce # -1
      <4>1. CASE p = q
        BY <2>2, <2>4, <3>1, <4>1
      <4>2. CASE p # q
        BY <2>4, <4>2 DEF JournalInv, TableShape
      <4> QED
        BY <4>1, <4>2
    <3> QED
      BY <1>1, <2>4, <3>2 DEF JournalInv, TableShape
  <2>11. PassShape'
    <3>1. \A p \in pass.todo : row'[p].nonce # -1
      BY <2>1, <2>2, <2>4, <2>5
    <3>2. row'[q].nonce # -1
      BY <2>1, <2>2, <2>4
    <3>3. \A p \in Quotes : row'[p].status \in InFlight => p = q
      BY <1>1, <2>4
    <3> QED
      BY <1>1, <2>5, <2>6, <3>1, <3>2, <3>3 DEF PassShape, ReconcileSteps
  <2> QED
    BY <2>8, <2>9, <2>10, <2>11 DEF JournalInv
<1> QED
  BY <1>2, <1>3, <1>4

\* Time and the provider.
LEMMA OutsideStep ==
  ASSUME JournalInv, NEW q \in Quotes, CollectQuote(q) \/ ReachNextAttempt(q)
  PROVE  JournalInv' /\ [Journal!Next]_(Journal!vars)
<1>1. chain' = chain /\ sent' = sent /\ pass' = pass
  BY DEF CollectQuote, ReachNextAttempt, chainVars
<1>2. CASE CollectQuote(q)
  <2>1. row' = row /\ quotes' \subseteq Quotes
    BY <1>2 DEF CollectQuote, JournalInv, TableShape
  <2>2. PassShape'
    BY <1>1, <2>1 DEF JournalInv, PassShape
  <2> QED
    BY <1>1, <2>1, <2>2, QuietStep DEF JournalInv
<1>3. CASE ReachNextAttempt(q)
  <2> DEFINE r == [row[q] EXCEPT !.deferred = FALSE]
  <2>1. /\ Columns \subseteq DOMAIN row[q]
        /\ row[q].status \in InFlight => row[q].nonce # -1
    BY DEF JournalInv, TableShape
  <2>2. /\ Columns \subseteq DOMAIN r
        /\ r.nonce = row[q].nonce /\ r.attempts = row[q].attempts
        /\ r.status = row[q].status
    BY <2>1
  <2>3. row' = [row EXCEPT ![q] = r] /\ quotes' = quotes /\ pass.pc = "idle"
    BY <1>3 DEF ReachNextAttempt
  <2> HIDE DEF r
  <2>4. /\ ChainShape' /\ TableShape' /\ [Journal!Next]_(Journal!vars)
        /\ \A p \in Quotes : row'[p].nonce = row[p].nonce
    BY <1>1, <2>1, <2>2, <2>3, StatusStep
  <2>5. PassShape'
    BY <1>1, <2>3, <2>4 DEF JournalInv, PassShape, ReconcileSteps
  <2> QED
    BY <2>4, <2>5 DEF JournalInv
<1> QED
  BY <1>2, <1>3

-----------------------------------------------------------------------------
\* Blocks are mined, reorganizations replace some, the wallet is used by hand.
LEMMA ChainStep ==
  ASSUME JournalInv,
         \/ \E tx \in pool, authorized \in BOOLEAN : Mine(tx, authorized)
         \/ \E tx \in pool : Lose(tx)
         \/ \E q \in ByHand : SendByHand(q)
         \/ MineEmpty
         \/ \E depth \in 1..MaxDepth, returned \in BOOLEAN : Reorg(depth, returned)
  PROVE  JournalInv' /\ [Journal!Next]_(Journal!vars)
<1> DEFINE Blocks == {chain[i] : i \in DOMAIN chain}
<1>1. /\ chain \in Seq(Blocks) /\ Len(chain) \in Nat /\ DOMAIN chain = 1..Len(chain)
      /\ Len(chain) >= 1 /\ Len(chain) - 1 <= MaxHeight /\ chain[1].tx = NoTx
      /\ MaxHeight \in Nat /\ MaxDepth \in Nat
  BY PublicationAssumption DEF JournalInv, ChainShape, Height
<1>2. row' = row /\ sent' = sent /\ pass' = pass /\ quotes' = quotes
  BY DEF Mine, Lose, SendByHand, MineEmpty, Reorg
<1>3. ASSUME NEW block, chain' = Append(chain, block), Len(chain) - 1 < MaxHeight
      PROVE  ChainShape'
  <2>1. chain' \in Seq(Blocks \cup {block})
    BY <1>1, <1>3
  <2>2. chain' \in Seq({chain'[i] : i \in DOMAIN chain'})
    BY <2>1
  <2>3. Len(chain') = Len(chain) + 1 /\ chain'[1] = chain[1]
    BY <1>1, <1>3
  <2> QED
    BY <1>1, <1>3, <2>2, <2>3 DEF ChainShape, Height
<1>4. ASSUME \/ \E tx \in pool, authorized \in BOOLEAN : Mine(tx, authorized)
             \/ \E q \in ByHand : SendByHand(q)
             \/ MineEmpty
      PROVE  ChainShape'
  <2>1. \E tx, result, price : Extend(tx, result, price)
    BY <1>4 DEF Mine, SendByHand, MineEmpty
  <2> QED
    BY <1>3, <2>1 DEF Extend, Height
<1>5. ASSUME NEW depth \in 1..MaxDepth, NEW returned \in BOOLEAN, Reorg(depth, returned)
      PROVE  ChainShape'
  <2> DEFINE L == Len(chain)
             keep == L - depth
             new == [fork |-> forks + 1, tx |-> NoTx, result |-> "none",
                     price |-> chain[keep].price]
  <2>1. chain' = [i \in 1..L |-> IF i <= keep THEN chain[i] ELSE new] /\ depth <= L - 1
    BY <1>5 DEF Reorg, Height
  <2>2. keep >= 1
    BY <1>1, <2>1
  <2> HIDE DEF new, keep
  <2>3. DOMAIN chain' = 1..L /\ chain' = [i \in 1..L |-> chain'[i]]
    BY <2>1
  <2>4. chain' \in Seq({chain'[i] : i \in DOMAIN chain'}) /\ Len(chain') = L
    BY <1>1, <2>3
  <2>5. chain'[1] = chain[1]
    BY <1>1, <2>1, <2>2
  <2> QED
    BY <1>1, <2>4, <2>5 DEF ChainShape, Height
<1>6. ASSUME \E tx \in pool : Lose(tx)
      PROVE  ChainShape'
  BY <1>6 DEF Lose, JournalInv, ChainShape, Height
<1>7. ChainShape'
  BY <1>4, <1>5, <1>6
<1>8. TableShape' /\ PassShape'
  BY <1>2 DEF JournalInv, TableShape, PassShape
<1> QED
  BY <1>2, <1>7, <1>8, ChainStepRefines DEF JournalInv

\* The journal starts without rows.
LEMMA JournalInit == Init => JournalInv /\ Journal!Init
<1> SUFFICES ASSUME Init
             PROVE  JournalInv /\ Journal!Init
  OBVIOUS
<1> DEFINE first == [fork |-> 0, tx |-> NoTx, result |-> "none", price |-> 0]
<1>1. chain = <<first>> /\ first.tx = NoTx
  BY DEF Init
<1> HIDE DEF first
<1>2. Len(chain) = 1 /\ chain[1] = first /\ DOMAIN chain = 1..1
  BY <1>1
<1>3. ChainShape
  <2>1. chain \in Seq({chain[i] : i \in DOMAIN chain})
    BY <1>1, <1>2
  <2> QED
    BY <1>1, <1>2, <2>1, PublicationAssumption DEF ChainShape, Height
<1>4. AccountNonce = 0
  <2>1. \A n \in 0..Height : Block(n).tx = NoTx
    BY <1>1, <1>2 DEF Height, Block
  <2>2. Mined = {}
    BY <2>1 DEF Mined
  <2> QED
    BY <2>2, FS_EmptySet DEF AccountNonce
<1>5. /\ \A q \in Quotes : /\ row[q].status = "none" /\ row[q].nonce = -1
                           /\ row[q].attempts = 0
                           /\ Columns \subseteq DOMAIN row[q]
      /\ DOMAIN row = Quotes /\ sent = {} /\ quotes = {} /\ pass = IdlePass
  BY DEF Init
<1>6. TableShape
  BY <1>5 DEF TableShape, InFlight
<1>7. PassShape
  BY <1>5 DEF IdlePass, PassShape, ReconcileSteps
<1>8. Journal!Init
  BY <1>4, <1>5 DEF Journal!Init, Journal!Rows, InFlight
<1> QED
  BY <1>3, <1>6, <1>7, <1>8 DEF JournalInv

\* Every step of the program and of its environment is a step of the wallet
\* reservation, or invisible to it.
LEMMA JournalStep == JournalInv /\ [Next]_vars => JournalInv' /\ [Journal!Next]_(Journal!vars)
<1> SUFFICES ASSUME JournalInv, [Next]_vars
             PROVE  JournalInv' /\ [Journal!Next]_(Journal!vars)
  OBVIOUS
<1>1. CASE \/ \E tx \in pool, authorized \in BOOLEAN : Mine(tx, authorized)
           \/ \E tx \in pool : Lose(tx)
           \/ \E q \in ByHand : SendByHand(q)
           \/ MineEmpty
           \/ \E depth \in 1..MaxDepth, returned \in BOOLEAN : Reorg(depth, returned)
  BY <1>1, ChainStep
<1>2. CASE \E q \in Quotes : CollectQuote(q) \/ ReachNextAttempt(q)
  BY <1>2, OutsideStep
<1>3. CASE \/ BeginJob \/ NextOutstanding \/ ReadReceipt \/ ReadLatestNonce \/ Crash
           \/ \E accepted \in BOOLEAN, reply \in {"accepted", "unknown", "gas"} :
                Broadcast(accepted, reply)
  BY <1>3, PassStep
<1>4. CASE ResolveReceipt
  BY <1>4, ResolveReceiptStep
<1>5. CASE CheckDuplicate \/ ConsumedNonce \/ ReadPendingNonce
  BY <1>5, CheckDuplicateStep, ConsumedNonceStep, ReadPendingNonceStep
<1>6. CASE RecordBroadcast
  BY <1>6, RecordBroadcastStep
<1>7. CASE CheckPrevious
  BY <1>7, CheckPreviousStep
<1>8. CASE ReadQuote
  BY <1>8, ReadQuoteStep
<1>9. CASE SignPublication
  BY <1>9, SignPublicationStep
<1>10. CASE CallFails
  <2>1. Threw(TRUE) /\ chain' = chain /\ sent' = sent /\ quotes' = quotes
    BY <1>10 DEF CallFails, chainVars
  <2> QED
    BY <2>1, ThrewStep
<1>11. CASE UNCHANGED vars
  <2>1. /\ chain' = chain /\ row' = row /\ sent' = sent /\ pass' = pass /\ quotes' = quotes
    BY <1>11 DEF vars, chainVars
  <2>2. PassShape' /\ quotes' \subseteq Quotes
    BY <2>1 DEF JournalInv, PassShape, TableShape
  <2> QED
    BY <2>1, <2>2, QuietStep DEF JournalInv
<1> QED
  BY <1>1, <1>2, <1>3, <1>4, <1>5, <1>6, <1>7, <1>8, <1>9, <1>10, <1>11
  DEF Next, JobStep

\* While a pass runs, every row in flight is on its list or in its hands, and none
\* is left when it signs (processPreUsdPricePublication).
THEOREM PublicationInvariant == Spec => []JournalInv
<1>1. Init => JournalInv
  BY JournalInit
<1>2. JournalInv /\ [Next]_vars => JournalInv'
  BY JournalStep
<1> QED
  BY <1>1, <1>2, PTL DEF Spec

\* processPreUsdPricePublication and reconcilePublication implement the wallet
\* reservation, for every depth of reorganization and every use of the wallet by hand.
THEOREM PublicationImplementsWallet == Spec => ImplementsWallet
<1>1. Init => Wallet!Init
  BY JournalInit DEF Journal!Init, Wallet!Init, Journal!Rows, Wallet!Rows
<1>2. JournalInv /\ [Next]_vars => [Wallet!Next]_(Wallet!vars)
  BY JournalStep
  DEF Journal!Next, Wallet!Next, Journal!vars, Wallet!vars, Journal!Rows, Wallet!Rows,
      Journal!Sign, Wallet!Sign, Journal!Conclude, Wallet!Conclude, Journal!Reopen,
      Wallet!Reopen, Journal!Execute, Wallet!Execute, Journal!Rollback, Wallet!Rollback,
      Journal!Pending, Wallet!Pending, Journal!AboveLatest, Wallet!AboveLatest
<1> QED
  BY <1>1, <1>2, PublicationInvariant, PTL DEF Spec, ImplementsWallet, Wallet!Spec

\* The assumptions of KeywordMarketWallet hold of the instance: one wallet, no
\* charges, and as many nonces as the chain has blocks.
LEMMA JournalAssumptions ==
  /\ {} \cap Quotes = {} /\ "none" \notin {"updater"}
  /\ 0..MaxHeight \subseteq Nat /\ 0..(MaxHeight + 1) \subseteq Nat
  /\ TRUE \in BOOLEAN /\ \A v, w \in {"updater"} : v = w
  BY PublicationAssumption

\* So no two publications are ever signed for one nonce, whatever the chain, the
\* RPC node, the wallet's owner and crashes do.
THEOREM PublicationNonceNeverReused == Spec => []NonceNeverReused
<1>1. Init => Journal!Init
  BY JournalInit
<1>2. JournalInv /\ [Next]_vars => [Journal!Next]_(Journal!vars)
  BY JournalStep
<1>3. Spec => Journal!Spec
  BY <1>1, <1>2, PublicationInvariant, PTL DEF Spec, Journal!Spec
<1>4. Journal!Spec => []Journal!NonceNeverReused
  BY JournalAssumptions, Journal!NonceNeverReusedTheorem
<1>5. Journal!NonceNeverReused => NonceNeverReused
  <2> SUFFICES ASSUME Journal!NonceNeverReused, NEW t \in sent, NEW u \in sent,
                      t.nonce = u.nonce
               PROVE  t.quote = u.quote /\ t.attempt = u.attempt
    BY DEF NonceNeverReused
  <2> DEFINE entry(x) == [row |-> x.quote, wallet |-> "updater", nonce |-> x.nonce,
                          attempt |-> x.attempt]
  <2>1. entry(t) = entry(u)
    BY DEF Journal!NonceNeverReused
  <2> QED
    BY <2>1
<1> QED
  BY <1>3, <1>4, <1>5, PTL

-----------------------------------------------------------------------------
(* What a CONFIRMED row says of the chain. *)

\* The block executed a publication the worker signed.
Publishes(block) == block.tx # NoTx /\ block.tx.attempt # 0 /\ block.result # "reverted"

\* The contract holds the quote a block published, and never an older one later on
\* the same chain; no block is of a fork yet to come.
BlockShape ==
  /\ forks \in Nat
  /\ \A i \in DOMAIN chain :
       /\ chain[i].fork \in 0..forks /\ chain[i].price \in Nat
       /\ Publishes(chain[i]) => chain[i].price = chain[i].tx.quote
  /\ \A i, j \in DOMAIN chain : i <= j => chain[i].price <= chain[j].price
  /\ \A t \in pool \cup sent : t.quote \in Quotes
  /\ pass.head \in 0..Height

\* Receipt e names a block that was mined, and proves quote q while the block stands.
Backed(e, q) ==
  e.n \in 0..Height /\ e.hash \in 0..forks /\ (Canonical(e) => Price(e.n) = q)

\* The receipts recorded, and the one the pass has read and not yet judged.
ReceiptShape ==
  /\ \A q \in Quotes : row[q].status = "CONFIRMED" => Backed(row[q].receipt, q)
  /\ pass.pc = "resolve" /\ pass.receipt.result # "reverted" =>
       Backed(pass.receipt, pass.active)
  /\ pass.pc = "duplicate" =>
       /\ pass.receipt.n \in 0..Height /\ pass.receipt.hash \in 0..forks
       /\ pass.receipt.n <= Finalized(pass.head)

ReceiptInv == JournalInv /\ BlockShape /\ ReceiptShape

\* A CONFIRMED quote is in force in the newest block no reorganization reaches.
FinalShape ==
  \A q \in Quotes : row[q].status = "CONFIRMED" => Price(Finalized(Height)) >= q

\* Final blocks exist, and stay final as the chain grows.
LEMMA FinalizedBound ==
  /\ \A h \in Nat : Finalized(h) \in 0..h
  /\ \A g, h \in Nat : g <= h => Finalized(g) <= Finalized(h)
  BY PublicationAssumption DEF Finalized

LEMMA FinalPrice == JournalInv /\ BlockShape => Price(Finalized(Height)) \in Nat
<1> SUFFICES ASSUME JournalInv, BlockShape
             PROVE  Price(Finalized(Height)) \in Nat
  OBVIOUS
<1>1. Finalized(Height) + 1 \in DOMAIN chain
  BY FinalizedBound DEF Height, JournalInv, ChainShape
<1> QED
  BY <1>1 DEF BlockShape, Price, Block

\* What a step of the chain keeps: receipts prove what they did, and unless
\* reorganizations are deep the final price does not fall.
ChainKeeps ==
  /\ BlockShape'
  /\ \A e, q : Backed(e, q) => Backed(e, q)'
  /\ MaxDepth < Confirmations => Price(Finalized(Height))' >= Price(Finalized(Height))

LEMMA ExtendKeeps ==
  ASSUME JournalInv, BlockShape, NEW tx, NEW result, NEW price, Extend(tx, result, price),
         price \in Nat, Price(Height) <= price,
         tx # NoTx /\ tx.attempt # 0 /\ result # "reverted" => price = tx.quote,
         forks' = forks, pass' = pass, \A t \in pool' \cup sent' : t.quote \in Quotes
  PROVE  ChainKeeps
<1> DEFINE L == Len(chain)
           new == [fork |-> forks, tx |-> tx, result |-> result, price |-> price]
<1>1. /\ chain \in Seq({chain[i] : i \in DOMAIN chain}) /\ L \in Nat /\ L >= 1
      /\ DOMAIN chain = 1..L
  BY DEF JournalInv, ChainShape
<1>2. chain' = Append(chain, new)
  BY DEF Extend
<1>3. new.fork = forks /\ new.price = price /\ (Publishes(new) => price = new.tx.quote)
  BY DEF Publishes
<1> HIDE DEF new
<1>4. /\ DOMAIN chain' = 1..(L + 1) /\ Len(chain') = L + 1
      /\ \A i \in 1..L : chain'[i] = chain[i]
      /\ chain'[L + 1] = new
  BY <1>1, <1>2
<1>5. Height = L - 1 /\ Height' = L /\ Height \in Nat
  BY <1>1, <1>4 DEF Height
<1>6. chain[L].price <= price /\ \A i \in 1..L : chain[i].price <= chain[L].price
  <2>1. chain[L].price <= price
    BY <1>5, <1>1 DEF Price, Block
  <2>2. ASSUME NEW i \in 1..L
        PROVE  chain[i].price <= chain[L].price
    <3>1. i <= L /\ i \in DOMAIN chain /\ L \in DOMAIN chain
      BY <1>1
    <3> QED
      BY <3>1 DEF BlockShape
  <2> QED
    BY <2>1, <2>2
<1>7. BlockShape'
  <2>1. \A i \in 1..(L + 1) : i \in 1..L \/ i = L + 1
    BY <1>1
  <2>2. /\ forks' \in Nat
        /\ \A i \in DOMAIN chain' :
             /\ chain'[i].fork \in 0..forks' /\ chain'[i].price \in Nat
             /\ Publishes(chain'[i]) => chain'[i].price = chain'[i].tx.quote
    BY <1>1, <1>3, <1>4, <2>1 DEF BlockShape
  <2>3. ASSUME NEW i \in 1..(L + 1), NEW j \in 1..(L + 1), i <= j
        PROVE  chain'[i].price <= chain'[j].price
    <3>1. CASE j \in 1..L
      <4>1. i \in 1..L
        BY <1>1, <2>3, <3>1
      <4> QED
        BY <1>1, <1>4, <2>3, <3>1, <4>1 DEF BlockShape
    <3>2. CASE j = L + 1 /\ i \in 1..L
      <4>1. chain[i].price \in Nat /\ chain[L].price \in Nat
        BY <1>1, <3>2 DEF BlockShape
      <4> QED
        BY <1>3, <1>4, <1>6, <3>2, <4>1
    <3>3. CASE j = L + 1 /\ i = L + 1
      BY <1>3, <1>4, <3>3
    <3> QED
      BY <2>1, <2>3, <3>1, <3>2, <3>3
  <2>4. pass'.head \in 0..Height'
    BY <1>5 DEF BlockShape
  <2>5. \A i, j \in DOMAIN chain' : i <= j => chain'[i].price <= chain'[j].price
    BY <1>4, <2>3
  <2> QED
    BY <2>2, <2>4, <2>5 DEF BlockShape, Publishes
<1>8. ASSUME NEW n \in 0..Height
      PROVE  Block(n)' = Block(n)
  BY <1>1, <1>4, <1>5, <1>8 DEF Block
<1>9. ASSUME NEW e, NEW q, Backed(e, q)
      PROVE  Backed(e, q)'
  <2>1. e.n \in 0..Height' /\ e.hash \in 0..forks' /\ Block(e.n)' = Block(e.n)
    BY <1>5, <1>8, <1>9 DEF Backed
  <2> QED
    BY <1>9, <2>1 DEF Backed, Canonical, Price
<1>10. Price(Finalized(Height))' >= Price(Finalized(Height))
  <2> DEFINE f == Finalized(Height)
             g == Finalized(Height + 1)
  <2>1. f \in 0..Height /\ g \in 0..(Height + 1) /\ f <= g
    BY <1>5, FinalizedBound
  <2>2. Finalized(Height') = g /\ Finalized(Height)' = Finalized(Height')
    BY <1>5 DEF Finalized
  <2> HIDE DEF f, g
  <2>3. f + 1 \in 1..(L + 1) /\ g + 1 \in 1..(L + 1) /\ f + 1 <= g + 1 /\ f + 1 \in 1..L
    BY <1>1, <1>5, <2>1
  <2>4. chain'[f + 1].price <= chain'[g + 1].price /\ chain'[f + 1] = chain[f + 1]
    BY <1>4, <1>7, <2>3 DEF BlockShape
  <2>5. chain[f + 1].price \in Nat /\ chain'[g + 1].price \in Nat
    BY <1>1, <1>4, <1>7, <2>3 DEF BlockShape
  <2> QED
    BY <2>2, <2>4, <2>5 DEF Price, Block, f
<1> QED
  BY <1>7, <1>9, <1>10 DEF ChainKeeps

\* A reorganization leaves the blocks below it, and a receipt above it is of a fork
\* that is gone.
LEMMA ReorgKeeps ==
  ASSUME JournalInv, BlockShape, NEW depth \in 1..MaxDepth, NEW returned \in BOOLEAN,
         Reorg(depth, returned)
  PROVE  ChainKeeps
<1> DEFINE L == Len(chain)
           keep == L - depth
           new == [fork |-> forks + 1, tx |-> NoTx, result |-> "none",
                   price |-> chain[keep].price]
<1>1. L \in Nat /\ L >= 1 /\ DOMAIN chain = 1..L /\ forks \in Nat /\ depth \in Nat
  BY PublicationAssumption DEF JournalInv, ChainShape, BlockShape
<1>2. /\ chain' = [i \in 1..L |-> IF i <= keep THEN chain[i] ELSE new] /\ depth <= L - 1
      /\ forks' = forks + 1 /\ pass' = pass /\ sent' = sent /\ pool' \subseteq pool \cup sent
  BY DEF Reorg, Height
<1>3. keep \in 1..L /\ keep < L
  BY <1>1, <1>2
<1>4. new.fork = forks + 1 /\ new.price = chain[keep].price /\ ~Publishes(new)
  BY DEF Publishes
<1> HIDE DEF new
<1>5. /\ DOMAIN chain' = 1..L
      /\ \A i \in 1..L : i <= keep => chain'[i] = chain[i]
      /\ \A i \in 1..L : i > keep => chain'[i] = new
  BY <1>1, <1>2, <1>3
<1>6. Len(chain') = L /\ Height = L - 1 /\ Height' = L - 1
  <2>1. chain' = [i \in 1..L |-> chain'[i]]
    BY <1>2
  <2>2. Len(chain') = L
    BY <1>1, <2>1
  <2> QED
    BY <2>2 DEF Height
<1> HIDE DEF keep
<1>7. BlockShape'
  <2>1. ASSUME NEW i \in 1..L
        PROVE  /\ chain'[i].fork \in 0..(forks + 1) /\ chain'[i].price \in Nat
               /\ Publishes(chain'[i]) => chain'[i].price = chain'[i].tx.quote
    <3>1. /\ chain[i].fork \in 0..(forks + 1) /\ chain[i].price \in Nat
          /\ Publishes(chain[i]) => chain[i].price = chain[i].tx.quote
      <4>1. chain[i].fork \in 0..forks
        BY <1>1 DEF BlockShape
      <4>2. chain[i].fork \in 0..(forks + 1)
        BY <1>1, <4>1
      <4> QED
        BY <1>1, <4>2 DEF BlockShape
    <3>2. CASE i <= keep
      BY <1>5, <3>1, <3>2
    <3>3. CASE ~(i <= keep)
      <4>1. chain'[i] = new
        BY <1>3, <1>5, <3>3
      <4>2. chain[keep].price \in Nat /\ forks + 1 \in 0..(forks + 1)
        BY <1>1, <1>3 DEF BlockShape
      <4> QED
        BY <1>4, <4>1, <4>2
    <3> QED
      BY <3>2, <3>3
  <2>2. ASSUME NEW i \in 1..L, NEW j \in 1..L, i <= j
        PROVE  chain'[i].price <= chain'[j].price
    <3>1. /\ i <= j => chain[i].price <= chain[j].price
          /\ i <= keep => chain[i].price <= chain[keep].price
          /\ chain[keep].price \in Nat
      BY <1>1, <1>3 DEF BlockShape
    <3>2. CASE j <= keep
      BY <1>3, <1>5, <2>2, <3>1, <3>2
    <3>3. CASE ~(j <= keep) /\ i <= keep
      BY <1>3, <1>4, <1>5, <3>1, <3>3
    <3>4. CASE ~(i <= keep)
      BY <1>3, <1>4, <1>5, <2>2, <3>1, <3>4
    <3> QED
      BY <1>3, <2>2, <3>2, <3>3, <3>4
  <2>3. \A t \in pool' \cup sent' : t.quote \in Quotes
    BY <1>2 DEF BlockShape
  <2>4. pass'.head \in 0..Height'
    BY <1>2, <1>6 DEF BlockShape
  <2>5. \A i, j \in DOMAIN chain' : i <= j => chain'[i].price <= chain'[j].price
    BY <1>5, <2>2
  <2>6. forks' \in Nat /\ forks' = forks + 1
    BY <1>1, <1>2
  <2>7. \A i \in DOMAIN chain' :
          /\ chain'[i].fork \in 0..forks' /\ chain'[i].price \in Nat
          /\ Publishes(chain'[i]) => chain'[i].price = chain'[i].tx.quote
    BY <1>5, <2>1, <2>6
  <2> QED
    BY <2>3, <2>4, <2>5, <2>6, <2>7 DEF BlockShape, Publishes
<1>8. ASSUME NEW n \in 0..Height, n + 1 <= keep
      PROVE  Block(n)' = Block(n)
  <2>1. n + 1 \in 1..L
    BY <1>1, <1>6, <1>8
  <2> QED
    BY <1>5, <1>8, <2>1 DEF Block
<1>9. ASSUME NEW e, NEW q, Backed(e, q)
      PROVE  Backed(e, q)'
  <2>1. e.n \in 0..Height /\ e.hash \in 0..forks
    BY <1>9 DEF Backed
  <2>2. e.n \in 0..Height' /\ e.hash \in 0..forks'
    <3>1. e.hash \in 0..(forks + 1)
      BY <1>1, <2>1
    <3> QED
      BY <1>2, <1>6, <2>1, <3>1
  <2>3. CASE e.n + 1 <= keep
    <3>1. Block(e.n)' = Block(e.n)
      BY <1>8, <2>1, <2>3
    <3> QED
      BY <1>9, <2>2, <3>1 DEF Backed, Canonical, Price
  <2>4. CASE ~(e.n + 1 <= keep)
    <3>1. e.n + 1 \in 1..L
      BY <1>1, <1>6, <2>1
    <3>2. chain'[e.n + 1].fork = forks + 1
      BY <1>3, <1>4, <1>5, <2>4, <3>1
    <3>3. ~ Canonical(e)'
      BY <1>1, <2>1, <3>2 DEF Canonical, Block
    <3> QED
      BY <2>2, <3>3 DEF Backed
  <2> QED
    BY <2>3, <2>4
<1>10. MaxDepth < Confirmations => Price(Finalized(Height))' >= Price(Finalized(Height))
  <2> SUFFICES ASSUME MaxDepth < Confirmations
               PROVE  Price(Finalized(Height))' >= Price(Finalized(Height))
    OBVIOUS
  <2>1. Finalized(Height) \in 0..Height /\ Finalized(Height) + 1 <= keep
    <3>1. depth <= Confirmations - 1 /\ Confirmations \in Nat
      BY <1>1, PublicationAssumption
    <3> QED
      BY <1>1, <1>2, <1>6, <3>1 DEF Finalized, keep
  <2>2. PICK n \in 0..Height : n = Finalized(Height) /\ n + 1 <= keep
    BY <2>1
  <2>3. Finalized(Height)' = n
    BY <1>6, <2>2 DEF Finalized
  <2>4. Block(n)' = Block(n) /\ n + 1 \in 1..L
    BY <1>1, <1>6, <1>8, <2>2
  <2>5. Block(n).price \in Nat
    BY <1>1, <2>4 DEF BlockShape, Block
  <2> QED
    BY <2>2, <2>3, <2>4, <2>5 DEF Price
<1> QED
  BY <1>7, <1>9, <1>10 DEF ChainKeeps

LEMMA ChainStepKeeps ==
  ASSUME JournalInv, BlockShape,
         \/ \E tx \in pool, authorized \in BOOLEAN : Mine(tx, authorized)
         \/ \E tx \in pool : Lose(tx)
         \/ \E q \in ByHand : SendByHand(q)
         \/ MineEmpty
         \/ \E depth \in 1..MaxDepth, returned \in BOOLEAN : Reorg(depth, returned)
  PROVE  ChainKeeps
<1>1. /\ Height \in Nat /\ Quotes \subseteq Nat /\ ByHand \subseteq Nat
      /\ Price(Height) \in Nat
  <2>1. Len(chain) \in Nat /\ Len(chain) >= 1 /\ DOMAIN chain = 1..Len(chain)
    BY DEF JournalInv, ChainShape
  <2>2. Quotes \subseteq Nat /\ ByHand \subseteq Nat
    BY PublicationAssumption DEF Quotes
  <2>3. Price(Height) = chain[Len(chain)].price
    BY <2>1 DEF Height, Price, Block
  <2> QED
    BY <2>1, <2>2, <2>3 DEF Height, BlockShape
<1>2. ASSUME NEW tx \in pool, NEW authorized \in BOOLEAN, Mine(tx, authorized)
      PROVE  ChainKeeps
  <2> DEFINE result == IF authorized THEN Outcome(tx.quote) ELSE "reverted"
             price == IF result = "updated" THEN tx.quote ELSE Price(Height)
  <2>1. /\ Extend(tx, result, price) /\ pool' \subseteq pool
        /\ forks' = forks /\ pass' = pass /\ sent' = sent
    BY <1>2 DEF Mine
  <2>2. tx.quote \in Nat
    BY <1>1 DEF BlockShape
  <2>3. price \in Nat /\ Price(Height) <= price /\ (result # "reverted" => price = tx.quote)
    BY <1>1, <2>2 DEF Outcome
  <2>4. \A t \in pool' \cup sent' : t.quote \in Quotes
    BY <2>1 DEF BlockShape
  <2> HIDE DEF result, price
  <2> QED
    BY <2>1, <2>3, <2>4, ExtendKeeps
<1>3. ASSUME NEW q \in ByHand, SendByHand(q)
      PROVE  ChainKeeps
  <2> DEFINE tx == [quote |-> q, nonce |-> AccountNonce, attempt |-> 0]
             price == Max({q, Price(Height)})
  <2>1. /\ Extend(tx, "updated", price) /\ pool' \subseteq pool
        /\ forks' = forks /\ pass' = pass /\ sent' = sent
    BY <1>3 DEF SendByHand
  <2>2. price \in Nat /\ Price(Height) <= price
    BY <1>1, MaxOfTwo
  <2>3. \A t \in pool' \cup sent' : t.quote \in Quotes
    BY <2>1 DEF BlockShape
  <2>4. tx.attempt = 0
    OBVIOUS
  <2> HIDE DEF tx, price
  <2> QED
    BY <2>1, <2>2, <2>3, <2>4, ExtendKeeps
<1>4. ASSUME MineEmpty
      PROVE  ChainKeeps
  <2>1. /\ Extend(NoTx, "none", Price(Height)) /\ pool' = pool
        /\ forks' = forks /\ pass' = pass /\ sent' = sent
    BY <1>4 DEF MineEmpty
  <2>2. \A t \in pool' \cup sent' : t.quote \in Quotes
    BY <2>1 DEF BlockShape
  <2> QED
    BY <1>1, <2>1, <2>2, ExtendKeeps
<1>5. ASSUME NEW tx \in pool, Lose(tx)
      PROVE  ChainKeeps
  <2>1. /\ chain' = chain /\ forks' = forks /\ pool' \subseteq pool /\ sent' = sent
        /\ pass' = pass
    BY <1>5 DEF Lose
  <2>2. BlockShape' /\ \A e, q : Backed(e, q) => Backed(e, q)'
    BY <2>1 DEF BlockShape, Publishes, Backed, Canonical, Block, Price, Height
  <2>3. Price(Finalized(Height))' = Price(Finalized(Height))
    BY <2>1 DEF Price, Block, Finalized, Height
  <2>4. Price(Finalized(Height)) \in Nat
    <3>1. Finalized(Height) + 1 \in DOMAIN chain
      BY <1>1, FinalizedBound DEF Height, JournalInv, ChainShape
    <3> QED
      BY <3>1 DEF BlockShape, Price, Block
  <2> QED
    BY <2>2, <2>3, <2>4 DEF ChainKeeps
<1> QED
  BY <1>2, <1>3, <1>4, <1>5, ReorgKeeps

-----------------------------------------------------------------------------
\* A step of the program records a row as CONFIRMED only on the receipt it judges.
Judged(e, q) == Backed(e, q) /\ Price(e.n) = q /\ e.n <= Finalized(pass.head)

KeepsConfirmed ==
  \A q \in Quotes : row'[q].status = "CONFIRMED" =>
    \/ row[q].status = "CONFIRMED" /\ row'[q].receipt = row[q].receipt
    \/ row'[q].receipt = pass.receipt /\ Judged(pass.receipt, q)

LEMMA OneStatus ==
  ASSUME JournalInv, NEW b \in Quotes, NEW s, s # "CONFIRMED",
         row' = [row EXCEPT ![b].status = s]
  PROVE  KeepsConfirmed
<1>1. /\ row'[b] = [row[b] EXCEPT !.status = s] /\ "status" \in DOMAIN row[b]
      /\ \A q \in Quotes \ {b} : row'[q] = row[q]
  BY DEF JournalInv, TableShape
<1>2. row'[b].status = s
  BY <1>1
<1> QED
  BY <1>1, <1>2 DEF KeepsConfirmed

LEMMA ThrewKeepsConfirmed ==
  ASSUME JournalInv, NEW outage, Threw(outage)
  PROVE  KeepsConfirmed
<1>1. CASE row' = row
  BY <1>1 DEF KeepsConfirmed
<1>2. CASE /\ pass.active # 0 /\ pass.live
           /\ row' = [row EXCEPT ![pass.active].status = "RECONCILING"]
  BY <1>2, OneStatus DEF JournalInv, PassShape
<1> QED
  BY <1>1, <1>2 DEF Threw

LEMMA ResolveKeepsConfirmed ==
  ASSUME ReceiptInv, ResolveReceipt
  PROVE  KeepsConfirmed
<1> DEFINE q == pass.active
           e == pass.receipt
<1>1. q \in Quotes /\ pass.pc = "resolve" /\ Columns \subseteq DOMAIN row[q]
      /\ DOMAIN row = Quotes
  BY DEF ResolveReceipt, ReceiptInv, JournalInv, PassShape, TableShape, ReconcileSteps
<1>2. CASE row' = [row EXCEPT ![q].status = "RECONCILING"]
  BY <1>1, <1>2, OneStatus DEF ReceiptInv
<1>3. CASE Confirmed(e) /\ row' = [row EXCEPT ![q] = Resolved(e, q)]
  <2>1. row'[q] = Resolved(e, q) /\ \A p \in Quotes \ {q} : row'[p] = row[p]
    BY <1>1, <1>3
  <2>2. Resolved(e, q).status = "CONFIRMED" =>
          e.result # "reverted" /\ Resolved(e, q).receipt = e
    BY <1>1 DEF Resolved
  <2>3. e.result # "reverted" => Judged(e, q)
    BY <1>1, <1>3 DEF Judged, Confirmed, ReceiptInv, ReceiptShape, Backed
  <2> QED
    BY <1>1, <1>3, <2>1, <2>2, <2>3 DEF KeepsConfirmed
<1>4. CASE row' = row
  BY <1>4 DEF KeepsConfirmed
<1> QED
  BY <1>2, <1>3, <1>4 DEF ResolveReceipt

LEMMA DuplicateKeepsConfirmed ==
  ASSUME ReceiptInv, CheckDuplicate
  PROVE  KeepsConfirmed
<1> DEFINE q == pass.active
           e == pass.receipt
           s == IF Price(e.n) > q THEN "SUPERSEDED" ELSE "CONFIRMED"
           r == [row[q] EXCEPT !.status = s, !.receipt = e, !.deferred = FALSE]
<1>1. q \in Quotes /\ pass.pc = "duplicate" /\ Columns \subseteq DOMAIN row[q]
      /\ DOMAIN row = Quotes /\ e.n \in 0..Height /\ e.hash \in 0..forks
      /\ e.n <= Finalized(pass.head)
  BY DEF CheckDuplicate, ReceiptInv, JournalInv, PassShape, TableShape, ReconcileSteps,
         ReceiptShape
<1>2. q \in Nat /\ Price(e.n) \in Nat
  <2>1. e.n + 1 \in DOMAIN chain
    BY <1>1 DEF Height, ReceiptInv, JournalInv, ChainShape
  <2> QED
    BY <1>1, <2>1 DEF Quotes, ReceiptInv, BlockShape, Price, Block
<1>3. CASE Threw(FALSE)
  BY <1>3, ThrewKeepsConfirmed DEF ReceiptInv
<1>4. CASE Price(e.n) >= q /\ row' = [row EXCEPT ![q] = r]
  <2>1. r.status = s /\ r.receipt = e
    BY <1>1
  <2>2. s = "CONFIRMED" => Judged(e, q)
    BY <1>1, <1>2, <1>4 DEF Judged, Backed
  <2> HIDE DEF r, s
  <2>3. row'[q] = r /\ \A p \in Quotes \ {q} : row'[p] = row[p]
    BY <1>1, <1>4
  <2> QED
    BY <2>1, <2>2, <2>3 DEF KeepsConfirmed
<1> QED
  BY <1>3, <1>4 DEF CheckDuplicate

LEMMA ReadQuoteKeepsConfirmed ==
  ASSUME JournalInv, ReadQuote
  PROVE  KeepsConfirmed
<1>1. CASE row' = row
  BY <1>1 DEF KeepsConfirmed
<1>2. ASSUME NEW current,
             row' = [p \in Quotes |-> IF p <= current /\ row[p].status \in {"PREPARED", "FAILED"}
                                      THEN [row[p] EXCEPT !.status = "SUPERSEDED"] ELSE row[p]]
      PROVE  KeepsConfirmed
  <2>1. ASSUME NEW p \in Quotes
        PROVE  row'[p] = row[p] \/ row'[p].status = "SUPERSEDED"
    <3>1. "status" \in DOMAIN row[p]
      BY DEF JournalInv, TableShape
    <3>2. row'[p] = row[p] \/ row'[p] = [row[p] EXCEPT !.status = "SUPERSEDED"]
      BY <1>2
    <3> QED
      BY <3>1, <3>2
  <2> QED
    BY <2>1 DEF KeepsConfirmed
<1>3. ASSUME quotes # {}, row' = [row EXCEPT ![Max(quotes)].status = "PREPARED"]
      PROVE  KeepsConfirmed
  <2>1. quotes \subseteq 0..NQuotes /\ NQuotes \in Nat /\ quotes \subseteq Quotes
    BY PublicationAssumption DEF Quotes, JournalInv, TableShape
  <2>2. Max(quotes) \in Quotes
    BY <1>3, <2>1, MaxMember
  <2> QED
    BY <1>3, <2>2, OneStatus
<1> QED
  BY <1>1, <1>2, <1>3 DEF ReadQuote

LEMMA SignKeepsConfirmed ==
  ASSUME JournalInv, SignPublication
  PROVE  KeepsConfirmed
<1> DEFINE q == pass.active
<1>1. q \in Quotes /\ "status" \in DOMAIN row[q]
  BY DEF SignPublication, JournalInv, PassShape, TableShape
<1>2. CASE Threw(FALSE)
  BY <1>2, ThrewKeepsConfirmed
<1>3. CASE row' = [row EXCEPT ![q] =
                     [@ EXCEPT !.status = "SIGNED", !.nonce = PendingNonce,
                               !.attempts = row[q].attempts + 1,
                               !.receipt = NoBlock, !.deferred = FALSE]]
  <2> DEFINE r == [row[q] EXCEPT !.status = "SIGNED", !.nonce = PendingNonce,
                                 !.attempts = row[q].attempts + 1,
                                 !.receipt = NoBlock, !.deferred = FALSE]
  <2>1. r.status = "SIGNED"
    BY <1>1
  <2>2. row' = [row EXCEPT ![q] = r]
    BY <1>3
  <2> HIDE DEF r
  <2>3. row'[q] = r /\ \A p \in Quotes \ {q} : row'[p] = row[p]
    BY <1>1, <2>2 DEF JournalInv, TableShape
  <2> QED
    BY <2>1, <2>3 DEF KeepsConfirmed
<1> QED
  BY <1>2, <1>3 DEF SignPublication

\* The steps of the program, the provider and time.
ProgramStep ==
  \/ \E q \in Quotes : CollectQuote(q) \/ ReachNextAttempt(q)
  \/ JobStep \/ CallFails \/ Crash

LEMMA ProgramKeepsConfirmed ==
  ASSUME ReceiptInv, ProgramStep
  PROVE  KeepsConfirmed
<1> USE DEF ReceiptInv
<1>1. CASE row' = row
  BY <1>1 DEF KeepsConfirmed
<1>2. ASSUME NEW q \in Quotes, ReachNextAttempt(q)
      PROVE  KeepsConfirmed
  <2>1. /\ Columns \subseteq DOMAIN row[q] /\ row'[q] = [row[q] EXCEPT !.deferred = FALSE]
        /\ \A p \in Quotes \ {q} : row'[p] = row[p]
    BY <1>2 DEF ReachNextAttempt, JournalInv, TableShape
  <2>2. row'[q].status = row[q].status /\ row'[q].receipt = row[q].receipt
    BY <2>1
  <2> QED
    BY <2>1, <2>2 DEF KeepsConfirmed
<1>3. CASE ConsumedNonce \/ ReadPendingNonce
  <2>1. pass.active \in Quotes
    BY <1>3 DEF ConsumedNonce, ReadPendingNonce, JournalInv, PassShape, ReconcileSteps
  <2>2. CASE row' = [row EXCEPT ![pass.active].status = "SUPERSEDED"]
    BY <2>1, <2>2, OneStatus
  <2>3. CASE Threw(FALSE)
    BY <2>3, ThrewKeepsConfirmed
  <2> QED
    BY <1>1, <1>3, <2>2, <2>3 DEF ConsumedNonce, ReadPendingNonce
<1>4. CASE RecordBroadcast
  <2>1. pass.active \in Quotes
    BY <1>4 DEF RecordBroadcast, JournalInv, PassShape, ReconcileSteps
  <2> QED
    BY <1>4, <2>1, OneStatus DEF RecordBroadcast
<1>5. CASE CheckPrevious
  <2>1. ASSUME NEW q \in Newest, row' = [row EXCEPT ![q].status = "RECONCILING"]
        PROVE  KeepsConfirmed
    BY <2>1, OneStatus DEF Newest, Settled
  <2> QED
    BY <1>1, <1>5, <2>1 DEF CheckPrevious
<1>6. CASE CallFails
  BY <1>6, ThrewKeepsConfirmed DEF CallFails
<1>7. CASE \/ \E q \in Quotes : CollectQuote(q)
           \/ BeginJob \/ NextOutstanding \/ ReadReceipt \/ ReadLatestNonce \/ Crash
           \/ \E accepted \in BOOLEAN, reply \in {"accepted", "unknown", "gas"} :
                Broadcast(accepted, reply)
  BY <1>1, <1>7 DEF CollectQuote, BeginJob, NextOutstanding, ReadReceipt, ReadLatestNonce,
                    Crash, Broadcast
<1> QED
  BY <1>2, <1>3, <1>4, <1>5, <1>6, <1>7, ResolveKeepsConfirmed, DuplicateKeepsConfirmed,
     ReadQuoteKeepsConfirmed, SignKeepsConfirmed
  DEF ProgramStep, JobStep

\* The receipt read names a block of the worker's own transaction.
LEMMA ReadReceiptBacked ==
  ASSUME ReceiptInv, ReadReceipt, pass'.pc = "resolve", pass'.receipt.result # "reverted"
  PROVE  Backed(pass'.receipt, pass'.active)
<1> DEFINE mined == {n \in Mined : Block(n).tx = Transaction(pass.active)}
           m == Min(mined)
<1>1. /\ pass.pc = "receipt" /\ pass.active \in Quotes
      /\ row[pass.active].attempts # 0 /\ DOMAIN pass = DOMAIN IdlePass
  BY DEF ReadReceipt, ReceiptInv, JournalInv, PassShape, TableShape, ReconcileSteps
<1>2. CASE mined = {}
  <2>1. pass' = [pass EXCEPT !.pc = "nonces"]
    BY <1>2 DEF ReadReceipt
  <2>2. pass'.pc = "nonces"
    BY <1>1, <2>1 DEF IdlePass
  <2> QED
    BY <2>2
<1>3. CASE mined # {}
  <2>1. pass' = [pass EXCEPT !.pc = "resolve",
                   !.receipt = [n |-> m, hash |-> Block(m).fork, result |-> Block(m).result]]
    BY <1>3 DEF ReadReceipt
  <2>2. mined \subseteq Nat
    BY DEF Mined
  <2>3. m \in mined
    BY <1>3, <2>2, MinMember
  <2>4. m \in 0..Height /\ Block(m).tx # NoTx /\ Block(m).tx = Transaction(pass.active)
    BY <2>3 DEF Mined
  <2> HIDE DEF m, mined
  <2>5. /\ pass'.active = pass.active /\ pass'.receipt.n = m
        /\ pass'.receipt.hash = Block(m).fork /\ pass'.receipt.result = Block(m).result
    BY <1>1, <2>1 DEF IdlePass
  <2>6. Block(m).tx.quote = pass.active /\ Block(m).tx.attempt # 0
    BY <1>1, <2>4 DEF Transaction
  <2>7. Publishes(Block(m))
    BY <2>4, <2>5, <2>6 DEF Publishes
  <2>8. m + 1 \in DOMAIN chain
    BY <2>4 DEF Height, ReceiptInv, JournalInv, ChainShape
  <2>9. Block(m).fork \in 0..forks /\ Price(m) = pass.active
    BY <2>6, <2>7, <2>8 DEF ReceiptInv, BlockShape, Block, Price
  <2> QED
    BY <2>4, <2>5, <2>9 DEF Backed
<1> QED
  BY <1>2, <1>3

\* What a step of the program does besides the rows.
LEMMA ProgramQuiet ==
  ASSUME ReceiptInv, ProgramStep
  PROVE  /\ chain' = chain /\ forks' = forks
         /\ pass'.head \in 0..Height
         /\ \A t \in pool' \cup sent' : t.quote \in Quotes
         /\ pass'.pc = "resolve" => pass' = pass \/ ReadReceipt
         /\ pass'.pc = "duplicate" => pass' = pass \/ ResolveReceipt
<1>1. Height \in Nat /\ pass.head \in 0..Height /\ DOMAIN pass = DOMAIN IdlePass
      /\ \A t \in pool \cup sent : t.quote \in Quotes
  BY DEF ReceiptInv, BlockShape, JournalInv, ChainShape, PassShape, Height
<1>2. ASSUME pass' = IdlePass \/ \E o : pass' = [IdlePass EXCEPT !.outage = o]
      PROVE  pass'.head \in 0..Height /\ pass'.pc = "idle"
  BY <1>1, <1>2 DEF IdlePass
<1>3. ASSUME NEW waiting \in BOOLEAN, Returned(waiting)
      PROVE  pass'.head \in 0..Height /\ pass'.pc \notin {"resolve", "duplicate"}
  <2>1. CASE pass' = IdlePass
    BY <1>2, <2>1
  <2>2. CASE pass' = [pass EXCEPT !.pc = IF pass.caller = "loop" THEN "loop" ELSE "quote",
                                  !.receipt = NoBlock]
    BY <1>1, <2>2 DEF IdlePass
  <2> QED
    BY <1>3, <2>1, <2>2 DEF Returned
<1>4. ASSUME NEW outage, Threw(outage)
      PROVE  pass'.head \in 0..Height /\ pass'.pc \notin {"resolve", "duplicate"}
  BY <1>2, <1>4 DEF Threw
<1>5. chain' = chain /\ forks' = forks
  BY DEF ProgramStep, JobStep, CollectQuote, ReachNextAttempt, BeginJob, NextOutstanding,
         ReadReceipt, ResolveReceipt, CheckDuplicate, ReadLatestNonce, ConsumedNonce,
         ReadPendingNonce, Broadcast, RecordBroadcast, CheckPrevious,
         ReadQuote, SignPublication, CallFails, Crash, chainVars
<1>6. /\ pass'.head \in 0..Height
      /\ pass'.pc = "resolve" => pass' = pass \/ ReadReceipt
      /\ pass'.pc = "duplicate" => pass' = pass \/ ResolveReceipt
  <2>1. CASE \/ \E q \in Quotes : CollectQuote(q) \/ ReachNextAttempt(q)
             \/ ReadReceipt
    <3>1. pass'.head = pass.head
      BY <1>1, <2>1 DEF CollectQuote, ReachNextAttempt, ReadReceipt, IdlePass
    <3>2. pass' = pass \/ (ReadReceipt /\ pass'.pc # "duplicate")
      BY <1>1, <2>1 DEF CollectQuote, ReachNextAttempt, ReadReceipt, IdlePass
    <3> QED
      BY <1>1, <3>1, <3>2
  <2>2. CASE \/ BeginJob \/ NextOutstanding \/ ReadLatestNonce
             \/ \E accepted \in BOOLEAN, reply \in {"accepted", "unknown", "gas"} :
                  Broadcast(accepted, reply)
    <3>1. /\ pass'.head \in {pass.head, Height}
          /\ pass'.pc \in {"loop", "receipt", "consumed", "pending", "record"}
      BY <1>1, <2>2 DEF BeginJob, NextOutstanding, ReadLatestNonce, Broadcast, IdlePass
    <3> QED
      BY <1>1, <3>1
  <2>3. CASE ResolveReceipt \/ CheckDuplicate \/ ConsumedNonce \/ ReadPendingNonce
    <3>1. CASE \E waiting \in BOOLEAN : Returned(waiting)
      BY <1>3, <3>1
    <3>2. CASE Threw(FALSE)
      BY <1>4, <3>2
    <3>3. CASE pass' = [pass EXCEPT !.pc = "broadcast"]
      BY <1>1, <3>3 DEF IdlePass
    <3>4. CASE ResolveReceipt /\ pass' = [pass EXCEPT !.pc = "duplicate"]
      BY <1>1, <3>4 DEF IdlePass
    <3> QED
      BY <2>3, <3>1, <3>2, <3>3, <3>4
      DEF ResolveReceipt, CheckDuplicate, ConsumedNonce, ReadPendingNonce
  <2>4. CASE RecordBroadcast \/ Crash
    BY <1>2, <2>4 DEF RecordBroadcast, Crash
  <2>5. CASE CheckPrevious
    <3>1. pass'.head = pass.head /\ pass'.pc \in {"quote", "receipt"}
      BY <1>1, <2>5 DEF CheckPrevious, IdlePass
    <3> QED
      BY <1>1, <3>1
  <2>6. CASE ReadQuote
    <3>1. CASE pass' = IdlePass
      BY <1>2, <3>1
    <3>2. CASE pass' = [pass EXCEPT !.pc = "sign", !.active = Max(quotes),
                                    !.live = row[Max(quotes)].status \in InFlight]
      BY <1>1, <3>2 DEF IdlePass
    <3> QED
      BY <2>6, <3>1, <3>2 DEF ReadQuote
  <2>7. CASE SignPublication
    <3>1. CASE Threw(FALSE)
      BY <1>4, <3>1
    <3>2. CASE pass' = [pass EXCEPT !.pc = "receipt", !.caller = "signed", !.live = TRUE]
      BY <1>1, <3>2 DEF IdlePass
    <3> QED
      BY <2>7, <3>1, <3>2 DEF SignPublication
  <2>8. CASE CallFails
    BY <1>4, <2>8 DEF CallFails
  <2> QED
    BY <2>1, <2>2, <2>3, <2>4, <2>5, <2>6, <2>7, <2>8 DEF ProgramStep, JobStep
<1>7. \A t \in pool' \cup sent' : t.quote \in Quotes
  <2>1. CASE \E accepted \in BOOLEAN, reply \in {"accepted", "unknown", "gas"} :
               Broadcast(accepted, reply)
    <3>1. pool' \subseteq pool \cup {Transaction(pass.active)} /\ sent' = sent
          /\ pass.active \in Quotes
      BY <2>1 DEF Broadcast, ReceiptInv, JournalInv, PassShape, ReconcileSteps
    <3>2. Transaction(pass.active).quote = pass.active
      BY DEF Transaction
    <3> QED
      BY <1>1, <3>1, <3>2
  <2>2. CASE SignPublication
    <3> DEFINE tx == [quote |-> pass.active, nonce |-> PendingNonce,
                      attempt |-> row[pass.active].attempts + 1]
    <3>1. pool' = pool /\ sent' \subseteq sent \cup {tx} /\ pass.active \in Quotes
      BY <2>2 DEF SignPublication, chainVars, ReceiptInv, JournalInv, PassShape
    <3>2. tx.quote = pass.active
      OBVIOUS
    <3> HIDE DEF tx
    <3> QED
      BY <1>1, <3>1, <3>2
  <2>3. CASE pool' = pool /\ sent' = sent
    BY <1>1, <2>3
  <2> QED
    BY <2>1, <2>2, <2>3
    DEF ProgramStep, JobStep, CollectQuote, ReachNextAttempt, BeginJob, NextOutstanding,
        ReadReceipt, ResolveReceipt, CheckDuplicate, ReadLatestNonce, ConsumedNonce,
        ReadPendingNonce, RecordBroadcast, CheckPrevious,
        ReadQuote, CallFails, Crash, chainVars
<1> QED
  BY <1>5, <1>6, <1>7

\* A program step keeps every receipt good, and confirms only what is final.
LEMMA ProgramStepKeeps ==
  ASSUME ReceiptInv, ProgramStep
  PROVE  BlockShape' /\ ReceiptShape' /\ (FinalShape => FinalShape')
<1>1. /\ chain' = chain /\ forks' = forks /\ pass'.head \in 0..Height
      /\ \A t \in pool' \cup sent' : t.quote \in Quotes
      /\ pass'.pc = "resolve" => pass' = pass \/ ReadReceipt
      /\ pass'.pc = "duplicate" => pass' = pass \/ ResolveReceipt
      /\ KeepsConfirmed
  BY ProgramQuiet, ProgramKeepsConfirmed DEF ReceiptInv
<1>2. Height' = Height
  BY <1>1 DEF Height
<1>3. BlockShape'
  BY <1>1, <1>2 DEF ReceiptInv, BlockShape, Publishes
<1>4. ASSUME NEW e, NEW q
      PROVE  Backed(e, q)' = Backed(e, q)
  BY <1>1, <1>2 DEF Backed, Canonical, Price, Block
<1>5. ASSUME NEW q \in Quotes, row'[q].status = "CONFIRMED"
      PROVE  Backed(row'[q].receipt, q)
  BY <1>1, <1>5 DEF KeepsConfirmed, Judged, ReceiptInv, ReceiptShape
<1>6. ASSUME NEW q \in Quotes, row'[q].status = "CONFIRMED"
      PROVE  Backed(row[q].receipt, q)'
  <2>1. PICK e : e = row'[q].receipt
    OBVIOUS
  <2>2. Backed(e, q)'
    BY <1>4, <1>5, <1>6, <2>1
  <2> QED
    BY <2>1, <2>2 DEF Backed, Canonical, Price, Block, Height
<1>7. ASSUME pass'.pc = "resolve", pass'.receipt.result # "reverted"
      PROVE  Backed(pass.receipt, pass.active)'
  <2>1. Backed(pass'.receipt, pass'.active)
    BY <1>1, <1>7, ReadReceiptBacked DEF ReceiptInv, ReceiptShape
  <2>2. PICK e, q : e = pass'.receipt /\ q = pass'.active
    OBVIOUS
  <2>3. Backed(e, q)'
    BY <1>4, <2>1, <2>2
  <2> QED
    BY <2>2, <2>3 DEF Backed, Canonical, Price, Block, Height
<1>8. ASSUME pass'.pc = "duplicate"
      PROVE  /\ pass'.receipt.n \in 0..Height /\ pass'.receipt.hash \in 0..forks
             /\ pass'.receipt.n <= Finalized(pass'.head)
  <2>1. CASE pass' = pass
    BY <1>8, <2>1 DEF ReceiptInv, ReceiptShape
  <2>2. CASE ResolveReceipt
    <3>1. DOMAIN pass = DOMAIN IdlePass /\ pass.pc = "resolve"
      BY <2>2 DEF ResolveReceipt, ReceiptInv, JournalInv, PassShape
    <3>2. /\ Confirmed(pass.receipt) /\ pass.receipt.result = "duplicate"
          /\ pass' = [pass EXCEPT !.pc = "duplicate"]
      <4>1. ASSUME NEW waiting \in BOOLEAN, Returned(waiting)
            PROVE  pass'.pc # "duplicate"
        BY <3>1, <4>1 DEF Returned, IdlePass
      <4> QED
        BY <1>8, <2>2, <4>1 DEF ResolveReceipt
    <3>3. pass'.receipt = pass.receipt /\ pass'.head = pass.head
      BY <3>1, <3>2 DEF IdlePass
    <3> QED
      BY <3>1, <3>2, <3>3 DEF Confirmed, ReceiptInv, ReceiptShape, Backed
  <2> QED
    BY <1>1, <1>8, <2>1, <2>2
<1>9. ReceiptShape'
  <2>1. \A h : Finalized(h)' = Finalized(h')
    BY DEF Finalized
  <2> QED
    BY <1>1, <1>2, <1>6, <1>7, <1>8 DEF ReceiptShape, Finalized
<1>10. FinalShape => FinalShape'
  <2> SUFFICES ASSUME FinalShape, NEW q \in Quotes, row'[q].status = "CONFIRMED"
               PROVE  Price(Finalized(Height))' >= q
    BY DEF FinalShape
  <2>1. Price(Finalized(Height))' = Price(Finalized(Height))
    BY <1>1, <1>2 DEF Price, Block, Finalized
  <2>2. CASE row[q].status = "CONFIRMED"
    BY <2>1, <2>2 DEF FinalShape
  <2>3. CASE /\ row[q].status # "CONFIRMED"
    <3> DEFINE e == pass.receipt
               f == Finalized(Height)
    <3>1. Judged(e, q)
      BY <1>1, <2>3 DEF KeepsConfirmed
    <3>2. e.n \in 0..Height /\ Price(e.n) = q /\ e.n <= Finalized(pass.head)
      BY <3>1 DEF Backed, Judged
    <3>3. Height \in Nat /\ pass.head \in Nat /\ pass.head <= Height
          /\ DOMAIN chain = 1..(Height + 1)
      BY DEF ReceiptInv, BlockShape, JournalInv, ChainShape, Height
    <3>4. f \in 0..Height /\ Finalized(pass.head) \in Nat /\ Finalized(pass.head) <= f
      <4>1. \A g, h \in Nat : Finalized(g) \in 0..g /\ (g <= h => Finalized(g) <= Finalized(h))
        BY FinalizedBound
      <4>2. /\ Finalized(Height) \in 0..Height /\ Finalized(pass.head) \in 0..pass.head
            /\ Finalized(pass.head) <= Finalized(Height)
        BY <3>3, <4>1
      <4> QED
        BY <3>3, <4>2
    <3> HIDE DEF e, f
    <3>5. e.n + 1 \in DOMAIN chain /\ f + 1 \in DOMAIN chain /\ e.n + 1 <= f + 1
      BY <3>2, <3>3, <3>4
    <3>6. Price(e.n) <= Price(f) /\ Price(f) \in Nat /\ Price(e.n) \in Nat
      BY <3>5 DEF ReceiptInv, BlockShape, Price, Block
    <3> QED
      BY <2>1, <3>2, <3>6 DEF f
  <2> QED
    BY <2>2, <2>3
<1> QED
  BY <1>3, <1>9, <1>10

LEMMA ReceiptInit == Init => ReceiptInv /\ FinalShape
<1> SUFFICES ASSUME Init
             PROVE  ReceiptInv /\ FinalShape
  OBVIOUS
<1>1. JournalInv
  BY JournalInit
<1>2. /\ DOMAIN chain = {1} /\ chain[1].fork = 0 /\ chain[1].price = 0 /\ chain[1].tx = NoTx
      /\ Len(chain) = 1
      /\ forks = 0 /\ pool = {} /\ sent = {} /\ pass = IdlePass
      /\ \A q \in Quotes : row[q].status = "none"
  BY DEF Init
<1>3. BlockShape
  BY <1>2 DEF BlockShape, Publishes, Height, IdlePass
<1>4. ReceiptShape /\ FinalShape
  BY <1>2 DEF ReceiptShape, FinalShape, IdlePass
<1> QED
  BY <1>1, <1>3, <1>4 DEF ReceiptInv

\* Neither the chain nor the number of forks shrinks.
LEMMA ChainGrows ==
  ASSUME JournalInv, BlockShape,
         \/ \E tx \in pool, authorized \in BOOLEAN : Mine(tx, authorized)
         \/ \E tx \in pool : Lose(tx)
         \/ \E q \in ByHand : SendByHand(q)
         \/ MineEmpty
         \/ \E depth \in 1..MaxDepth, returned \in BOOLEAN : Reorg(depth, returned),
         NEW n, n \in 0..Height, NEW fork, fork \in 0..forks
  PROVE  n \in 0..Height' /\ fork \in 0..forks'
<1>1. forks \in Nat /\ Height \in Nat /\ Len(chain) \in Nat /\ Height = Len(chain) - 1
      /\ chain \in Seq({chain[i] : i \in DOMAIN chain})
  BY DEF JournalInv, ChainShape, BlockShape, Height
<1>2. ASSUME NEW tx, NEW result, NEW price, Extend(tx, result, price), forks' = forks
      PROVE  n \in 0..Height' /\ fork \in 0..forks'
  <2> DEFINE block == [fork |-> forks, tx |-> tx, result |-> result, price |-> price]
  <2>1. chain' = Append(chain, block)
    BY <1>2 DEF Extend
  <2> HIDE DEF block
  <2>2. Len(chain') = Len(chain) + 1
    BY <1>1, <2>1
  <2> QED
    BY <1>1, <1>2, <2>2 DEF Height
<1>3. ASSUME NEW depth \in 1..MaxDepth, NEW returned \in BOOLEAN, Reorg(depth, returned)
      PROVE  n \in 0..Height' /\ fork \in 0..forks'
  <2>1. forks' = forks + 1 /\ chain' = [i \in 1..Len(chain) |-> chain'[i]]
    BY <1>3 DEF Reorg
  <2>2. Len(chain') = Len(chain)
    BY <1>1, <2>1
  <2> QED
    BY <1>1, <2>1, <2>2 DEF Height
<1>4. CASE \E tx \in pool : Lose(tx)
  BY <1>4 DEF Lose, Height
<1> QED
  BY <1>2, <1>3, <1>4 DEF Mine, SendByHand, MineEmpty

LEMMA ReceiptStep ==
  ASSUME ReceiptInv, [Next]_vars
  PROVE  ReceiptInv' /\ (MaxDepth < Confirmations /\ FinalShape => FinalShape')
<1>1. JournalInv /\ JournalInv'
  BY JournalStep DEF ReceiptInv
<1>2. CASE \/ \E tx \in pool, authorized \in BOOLEAN : Mine(tx, authorized)
           \/ \E tx \in pool : Lose(tx)
           \/ \E q \in ByHand : SendByHand(q)
           \/ MineEmpty
           \/ \E depth \in 1..MaxDepth, returned \in BOOLEAN : Reorg(depth, returned)
  <2>1. ChainKeeps
    BY <1>2, ChainStepKeeps DEF ReceiptInv
  <2>2. row' = row /\ pass' = pass
    BY <1>2 DEF Mine, Lose, SendByHand, MineEmpty, Reorg
  <2>3. ReceiptShape'
    <3>1. ASSUME NEW q \in Quotes, row'[q].status = "CONFIRMED"
          PROVE  Backed(row[q].receipt, q)'
      <4>1. PICK e : e = row[q].receipt
        OBVIOUS
      <4>2. Backed(e, q)'
        BY <2>1, <2>2, <3>1, <4>1 DEF ChainKeeps, ReceiptInv, ReceiptShape
      <4> QED
        BY <2>2, <4>1, <4>2 DEF Backed, Canonical
    <3>2. ASSUME pass'.pc = "resolve", pass'.receipt.result # "reverted"
          PROVE  Backed(pass.receipt, pass.active)'
      <4>1. PICK e, q : e = pass.receipt /\ q = pass.active
        OBVIOUS
      <4>2. Backed(e, q)'
        BY <2>1, <2>2, <3>2, <4>1 DEF ChainKeeps, ReceiptInv, ReceiptShape
      <4> QED
        BY <2>2, <4>1, <4>2 DEF Backed, Canonical
    <3>3. ASSUME pass'.pc = "duplicate"
          PROVE  /\ pass'.receipt.n \in 0..Height' /\ pass'.receipt.hash \in 0..forks'
                 /\ pass'.receipt.n <= Finalized(pass'.head)
      <4>1. PICK e : e = pass.receipt
        OBVIOUS
      <4>2. e.n \in 0..Height /\ e.hash \in 0..forks /\ e.n <= Finalized(pass.head)
        BY <2>2, <3>3, <4>1 DEF ReceiptInv, ReceiptShape
      <4>3. e.n \in 0..Height' /\ e.hash \in 0..forks'
        BY <1>2, <4>2, ChainGrows DEF ReceiptInv
      <4> QED
        BY <2>2, <4>1, <4>2, <4>3
    <3> QED
      BY <3>1, <3>2, <3>3 DEF ReceiptShape, Finalized
  <2>4. MaxDepth < Confirmations /\ FinalShape => FinalShape'
    <3> SUFFICES ASSUME MaxDepth < Confirmations, FinalShape, NEW q \in Quotes,
                        row[q].status = "CONFIRMED"
                 PROVE  Price(Finalized(Height))' >= q
      BY <2>2 DEF FinalShape
    <3>1. /\ Price(Finalized(Height))' >= Price(Finalized(Height))
          /\ Price(Finalized(Height)) >= q /\ q \in Nat
      BY <2>1 DEF ChainKeeps, FinalShape, Quotes
    <3>2. Price(Finalized(Height)) \in Nat
      BY <1>1, FinalPrice DEF ReceiptInv
    <3>3. Price(Finalized(Height))' \in Nat
      <4>1. (JournalInv /\ BlockShape => Price(Finalized(Height)) \in Nat)'
        BY FinalPrice, PTL
      <4> QED
        BY <1>1, <2>1, <4>1 DEF ChainKeeps
    <3> QED
      BY <3>1, <3>2, <3>3
  <2> QED
    BY <1>1, <2>1, <2>3, <2>4 DEF ReceiptInv, ChainKeeps
<1>3. CASE ProgramStep
  BY <1>1, <1>3, ProgramStepKeeps DEF ReceiptInv
<1>4. CASE UNCHANGED vars
  <2>1. /\ chain' = chain /\ pool' = pool /\ forks' = forks /\ row' = row /\ pass' = pass
        /\ sent' = sent
    BY <1>4 DEF vars, chainVars
  <2> QED
    BY <1>1, <2>1 DEF ReceiptInv, BlockShape, ReceiptShape, FinalShape, Publishes, Backed,
                      Canonical, Price, Block, Finalized, Height
<1> QED
  BY <1>2, <1>3, <1>4 DEF Next, ProgramStep

\* Every CONFIRMED row names the block in which the contract took its quote, whatever
\* reorganizations, outages and crashes come between the calls that judge a receipt.
THEOREM ConfirmedRowsArePublished == Spec => []ConfirmedIsPublished
<1>1. Init => ReceiptInv
  BY ReceiptInit
<1>2. ReceiptInv /\ [Next]_vars => ReceiptInv'
  BY ReceiptStep
<1>3. ReceiptInv => ConfirmedIsPublished
  BY DEF ReceiptInv, ReceiptShape, Backed, ConfirmedIsPublished
<1> QED
  BY <1>1, <1>2, <1>3, PTL DEF Spec

\* With reorganizations shallower than the confirmations, a CONFIRMED quote stays in
\* force until a newer one replaces it.
THEOREM ConfirmedRowsStayPublished ==
  ASSUME MaxDepth < Confirmations
  PROVE  Spec => []ConfirmedStaysPublished
<1>1. Init => ReceiptInv /\ FinalShape
  BY ReceiptInit
<1>2. ReceiptInv /\ FinalShape /\ [Next]_vars => ReceiptInv' /\ FinalShape'
  BY ReceiptStep
<1>3. ReceiptInv /\ FinalShape => ConfirmedStaysPublished
  <2> SUFFICES ASSUME ReceiptInv, FinalShape, NEW q \in Quotes, row[q].status = "CONFIRMED"
               PROVE  Price(Height) >= q
    BY DEF ConfirmedStaysPublished
  <2>1. Price(Finalized(Height)) >= q /\ q \in Nat
    BY DEF FinalShape, Quotes
  <2>2. /\ Height \in Nat /\ Finalized(Height) \in 0..Height
        /\ DOMAIN chain = 1..(Height + 1)
    BY FinalizedBound DEF ReceiptInv, JournalInv, ChainShape, Height
  <2>3. Price(Finalized(Height)) <= Price(Height)
        /\ Price(Finalized(Height)) \in Nat /\ Price(Height) \in Nat
    <3>1. /\ Finalized(Height) + 1 \in DOMAIN chain /\ Height + 1 \in DOMAIN chain
          /\ Finalized(Height) + 1 <= Height + 1
      BY <2>2
    <3> QED
      BY <3>1 DEF ReceiptInv, BlockShape, Price, Block
  <2> QED
    BY <2>1, <2>3
<1> QED
  BY <1>1, <1>2, <1>3, PTL DEF Spec

-----------------------------------------------------------------------------
(* At most one publication is on its way. *)

\* The nonce is used up in a block that no reorganization reaches.
Final(nonce) ==
  \E m \in 0..Finalized(Height) : Block(m).tx # NoTx /\ Block(m).tx.nonce >= nonce
Unresolved == {t \in sent : ~Final(t.nonce)}

\* Only what was signed waits at the node.
PoolShape ==
  /\ pool \subseteq sent
  /\ sent \subseteq [quote : Quotes, nonce : Nat, attempt : Nat]

\* Each transaction on the chain has the nonce of its turn.
Earlier(n) == {m \in Mined : m < n}
NonceShape == \A n \in Mined : Block(n).tx.nonce = Cardinality(Earlier(n))

\* A row names the last transaction signed for it, and a receipt in hand the block
\* that executed it.
RowSent == \A q \in Quotes : row[q].nonce # -1 => Transaction(q) \in sent
ReceiptOfRow ==
  pass.pc = "resolve" =>
    /\ pass.receipt.n \in 0..Height /\ pass.receipt.hash \in 0..forks
    /\ Canonical(pass.receipt) => Block(pass.receipt.n).tx = Transaction(pass.active)

\* Only one transaction is unresolved.  Its row is in flight, and no block holds its
\* quote or a newer one unless the transaction was executed before.
FinalDuplicate == pass.pc = "duplicate" => Final(row[pass.active].nonce)
UnresolvedShape ==
  /\ \A t \in Unresolved :
       /\ row[t.quote].status \in InFlight /\ t = Transaction(t.quote)
       /\ \A n \in 0..Height : Price(n) >= t.quote => \E m \in 0..n : Block(m).tx = t
  /\ \A t, u \in Unresolved : t = u
  /\ pass.pc = "sign" => Price(Height) < pass.active

OrderInv ==
  /\ PoolShape /\ NonceShape /\ RowSent /\ ReceiptOfRow /\ FinalDuplicate
  /\ UnresolvedShape

\* The blocks with a transaction are finite in number.
LEMMA MinedFinite ==
  ASSUME ChainShape
  PROVE  /\ Height \in Nat /\ DOMAIN chain = 1..(Height + 1)
         /\ Mined \subseteq 0..Height /\ IsFiniteSet(Mined)
         /\ AccountNonce \in Nat
         /\ \A n \in Mined : n \in Nat /\ Cardinality(Earlier(n)) \in Nat
                             /\ Cardinality(Earlier(n)) < AccountNonce
<1>1. Height \in Nat /\ DOMAIN chain = 1..(Height + 1)
  BY DEF ChainShape, Height
<1>2. Mined \subseteq 0..Height
  BY DEF Mined
<1>3. IsFiniteSet(0..Height)
  BY <1>1, FS_Interval
<1>4. IsFiniteSet(Mined) /\ AccountNonce \in Nat
  BY <1>2, <1>3, FS_Subset, FS_CardinalityType DEF AccountNonce
<1>5. ASSUME NEW n \in Mined
      PROVE  n \in Nat /\ Cardinality(Earlier(n)) \in Nat
             /\ Cardinality(Earlier(n)) < AccountNonce
  <2>1. n \in Nat
    BY <1>2
  <2>2. Earlier(n) \in SUBSET Mined /\ n \notin Earlier(n)
    BY <2>1 DEF Earlier
  <2>3. /\ Cardinality(Earlier(n)) <= Cardinality(Mined)
        /\ Cardinality(Earlier(n)) = Cardinality(Mined) => Earlier(n) = Mined
        /\ IsFiniteSet(Earlier(n))
    BY <1>4, <2>2, FS_Subset
  <2>4. Cardinality(Earlier(n)) \in Nat
    BY <2>3, FS_CardinalityType
  <2> QED
    BY <1>4, <2>1, <2>2, <2>3, <2>4 DEF AccountNonce
<1> QED
  BY <1>1, <1>2, <1>4, <1>5

\* A nonce used in a final block is below the account's, so a transaction that can
\* still be executed is unresolved.
LEMMA FinalIsUsed ==
  ASSUME ChainShape, NonceShape, NEW nonce \in Nat, Final(nonce)
  PROVE  nonce < AccountNonce
<1>1. PICK m \in 0..Finalized(Height) : Block(m).tx # NoTx /\ Block(m).tx.nonce >= nonce
  BY DEF Final
<1>2. Height \in Nat /\ Finalized(Height) \in 0..Height
  BY MinedFinite, FinalizedBound
<1>3. m \in Mined
  BY <1>1, <1>2 DEF Mined
<1>4. /\ Block(m).tx.nonce = Cardinality(Earlier(m)) /\ Cardinality(Earlier(m)) \in Nat
      /\ Cardinality(Earlier(m)) < AccountNonce /\ AccountNonce \in Nat
  BY <1>3, MinedFinite DEF NonceShape
<1> QED
  BY <1>1, <1>4

\* When no row is in flight every transaction is resolved.
LEMMA NothingUnresolved ==
  ASSUME PoolShape, UnresolvedShape, \A q \in Quotes : row[q].status \notin InFlight
  PROVE  Unresolved = {}
<1> SUFFICES ASSUME NEW t \in Unresolved
             PROVE  FALSE
  OBVIOUS
<1>1. t.quote \in Quotes /\ row[t.quote].status \in InFlight
  BY DEF Unresolved, PoolShape, UnresolvedShape
<1> QED
  BY <1>1

\* The chain grows by a block of the wallet's next transaction, or of none.
LEMMA GrowOrder ==
  ASSUME JournalInv, BlockShape, OrderInv, NEW tx, NEW result, NEW price,
         Extend(tx, result, price), tx # NoTx => tx.nonce = AccountNonce,
         \A t \in Unresolved : price >= t.quote => Price(Height) >= t.quote \/ tx = t,
         pass.pc = "sign" => price <= Price(Height), price \in Nat,
         forks' = forks, row' = row, pass' = pass, sent' = sent, pool' \subseteq pool
  PROVE  OrderInv'
<1> DEFINE L == Len(chain)
           new == [fork |-> forks, tx |-> tx, result |-> result, price |-> price]
<1>1. /\ chain \in Seq({chain[i] : i \in DOMAIN chain}) /\ L \in Nat /\ L >= 1
      /\ DOMAIN chain = 1..L
  BY DEF JournalInv, ChainShape
<1>2. chain' = Append(chain, new)
  BY DEF Extend
<1>3. new.tx = tx /\ new.price = price
  OBVIOUS
<1> HIDE DEF new
<1>4. /\ Len(chain') = L + 1 /\ chain'[L + 1] = new
      /\ \A i \in 1..L : chain'[i] = chain[i]
  BY <1>1, <1>2
<1>5. Height \in Nat /\ Height = L - 1 /\ Height' = Height + 1
  BY <1>1, <1>4 DEF Height
<1>6. /\ \A n \in 0..Height : Block(n)' = Block(n)
      /\ \A n : n = Height + 1 => Block(n)' = new
  <2>1. \A n \in 0..Height : n + 1 \in 1..L
    BY <1>1, <1>5
  <2>2. \A n : n = Height + 1 => n + 1 = L + 1
    BY <1>1, <1>5
  <2> QED
    BY <1>4, <2>1, <2>2 DEF Block
<1>7. /\ \A n \in 0..Height : n \in Mined' <=> n \in Mined
      /\ \A n : n = Height + 1 => (n \in Mined' <=> tx # NoTx)
      /\ Mined \subseteq 0..Height /\ Mined' \subseteq 0..(Height + 1)
  <2>1. Mined' = {n \in 0..(Height + 1) : Block(n)'.tx # NoTx}
    BY <1>5 DEF Mined
  <2>2. /\ \A n \in 0..Height : n \in 0..(Height + 1)
        /\ Height + 1 \in 0..(Height + 1)
    BY <1>5
  <2>3. \A n \in 0..Height : n \in Mined' <=> n \in Mined
    BY <1>6, <2>1, <2>2 DEF Mined
  <2>4. \A n : n = Height + 1 => (n \in Mined' <=> tx # NoTx)
    BY <1>3, <1>6, <2>1, <2>2
  <2> QED
    BY <2>1, <2>3, <2>4 DEF Mined
<1>8. NonceShape'
  <2> SUFFICES ASSUME NEW n \in Mined'
               PROVE  Block(n)'.tx.nonce = Cardinality(Earlier(n)')
    BY DEF NonceShape
  <2>1. CASE n \in 0..Height
    <3>1. Earlier(n)' = Earlier(n)
      <4>1. \A m \in 0..(Height + 1) : m < n => m \in 0..Height
        BY <1>5, <2>1
      <4>2. \A m : m \in Mined' /\ m < n <=> m \in Mined /\ m < n
        BY <1>7, <4>1
      <4> QED
        BY <4>2 DEF Earlier
    <3> QED
      BY <1>6, <1>7, <2>1, <3>1 DEF OrderInv, NonceShape
  <2>2. CASE n = Height + 1
    <3>1. Earlier(n)' = Mined
      <4>1. /\ \A m \in 0..(Height + 1) : m < n => m \in 0..Height
            /\ \A m \in 0..Height : m < n
        BY <1>5, <2>2
      <4>2. \A m : m \in Mined' /\ m < n <=> m \in Mined
        BY <1>7, <4>1
      <4> QED
        BY <4>2 DEF Earlier
    <3>2. tx # NoTx /\ Block(n)'.tx = tx
      BY <1>3, <1>6, <1>7, <2>2
    <3> QED
      BY <3>1, <3>2 DEF AccountNonce
  <2> QED
    BY <1>5, <1>7, <2>1, <2>2
<1>9. \A x : Final(x) => Final(x)'
  <2> SUFFICES ASSUME NEW x, Final(x)
               PROVE  Final(x)'
    OBVIOUS
  <2>1. PICK m \in 0..Finalized(Height) : Block(m).tx # NoTx /\ Block(m).tx.nonce >= x
    BY DEF Final
  <2>2. /\ Finalized(Height) \in 0..Height /\ Finalized(Height + 1) \in 0..(Height + 1)
        /\ Finalized(Height) <= Finalized(Height + 1)
    BY <1>5, FinalizedBound
  <2>3. m \in 0..Height /\ m \in 0..Finalized(Height + 1)
    BY <1>5, <2>2
  <2>4. Finalized(Height)' = Finalized(Height + 1)
    BY <1>5 DEF Finalized
  <2>5. Block(m)' = Block(m)
    BY <1>6, <2>3
  <2> QED
    BY <2>1, <2>3, <2>4, <2>5 DEF Final
<1>10. Unresolved' \subseteq Unresolved
  BY <1>9 DEF Unresolved
<1>11. \A q \in Quotes : Transaction(q)' = Transaction(q)
  BY DEF Transaction
<1>12. PoolShape' /\ RowSent'
  BY <1>11 DEF OrderInv, PoolShape, RowSent
<1>13. ReceiptOfRow'
  <2> SUFFICES ASSUME pass.pc = "resolve"
               PROVE  /\ pass.receipt.n \in 0..Height' /\ pass.receipt.hash \in 0..forks'
                      /\ Canonical(pass.receipt)' =>
                           Block(pass.receipt.n)'.tx = Transaction(pass.active)'
    BY DEF ReceiptOfRow
  <2>1. PICK n \in 0..Height : n = pass.receipt.n
    BY DEF OrderInv, ReceiptOfRow
  <2>2. Block(n)' = Block(n) /\ n \in 0..Height'
    BY <1>5, <1>6
  <2>3. pass'.receipt.n = n
    BY <2>1
  <2> QED
    BY <2>1, <2>2, <2>3 DEF OrderInv, ReceiptOfRow, Canonical, Transaction
<1>14. ASSUME NEW t \in Unresolved', NEW n \in 0..Height', Price(n)' >= t.quote
       PROVE  \E m \in 0..n : Block(m)'.tx = t
  <2>1. t \in Unresolved
    BY <1>10
  <2>2. CASE n \in 0..Height
    <3>1. Price(n) >= t.quote
      BY <1>6, <1>14, <2>2 DEF Price
    <3>2. PICK m \in 0..n : Block(m).tx = t
      BY <2>1, <2>2, <3>1 DEF OrderInv, UnresolvedShape
    <3>3. m \in 0..Height
      BY <1>5, <2>2
    <3> QED
      BY <1>6, <3>2, <3>3
  <2>3. CASE n = Height + 1
    <3>1. Price(n)' = price
      BY <1>3, <1>6, <2>3 DEF Price
    <3>2. Price(Height) >= t.quote \/ tx = t
      BY <1>14, <2>1, <3>1
    <3>3. CASE tx = t
      <4>1. n \in 0..n
        BY <1>5, <2>3
      <4> QED
        BY <1>3, <1>6, <2>3, <3>3, <4>1
    <3>4. CASE Price(Height) >= t.quote
      <4>1. Height \in 0..Height
        BY <1>5
      <4>2. PICK m \in 0..Height : Block(m).tx = t
        BY <2>1, <3>4, <4>1 DEF OrderInv, UnresolvedShape
      <4>3. m \in 0..n
        BY <1>5, <2>3
      <4> QED
        BY <1>6, <4>2, <4>3
    <3> QED
      BY <3>2, <3>3, <3>4
  <2> QED
    BY <1>5, <2>2, <2>3
<1>15. UnresolvedShape'
  <2>1. ASSUME pass.pc = "sign"
        PROVE  Price(Height)' < pass.active
    <3>1. Price(Height)' = price
      <4>1. PICK n : n = Height + 1
        OBVIOUS
      <4>2. Price(n)' = price
        BY <1>3, <1>6, <4>1 DEF Price
      <4> QED
        BY <1>5, <4>1, <4>2 DEF Price, Block
    <3>2. Price(Height) \in Nat
      BY <1>1, <1>5 DEF BlockShape, Price, Block
    <3>3. pass.active \in Nat
      BY <2>1 DEF JournalInv, PassShape, Quotes
    <3> QED
      BY <2>1, <3>1, <3>2, <3>3 DEF OrderInv, UnresolvedShape
  <2>2. \A t \in Unresolved' : row[t.quote].status \in InFlight /\ t = Transaction(t.quote)
    BY <1>10 DEF OrderInv, UnresolvedShape
  <2>3. \A t, u \in Unresolved' : t = u
    BY <1>10 DEF OrderInv, UnresolvedShape
  <2>4. \A t \in Unresolved' : t = Transaction(t.quote)'
    BY <2>2 DEF Transaction
  <2> QED
    BY <1>14, <2>1, <2>2, <2>3, <2>4 DEF UnresolvedShape
<1>16. FinalDuplicate'
  <2> SUFFICES ASSUME pass.pc = "duplicate"
               PROVE  Final(row[pass.active].nonce)'
    BY DEF FinalDuplicate
  <2>1. PICK x : x = row[pass.active].nonce
    OBVIOUS
  <2>2. Final(x)'
    BY <1>9, <2>1 DEF OrderInv, FinalDuplicate
  <2> QED
    BY <2>1, <2>2 DEF Final
<1> QED
  BY <1>8, <1>12, <1>13, <1>15, <1>16 DEF OrderInv

\* A reorganization takes back only blocks that are not final.
LEMMA ReorgOrder ==
  ASSUME JournalInv, BlockShape, OrderInv, MaxDepth < Confirmations,
         NEW depth \in 1..MaxDepth, NEW returned \in BOOLEAN, Reorg(depth, returned)
  PROVE  OrderInv'
<1> DEFINE L == Len(chain)
           keep == L - depth
           new == [fork |-> forks + 1, tx |-> NoTx, result |-> "none",
                   price |-> chain[keep].price]
<1>1. L \in Nat /\ L >= 1 /\ DOMAIN chain = 1..L /\ forks \in Nat /\ depth \in Nat
  BY PublicationAssumption DEF JournalInv, ChainShape, BlockShape
<1>2. /\ chain' = [i \in 1..L |-> IF i <= keep THEN chain[i] ELSE new] /\ depth <= L - 1
      /\ forks' = forks + 1 /\ pass' = pass /\ sent' = sent /\ row' = row
      /\ pool' \subseteq pool \cup sent
  BY DEF Reorg, Height
<1>3. keep \in 1..L /\ keep < L
  BY <1>1, <1>2
<1>4. new.fork = forks + 1 /\ new.price = chain[keep].price /\ new.tx = NoTx
  OBVIOUS
<1> HIDE DEF new
<1>5. /\ \A i \in 1..L : i <= keep => chain'[i] = chain[i]
      /\ \A i \in 1..L : i > keep => chain'[i] = new
  BY <1>1, <1>2, <1>3
<1>6. Height \in Nat /\ Height = L - 1 /\ Height' = Height
  <2>1. chain' = [i \in 1..L |-> chain'[i]]
    BY <1>2
  <2>2. Len(chain') = L
    BY <1>1, <2>1
  <2> QED
    BY <1>1, <2>2 DEF Height
<1>7. Finalized(Height) \in 0..Height /\ Finalized(Height) + 1 <= keep
  <2>1. depth <= Confirmations - 1 /\ Confirmations \in Nat
    BY <1>1, PublicationAssumption
  <2> QED
    BY <1>1, <1>2, <1>6, <2>1 DEF Finalized
<1> HIDE DEF keep
<1>8. /\ \A n \in 0..Height : n < keep => Block(n)' = Block(n)
      /\ \A n \in 0..Height : ~(n < keep) => Block(n)' = new
  <2> SUFFICES ASSUME NEW n \in 0..Height
               PROVE  /\ n < keep => Block(n)' = Block(n)
                      /\ ~(n < keep) => Block(n)' = new
    OBVIOUS
  <2>1. n + 1 \in 1..L /\ (n < keep <=> n + 1 <= keep) /\ (~(n < keep) <=> n + 1 > keep)
    BY <1>3, <1>6
  <2> QED
    BY <1>5, <2>1 DEF Block
<1>9. Mined' = {n \in Mined : n < keep}
  <2>1. Mined' = {n \in 0..Height : Block(n)'.tx # NoTx}
    BY <1>6 DEF Mined
  <2> QED
    BY <1>4, <1>8, <2>1 DEF Mined
<1>10. NonceShape'
  <2> SUFFICES ASSUME NEW n \in Mined'
               PROVE  Block(n)'.tx.nonce = Cardinality(Earlier(n)')
    BY DEF NonceShape
  <2>1. n \in Mined /\ n < keep /\ n \in 0..Height
    BY <1>9 DEF Mined
  <2>2. Earlier(n)' = Earlier(n)
    <3>1. \A m \in Mined : m < n => m < keep
      BY <1>3, <1>6, <2>1 DEF Mined
    <3> QED
      BY <1>9, <3>1 DEF Earlier
  <2> QED
    BY <1>8, <2>1, <2>2 DEF OrderInv, NonceShape
<1>11. \A x : Final(x) => Final(x)'
  <2> SUFFICES ASSUME NEW x, Final(x)
               PROVE  Final(x)'
    OBVIOUS
  <2>1. PICK m \in 0..Finalized(Height) : Block(m).tx # NoTx /\ Block(m).tx.nonce >= x
    BY DEF Final
  <2>2. m \in 0..Height /\ m < keep
    BY <1>3, <1>6, <1>7
  <2>3. Block(m)' = Block(m) /\ Finalized(Height)' = Finalized(Height)
    BY <1>6, <1>8, <2>2 DEF Finalized
  <2> QED
    BY <2>1, <2>3 DEF Final
<1>12. Unresolved' \subseteq Unresolved
  BY <1>2, <1>11 DEF Unresolved
<1>13. PoolShape' /\ RowSent'
  BY <1>2 DEF OrderInv, PoolShape, RowSent, Transaction
<1>14. ReceiptOfRow'
  <2> SUFFICES ASSUME pass.pc = "resolve"
               PROVE  /\ pass.receipt.n \in 0..Height' /\ pass.receipt.hash \in 0..forks'
                      /\ Canonical(pass.receipt)' =>
                           Block(pass.receipt.n)'.tx = Transaction(pass.active)'
    BY <1>2 DEF ReceiptOfRow
  <2>1. PICK n \in 0..Height : n = pass.receipt.n
    BY DEF OrderInv, ReceiptOfRow
  <2>2. pass.receipt.hash \in 0..forks /\ pass.receipt.hash # forks + 1
        /\ pass.receipt.hash \in 0..forks'
    <3>1. pass.receipt.hash \in 0..forks
      BY DEF OrderInv, ReceiptOfRow
    <3> QED
      BY <1>1, <1>2, <3>1
  <2>3. CASE n < keep
    <3>1. Block(n)' = Block(n)
      BY <1>8, <2>3
    <3> QED
      BY <1>2, <1>6, <2>1, <2>2, <3>1 DEF OrderInv, ReceiptOfRow, Canonical, Transaction
  <2>4. CASE ~(n < keep)
    <3>1. Block(n)' = new
      BY <1>8, <2>4
    <3> QED
      BY <1>2, <1>4, <1>6, <2>1, <2>2, <3>1 DEF Canonical
  <2> QED
    BY <2>3, <2>4
<1>15. ASSUME NEW t \in Unresolved', NEW n \in 0..Height', Price(n)' >= t.quote
       PROVE  \E m \in 0..n : Block(m)'.tx = t
  <2>1. t \in Unresolved /\ n \in 0..Height
    BY <1>6, <1>12
  <2> DEFINE k == IF n < keep THEN n ELSE keep - 1
  <2>2. k \in 0..Height /\ k <= n /\ k < keep
    BY <1>1, <1>3, <1>6, <2>1
  <2>3. Price(k) = Price(n)'
    BY <1>1, <1>3, <1>4, <1>8, <2>1 DEF Price, Block
  <2> HIDE DEF k
  <2>4. PICK m \in 0..k : Block(m).tx = t
    BY <1>15, <2>1, <2>2, <2>3 DEF OrderInv, UnresolvedShape
  <2>5. m \in 0..n /\ m \in 0..Height /\ m < keep
    BY <1>3, <1>6, <2>1, <2>2
  <2> QED
    BY <1>8, <2>4, <2>5
<1>16. UnresolvedShape'
  <2>1. ASSUME pass.pc = "sign"
        PROVE  Price(Height)' < pass.active
    <3>1. Price(Height)' = chain[keep].price
      BY <1>3, <1>4, <1>6, <1>8 DEF Price
    <3>2. chain[keep].price <= Price(Height) /\ Price(Height) \in Nat /\ chain[keep].price \in Nat
      <4>1. Price(Height) = chain[L].price /\ keep \in DOMAIN chain /\ L \in DOMAIN chain
        BY <1>1, <1>3, <1>6 DEF Price, Block
      <4> QED
        BY <1>3, <4>1 DEF BlockShape
    <3>3. pass.active \in Nat
      BY <2>1 DEF JournalInv, PassShape, Quotes
    <3> QED
      BY <2>1, <3>1, <3>2, <3>3 DEF OrderInv, UnresolvedShape
  <2>2. \A t \in Unresolved' : row[t.quote].status \in InFlight /\ t = Transaction(t.quote)
    BY <1>12 DEF OrderInv, UnresolvedShape
  <2>3. \A t, u \in Unresolved' : t = u
    BY <1>12 DEF OrderInv, UnresolvedShape
  <2>4. \A t \in Unresolved' : t = Transaction(t.quote)'
    BY <1>2, <2>2 DEF Transaction
  <2> QED
    BY <1>2, <1>15, <2>1, <2>2, <2>3, <2>4 DEF UnresolvedShape
<1>17. FinalDuplicate'
  <2> SUFFICES ASSUME pass.pc = "duplicate"
               PROVE  Final(row[pass.active].nonce)'
    BY <1>2 DEF FinalDuplicate
  <2>1. PICK x : x = row[pass.active].nonce
    OBVIOUS
  <2>2. Final(x)'
    BY <1>11, <2>1 DEF OrderInv, FinalDuplicate
  <2> QED
    BY <1>2, <2>1, <2>2 DEF Final
<1> QED
  BY <1>10, <1>13, <1>14, <1>16, <1>17 DEF OrderInv

LEMMA MaxWithZero == ASSUME NEW p \in Nat PROVE Max({0, p}) = p
<1>1. \E x \in {0, p} : \A y \in {0, p} : x >= y
  OBVIOUS
<1>2. Max({0, p}) \in {0, p} /\ Max({0, p}) >= p
  BY <1>1 DEF Max
<1> QED
  BY <1>2

\* The chain executes the unresolved transaction, or one that publishes nothing.
LEMMA ChainStepOrder ==
  ASSUME JournalInv, BlockShape, OrderInv, MaxDepth < Confirmations, ByHand \subseteq {0},
         \/ \E tx \in pool, authorized \in BOOLEAN : Mine(tx, authorized)
         \/ \E tx \in pool : Lose(tx)
         \/ \E q \in ByHand : SendByHand(q)
         \/ MineEmpty
         \/ \E depth \in 1..MaxDepth, returned \in BOOLEAN : Reorg(depth, returned)
  PROVE  OrderInv'
<1>1. Price(Height) \in Nat /\ AccountNonce \in Nat
  <2>1. Height \in Nat /\ DOMAIN chain = 1..(Height + 1) /\ AccountNonce \in Nat
    BY MinedFinite DEF JournalInv
  <2>2. Height + 1 \in DOMAIN chain
    BY <2>1
  <2> QED
    BY <2>1, <2>2 DEF BlockShape, Price, Block
<1>2. ASSUME NEW tx \in pool, NEW authorized \in BOOLEAN, Mine(tx, authorized)
      PROVE  OrderInv'
  <2> DEFINE result == IF authorized THEN Outcome(tx.quote) ELSE "reverted"
             price == IF result = "updated" THEN tx.quote ELSE Price(Height)
  <2>1. /\ Extend(tx, result, price) /\ pool' \subseteq pool
        /\ forks' = forks /\ pass' = pass /\ sent' = sent /\ row' = row
    BY <1>2 DEF Mine
  <2>2. tx \in sent /\ tx.quote \in Quotes /\ tx.nonce \in Nat /\ tx.nonce = AccountNonce
    BY <1>2 DEF OrderInv, PoolShape, Mine
  <2>3. price \in Nat
    BY <1>1, <2>2 DEF Quotes
  <2>4. ~Final(tx.nonce)
    <3> SUFFICES ASSUME Final(tx.nonce)
                 PROVE  FALSE
      OBVIOUS
    <3>1. tx.nonce < AccountNonce
      BY <2>2, FinalIsUsed DEF JournalInv, OrderInv
    <3> QED
      BY <1>1, <2>2, <3>1
  <2>5. tx \in Unresolved
    BY <2>2, <2>4 DEF Unresolved
  <2>6. \A t \in Unresolved : tx = t
    BY <2>5 DEF OrderInv, UnresolvedShape
  <2>7. pass.pc # "sign"
    <3>1. row[tx.quote].status \in InFlight
      BY <2>5 DEF OrderInv, UnresolvedShape
    <3> QED
      BY <2>2, <3>1 DEF JournalInv, PassShape
  <2> HIDE DEF result, price
  <2> QED
    BY <2>1, <2>2, <2>3, <2>6, <2>7, GrowOrder
<1>3. ASSUME NEW q \in ByHand, SendByHand(q)
      PROVE  OrderInv'
  <2> DEFINE tx == [quote |-> q, nonce |-> AccountNonce, attempt |-> 0]
  <2>1. /\ Extend(tx, "updated", Max({0, Price(Height)})) /\ pool' \subseteq pool
        /\ forks' = forks /\ pass' = pass /\ sent' = sent /\ row' = row
    BY <1>3 DEF SendByHand
  <2>2. Max({0, Price(Height)}) = Price(Height) /\ Price(Height) <= Price(Height)
    BY <1>1, MaxWithZero
  <2>3. tx.nonce = AccountNonce
    OBVIOUS
  <2> HIDE DEF tx
  <2> QED
    BY <1>1, <2>1, <2>2, <2>3, GrowOrder
<1>4. ASSUME MineEmpty
      PROVE  OrderInv'
  <2>1. /\ Extend(NoTx, "none", Price(Height)) /\ pool' = pool /\ row' = row
        /\ forks' = forks /\ pass' = pass /\ sent' = sent
    BY <1>4 DEF MineEmpty
  <2>2. Price(Height) <= Price(Height)
    BY <1>1
  <2> QED
    BY <1>1, <2>1, <2>2, GrowOrder
<1>5. ASSUME NEW tx \in pool, Lose(tx)
      PROVE  OrderInv'
  <2>1. /\ chain' = chain /\ forks' = forks /\ pool' \subseteq pool /\ sent' = sent
        /\ pass' = pass /\ row' = row
    BY <1>5 DEF Lose
  <2>2. PoolShape'
    BY <2>1 DEF OrderInv, PoolShape
  <2>3. NonceShape' /\ RowSent' /\ ReceiptOfRow' /\ FinalDuplicate' /\ UnresolvedShape'
    BY <2>1 DEF OrderInv, NonceShape, Earlier, Mined, Height, Block, RowSent, Transaction,
                ReceiptOfRow, Canonical, FinalDuplicate, UnresolvedShape, Unresolved, Final, Finalized, Price
  <2> QED
    BY <2>2, <2>3 DEF OrderInv
<1> QED
  BY <1>2, <1>3, <1>4, <1>5, ReorgOrder

\* A step that signs nothing, and lets a row come to rest only when its transaction is
\* resolved.
LEMMA QuietOrder ==
  ASSUME OrderInv, chain' = chain, forks' = forks, sent' = sent, pool' \subseteq sent,
         \A q \in Quotes : row'[q].nonce = row[q].nonce /\ row'[q].attempts = row[q].attempts,
         \A q \in Quotes : row[q].status \in InFlight /\ row'[q].status \notin InFlight =>
           Final(row[q].nonce),
         ReceiptOfRow', FinalDuplicate', pass'.pc = "sign" => Price(Height) < pass'.active
  PROVE  OrderInv'
<1>1. \A q \in Quotes : Transaction(q)' = Transaction(q)
  BY DEF Transaction
<1>2. Unresolved' = Unresolved
  BY DEF Unresolved, Final, Finalized, Height, Block
<1>3. PoolShape' /\ RowSent'
  BY <1>1 DEF OrderInv, PoolShape, RowSent
<1>4. NonceShape'
  BY DEF OrderInv, NonceShape, Earlier, Mined, Height, Block
<1>5. ASSUME NEW t \in Unresolved
      PROVE  row'[t.quote].status \in InFlight /\ t = Transaction(t.quote)'
  <2>1. /\ t.quote \in Quotes /\ row[t.quote].status \in InFlight /\ t = Transaction(t.quote)
        /\ ~Final(t.nonce)
    BY DEF OrderInv, UnresolvedShape, Unresolved, PoolShape
  <2>2. t.nonce = row[t.quote].nonce
    BY <2>1 DEF Transaction
  <2> QED
    BY <1>1, <2>1, <2>2
<1>6. \A t \in Unresolved : \A n \in 0..Height : Price(n) >= t.quote =>
        \E m \in 0..n : Block(m).tx = t
  BY DEF OrderInv, UnresolvedShape
<1>7. /\ Height' = Height /\ \A n : Price(n)' = Price(n) /\ Block(n)' = Block(n)
  BY DEF Height, Price, Block
<1>8. UnresolvedShape'
  <2>1. Price(Height)' = Price(Height)
    BY DEF Price, Block, Height
  <2> QED
    BY <1>2, <1>5, <1>6, <1>7, <2>1 DEF OrderInv, UnresolvedShape
<1> QED
  BY <1>3, <1>4, <1>8 DEF OrderInv

\* One row's status changes.
LEMMA OneRowOrder ==
  ASSUME JournalInv, OrderInv, chain' = chain, forks' = forks, sent' = sent, pool' = pool,
         NEW b \in Quotes, NEW r, r.nonce = row[b].nonce, r.attempts = row[b].attempts,
         row' = [row EXCEPT ![b] = r],
         row[b].status \in InFlight /\ r.status \notin InFlight => Final(row[b].nonce),
         pass'.pc \notin {"resolve", "duplicate", "sign"}
  PROVE  OrderInv'
<1>1. row'[b] = r /\ \A q \in Quotes \ {b} : row'[q] = row[q]
  BY DEF JournalInv, TableShape
<1>2. ReceiptOfRow' /\ FinalDuplicate'
  BY DEF ReceiptOfRow, FinalDuplicate
<1>3. /\ \A q \in Quotes : row'[q].nonce = row[q].nonce /\ row'[q].attempts = row[q].attempts
      /\ \A q \in Quotes : row[q].status \in InFlight /\ row'[q].status \notin InFlight =>
           Final(row[q].nonce)
  BY <1>1
<1> QED
  BY <1>2, <1>3, QuietOrder DEF OrderInv, PoolShape

\* One row goes back into flight.
LEMMA BackInFlightOrder ==
  ASSUME JournalInv, OrderInv, chain' = chain, forks' = forks, sent' = sent, pool' = pool,
         NEW b \in Quotes, NEW s \in InFlight, row' = [row EXCEPT ![b].status = s],
         pass'.pc \notin {"resolve", "duplicate", "sign"}
  PROVE  OrderInv'
<1> DEFINE r == [row[b] EXCEPT !.status = s]
<1>1. Columns \subseteq DOMAIN row[b]
  BY DEF JournalInv, TableShape
<1>2. r.nonce = row[b].nonce /\ r.attempts = row[b].attempts /\ r.status = s
  BY <1>1
<1>3. row' = [row EXCEPT ![b] = r]
  OBVIOUS
<1> HIDE DEF r
<1> QED
  BY <1>2, <1>3, OneRowOrder

LEMMA ThrewOrder ==
  ASSUME JournalInv, OrderInv, NEW outage, Threw(outage),
         chain' = chain, forks' = forks, sent' = sent, pool' = pool
  PROVE  OrderInv'
<1>1. pass' = [IdlePass EXCEPT !.outage = outage] /\ pass'.pc = "idle"
  BY DEF Threw, IdlePass
<1>2. CASE row' = row
  BY <1>1, <1>2, QuietOrder DEF ReceiptOfRow, FinalDuplicate, OrderInv, PoolShape
<1>3. CASE /\ pass.active # 0 /\ pass.live
           /\ row' = [row EXCEPT ![pass.active].status = "RECONCILING"]
  <2>1. pass.active \in Quotes
    BY <1>3 DEF JournalInv, PassShape
  <2>2. "RECONCILING" \in InFlight
    BY DEF InFlight
  <2> QED
    BY <1>1, <1>3, <2>1, <2>2, BackInFlightOrder
<1> QED
  BY <1>2, <1>3 DEF Threw

\* ReadReceipt: the receipt is of the row's own transaction.
LEMMA ReadReceiptOrder ==
  ASSUME JournalInv, BlockShape, OrderInv, ReadReceipt
  PROVE  OrderInv'
<1> DEFINE mined == {n \in Mined : Block(n).tx = Transaction(pass.active)}
           m == Min(mined)
<1>1. /\ pass.pc = "receipt" /\ DOMAIN pass = DOMAIN IdlePass
      /\ chain' = chain /\ forks' = forks /\ sent' = sent /\ pool' = pool /\ row' = row
  BY DEF ReadReceipt, JournalInv, PassShape, chainVars
<1>2. CASE mined = {}
  <2>1. pass' = [pass EXCEPT !.pc = "nonces"]
    BY <1>2 DEF ReadReceipt
  <2>2. pass'.pc = "nonces"
    BY <1>1, <2>1 DEF IdlePass
  <2> QED
    BY <1>1, <2>2, QuietOrder DEF ReceiptOfRow, FinalDuplicate, OrderInv, PoolShape
<1>3. CASE mined # {}
  <2>1. pass' = [pass EXCEPT !.pc = "resolve",
                   !.receipt = [n |-> m, hash |-> Block(m).fork, result |-> Block(m).result]]
    BY <1>3 DEF ReadReceipt
  <2>2. mined \subseteq Nat
    BY DEF Mined
  <2>3. m \in mined
    BY <1>3, <2>2, MinMember
  <2>4. m \in 0..Height /\ Block(m).tx = Transaction(pass.active)
    BY <2>3 DEF Mined
  <2> HIDE DEF m, mined
  <2>5. /\ pass'.pc = "resolve" /\ pass'.active = pass.active /\ pass'.receipt.n = m
        /\ pass'.receipt.hash = Block(m).fork
    BY <1>1, <2>1 DEF IdlePass
  <2>6. Block(m).fork \in 0..forks
    <3>1. m + 1 \in DOMAIN chain
      BY <2>4, MinedFinite DEF JournalInv
    <3> QED
      BY <3>1 DEF BlockShape, Block
  <2>7. Height' = Height /\ Transaction(pass.active)' = Transaction(pass'.active)
        /\ Block(pass.receipt.n)' = Block(m)
    BY <1>1, <2>5 DEF Height, Transaction, Block
  <2>8. ReceiptOfRow' /\ FinalDuplicate'
    BY <1>1, <2>4, <2>5, <2>6, <2>7 DEF ReceiptOfRow, FinalDuplicate, Transaction
  <2> QED
    BY <1>1, <2>5, <2>8, QuietOrder DEF OrderInv, PoolShape
<1> QED
  BY <1>2, <1>3

\* ResolveReceipt: a row comes to rest when its transaction is in a final block.
LEMMA ResolveOrder ==
  ASSUME JournalInv, BlockShape, OrderInv, ResolveReceipt
  PROVE  OrderInv'
<1> DEFINE q == pass.active
           e == pass.receipt
<1>1. /\ pass.pc = "resolve" /\ q \in Quotes /\ row[q].nonce # -1
      /\ Columns \subseteq DOMAIN row[q] /\ DOMAIN pass = DOMAIN IdlePass
      /\ chain' = chain /\ forks' = forks /\ sent' = sent /\ pool' = pool
  BY DEF ResolveReceipt, JournalInv, PassShape, TableShape, ReconcileSteps, chainVars
<1>2. ASSUME NEW waiting \in BOOLEAN, Returned(waiting)
      PROVE  pass'.pc \notin {"resolve", "duplicate", "sign"}
  BY <1>1, <1>2 DEF Returned, IdlePass
<1>3. CASE row' = [row EXCEPT ![q].status = "RECONCILING"] /\ Returned(TRUE)
  <2>1. "RECONCILING" \in InFlight
    BY DEF InFlight
  <2> HIDE DEF q
  <2> QED
    BY <1>1, <1>2, <1>3, <2>1, BackInFlightOrder
<1>6. ASSUME Confirmed(e)
      PROVE  Final(row[q].nonce)
  <2>1. e.n \in 0..Height /\ Block(e.n).tx = Transaction(q) /\ e.n <= Finalized(pass.head)
    BY <1>1, <1>6 DEF Confirmed, OrderInv, ReceiptOfRow
  <2>2. Finalized(pass.head) <= Finalized(Height) /\ Finalized(pass.head) \in Nat
        /\ Finalized(Height) \in Nat
    <3>1. Height \in Nat /\ pass.head \in 0..Height
      BY MinedFinite DEF JournalInv, BlockShape
    <3>2. pass.head \in Nat /\ pass.head <= Height
      BY <3>1
    <3>3. Finalized(pass.head) \in 0..pass.head /\ Finalized(Height) \in 0..Height
      BY <3>1, <3>2, FinalizedBound
    <3> QED
      BY <3>1, <3>2, <3>3, FinalizedBound
  <2>3. e.n \in 0..Finalized(Height)
    BY <2>1, <2>2
  <2>4. Transaction(q) \in sent /\ Transaction(q).nonce = row[q].nonce
        /\ row[q].nonce \in Nat /\ Transaction(q) # NoTx
    <3>1. Transaction(q) \in sent
      BY <1>1 DEF OrderInv, RowSent
    <3> QED
      BY <3>1, PublicationAssumption DEF OrderInv, PoolShape, Transaction
  <2> QED
    BY <2>1, <2>3, <2>4 DEF Final
<1>4. CASE Confirmed(e) /\ row' = [row EXCEPT ![q] = Resolved(e, q)] /\ Returned(FALSE)
  <2>1. Resolved(e, q).nonce = row[q].nonce /\ Resolved(e, q).attempts = row[q].attempts
    BY <1>1 DEF Resolved
  <2>2. pass'.pc \notin {"resolve", "duplicate", "sign"}
    BY <1>2, <1>4
  <2> DEFINE r == Resolved(e, q)
  <2>3. row' = [row EXCEPT ![q] = r] /\ r.nonce = row[q].nonce /\ r.attempts = row[q].attempts
    BY <1>4, <2>1
  <2>4. Final(row[q].nonce)
    BY <1>4, <1>6
  <2> HIDE DEF r, q
  <2> QED
    BY <1>1, <2>2, <2>3, <2>4, OneRowOrder
<1>5. CASE /\ Confirmed(e) /\ row' = row
           /\ pass' = [pass EXCEPT !.pc = "duplicate"]
  <2>1. pass'.pc = "duplicate" /\ pass'.active = q
    BY <1>1, <1>5 DEF IdlePass
  <2>2. FinalDuplicate'
    <3>1. PICK x : x = row[q].nonce
      OBVIOUS
    <3>2. Final(x)
      BY <1>5, <1>6, <3>1
    <3>3. Final(x)'
      BY <1>1, <3>2 DEF Final, Block, Finalized, Height
    <3> QED
      BY <1>5, <2>1, <3>1, <3>3 DEF FinalDuplicate, Final
  <2> QED
    BY <1>1, <1>5, <2>1, <2>2, QuietOrder DEF ReceiptOfRow, OrderInv, PoolShape
<1> QED
  BY <1>3, <1>4, <1>5 DEF ResolveReceipt

\* CheckDuplicate: the transaction is in a final block.
LEMMA CheckDuplicateOrder ==
  ASSUME JournalInv, OrderInv, CheckDuplicate
  PROVE  OrderInv'
<1> DEFINE q == pass.active
<1>1. /\ pass.pc = "duplicate" /\ q \in Quotes /\ Columns \subseteq DOMAIN row[q]
      /\ DOMAIN pass = DOMAIN IdlePass /\ Final(row[q].nonce)
      /\ chain' = chain /\ forks' = forks /\ sent' = sent /\ pool' = pool
  BY DEF CheckDuplicate, JournalInv, PassShape, TableShape, ReconcileSteps, chainVars, OrderInv,
         FinalDuplicate
<1>2. CASE Threw(FALSE)
  BY <1>1, <1>2, ThrewOrder
<1>3. ASSUME NEW s, Returned(FALSE),
             row' = [row EXCEPT ![q] = [@ EXCEPT !.status = s, !.receipt = pass.receipt,
                                                 !.deferred = FALSE]]
      PROVE  OrderInv'
  <2> DEFINE r == [row[q] EXCEPT !.status = s, !.receipt = pass.receipt, !.deferred = FALSE]
  <2>1. r.nonce = row[q].nonce /\ r.attempts = row[q].attempts
    BY <1>1
  <2>2. row' = [row EXCEPT ![q] = r]
    BY <1>3
  <2>3. pass'.pc \notin {"resolve", "duplicate", "sign"}
    BY <1>1, <1>3 DEF Returned, IdlePass
  <2> HIDE DEF r, q
  <2> QED
    BY <1>1, <2>1, <2>2, <2>3, OneRowOrder
<1> QED
  BY <1>2, <1>3 DEF CheckDuplicate

\* ReadPendingNonce: nothing is known of a gap, or the same bytes are sent again.
LEMMA ReadPendingNonceOrder ==
  ASSUME JournalInv, OrderInv, ReadPendingNonce
  PROVE  OrderInv'
<1>1. /\ DOMAIN pass = DOMAIN IdlePass
      /\ chain' = chain /\ forks' = forks /\ sent' = sent /\ pool' = pool
  BY DEF ReadPendingNonce, JournalInv, PassShape, chainVars
<1>2. CASE Threw(FALSE)
  BY <1>1, <1>2, ThrewOrder
<1>3. CASE pass' = [pass EXCEPT !.pc = "broadcast"] /\ row' = row
  <2>1. pass'.pc = "broadcast"
    BY <1>1, <1>3 DEF IdlePass
  <2> QED
    BY <1>1, <1>3, <2>1, QuietOrder DEF ReceiptOfRow, FinalDuplicate, OrderInv, PoolShape
<1> QED
  BY <1>2, <1>3 DEF ReadPendingNonce

\* ConsumedNonce: a row is superseded only when a final block holds its quote or a newer
\* one, so its transaction can no longer be executed.
LEMMA ConsumedNonceOrder ==
  ASSUME JournalInv, BlockShape, OrderInv, ConsumedNonce
  PROVE  OrderInv'
<1> DEFINE q == pass.active
           r == [row[q] EXCEPT !.status = "SUPERSEDED"]
<1>1. /\ pass.pc = "consumed" /\ q \in Quotes /\ row[q].nonce # -1
      /\ Columns \subseteq DOMAIN row[q] /\ DOMAIN pass = DOMAIN IdlePass
      /\ chain' = chain /\ forks' = forks /\ sent' = sent /\ pool' = pool
  BY DEF ConsumedNonce, JournalInv, PassShape, TableShape, ReconcileSteps, chainVars
<1>2. CASE /\ Price(Finalized(pass.head)) >= q
           /\ row' = [row EXCEPT ![q].status = "SUPERSEDED"] /\ Returned(FALSE)
  <2>1. r.nonce = row[q].nonce /\ r.attempts = row[q].attempts
    BY <1>1
  <2>2. row' = [row EXCEPT ![q] = r]
    BY <1>2
  <2>3. pass'.pc \notin {"resolve", "duplicate", "sign"}
    BY <1>1, <1>2 DEF Returned, IdlePass
  <2> DEFINE t == Transaction(q)
             f == Finalized(pass.head)
  <2>4. t \in sent /\ t.nonce = row[q].nonce /\ t.quote = q /\ t.nonce \in Nat /\ t # NoTx
    <3>1. t \in sent
      BY <1>1 DEF OrderInv, RowSent
    <3> QED
      BY <3>1, PublicationAssumption DEF OrderInv, PoolShape, Transaction
  <2>5. f \in 0..Height /\ f <= Finalized(Height) /\ Finalized(Height) \in 0..Height
        /\ Height \in Nat /\ Price(f) >= t.quote
    <3>1. pass.head \in 0..Height /\ Height \in Nat
      BY MinedFinite DEF BlockShape, JournalInv
    <3>2. f \in 0..pass.head /\ f <= Finalized(Height) /\ Finalized(Height) \in 0..Height
      BY <3>1, FinalizedBound
    <3> QED
      BY <1>2, <2>4, <3>1, <3>2
  <2> HIDE DEF r, f, t
  <2>6. Final(t.nonce)
    <3> SUFFICES ASSUME ~Final(t.nonce)
                 PROVE  FALSE
      OBVIOUS
    <3>1. t \in Unresolved
      BY <2>4 DEF Unresolved
    <3>2. PICK m \in 0..f : Block(m).tx = t
      BY <2>5, <3>1 DEF OrderInv, UnresolvedShape
    <3>3. m \in 0..Finalized(Height)
      BY <2>5
    <3>4. t.nonce >= t.nonce
      BY <2>4
    <3>5. Final(t.nonce)
      BY <2>4, <3>2, <3>3, <3>4 DEF Final
    <3> QED
      BY <3>5
  <2> HIDE DEF q
  <2> QED
    BY <1>1, <2>1, <2>2, <2>3, <2>4, <2>6, OneRowOrder
<1>3. CASE Threw(FALSE)
  BY <1>1, <1>3, ThrewOrder
<1> QED
  BY <1>2, <1>3 DEF ConsumedNonce

\* ReadQuote: only rows at rest are given up, and the quote to sign is newer than the
\* contract's.
LEMMA ReadQuoteOrder ==
  ASSUME JournalInv, OrderInv, ReadQuote
  PROVE  OrderInv'
<1>1. /\ pass.pc = "quote" /\ DOMAIN pass = DOMAIN IdlePass /\ DOMAIN row = Quotes
      /\ \A q \in Quotes : row[q].status \notin InFlight /\ Columns \subseteq DOMAIN row[q]
      /\ chain' = chain /\ forks' = forks /\ sent' = sent /\ pool' = pool
  BY DEF ReadQuote, JournalInv, PassShape, TableShape, chainVars
<1>2. \A q \in Quotes : row'[q].nonce = row[q].nonce /\ row'[q].attempts = row[q].attempts
  <2>1. CASE row' = row
    BY <2>1
  <2>2. ASSUME NEW current,
               row' = [p \in Quotes |-> IF p <= current /\ row[p].status \in {"PREPARED", "FAILED"}
                                        THEN [row[p] EXCEPT !.status = "SUPERSEDED"] ELSE row[p]]
        PROVE  \A q \in Quotes : row'[q].nonce = row[q].nonce /\ row'[q].attempts = row[q].attempts
    BY <1>1, <2>2
  <2>3. ASSUME NEW b, row' = [row EXCEPT ![b].status = "PREPARED"]
        PROVE  \A q \in Quotes : row'[q].nonce = row[q].nonce /\ row'[q].attempts = row[q].attempts
    BY <1>1, <2>3
  <2> QED
    BY <2>1, <2>2, <2>3 DEF ReadQuote
<1>3. pass'.pc \notin {"resolve", "duplicate"} /\ (pass'.pc = "sign" => Price(Height) < pass'.active)
  <2>1. CASE pass' = IdlePass
    BY <2>1 DEF IdlePass
  <2>2. CASE /\ Price(Height) < Max(quotes)
             /\ pass' = [pass EXCEPT !.pc = "sign", !.active = Max(quotes),
                                     !.live = row[Max(quotes)].status \in InFlight]
    BY <1>1, <2>2 DEF IdlePass
  <2> QED
    BY <2>1, <2>2 DEF ReadQuote
<1>4. ReceiptOfRow' /\ FinalDuplicate'
  BY <1>3 DEF ReceiptOfRow, FinalDuplicate
<1> QED
  BY <1>1, <1>2, <1>3, <1>4, QuietOrder DEF OrderInv, PoolShape

\* SignPublication: nothing was unresolved, so the new transaction is the only one.
LEMMA SignOrder ==
  ASSUME JournalInv, BlockShape, OrderInv, SignPublication
  PROVE  OrderInv'
<1> DEFINE q == pass.active
           pn == AccountNonce
           r == [row[q] EXCEPT !.status = "SIGNED", !.nonce = pn,
                   !.attempts = row[q].attempts + 1, !.receipt = NoBlock, !.deferred = FALSE]
           tx == [quote |-> q, nonce |-> pn, attempt |-> row[q].attempts + 1]
<1>1. /\ pass.pc = "sign" /\ chain' = chain /\ forks' = forks /\ pool' = pool
      /\ q \in Quotes /\ \A p \in Quotes : row[p].status \notin InFlight
      /\ Columns \subseteq DOMAIN row[q] /\ row[q].attempts \in Nat /\ DOMAIN row = Quotes
      /\ DOMAIN pass = DOMAIN IdlePass /\ pn \in Nat /\ NQuotes \in Nat
  BY MinedFinite, PublicationAssumption
     DEF SignPublication, chainVars, JournalInv, PassShape, TableShape
<1>2. CASE Threw(FALSE) /\ sent' = sent
  BY <1>1, <1>2, ThrewOrder
<1>3. CASE /\ row' = [row EXCEPT ![q] = r] /\ sent' = sent \cup {tx}
           /\ pass' = [pass EXCEPT !.pc = "receipt", !.caller = "signed", !.live = TRUE]
  <2>1. r.status = "SIGNED" /\ r.nonce = pn /\ r.attempts = row[q].attempts + 1
    BY <1>1
  <2>2. /\ tx \in [quote : Quotes, nonce : Nat, attempt : Nat]
        /\ tx.quote = q /\ tx.nonce = pn /\ tx.attempt = row[q].attempts + 1
    BY <1>1
  <2>3. pass'.pc = "receipt"
    BY <1>1, <1>3 DEF IdlePass
  <2>4. sent' = sent \cup {tx}
    BY <1>3
  <2>5. row'[q] = r /\ \A p \in Quotes \ {q} : row'[p] = row[p]
    BY <1>1, <1>3
  <2> HIDE DEF r
  <2>6. Transaction(q)' = tx /\ \A p \in Quotes \ {q} : Transaction(p)' = Transaction(p)
    <3>1. PICK b : b = q
      OBVIOUS
    <3>2. [quote |-> b, nonce |-> row'[b].nonce, attempt |-> row'[b].attempts] = tx
      BY <2>1, <2>5, <3>1
    <3>3. q' = q
      BY <1>1, <1>3 DEF IdlePass
    <3> QED
      BY <2>5, <3>1, <3>2, <3>3 DEF Transaction
  <2>7. Unresolved' \subseteq {tx}
    <3>1. Unresolved = {}
      BY <1>1, NothingUnresolved DEF OrderInv
    <3>2. \A x : Final(x)' = Final(x)
      BY <1>1 DEF Final, Finalized, Height, Block
    <3> QED
      BY <2>4, <3>1, <3>2 DEF Unresolved
  <2>8. \A n \in 0..Height : ~(Price(n) >= q)
    <3> SUFFICES ASSUME NEW n \in 0..Height, Price(n) >= q
                 PROVE  FALSE
      OBVIOUS
    <3>1. Height \in Nat /\ DOMAIN chain = 1..(Height + 1)
      BY MinedFinite DEF JournalInv
    <3>2. n + 1 \in DOMAIN chain /\ Height + 1 \in DOMAIN chain /\ n + 1 <= Height + 1
      BY <3>1
    <3>3. Price(n) <= Price(Height) /\ Price(n) \in Nat /\ Price(Height) \in Nat
      BY <3>2 DEF BlockShape, Price, Block
    <3>4. Price(Height) < q /\ q \in Nat
      BY <1>1 DEF OrderInv, UnresolvedShape, Quotes
    <3> QED
      BY <3>3, <3>4
  <2> HIDE DEF tx
  <2>9. PoolShape'
    BY <1>1, <2>2, <2>4 DEF OrderInv, PoolShape
  <2>10. NonceShape'
    BY <1>1 DEF OrderInv, NonceShape, Earlier, Mined, Height, Block
  <2>11. RowSent'
    <3> SUFFICES ASSUME NEW p \in Quotes, row'[p].nonce # -1
                 PROVE  Transaction(p)' \in sent'
      BY DEF RowSent
    <3>1. CASE p = q
      <4>1. [quote |-> p, nonce |-> row'[p].nonce, attempt |-> row'[p].attempts] = tx
        BY <2>1, <2>2, <2>5, <3>1 DEF tx
      <4> QED
        BY <2>4, <4>1 DEF Transaction
    <3>2. CASE p # q
      BY <2>4, <2>5, <2>6, <3>2 DEF OrderInv, RowSent
    <3> QED
      BY <3>1, <3>2
  <2>12. ReceiptOfRow' /\ FinalDuplicate'
    BY <2>3 DEF ReceiptOfRow, FinalDuplicate
  <2>13. UnresolvedShape'
    <3>1. ASSUME NEW t \in Unresolved'
          PROVE  /\ row'[t.quote].status \in InFlight /\ t = Transaction(t.quote)'
                 /\ \A n \in 0..Height' : ~(Price(n)' >= t.quote)
      <4>1. t = tx /\ t.quote = q
        BY <2>2, <2>7
      <4>2. row'[t.quote].status \in InFlight
        BY <2>1, <2>5, <4>1 DEF InFlight
      <4>3. t = Transaction(t.quote)'
        BY <1>3, <2>6, <4>1 DEF Transaction
      <4>4. Height' = Height /\ \A n : Price(n)' = Price(n)
        BY <1>1 DEF Height, Price, Block
      <4> QED
        BY <2>8, <4>1, <4>2, <4>3, <4>4
    <3>2. \A t, u \in Unresolved' : t = u
      BY <2>7
    <3> QED
      BY <2>3, <3>1, <3>2 DEF UnresolvedShape
  <2> QED
    BY <2>9, <2>10, <2>11, <2>12, <2>13 DEF OrderInv
<1> QED
  BY <1>2, <1>3 DEF SignPublication


\* Every step of the program.
LEMMA ProgramOrder ==
  ASSUME JournalInv, BlockShape, OrderInv, ProgramStep
  PROVE  OrderInv'
<1> USE DEF chainVars
<1>1. DOMAIN pass = DOMAIN IdlePass /\ DOMAIN row = Quotes
  BY DEF JournalInv, PassShape, TableShape
<1>2. ASSUME NEW q \in Quotes, CollectQuote(q)
      PROVE  OrderInv'
  <2>1. /\ chain' = chain /\ forks' = forks /\ sent' = sent /\ pool' = pool /\ row' = row
        /\ pass' = pass
    BY <1>2 DEF CollectQuote
  <2>2. ReceiptOfRow' /\ FinalDuplicate'
    BY <2>1 DEF OrderInv, ReceiptOfRow, Canonical, Block, Height, Transaction, FinalDuplicate,
                Final, Finalized
  <2> QED
    BY <2>1, <2>2, QuietOrder DEF OrderInv, PoolShape, UnresolvedShape
<1>3. ASSUME NEW q \in Quotes, ReachNextAttempt(q)
      PROVE  OrderInv'
  <2>1. /\ row' = [row EXCEPT ![q] = [row[q] EXCEPT !.deferred = FALSE]]
        /\ Columns \subseteq DOMAIN row[q] /\ pass'.pc = "idle"
        /\ chain' = chain /\ forks' = forks /\ sent' = sent /\ pool' = pool
    BY <1>3 DEF ReachNextAttempt, JournalInv, TableShape
  <2> DEFINE r == [row[q] EXCEPT !.deferred = FALSE]
  <2>2. r.nonce = row[q].nonce /\ r.attempts = row[q].attempts /\ r.status = row[q].status
    BY <2>1 DEF Columns
  <2>3. row' = [row EXCEPT ![q] = r]
    BY <2>1
  <2> HIDE DEF r
  <2> QED
    BY <2>1, <2>2, <2>3, OneRowOrder
<1>4. CASE BeginJob \/ NextOutstanding \/ ReadLatestNonce \/ Crash
  <2>1. /\ pass'.pc \notin {"resolve", "duplicate", "sign"}
        /\ chain' = chain /\ forks' = forks /\ sent' = sent /\ pool' = pool /\ row' = row
    BY <1>1, <1>4 DEF BeginJob, NextOutstanding, ReadLatestNonce, Crash, IdlePass
  <2> QED
    BY <2>1, QuietOrder DEF ReceiptOfRow, FinalDuplicate, OrderInv, PoolShape
<1>5. CASE CallFails
  BY <1>5, ThrewOrder DEF CallFails
<1>6. ASSUME NEW accepted \in BOOLEAN, NEW reply \in {"accepted", "unknown", "gas"},
             Broadcast(accepted, reply)
      PROVE  OrderInv'
  <2> DEFINE b == pass.active
  <2>1. /\ pass.pc = "broadcast" /\ pool' \subseteq pool \cup {Transaction(b)}
        /\ chain' = chain /\ forks' = forks /\ sent' = sent /\ row' = row
    BY <1>6 DEF Broadcast
  <2>2. pass'.pc = "record"
    BY <1>1, <1>6 DEF Broadcast, IdlePass
  <2>3. b \in Quotes /\ row[b].nonce # -1
    BY <2>1 DEF JournalInv, PassShape, TableShape, ReconcileSteps
  <2>4. pool' \subseteq sent
    BY <2>1, <2>3 DEF OrderInv, PoolShape, RowSent
  <2> QED
    BY <2>1, <2>2, <2>4, QuietOrder DEF ReceiptOfRow, FinalDuplicate
<1>7. CASE RecordBroadcast
  <2>1. pass.pc = "record" /\ pass.active \in Quotes /\ pass'.pc = "idle"
    BY <1>7 DEF RecordBroadcast, JournalInv, PassShape, ReconcileSteps, IdlePass
  <2>2. PICK s \in InFlight : row' = [row EXCEPT ![pass.active].status = s]
    BY <1>7 DEF RecordBroadcast, InFlight
  <2>3. chain' = chain /\ forks' = forks /\ sent' = sent /\ pool' = pool
    BY <1>7 DEF RecordBroadcast
  <2> QED
    BY <2>1, <2>2, <2>3, BackInFlightOrder
<1>8. CASE CheckPrevious
  <2>1. chain' = chain /\ forks' = forks /\ sent' = sent /\ pool' = pool
        /\ pass'.pc \notin {"resolve", "duplicate", "sign"}
    BY <1>1, <1>8 DEF CheckPrevious, IdlePass
  <2>2. CASE row' = row
    BY <2>1, <2>2, QuietOrder DEF ReceiptOfRow, FinalDuplicate, OrderInv, PoolShape
  <2>3. ASSUME NEW q \in Newest, row' = [row EXCEPT ![q].status = "RECONCILING"]
        PROVE  OrderInv'
    <3>1. q \in Quotes /\ "RECONCILING" \in InFlight
      BY DEF Newest, Settled, InFlight
    <3> QED
      BY <2>1, <2>3, <3>1, BackInFlightOrder
  <2> QED
    BY <1>8, <2>2, <2>3 DEF CheckPrevious
<1>9. CASE \/ ReadReceipt \/ ResolveReceipt \/ CheckDuplicate \/ ConsumedNonce
           \/ ReadPendingNonce \/ ReadQuote \/ SignPublication
  BY <1>9, ReadReceiptOrder, ResolveOrder, CheckDuplicateOrder, ConsumedNonceOrder,
     ReadPendingNonceOrder, ReadQuoteOrder, SignOrder
<1> QED
  BY <1>2, <1>3, <1>4, <1>5, <1>6, <1>7, <1>8, <1>9 DEF ProgramStep, JobStep

LEMMA OrderInit == Init => OrderInv
<1> SUFFICES ASSUME Init
             PROVE  OrderInv
  OBVIOUS
<1>1. /\ DOMAIN chain = {1} /\ chain[1].tx = NoTx /\ Len(chain) = 1
      /\ pool = {} /\ sent = {} /\ pass.pc = "idle"
      /\ \A q \in Quotes : row[q].nonce = -1
  BY DEF Init, IdlePass
<1>2. Mined = {}
  BY <1>1 DEF Mined, Block, Height
<1> QED
  BY <1>1, <1>2 DEF OrderInv, PoolShape, NonceShape, RowSent, ReceiptOfRow, FinalDuplicate,
                    UnresolvedShape, Unresolved

LEMMA OrderStep ==
  ASSUME MaxDepth < Confirmations, ByHand \subseteq {0},
         ReceiptInv, OrderInv, [Next]_vars
  PROVE  OrderInv'
<1>1. JournalInv /\ BlockShape
  BY DEF ReceiptInv
<1>2. CASE \/ \E tx \in pool, authorized \in BOOLEAN : Mine(tx, authorized)
           \/ \E tx \in pool : Lose(tx)
           \/ \E q \in ByHand : SendByHand(q)
           \/ MineEmpty
           \/ \E depth \in 1..MaxDepth, returned \in BOOLEAN : Reorg(depth, returned)
  BY <1>1, <1>2, ChainStepOrder
<1>3. CASE ProgramStep
  BY <1>1, <1>3, ProgramOrder
<1>4. CASE UNCHANGED vars
  BY <1>4 DEF vars, chainVars, OrderInv, PoolShape, NonceShape, Earlier, Mined, Height, Block,
     RowSent, Transaction, ReceiptOfRow, Canonical, FinalDuplicate, UnresolvedShape, Unresolved, Final,
     Finalized, Price
<1> QED
  BY <1>2, <1>3, <1>4 DEF Next, ProgramStep

\* While nobody publishes by hand and reorganizations are shallower than the
\* confirmations, at most one of the signed publications can still be executed.
THEOREM PublicationsOneAtATime ==
  ASSUME MaxDepth < Confirmations, ByHand \subseteq {0}
  PROVE  Spec => []OneLiveTransaction
<1>1. Init => ReceiptInv /\ OrderInv
  BY ReceiptInit, OrderInit
<1>2. ReceiptInv /\ OrderInv /\ [Next]_vars => ReceiptInv' /\ OrderInv'
  BY ReceiptStep, OrderStep
<1>3. ReceiptInv /\ OrderInv => OneLiveTransaction
  <2> SUFFICES ASSUME ReceiptInv, OrderInv
               PROVE  OneLiveTransaction
    OBVIOUS
  <2> DEFINE live == {t \in sent : t.nonce >= AccountNonce}
  <2>1. live \subseteq Unresolved
    <3> SUFFICES ASSUME NEW t \in live, Final(t.nonce)
                 PROVE  FALSE
      BY DEF Unresolved
    <3>1. t.nonce \in Nat /\ t.nonce >= AccountNonce
      BY DEF OrderInv, PoolShape
    <3>2. t.nonce < AccountNonce /\ AccountNonce \in Nat
      BY <3>1, FinalIsUsed, MinedFinite DEF ReceiptInv, JournalInv, OrderInv
    <3> QED
      BY <3>1, <3>2
  <2>2. \A t, u \in live : t = u
    BY <2>1 DEF OrderInv, UnresolvedShape
  <2> HIDE DEF live
  <2>3. Cardinality(live) \in {0, 1}
    <3>1. CASE live = {}
      BY <3>1, FS_EmptySet
    <3>2. CASE live # {}
      <4>1. PICK t : t \in live
        BY <3>2
      <4>2. live = {t}
        BY <2>2, <4>1
      <4> QED
        BY <4>2, FS_Singleton
    <3> QED
      BY <3>1, <3>2
  <2> QED
    BY <2>3 DEF OneLiveTransaction, live
<1> QED
  BY <1>1, <1>2, <1>3, PTL DEF Spec

\* Everything the run of the publication checks, under those two conditions.
THEOREM PublicationIsSafe ==
  ASSUME MaxDepth < Confirmations, ByHand \subseteq {0}
  PROVE  Spec => []PublishedInv
BY ConfirmedRowsArePublished, ConfirmedRowsStayPublished, PublicationsOneAtATime,
   PublicationNonceNeverReused, PTL DEF PublishedInv
=============================================================================
