-------------------- MODULE KeywordMarketCharges_proofs --------------------
(***************************************************************************)
(* The charge journal implements the wallet reservation for every number   *)
(* of clicks, runs and stakes, every chain and reorganizations of every    *)
(* depth, so no nonce is signed twice; and the tables of the charge worker *)
(* keep their shape.                                                       *)
(*                                                                         *)
(* A step refines the reservation only if the batch it works on is in the  *)
(* state the code expects: signed where it is reconciled (otherwise an     *)
(* unsigned row would enter flight), at rest where it is signed (otherwise *)
(* a nonce in flight would be overwritten).  That is PassShape; it is      *)
(* inductive together with the shapes of the tables and the chain.  The    *)
(* pending nonce is bounded below by a pigeonhole argument on the pool.    *)
(*                                                                         *)
(* The tables: rows are numbered as they come, the clicks of a batch       *)
(* follow it and add up to what it is due, a finished run has nothing left *)
(* to settle, every signed transaction is in the journal, and the node     *)
(* executes nonces in order and a charge once.                             *)
(***************************************************************************)
EXTENDS MCKeywordMarketCharges, FiniteSetTheorems, WellFoundedInduction, TLAPS

\* The wallet reservation without bounds on nonces and attempts.
Journal == INSTANCE KeywordMarketWallet_proofs WITH
  Charges <- Batches, Publications <- {}, Wallets <- {"operator"}, NoWallet <- "none",
  Nonces <- Nat, Attempts <- Nat, NonceRollback <- TRUE,
  state <- [b \in Batches |-> IF batch[b].status \in InFlight THEN "inFlight" ELSE "resting"],
  signer <- [b \in Batches |-> IF Signed(b) THEN "operator" ELSE "none"],
  nonce <- [b \in Batches |-> batch[b].nonce],
  attempts <- [b \in Batches |-> batch[b].attempts],
  sent <- {[row |-> t.charge, wallet |-> "operator", nonce |-> t.nonce,
            attempt |-> t.attempt] : t \in sent},
  accountNonce <- [w \in {"operator"} |-> AccountNonce]

-----------------------------------------------------------------------------
\* The node's answers are numbers, and its pool is finite.
ChainShape ==
  /\ chain \in Seq({chain[i] : i \in DOMAIN chain})
  /\ IsFiniteSet(mempool)

\* The columns of the journal that the reservation reads.
BatchShape ==
  /\ DOMAIN batch = Batches
  /\ \A b \in Batches :
       /\ {"status", "nonce", "attempts"} \subseteq DOMAIN batch[b]
       /\ batch[b].nonce \in Nat \cup {-1}
       /\ batch[b].attempts \in Nat

SignedSteps == {"receipt", "unseen", "broadcast", "record"}
PrepareSteps == {"check", "sign"}

\* A pass only reconciles signed batches, only signs batches that rest, and
\* does not come back to a batch it has taken from its list.
PassShape ==
  /\ DOMAIN pass = DOMAIN IdlePass
  /\ pass.todo \subseteq Batches
  /\ pass.pc \in SignedSteps => pass.batch \in Batches /\ Signed(pass.batch)
  /\ pass.pc \in PrepareSteps =>
       pass.batch \in Batches /\ batch[pass.batch].status \in Preparable
  /\ pass.pc \notin SignedSteps \cup PrepareSteps => pass.batch = 0
  /\ pass.pc = "fetch" => pass.run = 0
  /\ pass.pc \in {"prepare", "finish"} \cup PrepareSteps => pass.run # 0
  /\ pass.run # 0 => \A b \in pass.todo : b # pass.batch /\ batch[b].status \in Preparable

JournalInv == ChainShape /\ BatchShape /\ PassShape

-----------------------------------------------------------------------------
\* Min of a nonempty set of numbers is one of them, and the least.
LEMMA MinMember ==
  ASSUME NEW S, S \subseteq Nat, S # {}
  PROVE  Min(S) \in S /\ \A y \in S : Min(S) <= y
<1> DEFINE R == OpToRel(<, Nat)
<1>1. \A x, y \in Nat : y < x => <<y, x>> \in R
  BY DEF OpToRel
<1>2. IsWellFoundedOn(R, Nat)
  BY NatLessThanWellFounded
<1> HIDE DEF R
<1>3. PICK x \in S : \A y \in S : ~ (<<y, x>> \in R)
  BY <1>2, WFMin
<1>4. ASSUME NEW y \in S
      PROVE  x <= y
  <2>1. x \in Nat /\ y \in Nat
    OBVIOUS
  <2>2. ~ (y < x)
    BY <1>1, <1>3, <2>1
  <2> QED
    BY <2>1, <2>2
<1> QED
  BY <1>4 DEF Min

\* The executed count is a number.
LEMMA AccountNonceNat == ChainShape => AccountNonce \in Nat
<1> SUFFICES ASSUME ChainShape
             PROVE  AccountNonce \in Nat
  OBVIOUS
<1>1. Height \in Int
  BY DEF ChainShape, Height
<1>2. IsFiniteSet(0..Height)
  BY <1>1, FS_Interval
<1>3. Mined \in SUBSET (0..Height)
  BY DEF Mined
<1>4. IsFiniteSet(Mined)
  BY <1>2, <1>3, FS_Subset
<1> QED
  BY <1>4, FS_CardinalityType DEF AccountNonce

\* The pending nonce is a number and not below the executed count: of more
\* candidates than there are waiting transactions, one is free.
LEMMA PendingNonceBound ==
  ASSUME ChainShape
  PROVE  PendingNonce \in Nat /\ PendingNonce >= AccountNonce
<1> DEFINE A == AccountNonce
           K == Cardinality(mempool)
           free == {n \in A..(A + K) : \A t \in mempool : t.nonce # n}
<1>1. A \in Nat /\ K \in Nat
  BY AccountNonceNat, FS_CardinalityType DEF ChainShape
<1>2. free # {}
  <2> SUFFICES ASSUME free = {}
               PROVE  FALSE
    OBVIOUS
  <2> DEFINE f == [n \in A..(A + K) |-> CHOOSE t \in mempool : t.nonce = n]
  <2>1. \A n \in A..(A + K) : f[n] \in mempool /\ f[n].nonce = n
    OBVIOUS
  <2>2. f \in [A..(A + K) -> mempool]
    BY <2>1
  <2>3. IsFiniteSet(A..(A + K)) /\ Cardinality(A..(A + K)) = K + 1
    BY <1>1, FS_Interval
  <2> HIDE DEF f
  <2>4. Cardinality(mempool) < Cardinality(A..(A + K)) /\ IsFiniteSet(mempool)
    BY <1>1, <2>3 DEF ChainShape
  <2>5. \E x, y \in A..(A + K) : x # y /\ f[x] = f[y]
    <3> DEFINE S == A..(A + K)
    <3>1. IsFiniteSet(S) /\ Cardinality(mempool) < Cardinality(S) /\ f \in [S -> mempool]
      BY <2>2, <2>3, <2>4
    <3> HIDE DEF S
    <3>2. \E x, y \in S : x # y /\ f[x] = f[y]
      BY <2>4, <3>1, FS_PigeonHole
    <3> QED
      BY <3>2 DEF S
  <2> QED
    BY <2>1, <2>5
<1>3. free \subseteq Nat
  BY <1>1
<1>4. Min(free) \in free
  BY <1>2, <1>3, MinMember
<1>5. PendingNonce = Min(free)
  BY DEF PendingNonce
<1> QED
  BY <1>1, <1>4, <1>5

-----------------------------------------------------------------------------
\* What a step may do to the journal without signing: at most one row enters
\* or leaves flight, and only a signed row enters it.
RowStep(b) ==
  /\ chain' = chain /\ sent' = sent
  /\ \A d \in Batches : batch'[d].nonce = batch[d].nonce
                       /\ batch'[d].attempts = batch[d].attempts
  /\ \A d \in Batches \ {b} :
       batch'[d].status \in InFlight <=> batch[d].status \in InFlight
  /\ b \in Batches /\ batch'[b].status \in InFlight =>
       batch[b].status \in InFlight \/ Signed(b)

\* Such a step concludes or reopens the row, or is invisible to the wallet.
LEMMA RowStepRefines ==
  ASSUME NEW b, RowStep(b)
  PROVE  [Journal!Next]_(Journal!vars)
<1> DEFINE st == [d \in Batches |-> IF batch[d].status \in InFlight THEN "inFlight"
                                    ELSE "resting"]
<1>1. /\ \A d \in Batches : batch'[d].nonce = batch[d].nonce
      /\ \A d \in Batches : batch'[d].attempts = batch[d].attempts
      /\ \A d \in Batches \ {b} :
           batch'[d].status \in InFlight <=> batch[d].status \in InFlight
      /\ chain' = chain /\ sent' = sent
  BY DEF RowStep
<1>2. [d \in Batches |-> batch[d].nonce]' = [d \in Batches |-> batch[d].nonce]
  BY <1>1
<1>3. [d \in Batches |-> batch[d].attempts]' = [d \in Batches |-> batch[d].attempts]
  BY <1>1
<1>4. [d \in Batches |-> IF Signed(d) THEN "operator" ELSE "none"]'
        = [d \in Batches |-> IF Signed(d) THEN "operator" ELSE "none"]
  BY <1>1 DEF Signed
<1>5. AccountNonce' = AccountNonce
  BY <1>1 DEF AccountNonce, Mined, Height, Block
<1>6. CASE b \notin Batches \/ (batch'[b].status \in InFlight <=> batch[b].status \in InFlight)
  <2>1. st' = st
    BY <1>1, <1>6
  <2> QED
    BY <1>1, <1>2, <1>3, <1>4, <1>5, <2>1 DEF Journal!vars
<1>7. CASE b \in Batches /\ batch'[b].status \notin InFlight /\ batch[b].status \in InFlight
  <2>1. st' = [st EXCEPT ![b] = "resting"] /\ st[b] = "inFlight"
    BY <1>1, <1>7
  <2>2. Journal!Conclude(b)
    BY <1>1, <1>2, <1>3, <1>4, <1>5, <2>1 DEF Journal!Conclude
  <2> QED
    BY <1>7, <2>2 DEF Journal!Next, Journal!Rows
<1>8. CASE b \in Batches /\ batch'[b].status \in InFlight /\ batch[b].status \notin InFlight
  <2>1. st' = [st EXCEPT ![b] = "inFlight"] /\ st[b] = "resting"
    BY <1>1, <1>8
  <2>2. batch[b].nonce # -1
    BY <1>8 DEF RowStep, Signed
  <2>3. Journal!Reopen(b)
    BY <1>1, <1>2, <1>3, <1>4, <1>5, <1>8, <2>1, <2>2 DEF Journal!Reopen
  <2> QED
    BY <1>8, <2>3 DEF Journal!Next, Journal!Rows
<1> QED
  BY <1>6, <1>7, <1>8

\* The chain executes or undoes transactions of the wallet.
LEMMA ChainStepRefines ==
  ASSUME ChainShape, ChainShape', UNCHANGED <<batch, sent>>
  PROVE  [Journal!Next]_(Journal!vars)
<1> DEFINE an == [w \in {"operator"} |-> AccountNonce]
<1>1. AccountNonce \in Nat
  BY AccountNonceNat
<1>2. AccountNonce' \in Nat
  <2>1. (ChainShape => AccountNonce \in Nat)'
    BY AccountNonceNat, PTL
  <2> QED
    BY <2>1
<1>3. an' = [an EXCEPT !["operator"] = AccountNonce'] /\ an["operator"] = AccountNonce
  OBVIOUS
<1>4. CASE AccountNonce' = AccountNonce
  BY <1>4 DEF Journal!vars, Signed
<1>5. CASE AccountNonce' > AccountNonce
  <2>1. Journal!Execute("operator", AccountNonce')
    BY <1>3, <1>5 DEF Journal!Execute, Signed
  <2> QED
    BY <1>2, <2>1 DEF Journal!Next
<1>6. CASE AccountNonce' < AccountNonce
  <2>1. Journal!Rollback("operator", AccountNonce')
    BY <1>3, <1>6 DEF Journal!Rollback, Signed
  <2> QED
    BY <1>2, <2>1 DEF Journal!Next
<1> QED
  BY <1>1, <1>2, <1>4, <1>5, <1>6

-----------------------------------------------------------------------------
\* The local state a pass can leave for its next step.
PassFits(p) ==
  /\ DOMAIN p = DOMAIN IdlePass
  /\ p.todo \subseteq Batches
  /\ p.run # 0 => \A b \in p.todo : batch'[b].status \in Preparable

\* reconcileChargeBatch and prepareBatch give control back without a batch.
LEMMA ReturnedShape ==
  ASSUME NEW p, PassFits(p), NEW w, pass' = Returned(p, w)
  PROVE  PassShape'
<1>1. pass'.batch = 0 /\ pass'.todo = p.todo /\ pass'.run = p.run
  BY DEF Returned, PassFits, IdlePass
<1>2. DOMAIN pass' = DOMAIN IdlePass
  BY DEF Returned, PassFits, IdlePass
<1>3. pass'.pc \in {"reconcile", "prepare", "finish"} /\ (pass'.pc # "reconcile" => p.run # 0)
  BY DEF Returned, PassFits, IdlePass
<1>4. 0 \notin Batches
  BY DEF Batches
<1> QED
  BY <1>1, <1>2, <1>3, <1>4 DEF PassShape, PassFits, SignedSteps, PrepareSteps

LEMMA ThrewShape ==
  ASSUME NEW p, PassFits(p), NEW error, pass' = Threw(p, error)
  PROVE  PassShape'
<1>1. pass'.batch = 0 /\ pass'.todo = p.todo /\ pass'.run = p.run
  BY DEF Threw, PassFits, IdlePass
<1>2. DOMAIN pass' = DOMAIN IdlePass
  BY DEF Threw, PassFits, IdlePass
<1>3. pass'.pc \in {"settings", "prepare", "finish"} /\ (pass'.pc # "settings" => p.run # 0)
  BY DEF Threw, PassFits, IdlePass
<1>4. 0 \notin Batches
  BY DEF Batches
<1> QED
  BY <1>1, <1>2, <1>3, <1>4 DEF PassShape, PassFits, SignedSteps, PrepareSteps

\* An idle pass fits.
LEMMA IdleShape ==
  ASSUME pass' = IdlePass \/ pass' = [IdlePass EXCEPT !.outage = TRUE]
  PROVE  PassShape'
  BY DEF IdlePass, PassShape, SignedSteps, PrepareSteps

\* The chain is left alone.
LEMMA SameChain ==
  ASSUME ChainShape, chain' = chain, mempool' = mempool
  PROVE  ChainShape'
  BY DEF ChainShape

\* Row b is written, without a new signature.
RowChange(b) ==
  /\ chain' = chain /\ sent' = sent
  /\ DOMAIN batch' = Batches
  /\ \A d \in Batches \ {b} : batch'[d] = batch[d]
  /\ b \in Batches => /\ {"status", "nonce", "attempts"} \subseteq DOMAIN batch'[b]
                      /\ batch'[b].nonce = batch[b].nonce
                      /\ batch'[b].attempts = batch[b].attempts
                      /\ batch'[b].status \in InFlight =>
                           batch[b].status \in InFlight \/ Signed(b)

LEMMA OneRow ==
  ASSUME BatchShape, NEW b, RowChange(b)
  PROVE  BatchShape' /\ RowStep(b)
<1>1. BatchShape'
  BY DEF BatchShape, RowChange
<1>2. RowStep(b)
  BY DEF RowStep, RowChange
<1> QED
  BY <1>1, <1>2

\* No row is touched.
LEMMA SameBatches ==
  ASSUME BatchShape, batch' = batch, chain' = chain, sent' = sent
  PROVE  BatchShape' /\ RowStep(0)
  BY DEF BatchShape, RowStep, Batches

-----------------------------------------------------------------------------
\* Steps of the API and of time leave the pass and the signed columns alone.
LEMMA ApiAndTimeSteps ==
  ASSUME JournalInv, ApiStep \/ TimeStep
  PROVE  JournalInv' /\ [Journal!Next]_(Journal!vars)
<1>1. chain' = chain /\ mempool' = mempool /\ sent' = sent /\ pass' = pass
  BY DEF ApiStep, TimeStep, ClaimClick, FinishCapture, ToggleAutomatic, RequestManualRun,
         Age, ReachNextAttempt, chainVars
<1>2. ChainShape'
  BY <1>1, SameChain DEF JournalInv
<1>3. CASE batch' = batch
  BY <1>1, <1>2, <1>3, SameBatches, RowStepRefines
  DEF JournalInv, PassShape, Signed
<1>4. ASSUME NEW b \in Batches, ReachNextAttempt(b)
      PROVE  JournalInv' /\ [Journal!Next]_(Journal!vars)
  <2>1. batch' = [batch EXCEPT ![b] = [@ EXCEPT !.deferred = FALSE]]
    BY <1>4 DEF ReachNextAttempt
  <2>2. RowChange(b) /\ batch'[b].status = batch[b].status
    BY <1>1, <2>1 DEF RowChange, JournalInv, BatchShape
  <2>3. BatchShape' /\ RowStep(b)
    BY <2>2, OneRow DEF JournalInv
  <2>4. \A d \in Batches : batch'[d].status = batch[d].status
                          /\ batch'[d].nonce = batch[d].nonce
    BY <2>2 DEF RowChange
  <2>5. PassShape'
    BY <1>1, <2>4 DEF JournalInv, PassShape, Signed
  <2> QED
    BY <1>2, <2>3, <2>5, RowStepRefines DEF JournalInv
<1>5. batch' = batch \/ \E b \in Batches : ReachNextAttempt(b)
  BY DEF ApiStep, TimeStep, ClaimClick, FinishCapture, ToggleAutomatic, RequestManualRun,
         Age
<1> QED
  BY <1>3, <1>4, <1>5

\* Steps of the pass that write neither batches nor the pool.
LEMMA QuietSteps ==
  ASSUME JournalInv, batch' = batch, chain' = chain, mempool' = mempool, sent' = sent,
         PassShape'
  PROVE  JournalInv' /\ [Journal!Next]_(Journal!vars)
  BY SameChain, SameBatches, RowStepRefines DEF JournalInv

\* They keep the pass on a batch it may work on.
LEMMA QuietPassShape ==
  ASSUME JournalInv,
         \/ Start \/ ValidateAndFetch \/ ReceiptMissing \/ RefreshRun \/ PlanRuns
         \/ BlockRun \/ PrepareNext \/ FinishRun \/ Crash
         \/ \E ready \in BOOLEAN : SaveCheckpoint(ready)
  PROVE  /\ batch' = batch /\ chain' = chain /\ mempool' = mempool /\ sent' = sent
         /\ PassShape'
<1> USE DEF JournalInv
<1>0. 0 \notin Batches /\ Batches \subseteq Nat
  BY DEF Batches
<1>1. /\ batch' = batch /\ chain' = chain /\ mempool' = mempool /\ sent' = sent
  BY DEF Start, BeginPass, ValidateAndFetch, ReceiptMissing, RefreshRun, PlanRuns, BlockRun,
         PrepareNext, FinishRun, Crash, SaveCheckpoint, chainVars, dbVars
<1>2. CASE Start
  <2>1. /\ DOMAIN pass' = DOMAIN IdlePass /\ pass'.todo = {} /\ pass'.run = 0
        /\ pass'.pc = "fetch" /\ pass'.batch = 0
    BY <1>2 DEF Start, BeginPass, IdlePass
  <2> QED
    BY <1>1, <2>1 DEF PassShape, SignedSteps, PrepareSteps
<1>3. CASE ValidateAndFetch
  <2>1. /\ DOMAIN pass' = DOMAIN IdlePass /\ pass'.todo \subseteq Batches
        /\ pass'.run = 0 /\ pass'.pc = "reconcile" /\ pass'.batch = 0
    BY <1>3 DEF ValidateAndFetch, ToReconcile, PassShape, IdlePass, SignedSteps, PrepareSteps
  <2> QED
    BY <1>1, <2>1 DEF PassShape, SignedSteps, PrepareSteps
<1>4. CASE ReceiptMissing
  BY <1>1, <1>4 DEF ReceiptMissing, PassShape, IdlePass, SignedSteps, PrepareSteps, Signed
<1>5. CASE RefreshRun
  <2>1. /\ DOMAIN pass' = DOMAIN IdlePass /\ pass'.todo = pass.todo
        /\ pass'.run = pass.run /\ pass'.batch = 0
        /\ pass'.pc \in {"refresh", "plan", "prepare"}
        /\ pass'.pc = "prepare" => pass.run # 0
    BY <1>5 DEF RefreshRun, AfterRefresh, PassShape, IdlePass, SignedSteps, PrepareSteps
  <2> QED
    BY <1>0, <1>1, <2>1 DEF PassShape, SignedSteps, PrepareSteps
<1>6. CASE \E ready \in BOOLEAN : SaveCheckpoint(ready)
  <2>1. /\ DOMAIN pass' = DOMAIN IdlePass /\ pass'.todo = {}
        /\ pass'.run = pass.run /\ pass'.batch = 0
        /\ pass'.pc \in {"refresh", "plan", "prepare"}
        /\ pass'.pc = "prepare" => pass.run # 0
    BY <1>6 DEF SaveCheckpoint, AfterRefresh, PassShape, IdlePass, SignedSteps, PrepareSteps
  <2> QED
    BY <1>1, <2>1 DEF PassShape, SignedSteps, PrepareSteps
<1>7. ASSUME NEW p, NEW runs, pass' = NextRun(p, runs), DOMAIN p = DOMAIN IdlePass,
             p.batch = 0, p.todo \subseteq Batches
      PROVE  PassShape'
  <2>1. CASE runs = {}
    BY <1>7, <2>1, IdleShape DEF NextRun
  <2>2. CASE runs # {}
    <3>1. /\ DOMAIN pass' = DOMAIN IdlePass /\ pass'.todo = p.todo /\ pass'.run = 0
          /\ pass'.batch = 0 /\ pass'.pc = "run"
      BY <1>7, <2>2 DEF NextRun, IdlePass
    <3> QED
      BY <1>7, <3>1 DEF PassShape, SignedSteps, PrepareSteps
  <2> QED
    BY <2>1, <2>2
<1>8. CASE PlanRuns
  <2>1. PICK runs : pass' = NextRun(pass, runs)
    BY <1>8 DEF PlanRuns
  <2>2. pass.batch = 0
    BY <1>8 DEF PlanRuns, PassShape, SignedSteps, PrepareSteps
  <2>3. DOMAIN pass = DOMAIN IdlePass /\ pass.todo \subseteq Batches
    BY DEF PassShape
  <2> QED
    BY <1>1, <1>7, <2>1, <2>2, <2>3
<1>9. CASE BlockRun
  <2>1. PICK runs : pass' = NextRun(pass, runs)
    BY <1>9 DEF BlockRun
  <2>2. pass.batch = 0
    BY <1>9 DEF BlockRun, PassShape, SignedSteps, PrepareSteps
  <2>3. DOMAIN pass = DOMAIN IdlePass /\ pass.todo \subseteq Batches
    BY DEF PassShape
  <2> QED
    BY <1>1, <1>7, <2>1, <2>2, <2>3
<1>10. CASE FinishRun
  <2>1. pass.batch = 0
    BY <1>10 DEF FinishRun, PassShape, SignedSteps, PrepareSteps
  <2> DEFINE p == [pass EXCEPT !.todo = {}, !.failure = "none",
                     !.blocked = IF pass.failure \in {"none", "waiting", "orphaned"} THEN @
                                 ELSE pass.failure]
  <2>2. pass' = NextRun(p, pass.runs)
    BY <1>10 DEF FinishRun
  <2>3. DOMAIN p = DOMAIN IdlePass /\ p.batch = 0 /\ p.todo \subseteq Batches
    BY <2>1 DEF PassShape, IdlePass
  <2> HIDE DEF p
  <2> QED
    BY <1>1, <1>7, <2>2, <2>3
<1>11. CASE PrepareNext
  <2> DEFINE b == Min(pass.todo)
  <2>1. b \in pass.todo /\ b \in Batches
    BY <1>0, <1>11, MinMember DEF PrepareNext, PassShape
  <2>2. /\ pass.run # 0 /\ pass.batch = 0 /\ batch[b].status \in Preparable
    BY <1>11, <2>1 DEF PrepareNext, PassShape, SignedSteps, PrepareSteps
  <2>3. /\ DOMAIN pass' = DOMAIN IdlePass /\ pass'.todo \subseteq pass.todo \ {b}
        /\ pass'.run = pass.run
        /\ \/ pass'.pc \in {"prepare", "finish"} /\ pass'.batch = 0
           \/ pass'.pc = "check" /\ pass'.batch = b
    BY <1>11, <2>2 DEF PrepareNext, PassShape, IdlePass
  <2> HIDE DEF b
  <2> QED
    BY <1>0, <1>1, <2>1, <2>2, <2>3 DEF PassShape, SignedSteps, PrepareSteps
<1>12. CASE Crash
  <2>1. pass' = [IdlePass EXCEPT !.outage = TRUE]
    BY <1>12 DEF Crash
  <2> QED
    BY <1>1, <2>1, IdleShape
<1> QED
  BY <1>1, <1>2, <1>3, <1>4, <1>5, <1>6, <1>8, <1>9, <1>10, <1>11, <1>12

-----------------------------------------------------------------------------
\* The pass gives up control of batch b with local state p.
GivesBack(b, p) ==
  /\ DOMAIN p = DOMAIN IdlePass /\ p.todo \subseteq pass.todo /\ p.run = pass.run
  /\ p.run # 0 => b \notin p.todo
  /\ (\E w : pass' = Returned(p, w)) \/ (\E error : pass' = Threw(p, error))

\* A step that writes one row and gives the batch back.
LEMMA RowDone ==
  ASSUME JournalInv, NEW b, RowChange(b), mempool' = mempool, NEW p, GivesBack(b, p)
  PROVE  JournalInv' /\ [Journal!Next]_(Journal!vars)
<1>1. ChainShape'
  BY SameChain DEF JournalInv, RowChange
<1>2. BatchShape' /\ RowStep(b)
  BY OneRow DEF JournalInv
<1>3. PassFits(p)
  BY DEF JournalInv, PassShape, GivesBack, RowChange, PassFits
<1>4. PassShape'
  BY <1>3, ReturnedShape, ThrewShape DEF GivesBack
<1> QED
  BY <1>1, <1>2, <1>4, RowStepRefines DEF JournalInv

\* The batch of a step that reconciles is signed and off the list.
LEMMA SignedBatch ==
  ASSUME JournalInv, pass.pc \in SignedSteps
  PROVE  /\ pass.batch \in Batches /\ Signed(pass.batch)
         /\ pass.run # 0 => pass.batch \notin pass.todo
  BY DEF JournalInv, PassShape

LEMMA RecordBroadcastStep ==
  ASSUME JournalInv, RecordBroadcast
  PROVE  JournalInv' /\ [Journal!Next]_(Journal!vars)
<1> DEFINE p == [pass EXCEPT !.reply = "none"]
<1>1. /\ pass.batch \in Batches /\ Signed(pass.batch)
      /\ pass.run # 0 => pass.batch \notin pass.todo
  BY SignedBatch DEF RecordBroadcast, SignedSteps
<1>2. RowChange(pass.batch) /\ mempool' = mempool
  BY <1>1 DEF RecordBroadcast, RowChange, JournalInv, BatchShape, chainVars
<1>3. GivesBack(pass.batch, p)
  <2>1. DOMAIN p = DOMAIN IdlePass /\ p.todo = pass.todo /\ p.run = pass.run
    BY DEF JournalInv, PassShape, IdlePass
  <2>2. pass' = Returned(p, TRUE) \/ pass' = Threw(p, "other")
    BY DEF RecordBroadcast
  <2> HIDE DEF p
  <2> QED
    BY <1>1, <2>1, <2>2 DEF GivesBack
<1> QED
  BY <1>2, <1>3, RowDone

\* Settle and Reconciling write the row of a signed batch.
LEMMA ReconcilingRow ==
  ASSUME JournalInv, NEW b \in Batches, Signed(b), NEW error, Reconciling(b, error),
         chain' = chain, sent' = sent
  PROVE  RowChange(b)
  BY DEF Reconciling, RowChange, JournalInv, BatchShape

LEMMA SettleRow ==
  ASSUME JournalInv, NEW b \in Batches, NEW n, Settle(b, n), chain' = chain, sent' = sent
  PROVE  RowChange(b)
<1> DEFINE short == batch[b].due > Block(n).charged
           row == [batch[b] EXCEPT !.status = IF short THEN "PARTIAL" ELSE "CONFIRMED",
                     !.charged = Block(n).charged,
                     !.receipt = [n |-> n, hash |-> BlockHash(n)],
                     !.error = IF short THEN "other" ELSE "none",
                     !.deferred = FALSE]
<1>1. batch' = [batch EXCEPT ![b] = row]
  BY DEF Settle
<1>2. /\ {"status", "nonce", "attempts"} \subseteq DOMAIN row
      /\ row.status \in {"PARTIAL", "CONFIRMED"}
      /\ row.nonce = batch[b].nonce /\ row.attempts = batch[b].attempts
  BY DEF JournalInv, BatchShape
<1> HIDE DEF row
<1> QED
  BY <1>1, <1>2 DEF RowChange, JournalInv, BatchShape, InFlight

\* settleIndexedCharge either settles the batch or leaves it reconciling.
LEMMA SettleIndexedDone ==
  ASSUME JournalInv, NEW indexed, pass.pc \in SignedSteps,
         SettleIndexed(pass.batch, indexed),
         chain' = chain, sent' = sent, mempool' = mempool
  PROVE  JournalInv' /\ [Journal!Next]_(Journal!vars)
<1> DEFINE b == pass.batch
<1>1. b \in Batches /\ Signed(b) /\ (pass.run # 0 => b \notin pass.todo)
  BY SignedBatch
<1>2. RowChange(b)
  <2>1. CASE \E n : Settle(b, n)
    BY <1>1, <2>1, SettleRow
  <2>2. CASE Reconciling(b, "other")
    BY <1>1, <2>2, ReconcilingRow
  <2> QED
    BY <2>1, <2>2 DEF SettleIndexed
<1>3. ASSUME NEW ns
      PROVE  LET p == [pass EXCEPT !.seen = ns]
             IN  DOMAIN p = DOMAIN IdlePass /\ p.todo = pass.todo /\ p.run = pass.run
  BY DEF JournalInv, PassShape, IdlePass
<1>4. CASE pass' = Returned(pass, TRUE)
  <2>1. GivesBack(b, pass)
    BY <1>1, <1>4 DEF GivesBack, JournalInv, PassShape
  <2> QED
    BY <1>2, <2>1, RowDone
<1>5. CASE \E ns : pass' = Returned([pass EXCEPT !.seen = ns], FALSE)
  <2>1. PICK ns : pass' = Returned([pass EXCEPT !.seen = ns], FALSE)
    BY <1>5
  <2>2. GivesBack(b, [pass EXCEPT !.seen = ns])
    BY <1>1, <1>3, <2>1 DEF GivesBack
  <2> QED
    BY <1>2, <2>2, RowDone
<1> QED
  BY <1>4, <1>5 DEF SettleIndexed

LEMMA ReadReceiptStep ==
  ASSUME JournalInv, NEW indexed, ReadReceipt(indexed)
  PROVE  JournalInv' /\ [Journal!Next]_(Journal!vars)
<1> DEFINE b == pass.batch
           n == Min(MinedIn(Transaction(b)))
           p == [pass EXCEPT !.seen = IF pass.head >= n + Confirmations THEN Seen({n}) ELSE @]
           proof == [n |-> n, hash |-> BlockHash(n)]
<1>1. pass.pc = "receipt" /\ chain' = chain /\ mempool' = mempool /\ sent' = sent
  BY DEF ReadReceipt, chainVars
<1>2. b \in Batches /\ Signed(b) /\ (pass.run # 0 => b \notin pass.todo)
  BY <1>1, SignedBatch DEF SignedSteps
<1>3. DOMAIN p = DOMAIN IdlePass /\ p.todo = pass.todo /\ p.run = pass.run
  BY DEF JournalInv, PassShape, IdlePass
<1>4. \/ Reconciling(b, "waiting") /\ pass' = Returned(p, TRUE)
      \/ /\ \/ batch' = batch
            \/ batch' = [batch EXCEPT ![b] =
                          [@ EXCEPT !.status = "FAILED", !.receipt = proof,
                                    !.error = "other", !.deferred = TRUE]]
         /\ pass' = Returned(p, FALSE)
      \/ SettleIndexed(b, indexed)
      \/ Settle(b, n) /\ pass' = Returned(p, FALSE)
  BY DEF ReadReceipt
<1> HIDE DEF p, n, proof
<1>5. ASSUME NEW w, pass' = Returned(p, w)
      PROVE  GivesBack(b, p)
  BY <1>2, <1>3, <1>5 DEF GivesBack
<1>6. CASE Reconciling(b, "waiting") /\ pass' = Returned(p, TRUE)
  BY <1>1, <1>2, <1>5, <1>6, ReconcilingRow, RowDone
<1>7. CASE SettleIndexed(b, indexed)
  BY <1>1, <1>7, SettleIndexedDone DEF SignedSteps
<1>8. CASE Settle(b, n) /\ pass' = Returned(p, FALSE)
  BY <1>1, <1>2, <1>5, <1>8, SettleRow, RowDone
<1>9. CASE batch' = batch /\ pass' = Returned(p, FALSE)
  <2>1. RowChange(b)
    BY <1>1, <1>9 DEF RowChange, JournalInv, BatchShape
  <2> QED
    BY <1>1, <1>5, <1>9, <2>1, RowDone
<1>10. CASE /\ batch' = [batch EXCEPT ![b] =
                          [@ EXCEPT !.status = "FAILED", !.receipt = proof,
                                    !.error = "other", !.deferred = TRUE]]
            /\ pass' = Returned(p, FALSE)
  <2>1. RowChange(b)
    BY <1>1, <1>2, <1>10 DEF RowChange, JournalInv, BatchShape
  <2> QED
    BY <1>1, <1>5, <1>10, <2>1, RowDone
<1> QED
  BY <1>4, <1>6, <1>7, <1>8, <1>9, <1>10

LEMMA ResolveUnseenStep ==
  ASSUME JournalInv, NEW indexed, ResolveUnseen(indexed)
  PROVE  JournalInv' /\ [Journal!Next]_(Journal!vars)
<1> DEFINE b == pass.batch
           p == [pass EXCEPT !.seen = Seen(EvidenceRead(ClicksOf(b)))]
<1>1. pass.pc = "unseen" /\ chain' = chain /\ mempool' = mempool /\ sent' = sent
  BY DEF ResolveUnseen, chainVars
<1>2. b \in Batches /\ Signed(b) /\ (pass.run # 0 => b \notin pass.todo)
  BY <1>1, SignedBatch DEF SignedSteps
<1>3. DOMAIN p = DOMAIN IdlePass /\ p.todo = pass.todo /\ p.run = pass.run /\ p.batch = b
  BY DEF JournalInv, PassShape, IdlePass
<1>4. \/ SettleIndexed(b, indexed)
      \/ Reconciling(b, "waiting") /\ pass' = Returned(pass, TRUE)
      \/ Reconciling(b, "other") /\ pass' = Threw(pass, "other")
      \/ \E error : /\ Reconciling(b, error)
                    /\ pass' = Returned(p, TRUE) \/ pass' = Threw(p, error)
      \/ pass' = [p EXCEPT !.pc = "broadcast"] /\ batch' = batch
  BY DEF ResolveUnseen
<1> HIDE DEF p
<1>5. CASE SettleIndexed(b, indexed)
  BY <1>1, <1>5, SettleIndexedDone DEF SignedSteps
<1>6. ASSUME NEW error, Reconciling(b, error), NEW q \in {pass, p},
             (\E w : pass' = Returned(q, w)) \/ pass' = Threw(q, error)
      PROVE  JournalInv' /\ [Journal!Next]_(Journal!vars)
  <2>1. RowChange(b)
    BY <1>1, <1>2, <1>6, ReconcilingRow
  <2>2. DOMAIN q = DOMAIN IdlePass /\ q.todo = pass.todo /\ q.run = pass.run
    BY <1>3 DEF JournalInv, PassShape
  <2>3. GivesBack(b, q)
    BY <1>2, <1>6, <2>2 DEF GivesBack
  <2> QED
    BY <1>1, <2>1, <2>3, RowDone
<1>7. CASE pass' = [p EXCEPT !.pc = "broadcast"] /\ batch' = batch
  <2>1. /\ DOMAIN pass' = DOMAIN IdlePass /\ pass'.todo = pass.todo /\ pass'.run = pass.run
        /\ pass'.batch = b /\ pass'.pc = "broadcast"
    BY <1>3, <1>7 DEF IdlePass
  <2>2. PassShape'
    BY <1>2, <1>7, <2>1 DEF JournalInv, PassShape, SignedSteps, PrepareSteps, Signed
  <2> QED
    BY <1>1, <1>7, <2>2, QuietSteps
<1> QED
  BY <1>4, <1>5, <1>6, <1>7

LEMMA BroadcastStep ==
  ASSUME JournalInv, NEW accepted, NEW reply, Broadcast(accepted, reply)
  PROVE  JournalInv' /\ [Journal!Next]_(Journal!vars)
<1> DEFINE tx == Transaction(pass.batch)
           fresh == tx.nonce >= AccountNonce /\ \A t \in mempool : t.nonce # tx.nonce
           outage == pass.outage \/ (fresh /\ ~accepted)
<1>1. /\ pass.pc = "broadcast" /\ batch' = batch /\ sent' = sent /\ chain' = chain
      /\ pass' = [pass EXCEPT !.pc = "record", !.reply = reply, !.outage = outage]
      /\ mempool' = mempool \/ mempool' = mempool \cup {Transaction(pass.batch)}
  BY DEF Broadcast, dbVars
<1> HIDE DEF outage
<1>2. ChainShape'
  BY <1>1, FS_AddElement DEF ChainShape, JournalInv
<1>3. BatchShape' /\ RowStep(0)
  BY <1>1, SameBatches DEF JournalInv
<1>4. /\ DOMAIN pass' = DOMAIN IdlePass /\ pass'.todo = pass.todo /\ pass'.run = pass.run
      /\ pass'.batch = pass.batch /\ pass'.pc = "record"
  BY <1>1 DEF JournalInv, PassShape, IdlePass
<1>5. PassShape'
  BY <1>1, <1>4 DEF JournalInv, PassShape, SignedSteps, PrepareSteps, Signed
<1> QED
  BY <1>2, <1>3, <1>5, RowStepRefines DEF JournalInv

LEMMA RpcFailsStep ==
  ASSUME JournalInv, NEW noted \in BOOLEAN, RpcFails(noted)
  PROVE  JournalInv' /\ [Journal!Next]_(Journal!vars)
<1>1. chain' = chain /\ mempool' = mempool /\ sent' = sent
  BY DEF RpcFails, chainVars
<1>2. RowChange(pass.batch)
  <2>1. CASE noted
    <3>1. pass.batch \in Batches /\ Signed(pass.batch)
      BY <2>1, SignedBatch DEF RpcFails, SignedSteps
    <3>2. batch' = [batch EXCEPT ![pass.batch] =
                     [@ EXCEPT !.status = "RECONCILING", !.error = "other"]]
      BY <2>1 DEF RpcFails
    <3> QED
      BY <1>1, <3>1, <3>2 DEF RowChange, JournalInv, BatchShape
  <2>2. CASE ~noted
    <3>1. \/ batch' = batch
          \/ batch' = [batch EXCEPT ![pass.batch] = [@ EXCEPT !.error = "other"]]
      BY <2>2 DEF RpcFails
    <3> QED
      BY <1>1, <3>1 DEF RowChange, JournalInv, BatchShape
  <2> QED
    BY <2>1, <2>2
<1> DEFINE p == [pass EXCEPT !.outage = TRUE]
<1>3. DOMAIN p = DOMAIN IdlePass /\ p.todo = pass.todo /\ p.run = pass.run
  BY DEF JournalInv, PassShape
<1>4. GivesBack(pass.batch, p)
  BY <1>3 DEF RpcFails, GivesBack, JournalInv, PassShape
<1>5. pass' = Threw(p, "other")
  BY DEF RpcFails
<1> QED
  BY <1>1, <1>2, <1>4, <1>5, RowDone

LEMMA ReconcileNextStep ==
  ASSUME JournalInv, ReconcileNext
  PROVE  JournalInv' /\ [Journal!Next]_(Journal!vars)
<1> DEFINE b == Min(pass.todo)
           closed == batch[b].status \in Terminal /\ batch[b].receipt # NoBlock
           p == [pass EXCEPT !.todo = @ \ {b}, !.batch = b,
                             !.seen = IF closed THEN Seen({batch[b].receipt.n}) ELSE @]
           go == IF Signed(b) THEN [p EXCEPT !.pc = "receipt"] ELSE Returned(p, FALSE)
<1>1. chain' = chain /\ mempool' = mempool /\ sent' = sent
  BY DEF ReconcileNext, chainVars
<1>2. b \in Batches /\ b \in pass.todo
  BY MinMember DEF ReconcileNext, JournalInv, PassShape, Batches
<1>3. DOMAIN p = DOMAIN IdlePass /\ p.todo = pass.todo \ {b} /\ p.run = pass.run /\ p.batch = b
  BY DEF JournalInv, PassShape, IdlePass
<1>4. \/ pass' = Returned(p, FALSE) /\ batch' = batch
      \/ pass' = go /\ Reopened(b)
      \/ pass' = go /\ batch' = batch
  BY DEF ReconcileNext
<1>5. pass' = Returned(p, FALSE) \/ (Signed(b) /\ pass' = [p EXCEPT !.pc = "receipt"])
  BY <1>4
<1>6. RowChange(b)
  <2>1. CASE batch' = batch
    BY <1>1, <2>1 DEF RowChange, JournalInv, BatchShape
  <2>2. CASE Reopened(b)
    <3>1. batch' = [batch EXCEPT ![b] =
            [@ EXCEPT !.status = IF Signed(b) THEN "RECONCILING" ELSE "PREPARED",
                      !.charged = -1, !.receipt = NoBlock, !.error = "other"]]
      BY <2>2 DEF Reopened
    <3> QED
      BY <1>1, <1>2, <3>1 DEF RowChange, JournalInv, BatchShape, InFlight
  <2> QED
    BY <1>4, <2>1, <2>2
<1> HIDE DEF p, b
<1>7. CASE pass' = Returned(p, FALSE)
  <2>1. GivesBack(b, p)
    BY <1>3, <1>7 DEF GivesBack
  <2> QED
    BY <1>1, <1>6, <2>1, RowDone
<1>8. CASE Signed(b) /\ pass' = [p EXCEPT !.pc = "receipt"]
  <2>1. /\ DOMAIN pass' = DOMAIN IdlePass /\ pass'.todo = pass.todo \ {b}
        /\ pass'.run = pass.run /\ pass'.batch = b /\ pass'.pc = "receipt"
    BY <1>3, <1>8 DEF IdlePass
  <2>2. batch'[b].nonce = batch[b].nonce /\ \A d \in Batches \ {b} : batch'[d] = batch[d]
    BY <1>2, <1>6 DEF RowChange
  <2>3. PassShape'
    BY <1>2, <1>8, <2>1, <2>2 DEF JournalInv, PassShape, SignedSteps, PrepareSteps, Signed
  <2>4. BatchShape' /\ RowStep(b)
    BY <1>6, OneRow DEF JournalInv
  <2>5. ChainShape'
    BY <1>1, SameChain DEF JournalInv
  <2> QED
    BY <2>3, <2>4, <2>5, RowStepRefines DEF JournalInv
<1> QED
  BY <1>5, <1>7, <1>8

\* The batch of a step that prepares rests and is off the list.
LEMMA PreparedBatch ==
  ASSUME JournalInv, pass.pc \in PrepareSteps
  PROVE  /\ pass.batch \in Batches /\ batch[pass.batch].status \in Preparable
         /\ pass.run # 0 /\ pass.batch \notin pass.todo
  BY DEF JournalInv, PassShape, PrepareSteps

LEMMA FailedRow ==
  ASSUME JournalInv, NEW b, NEW error, Failed(b, error), chain' = chain
  PROVE  RowChange(b)
<1>1. batch' = [batch EXCEPT ![b] = [@ EXCEPT !.error = Stored(error)]] /\ sent' = sent
  BY DEF Failed
<1> QED
  BY <1>1 DEF RowChange, JournalInv, BatchShape

LEMMA CheckBatchStep ==
  ASSUME JournalInv, CheckBatch
  PROVE  JournalInv' /\ [Journal!Next]_(Journal!vars)
<1> DEFINE b == pass.batch
           p == [pass EXCEPT !.seen = Seen(EvidenceRead(ClicksOf(b)))]
<1>1. pass.pc = "check" /\ chain' = chain /\ mempool' = mempool
  BY DEF CheckBatch, chainVars
<1>2. b \in Batches /\ batch[b].status \in Preparable /\ pass.run # 0 /\ b \notin pass.todo
  BY <1>1, PreparedBatch DEF PrepareSteps
<1>3. DOMAIN p = DOMAIN IdlePass /\ p.todo = pass.todo /\ p.run = pass.run /\ p.batch = b
  BY DEF JournalInv, PassShape, IdlePass
<1>4. \/ \E error : Failed(b, error) /\ pass' = Threw(p, error)
      \/ WriteOff(b) /\ pass' = Returned(p, FALSE)
      \/ pass' = [p EXCEPT !.pc = "sign"] /\ batch' = batch /\ sent' = sent
  BY DEF CheckBatch
<1> HIDE DEF p
<1>5. ASSUME NEW error, Failed(b, error), pass' = Threw(p, error)
      PROVE  JournalInv' /\ [Journal!Next]_(Journal!vars)
  <2>1. GivesBack(b, p)
    BY <1>2, <1>3, <1>5 DEF GivesBack
  <2> QED
    BY <1>1, <1>5, <2>1, FailedRow, RowDone
<1>6. CASE WriteOff(b) /\ pass' = Returned(p, FALSE)
  <2>1. GivesBack(b, p)
    BY <1>2, <1>3, <1>6 DEF GivesBack
  <2> DEFINE proof == [n |-> PassFinalized, hash |-> Hash(PassFinalized)]
  <2>2. /\ batch' = [batch EXCEPT ![b] =
             [@ EXCEPT !.status = "UNCOLLECTABLE", !.charged = 0, !.error = "other",
                       !.receipt = proof]]
        /\ sent' = sent
    BY <1>6 DEF WriteOff
  <2> HIDE DEF proof
  <2>3. RowChange(b)
    BY <1>1, <1>2, <2>2 DEF RowChange, JournalInv, BatchShape, InFlight
  <2> QED
    BY <1>1, <2>1, <2>3, RowDone
<1>7. CASE pass' = [p EXCEPT !.pc = "sign"] /\ batch' = batch /\ sent' = sent
  <2>1. /\ DOMAIN pass' = DOMAIN IdlePass /\ pass'.todo = pass.todo /\ pass'.run = pass.run
        /\ pass'.batch = b /\ pass'.pc = "sign"
    BY <1>3, <1>7 DEF IdlePass
  <2>2. PassShape'
    BY <1>2, <1>7, <2>1 DEF JournalInv, PassShape, SignedSteps, PrepareSteps, Signed
  <2> QED
    BY <1>1, <1>7, <2>2, QuietSteps
<1> QED
  BY <1>4, <1>5, <1>6, <1>7

\* Reservation creates resting rows and moves resting rows between runs.
LEMMA ReserveRunStep ==
  ASSUME JournalInv, ReserveRun
  PROVE  JournalInv' /\ [Journal!Next]_(Journal!vars)
<1> DEFINE r == Min(pass.runs)
           gs == Reservable(r)
           taken == {b \in Batches : batch[b].run \in Takes(r)
                                    /\ batch[b].status \in Preparable}
           fresh(b) == LET g == CHOOSE g \in gs : NewBatch(g, r) = b
                       IN  [batch[b] EXCEPT
                              !.run = r, !.stake = click[Min(g)].stake,
                              !.version = click[Min(g)].version, !.due = Due(g),
                              !.status = IF Due(g) = 0 THEN "CONFIRMED" ELSE "PREPARED",
                              !.charged = IF Due(g) = 0 THEN 0 ELSE -1]
           todo == {b \in Batches : batch'[b].run = r /\ batch'[b].status \in Preparable}
           p == [pass EXCEPT !.run = r, !.runs = @ \ {r}, !.refresh = Takes(r), !.todo = todo]
<1>1. chain' = chain /\ mempool' = mempool /\ sent' = sent /\ pass.pc = "run"
  BY DEF ReserveRun, chainVars
<1>2. batch' = [b \in Batches |->
                 IF b \in taken THEN [batch[b] EXCEPT !.run = r]
                 ELSE IF batch[b].status = "none" /\ \E g \in gs : NewBatch(g, r) = b
                 THEN fresh(b) ELSE batch[b]]
  BY DEF ReserveRun
<1>3. pass' = AfterRefresh(p)
  BY DEF ReserveRun
<1>4. ASSUME NEW b \in Batches
      PROVE  /\ {"status", "nonce", "attempts"} \subseteq DOMAIN fresh(b)
             /\ fresh(b).nonce = batch[b].nonce /\ fresh(b).attempts = batch[b].attempts
             /\ fresh(b).status \in {"CONFIRMED", "PREPARED"}
  BY <1>4 DEF JournalInv, BatchShape
<1> HIDE DEF fresh
<1>5. ASSUME NEW b \in Batches
      PROVE  /\ {"status", "nonce", "attempts"} \subseteq DOMAIN batch'[b]
             /\ batch'[b].nonce = batch[b].nonce /\ batch'[b].attempts = batch[b].attempts
             /\ batch'[b].status \in InFlight <=> batch[b].status \in InFlight
  <2> DEFINE moved == [batch[b] EXCEPT !.run = r]
  <2>1. /\ {"status", "nonce", "attempts"} \subseteq DOMAIN moved
        /\ moved.nonce = batch[b].nonce /\ moved.attempts = batch[b].attempts
        /\ moved.status = batch[b].status
    BY <1>5 DEF JournalInv, BatchShape
  <2>2. \/ batch'[b] = moved
        \/ batch'[b] = fresh(b) /\ batch[b].status = "none"
        \/ batch'[b] = batch[b]
    BY <1>2, <1>5
  <2> HIDE DEF moved
  <2> QED
    BY <1>4, <1>5, <2>1, <2>2 DEF JournalInv, BatchShape, InFlight
<1>6. DOMAIN batch' = Batches
  BY <1>2
<1>7. BatchShape'
  BY <1>5, <1>6 DEF JournalInv, BatchShape
<1>8. RowStep(0)
  BY <1>1, <1>5 DEF RowStep, Batches
<1>9. PassShape'
  <2>1. pass.batch = 0 /\ 0 \notin Batches
    BY <1>1 DEF JournalInv, PassShape, SignedSteps, PrepareSteps, Batches
  <2>2. DOMAIN p = DOMAIN IdlePass /\ p.todo = todo /\ p.batch = 0
    BY <2>1 DEF JournalInv, PassShape, IdlePass
  <2> HIDE DEF p, todo
  <2>3. /\ DOMAIN pass' = DOMAIN IdlePass /\ pass'.todo = todo /\ pass'.run = p.run
        /\ pass'.batch = 0 /\ pass'.pc \in {"refresh", "plan", "prepare"}
        /\ pass'.pc = "prepare" => p.run # 0
    BY <1>3, <2>2 DEF AfterRefresh, IdlePass
  <2> QED
    BY <2>1, <2>3 DEF PassShape, SignedSteps, PrepareSteps, todo
<1> QED
  BY <1>1, <1>7, <1>8, <1>9, SameChain, RowStepRefines DEF JournalInv

\* Signing takes a nonce the wallet reservation allows.
LEMMA SignRefines ==
  ASSUME JournalInv, NEW b \in Batches, NEW pn \in Nat, NEW tx,
         batch[b].status \in Preparable, pn >= AccountNonce, chain' = chain,
         ~OtherInFlight(b), \A d \in Batches : batch[d].nonce < pn,
         \A d \in Batches \ {b} : batch'[d] = batch[d],
         batch'[b].status = "SIGNED", batch'[b].nonce = pn,
         batch'[b].attempts = batch[b].attempts + 1,
         sent' = sent \cup {tx}, tx.charge = b, tx.nonce = pn,
         tx.attempt = batch[b].attempts + 1
  PROVE  Journal!Next
<1> DEFINE st == [d \in Batches |-> IF batch[d].status \in InFlight THEN "inFlight"
                                    ELSE "resting"]
           sg == [d \in Batches |-> IF Signed(d) THEN "operator" ELSE "none"]
           no == [d \in Batches |-> batch[d].nonce]
           at == [d \in Batches |-> batch[d].attempts]
           se == {[row |-> t.charge, wallet |-> "operator", nonce |-> t.nonce,
                   attempt |-> t.attempt] : t \in sent}
           an == [w \in {"operator"} |-> AccountNonce]
<1>1. st[b] = "resting" /\ st' = [st EXCEPT ![b] = "inFlight"]
  BY DEF Preparable, InFlight
<1>2. sg' = [sg EXCEPT ![b] = "operator"]
  <2>1. batch'[b].nonce # -1
    OBVIOUS
  <2>2. \A d \in Batches : sg'[d] = IF d = b THEN "operator" ELSE sg[d]
    BY <2>1 DEF Signed
  <2> QED
    BY <2>2
<1>3. no' = [no EXCEPT ![b] = pn]
  OBVIOUS
<1>4. at' = [at EXCEPT ![b] = @ + 1] /\ at[b] + 1 \in Nat /\ at[b] = batch[b].attempts
  <2>1. \A d \in Batches : batch'[d].attempts = IF d = b THEN batch[b].attempts + 1
                                               ELSE batch[d].attempts
    OBVIOUS
  <2>2. at' = [at EXCEPT ![b] = batch[b].attempts + 1]
    BY <2>1
  <2>3. batch[b].attempts \in Nat
    BY DEF JournalInv, BatchShape
  <2> QED
    BY <2>2, <2>3
<1>5. se' = se \cup {[row |-> b, wallet |-> "operator", nonce |-> pn,
                      attempt |-> at[b] + 1]}
  BY <1>4
<1>6. an' = an /\ an["operator"] = AccountNonce
  BY DEF AccountNonce, Mined, Height, Block
<1>7. ~ Journal!Pending(b, "operator")
  BY DEF Journal!Pending, Journal!Rows, OtherInFlight
<1>8. Journal!AboveLatest(pn, "operator")
  BY DEF Journal!AboveLatest, Journal!Rows
<1>9. Journal!Sign(b, "operator", pn)
  BY <1>1, <1>2, <1>3, <1>4, <1>5, <1>6, <1>7, <1>8 DEF Journal!Sign
<1> QED
  BY <1>9 DEF Journal!Next, Journal!Rows

LEMMA SignBatchStep ==
  ASSUME JournalInv, SignBatch
  PROVE  JournalInv' /\ [Journal!Next]_(Journal!vars)
<1>1. pass.pc = "sign" /\ chain' = chain /\ mempool' = mempool
  BY DEF SignBatch, chainVars
<1>2. PICK b \in Batches : /\ b = pass.batch /\ batch[b].status \in Preparable
                           /\ pass.run # 0 /\ b \notin pass.todo
  BY <1>1, PreparedBatch DEF PrepareSteps
<1>3. PICK pn \in Nat : pn = PendingNonce /\ pn >= AccountNonce
  BY PendingNonceBound DEF JournalInv
<1> DEFINE row == [batch[b] EXCEPT !.status = "SIGNED", !.nonce = pn,
                     !.attempts = batch[b].attempts + 1, !.error = "none",
                     !.deferred = FALSE, !.receipt = NoBlock]
           tx == [Transaction(b) EXCEPT !.nonce = pn, !.attempt = batch[b].attempts + 1]
<1>4. \/ \E error : Failed(b, error) /\ pass' = Threw(pass, error)
      \/ /\ ~OtherInFlight(b) /\ AboveLatest
         /\ batch' = [batch EXCEPT ![b] = row]
         /\ sent' = sent \cup {tx}
         /\ pass' = [pass EXCEPT !.pc = "receipt"]
  BY <1>2, <1>3 DEF SignBatch
<1>5. ASSUME NEW error, Failed(b, error), pass' = Threw(pass, error)
      PROVE  JournalInv' /\ [Journal!Next]_(Journal!vars)
  <2>1. GivesBack(b, pass)
    BY <1>2, <1>5 DEF GivesBack, JournalInv, PassShape
  <2> QED
    BY <1>1, <1>5, <2>1, FailedRow, RowDone
<1>6. CASE /\ ~OtherInFlight(b) /\ AboveLatest
           /\ batch' = [batch EXCEPT ![b] = row]
           /\ sent' = sent \cup {tx}
           /\ pass' = [pass EXCEPT !.pc = "receipt"]
  <2>1. /\ {"status", "nonce", "attempts"} \subseteq DOMAIN row
        /\ row.status = "SIGNED" /\ row.nonce = pn /\ row.attempts = batch[b].attempts + 1
    BY DEF JournalInv, BatchShape
  <2>2. tx.charge = b /\ tx.nonce = pn /\ tx.attempt = batch[b].attempts + 1
    BY DEF Transaction
  <2> HIDE DEF row, tx
  <2>3. batch'[b] = row /\ DOMAIN batch' = Batches
        /\ \A d \in Batches \ {b} : batch'[d] = batch[d]
    BY <1>6 DEF JournalInv, BatchShape
  <2>4. BatchShape'
    BY <2>1, <2>3 DEF JournalInv, BatchShape
  <2>5. /\ DOMAIN pass' = DOMAIN IdlePass /\ pass'.todo = pass.todo /\ pass'.run = pass.run
        /\ pass'.batch = b /\ pass'.pc = "receipt"
    BY <1>2, <1>6 DEF JournalInv, PassShape, IdlePass
  <2>6. batch'[b].nonce # -1
    BY <2>1, <2>3
  <2>7. PassShape'
    BY <1>2, <2>3, <2>5, <2>6 DEF JournalInv, PassShape, SignedSteps, PrepareSteps, Signed
  <2>8. \A d \in Batches : batch[d].nonce < pn
    BY <1>3, <1>6 DEF AboveLatest
  <2>9. Journal!Next
    BY <1>1, <1>2, <1>3, <1>6, <2>1, <2>2, <2>3, <2>8, SignRefines
  <2> QED
    BY <1>1, <2>4, <2>7, <2>9, SameChain DEF JournalInv
<1> QED
  BY <1>4, <1>5, <1>6

-----------------------------------------------------------------------------
\* Mining, reorganizations and lost transactions keep the shape of the chain.
LEMMA ChainStepKeeps ==
  ASSUME JournalInv, ChainStep
  PROVE  JournalInv' /\ [Journal!Next]_(Journal!vars)
<1> DEFINE Blocks == {chain[i] : i \in DOMAIN chain}
<1>1. chain \in Seq(Blocks) /\ Len(chain) \in Nat /\ DOMAIN chain = 1..Len(chain)
  BY DEF JournalInv, ChainShape
<1>2. IsFiniteSet(mempool)
  BY DEF JournalInv, ChainShape
<1>3. batch' = batch /\ sent' = sent /\ pass' = pass
  BY DEF ChainStep, dbVars
<1>4. ASSUME NEW N \in Nat, DOMAIN chain' = 1..N, chain' = [i \in 1..N |-> chain'[i]]
      PROVE  chain' \in Seq({chain'[i] : i \in DOMAIN chain'})
  BY <1>4
<1>5. ASSUME NEW block, chain' = Append(chain, block)
      PROVE  chain' \in Seq({chain'[i] : i \in DOMAIN chain'})
  <2>1. chain' \in Seq(Blocks \cup {block})
    BY <1>1, <1>5
  <2> QED
    BY <2>1
<1>6. ASSUME NEW tx \in mempool, MineTransaction(tx) \/ LoseTransaction(tx)
      PROVE  ChainShape'
  <2>1. mempool' \in SUBSET mempool
    BY <1>6 DEF MineTransaction, LoseTransaction
  <2>2. IsFiniteSet(mempool')
    BY <1>2, <2>1, FS_Subset
  <2>3. chain' = chain \/ \E block : chain' = Append(chain, block)
    BY <1>6 DEF MineTransaction, LoseTransaction
  <2> QED
    BY <1>1, <1>5, <2>2, <2>3 DEF ChainShape
<1>7. CASE MineEmpty \/ \E s \in Stakes : ChangeStake(s)
  <2>1. mempool' = mempool /\ \E block : chain' = Append(chain, block)
    BY <1>7 DEF MineEmpty, ChangeStake
  <2>2. ChainShape'
    BY <1>2, <1>5, <2>1 DEF ChainShape
  <2> QED
    BY <1>3, <2>2, ChainStepRefines DEF JournalInv, BatchShape, PassShape, Signed
<1>8. ASSUME NEW depth \in 1..MaxDepth, NEW again \in BOOLEAN, NEW returned \in BOOLEAN,
             Reorg(depth, again, returned)
      PROVE  ChainShape'
  <2> DEFINE keep == Len(chain) - depth
             txs == {chain[i].tx : i \in (keep + 1)..Len(chain)}
  <2>1. IsFiniteSet(txs)
    <3> DEFINE I == (keep + 1)..Len(chain)
               f == [i \in I |-> chain[i].tx]
    <3>1. IsFiniteSet(I)
      BY <1>1, <1>8, FS_Interval, ChainAssumption
    <3>2. f \in Surjection(I, txs)
      BY DEF Surjection
    <3> QED
      BY <3>1, <3>2, FS_Surjection
  <2>2. IsFiniteSet(txs \ {NoTx})
    BY <2>1, FS_Subset
  <2>3. IsFiniteSet(mempool \cup (txs \ {NoTx}))
    BY <1>2, <2>2, FS_Union
  <2>4. IsFiniteSet(mempool')
    BY <1>2, <1>8, <2>3 DEF Reorg
  <2>5. DOMAIN chain' = 1..Len(chain) /\ chain' = [i \in 1..Len(chain) |-> chain'[i]]
    BY <1>8 DEF Reorg
  <2> QED
    BY <1>1, <1>4, <2>4, <2>5 DEF ChainShape
<1>9. CASE ChainShape'
  BY <1>3, <1>9, ChainStepRefines DEF JournalInv, BatchShape, PassShape, Signed
<1> QED
  BY <1>6, <1>7, <1>8, <1>9 DEF ChainStep

\* The initial ledger is empty.
LEMMA JournalInit == Init => JournalInv /\ Journal!Init
<1> SUFFICES ASSUME Init
             PROVE  JournalInv /\ Journal!Init
  OBVIOUS
<1> DEFINE empty == EmptyBlock(0, [s \in Stakes |-> [version |-> 1, amount |-> InitialStake]])
<1>1. InitialHeight \in Nat
  BY ChainAssumption
<1>2. chain = [i \in 1..(InitialHeight + 1) |-> empty] /\ mempool = {}
  BY DEF Init, ChainInit
<1>3. empty.tx = NoTx
  BY DEF EmptyBlock
<1> HIDE DEF empty
<1>4. ChainShape
  <2>1. chain \in Seq({empty}) /\ \A i \in DOMAIN chain : chain[i] = empty
    BY <1>1, <1>2
  <2>2. chain \in Seq({chain[i] : i \in DOMAIN chain})
    BY <1>1, <1>2
  <2> QED
    BY <1>2, <2>2, FS_EmptySet DEF ChainShape
<1>5. AccountNonce = 0
  <2>1. Height = InitialHeight
    BY <1>1, <1>2 DEF Height
  <2>2. \A n \in 0..Height : Block(n).tx = NoTx
    BY <1>1, <1>2, <1>3, <2>1 DEF Block
  <2>3. Mined = {}
    BY <2>2 DEF Mined
  <2> QED
    BY <2>3, FS_EmptySet DEF AccountNonce
<1>6. /\ \A b \in Batches : /\ batch[b].status = "none" /\ batch[b].nonce = -1
                            /\ batch[b].attempts = 0
                            /\ {"status", "nonce", "attempts"} \subseteq DOMAIN batch[b]
      /\ DOMAIN batch = Batches /\ sent = {}
  BY DEF Init
<1>7. BatchShape
  BY <1>6 DEF BatchShape
<1>8. PassShape
  BY DEF Init, IdlePass, PassShape, SignedSteps, PrepareSteps
<1>9. Journal!Init
  BY <1>5, <1>6 DEF Journal!Init, Journal!Rows, InFlight, Signed
<1> QED
  BY <1>4, <1>7, <1>8, <1>9 DEF JournalInv

\* Every step of the program and of its environment is a step of the wallet
\* reservation, or invisible to it.
LEMMA JournalStep == JournalInv /\ [Next]_vars => JournalInv' /\ [Journal!Next]_(Journal!vars)
<1> SUFFICES ASSUME JournalInv, [Next]_vars
             PROVE  JournalInv' /\ [Journal!Next]_(Journal!vars)
  OBVIOUS
<1>1. CASE ChainStep
  BY <1>1, ChainStepKeeps
<1>2. CASE ApiStep \/ TimeStep
  BY <1>2, ApiAndTimeSteps
<1>3. CASE \/ Start \/ ValidateAndFetch \/ ReceiptMissing \/ RefreshRun \/ PlanRuns
           \/ BlockRun \/ PrepareNext \/ FinishRun \/ Crash
           \/ \E ready \in BOOLEAN : SaveCheckpoint(ready)
  BY <1>3, QuietPassShape, QuietSteps
<1>4. CASE ReconcileNext
  BY <1>4, ReconcileNextStep
<1>5. CASE \E indexed \in BOOLEAN : ReadReceipt(indexed) \/ ResolveUnseen(indexed)
  BY <1>5, ReadReceiptStep, ResolveUnseenStep
<1>6. CASE \E accepted \in BOOLEAN, reply \in {"accepted", "unknown", "gas"} :
             Broadcast(accepted, reply)
  BY <1>6, BroadcastStep
<1>7. CASE RecordBroadcast
  BY <1>7, RecordBroadcastStep
<1>8. CASE ReserveRun
  BY <1>8, ReserveRunStep
<1>9. CASE CheckBatch
  BY <1>9, CheckBatchStep
<1>10. CASE SignBatch
  BY <1>10, SignBatchStep
<1>11. CASE \E noted \in BOOLEAN : RpcFails(noted)
  BY <1>11, RpcFailsStep
<1>12. CASE UNCHANGED vars
  <2>1. /\ chain' = chain /\ mempool' = mempool /\ batch' = batch /\ sent' = sent
        /\ pass' = pass
    BY <1>12 DEF vars, chainVars, dbVars
  <2>2. PassShape'
    BY <2>1 DEF JournalInv, PassShape, Signed
  <2> QED
    BY <2>1, <2>2, QuietSteps
<1> QED
  BY <1>1, <1>2, <1>3, <1>4, <1>5, <1>6, <1>7, <1>8, <1>9, <1>10, <1>11, <1>12
  DEF Next, PassStep

\* The pass works only on batches in the state its step expects, throughout.
THEOREM JournalInvariant == Spec => []JournalInv
<1>1. Init => JournalInv
  BY JournalInit
<1>2. JournalInv /\ [Next]_vars => JournalInv'
  BY JournalStep
<1> QED
  BY <1>1, <1>2, PTL DEF Spec

\* prepareBatch and reconcileChargeBatch implement the wallet reservation.
THEOREM ChargesImplementWallet == Spec => Journal!Spec
<1>1. Init => Journal!Init
  BY JournalInit
<1>2. JournalInv /\ [Next]_vars => [Journal!Next]_(Journal!vars)
  BY JournalStep
<1> QED
  BY <1>1, <1>2, JournalInvariant, PTL DEF Spec, Journal!Spec

\* The assumptions of KeywordMarketWallet hold of the instance: one wallet, no
\* publications, every number a possible nonce.
LEMMA JournalAssumptions ==
  /\ Batches \cap {} = {} /\ "none" \notin {"operator"}
  /\ Nat \subseteq Nat
  /\ TRUE \in BOOLEAN /\ \A v, w \in {"operator"} : v = w
  OBVIOUS

\* So no two signatures of the charge journal ever share a nonce, whatever the
\* chain, the RPC node, the operators and crashes do.
THEOREM ChargeNonceNeverReused == Spec => []NonceNeverReused
<1>1. Journal!Spec => []Journal!NonceNeverReused
  BY JournalAssumptions, Journal!NonceNeverReusedTheorem
<1>2. Journal!NonceNeverReused => NonceNeverReused
  <2> SUFFICES ASSUME Journal!NonceNeverReused, NEW t \in sent, NEW u \in sent,
                      t.nonce = u.nonce
               PROVE  t.charge = u.charge /\ t.attempt = u.attempt
    BY DEF NonceNeverReused
  <2> DEFINE row(x) == [row |-> x.charge, wallet |-> "operator", nonce |-> x.nonce,
                        attempt |-> x.attempt]
  <2>1. row(t) = row(u)
    BY DEF Journal!NonceNeverReused
  <2> QED
    BY <2>1
<1> QED
  BY <1>1, <1>2, ChargesImplementWallet, PTL

-----------------------------------------------------------------------------
(* Sums of amounts.  Due is a fold over a set in an arbitrary order; that   *)
(* the order does not matter is shown by least counterexamples.             *)

First(s) == CHOOSE x \in s : TRUE
SumOn(S, f) ==
  f = [s \in SUBSET S |-> IF s = {} THEN 0 ELSE Amount[First(s)] + f[s \ {First(s)}]]

LEMMA DueFold == ASSUME NEW S PROVE Due(S) = (CHOOSE f : SumOn(S, f))[S]
  BY DEF Due, MapThenSumSet, MapThenFoldSet, SumOn, First

LEMMA ClicksFinite ==
  ASSUME NEW S \in SUBSET Clicks
  PROVE  IsFiniteSet(S) /\ Cardinality(S) \in Nat /\ (Cardinality(S) = 0 <=> S = {})
<1>1. IsFiniteSet(Clicks)
  BY ChargeAssumption, FS_Interval DEF Clicks
<1>2. IsFiniteSet(S)
  BY <1>1, FS_Subset
<1> QED
  BY <1>2, FS_CardinalityType, FS_EmptySet

LEMMA Smaller ==
  ASSUME NEW S \in SUBSET Clicks, NEW x \in S
  PROVE  /\ S \ {x} \in SUBSET Clicks /\ Cardinality(S) \in Nat
         /\ Cardinality(S \ {x}) = Cardinality(S) - 1
         /\ Cardinality(S \ {x}) < Cardinality(S)
<1>1. IsFiniteSet(S) /\ Cardinality(S) \in Nat
  BY ClicksFinite
<1>2. Cardinality(S \ {x}) = Cardinality(S) - 1
  BY <1>1, FS_RemoveElement
<1> QED
  BY <1>1, <1>2

LEMMA SumExists ==
  ASSUME NEW S \in SUBSET Clicks
  PROVE  \E f : SumOn(S, f)
<1> DEFINE Level(k) == {s \in SUBSET S : Cardinality(s) <= k}
           UpTo(k, f) == f = [s \in Level(k) |-> IF s = {} THEN 0
                                ELSE Amount[First(s)] + f[s \ {First(s)}]]
           bad == {k \in Nat : ~\E f : UpTo(k, f)}
<1>1. \A s \in SUBSET S : Cardinality(s) \in Nat /\ (Cardinality(s) = 0 <=> s = {})
  BY ClicksFinite
<1>2. \A s \in SUBSET S : s # {} => /\ First(s) \in s
                                    /\ Cardinality(s \ {First(s)}) = Cardinality(s) - 1
  <2> SUFFICES ASSUME NEW s \in SUBSET S, s # {}
               PROVE  First(s) \in s /\ Cardinality(s \ {First(s)}) = Cardinality(s) - 1
    OBVIOUS
  <2>1. First(s) \in s
    BY DEF First
  <2> QED
    BY <2>1, Smaller
<1>3. bad = {}
  <2> SUFFICES ASSUME bad # {}
               PROVE  FALSE
    OBVIOUS
  <2> DEFINE k == Min(bad)
  <2>1. k \in bad /\ \A j \in bad : k <= j
    <3>1. bad \subseteq Nat
      OBVIOUS
    <3> HIDE DEF bad
    <3> QED
      BY <3>1, MinMember
  <2> HIDE DEF k
  <2>2. k \in Nat
    BY <2>1
  <2>3. CASE k = 0
    <3> DEFINE g == [s \in Level(0) |-> 0]
    <3>1. \A s \in Level(0) : s = {}
      BY <1>1
    <3>2. g = [s \in Level(0) |-> IF s = {} THEN 0 ELSE Amount[First(s)] + g[s \ {First(s)}]]
      BY <3>1
    <3>3. UpTo(0, g)
      BY <3>2
    <3> QED
      BY <2>1, <2>3, <3>3
  <2>4. CASE k # 0
    <3>1. k - 1 \in Nat /\ ~(k <= k - 1)
      BY <2>2, <2>4
    <3>2. k - 1 \notin bad
      BY <2>1, <3>1
    <3>3. PICK f : UpTo(k - 1, f)
      BY <3>1, <3>2
    <3> DEFINE g == [s \in Level(k) |-> IF s = {} THEN 0
                                        ELSE Amount[First(s)] + f[s \ {First(s)}]]
    <3>4. ASSUME NEW s \in Level(k), s # {}
          PROVE  g[s \ {First(s)}] = f[s \ {First(s)}]
      <4> DEFINE t == s \ {First(s)}
      <4>1. t \in SUBSET S /\ Cardinality(t) = Cardinality(s) - 1 /\ Cardinality(s) <= k
            /\ Cardinality(s) \in Nat
        BY <1>1, <1>2, <3>4
      <4> HIDE DEF t
      <4>2. t \in Level(k) /\ t \in Level(k - 1)
        BY <2>2, <4>1
      <4>3. g[t] = IF t = {} THEN 0 ELSE Amount[First(t)] + f[t \ {First(t)}]
        BY <4>2
      <4>4. f[t] = IF t = {} THEN 0 ELSE Amount[First(t)] + f[t \ {First(t)}]
        BY <3>3, <4>2
      <4> QED
        BY <4>3, <4>4 DEF t
    <3>5. g = [s \in Level(k) |-> IF s = {} THEN 0 ELSE Amount[First(s)] + g[s \ {First(s)}]]
      <4> DEFINE h == [s \in Level(k) |-> IF s = {} THEN 0
                                          ELSE Amount[First(s)] + g[s \ {First(s)}]]
      <4>1. \A s \in Level(k) : g[s] = h[s]
        BY <3>4
      <4> QED
        BY <4>1
    <3>6. UpTo(k, g)
      BY <3>5
    <3> QED
      BY <2>1, <3>6
  <2> QED
    BY <2>3, <2>4
<1>4. PICK f : UpTo(Cardinality(S), f)
  BY <1>1, <1>3
<1>5. Level(Cardinality(S)) = SUBSET S
  <2> SUFFICES ASSUME NEW s \in SUBSET S
               PROVE  Cardinality(s) <= Cardinality(S)
    OBVIOUS
  <2> QED
    BY ClicksFinite, FS_Subset
<1> QED
  BY <1>4, <1>5 DEF SumOn

LEMMA SumUnique ==
  ASSUME NEW S \in SUBSET Clicks, NEW T \in SUBSET S, NEW f, NEW g, SumOn(S, f), SumOn(T, g)
  PROVE  \A s \in SUBSET T : f[s] = g[s]
<1> DEFINE bad == {n \in Nat : \E s \in SUBSET T : Cardinality(s) = n /\ f[s] # g[s]}
<1>1. bad = {}
  <2> SUFFICES ASSUME bad # {}
               PROVE  FALSE
    OBVIOUS
  <2> DEFINE n == Min(bad)
  <2>1. n \in bad /\ \A j \in bad : n <= j
    <3>1. bad \subseteq Nat
      OBVIOUS
    <3> HIDE DEF bad
    <3> QED
      BY <3>1, MinMember
  <2> HIDE DEF n
  <2>2. PICK s \in SUBSET T : Cardinality(s) = n /\ f[s] # g[s]
    BY <2>1
  <2>3. f[s] = (IF s = {} THEN 0 ELSE Amount[First(s)] + f[s \ {First(s)}])
        /\ g[s] = (IF s = {} THEN 0 ELSE Amount[First(s)] + g[s \ {First(s)}])
    BY DEF SumOn
  <2>4. s # {}
    BY <2>2, <2>3
  <2>5. First(s) \in s
    BY <2>4 DEF First
  <2> DEFINE t == s \ {First(s)}
  <2>6. t \in SUBSET T /\ Cardinality(t) \in Nat /\ Cardinality(t) < n
    <3>1. s \in SUBSET Clicks
      OBVIOUS
    <3> QED
      BY <2>2, <2>5, <3>1, Smaller, ClicksFinite
  <2> HIDE DEF t
  <2>7. f[t] = g[t]
    <3>1. Cardinality(t) \notin bad
      BY <2>1, <2>6
    <3> QED
      BY <2>6, <3>1
  <2> QED
    BY <2>2, <2>3, <2>4, <2>7 DEF t
<1> QED
  <2> SUFFICES ASSUME NEW s \in SUBSET T
               PROVE  f[s] = g[s]
    OBVIOUS
  <2>1. Cardinality(s) \in Nat
    BY ClicksFinite
  <2> QED
    BY <1>1, <2>1

LEMMA DueStep ==
  ASSUME NEW S \in SUBSET Clicks
  PROVE  /\ S = {} => Due(S) = 0
         /\ S # {} => First(S) \in S /\ Due(S) = Amount[First(S)] + Due(S \ {First(S)})
<1> DEFINE f == CHOOSE h : SumOn(S, h)
           T == S \ {First(S)}
           g == CHOOSE h : SumOn(T, h)
<1>1. SumOn(S, f) /\ Due(S) = f[S]
  BY SumExists, DueFold
<1>2. SumOn(T, g) /\ Due(T) = g[T]
  <2>1. T \in SUBSET Clicks
    OBVIOUS
  <2> QED
    BY <2>1, SumExists, DueFold
<1> HIDE DEF f, g
<1>3. f[T] = g[T]
  <2>1. T \in SUBSET S /\ T \in SUBSET T
    OBVIOUS
  <2> HIDE DEF T
  <2> QED
    BY <1>1, <1>2, <2>1, SumUnique
<1>4. f[S] = IF S = {} THEN 0 ELSE Amount[First(S)] + f[T]
  BY <1>1 DEF SumOn
<1>5. S # {} => First(S) \in S
  BY DEF First
<1> QED
  BY <1>1, <1>2, <1>3, <1>4, <1>5

\* The sum is a number, and any click may be taken out first.
LEMMA DueRemove ==
  \A S \in SUBSET Clicks :
    Due(S) \in Nat /\ \A x \in S : Due(S) = Amount[x] + Due(S \ {x})
<1> DEFINE Fine(S) == Due(S) \in Nat /\ \A x \in S : Due(S) = Amount[x] + Due(S \ {x})
           bad == {n \in Nat : \E S \in SUBSET Clicks : Cardinality(S) = n /\ ~Fine(S)}
<1>1. bad = {}
  <2> SUFFICES ASSUME bad # {}
               PROVE  FALSE
    OBVIOUS
  <2> DEFINE n == Min(bad)
  <2>1. n \in bad /\ \A j \in bad : n <= j
    <3>1. bad \subseteq Nat
      OBVIOUS
    <3> HIDE DEF bad
    <3> QED
      BY <3>1, MinMember
  <2> HIDE DEF n
  <2>2. PICK S \in SUBSET Clicks : Cardinality(S) = n /\ ~Fine(S)
    BY <2>1
  <2>3. ASSUME NEW T \in SUBSET Clicks, Cardinality(T) < n
        PROVE  Fine(T)
    <3>1. Cardinality(T) \in Nat
      BY ClicksFinite
    <3>2. Cardinality(T) \notin bad
      BY <2>1, <2>3, <3>1
    <3> QED
      BY <3>1, <3>2
  <2> HIDE DEF bad, Fine
  <2>4. CASE S = {}
    BY <2>2, <2>4, DueStep DEF Fine
  <2>5. CASE S # {}
    <3> DEFINE p == First(S)
    <3>1. p \in S /\ Due(S) = Amount[p] + Due(S \ {p})
      BY <2>5, DueStep
    <3> HIDE DEF p
    <3>2. S \ {p} \in SUBSET Clicks /\ Fine(S \ {p}) /\ Amount[p] \in Nat
      BY <2>2, <2>3, <3>1, Smaller, ChargeAssumption
    <3>3. Due(S) \in Nat
      BY <3>1, <3>2 DEF Fine
    <3>4. ASSUME NEW x \in S, x # p
          PROVE  Due(S) = Amount[x] + Due(S \ {x})
      <4> DEFINE U == S \ {x}
                 V == S \ {p}
                 W == (S \ {x}) \ {p}
      <4>1. U \in SUBSET Clicks /\ Fine(U) /\ Amount[x] \in Nat /\ p \in U
        BY <2>2, <2>3, <3>1, <3>4, Smaller, ChargeAssumption
      <4>2. V \ {x} = W /\ x \in V /\ U \ {p} = W
        BY <3>4
      <4>3. W \in SUBSET Clicks /\ Cardinality(W) < n
        <5>1. Cardinality(U) < n /\ Cardinality(U) \in Nat
          BY <2>2, Smaller, ClicksFinite
        <5>2. Cardinality(U \ {p}) < Cardinality(U) /\ Cardinality(U \ {p}) \in Nat
          BY <4>1, Smaller, ClicksFinite
        <5> QED
          BY <2>2, <4>2, <5>1, <5>2, ClicksFinite
      <4>4. Due(W) \in Nat
        BY <2>3, <4>3 DEF Fine
      <4>5. Due(V) = Amount[x] + Due(V \ {x}) /\ Due(U) = Amount[p] + Due(U \ {p})
        BY <3>2, <4>1, <4>2 DEF Fine
      <4> HIDE DEF U, V, W
      <4>6. Due(S) = Amount[x] + Due(U)
        BY <3>1, <3>2, <4>1, <4>2, <4>4, <4>5 DEF V
      <4> QED
        BY <4>6 DEF U
    <3>5. Fine(S)
      BY <3>1, <3>3, <3>4 DEF Fine
    <3> QED
      BY <2>2, <3>5
  <2> QED
    BY <2>4, <2>5
<1> QED
  <2> SUFFICES ASSUME NEW S \in SUBSET Clicks
               PROVE  Fine(S)
    OBVIOUS
  <2>1. Cardinality(S) \in Nat
    BY ClicksFinite
  <2> QED
    BY <1>1, <2>1

\* Fewer clicks cost no more.
LEMMA DueMonotone ==
  \A S \in SUBSET Clicks : \A T \in SUBSET S : Due(T) <= Due(S)
<1> DEFINE Fine(S) == \A T \in SUBSET S : Due(T) <= Due(S)
           bad == {n \in Nat : \E S \in SUBSET Clicks : Cardinality(S) = n /\ ~Fine(S)}
<1>1. bad = {}
  <2> SUFFICES ASSUME bad # {}
               PROVE  FALSE
    OBVIOUS
  <2> DEFINE n == Min(bad)
  <2>1. n \in bad /\ \A j \in bad : n <= j
    <3>1. bad \subseteq Nat
      OBVIOUS
    <3> HIDE DEF bad
    <3> QED
      BY <3>1, MinMember
  <2> HIDE DEF n
  <2>2. PICK S \in SUBSET Clicks : Cardinality(S) = n /\ ~Fine(S)
    BY <2>1
  <2>3. PICK T \in SUBSET S : ~(Due(T) <= Due(S))
    BY <2>2
  <2>4. Due(S) \in Nat /\ Due(T) \in Nat /\ T # S
    <3>1. Due(S) \in Nat /\ Due(T) \in Nat
      BY DueRemove
    <3> QED
      BY <2>3, <3>1
  <2>5. PICK x \in S : x \notin T
    BY <2>4
  <2>6. S \ {x} \in SUBSET Clicks /\ Cardinality(S \ {x}) < n /\ Cardinality(S \ {x}) \in Nat
    BY <2>2, Smaller, ClicksFinite
  <2>7. Fine(S \ {x})
    <3>1. Cardinality(S \ {x}) \notin bad
      BY <2>1, <2>6
    <3> QED
      BY <2>6, <3>1
  <2>8. Due(T) <= Due(S \ {x})
    BY <2>5, <2>7
  <2>9. Due(S) = Amount[x] + Due(S \ {x}) /\ Due(S \ {x}) \in Nat /\ Amount[x] \in Nat
    BY <2>6, DueRemove, ChargeAssumption
  <2> QED
    BY <2>3, <2>4, <2>8, <2>9
<1> QED
  <2> SUFFICES ASSUME NEW S \in SUBSET Clicks
               PROVE  Fine(S)
    OBVIOUS
  <2>1. Cardinality(S) \in Nat
    BY ClicksFinite
  <2> QED
    BY <1>1, <2>1

-----------------------------------------------------------------------------
(* The chain. *)

\* What a block may hold.
BlockRecords ==
  [fork : 0..forks, tx : sent \cup {NoTx}, result : {"none", "charged", "duplicate", "reverted"},
   charged : Nat, position : [Stakes -> [version : Nat, amount : Nat]]]
Transactions ==
  [charge : Batches, nonce : Nat, attempt : Nat, stake : Stakes, version : Nat, amount : Nat]

\* Nonces are executed in their order.
Earlier(n) == {m \in Mined : m < n}
NonceOrder == \A n \in Mined : Block(n).tx.nonce = Cardinality(Earlier(n))

\* A position is only used up, or opened again under a new version; a charge is
\* executed once.
NotAfter(p, q) == p.version <= q.version /\ (p.version = q.version => q.amount <= p.amount)
PositionOrder ==
  \A i, j \in DOMAIN chain : i <= j =>
    \A s \in Stakes : NotAfter(chain[i].position[s], chain[j].position[s])
ChargeOnce ==
  \A i, j \in DOMAIN chain :
    i < j /\ chain[i].tx # NoTx /\ chain[j].tx # NoTx /\ chain[i].result = "charged"
      /\ chain[i].tx.charge = chain[j].tx.charge => chain[j].result = "duplicate"

NodeShape ==
  /\ chain \in Seq(BlockRecords) /\ Len(chain) >= 1 /\ Height <= MaxHeight
  /\ forks \in 0..MaxForks
  /\ mempool \subseteq sent /\ sent \subseteq Transactions
  /\ NonceOrder /\ PositionOrder /\ ChargeOnce

\* What the chain does: a block is replaced by one of a new fork together with all
\* after it, or stays with all before it.
ChainMoves ==
  /\ forks' \in Nat /\ forks <= forks' /\ Height' \in Nat /\ Height <= Height'
  /\ \A n \in 0..Height : \/ Block(n)'.fork > forks
                          \/ \A m \in 0..n : Block(m)' = Block(m)

LEMMA NodeFacts ==
  ASSUME NodeShape
  PROVE  /\ Height \in Nat /\ DOMAIN chain = 1..(Height + 1) /\ forks \in Nat
         /\ Len(chain) = Height + 1 /\ Height \in 0..MaxHeight
         /\ \A n \in 0..Height : n + 1 \in DOMAIN chain /\ Block(n) \in BlockRecords
         /\ Mined \subseteq 0..Height /\ IsFiniteSet(Mined) /\ AccountNonce \in Nat
<1>1. Len(chain) \in Nat /\ DOMAIN chain = 1..Len(chain) /\ forks \in Nat /\ MaxHeight \in Nat
  BY ChainAssumption DEF NodeShape
<1>2. Height \in Nat /\ Len(chain) = Height + 1 /\ Height \in 0..MaxHeight
  BY <1>1 DEF NodeShape, Height
<1>3. \A n \in 0..Height : n + 1 \in DOMAIN chain
  BY <1>1, <1>2
<1>4. \A n \in 0..Height : Block(n) \in BlockRecords
  BY <1>3 DEF NodeShape, Block
<1>5. Mined \subseteq 0..Height /\ IsFiniteSet(0..Height)
  BY <1>2, FS_Interval DEF Mined
<1>6. IsFiniteSet(Mined) /\ AccountNonce \in Nat
  BY <1>5, FS_Subset, FS_CardinalityType DEF AccountNonce
<1> QED
  BY <1>1, <1>2, <1>3, <1>4, <1>5, <1>6

\* A block is appended.
LEMMA GrowNode ==
  ASSUME NodeShape, NEW new \in BlockRecords, chain' = Append(chain, new),
         Height < MaxHeight, forks' = forks, sent' = sent, mempool' \subseteq mempool,
         new.tx # NoTx => /\ new.tx.nonce = AccountNonce
                          /\ Processed(new.tx.charge) => new.result = "duplicate",
         \A s \in Stakes : NotAfter(Position(s, Height), new.position[s])
  PROVE  NodeShape' /\ ChainMoves
<1> DEFINE L == Len(chain)
<1>1. /\ L \in Nat /\ L >= 1 /\ DOMAIN chain = 1..L /\ Height \in Nat /\ Height = L - 1
      /\ MaxHeight \in Nat /\ forks \in Nat
  BY NodeFacts, ChainAssumption DEF NodeShape, Height
<1>2. /\ Len(chain') = L + 1 /\ chain'[L + 1] = new /\ DOMAIN chain' = 1..(L + 1)
      /\ \A i \in 1..L : chain'[i] = chain[i]
  BY <1>1 DEF NodeShape
<1>3. Height' = Height + 1 /\ Height' <= MaxHeight
  BY <1>1, <1>2 DEF Height
<1>4. /\ \A n \in 0..Height : Block(n)' = Block(n)
      /\ \A n : n = Height + 1 => Block(n)' = new
  <2>1. \A n \in 0..Height : n + 1 \in 1..L
    BY <1>1
  <2>2. \A n : n = Height + 1 => n + 1 = L + 1
    BY <1>1
  <2> QED
    BY <1>2, <2>1, <2>2 DEF Block
<1>5. /\ \A n \in 0..Height : n \in Mined' <=> n \in Mined
      /\ \A n : n = Height + 1 => (n \in Mined' <=> new.tx # NoTx)
      /\ Mined \subseteq 0..Height /\ Mined' \subseteq 0..(Height + 1)
  <2>1. Mined' = {n \in 0..(Height + 1) : Block(n)'.tx # NoTx}
    BY <1>3 DEF Mined
  <2>2. /\ \A n \in 0..Height : n \in 0..(Height + 1)
        /\ Height + 1 \in 0..(Height + 1)
    BY <1>1
  <2>3. \A n \in 0..Height : n \in Mined' <=> n \in Mined
    BY <1>4, <2>1, <2>2 DEF Mined
  <2>4. \A n : n = Height + 1 => (n \in Mined' <=> new.tx # NoTx)
    BY <1>4, <2>1, <2>2
  <2> QED
    BY <2>1, <2>3, <2>4 DEF Mined
<1>6. NonceOrder'
  <2> SUFFICES ASSUME NEW n \in Mined'
               PROVE  Block(n)'.tx.nonce = Cardinality(Earlier(n)')
    BY DEF NonceOrder
  <2>1. CASE n \in 0..Height
    <3>1. Earlier(n)' = Earlier(n)
      <4>1. \A m \in 0..(Height + 1) : m < n => m \in 0..Height
        BY <1>1, <2>1
      <4>2. \A m : m \in Mined' /\ m < n <=> m \in Mined /\ m < n
        BY <1>5, <4>1
      <4> QED
        BY <4>2 DEF Earlier
    <3> QED
      BY <1>4, <1>5, <2>1, <3>1 DEF NodeShape, NonceOrder
  <2>2. CASE n = Height + 1
    <3>1. Earlier(n)' = Mined
      <4>1. /\ \A m \in 0..(Height + 1) : m < n => m \in 0..Height
            /\ \A m \in 0..Height : m < n
        BY <1>1, <2>2
      <4>2. \A m : m \in Mined' /\ m < n <=> m \in Mined
        BY <1>5, <4>1
      <4> QED
        BY <4>2 DEF Earlier
    <3>2. new.tx # NoTx /\ Block(n)'.tx = new.tx
      BY <1>4, <1>5, <2>2
    <3> QED
      BY <3>1, <3>2 DEF AccountNonce
  <2>3. n \in 0..(Height + 1) /\ Height \in Nat
    BY <1>1, <1>5
  <2>4. n \in 0..Height \/ n = Height + 1
    BY <2>3
  <2> QED
    BY <2>1, <2>2, <2>4
<1>7. PositionOrder'
  <2> SUFFICES ASSUME NEW i \in 1..(L + 1), NEW j \in 1..(L + 1), i <= j, NEW s \in Stakes
               PROVE  NotAfter(chain'[i].position[s], chain'[j].position[s])
    BY <1>2 DEF PositionOrder, NotAfter
  <2>1. CASE j \in 1..L
    <3>1. i \in 1..L
      BY <1>1, <2>1
    <3> QED
      BY <1>1, <1>2, <2>1, <3>1 DEF NodeShape, PositionOrder
  <2>2. CASE i \in 1..L /\ j = L + 1
    <3>1. NotAfter(chain[i].position[s], chain[L].position[s]) /\ L \in DOMAIN chain
          /\ i \in DOMAIN chain
      BY <1>1, <2>2 DEF NodeShape, PositionOrder
    <3>2. NotAfter(chain[L].position[s], new.position[s])
      BY <1>1 DEF Position, Block
    <3>3. /\ chain[i].position[s] \in [version : Nat, amount : Nat]
          /\ chain[L].position[s] \in [version : Nat, amount : Nat]
          /\ new.position[s] \in [version : Nat, amount : Nat]
      <4>1. chain[i] \in BlockRecords /\ chain[L] \in BlockRecords
        BY <1>1, <2>2, <3>1 DEF NodeShape
      <4> QED
        BY <4>1 DEF BlockRecords
    <3>4. \A p, q, r \in [version : Nat, amount : Nat] :
            NotAfter(p, q) /\ NotAfter(q, r) => NotAfter(p, r)
      BY DEF NotAfter
    <3> QED
      BY <1>2, <2>2, <3>1, <3>2, <3>3, <3>4
  <2>3. CASE i = L + 1 /\ j = L + 1
    <3>1. new.position[s] \in [version : Nat, amount : Nat]
      BY DEF BlockRecords
    <3> QED
      BY <1>2, <2>3, <3>1 DEF NotAfter
  <2> QED
    BY <1>1, <2>1, <2>2, <2>3
<1>8. ChargeOnce'
  <2> SUFFICES ASSUME NEW i \in 1..(L + 1), NEW j \in 1..(L + 1), i < j,
                      chain'[i].tx # NoTx, chain'[j].tx # NoTx, chain'[i].result = "charged",
                      chain'[i].tx.charge = chain'[j].tx.charge
               PROVE  chain'[j].result = "duplicate"
    BY <1>2 DEF ChargeOnce
  <2>1. CASE j \in 1..L
    <3>1. i \in 1..L
      BY <1>1, <2>1
    <3> QED
      BY <1>1, <1>2, <2>1, <3>1 DEF NodeShape, ChargeOnce
  <2>2. CASE j = L + 1
    <3>1. i \in 1..L /\ i - 1 \in 0..Height /\ (i - 1) + 1 = i
      BY <1>1, <2>2
    <3>2. Block(i - 1) = chain[i] /\ chain'[i] = chain[i]
      BY <1>2, <3>1 DEF Block
    <3>3. i - 1 \in ChargedIn(new.tx.charge)
      BY <1>2, <2>2, <3>1, <3>2 DEF ChargedIn, Mined
    <3> QED
      BY <1>2, <2>2, <3>3 DEF Processed
  <2> QED
    BY <1>1, <2>1, <2>2
<1>9. chain' \in Seq(BlockRecords) /\ BlockRecords' = BlockRecords
  BY DEF NodeShape, BlockRecords
<1>10. NodeShape'
  BY <1>1, <1>2, <1>3, <1>6, <1>7, <1>8, <1>9 DEF NodeShape
<1>11. ChainMoves
  <2>1. \A n \in 0..Height : \A m \in 0..n : m \in 0..Height
    BY <1>1
  <2> QED
    BY <1>1, <1>3, <1>4, <2>1 DEF ChainMoves
<1> QED
  BY <1>10, <1>11

\* The last blocks are replaced.
LEMMA ReorgNode ==
  ASSUME NodeShape, NEW depth \in 1..MaxDepth, NEW again \in BOOLEAN, NEW returned \in BOOLEAN,
         Reorg(depth, again, returned), sent' = sent
  PROVE  /\ NodeShape' /\ ChainMoves /\ Height' = Height
         /\ \A n \in 0..Height : n <= Height - depth => Block(n)' = Block(n)
         /\ \/ mempool' = mempool /\ Mined' = Mined
            \/ /\ Mined' = {n \in Mined : n <= Height - depth}
               /\ \A t \in mempool' : \/ t \in mempool
                                      \/ \E n \in Mined : n > Height - depth /\ Block(n).tx = t
<1> DEFINE L == Len(chain)
           keep == L - depth
           lost == EmptyBlock(forks + 1, chain[keep].position)
           New(i) == IF again THEN [chain[i] EXCEPT !.fork = forks + 1] ELSE lost
           dropped == {chain[i].tx : i \in (keep + 1)..L} \ {NoTx}
<1>1. /\ L \in Nat /\ L >= 1 /\ DOMAIN chain = 1..L /\ forks \in Nat /\ depth \in Nat
      /\ depth >= 1 /\ Height = L - 1 /\ Height \in Nat /\ MaxForks \in Nat
  BY NodeFacts, ChainAssumption DEF NodeShape, Height
<1>2. /\ chain' = [i \in 1..L |-> IF i <= keep THEN chain[i] ELSE New(i)]
      /\ depth <= L - 1 /\ forks' = forks + 1 /\ forks < MaxForks
      /\ mempool' = mempool \/ mempool' = mempool \cup dropped
  BY <1>1 DEF Reorg
<1>3. keep \in 1..L /\ keep < L /\ keep + 1 \in 1..L
  BY <1>1, <1>2
<1> HIDE DEF keep
<1>4. \A i \in 1..L : chain[i] \in BlockRecords
  BY <1>1 DEF NodeShape
<1>5. \A i \in 1..L : /\ New(i) \in BlockRecords' /\ New(i).fork = forks + 1
                      /\ chain[i] \in BlockRecords'
                      /\ again => /\ New(i).tx = chain[i].tx /\ New(i).result = chain[i].result
                                  /\ New(i).position = chain[i].position
                      /\ ~again => New(i).tx = NoTx /\ New(i).position = chain[keep].position
  <2> SUFFICES ASSUME NEW i \in 1..L
               PROVE  /\ New(i) \in BlockRecords' /\ New(i).fork = forks + 1
                      /\ chain[i] \in BlockRecords'
                      /\ again => /\ New(i).tx = chain[i].tx /\ New(i).result = chain[i].result
                                  /\ New(i).position = chain[i].position
                      /\ ~again => New(i).tx = NoTx /\ New(i).position = chain[keep].position
    OBVIOUS
  <2>1. BlockRecords' = [fork : 0..(forks + 1), tx : sent \cup {NoTx},
                         result : {"none", "charged", "duplicate", "reverted"},
                         charged : Nat, position : [Stakes -> [version : Nat, amount : Nat]]]
    BY <1>2 DEF BlockRecords
  <2>2. forks + 1 \in 0..(forks + 1) /\ \A f \in 0..forks : f \in 0..(forks + 1)
    BY <1>1
  <2>3. chain[i] \in BlockRecords'
    BY <1>4, <2>1, <2>2 DEF BlockRecords
  <2>4. CASE again
    BY <1>4, <2>1, <2>2, <2>3, <2>4 DEF BlockRecords
  <2>5. CASE ~again
    <3>1. chain[keep] \in BlockRecords
      BY <1>3, <1>4
    <3> QED
      BY <2>1, <2>2, <2>3, <2>5, <3>1 DEF EmptyBlock, BlockRecords
  <2> QED
    BY <2>4, <2>5
<1> HIDE DEF New
<1>6. /\ \A i \in 1..L : i <= keep => chain'[i] = chain[i]
      /\ \A i \in 1..L : ~(i <= keep) => chain'[i] = New(i)
      /\ chain' \in [1..L -> BlockRecords'] /\ DOMAIN chain' = 1..L
  BY <1>2, <1>5
<1>7. chain' \in Seq(BlockRecords') /\ Len(chain') = L /\ Height' = Height
  <2>1. chain' \in Seq(BlockRecords')
    BY <1>1, <1>6
  <2>2. Len(chain') = L
    BY <1>1, <1>6, <2>1
  <2> QED
    BY <1>1, <2>1, <2>2 DEF Height
<1>8. /\ \A n \in 0..Height : n < keep => Block(n)' = Block(n)
      /\ \A n \in 0..Height : ~(n < keep) => Block(n)' = New(n + 1) /\ n + 1 \in 1..L
  <2> SUFFICES ASSUME NEW n \in 0..Height
               PROVE  /\ n < keep => Block(n)' = Block(n)
                      /\ ~(n < keep) => Block(n)' = New(n + 1) /\ n + 1 \in 1..L
    OBVIOUS
  <2>1. n + 1 \in 1..L /\ (n < keep <=> n + 1 <= keep)
    BY <1>1, <1>3
  <2> QED
    BY <1>6, <2>1 DEF Block
<1>9. Mined' = IF again THEN Mined ELSE {n \in Mined : n < keep}
  <2>1. Mined' = {n \in 0..Height : Block(n)'.tx # NoTx}
    BY <1>7 DEF Mined
  <2>2. CASE again
    <3>1. \A n \in 0..Height : Block(n)'.tx = Block(n).tx
      BY <1>5, <1>8, <2>2 DEF Block
    <3> QED
      BY <2>1, <2>2, <3>1 DEF Mined
  <2>3. CASE ~again
    <3>1. \A n \in 0..Height : ~(n < keep) => Block(n)'.tx = NoTx
      BY <1>5, <1>8, <2>3
    <3> QED
      BY <1>8, <2>1, <2>3, <3>1 DEF Mined
  <2> QED
    BY <2>2, <2>3
<1>10. NonceOrder'
  <2> SUFFICES ASSUME NEW n \in Mined'
               PROVE  Block(n)'.tx.nonce = Cardinality(Earlier(n)')
    BY DEF NonceOrder
  <2>1. n \in Mined /\ n \in 0..Height /\ (again \/ n < keep)
    BY <1>9 DEF Mined
  <2>2. Earlier(n)' = Earlier(n)
    <3>1. \A m \in Mined : m < n => again \/ m < keep
      BY <1>1, <1>3, <2>1 DEF Mined
    <3> QED
      BY <1>9, <3>1 DEF Earlier
  <2>3. Block(n)'.tx = Block(n).tx
    BY <1>5, <1>8, <2>1 DEF Block
  <2> QED
    BY <2>1, <2>2, <2>3 DEF NodeShape, NonceOrder
<1>11. \A i \in 1..L : \E k \in 1..L :
         /\ chain'[i].position = chain[k].position /\ (i <= keep => k = i) /\ (again => k = i)
         /\ (~(i <= keep) /\ ~again => k = keep)
  BY <1>3, <1>5, <1>6
<1>12. PositionOrder'
  <2> SUFFICES ASSUME NEW i \in 1..L, NEW j \in 1..L, i <= j, NEW s \in Stakes
               PROVE  NotAfter(chain'[i].position[s], chain'[j].position[s])
    BY <1>6 DEF PositionOrder, NotAfter
  <2>1. PICK k \in 1..L :
         /\ chain'[i].position = chain[k].position /\ (i <= keep => k = i) /\ (again => k = i)
         /\ (~(i <= keep) /\ ~again => k = keep)
    BY <1>11
  <2>2. PICK l \in 1..L :
         /\ chain'[j].position = chain[l].position /\ (j <= keep => l = j) /\ (again => l = j)
         /\ (~(j <= keep) /\ ~again => l = keep)
    BY <1>11
  <2>3. k <= l
    BY <1>1, <1>3, <2>1, <2>2
  <2> QED
    BY <1>1, <2>1, <2>2, <2>3 DEF NodeShape, PositionOrder
<1>13. ChargeOnce'
  <2> SUFFICES ASSUME NEW i \in 1..L, NEW j \in 1..L, i < j,
                      chain'[i].tx # NoTx, chain'[j].tx # NoTx, chain'[i].result = "charged",
                      chain'[i].tx.charge = chain'[j].tx.charge
               PROVE  chain'[j].result = "duplicate"
    BY <1>6 DEF ChargeOnce
  <2>1. \A k \in {i, j} : chain'[k].tx = chain[k].tx /\ chain'[k].result = chain[k].result
    BY <1>5, <1>6
  <2> QED
    BY <1>1, <2>1 DEF NodeShape, ChargeOnce
<1>14. dropped \subseteq sent
  <2> SUFFICES ASSUME NEW i \in (keep + 1)..L, chain[i].tx # NoTx
               PROVE  chain[i].tx \in sent
    OBVIOUS
  <2>1. i \in 1..L
    BY <1>1, <1>3
  <2> QED
    BY <1>4, <2>1 DEF BlockRecords
<1>15. \A t \in dropped : \E n \in Mined : n > Height - depth /\ Block(n).tx = t
  <2> SUFFICES ASSUME NEW i \in (keep + 1)..L, chain[i].tx # NoTx
               PROVE  \E n \in Mined : n > Height - depth /\ Block(n).tx = chain[i].tx
    OBVIOUS
  <2>1. i - 1 \in 0..Height /\ (i - 1) + 1 = i /\ i - 1 > Height - depth
    BY <1>1, <1>3 DEF keep
  <2> QED
    BY <2>1 DEF Mined, Block
<1> HIDE DEF dropped
<1>16. NodeShape'
  <2>1. forks' \in 0..MaxForks
    BY <1>1, <1>2
  <2>2. mempool' \subseteq sent'
    BY <1>2, <1>14 DEF NodeShape
  <2> QED
    BY <1>1, <1>7, <1>10, <1>12, <1>13, <2>1, <2>2 DEF NodeShape
<1>17. ChainMoves
  <2>1. ASSUME NEW n \in 0..Height
        PROVE  \/ Block(n)'.fork > forks
               \/ \A m \in 0..n : Block(m)' = Block(m)
    <3>1. CASE n < keep
      <4>1. \A m \in 0..n : m \in 0..Height /\ m < keep
        BY <1>1, <1>3, <3>1
      <4> QED
        BY <1>8, <4>1
    <3>2. CASE ~(n < keep)
      <4>1. Block(n)'.fork = forks + 1
        BY <1>5, <1>8, <3>2
      <4> QED
        BY <1>1, <4>1
    <3> QED
      BY <3>1, <3>2
  <2> QED
    BY <1>1, <1>2, <1>7, <2>1 DEF ChainMoves
<1>18. \A n \in 0..Height : n <= Height - depth => Block(n)' = Block(n)
  <2>1. \A n \in 0..Height : n <= Height - depth => n < keep
    BY <1>1 DEF keep
  <2> QED
    BY <1>8, <2>1
<1>19. \/ mempool' = mempool /\ Mined' = Mined
       \/ /\ Mined' = {n \in Mined : n <= Height - depth}
          /\ \A t \in mempool' : \/ t \in mempool
                                 \/ \E n \in Mined : n > Height - depth /\ Block(n).tx = t
  <2>1. CASE again
    <3>1. mempool' = mempool
      BY <2>1 DEF Reorg
    <3> QED
      BY <1>9, <2>1, <3>1
  <2>2. CASE ~again
    <3>1. \A n \in Mined : n < keep <=> n <= Height - depth
      BY <1>1 DEF keep, Mined
    <3> QED
      BY <1>2, <1>9, <1>15, <2>2, <3>1
  <2> QED
    BY <2>1, <2>2
<1> QED
  BY <1>7, <1>16, <1>17, <1>18, <1>19

LEMMA ChainStepNode ==
  ASSUME NodeShape, ChainStep
  PROVE  NodeShape' /\ ChainMoves
<1>1. sent' = sent
  BY DEF ChainStep, dbVars
<1>2. /\ Height \in Nat /\ forks \in Nat /\ Height \in 0..Height /\ Block(Height) \in BlockRecords
      /\ mempool \subseteq sent /\ sent \subseteq Transactions
  <2>1. Height \in Nat /\ forks \in Nat
    BY NodeFacts
  <2>2. Height \in 0..Height
    BY <2>1
  <2> QED
    BY <2>1, <2>2, NodeFacts DEF NodeShape
<1>3. /\ Block(Height).position \in [Stakes -> [version : Nat, amount : Nat]]
      /\ \A s \in Stakes : Position(s, Height) \in [version : Nat, amount : Nat]
      /\ forks \in 0..forks
  BY <1>2 DEF BlockRecords, Position
<1>4. ASSUME NEW tx \in mempool, MineTransaction(tx)
      PROVE  NodeShape' /\ ChainMoves
  <2> DEFINE old == Block(Height).position
             charged == IF Outcome(tx) = "charged" THEN Taken(tx) ELSE 0
             position == [old EXCEPT ![tx.stake].amount = @ - charged]
             new == NewBlock(tx, Outcome(tx), charged, position)
  <2>1. tx \in sent /\ tx \in Transactions
    BY <1>2
  <2>2. tx # NoTx /\ tx.stake \in Stakes /\ tx.amount \in Nat
    BY <2>1, ChargeAssumption DEF Transactions
  <2>3. charged \in Nat /\ charged <= old[tx.stake].amount
    <3>1. Taken(tx) \in Nat /\ Taken(tx) <= old[tx.stake].amount
      <4>1. {old[tx.stake].amount, tx.amount} \subseteq Nat
        BY <1>3, <2>2
      <4>2. Taken(tx) = Min({old[tx.stake].amount, tx.amount})
        BY DEF Taken, Position
      <4> HIDE DEF old
      <4> QED
        BY <4>1, <4>2, MinMember
    <3>2. old[tx.stake].amount \in Nat
      BY <1>3, <2>2
    <3> HIDE DEF old
    <3> QED
      BY <3>1, <3>2
  <2>4. Outcome(tx) \in {"charged", "duplicate", "reverted"}
        /\ (Processed(tx.charge) => Outcome(tx) = "duplicate")
    BY DEF Outcome
  <2> HIDE DEF charged
  <2>5. old \in [Stakes -> [version : Nat, amount : Nat]]
    BY <1>3
  <2> HIDE DEF old
  <2>6. /\ position \in [Stakes -> [version : Nat, amount : Nat]]
        /\ \A s \in Stakes : NotAfter(old[s], position[s])
    <3>1. old[tx.stake].amount - charged \in Nat
          /\ old[tx.stake].amount - charged <= old[tx.stake].amount
      BY <2>2, <2>3, <2>5
    <3>2. \A s \in Stakes : position[s] = IF s = tx.stake
            THEN [old[s] EXCEPT !.amount = old[tx.stake].amount - charged] ELSE old[s]
      BY <2>5
    <3>3. DOMAIN position = Stakes /\ position = [s \in Stakes |-> position[s]]
      BY <2>5
    <3>4. \A s \in Stakes : position[s] \in [version : Nat, amount : Nat]
                            /\ NotAfter(old[s], position[s])
      BY <2>5, <3>1, <3>2 DEF NotAfter
    <3> QED
      BY <3>3, <3>4
  <2> HIDE DEF position
  <2>7. new \in BlockRecords /\ new.tx = tx /\ new.result = Outcome(tx) /\ new.position = position
    BY <1>3, <2>1, <2>3, <2>4, <2>6 DEF NewBlock, BlockRecords
  <2>8. /\ chain' = Append(chain, new) /\ Height < MaxHeight /\ forks' = forks
        /\ mempool' \subseteq mempool /\ tx.nonce = AccountNonce
    BY <1>4 DEF MineTransaction, charged, position, old
  <2>9. \A s \in Stakes : NotAfter(Position(s, Height), new.position[s])
    BY <2>6, <2>7 DEF Position, old
  <2> HIDE DEF new
  <2> QED
    BY <1>1, <2>4, <2>7, <2>8, <2>9, GrowNode
<1>5. \A s \in Stakes : NotAfter(Position(s, Height), Block(Height).position[s])
  BY <1>3 DEF NotAfter, Position
<1>6. CASE MineEmpty
  <2> DEFINE new == EmptyBlock(forks, Block(Height).position)
  <2>1. new \in BlockRecords /\ new.tx = NoTx /\ new.position = Block(Height).position
    BY <1>3 DEF EmptyBlock, BlockRecords
  <2>2. /\ chain' = Append(chain, new) /\ Height < MaxHeight /\ forks' = forks
        /\ mempool' \subseteq mempool
    BY <1>6 DEF MineEmpty
  <2> HIDE DEF new
  <2> QED
    BY <1>1, <1>5, <2>1, <2>2, GrowNode
<1>7. ASSUME NEW s \in Stakes, ChangeStake(s)
      PROVE  NodeShape' /\ ChainMoves
  <2> DEFINE old == Block(Height).position
             p == Position(s, Height)
             q == IF p.amount > 0 THEN [p EXCEPT !.amount = 0]
                  ELSE [version |-> p.version + 1, amount |-> InitialStake]
             position == [old EXCEPT ![s] = q]
             new == EmptyBlock(forks, position)
  <2>1. p \in [version : Nat, amount : Nat] /\ old[s] = p /\ InitialStake \in Nat
    BY <1>3, ChainAssumption DEF Position
  <2> HIDE DEF p
  <2>2. q \in [version : Nat, amount : Nat] /\ NotAfter(p, q)
    BY <2>1 DEF NotAfter
  <2> HIDE DEF q
  <2>3. old \in [Stakes -> [version : Nat, amount : Nat]]
    BY <1>3
  <2> HIDE DEF old
  <2>4. position \in [Stakes -> [version : Nat, amount : Nat]]
    BY <2>2, <2>3
  <2>5. \A r \in Stakes : NotAfter(old[r], position[r])
    BY <2>1, <2>2, <2>3 DEF NotAfter
  <2> HIDE DEF position
  <2>6. new \in BlockRecords /\ new.tx = NoTx /\ new.position = position
    BY <1>3, <2>4 DEF EmptyBlock, BlockRecords
  <2>7. /\ chain' = Append(chain, new) /\ Height < MaxHeight /\ forks' = forks
        /\ mempool' \subseteq mempool
    BY <1>7 DEF ChangeStake, position, old, q, p
  <2>8. \A r \in Stakes : NotAfter(Position(r, Height), new.position[r])
    BY <2>5, <2>6 DEF Position, old
  <2> HIDE DEF new
  <2> QED
    BY <1>1, <2>6, <2>7, <2>8, GrowNode
<1>8. ASSUME NEW tx \in mempool, LoseTransaction(tx)
      PROVE  NodeShape' /\ ChainMoves
  <2>1. chain' = chain /\ forks' = forks /\ mempool' \subseteq mempool
    BY <1>8 DEF LoseTransaction
  <2>2. NodeShape'
    BY <1>1, <2>1 DEF NodeShape, NonceOrder, PositionOrder, ChargeOnce, Earlier, Mined, Block,
                      Height, BlockRecords
  <2>3. ChainMoves
    BY <1>2, <2>1 DEF ChainMoves, Block, Height
  <2> QED
    BY <2>2, <2>3
<1> QED
  BY <1>1, <1>4, <1>6, <1>7, <1>8, ReorgNode DEF ChainStep

-----------------------------------------------------------------------------
(* The tables. *)

ClickRecords ==
  [status : {"none", "CAPTURING", "PRICE_PENDING", "PENDING", "RESERVED", "SETTLED",
             "UNCOLLECTABLE", "UNBILLED"},
   stake : Stakes, version : Nat, bid : BlockRefs, price : BlockRefs,
   batch : Batches \cup {0}, aged : BOOLEAN]
BatchRecords ==
  [status : {"none", "PREPARED", "FAILED"} \cup InFlight \cup Terminal,
   run : Runs \cup {0}, stake : Stakes, version : Nat, due : Nat,
   charged : Nat \cup {-1}, nonce : Nat \cup {-1}, attempts : Nat,
   receipt : BlockRefs, error : Errors, deferred : BOOLEAN]
RunRecords ==
  [trigger : {"none", "AUTO", "MANUAL"},
   status : {"none", "COMPLETED", "PARTIAL"} \cup RecoverableRuns,
   error : Errors, cutoff : -1..NClicks]
RowTypes ==
  /\ click \in [Clicks -> ClickRecords] /\ batch \in [Batches -> BatchRecords]
  /\ run \in [Runs -> RunRecords]
  /\ auto \in BOOLEAN /\ checkpoint \in BlockRefs /\ jobs \subseteq Runs

LEMMA RowTypesOK == TypeOK <=> RowTypes
  BY DEF TypeOK, RowTypes, ClickRecords, BatchRecords, RunRecords

\* The journal names the last transaction of each batch.
SentShape ==
  /\ \A t \in sent : /\ t.nonce <= batch[t.charge].nonce
                     /\ t.nonce = batch[t.charge].nonce => t = Transaction(t.charge)
  /\ \A b \in Batches : Signed(b) => Transaction(b) \in sent

\* Clicks and batches are numbered as they come, and a click of a batch is past its
\* capture.  A batch without evidence on the chain was never signed.
Open == Preparable \cup InFlight
Unbatched == {"none", "CAPTURING", "PRICE_PENDING", "PENDING", "UNBILLED"}
ClickOrder == {c \in Clicks : click[c].status # "none"} = 1..Claimed
BatchOrder == \E k \in 0..NClicks : {b \in Batches : batch[b].status # "none"} = 1..k
LinkShape ==
  /\ ClickOrder /\ BatchOrder
  /\ \A c \in Clicks : click[c].status \in Unbatched => click[c].batch = 0
  /\ \A b \in Batches : batch[b].status = "none" <=> batch[b].run = 0
  /\ \A b \in Batches : batch[b].status \in {"none", "PREPARED"} => ~Signed(b)
  /\ \A b \in Batches : batch[b].status \in Terminal /\ batch[b].receipt = NoBlock => ~Signed(b)
  /\ ClicksFollowBatch
  /\ FinishedRunsAreSettled

\* The local state of the pass.
PassFields(p) ==
  /\ DOMAIN p = DOMAIN IdlePass
  /\ p.head \in 0..Height /\ p.cutoff \in 0..NClicks
  /\ p.seen \in [0..MaxHeight -> -1..MaxForks]
  /\ p.run \in Runs \cup {0} /\ p.job \in Runs \cup {0}
  /\ p.runs \subseteq Runs /\ p.refresh \subseteq Runs
  /\ p.blocked \in Errors /\ p.failure \in Errors \cup {"waiting"}
PassTypes ==
  /\ PassFields(pass)
  /\ pass.pc \in SignedSteps => batch[pass.batch].status \notin Terminal
  /\ pass.pc = "run" => pass.runs # {}
  /\ pass.pc = "refresh" => pass.refresh # {}
  /\ pass.pc = "idle" => pass.seen = Unread
  /\ \A b \in pass.todo : batch[b].status # "none"

\* A receipt names a block.
ReceiptBlocks ==
  \A b \in Batches : batch[b].receipt # NoBlock => batch[b].receipt.n \in 0..Height

Tables == NodeShape /\ SentShape /\ RowTypes /\ LinkShape /\ PassTypes /\ ReceiptBlocks
TableInv == JournalInv /\ Tables

-----------------------------------------------------------------------------
\* The chain is left alone; what is sent to the node was signed.
LEMMA QuietNode ==
  ASSUME NodeShape, chain' = chain, forks' = forks, sent \subseteq sent',
         sent' \subseteq Transactions, mempool' \subseteq sent'
  PROVE  NodeShape'
<1>1. \A S, T : S \subseteq T => Seq(S) \subseteq Seq(T)
  OBVIOUS
<1>2. BlockRecords \subseteq BlockRecords'
  BY DEF BlockRecords
<1>3. chain' \in Seq(BlockRecords')
  <2> DEFINE S == BlockRecords
             T == BlockRecords'
  <2>1. chain \in Seq(S) /\ S \subseteq T
    BY <1>2 DEF NodeShape
  <2> HIDE DEF S, T
  <2>2. chain \in Seq(T)
    BY <1>1, <2>1
  <2> QED
    BY <2>2 DEF T
<1> QED
  BY <1>3 DEF NodeShape, NonceOrder, PositionOrder, ChargeOnce, Earlier, Mined, Block, Height

\* Nothing is signed, and a signed row keeps what its bytes were made of.
LEMMA SentKept ==
  ASSUME NodeShape, SentShape, RowTypes, sent' = sent,
         \A b \in Batches : batch'[b].nonce = batch[b].nonce,
         \A b \in Batches : Signed(b) =>
           /\ batch'[b].attempts = batch[b].attempts /\ batch'[b].stake = batch[b].stake
           /\ batch'[b].version = batch[b].version /\ batch'[b].due = batch[b].due
  PROVE  SentShape'
<1>1. \A b \in Batches : Signed(b) => Transaction(b)' = Transaction(b)
  BY DEF Transaction
<1>2. \A t \in sent : t.charge \in Batches /\ t.nonce \in Nat
  BY DEF NodeShape, Transactions
<1>3. \A t \in sent : Signed(t.charge)
  BY <1>2 DEF SentShape, Signed, RowTypes, BatchRecords
<1> QED
  BY <1>1, <1>2, <1>3 DEF SentShape, Signed

-----------------------------------------------------------------------------
\* What ClicksFollowBatch says of one batch.
Follows(b) ==
  LET mine == ClicksOf(b)
      settled == {c \in mine : click[c].status = "SETTLED"}
  IN  /\ batch[b].status # "none" => mine # {} /\ batch[b].due = Due(mine)
      /\ batch[b].status = "none" => mine = {}
      /\ batch[b].status \in {"PREPARED", "FAILED"} \cup InFlight =>
           \A c \in mine : click[c].status = "RESERVED"
      /\ batch[b].status \in Terminal =>
           /\ \A c \in mine : click[c].status \in {"SETTLED", "UNCOLLECTABLE"}
           /\ Due(settled) <= batch[b].charged
           /\ batch[b].status = "CONFIRMED" <=> settled = mine

LEMMA FollowsAll == ClicksFollowBatch <=> \A b \in Batches : Follows(b)
  BY DEF ClicksFollowBatch, Follows

SameClicks(b) == \A c \in Clicks : click'[c].batch = b <=> click[c].batch = b

LEMMA FollowsSame ==
  ASSUME NEW b \in Batches, Follows(b), SameClicks(b),
         batch'[b].status = batch[b].status, batch'[b].due = batch[b].due,
         batch'[b].charged = batch[b].charged,
         \A c \in Clicks : click[c].batch = b => click'[c].status = click[c].status
  PROVE  Follows(b)'
<1>1. ClicksOf(b)' = ClicksOf(b)
  BY DEF ClicksOf, SameClicks
<1>2. \A c \in ClicksOf(b) : click'[c].status = click[c].status
  BY DEF ClicksOf
<1>3. {c \in ClicksOf(b)' : click'[c].status = "SETTLED"}
        = {c \in ClicksOf(b) : click[c].status = "SETTLED"}
  BY <1>1, <1>2
<1> QED
  BY <1>1, <1>2, <1>3 DEF Follows

\* An open batch has its clicks reserved.
LEMMA FollowsOpen ==
  ASSUME NEW b \in Batches, Follows(b), SameClicks(b),
         batch[b].status # "none", batch'[b].status \in Open, batch'[b].due = batch[b].due,
         \A c \in Clicks : click[c].batch = b => click'[c].status = "RESERVED"
  PROVE  Follows(b)'
<1>1. ClicksOf(b)' = ClicksOf(b)
  BY DEF ClicksOf, SameClicks
<1>2. batch'[b].status # "none" /\ batch'[b].status \notin Terminal
  BY DEF Open, Preparable, InFlight, Terminal
<1> QED
  BY <1>1, <1>2 DEF Follows, ClicksOf

\* Only clicks change, and none of a batch but in its evidence.
LEMMA LinkClicks ==
  ASSUME LinkShape, batch' = batch, run' = run, ClickOrder',
         \A c \in Clicks : click'[c].batch = click[c].batch,
         \A c \in Clicks : click[c].batch # 0 => click'[c].status = click[c].status
  PROVE  LinkShape'
<1>1. ASSUME NEW b \in Batches
      PROVE  Follows(b)'
  <2>1. b # 0
    BY DEF Batches
  <2> QED
    BY <2>1, FollowsAll, FollowsSame DEF LinkShape, SameClicks
<1>2. ClicksFollowBatch'
  BY <1>1 DEF ClicksFollowBatch, Follows
<1>3. BatchOrder' /\ FinishedRunsAreSettled'
  BY DEF LinkShape, BatchOrder, FinishedRunsAreSettled, BatchesOf
<1>4. \A b \in Batches : Signed(b)' = Signed(b)
  BY DEF Signed
<1>5. \A c \in Clicks : click'[c].status \in Unbatched => click'[c].batch = 0
  BY DEF LinkShape
<1> QED
  BY <1>2, <1>3, <1>4, <1>5 DEF LinkShape

\* Only runs change; one that is finished now has nothing left to settle.
LEMMA LinkRuns ==
  ASSUME LinkShape, batch' = batch, click' = click,
         \A r \in Runs : run'[r].status \in {"COMPLETED", "PARTIAL"} =>
           run[r].status \in {"COMPLETED", "PARTIAL"} \/ Unsettled(r) = {}
  PROVE  LinkShape'
<1>1. FinishedRunsAreSettled'
  BY DEF LinkShape, FinishedRunsAreSettled, BatchesOf, Unsettled
<1>2. ClickOrder' /\ BatchOrder'
  BY DEF LinkShape, ClickOrder, BatchOrder, Claimed
<1>3. \A b \in Batches : Follows(b)'
  BY FollowsAll, FollowsSame DEF LinkShape, SameClicks
<1>4. ClicksFollowBatch'
  BY <1>3 DEF ClicksFollowBatch, Follows
<1> QED
  BY <1>1, <1>2, <1>4 DEF LinkShape, Signed

\* One batch changes, with its clicks and its run.
LEMMA LinkRow ==
  ASSUME LinkShape, NEW b \in Batches, batch[b].status # "none", batch'[b].status # "none",
         \A d \in Batches \ {b} : batch'[d] = batch[d],
         batch'[b].run = batch[b].run, batch'[b].nonce = batch[b].nonce \/ batch'[b].status = "SIGNED",
         batch'[b].status = "PREPARED" => batch'[b].nonce = -1,
         batch'[b].status \in Terminal =>
           batch'[b].receipt # NoBlock \/ (batch[b].status \in Terminal
                                           /\ batch'[b].receipt = batch[b].receipt),
         \A c \in Clicks : click'[c].batch = click[c].batch,
         \A c \in Clicks : click[c].batch # b => click'[c].status = click[c].status,
         \A c \in Clicks : click[c].batch = b => click'[c].status \notin Unbatched,
         Follows(b)',
         \A r \in Runs : run'[r].status \in {"COMPLETED", "PARTIAL"} =>
           /\ run[r].status \in {"COMPLETED", "PARTIAL"}
           /\ batch[b].run = r /\ batch[b].status \in Terminal => batch'[b].status \in Terminal
  PROVE  LinkShape'
<1>1. ASSUME NEW d \in Batches
      PROVE  Follows(d)'
  <2>1. CASE d = b
    BY <2>1
  <2>2. CASE d # b
    BY <2>2, FollowsAll, FollowsSame DEF LinkShape, SameClicks
  <2> QED
    BY <2>1, <2>2
<1>2. ClicksFollowBatch'
  BY <1>1 DEF ClicksFollowBatch, Follows
<1>3. BatchOrder'
  <2>1. {d \in Batches : batch'[d].status # "none"} = {d \in Batches : batch[d].status # "none"}
    OBVIOUS
  <2> QED
    BY <2>1 DEF LinkShape, BatchOrder
<1>4. FinishedRunsAreSettled'
  <2> SUFFICES ASSUME NEW r \in Runs, run'[r].status \in {"COMPLETED", "PARTIAL"},
                      NEW d \in Batches, batch'[d].run = r
               PROVE  batch'[d].status \in Terminal
    BY DEF FinishedRunsAreSettled, BatchesOf
  <2>1. run[r].status \in {"COMPLETED", "PARTIAL"} /\ batch[d].run = r
    OBVIOUS
  <2>2. batch[d].status \in Terminal
    BY <2>1 DEF LinkShape, FinishedRunsAreSettled, BatchesOf
  <2> QED
    BY <2>1, <2>2
<1>5. /\ \A c \in Clicks : click'[c].status \in Unbatched => click'[c].batch = 0
      /\ \A d \in Batches : batch'[d].status = "none" <=> batch'[d].run = 0
  BY DEF LinkShape
<1>6. ClickOrder'
  <2>1. \A c \in Clicks : click[c].batch = b => click[c].status # "none"
    BY DEF LinkShape, Unbatched, Batches
  <2>2. \A c \in Clicks : click'[c].status # "none" <=> click[c].status # "none"
    BY <2>1 DEF Unbatched
  <2>3. {c \in Clicks : click'[c].status # "none"} = {c \in Clicks : click[c].status # "none"}
    BY <2>2
  <2> QED
    BY <2>3 DEF LinkShape, ClickOrder, Claimed
<1>7. \A d \in Batches : batch'[d].status \in {"none", "PREPARED"} => ~Signed(d)'
  BY DEF LinkShape, Signed
<1>8. \A d \in Batches : batch'[d].status \in Terminal /\ batch'[d].receipt = NoBlock => ~Signed(d)'
  <2>1. "SIGNED" \notin Terminal
    BY DEF Terminal
  <2> QED
    BY <2>1 DEF LinkShape, Signed
<1> QED
  BY <1>2, <1>3, <1>4, <1>5, <1>6, <1>7, <1>8 DEF LinkShape
-----------------------------------------------------------------------------
(* What the steps of a pass leave in its local state. *)

LEMMA SeenFields ==
  ASSUME NodeShape, PassFields(pass), NEW ns \in SUBSET (0..Height)
  PROVE  Seen(ns) \in [0..MaxHeight -> -1..MaxForks]
<1>1. \A n \in 0..Height : BlockHash(n) \in 0..forks
  BY NodeFacts DEF BlockHash, BlockRecords
<1>2. forks \in 0..MaxForks /\ MaxForks \in Nat
  BY ChainAssumption DEF NodeShape
<1>3. \A n \in 0..MaxHeight : pass.seen[n] \in -1..MaxForks
  BY DEF PassFields
<1>4. ASSUME NEW n \in 0..MaxHeight
      PROVE  (IF n \in ns THEN Hash(n) ELSE pass.seen[n]) \in -1..MaxForks
  <2>1. CASE n \in ns /\ pass.seen[n] = -1
    BY <1>1, <1>2, <2>1 DEF Hash
  <2>2. CASE ~(n \in ns /\ pass.seen[n] = -1)
    BY <1>3, <2>2 DEF Hash
  <2> QED
    BY <2>1, <2>2
<1> QED
  BY <1>4 DEF Seen

LEMMA SeenPassFields ==
  ASSUME PassFields(pass), NEW s \in [0..MaxHeight -> -1..MaxForks]
  PROVE  LET p == [pass EXCEPT !.seen = s]
         IN  /\ PassFields(p) /\ p.todo = pass.todo /\ p.run = pass.run /\ p.batch = pass.batch
             /\ p.runs = pass.runs /\ p.refresh = pass.refresh /\ p.pc = pass.pc
             /\ p.head = pass.head /\ p.blocked = pass.blocked /\ p.previous = pass.previous
             /\ p.seen = s
<1> DEFINE p == [pass EXCEPT !.seen = s]
<1>1. /\ DOMAIN p = DOMAIN IdlePass /\ p.seen = s /\ p.todo = pass.todo /\ p.run = pass.run
      /\ p.batch = pass.batch /\ p.runs = pass.runs /\ p.refresh = pass.refresh
      /\ p.pc = pass.pc /\ p.head = pass.head /\ p.blocked = pass.blocked
      /\ p.previous = pass.previous /\ p.job = pass.job /\ p.cutoff = pass.cutoff
      /\ p.failure = pass.failure
  BY DEF PassFields, IdlePass
<1> HIDE DEF p
<1>2. PassFields(p)
  BY <1>1 DEF PassFields
<1> QED
  BY <1>1, <1>2 DEF p

LEMMA SeenPass ==
  ASSUME NodeShape, PassFields(pass), NEW ns \in SUBSET (0..Height)
  PROVE  LET p == [pass EXCEPT !.seen = Seen(ns)]
         IN  /\ PassFields(p) /\ p.todo = pass.todo /\ p.run = pass.run /\ p.batch = pass.batch
             /\ p.runs = pass.runs /\ p.refresh = pass.refresh /\ p.pc = pass.pc
             /\ p.head = pass.head /\ p.blocked = pass.blocked /\ p.previous = pass.previous
             /\ p.seen = Seen(ns)
  BY SeenFields, SeenPassFields

\* Finalized blocks are blocks.
LEMMA FinalizedBound ==
  ASSUME NEW head \in Nat
  PROVE  /\ Finalized(head) \in 0..head
         /\ \A h \in Nat : head <= h => Finalized(head) <= Finalized(h)
  BY ChainAssumption DEF Finalized

LEMMA PassFinalizedBound ==
  ASSUME NodeShape, PassFields(pass)
  PROVE  /\ PassFinalized \in 0..Height /\ PassFinalized \in 0..MaxHeight
         /\ pass.head \in Nat /\ PassFinalized <= pass.head /\ pass.head <= Height
<1>1. Height \in 0..MaxHeight /\ pass.head \in 0..Height /\ MaxHeight \in Nat
  BY NodeFacts, ChainAssumption DEF PassFields
<1>2. Finalized(pass.head) \in 0..pass.head
  BY <1>1, FinalizedBound
<1> QED
  BY <1>1, <1>2 DEF PassFinalized

\* No batch ceases to exist.
Kept == \A b \in Batches : batch[b].status # "none" => batch'[b].status # "none"

LEMMA ReturnedTypes ==
  ASSUME NEW p, PassFields(p), NEW w, pass' = Returned(p, w), chain' = chain, Kept,
         p.todo \subseteq Batches, \A b \in p.todo : batch[b].status # "none",
         p.run = 0 => batch[p.batch].run \in Runs
  PROVE  PassTypes'
<1>1. PassFields(pass')
  <2>1. CASE p.run = 0
    <3>1. pass' = [p EXCEPT !.pc = "reconcile", !.waiting = @ \/ w,
                     !.refresh = @ \cup {batch[p.batch].run}, !.batch = 0]
      BY <2>1 DEF Returned
    <3> QED
      BY <2>1, <3>1 DEF PassFields, IdlePass
  <2>2. CASE p.run # 0
    <3>1. pass' = [p EXCEPT !.pc = IF p.waiting \/ w THEN "finish" ELSE "prepare",
                     !.waiting = @ \/ w, !.batch = 0]
      BY <2>2 DEF Returned
    <3> QED
      BY <3>1 DEF PassFields, IdlePass
  <2> QED
    BY <2>1, <2>2
<1>2. pass'.pc \in {"reconcile", "finish", "prepare"} /\ pass'.todo = p.todo
  BY DEF Returned, PassFields, IdlePass
<1>3. PassFields(pass)'
  BY <1>1 DEF PassFields, Height
<1>4. \A b \in pass'.todo : batch'[b].status # "none"
  BY <1>2 DEF Kept
<1> QED
  BY <1>2, <1>3, <1>4 DEF PassTypes, SignedSteps

LEMMA ThrewTypes ==
  ASSUME NEW p, PassFields(p), NEW error, pass' = Threw(p, error), chain' = chain, Kept,
         p.todo \subseteq Batches, \A b \in p.todo : batch[b].status # "none",
         error \in Errors \/ (p.run # 0 /\ error = "waiting")
  PROVE  PassTypes'
<1>1. PassFields(pass')
  <2>1. CASE p.run = 0
    <3>1. pass' = [p EXCEPT !.pc = "settings", !.blocked = error, !.batch = 0]
      BY <2>1 DEF Threw
    <3> QED
      BY <2>1, <3>1 DEF PassFields, IdlePass
  <2>2. CASE p.run # 0
    <3>1. pass' = [p EXCEPT !.pc = IF error = "orphaned" THEN "prepare" ELSE "finish",
                     !.failure = error, !.batch = 0]
      BY <2>2 DEF Threw
    <3> QED
      BY <3>1 DEF PassFields, IdlePass
  <2> QED
    BY <2>1, <2>2
<1>2. pass'.pc \in {"settings", "finish", "prepare"} /\ pass'.todo = p.todo
  BY DEF Threw, PassFields, IdlePass
<1>3. PassFields(pass)'
  BY <1>1 DEF PassFields, Height
<1>4. \A b \in pass'.todo : batch'[b].status # "none"
  BY <1>2 DEF Kept
<1> QED
  BY <1>2, <1>3, <1>4 DEF PassTypes, SignedSteps

LEMMA NextRunTypes ==
  ASSUME NodeShape, NEW p, PassFields(p), NEW runs \in SUBSET Runs, pass' = NextRun(p, runs),
         chain' = chain, batch' = batch, \A b \in p.todo : batch[b].status # "none"
  PROVE  PassTypes'
<1>1. Height \in Nat /\ MaxForks \in Nat
  BY NodeFacts, ChainAssumption
<1>2. CASE runs = {}
  <2>1. pass' = IdlePass
    BY <1>2 DEF NextRun
  <2>2. PassFields(IdlePass)
    BY <1>1, ChargeAssumption DEF PassFields, IdlePass, Unread, Errors
  <2> QED
    BY <2>1, <2>2 DEF PassTypes, PassFields, IdlePass, SignedSteps, Height
<1>3. CASE runs # {}
  <2>1. pass' = [p EXCEPT !.pc = "run", !.runs = runs, !.run = 0]
    BY <1>3 DEF NextRun
  <2>2. PassFields(pass') /\ pass'.pc = "run" /\ pass'.runs # {} /\ pass'.todo = p.todo
    BY <1>3, <2>1 DEF PassFields, IdlePass
  <2> QED
    BY <2>2 DEF PassTypes, PassFields, SignedSteps, Height
<1> QED
  BY <1>2, <1>3

LEMMA AfterRefreshTypes ==
  ASSUME NEW p, PassFields(p), pass' = AfterRefresh(p), chain' = chain,
         \A b \in p.todo : batch'[b].status # "none"
  PROVE  PassTypes'
<1>1. /\ PassFields(pass') /\ pass'.pc \in {"refresh", "plan", "prepare"}
      /\ pass'.pc = "refresh" => pass'.refresh # {}
      /\ pass'.todo = p.todo
  BY DEF AfterRefresh, PassFields, IdlePass
<1> QED
  BY <1>1 DEF PassTypes, PassFields, SignedSteps, Height

-----------------------------------------------------------------------------
(* Steps that only write clicks. *)

LEMMA ClaimedBound == ASSUME ClickOrder PROVE Claimed \in 0..NClicks
<1>1. Claimed \in Nat /\ NClicks \in Nat
  BY ClicksFinite, ChargeAssumption DEF Claimed
<1>2. \A c \in 1..Claimed : c \in 1..NClicks
  BY DEF ClickOrder, Clicks
<1>3. Claimed >= 1 => Claimed \in 1..Claimed
  BY <1>1
<1> QED
  BY <1>1, <1>2, <1>3

LEMMA ClickOrderSame ==
  ASSUME ClickOrder, \A c \in Clicks : click'[c].status = "none" <=> click[c].status = "none"
  PROVE  ClickOrder'
<1>1. {c \in Clicks : click'[c].status # "none"} = {c \in Clicks : click[c].status # "none"}
  OBVIOUS
<1> QED
  BY <1>1 DEF ClickOrder, Claimed

\* Nothing is signed or mined.
LEMMA QuietTables ==
  ASSUME Tables, chain' = chain, forks' = forks, mempool' \subseteq sent, sent' = sent,
         \A b \in Batches : /\ batch'[b].nonce = batch[b].nonce
                            /\ Signed(b) => /\ batch'[b].attempts = batch[b].attempts
                                            /\ batch'[b].stake = batch[b].stake
                                            /\ batch'[b].version = batch[b].version
                                            /\ batch'[b].due = batch[b].due
  PROVE  NodeShape' /\ SentShape'
<1>1. NodeShape'
  <2>1. mempool' \subseteq sent' /\ sent' \subseteq Transactions
    BY DEF Tables, NodeShape
  <2> QED
    BY <2>1, QuietNode DEF Tables
<1>2. SentShape'
  BY SentKept DEF Tables
<1> QED
  BY <1>1, <1>2

LEMMA SamePass ==
  ASSUME PassTypes, PassShape, pass' = pass, chain' = chain,
         \A b \in Batches : batch'[b].status = batch[b].status
  PROVE  PassTypes'
  BY DEF PassTypes, PassFields, PassShape, Height

LEMMA ClickStep ==
  ASSUME TableInv, chain' = chain, forks' = forks, mempool' = mempool, sent' = sent,
         batch' = batch, run' = run, auto' = auto, checkpoint' = checkpoint,
         jobs' \subseteq jobs, click' \in [Clicks -> ClickRecords], ClickOrder', PassTypes',
         \A c \in Clicks : click'[c].batch = click[c].batch,
         \A c \in Clicks : click[c].batch # 0 => click'[c].status = click[c].status
  PROVE  Tables'
<1>1. NodeShape' /\ SentShape'
  BY QuietTables DEF TableInv, Tables, NodeShape
<1>2. RowTypes'
  BY DEF TableInv, Tables, RowTypes
<1>3. LinkShape'
  BY LinkClicks DEF TableInv, Tables
<1>4. ReceiptBlocks'
  BY DEF TableInv, Tables, ReceiptBlocks, Height
<1> QED
  BY <1>1, <1>2, <1>3, <1>4 DEF Tables

\* One click that is in no batch changes.
LEMMA OneClick ==
  ASSUME TableInv, NEW c \in Clicks, NEW row \in ClickRecords, click' = [click EXCEPT ![c] = row],
         click[c].batch = 0, row.batch = 0, row.status = "none" <=> click[c].status = "none",
         UNCHANGED <<chainVars, batch, run, auto, checkpoint, jobs, pass, sent>>
  PROVE  Tables'
<1>1. click \in [Clicks -> ClickRecords] /\ ClickOrder
  BY DEF TableInv, Tables, RowTypes, LinkShape
<1>2. /\ click' \in [Clicks -> ClickRecords] /\ click'[c] = row
      /\ \A d \in Clicks \ {c} : click'[d] = click[d]
  BY <1>1
<1>3. ClickOrder'
  BY <1>1, <1>2, ClickOrderSame
<1>4. PassTypes'
  BY SamePass DEF TableInv, Tables, JournalInv, chainVars
<1>5. \A d \in Clicks : /\ click'[d].batch = click[d].batch
                        /\ click[d].batch # 0 => click'[d].status = click[d].status
  BY <1>2
<1> QED
  BY <1>2, <1>3, <1>4, <1>5, ClickStep DEF chainVars

LEMMA ClaimClickTables ==
  ASSUME TableInv, NEW s \in Stakes, ClaimClick(s)
  PROVE  Tables'
<1> DEFINE c == Claimed + 1
           v == Position(s, Height).version
           row == [click[c] EXCEPT !.status = "CAPTURING", !.stake = s, !.version = v]
<1>1. click \in [Clicks -> ClickRecords] /\ ClickOrder /\ NodeShape /\ LinkShape
  BY DEF TableInv, Tables, RowTypes, LinkShape
<1>2. c \in Clicks /\ Claimed \in Nat
  BY <1>1, ClaimedBound, ChargeAssumption DEF ClaimClick, Clicks
<1>3. v \in Nat
  <2>1. Height \in 0..Height
    BY <1>1, NodeFacts
  <2>2. Block(Height) \in BlockRecords
    BY <1>1, <2>1, NodeFacts
  <2> QED
    BY <2>2 DEF Position, BlockRecords
<1>4. click[c].status = "none" /\ click[c].batch = 0
  BY <1>1, <1>2 DEF ClickOrder, LinkShape, Unbatched
<1>5. click' = [click EXCEPT ![c] = row]
  BY DEF ClaimClick
<1> HIDE DEF v
<1>6. row \in ClickRecords /\ row.status = "CAPTURING" /\ row.batch = 0
  BY <1>1, <1>2, <1>3, <1>4 DEF ClickRecords
<1> HIDE DEF row
<1>7. /\ click' \in [Clicks -> ClickRecords] /\ click'[c] = row
      /\ \A d \in Clicks \ {c} : click'[d] = click[d]
  BY <1>1, <1>2, <1>5, <1>6
<1>8. ClickOrder'
  <2>1. {d \in Clicks : click'[d].status # "none"} = {d \in Clicks : click[d].status # "none"} \cup {c}
    BY <1>2, <1>6, <1>7
  <2>2. {d \in Clicks : click'[d].status # "none"} = 1..c
    BY <1>1, <1>2, <2>1 DEF ClickOrder
  <2>3. Cardinality(1..c) = c
    BY <1>2, FS_Interval
  <2> HIDE DEF c
  <2>4. Claimed' = c
    BY <2>2, <2>3 DEF Claimed
  <2> QED
    BY <2>2, <2>4 DEF ClickOrder
<1>9. PassTypes'
  BY SamePass DEF TableInv, Tables, JournalInv, chainVars, ClaimClick
<1>10. \A d \in Clicks : /\ click'[d].batch = click[d].batch
                         /\ click[d].batch # 0 => click'[d].status = click[d].status
  BY <1>4, <1>6, <1>7
<1> QED
  BY <1>7, <1>8, <1>9, <1>10, ClickStep DEF chainVars, ClaimClick

\* A block that exists names itself.
LEMMA BlockRef ==
  ASSUME NodeShape, NEW n \in 0..Height
  PROVE  /\ [n |-> n, hash |-> BlockHash(n)] \in BlockRefs /\ BlockHash(n) \in 0..forks
         /\ [n |-> n, hash |-> BlockHash(n)] # NoBlock
<1>1. Block(n) \in BlockRecords /\ Height \in 0..MaxHeight
  BY NodeFacts
<1>2. MaxForks \in Nat /\ forks \in 0..MaxForks /\ MaxHeight \in Nat
  BY ChainAssumption DEF NodeShape
<1>3. BlockHash(n) \in 0..forks
  BY <1>1 DEF BlockHash, BlockRecords
<1>4. n \in -1..MaxHeight /\ BlockHash(n) \in -1..MaxForks /\ n # -1
  BY <1>1, <1>2, <1>3
<1> QED
  BY <1>3, <1>4 DEF BlockRefs, NoBlock

LEMMA ProjectedBound == ASSUME NodeShape PROVE Projected(Height) \in 0..Height
  BY NodeFacts, ChainAssumption DEF Projected, Finalized

LEMMA FinishCaptureTables ==
  ASSUME TableInv, NEW c \in Clicks, NEW n \in {Height, Projected(Height)},
         NEW priced \in BOOLEAN, FinishCapture(c, n, priced)
  PROVE  Tables'
<1> DEFINE p == Position(click[c].stake, n)
           e == [n |-> n, hash |-> BlockHash(n)]
           row == IF p.version # click[c].version \/ p.amount = 0
                  THEN [click[c] EXCEPT !.status = "UNBILLED"]
                  ELSE [click[c] EXCEPT !.bid = e,
                          !.price = IF priced THEN e ELSE NoBlock,
                          !.status = IF ~priced THEN "PRICE_PENDING"
                                     ELSE IF Amount[c] = 0 THEN "SETTLED"
                                     ELSE "PENDING"]
<1>1. click[c] \in ClickRecords /\ click[c].batch = 0 /\ click[c].status = "CAPTURING"
  BY DEF TableInv, Tables, RowTypes, LinkShape, Unbatched, FinishCapture
<1>2. n \in 0..Height
  BY NodeFacts, ProjectedBound DEF TableInv, Tables
<1>3. e \in BlockRefs /\ NoBlock \in BlockRefs
  <2>1. e \in BlockRefs
    BY <1>2, BlockRef DEF TableInv, Tables
  <2>2. NoBlock \in BlockRefs
    BY ChainAssumption DEF BlockRefs, NoBlock
  <2> QED
    BY <2>1, <2>2
<1>4. click' = [click EXCEPT ![c] = row]
  BY DEF FinishCapture
<1> HIDE DEF e, p
<1>5. row \in ClickRecords /\ row.batch = 0 /\ row.status # "none"
  BY <1>1, <1>3 DEF ClickRecords
<1> HIDE DEF row
<1> QED
  BY <1>1, <1>4, <1>5, OneClick DEF FinishCapture

LEMMA AgeTables ==
  ASSUME TableInv, NEW c \in Clicks, Age(c)
  PROVE  Tables'
<1> DEFINE row == [click[c] EXCEPT !.aged = TRUE]
<1>1. click[c] \in ClickRecords /\ click[c].batch = 0 /\ click[c].status # "none"
  BY DEF TableInv, Tables, RowTypes, LinkShape, Unbatched, Age
<1>2. row \in ClickRecords /\ row.batch = 0 /\ row.status # "none"
  BY <1>1 DEF ClickRecords
<1>3. click' = [click EXCEPT ![c] = row]
  BY DEF Age
<1> HIDE DEF row
<1> QED
  BY <1>1, <1>2, <1>3, OneClick DEF Age

LEMMA BeginPassTables ==
  ASSUME TableInv, NEW job \in Runs \cup {0}, NEW stale \in SUBSET Clicks,
         NEW snapshot \in BOOLEAN, BeginPass(job, stale, snapshot)
  PROVE  Tables'
<1> DEFINE fin == Finalized(Height)
           old == checkpoint.n # -1 /\ checkpoint.n <= fin
           ns == {fin} \cup (IF old THEN {checkpoint.n} ELSE {})
           pr == old /\ Canonical(checkpoint)
           seen == Seen(ns)
<1>1. NodeShape /\ PassFields(pass) /\ LinkShape /\ ClickOrder
  BY DEF TableInv, Tables, PassTypes, LinkShape
<1>2. click \in [Clicks -> ClickRecords] /\ checkpoint \in BlockRefs
  BY DEF TableInv, Tables, RowTypes
<1>3. fin \in 0..Height /\ Height \in Nat
  BY <1>1, NodeFacts, FinalizedBound
<1>4. ns \in SUBSET (0..Height)
  <2>1. checkpoint.n \in -1..MaxHeight /\ MaxHeight \in Nat
    BY <1>2, ChainAssumption DEF BlockRefs
  <2> QED
    BY <1>3, <2>1
<1>5. seen \in [0..MaxHeight -> -1..MaxForks]
  BY <1>1, <1>4, SeenFields
<1>6. pass' = [IdlePass EXCEPT !.pc = "fetch", !.job = job, !.cutoff = Claimed,
                !.head = Height, !.seen = seen, !.previous = pr]
  BY DEF BeginPass
<1> HIDE DEF seen, ns, old, pr
<1>7. Claimed \in 0..NClicks
  BY <1>1, ClaimedBound
<1>8. PassFields(pass') /\ pass'.pc = "fetch" /\ pass'.todo = {}
  BY <1>3, <1>5, <1>6, <1>7 DEF PassFields, IdlePass, Errors
<1>9. chain' = chain
  BY DEF BeginPass, chainVars
<1>10. PassTypes'
  BY <1>8, <1>9 DEF PassTypes, PassFields, SignedSteps, Height
<1>11. ASSUME NEW c \in Clicks
       PROVE  /\ click'[c] \in ClickRecords /\ click'[c].batch = click[c].batch
              /\ click[c].batch # 0 => click'[c].status = click[c].status
              /\ click'[c].status = "none" <=> click[c].status = "none"
  <2> DEFINE n == Projected(Height)
             e == [n |-> n, hash |-> BlockHash(n)]
  <2>1. e \in BlockRefs
    BY <1>1, ProjectedBound, BlockRef
  <2>2. click'[c] = Converted(c, stale, snapshot)
    BY DEF BeginPass
  <2>3. \/ c \in stale /\ click'[c] = [click[c] EXCEPT !.status = "UNBILLED"]
        \/ /\ click[c].status = "PRICE_PENDING"
           /\ click'[c] = [click[c] EXCEPT
                             !.status = IF Amount[c] = 0 THEN "SETTLED" ELSE "PENDING",
                             !.price = e]
        \/ click'[c] = click[c]
    BY <2>2 DEF Converted
  <2>4. c \in stale => click[c].status = "CAPTURING"
    BY DEF BeginPass
  <2>5. click[c] \in ClickRecords
    BY <1>2
  <2>6. click[c].status \in {"CAPTURING", "PRICE_PENDING"} => click[c].batch = 0
    BY <1>1 DEF LinkShape, Unbatched
  <2> HIDE DEF e
  <2> QED
    BY <2>1, <2>3, <2>4, <2>5, <2>6 DEF ClickRecords
<1>12. click' \in [Clicks -> ClickRecords]
  <2>1. click' = [c \in Clicks |-> Converted(c, stale, snapshot)]
    BY DEF BeginPass
  <2>2. \A c \in Clicks : Converted(c, stale, snapshot) \in ClickRecords
    BY <1>11, <2>1
  <2> QED
    BY <2>1, <2>2
<1>13. ClickOrder'
  BY <1>1, <1>11, ClickOrderSame
<1>14. jobs' \subseteq jobs
  BY DEF BeginPass
<1> QED
  BY <1>10, <1>11, <1>12, <1>13, <1>14, ClickStep DEF BeginPass, chainVars

LEMMA ValidateTables ==
  ASSUME TableInv, ValidateAndFetch
  PROVE  Tables'
<1> DEFINE cs == {c \in Clicks : click[c].status \in {"PENDING", "PRICE_PENDING"}
                                /\ click[c].batch = 0}
<1>1. NodeShape /\ PassFields(pass) /\ LinkShape /\ ClickOrder /\ pass.pc = "fetch"
  BY DEF TableInv, Tables, PassTypes, LinkShape, ValidateAndFetch
<1>2. click \in [Clicks -> ClickRecords]
  BY DEF TableInv, Tables, RowTypes
<1>3. ASSUME NEW c \in Clicks
      PROVE  /\ click'[c] \in ClickRecords /\ click'[c].batch = click[c].batch
             /\ click[c].batch # 0 => click'[c].status = click[c].status
             /\ click'[c].status = "none" <=> click[c].status = "none"
  <2>1. \/ c \in cs /\ click'[c] = [click[c] EXCEPT !.status = "UNBILLED"]
        \/ click'[c] = click[c]
    BY DEF ValidateAndFetch
  <2> QED
    BY <1>2, <2>1 DEF ClickRecords
<1>4. click' \in [Clicks -> ClickRecords]
  <2>1. click' = [c \in Clicks |-> IF c \in cs /\ EvidenceLost(c)
                                   THEN [click[c] EXCEPT !.status = "UNBILLED"] ELSE click[c]]
    BY DEF ValidateAndFetch
  <2> HIDE DEF cs
  <2> QED
    BY <1>3, <2>1
<1>5. ClickOrder'
  BY <1>1, <1>3, ClickOrderSame
<1>6. PassTypes'
  <2> DEFINE seen == Seen(EvidenceRead(cs))
             td == ToReconcile
  <2>1. EvidenceRead(cs) \in SUBSET (0..Height)
    BY <1>1, PassFinalizedBound, NodeFacts DEF EvidenceRead
  <2>2. seen \in [0..MaxHeight -> -1..MaxForks]
    BY <1>1, <2>1, SeenFields
  <2>3. pass' = [pass EXCEPT !.pc = "reconcile", !.seen = seen, !.todo = td, !.previous = FALSE]
    BY DEF ValidateAndFetch
  <2>4. \A b \in td : batch[b].status # "none"
    BY DEF ToReconcile, Terminal, InFlight
  <2> HIDE DEF seen, td
  <2>5. PassFields(pass') /\ pass'.pc = "reconcile" /\ pass'.todo = td
    BY <1>1, <2>2, <2>3 DEF PassFields, IdlePass
  <2>6. chain' = chain /\ batch' = batch
    BY DEF ValidateAndFetch, chainVars
  <2> QED
    BY <2>4, <2>5, <2>6 DEF PassTypes, PassFields, SignedSteps, Height
<1> QED
  BY <1>3, <1>4, <1>5, <1>6, ClickStep DEF ValidateAndFetch, chainVars

-----------------------------------------------------------------------------
(* Steps that write neither clicks nor batches. *)

LEMMA RunStep ==
  ASSUME TableInv, chain' = chain, forks' = forks, mempool' \subseteq sent, sent' = sent,
         batch' = batch, click' = click, run' \in [Runs -> RunRecords], auto' \in BOOLEAN,
         checkpoint' \in BlockRefs, jobs' \subseteq Runs, PassTypes',
         \A r \in Runs : run'[r].status \in {"COMPLETED", "PARTIAL"} =>
           run[r].status \in {"COMPLETED", "PARTIAL"} \/ Unsettled(r) = {}
  PROVE  Tables'
<1>1. NodeShape' /\ SentShape'
  BY QuietTables DEF TableInv
<1>2. RowTypes'
  BY DEF TableInv, Tables, RowTypes
<1>3. LinkShape'
  BY LinkRuns DEF TableInv, Tables
<1>4. ReceiptBlocks'
  BY DEF TableInv, Tables, ReceiptBlocks, Height
<1> QED
  BY <1>1, <1>2, <1>3, <1>4 DEF Tables

\* Of the tables only one run changes.
LEMMA OneRun ==
  ASSUME TableInv, NEW r \in Runs, NEW row \in RunRecords, run' = [run EXCEPT ![r] = row],
         row.status \in {"COMPLETED", "PARTIAL"} => run[r].status = row.status \/ Unsettled(r) = {},
         UNCHANGED <<chainVars, click, batch, auto, checkpoint, sent>>, jobs' \subseteq Runs,
         PassTypes'
  PROVE  Tables'
<1>1. run \in [Runs -> RunRecords] /\ auto \in BOOLEAN /\ checkpoint \in BlockRefs
      /\ mempool \subseteq sent
  BY DEF TableInv, Tables, RowTypes, NodeShape
<1>2. run' \in [Runs -> RunRecords] /\ run'[r] = row /\ \A q \in Runs \ {r} : run'[q] = run[q]
  BY <1>1
<1>3. \A q \in Runs : run'[q].status \in {"COMPLETED", "PARTIAL"} =>
        run[q].status \in {"COMPLETED", "PARTIAL"} \/ Unsettled(q) = {}
  <2>1. ASSUME NEW q \in Runs, q # r
        PROVE  run'[q] = run[q]
    BY <1>2, <2>1
  <2> QED
    BY <1>2, <2>1
<1> QED
  BY <1>1, <1>2, <1>3, RunStep DEF chainVars

\* No table changes.
LEMMA NoRow ==
  ASSUME TableInv, UNCHANGED <<chain, forks, click, batch, run, auto, checkpoint, jobs, sent>>,
         mempool' \subseteq sent, PassTypes'
  PROVE  Tables'
  BY RunStep DEF TableInv, Tables, RowTypes

LEMMA ToggleTables ==
  ASSUME TableInv, ToggleAutomatic
  PROVE  Tables'
<1>1. PassTypes'
  BY SamePass DEF TableInv, Tables, JournalInv, chainVars, ToggleAutomatic
<1> QED
  BY <1>1, RunStep DEF TableInv, Tables, RowTypes, NodeShape, ToggleAutomatic, chainVars

\* A nonempty set of ids has a greatest one.
LEMMA Greatest ==
  ASSUME NEW N \in Nat, NEW S \in SUBSET (1..N), S # {}
  PROVE  \E x \in S : \A y \in S : x >= y
<1> DEFINE T == {N - r : r \in S}
           m == Min(T)
<1>2. T \subseteq Nat /\ T # {}
  <2>1. \A r \in S : r \in Nat /\ N - r \in Nat
    OBVIOUS
  <2> QED
    BY <2>1
<1> HIDE DEF T
<1>3. m \in T /\ \A t \in T : m <= t
  BY <1>2, MinMember
<1> HIDE DEF m
<1>4. PICK x \in S : m = N - x
  BY <1>3 DEF T
<1>5. ASSUME NEW y \in S
      PROVE  x >= y
  <2>1. x \in Nat /\ y \in Nat
    OBVIOUS
  <2>2. m <= N - y
    BY <1>3 DEF T
  <2> QED
    BY <1>4, <2>1, <2>2
<1> QED
  BY <1>5

LEMMA MaxRun ==
  ASSUME NEW S \in SUBSET Runs, S # {}
  PROVE  Max(S) \in S
<1>1. \E x \in S : \A y \in S : x >= y
  BY Greatest, ChargeAssumption DEF Runs
<1> QED
  BY <1>1 DEF Max

LEMMA MinRun ==
  ASSUME NEW S \in SUBSET Runs, S # {}
  PROVE  Min(S) \in S
<1>1. S \subseteq Nat
  BY DEF Runs
<1> QED
  BY <1>1, MinMember

LEMMA RequestTables ==
  ASSUME TableInv, NEW enqueued \in BOOLEAN, RequestManualRun(enqueued)
  PROVE  Tables'
<1> DEFINE active == {r \in Runs : run[r].trigger = "MANUAL"
                                  /\ run[r].status \in {"QUEUED", "RUNNING"}}
           r == IF active # {} THEN Max(active) ELSE Min(FreeRuns)
           failed == ~enqueued /\ (active = {} \/ run[r].status = "QUEUED")
           row == [trigger |-> "MANUAL",
                   status |-> IF active # {} THEN run[r].status ELSE "QUEUED",
                   error |-> IF failed THEN "other"
                             ELSE IF active # {} THEN run[r].error ELSE "none",
                   cutoff |-> IF active # {} THEN run[r].cutoff ELSE -1]
<1>1. r \in Runs
  <2>1. FreeRuns \in SUBSET Runs
    BY DEF FreeRuns
  <2> QED
    BY <2>1, MaxRun, MinRun DEF RequestManualRun
<1>2. run' = [run EXCEPT ![r] = row]
  BY DEF RequestManualRun
<1>3. active # {} => r \in active
  BY MaxRun
<1>4. jobs' \subseteq Runs
  BY <1>1 DEF RequestManualRun, TableInv, Tables, RowTypes
<1> HIDE DEF r, failed
<1>5. run[r] \in RunRecords
  BY <1>1 DEF TableInv, Tables, RowTypes
<1>6. row \in RunRecords /\ row.status \in {"QUEUED", "RUNNING"}
  BY <1>3, <1>5, ChargeAssumption DEF RunRecords, RecoverableRuns, Errors
<1> HIDE DEF row, active
<1>7. PassTypes'
  BY SamePass DEF TableInv, Tables, JournalInv, chainVars, RequestManualRun
<1>8. UNCHANGED <<chainVars, click, batch, auto, checkpoint, sent>>
  BY DEF RequestManualRun
<1> QED
  BY <1>1, <1>2, <1>4, <1>6, <1>7, <1>8, OneRun

\* refreshRun finishes a run only when nothing of it is left to settle.
LEMMA RefreshedRow ==
  ASSUME RowTypes, NEW r \in Runs, NEW failed \in Errors \cup {"waiting"}, NEW error \in Errors
  PROVE  /\ Refreshed(r, failed, error) \in RunRecords
         /\ Refreshed(r, failed, error).status \in {"COMPLETED", "PARTIAL"} => Unsettled(r) = {}
<1> DEFINE unpriced == \E c \in Awaiting(r) : click[c].status = "PRICE_PENDING"
           failure == IF failed = "none" /\ unpriced THEN "other" ELSE failed
           pending == \/ Awaiting(r) # {}
                      \/ Unsettled(r) # {}
                      \/ failure # "none"
           partial == \E b \in BatchesOf(r) : batch[b].status \in {"PARTIAL", "UNCOLLECTABLE"}
           status == IF pending THEN IF failure \in {"none", "waiting"} THEN "RUNNING"
                                     ELSE "BLOCKED"
                     ELSE IF partial THEN "PARTIAL" ELSE "COMPLETED"
           why == IF pending \/ partial
                  THEN IF failure # "none" THEN Stored(failure) ELSE error
                  ELSE "none"
<1>1. Refreshed(r, failed, error) = [run[r] EXCEPT !.status = status, !.error = why]
  BY DEF Refreshed
<1>2. failure \in Errors \cup {"waiting"}
  BY DEF Errors
<1> HIDE DEF failure
<1>3. status \in {"COMPLETED", "PARTIAL", "RUNNING", "BLOCKED"}
      /\ (status \in {"COMPLETED", "PARTIAL"} => Unsettled(r) = {})
  OBVIOUS
<1>4. why \in Errors
  BY <1>2 DEF Stored, Errors
<1>5. run[r] \in RunRecords
  BY DEF RowTypes
<1> HIDE DEF status, why
<1>6. /\ [run[r] EXCEPT !.status = status, !.error = why] \in RunRecords
      /\ [run[r] EXCEPT !.status = status, !.error = why].status = status
  BY <1>3, <1>4, <1>5 DEF RunRecords, RecoverableRuns
<1> QED
  BY <1>1, <1>3, <1>6

LEMMA BatchErrors ==
  ASSUME RowTypes, NEW r
  PROVE  BatchError(r) \subseteq Errors
<1>1. \A b \in BatchesOf(r) : batch[b].error \in Errors
  BY DEF RowTypes, BatchRecords, BatchesOf
<1> QED
  BY <1>1 DEF BatchError, Errors

LEMMA RefreshRunTables ==
  ASSUME TableInv, RefreshRun
  PROVE  Tables'
<1> DEFINE r == Min(pass.refresh)
           p == [pass EXCEPT !.refresh = @ \ {r}]
<1>1. r \in Runs
  BY MinRun DEF RefreshRun, TableInv, Tables, PassTypes, PassFields
<1>2. PICK error \in BatchError(r) : run' = [run EXCEPT ![r] = Refreshed(r, "none", error)]
  BY DEF RefreshRun
<1>3. RowTypes /\ error \in Errors
  BY <1>2, BatchErrors DEF TableInv, Tables
<1>4. /\ Refreshed(r, "none", error) \in RunRecords
      /\ Refreshed(r, "none", error).status \in {"COMPLETED", "PARTIAL"} => Unsettled(r) = {}
  BY <1>1, <1>3, RefreshedRow DEF Errors
<1>5. PassTypes'
  <2>1. PassFields(p) /\ p.todo = pass.todo
    BY DEF TableInv, Tables, PassTypes, PassFields, IdlePass
  <2>2. pass' = AfterRefresh(p) /\ chain' = chain /\ batch' = batch
    BY DEF RefreshRun, chainVars
  <2>3. \A b \in p.todo : batch'[b].status # "none"
    BY <2>1, <2>2 DEF TableInv, Tables, PassTypes
  <2> HIDE DEF p
  <2> QED
    BY <2>1, <2>2, <2>3, AfterRefreshTypes
<1> HIDE DEF r
<1>6. jobs' \subseteq Runs
  BY DEF RefreshRun, TableInv, Tables, RowTypes
<1> QED
  BY <1>1, <1>2, <1>4, <1>5, <1>6, OneRun DEF RefreshRun

LEMMA SaveCheckpointTables ==
  ASSUME TableInv, NEW ready \in BOOLEAN, SaveCheckpoint(ready)
  PROVE  Tables'
<1> DEFINE blocked == IF pass.blocked = "none" /\ ~ready THEN "other" ELSE pass.blocked
           outage == pass.outage \/ ~ready
           p == [pass EXCEPT !.auto = auto, !.todo = {}, !.blocked = blocked, !.outage = outage]
<1>1. NodeShape /\ PassFields(pass) /\ checkpoint \in BlockRefs
  BY DEF TableInv, Tables, PassTypes, RowTypes
<1>2. PassFinalized \in 0..Height /\ PassFinalized \in 0..MaxHeight
  BY <1>1, PassFinalizedBound
<1>3. [n |-> PassFinalized, hash |-> Hash(PassFinalized)] \in BlockRefs
  <2>1. BlockHash(PassFinalized) \in -1..MaxForks
    BY <1>1, <1>2, BlockRef DEF BlockRefs
  <2>2. pass.seen[PassFinalized] \in -1..MaxForks
    BY <1>1, <1>2 DEF PassFields
  <2> QED
    BY <1>2, <2>1, <2>2 DEF Hash, BlockRefs
<1>4. checkpoint' \in BlockRefs
  BY <1>1, <1>3 DEF SaveCheckpoint
<1>5. pass' = AfterRefresh(p) /\ chain' = chain /\ batch' = batch
  BY DEF SaveCheckpoint, chainVars
<1>6. blocked \in Errors
  BY <1>1 DEF PassFields, Errors
<1> HIDE DEF blocked, outage
<1>7. PassFields(p) /\ p.todo = {}
  BY <1>1, <1>6 DEF PassFields, IdlePass
<1> HIDE DEF p
<1>8. PassTypes'
  BY <1>5, <1>7, AfterRefreshTypes
<1>9. /\ run' \in [Runs -> RunRecords] /\ auto' \in BOOLEAN /\ jobs' \subseteq Runs
      /\ mempool' \subseteq sent
  BY DEF SaveCheckpoint, chainVars, TableInv, Tables, RowTypes, NodeShape
<1> QED
  BY <1>4, <1>8, <1>9, RunStep DEF SaveCheckpoint, chainVars

LEMMA PlanRunsTables ==
  ASSUME TableInv, PlanRuns
  PROVE  Tables'
<1> DEFINE new == Min(FreeRuns)
           row == [trigger |-> "AUTO", status |-> "QUEUED", error |-> "none", cutoff |-> -1]
<1>1. FreeRuns \in SUBSET Runs
  BY DEF FreeRuns
<1>2. PICK runs : pass' = NextRun(pass, runs) /\ runs \subseteq Runs
  BY <1>1, MinRun DEF PlanRuns
<1>3. /\ NodeShape /\ PassFields(pass) /\ chain' = chain /\ batch' = batch
      /\ \A b \in pass.todo : batch[b].status # "none"
  BY DEF TableInv, Tables, PassTypes, PlanRuns, chainVars
<1>4. PassTypes'
  BY <1>2, <1>3, NextRunTypes
<1>5. CASE run' = run
  BY <1>4, <1>5, NoRow DEF PlanRuns, chainVars, TableInv, Tables, NodeShape
<1>6. CASE FreeRuns # {} /\ run' = [run EXCEPT ![new] = row]
  <2>1. new \in Runs
    BY <1>1, <1>6, MinRun
  <2>2. row \in RunRecords /\ row.status = "QUEUED"
    BY ChargeAssumption DEF RunRecords, RecoverableRuns, Errors
  <2>3. jobs' \subseteq Runs
    BY DEF PlanRuns, TableInv, Tables, RowTypes
  <2> HIDE DEF new, row
  <2> QED
    BY <1>4, <1>6, <2>1, <2>2, <2>3, OneRun DEF PlanRuns
<1> QED
  BY <1>5, <1>6 DEF PlanRuns

LEMMA BlockRunTables ==
  ASSUME TableInv, BlockRun
  PROVE  Tables'
<1> DEFINE r == Min(pass.runs)
           row == [run[r] EXCEPT !.status = "BLOCKED", !.error = pass.blocked]
<1>1. r \in Runs
  BY MinRun DEF BlockRun, TableInv, Tables, PassTypes, PassFields
<1>2. run' = [run EXCEPT ![r] = row] /\ pass' = NextRun(pass, pass.runs \ {r})
  BY DEF BlockRun
<1> HIDE DEF r
<1>3. row \in RunRecords /\ row.status = "BLOCKED"
  BY <1>1 DEF TableInv, Tables, RowTypes, RunRecords, RecoverableRuns, PassTypes, PassFields
<1>4. /\ NodeShape /\ PassFields(pass) /\ chain' = chain /\ batch' = batch
      /\ \A b \in pass.todo : batch[b].status # "none"
      /\ pass.runs \ {r} \in SUBSET Runs
  BY DEF TableInv, Tables, PassTypes, PassFields, BlockRun, chainVars
<1>5. PassTypes'
  BY <1>2, <1>4, NextRunTypes
<1>6. jobs' \subseteq Runs
  BY DEF BlockRun, TableInv, Tables, RowTypes
<1> HIDE DEF row
<1> QED
  BY <1>1, <1>2, <1>3, <1>5, <1>6, OneRun DEF BlockRun

LEMMA FinishRunTables ==
  ASSUME TableInv, FinishRun
  PROVE  Tables'
<1> DEFINE r == pass.run
           p == [pass EXCEPT !.todo = {}, !.failure = "none",
                   !.blocked = IF pass.failure \in {"none", "waiting", "orphaned"} THEN @
                               ELSE pass.failure]
<1>1. r \in Runs /\ pass.failure \in Errors \cup {"waiting"}
  BY DEF FinishRun, TableInv, Tables, PassTypes, PassFields, JournalInv, PassShape
<1>2. PICK error \in BatchError(r) : run' = [run EXCEPT ![r] = Refreshed(r, pass.failure, error)]
  BY DEF FinishRun
<1>3. RowTypes /\ error \in Errors
  BY <1>2, BatchErrors DEF TableInv, Tables
<1>4. /\ Refreshed(r, pass.failure, error) \in RunRecords
      /\ Refreshed(r, pass.failure, error).status \in {"COMPLETED", "PARTIAL"} => Unsettled(r) = {}
  BY <1>1, <1>3, RefreshedRow
<1>5. PassTypes'
  <2>1. PassFields(p) /\ p.todo = {}
    BY DEF TableInv, Tables, PassTypes, PassFields, IdlePass, Errors
  <2>2. pass' = NextRun(p, pass.runs) /\ chain' = chain /\ batch' = batch
    BY DEF FinishRun, chainVars
  <2>3. NodeShape /\ pass.runs \in SUBSET Runs
    BY DEF TableInv, Tables, PassTypes, PassFields
  <2> HIDE DEF p
  <2> QED
    BY <2>1, <2>2, <2>3, NextRunTypes
<1>6. jobs' \subseteq Runs
  BY DEF FinishRun, TableInv, Tables, RowTypes
<1> QED
  BY <1>1, <1>2, <1>4, <1>5, <1>6, OneRun DEF FinishRun

LEMMA PrepareNextTables ==
  ASSUME TableInv, PrepareNext
  PROVE  Tables'
<1> DEFINE b == Min(pass.todo)
<1>1. PassFields(pass) /\ \A d \in pass.todo : batch[d].status # "none"
  BY DEF TableInv, Tables, PassTypes
<1>2. \/ pass' = [pass EXCEPT !.todo = @ \ {b}]
      \/ pass' = [pass EXCEPT !.pc = "finish", !.todo = {}]
      \/ pass' = [pass EXCEPT !.pc = "check", !.batch = b, !.todo = @ \ {b}]
  BY DEF PrepareNext
<1> HIDE DEF b
<1>3. /\ PassFields(pass') /\ pass'.pc \in {"prepare", "finish", "check"}
      /\ pass'.todo \subseteq pass.todo
  BY <1>1, <1>2 DEF PassFields, IdlePass, PrepareNext
<1>4. PassTypes'
  BY <1>1, <1>3 DEF PassTypes, PassFields, SignedSteps, Height, PrepareNext, chainVars, dbVars
<1> QED
  BY <1>4, NoRow DEF PrepareNext, chainVars, dbVars, TableInv, Tables, NodeShape

LEMMA ReceiptMissingTables ==
  ASSUME TableInv, ReceiptMissing
  PROVE  Tables'
<1>1. PassFields(pass) /\ batch[pass.batch].status \notin Terminal
  BY DEF TableInv, Tables, PassTypes, ReceiptMissing, SignedSteps
<1>2. /\ PassFields(pass') /\ pass'.pc = "unseen" /\ pass'.batch = pass.batch
      /\ pass'.todo = pass.todo
  BY <1>1 DEF PassFields, IdlePass, ReceiptMissing
<1>3. PassTypes'
  BY <1>1, <1>2 DEF TableInv, Tables, PassTypes, PassFields, SignedSteps, Height,
                    ReceiptMissing, chainVars, dbVars
<1> QED
  BY <1>3, NoRow DEF ReceiptMissing, chainVars, dbVars, TableInv, Tables, NodeShape

LEMMA BroadcastTables ==
  ASSUME TableInv, NEW accepted \in BOOLEAN, NEW reply, Broadcast(accepted, reply)
  PROVE  Tables'
<1> DEFINE tx == Transaction(pass.batch)
           fresh == tx.nonce >= AccountNonce /\ \A t \in mempool : t.nonce # tx.nonce
           outage == pass.outage \/ (fresh /\ ~accepted)
<1>1. PassFields(pass) /\ batch[pass.batch].status \notin Terminal
  BY DEF TableInv, Tables, PassTypes, Broadcast, SignedSteps
<1>2. pass.batch \in Batches /\ Signed(pass.batch)
  BY SignedBatch DEF TableInv, Broadcast, SignedSteps
<1>3. Transaction(pass.batch) \in sent /\ mempool \subseteq sent
  BY <1>2 DEF TableInv, Tables, SentShape, NodeShape
<1>4. /\ mempool' \subseteq sent
      /\ pass' = [pass EXCEPT !.pc = "record", !.reply = reply, !.outage = outage]
  BY <1>3 DEF Broadcast
<1> HIDE DEF outage
<1>5. /\ PassFields(pass') /\ pass'.pc = "record" /\ pass'.batch = pass.batch
      /\ pass'.todo = pass.todo
  BY <1>1, <1>4 DEF PassFields, IdlePass
<1>6. PassTypes'
  BY <1>1, <1>5 DEF TableInv, Tables, PassTypes, PassFields, SignedSteps, Height,
                    Broadcast, dbVars
<1> QED
  BY <1>4, <1>6, NoRow DEF Broadcast, dbVars

LEMMA CrashTables ==
  ASSUME TableInv, Crash
  PROVE  Tables'
<1>1. pass' = [IdlePass EXCEPT !.outage = TRUE]
  BY DEF Crash
<1>2. Height \in Nat /\ MaxForks \in Nat
  BY NodeFacts, ChainAssumption DEF TableInv, Tables
<1>3. /\ PassFields(pass') /\ pass'.pc = "idle" /\ pass'.todo = {} /\ pass'.seen = Unread
  BY <1>1, <1>2, ChargeAssumption DEF PassFields, IdlePass, Unread, Errors
<1>4. PassTypes'
  BY <1>3 DEF PassTypes, PassFields, SignedSteps, Height, Crash, chainVars
<1> QED
  BY <1>4, NoRow DEF Crash, chainVars, dbVars, TableInv, Tables, NodeShape

-----------------------------------------------------------------------------
(* Steps that write one batch, its clicks and its run. *)

\* The batch keeps what was signed.
SameCharge(b, row) ==
  /\ row.run = batch[b].run /\ row.nonce = batch[b].nonce /\ row.attempts = batch[b].attempts
  /\ row.stake = batch[b].stake /\ row.version = batch[b].version /\ row.due = batch[b].due

GoodReceipt(b, row) ==
  /\ \/ row.receipt = NoBlock \/ row.receipt = batch[b].receipt \/ row.receipt.n \in 0..Height
  /\ row.status \in Terminal =>
       row.receipt # NoBlock \/ (batch[b].status \in Terminal /\ row.receipt = batch[b].receipt)
  /\ row.status = "PREPARED" => ~Signed(b)

LEMMA BookStep ==
  ASSUME TableInv, UNCHANGED <<chainVars, auto, checkpoint, jobs, sent>>,
         NEW b \in Batches, batch[b].status # "none", NEW row \in BatchRecords,
         batch' = [batch EXCEPT ![b] = row], row.status # "none", SameCharge(b, row),
         GoodReceipt(b, row), click' \in [Clicks -> ClickRecords],
         \A c \in Clicks : click'[c].batch = click[c].batch,
         \A c \in Clicks : click[c].batch # b => click'[c].status = click[c].status,
         \A c \in Clicks : click[c].batch = b => click'[c].status \notin Unbatched,
         Follows(b)', run' \in [Runs -> RunRecords],
         \A r \in Runs : run'[r].status \in {"COMPLETED", "PARTIAL"} =>
           /\ run[r].status \in {"COMPLETED", "PARTIAL"}
           /\ batch[b].run = r /\ batch[b].status \in Terminal => row.status \in Terminal,
         PassTypes'
  PROVE  Tables'
<1>1. batch \in [Batches -> BatchRecords] /\ Tables /\ LinkShape /\ ReceiptBlocks
  BY DEF TableInv, Tables, RowTypes
<1>2. /\ batch' \in [Batches -> BatchRecords] /\ batch'[b] = row
      /\ \A d \in Batches \ {b} : batch'[d] = batch[d]
  BY <1>1
<1>3. NodeShape' /\ SentShape'
  <2>1. \A d \in Batches : /\ batch'[d].nonce = batch[d].nonce
                           /\ batch'[d].attempts = batch[d].attempts
                           /\ batch'[d].stake = batch[d].stake
                           /\ batch'[d].version = batch[d].version
                           /\ batch'[d].due = batch[d].due
    BY <1>2 DEF SameCharge
  <2>2. mempool' \subseteq sent
    BY <1>1 DEF Tables, NodeShape, chainVars
  <2> QED
    BY <1>1, <2>1, <2>2, QuietTables DEF chainVars
<1>4. RowTypes'
  BY <1>1, <1>2 DEF Tables, RowTypes
<1>5. LinkShape'
  <2>1. /\ batch'[b].status # "none" /\ batch'[b].run = batch[b].run
        /\ batch'[b].nonce = batch[b].nonce
    BY <1>2 DEF SameCharge
  <2>2. batch'[b].status = "PREPARED" => batch'[b].nonce = -1
    BY <1>2, <2>1 DEF GoodReceipt, Signed
  <2>3. batch'[b].status \in Terminal =>
          batch'[b].receipt # NoBlock \/ (batch[b].status \in Terminal
                                          /\ batch'[b].receipt = batch[b].receipt)
    BY <1>2 DEF GoodReceipt
  <2>4. \A r \in Runs : run'[r].status \in {"COMPLETED", "PARTIAL"} =>
          /\ run[r].status \in {"COMPLETED", "PARTIAL"}
          /\ batch[b].run = r /\ batch[b].status \in Terminal => batch'[b].status \in Terminal
    BY <1>2
  <2> QED
    BY <1>1, <1>2, <2>1, <2>2, <2>3, <2>4, LinkRow
<1>6. ReceiptBlocks'
  <2> SUFFICES ASSUME NEW d \in Batches, batch'[d].receipt # NoBlock
               PROVE  batch'[d].receipt.n \in 0..Height
    BY DEF ReceiptBlocks, Height, chainVars
  <2>1. CASE d = b
    BY <1>1, <1>2, <2>1 DEF GoodReceipt, ReceiptBlocks
  <2>2. CASE d # b
    BY <1>1, <1>2, <2>2 DEF ReceiptBlocks
  <2> QED
    BY <2>1, <2>2
<1> QED
  BY <1>3, <1>4, <1>5, <1>6 DEF Tables

\* Only columns change that the clicks do not follow.
LEMMA SameStatusStep ==
  ASSUME TableInv, UNCHANGED <<chainVars, auto, checkpoint, jobs, sent, click, run>>,
         NEW b \in Batches, NEW row \in BatchRecords, batch' = [batch EXCEPT ![b] = row],
         batch[b].status # "none", row.status = batch[b].status, SameCharge(b, row),
         row.charged = batch[b].charged, row.receipt = batch[b].receipt, PassTypes'
  PROVE  Tables'
<1>1. /\ batch \in [Batches -> BatchRecords] /\ LinkShape /\ run \in [Runs -> RunRecords]
      /\ click \in [Clicks -> ClickRecords]
  BY DEF TableInv, Tables, RowTypes
<1>2. batch'[b] = row
  BY <1>1
<1>3. Follows(b)
  BY <1>1, FollowsAll DEF LinkShape
<1>4. Follows(b)'
  <2>1. SameClicks(b)
    BY DEF SameClicks
  <2> QED
    BY <1>2, <1>3, <2>1, FollowsSame DEF SameCharge
<1>5. GoodReceipt(b, row)
  <2>1. batch[b].status = "PREPARED" => ~Signed(b)
    BY <1>1 DEF LinkShape
  <2> QED
    BY <2>1 DEF GoodReceipt
<1>6. \A c \in Clicks : click[c].batch = b => click[c].status \notin Unbatched
  BY <1>1 DEF LinkShape, Batches
<1> QED
  BY <1>1, <1>4, <1>5, <1>6, BookStep

\* An open batch stays open.
LEMMA OpenStep ==
  ASSUME TableInv, UNCHANGED <<chainVars, auto, checkpoint, jobs, sent, click, run>>,
         NEW b \in Batches, NEW row \in BatchRecords, batch' = [batch EXCEPT ![b] = row],
         batch[b].status \in Open, row.status \in Open, SameCharge(b, row),
         GoodReceipt(b, row), PassTypes'
  PROVE  Tables'
<1>1. /\ batch \in [Batches -> BatchRecords] /\ LinkShape /\ run \in [Runs -> RunRecords]
      /\ click \in [Clicks -> ClickRecords]
  BY DEF TableInv, Tables, RowTypes
<1>2. batch'[b] = row
  BY <1>1
<1>3. batch[b].status # "none" /\ batch[b].status \notin Terminal /\ row.status # "none"
  BY DEF Open, Preparable, InFlight, Terminal
<1>4. Follows(b)
  BY <1>1, FollowsAll DEF LinkShape
<1>5. Follows(b)'
  <2>1. SameClicks(b)
    BY DEF SameClicks
  <2>2. \A c \in Clicks : click[c].batch = b => click'[c].status = "RESERVED"
    BY <1>4 DEF Follows, ClicksOf, Open, Preparable
  <2> QED
    BY <1>2, <1>3, <1>4, <2>1, <2>2, FollowsOpen DEF SameCharge
<1>6. \A c \in Clicks : click[c].batch = b => click[c].status \notin Unbatched
  BY <1>1 DEF LinkShape, Batches
<1>7. \A r \in Runs : run'[r].status \in {"COMPLETED", "PARTIAL"} =>
        /\ run[r].status \in {"COMPLETED", "PARTIAL"}
        /\ batch[b].run = r /\ batch[b].status \in Terminal => row.status \in Terminal
  BY <1>3
<1> QED
  BY <1>1, <1>3, <1>5, <1>6, <1>7, BookStep

\* Settlement: the charged PRE pays the clicks in order while it lasts.
LEMMA SettleFollows ==
  ASSUME NodeShape, RowTypes, NEW b \in Batches, Follows(b), batch[b].status # "none",
         NEW n \in 0..Height, Settle(b, n)
  PROVE  Follows(b)'
<1> DEFINE mine == ClicksOf(b)
           charged == Block(n).charged
           Upto(c) == {d \in mine : d <= c}
           paid == {c \in mine : Due(Upto(c)) <= charged}
           short == batch[b].due > charged
           row == [batch[b] EXCEPT !.status = IF short THEN "PARTIAL" ELSE "CONFIRMED",
                     !.charged = charged,
                     !.receipt = [n |-> n, hash |-> BlockHash(n)],
                     !.error = IF short THEN "other" ELSE "none",
                     !.deferred = FALSE]
<1>1. charged \in Nat
  BY NodeFacts DEF BlockRecords
<1>2. mine # {} /\ batch[b].due = Due(mine) /\ mine \in SUBSET Clicks
  BY DEF Follows, ClicksOf
<1>3. /\ batch'[b].status = IF short THEN "PARTIAL" ELSE "CONFIRMED"
      /\ batch'[b].charged = charged /\ batch'[b].due = batch[b].due
  <2>1. batch' = [batch EXCEPT ![b] = row]
    BY DEF Settle
  <2>2. batch[b] \in BatchRecords /\ batch \in [Batches -> BatchRecords]
    BY DEF RowTypes
  <2>3. batch'[b] = row
    BY <2>1, <2>2
  <2> HIDE DEF short, charged
  <2> QED
    BY <2>2, <2>3 DEF BatchRecords
<1>4. ASSUME NEW c \in Clicks
      PROVE  /\ click'[c].batch = click[c].batch
             /\ c \in mine => click'[c].status = IF c \in paid THEN "SETTLED" ELSE "UNCOLLECTABLE"
  <2>1. click'[c] = IF c \notin mine THEN click[c]
                    ELSE [click[c] EXCEPT !.status =
                            IF Paid(b, c, charged) THEN "SETTLED" ELSE "UNCOLLECTABLE"]
    BY DEF Settle
  <2>2. Paid(b, c, charged) <=> Due(Upto(c)) <= charged
    BY DEF Paid
  <2>3. click[c] \in ClickRecords
    BY DEF RowTypes
  <2> HIDE DEF mine, charged
  <2> QED
    BY <2>1, <2>2, <2>3 DEF ClickRecords
<1>5. ClicksOf(b)' = mine
  BY <1>4 DEF ClicksOf
<1>6. {c \in ClicksOf(b)' : click'[c].status = "SETTLED"} = paid
  BY <1>2, <1>4, <1>5
<1> HIDE DEF mine, charged
<1>7. \A c \in Clicks : Upto(c) \in SUBSET mine /\ Upto(c) \in SUBSET Clicks
                        /\ Due(Upto(c)) \in Nat /\ Due(Upto(c)) <= Due(mine)
  <2>1. \A c \in Clicks : Upto(c) \in SUBSET mine /\ Upto(c) \in SUBSET Clicks
    BY <1>2
  <2> HIDE DEF Upto
  <2> QED
    BY <1>2, <2>1, DueRemove, DueMonotone
<1>8. Due(mine) \in Nat
  BY <1>2, DueRemove
<1>9. ASSUME NEW S \in SUBSET mine, S # {}
      PROVE  \E c \in S : S \subseteq Upto(c)
  <2>1. S \in SUBSET (1..NClicks) /\ NClicks \in Nat
    BY <1>2, <1>9, ChargeAssumption DEF Clicks
  <2>2. PICK c \in S : \A d \in S : c >= d
    BY <1>9, <2>1, Greatest
  <2>3. \A d \in S : d <= c
    BY <2>1, <2>2
  <2> QED
    BY <2>3
<1>10. Due(paid) <= charged
  <2>1. CASE paid = {}
    <3>1. Due({}) = 0
      BY DueStep
    <3> HIDE DEF paid
    <3> QED
      BY <1>1, <2>1, <3>1
  <2>2. CASE paid # {}
    <3>1. paid \in SUBSET mine
      OBVIOUS
    <3>2. PICK c \in paid : paid \subseteq Upto(c)
      BY <1>9, <2>2, <3>1
    <3>3. c \in Clicks /\ Due(Upto(c)) <= charged
      BY <1>2, <3>2
    <3>4. Due(paid) <= Due(Upto(c)) /\ Due(paid) \in Nat
      <4>1. Upto(c) \in SUBSET Clicks /\ paid \in SUBSET Upto(c) /\ paid \in SUBSET Clicks
        BY <1>2, <1>7, <3>2, <3>3
      <4> HIDE DEF Upto, paid
      <4> QED
        BY <4>1, DueMonotone, DueRemove
    <3> HIDE DEF paid, Upto
    <3> QED
      BY <1>1, <1>7, <3>3, <3>4
  <2> QED
    BY <2>1, <2>2
<1>11. paid = mine <=> ~short
  <2>1. ASSUME ~short
        PROVE  paid = mine
    <3>1. \A c \in mine : Due(Upto(c)) <= charged
      BY <1>1, <1>2, <1>7, <1>8, <2>1
    <3> QED
      BY <3>1
  <2>2. ASSUME paid = mine
        PROVE  ~short
    <3>1. PICK c \in mine : mine \subseteq Upto(c)
      BY <1>2, <1>9
    <3>2. Upto(c) = mine
      BY <3>1
    <3>3. Due(mine) <= charged
      BY <2>2, <3>2
    <3> QED
      BY <1>1, <1>2, <1>8, <3>3
  <2> QED
    BY <2>1, <2>2
<1> HIDE DEF paid, short
<1>12. batch'[b].status \in {"CONFIRMED", "PARTIAL"}
       /\ (batch'[b].status = "CONFIRMED" <=> paid = mine)
  BY <1>3, <1>11
<1>13. \A c \in mine : click'[c].status \in {"SETTLED", "UNCOLLECTABLE"}
  BY <1>2, <1>4
<1> QED
  BY <1>2, <1>3, <1>5, <1>6, <1>10, <1>12, <1>13 DEF Follows, InFlight

-----------------------------------------------------------------------------
(* The steps that reconcile a batch. *)

\* A batch under reconciliation.
LEMMA SignedOpen ==
  ASSUME TableInv, pass.pc \in SignedSteps
  PROVE  /\ pass.batch \in Batches /\ Signed(pass.batch) /\ batch[pass.batch].status \in Open
         /\ batch[pass.batch].run \in Runs /\ batch[pass.batch] \in BatchRecords
<1>1. pass.batch \in Batches /\ Signed(pass.batch)
  BY SignedBatch DEF TableInv
<1>2. batch[pass.batch].status \notin Terminal /\ batch[pass.batch].status # "none"
      /\ batch[pass.batch].run # 0
  BY <1>1 DEF TableInv, Tables, PassTypes, LinkShape
<1>3. batch[pass.batch] \in BatchRecords
  BY <1>1 DEF TableInv, Tables, RowTypes
<1> QED
  BY <1>1, <1>2, <1>3 DEF BatchRecords, Open, Preparable, InFlight

\* Rows are written, none disappears.
LEMMA OneRowKept ==
  ASSUME RowTypes, NEW b \in Batches, NEW row, batch' = [batch EXCEPT ![b] = row],
         row.status # "none"
  PROVE  Kept
  BY DEF Kept, RowTypes

LEMMA PassTodo ==
  ASSUME TableInv
  PROVE  pass.todo \subseteq Batches /\ \A b \in pass.todo : batch[b].status # "none"
  BY DEF TableInv, Tables, PassTypes, JournalInv, PassShape

\* The local state of a step that gives its batch back.
LEMMA BackTypes ==
  ASSUME TableInv, NEW p, PassFields(p), p.todo \subseteq pass.todo, p.run = pass.run, Kept,
         chain' = chain, p.run = 0 => batch[p.batch].run \in Runs,
         \/ \E w : pass' = Returned(p, w)
         \/ \E error : pass' = Threw(p, error) /\ (error \in Errors
                                                   \/ (p.run # 0 /\ error = "waiting"))
  PROVE  PassTypes'
<1>1. p.todo \subseteq Batches /\ \A b \in p.todo : batch[b].status # "none"
  BY PassTodo
<1> QED
  BY <1>1, ReturnedTypes, ThrewTypes

LEMMA ReconcilingTables ==
  ASSUME TableInv, UNCHANGED <<chainVars, auto, checkpoint, jobs, sent, run>>,
         pass.pc \in SignedSteps, NEW error, Reconciling(pass.batch, error),
         error \in {"none", "orphaned", "other", "waiting"}, NEW p, PassFields(p),
         p.todo = pass.todo, p.run = pass.run, p.batch = pass.batch,
         (\E w : pass' = Returned(p, w))
           \/ (pass' = Threw(p, error) /\ error \in Errors)
  PROVE  Tables'
<1> DEFINE b == pass.batch
           row == [batch[b] EXCEPT !.status = "RECONCILING", !.error = Stored(error)]
<1>1. /\ b \in Batches /\ Signed(b) /\ batch[b].status \in Open /\ batch[b].run \in Runs
      /\ batch[b] \in BatchRecords
  BY SignedOpen
<1>2. batch' = [batch EXCEPT ![b] = row] /\ click' = click
  BY DEF Reconciling
<1>3. Stored(error) \in Errors
  BY DEF Stored, Errors
<1>4. /\ row \in BatchRecords /\ row.status = "RECONCILING" /\ SameCharge(b, row)
      /\ row.receipt = batch[b].receipt
  BY <1>1, <1>3 DEF BatchRecords, SameCharge, InFlight
<1> HIDE DEF row, b
<1>5. row.status \in Open /\ GoodReceipt(b, row)
  BY <1>4 DEF Open, InFlight, GoodReceipt, Terminal
<1>6. Kept
  BY <1>1, <1>2, <1>4, OneRowKept DEF TableInv, Tables
<1>7. PassTypes'
  BY <1>1, <1>6, BackTypes DEF b, chainVars
<1> QED
  BY <1>1, <1>2, <1>4, <1>5, <1>7, OpenStep

LEMMA SettleTables ==
  ASSUME TableInv, UNCHANGED <<chainVars, auto, checkpoint, jobs, sent, run>>,
         pass.pc \in SignedSteps, NEW n \in 0..Height, Settle(pass.batch, n),
         NEW p, PassFields(p), p.todo = pass.todo, p.run = pass.run, p.batch = pass.batch,
         NEW w, pass' = Returned(p, w)
  PROVE  Tables'
<1>0. PICK b \in Batches : b = pass.batch
  BY SignedOpen
<1> DEFINE charged == Block(n).charged
           short == batch[b].due > charged
           proof == [n |-> n, hash |-> BlockHash(n)]
           row == [batch[b] EXCEPT !.status = IF short THEN "PARTIAL" ELSE "CONFIRMED",
                     !.charged = charged, !.receipt = proof,
                     !.error = IF short THEN "other" ELSE "none", !.deferred = FALSE]
<1>1. /\ b \in Batches /\ Signed(b) /\ batch[b].status \in Open /\ batch[b].run \in Runs
      /\ batch[b] \in BatchRecords
  BY <1>0, SignedOpen
<1>2. batch' = [batch EXCEPT ![b] = row]
  BY <1>0 DEF Settle
<1>3. NodeShape /\ RowTypes /\ LinkShape
  BY DEF TableInv, Tables
<1>4. charged \in Nat
  BY <1>3, NodeFacts DEF BlockRecords
<1>5. proof \in BlockRefs /\ proof # NoBlock /\ proof.n \in 0..Height
  BY <1>3, BlockRef
<1>6. batch[b].status # "none" /\ batch[b].status \notin Terminal
  BY <1>1 DEF Open, Preparable, InFlight, Terminal
<1>7. Follows(b)'
  BY <1>0, <1>1, <1>3, <1>6, FollowsAll, SettleFollows DEF LinkShape
<1>8. ASSUME NEW c \in Clicks
      PROVE  /\ click'[c] \in ClickRecords /\ click'[c].batch = click[c].batch
             /\ click[c].batch # b => click'[c].status = click[c].status
             /\ click[c].batch = b => click'[c].status \notin Unbatched
  <2>1. \/ c \notin ClicksOf(b) /\ click'[c] = click[c]
        \/ c \in ClicksOf(b) /\ \E s \in {"SETTLED", "UNCOLLECTABLE"} :
                                   click'[c] = [click[c] EXCEPT !.status = s]
    BY <1>0 DEF Settle
  <2>2. click[c] \in ClickRecords
    BY <1>3 DEF RowTypes
  <2> QED
    BY <2>1, <2>2 DEF ClickRecords, ClicksOf, Unbatched
<1>9. click' \in [Clicks -> ClickRecords]
  <2>1. click' = [c \in Clicks |-> click'[c]]
    BY <1>0 DEF Settle
  <2> QED
    BY <1>8, <2>1
<1> HIDE DEF proof, charged, short
<1>10. /\ row \in BatchRecords /\ row.status \in {"PARTIAL", "CONFIRMED"} /\ SameCharge(b, row)
       /\ row.receipt = proof
  BY <1>1, <1>4, <1>5 DEF BatchRecords, SameCharge, Errors, Terminal
<1> HIDE DEF row
<1>11. GoodReceipt(b, row) /\ row.status # "none"
  BY <1>5, <1>10 DEF GoodReceipt
<1>12. Kept
  BY <1>1, <1>2, <1>3, <1>11, OneRowKept
<1>13. PassTypes'
  BY <1>0, <1>1, <1>12, BackTypes DEF chainVars
<1>14. run' \in [Runs -> RunRecords] /\ run' = run
  BY <1>3 DEF RowTypes
<1>15. \A r \in Runs : run'[r].status \in {"COMPLETED", "PARTIAL"} =>
         /\ run[r].status \in {"COMPLETED", "PARTIAL"}
         /\ batch[b].run = r /\ batch[b].status \in Terminal => row.status \in Terminal
  BY <1>6, <1>14
<1> QED
  BY <1>1, <1>2, <1>6, <1>7, <1>8, <1>9, <1>10, <1>11, <1>13, <1>14, <1>15, BookStep

LEMMA SettleIndexedTables ==
  ASSUME TableInv, UNCHANGED <<chainVars, auto, checkpoint, jobs, sent, run>>,
         pass.pc \in SignedSteps, NEW indexed, SettleIndexed(pass.batch, indexed)
  PROVE  Tables'
<1> DEFINE b == pass.batch
           found == {n \in ChargedIn(b) : indexed /\ Confirmed(n)}
           p == [pass EXCEPT !.seen = Seen(found)]
<1>1. NodeShape /\ PassFields(pass)
  BY DEF TableInv, Tables, PassTypes
<1>2. found \in SUBSET (0..Height)
  BY <1>1, NodeFacts DEF ChargedIn
<1>3. PassFields(p) /\ p.todo = pass.todo /\ p.run = pass.run /\ p.batch = pass.batch
  BY <1>1, <1>2, SeenPass
<1>4. CASE found # {} /\ Settle(b, Min(found)) /\ pass' = Returned(p, FALSE)
  <2>1. Min(found) \in 0..Height
    <3>1. found \subseteq Nat
      BY <1>2
    <3> HIDE DEF found
    <3>2. Min(found) \in found
      BY <1>4, <3>1, MinMember
    <3> QED
      BY <1>2, <3>2
  <2> HIDE DEF found, p
  <2> QED
    BY <1>3, <1>4, <2>1, SettleTables
<1>5. CASE Reconciling(b, "other") /\ pass' = Returned(pass, TRUE)
  BY <1>1, <1>5, ReconcilingTables
<1> QED
  BY <1>4, <1>5 DEF SettleIndexed

LEMMA ReadReceiptTables ==
  ASSUME TableInv, NEW indexed, ReadReceipt(indexed)
  PROVE  Tables'
<1> DEFINE b == pass.batch
           mined == MinedIn(Transaction(b))
           n == Min(mined)
           final == pass.head >= n + Confirmations
           p == [pass EXCEPT !.seen = IF final THEN Seen({n}) ELSE @]
           proof == [n |-> n, hash |-> BlockHash(n)]
           row == [batch[b] EXCEPT !.status = "FAILED", !.receipt = proof,
                                   !.error = "other", !.deferred = TRUE]
<1>1. NodeShape /\ PassFields(pass) /\ RowTypes
  BY DEF TableInv, Tables, PassTypes
<1>2. pass.pc \in SignedSteps /\ UNCHANGED <<chainVars, auto, checkpoint, jobs, sent, run>>
  BY DEF ReadReceipt, SignedSteps
<1>3. n \in 0..Height
  <2>1. mined \in SUBSET (0..Height) /\ mined # {} /\ mined \subseteq Nat
    BY <1>1, NodeFacts DEF MinedIn, ReadReceipt
  <2> HIDE DEF mined
  <2>2. Min(mined) \in mined
    BY <2>1, MinMember
  <2> QED
    BY <2>1, <2>2
<1>4. PassFields(p) /\ p.todo = pass.todo /\ p.run = pass.run /\ p.batch = pass.batch
  <2> DEFINE seen == IF final THEN Seen({n}) ELSE pass.seen
  <2>1. seen \in [0..MaxHeight -> -1..MaxForks]
    BY <1>1, <1>3, SeenFields DEF PassFields
  <2>2. p = [pass EXCEPT !.seen = seen]
    OBVIOUS
  <2> HIDE DEF seen, p
  <2> QED
    BY <1>1, <2>1, <2>2, SeenPassFields
<1>5. \/ Reconciling(b, "waiting") /\ pass' = Returned(p, TRUE)
      \/ /\ \/ batch' = batch
            \/ batch' = [batch EXCEPT ![b] = row]
         /\ click' = click
         /\ pass' = Returned(p, FALSE)
      \/ SettleIndexed(b, indexed)
      \/ Settle(b, n) /\ pass' = Returned(p, FALSE)
  BY DEF ReadReceipt
<1>6. proof \in BlockRefs /\ proof # NoBlock /\ proof.n \in 0..Height
  BY <1>1, <1>3, BlockRef
<1>7. /\ b \in Batches /\ Signed(b) /\ batch[b].status \in Open /\ batch[b].run \in Runs
      /\ batch[b] \in BatchRecords
  BY <1>2, SignedOpen
<1> HIDE DEF p, n, proof
<1>8. CASE Reconciling(b, "waiting") /\ pass' = Returned(p, TRUE)
  BY <1>2, <1>4, <1>8, ReconcilingTables
<1>9. CASE SettleIndexed(b, indexed)
  BY <1>2, <1>9, SettleIndexedTables
<1>10. CASE Settle(b, n) /\ pass' = Returned(p, FALSE)
  BY <1>2, <1>3, <1>4, <1>10, SettleTables
<1>11. CASE batch' = batch /\ click' = click /\ pass' = Returned(p, FALSE)
  <2>1. Kept
    BY <1>11 DEF Kept
  <2>2. PassTypes'
    BY <1>2, <1>4, <1>7, <1>11, <2>1, BackTypes DEF chainVars
  <2> QED
    BY <1>2, <1>11, <2>2, NoRow DEF chainVars, TableInv, Tables, NodeShape
<1>12. CASE batch' = [batch EXCEPT ![b] = row] /\ click' = click /\ pass' = Returned(p, FALSE)
  <2>1. /\ row \in BatchRecords /\ row.status = "FAILED" /\ SameCharge(b, row)
        /\ row.receipt = proof
    BY <1>6, <1>7 DEF BatchRecords, SameCharge, Errors
  <2> HIDE DEF row, b
  <2>2. row.status \in Open /\ GoodReceipt(b, row)
    BY <1>6, <2>1 DEF Open, Preparable, GoodReceipt, Terminal
  <2>3. Kept
    BY <1>1, <1>7, <1>12, <2>1, OneRowKept
  <2>4. PassTypes'
    BY <1>2, <1>4, <1>7, <1>12, <2>3, BackTypes DEF chainVars, b
  <2> QED
    BY <1>2, <1>7, <1>12, <2>1, <2>2, <2>4, OpenStep
<1> QED
  BY <1>5, <1>8, <1>9, <1>10, <1>11, <1>12

LEMMA ResolveUnseenTables ==
  ASSUME TableInv, NEW indexed, ResolveUnseen(indexed)
  PROVE  Tables'
<1> DEFINE b == pass.batch
           p == [pass EXCEPT !.seen = Seen(EvidenceRead(ClicksOf(b)))]
<1>1. NodeShape /\ PassFields(pass) /\ RowTypes
  BY DEF TableInv, Tables, PassTypes
<1>2. pass.pc \in SignedSteps /\ UNCHANGED <<chainVars, auto, checkpoint, jobs, sent, run>>
  BY DEF ResolveUnseen, SignedSteps
<1>3. PassFields(p) /\ p.todo = pass.todo /\ p.run = pass.run /\ p.batch = pass.batch
  <2>1. EvidenceRead(ClicksOf(b)) \in SUBSET (0..Height)
    BY <1>1, PassFinalizedBound, NodeFacts DEF EvidenceRead
  <2> QED
    BY <1>1, <2>1, SeenPass
<1>4. \/ SettleIndexed(b, indexed)
      \/ Reconciling(b, "waiting") /\ pass' = Returned(pass, TRUE)
      \/ Reconciling(b, "other") /\ pass' = Threw(pass, "other")
      \/ Reconciling(b, "waiting") /\ pass' = Returned(p, TRUE)
      \/ Reconciling(b, "orphaned") /\ pass' = Threw(p, "orphaned")
      \/ pass' = [p EXCEPT !.pc = "broadcast"] /\ batch' = batch /\ click' = click
  <2>1. \A e \in CaptureErrors(b) : e \in {"orphaned", "waiting"}
    BY DEF CaptureErrors
  <2> QED
    BY <2>1 DEF ResolveUnseen
<1>5. /\ b \in Batches /\ Signed(b) /\ batch[b].status \in Open
  BY <1>2, SignedOpen
<1> HIDE DEF p
<1>6. CASE SettleIndexed(b, indexed)
  BY <1>2, <1>6, SettleIndexedTables
<1>7. CASE Reconciling(b, "waiting") /\ pass' = Returned(pass, TRUE)
  BY <1>1, <1>2, <1>7, ReconcilingTables
<1>8. CASE Reconciling(b, "other") /\ pass' = Threw(pass, "other")
  BY <1>1, <1>2, <1>8, ReconcilingTables DEF Errors
<1>9. CASE Reconciling(b, "waiting") /\ pass' = Returned(p, TRUE)
  BY <1>2, <1>3, <1>9, ReconcilingTables
<1>10. CASE Reconciling(b, "orphaned") /\ pass' = Threw(p, "orphaned")
  BY <1>2, <1>3, <1>10, ReconcilingTables DEF Errors
<1>11. CASE pass' = [p EXCEPT !.pc = "broadcast"] /\ batch' = batch /\ click' = click
  <2>1. /\ PassFields(pass') /\ pass'.pc = "broadcast" /\ pass'.batch = b
        /\ pass'.todo = pass.todo
    BY <1>3, <1>11 DEF PassFields, IdlePass
  <2>2. batch[b].status \notin Terminal
    BY <1>5 DEF Open, Preparable, InFlight, Terminal
  <2>3. PassTypes'
    BY <1>2, <1>11, <2>1, <2>2, PassTodo DEF PassTypes, PassFields, SignedSteps, Height, chainVars
  <2> QED
    BY <1>2, <1>11, <2>3, NoRow DEF chainVars, TableInv, Tables, NodeShape
<1> QED
  BY <1>4, <1>6, <1>7, <1>8, <1>9, <1>10, <1>11

LEMMA RecordBroadcastTables ==
  ASSUME TableInv, RecordBroadcast
  PROVE  Tables'
<1> DEFINE b == pass.batch
           p == [pass EXCEPT !.reply = "none"]
           status == IF pass.reply = "accepted" THEN "SUBMITTED" ELSE "RECONCILING"
           row == [batch[b] EXCEPT !.status = status, !.error = "other"]
<1>1. PassFields(pass) /\ RowTypes
  BY DEF TableInv, Tables, PassTypes
<1>2. /\ pass.pc \in SignedSteps
      /\ UNCHANGED <<chainVars, click, run, auto, checkpoint, jobs, sent>>
  BY DEF RecordBroadcast, SignedSteps
<1>3. PassFields(p) /\ p.todo = pass.todo /\ p.run = pass.run /\ p.batch = pass.batch
  BY <1>1 DEF PassFields, IdlePass
<1>4. /\ b \in Batches /\ Signed(b) /\ batch[b].status \in Open /\ batch[b].run \in Runs
      /\ batch[b] \in BatchRecords
  BY <1>2, SignedOpen
<1>5. /\ batch' = [batch EXCEPT ![b] = row]
      /\ pass' = Threw(p, "other") \/ pass' = Returned(p, TRUE)
  BY DEF RecordBroadcast
<1>6. status \in InFlight
  BY DEF InFlight
<1> HIDE DEF p, status
<1>7. /\ row \in BatchRecords /\ row.status \in InFlight /\ SameCharge(b, row)
      /\ row.receipt = batch[b].receipt
  BY <1>4, <1>6 DEF BatchRecords, SameCharge, Errors
<1> HIDE DEF row
<1>8. row.status \in Open /\ GoodReceipt(b, row) /\ row.status # "none"
  BY <1>7 DEF Open, GoodReceipt, Terminal, InFlight
<1>9. Kept
  BY <1>1, <1>4, <1>5, <1>8, OneRowKept
<1>10. PassTypes'
  BY <1>2, <1>3, <1>4, <1>5, <1>9, BackTypes DEF chainVars, Errors
<1> QED
  BY <1>2, <1>4, <1>5, <1>7, <1>8, <1>10, OpenStep

LEMMA ReachNextAttemptTables ==
  ASSUME TableInv, NEW b \in Batches, ReachNextAttempt(b)
  PROVE  Tables'
<1> DEFINE row == [batch[b] EXCEPT !.deferred = FALSE]
<1>1. batch[b] \in BatchRecords
  BY DEF TableInv, Tables, RowTypes
<1>2. /\ row \in BatchRecords /\ row.status = batch[b].status /\ SameCharge(b, row)
      /\ row.charged = batch[b].charged /\ row.receipt = batch[b].receipt
  BY <1>1 DEF BatchRecords, SameCharge
<1>3. batch' = [batch EXCEPT ![b] = row]
  BY DEF ReachNextAttempt
<1> HIDE DEF row
<1>4. \A d \in Batches : batch'[d].status = batch[d].status
  BY <1>2, <1>3 DEF TableInv, Tables, RowTypes
<1>5. PassTypes'
  BY <1>4, SamePass DEF TableInv, Tables, JournalInv, ReachNextAttempt, chainVars
<1>6. CASE batch[b].status # "none"
  BY <1>2, <1>3, <1>5, <1>6, SameStatusStep DEF ReachNextAttempt
<1>7. CASE batch[b].status = "none"
  <2>1. Follows(b) /\ LinkShape /\ RowTypes /\ NodeShape /\ ReceiptBlocks
    BY FollowsAll DEF TableInv, Tables, LinkShape
  <2>2. \A d \in Batches : /\ batch'[d].status = batch[d].status /\ batch'[d].run = batch[d].run
                           /\ batch'[d].nonce = batch[d].nonce
                           /\ batch'[d].attempts = batch[d].attempts
                           /\ batch'[d].stake = batch[d].stake
                           /\ batch'[d].version = batch[d].version
                           /\ batch'[d].due = batch[d].due
                           /\ batch'[d].charged = batch[d].charged
                           /\ batch'[d].receipt = batch[d].receipt
    <3>1. ASSUME NEW d \in Batches, d # b
          PROVE  batch'[d] = batch[d]
      BY <1>3, <2>1, <3>1 DEF RowTypes
    <3>2. batch'[b] = row
      BY <1>3, <2>1 DEF RowTypes
    <3> QED
      BY <1>2, <3>1, <3>2 DEF SameCharge
  <2>3. /\ chain' = chain /\ forks' = forks /\ mempool' = mempool /\ sent' = sent /\ click' = click
        /\ run' = run /\ auto' = auto /\ checkpoint' = checkpoint /\ jobs' = jobs
    BY DEF ReachNextAttempt, chainVars
  <2>4. NodeShape' /\ SentShape'
    BY <2>1, <2>2, <2>3, QuietTables DEF TableInv, NodeShape
  <2>5. RowTypes'
    BY <1>2, <1>3, <2>1, <2>3 DEF RowTypes
  <2>6. ReceiptBlocks'
    BY <2>1, <2>2, <2>3 DEF ReceiptBlocks, Height
  <2>7. LinkShape'
    <3>1. ASSUME NEW d \in Batches
          PROVE  Follows(d)'
      BY <2>1, <2>2, <2>3, FollowsAll, FollowsSame DEF LinkShape, SameClicks
    <3>2. ClicksFollowBatch'
      BY <3>1 DEF ClicksFollowBatch, Follows
    <3>3. ClickOrder'
      BY <2>1, <2>3 DEF LinkShape, ClickOrder, Claimed
    <3>4. BatchOrder'
      <4>1. {d \in Batches : batch'[d].status # "none"} = {d \in Batches : batch[d].status # "none"}
        BY <2>2
      <4> QED
        BY <2>1, <4>1 DEF LinkShape, BatchOrder
    <3>5. FinishedRunsAreSettled'
      BY <2>1, <2>2, <2>3 DEF LinkShape, FinishedRunsAreSettled, BatchesOf
    <3>6. \A d \in Batches : Signed(d)' = Signed(d)
      BY <2>2 DEF Signed
    <3> QED
      BY <2>1, <2>2, <2>3, <3>2, <3>3, <3>4, <3>5, <3>6 DEF LinkShape
  <2> QED
    BY <1>5, <2>4, <2>5, <2>6, <2>7 DEF Tables
<1> QED
  BY <1>6, <1>7

\* A receipt that is gone reopens its batch with its clicks and its run.
LEMMA ReopenedTables ==
  ASSUME TableInv, UNCHANGED <<chainVars, auto, checkpoint, jobs, sent>>,
         NEW b \in Batches, batch[b].status \in Terminal, Reopened(b), PassTypes'
  PROVE  Tables'
<1> DEFINE status == IF Signed(b) THEN "RECONCILING" ELSE "PREPARED"
           row == [batch[b] EXCEPT !.status = status, !.charged = -1, !.receipt = NoBlock,
                                   !.error = "other"]
           r == batch[b].run
           mine == ClicksOf(b)
<1>1. /\ batch \in [Batches -> BatchRecords] /\ click \in [Clicks -> ClickRecords]
      /\ run \in [Runs -> RunRecords] /\ LinkShape
  BY DEF TableInv, Tables, RowTypes
<1>2. batch' = [batch EXCEPT ![b] = row]
  BY DEF Reopened
<1>3. batch[b].status # "none" /\ r \in Runs
  <2>1. batch[b].status # "none"
    BY DEF Terminal
  <2>2. r # 0 /\ r \in Runs \cup {0}
    BY <1>1, <2>1 DEF LinkShape, BatchRecords
  <2> QED
    BY <2>1, <2>2
<1>4. NoBlock \in BlockRefs
  BY ChainAssumption DEF BlockRefs, NoBlock
<1>5. status \in Open /\ (status = "PREPARED" => ~Signed(b))
  BY DEF Open, Preparable, InFlight
<1>6. status \in {"PREPARED", "RECONCILING"}
  OBVIOUS
<1> HIDE DEF status
<1>7. /\ row \in BatchRecords /\ row.status = status /\ SameCharge(b, row)
      /\ row.receipt = NoBlock
  BY <1>1, <1>4, <1>6 DEF BatchRecords, SameCharge, Errors, InFlight
<1> HIDE DEF row
<1>8. GoodReceipt(b, row) /\ row.status # "none"
  BY <1>5, <1>6, <1>7 DEF GoodReceipt, Terminal
<1>9. /\ run' \in [Runs -> RunRecords]
      /\ \A q \in Runs : q # r => run'[q] = run[q]
      /\ run'[r].status = "RUNNING"
  <2> DEFINE new == [run[r] EXCEPT !.status = "RUNNING", !.error = "other"]
  <2>1. run' = [run EXCEPT ![r] = new]
    BY DEF Reopened
  <2>2. run[r] \in RunRecords
    BY <1>1, <1>3
  <2>3. new \in RunRecords /\ new.status = "RUNNING"
    BY <2>2 DEF RunRecords, RecoverableRuns, Errors
  <2> HIDE DEF new
  <2> QED
    BY <1>1, <1>3, <2>1, <2>3
<1>10. ASSUME NEW c \in Clicks
       PROVE  /\ click'[c] \in ClickRecords /\ click'[c].batch = click[c].batch
              /\ click[c].batch # b => click'[c].status = click[c].status
              /\ click[c].batch = b => click'[c].status = "RESERVED"
  <2>1. \/ c \notin mine /\ click'[c] = click[c]
        \/ c \in mine /\ click'[c] = [click[c] EXCEPT !.status = "RESERVED"]
    BY DEF Reopened
  <2>2. click[c] \in ClickRecords
    BY <1>1
  <2> QED
    BY <2>1, <2>2 DEF ClickRecords, ClicksOf
<1>11. click' \in [Clicks -> ClickRecords]
  <2>1. click' = [c \in Clicks |-> click'[c]]
    BY DEF Reopened
  <2> QED
    BY <1>10, <2>1
<1>12. Follows(b)'
  <2>1. batch'[b] = row
    BY <1>1, <1>2
  <2>2. SameClicks(b)
    BY <1>10 DEF SameClicks
  <2>3. Follows(b)
    BY <1>1, FollowsAll DEF LinkShape
  <2> QED
    BY <1>3, <1>5, <1>7, <1>10, <2>1, <2>2, <2>3, FollowsOpen DEF SameCharge
<1>13. \A q \in Runs : run'[q].status \in {"COMPLETED", "PARTIAL"} =>
         /\ run[q].status \in {"COMPLETED", "PARTIAL"}
         /\ batch[b].run = q /\ batch[b].status \in Terminal => row.status \in Terminal
  <2> SUFFICES ASSUME NEW q \in Runs, run'[q].status \in {"COMPLETED", "PARTIAL"}
               PROVE  run[q].status \in {"COMPLETED", "PARTIAL"} /\ batch[b].run # q
    OBVIOUS
  <2>1. q # r
    BY <1>9
  <2> QED
    BY <1>9, <2>1
<1>14. \A c \in Clicks : click[c].batch = b => click'[c].status \notin Unbatched
  BY <1>10 DEF Unbatched
<1> QED
  BY <1>2, <1>3, <1>7, <1>8, <1>9, <1>10, <1>11, <1>12, <1>13, <1>14, BookStep

LEMMA ReconcileNextTables ==
  ASSUME TableInv, ReconcileNext
  PROVE  Tables'
<1>0. PICK b \in Batches : b = Min(pass.todo) /\ b \in pass.todo
  <2>1. pass.todo \subseteq Batches /\ pass.todo # {}
    BY DEF ReconcileNext, TableInv, JournalInv, PassShape
  <2>2. pass.todo \subseteq Nat
    BY <2>1 DEF Batches
  <2> QED
    BY <2>1, <2>2, MinMember
<1> DEFINE closed == batch[b].status \in Terminal /\ batch[b].receipt # NoBlock
           seen == IF closed THEN Seen({batch[b].receipt.n}) ELSE pass.seen
           p == [pass EXCEPT !.todo = @ \ {b}, !.batch = b, !.seen = seen]
<1>1. /\ NodeShape /\ PassFields(pass) /\ RowTypes /\ ReceiptBlocks /\ LinkShape
      /\ batch[b].status # "none"
  BY <1>0 DEF TableInv, Tables, PassTypes
<1>2. batch[b].run \in Runs
  BY <1>1 DEF RowTypes, BatchRecords, LinkShape
<1>3. UNCHANGED <<chainVars, auto, checkpoint, jobs, sent>>
  BY DEF ReconcileNext
<1>4. \/ /\ pass' = Returned(p, FALSE) \/ (Signed(b) /\ pass' = [p EXCEPT !.pc = "receipt"])
         /\ closed /\ Reopened(b)
      \/ /\ UNCHANGED <<click, batch, run>>
         /\ pass' = Returned(p, FALSE)
      \/ /\ UNCHANGED <<click, batch, run>>
         /\ ~closed /\ Signed(b) /\ pass' = [p EXCEPT !.pc = "receipt"]
  BY <1>0 DEF ReconcileNext
<1>5. seen \in [0..MaxHeight -> -1..MaxForks]
  <2>1. CASE closed
    <3>1. {batch[b].receipt.n} \in SUBSET (0..Height)
      BY <1>1, <2>1 DEF ReceiptBlocks
    <3> QED
      BY <1>1, <2>1, <3>1, SeenFields
  <2>2. CASE ~closed
    BY <1>1, <2>2 DEF PassFields
  <2> QED
    BY <2>1, <2>2
<1> HIDE DEF seen
<1>6. /\ PassFields(p) /\ p.todo = pass.todo \ {b} /\ p.batch = b /\ p.run = pass.run
  BY <1>1, <1>5 DEF PassFields, IdlePass
<1> HIDE DEF p
<1>7. Kept
  <2>1. CASE batch' = batch
    BY <2>1 DEF Kept
  <2>2. CASE Reopened(b)
    <3> DEFINE row == [batch[b] EXCEPT !.status = IF Signed(b) THEN "RECONCILING" ELSE "PREPARED",
                         !.charged = -1, !.receipt = NoBlock, !.error = "other"]
    <3>1. batch' = [batch EXCEPT ![b] = row]
      BY <2>2 DEF Reopened
    <3>2. row.status # "none"
      BY <1>1 DEF RowTypes, BatchRecords
    <3> HIDE DEF row
    <3> QED
      BY <1>1, <3>1, <3>2, OneRowKept
  <2> QED
    BY <1>4, <2>1, <2>2
<1>8. PassTypes'
  <2>1. CASE pass' = Returned(p, FALSE)
    BY <1>2, <1>3, <1>6, <1>7, <2>1, BackTypes DEF chainVars
  <2>2. CASE Signed(b) /\ pass' = [p EXCEPT !.pc = "receipt"]
    <3>1. /\ PassFields(pass') /\ pass'.pc = "receipt" /\ pass'.batch = b
          /\ pass'.todo = pass.todo \ {b}
      BY <1>6, <2>2 DEF PassFields, IdlePass
    <3>2. batch'[b].status \notin Terminal
      <4>1. CASE batch' = batch /\ ~closed
        BY <1>1, <2>2, <4>1 DEF LinkShape
      <4>2. CASE Reopened(b)
        <5>1. batch'[b].status = "RECONCILING"
          BY <1>1, <2>2, <4>2 DEF Reopened, RowTypes, BatchRecords
        <5> QED
          BY <5>1 DEF Terminal
      <4>3. CASE pass' = Returned(p, FALSE)
        <5>1. pass'.pc \in {"reconcile", "finish", "prepare"}
          BY <1>6, <4>3 DEF Returned, PassFields, IdlePass
        <5> QED
          BY <3>1, <5>1
      <4> QED
        BY <1>4, <4>1, <4>2, <4>3
    <3>3. \A d \in pass'.todo : batch'[d].status # "none"
      BY <1>7, <3>1, PassTodo DEF Kept
    <3>4. chain' = chain
      BY <1>3 DEF chainVars
    <3> QED
      BY <3>1, <3>2, <3>3, <3>4 DEF PassTypes, PassFields, Height
  <2> QED
    BY <1>4, <2>1, <2>2
<1>9. CASE closed /\ Reopened(b)
  BY <1>3, <1>8, <1>9, ReopenedTables
<1>10. CASE UNCHANGED <<click, batch, run>>
  BY <1>3, <1>8, <1>10, NoRow DEF chainVars, TableInv, Tables, NodeShape
<1> QED
  BY <1>4, <1>9, <1>10

\* A failed call notes an error at most.
LEMMA ErrorTables ==
  ASSUME TableInv, UNCHANGED <<chainVars, auto, checkpoint, jobs, sent, click, run>>,
         NEW b \in Batches, batch[b].status # "none", NEW error \in Errors,
         batch' = [batch EXCEPT ![b].error = error], PassTypes'
  PROVE  Tables'
<1> DEFINE row == [batch[b] EXCEPT !.error = error]
<1>1. batch[b] \in BatchRecords
  BY DEF TableInv, Tables, RowTypes
<1>2. /\ row \in BatchRecords /\ row.status = batch[b].status /\ SameCharge(b, row)
      /\ row.charged = batch[b].charged /\ row.receipt = batch[b].receipt
  BY <1>1 DEF BatchRecords, SameCharge
<1>3. batch' = [batch EXCEPT ![b] = row]
  OBVIOUS
<1> HIDE DEF row
<1> QED
  BY <1>2, <1>3, SameStatusStep

LEMMA RpcFailsTables ==
  ASSUME TableInv, NEW noted \in BOOLEAN, RpcFails(noted)
  PROVE  Tables'
<1> DEFINE p == [pass EXCEPT !.outage = TRUE]
<1>1. UNCHANGED <<chainVars, click, run, auto, checkpoint, jobs, sent>>
  BY DEF RpcFails
<1>2. PassFields(pass) /\ RowTypes
  BY DEF TableInv, Tables, PassTypes
<1>3. PassFields(p) /\ p.todo = pass.todo /\ p.run = pass.run /\ p.batch = pass.batch
  BY <1>2 DEF PassFields, IdlePass
<1>4. pass' = Threw(p, "other")
  BY DEF RpcFails
<1> HIDE DEF p
<1>5. CASE noted
  <2>0. /\ pass.pc \in SignedSteps
        /\ batch' = [batch EXCEPT ![pass.batch] =
                       [@ EXCEPT !.status = "RECONCILING", !.error = "other"]]
    BY <1>5 DEF RpcFails, SignedSteps
  <2>1. PICK b \in Batches : /\ b = pass.batch /\ Signed(b) /\ batch[b].status \in Open
                             /\ batch[b] \in BatchRecords
    BY <2>0, SignedOpen
  <2> DEFINE row == [batch[b] EXCEPT !.status = "RECONCILING", !.error = "other"]
  <2>2. batch' = [batch EXCEPT ![b] = row]
    BY <2>0, <2>1
  <2>3. /\ row \in BatchRecords /\ row.status = "RECONCILING" /\ SameCharge(b, row)
        /\ row.receipt = batch[b].receipt
    BY <2>1 DEF BatchRecords, SameCharge, InFlight, Errors
  <2> HIDE DEF row
  <2>4. row.status \in Open /\ GoodReceipt(b, row)
    BY <2>3 DEF Open, InFlight, GoodReceipt, Terminal
  <2>5. Kept
    BY <1>2, <2>2, <2>3, OneRowKept
  <2>6. PassTypes'
    BY <1>1, <1>3, <1>4, <2>5, ThrewTypes, PassTodo DEF chainVars, Errors
  <2> QED
    BY <1>1, <2>1, <2>2, <2>3, <2>4, <2>6, OpenStep
<1>6. CASE ~noted
  <2>1. Kept /\ (batch' = batch \/ batch' = [batch EXCEPT ![pass.batch].error = "other"])
    BY <1>2, <1>6 DEF Kept, RpcFails, RowTypes, BatchRecords
  <2>2. PassTypes'
    BY <1>1, <1>3, <1>4, <2>1, ThrewTypes, PassTodo DEF chainVars, Errors
  <2>3. CASE batch' = batch
    BY <1>1, <2>2, <2>3, NoRow DEF chainVars, TableInv, Tables, NodeShape
  <2>4. CASE pass.batch \notin Batches
    <3>1. batch' = batch
      BY <1>2, <2>1, <2>4 DEF RowTypes
    <3> QED
      BY <2>3, <3>1
  <2>5. CASE pass.batch \in Batches /\ batch' = [batch EXCEPT ![pass.batch].error = "other"]
    <3>1. batch[pass.batch].status # "none"
      <4>1. CASE pass.pc \in SignedSteps
        BY <4>1, SignedOpen DEF Open, Preparable, InFlight
      <4>2. CASE pass.pc \in PrepareSteps
        BY <4>2, PreparedBatch DEF TableInv, Preparable
      <4>3. CASE pass.pc \notin SignedSteps \cup PrepareSteps
        BY <2>5, <4>3 DEF TableInv, JournalInv, PassShape, Batches
      <4> QED
        BY <4>1, <4>2, <4>3
    <3> QED
      BY <1>1, <2>2, <2>5, <3>1, ErrorTables DEF Errors
  <2> QED
    BY <2>1, <2>3, <2>4, <2>5
<1> QED
  BY <1>5, <1>6

-----------------------------------------------------------------------------
(* The steps that prepare a batch. *)

LEMMA PreparedOpen ==
  ASSUME TableInv, pass.pc \in PrepareSteps
  PROVE  /\ pass.batch \in Batches /\ batch[pass.batch].status \in Preparable /\ pass.run # 0
         /\ batch[pass.batch].status \in Open /\ batch[pass.batch].status # "none"
         /\ batch[pass.batch].status \notin Terminal /\ batch[pass.batch] \in BatchRecords
<1>1. pass.batch \in Batches /\ batch[pass.batch].status \in Preparable /\ pass.run # 0
  BY PreparedBatch DEF TableInv
<1>2. batch[pass.batch] \in BatchRecords
  BY <1>1 DEF TableInv, Tables, RowTypes
<1> QED
  BY <1>1, <1>2 DEF Open, Preparable, Terminal

LEMMA HashRef ==
  ASSUME NodeShape, PassFields(pass)
  PROVE  [n |-> PassFinalized, hash |-> Hash(PassFinalized)] \in BlockRefs
<1>1. PassFinalized \in 0..Height /\ PassFinalized \in 0..MaxHeight
  BY PassFinalizedBound
<1>2. BlockHash(PassFinalized) \in -1..MaxForks
  BY <1>1, BlockRef DEF BlockRefs
<1>3. pass.seen[PassFinalized] \in -1..MaxForks
  BY <1>1 DEF PassFields
<1> QED
  BY <1>1, <1>2, <1>3 DEF Hash, BlockRefs

LEMMA WriteOffTables ==
  ASSUME TableInv, UNCHANGED <<chainVars, auto, checkpoint, jobs, run>>,
         NEW b \in Batches, batch[b].status \in Preparable, WriteOff(b), PassTypes'
  PROVE  Tables'
<1> DEFINE proof == [n |-> PassFinalized, hash |-> Hash(PassFinalized)]
           row == [batch[b] EXCEPT !.status = "UNCOLLECTABLE", !.charged = 0, !.error = "other",
                                   !.receipt = proof]
           mine == ClicksOf(b)
<1>1. /\ batch \in [Batches -> BatchRecords] /\ click \in [Clicks -> ClickRecords]
      /\ run \in [Runs -> RunRecords] /\ LinkShape /\ NodeShape /\ PassFields(pass)
  BY DEF TableInv, Tables, RowTypes, PassTypes
<1>2. batch' = [batch EXCEPT ![b] = row] /\ sent' = sent
  BY DEF WriteOff
<1>3. batch[b].status # "none" /\ batch[b].status \notin Terminal
  BY DEF Preparable, Terminal
<1>4. proof \in BlockRefs /\ proof # NoBlock /\ proof.n \in 0..Height
  <2>1. PassFinalized \in 0..Height /\ PassFinalized # -1
    BY <1>1, PassFinalizedBound
  <2> QED
    BY <1>1, <2>1, HashRef DEF NoBlock
<1> HIDE DEF proof
<1>5. /\ row \in BatchRecords /\ row.status = "UNCOLLECTABLE" /\ SameCharge(b, row)
      /\ row.receipt = proof /\ row.charged = 0
  BY <1>1, <1>4 DEF BatchRecords, SameCharge, Errors, Terminal
<1> HIDE DEF row
<1>6. GoodReceipt(b, row) /\ row.status # "none"
  BY <1>4, <1>5 DEF GoodReceipt
<1>7. ASSUME NEW c \in Clicks
      PROVE  /\ click'[c] \in ClickRecords /\ click'[c].batch = click[c].batch
             /\ click[c].batch # b => click'[c].status = click[c].status
             /\ click[c].batch = b => click'[c].status = "UNCOLLECTABLE"
  <2>1. \/ c \notin mine /\ click'[c] = click[c]
        \/ c \in mine /\ click'[c] = [click[c] EXCEPT !.status = "UNCOLLECTABLE"]
    BY DEF WriteOff
  <2>2. click[c] \in ClickRecords
    BY <1>1
  <2> QED
    BY <2>1, <2>2 DEF ClickRecords, ClicksOf
<1>8. click' \in [Clicks -> ClickRecords]
  <2>1. click' = [c \in Clicks |-> click'[c]]
    BY DEF WriteOff
  <2> QED
    BY <1>7, <2>1
<1>9. Follows(b)'
  <2>1. batch'[b] = row
    BY <1>1, <1>2
  <2>2. ClicksOf(b)' = mine
    BY <1>7 DEF ClicksOf
  <2>3. mine # {} /\ batch[b].due = Due(mine)
    BY <1>1, <1>3, FollowsAll DEF LinkShape, Follows
  <2>4. \A c \in mine : click'[c].status = "UNCOLLECTABLE"
    BY <1>7 DEF ClicksOf
  <2>5. {c \in mine : click'[c].status = "SETTLED"} = {}
    BY <2>4
  <2>6. Due({}) = 0
    BY DueStep
  <2> HIDE DEF mine
  <2> QED
    BY <1>5, <2>1, <2>2, <2>3, <2>4, <2>5, <2>6 DEF Follows, SameCharge, InFlight
<1>10. \A r \in Runs : run'[r].status \in {"COMPLETED", "PARTIAL"} =>
         /\ run[r].status \in {"COMPLETED", "PARTIAL"}
         /\ batch[b].run = r /\ batch[b].status \in Terminal => row.status \in Terminal
  BY <1>3
<1>11. \A c \in Clicks : click[c].batch = b => click'[c].status \notin Unbatched
  BY <1>7 DEF Unbatched
<1> QED
  BY <1>1, <1>2, <1>3, <1>5, <1>6, <1>7, <1>8, <1>9, <1>10, <1>11, BookStep

LEMMA CheckBatchTables ==
  ASSUME TableInv, CheckBatch
  PROVE  Tables'
<1>0. PICK b \in Batches : /\ b = pass.batch /\ batch[b].status \in Preparable
                           /\ batch[b].status # "none" /\ pass.run # 0
  BY PreparedOpen DEF CheckBatch, PrepareSteps
<1> DEFINE p == [pass EXCEPT !.seen = Seen(EvidenceRead(ClicksOf(b)))]
<1>1. NodeShape /\ PassFields(pass) /\ RowTypes
  BY DEF TableInv, Tables, PassTypes
<1>2. UNCHANGED <<chainVars, run, auto, checkpoint, jobs>>
  BY DEF CheckBatch
<1>3. PassFields(p) /\ p.todo = pass.todo /\ p.run = pass.run /\ p.batch = pass.batch
  <2>1. EvidenceRead(ClicksOf(b)) \in SUBSET (0..Height)
    BY <1>1, PassFinalizedBound, NodeFacts DEF EvidenceRead
  <2> QED
    BY <1>1, <2>1, SeenPass
<1>4. \/ \E error \in {"orphaned", "waiting", "other"} : Failed(b, error) /\ pass' = Threw(p, error)
      \/ WriteOff(b) /\ pass' = Returned(p, FALSE)
      \/ pass' = [p EXCEPT !.pc = "sign"] /\ UNCHANGED <<click, batch, sent>>
  <2>1. CaptureErrors(b) \subseteq {"orphaned", "waiting"}
    BY DEF CaptureErrors
  <2> QED
    BY <1>0, <2>1 DEF CheckBatch
<1> HIDE DEF p
<1>5. ASSUME NEW error \in {"orphaned", "waiting", "other"}, Failed(b, error),
             pass' = Threw(p, error)
      PROVE  Tables'
  <2>1. batch' = [batch EXCEPT ![b].error = Stored(error)] /\ UNCHANGED <<click, sent>>
    BY <1>5 DEF Failed
  <2>2. Stored(error) \in Errors
    BY DEF Stored, Errors
  <2>3. Kept
    BY <1>0, <1>1, <2>1 DEF Kept, RowTypes, BatchRecords
  <2>4. PassTypes'
    BY <1>0, <1>2, <1>3, <1>5, <2>3, ThrewTypes, PassTodo DEF chainVars, Errors
  <2> QED
    BY <1>0, <1>2, <2>1, <2>2, <2>4, ErrorTables
<1>6. CASE WriteOff(b) /\ pass' = Returned(p, FALSE)
  <2>1. Kept
    <3> DEFINE row == [batch[b] EXCEPT !.status = "UNCOLLECTABLE", !.charged = 0,
                         !.error = "other",
                         !.receipt = [n |-> PassFinalized, hash |-> Hash(PassFinalized)]]
    <3>1. batch' = [batch EXCEPT ![b] = row]
      BY <1>6 DEF WriteOff
    <3>2. row.status # "none"
      BY <1>1 DEF RowTypes, BatchRecords
    <3> HIDE DEF row
    <3> QED
      BY <1>1, <3>1, <3>2, OneRowKept
  <2>2. PassTypes'
    BY <1>0, <1>2, <1>3, <1>6, <2>1, ReturnedTypes, PassTodo DEF chainVars
  <2> QED
    BY <1>0, <1>2, <1>6, <2>2, WriteOffTables
<1>7. CASE pass' = [p EXCEPT !.pc = "sign"] /\ UNCHANGED <<click, batch, sent>>
  <2>1. /\ PassFields(pass') /\ pass'.pc = "sign" /\ pass'.todo = pass.todo
    BY <1>3, <1>7 DEF PassFields, IdlePass
  <2>2. PassTypes'
    BY <1>2, <1>7, <2>1, PassTodo DEF PassTypes, PassFields, SignedSteps, Height, chainVars
  <2> QED
    BY <1>2, <1>7, <2>2, NoRow DEF chainVars, TableInv, Tables, NodeShape
<1> QED
  BY <1>4, <1>5, <1>6, <1>7

\* The journal holds the bytes before they are sent.
LEMMA SignedTables ==
  ASSUME TableInv, UNCHANGED <<chainVars, auto, checkpoint, jobs, click, run>>,
         NEW b \in Batches, batch[b].status \in Preparable, NEW pn \in Nat,
         \A d \in Batches : batch[d].nonce < pn,
         batch' = [batch EXCEPT ![b] =
            [@ EXCEPT !.status = "SIGNED", !.nonce = pn, !.attempts = batch[b].attempts + 1,
                      !.error = "none", !.deferred = FALSE, !.receipt = NoBlock]],
         sent' = sent \cup {[Transaction(b) EXCEPT !.nonce = pn,
                                                   !.attempt = batch[b].attempts + 1]},
         PassTypes'
  PROVE  Tables'
<1>0. PICK k \in Nat : k = batch[b].attempts + 1
  BY DEF TableInv, Tables, RowTypes, BatchRecords
<1> DEFINE row == [batch[b] EXCEPT !.status = "SIGNED", !.nonce = pn, !.attempts = k,
                     !.error = "none", !.deferred = FALSE, !.receipt = NoBlock]
           tx == [Transaction(b) EXCEPT !.nonce = pn, !.attempt = k]
<1>1. /\ batch \in [Batches -> BatchRecords] /\ RowTypes /\ LinkShape /\ NodeShape /\ SentShape
      /\ ReceiptBlocks
  BY DEF TableInv, Tables, RowTypes
<1>2. NoBlock \in BlockRefs
  BY ChainAssumption DEF BlockRefs, NoBlock
<1>3. batch[b] \in BatchRecords
  BY <1>1
<1>4. /\ row \in BatchRecords /\ row.status = "SIGNED" /\ row.nonce = pn
      /\ row.attempts = k /\ row.run = batch[b].run
      /\ row.stake = batch[b].stake /\ row.version = batch[b].version /\ row.due = batch[b].due
      /\ row.receipt = NoBlock
  <2> DEFINE Statuses == {"none", "PREPARED", "FAILED"} \cup InFlight \cup Terminal
  <2>1. "SIGNED" \in Statuses /\ "none" \in Errors
    BY DEF Errors, InFlight
  <2> HIDE DEF Statuses
  <2>2. batch[b] \in [status : Statuses,
         run : Runs \cup {0}, stake : Stakes, version : Nat, due : Nat,
         charged : Nat \cup {-1}, nonce : Nat \cup {-1}, attempts : Nat,
         receipt : BlockRefs, error : Errors, deferred : BOOLEAN]
    BY <1>3 DEF BatchRecords, Statuses
  <2>3. row \in [status : Statuses,
         run : Runs \cup {0}, stake : Stakes, version : Nat, due : Nat,
         charged : Nat \cup {-1}, nonce : Nat \cup {-1}, attempts : Nat,
         receipt : BlockRefs, error : Errors, deferred : BOOLEAN]
    BY <1>2, <2>1, <2>2
  <2>4. row \in BatchRecords
    BY <2>3 DEF BatchRecords, Statuses
  <2>5. /\ row.status = "SIGNED" /\ row.nonce = pn /\ row.attempts = k
        /\ row.run = batch[b].run /\ row.stake = batch[b].stake
        /\ row.version = batch[b].version /\ row.due = batch[b].due /\ row.receipt = NoBlock
    BY <2>2
  <2> QED
    BY <2>4, <2>5
<1>5. /\ tx = [charge |-> b, nonce |-> pn, attempt |-> k,
               stake |-> batch[b].stake, version |-> batch[b].version, amount |-> batch[b].due]
      /\ tx \in Transactions
  <2>1. tx = [charge |-> b, nonce |-> pn, attempt |-> k, stake |-> batch[b].stake,
              version |-> batch[b].version, amount |-> batch[b].due]
    <3> DEFINE T == [charge : Batches, nonce : Int, attempt : Nat, stake : Stakes,
                     version : Nat, amount : Nat]
               new == [charge |-> b, nonce |-> pn, attempt |-> k, stake |-> batch[b].stake,
                       version |-> batch[b].version, amount |-> batch[b].due]
    <3>1. Transaction(b) \in T /\ new \in T
      BY <1>3 DEF Transaction, BatchRecords
    <3>2. /\ tx \in T /\ tx.charge = b /\ tx.nonce = pn /\ tx.attempt = k
          /\ tx.stake = batch[b].stake /\ tx.version = batch[b].version
          /\ tx.amount = batch[b].due
      BY <3>1 DEF Transaction
    <3> HIDE DEF tx
    <3>3. new.charge = b /\ new.nonce = pn /\ new.attempt = k /\ new.stake = batch[b].stake
          /\ new.version = batch[b].version /\ new.amount = batch[b].due
      OBVIOUS
    <3> HIDE DEF new
    <3>4. tx = new
      BY <3>1, <3>2, <3>3
    <3> QED
      BY <3>4 DEF new
  <2>2. batch[b].stake \in Stakes /\ batch[b].version \in Nat /\ batch[b].due \in Nat
    BY <1>3 DEF BatchRecords
  <2> QED
    BY <2>1, <2>2 DEF Transactions
<1> HIDE DEF row, tx
<1>6. /\ batch' = [batch EXCEPT ![b] = row] /\ sent' = sent \cup {tx}
      /\ batch'[b] = row /\ \A d \in Batches \ {b} : batch'[d] = batch[d]
  BY <1>0, <1>1 DEF row, tx
<1>7. NodeShape'
  <2>1. sent \subseteq sent' /\ sent' \subseteq Transactions /\ mempool' \subseteq sent'
    BY <1>1, <1>5, <1>6 DEF NodeShape, chainVars
  <2> QED
    BY <1>1, <2>1, QuietNode DEF chainVars
<1>8. SentShape'
  <2>1. Transaction(b)' = tx
    BY <1>4, <1>5, <1>6 DEF Transaction
  <2>2. \A d \in Batches \ {b} : Transaction(d)' = Transaction(d) /\ Signed(d)' = Signed(d)
    BY <1>6 DEF Transaction, Signed
  <2>3. ASSUME NEW t \in sent
        PROVE  /\ t.nonce <= batch'[t.charge].nonce
               /\ t.nonce = batch'[t.charge].nonce => t = Transaction(t.charge)'
    <3>1. t.charge \in Batches /\ t.nonce \in Nat /\ t.nonce <= batch[t.charge].nonce
          /\ (t.nonce = batch[t.charge].nonce => t = Transaction(t.charge))
      BY <1>1 DEF NodeShape, Transactions, SentShape
    <3>2. CASE t.charge = b
      <4>1. batch[b].nonce < pn /\ batch[b].nonce \in Nat \cup {-1}
        BY <1>3 DEF BatchRecords
      <4> QED
        BY <1>4, <1>6, <3>1, <3>2, <4>1
    <3>3. CASE t.charge # b
      BY <1>6, <2>2, <3>1, <3>3
    <3> QED
      BY <3>2, <3>3
  <2>4. tx.charge = b /\ tx.nonce = pn
    BY <1>5
  <2>5. \A d \in Batches : Signed(d)' => Transaction(d)' \in sent'
    BY <1>1, <1>6, <2>1, <2>2 DEF SentShape
  <2>6. ASSUME NEW t \in sent'
        PROVE  /\ t.nonce <= batch'[t.charge].nonce
               /\ t.nonce = batch'[t.charge].nonce => t = Transaction(t.charge)'
    <3>1. CASE t \in sent
      BY <2>3, <3>1
    <3>2. CASE t = tx
      BY <1>4, <1>6, <2>1, <2>4, <3>2
    <3> QED
      BY <1>6, <3>1, <3>2
  <2> QED
    BY <2>5, <2>6 DEF SentShape
<1>9. RowTypes'
  BY <1>1, <1>4, <1>6 DEF RowTypes
<1>10. ReceiptBlocks'
  BY <1>1, <1>4, <1>6 DEF ReceiptBlocks, Height, chainVars
<1>11. batch[b].status # "none" /\ batch[b].status \notin Terminal /\ batch[b].status \in Open
  BY DEF Preparable, Terminal, Open
<1>12. Follows(b)'
  <2>1. Follows(b) /\ SameClicks(b)
    BY <1>1, FollowsAll DEF LinkShape, SameClicks
  <2>2. \A c \in Clicks : click[c].batch = b => click'[c].status = "RESERVED"
    BY <1>11, <2>1 DEF Follows, ClicksOf, Open, Preparable
  <2>3. row.status \in Open
    BY <1>4 DEF Open, InFlight
  <2> QED
    BY <1>4, <1>6, <1>11, <2>1, <2>2, <2>3, FollowsOpen
<1>13. LinkShape'
  <2>1. \A c \in Clicks : click[c].batch = b => click'[c].status \notin Unbatched
    BY <1>1 DEF LinkShape, Batches
  <2>2. \A r \in Runs : run'[r].status \in {"COMPLETED", "PARTIAL"} =>
          /\ run[r].status \in {"COMPLETED", "PARTIAL"}
          /\ batch[b].run = r /\ batch[b].status \in Terminal => batch'[b].status \in Terminal
    BY <1>11
  <2>3. batch'[b].status \notin Terminal
    BY <1>4, <1>6 DEF Terminal
  <2> QED
    BY <1>1, <1>4, <1>6, <1>11, <1>12, <2>1, <2>2, <2>3, LinkRow
<1> QED
  BY <1>7, <1>8, <1>9, <1>10, <1>13 DEF Tables

LEMMA SignBatchTables ==
  ASSUME TableInv, SignBatch
  PROVE  Tables'
<1>0. PICK b \in Batches : /\ b = pass.batch /\ batch[b].status \in Preparable
                           /\ batch[b].status # "none" /\ pass.run # 0
  BY PreparedOpen DEF SignBatch, PrepareSteps
<1>1. PICK pn \in Nat : pn = PendingNonce
  BY PendingNonceBound DEF TableInv, JournalInv
<1>2. NodeShape /\ PassFields(pass) /\ RowTypes
  BY DEF TableInv, Tables, PassTypes
<1>3. UNCHANGED <<chainVars, click, run, auto, checkpoint, jobs>>
  BY DEF SignBatch
<1>4. \/ \E error \in {"waiting", "other"} : Failed(b, error) /\ pass' = Threw(pass, error)
      \/ /\ AboveLatest
         /\ batch' = [batch EXCEPT ![b] =
              [@ EXCEPT !.status = "SIGNED", !.nonce = pn, !.attempts = batch[b].attempts + 1,
                        !.error = "none", !.deferred = FALSE, !.receipt = NoBlock]]
         /\ sent' = sent \cup {[Transaction(b) EXCEPT !.nonce = pn,
                                                     !.attempt = batch[b].attempts + 1]}
         /\ pass' = [pass EXCEPT !.pc = "receipt"]
  BY <1>0, <1>1 DEF SignBatch
<1>5. ASSUME NEW error \in {"waiting", "other"}, Failed(b, error), pass' = Threw(pass, error)
      PROVE  Tables'
  <2>1. batch' = [batch EXCEPT ![b].error = Stored(error)] /\ UNCHANGED <<click, sent>>
    BY <1>5 DEF Failed
  <2>2. Stored(error) \in Errors
    BY DEF Stored, Errors
  <2>3. Kept
    BY <1>0, <1>2, <2>1 DEF Kept, RowTypes, BatchRecords
  <2>4. PassTypes'
    BY <1>0, <1>2, <1>3, <1>5, <2>3, ThrewTypes, PassTodo DEF chainVars, Errors
  <2> QED
    BY <1>0, <1>3, <2>1, <2>2, <2>4, ErrorTables
<1>6. CASE /\ AboveLatest
           /\ batch' = [batch EXCEPT ![b] =
                [@ EXCEPT !.status = "SIGNED", !.nonce = pn, !.attempts = batch[b].attempts + 1,
                          !.error = "none", !.deferred = FALSE, !.receipt = NoBlock]]
           /\ sent' = sent \cup {[Transaction(b) EXCEPT !.nonce = pn,
                                                       !.attempt = batch[b].attempts + 1]}
           /\ pass' = [pass EXCEPT !.pc = "receipt"]
  <2>1. \A d \in Batches : batch[d].nonce < pn
    BY <1>1, <1>6 DEF AboveLatest
  <2>2. batch'[b].status = "SIGNED"
    BY <1>2, <1>6 DEF RowTypes, BatchRecords
  <2>3. \A d \in Batches \ {b} : batch'[d] = batch[d]
    BY <1>2, <1>6 DEF RowTypes
  <2>4. /\ PassFields(pass') /\ pass'.pc = "receipt" /\ pass'.batch = b
        /\ pass'.todo = pass.todo
    BY <1>0, <1>2, <1>6 DEF PassFields, IdlePass
  <2>5. \A d \in pass'.todo : batch'[d].status # "none"
    BY <2>2, <2>3, <2>4, PassTodo
  <2>6. PassTypes'
    BY <1>3, <2>2, <2>4, <2>5 DEF PassTypes, PassFields, Terminal, Height, chainVars
  <2> QED
    BY <1>0, <1>3, <1>6, <2>1, <2>6, SignedTables
<1> QED
  BY <1>4, <1>5, <1>6

-----------------------------------------------------------------------------
(* Reservation: every due group gets a number of its own. *)

\* A group consists of unbatched clicks of one position.
LEMMA ReservedGroups ==
  ASSUME RowTypes, NEW r, NEW g \in Reservable(r)
  PROVE  /\ g \in SUBSET Clicks /\ g # {} /\ Min(g) \in g /\ Min(g) \in Clicks
         /\ \A c \in g : /\ click[c].status = "PENDING" /\ click[c].batch = 0
                         /\ click[c].bid.n <= PassFinalized
                         /\ click[c].stake = click[Min(g)].stake
                         /\ click[c].version = click[Min(g)].version
         /\ \A h \in Reservable(r) : \A c \in g : c \in h => g = h
<1> DEFINE cutoff == IF run[r].cutoff = -1 THEN pass.cutoff ELSE run[r].cutoff
           cs == {c \in Outstanding : c <= cutoff /\ click[c].bid.n <= PassFinalized}
           Like(c) == {d \in cs : click[d].stake = click[c].stake
                                  /\ click[d].version = click[c].version}
<1>1. \A h \in Reservable(r) : \E c \in cs : h = Like(c)
  BY DEF Reservable, Groups
<1>2. \A c \in cs : /\ c \in Clicks /\ click[c].status = "PENDING" /\ click[c].batch = 0
                    /\ click[c].bid.n <= PassFinalized
  BY DEF Outstanding
<1> HIDE DEF cs
<1>3. PICK c0 \in cs : g = Like(c0)
  BY <1>1
<1>4. g \in SUBSET Clicks /\ c0 \in g /\ g \subseteq Nat
  BY <1>2, <1>3 DEF Clicks
<1>5. Min(g) \in g
  BY <1>4, MinMember
<1>6. \A c \in g : click[c].stake = click[c0].stake /\ click[c].version = click[c0].version
                   /\ c \in cs
  BY <1>3
<1>7. ASSUME NEW h \in Reservable(r), NEW c \in g, c \in h
      PROVE  g = h
  <2>1. PICK d0 \in cs : h = Like(d0)
    BY <1>1
  <2>2. click[c0].stake = click[d0].stake /\ click[c0].version = click[d0].version
    BY <1>3, <1>7, <2>1
  <2> QED
    BY <1>3, <2>1, <2>2
<1> QED
  BY <1>2, <1>4, <1>5, <1>6, <1>7

LEMMA Numbering ==
  ASSUME RowTypes, LinkShape, NEW r, NEW k \in 0..NClicks,
         {b \in Batches : batch[b].status # "none"} = 1..k
  PROVE  /\ Cardinality(Reservable(r)) \in Nat /\ k + Cardinality(Reservable(r)) <= NClicks
         /\ \A g \in Reservable(r) :
              NewBatch(g, r) \in (k + 1)..(k + Cardinality(Reservable(r)))
         /\ \A g, h \in Reservable(r) : NewBatch(g, r) = NewBatch(h, r) => g = h
         /\ \A n \in (k + 1)..(k + Cardinality(Reservable(r))) :
              \E g \in Reservable(r) : NewBatch(g, r) = n
<1> DEFINE gs == Reservable(r)
           K == Cardinality(gs)
           M == {Min(g) : g \in gs}
           H(g) == {h \in gs : Min(h) <= Min(g)}
<1>1. IsFiniteSet(Clicks) /\ Cardinality(Clicks) = NClicks /\ NClicks \in Nat
  <2>1. 1 \in Int /\ NClicks \in Int /\ NClicks \in Nat
    BY ChargeAssumption
  <2>2. IsFiniteSet(1..NClicks) /\ Cardinality(1..NClicks) = IF 1 > NClicks THEN 0 ELSE NClicks - 1 + 1
    BY <2>1, FS_Interval
  <2> QED
    BY <2>1, <2>2 DEF Clicks
<1>2. \A g \in gs : Min(g) \in g /\ Min(g) \in Clicks /\ click[Min(g)].batch = 0
  BY ReservedGroups
<1>3. \A g, h \in gs : Min(g) = Min(h) => g = h
  BY <1>2, ReservedGroups
<1> HIDE DEF gs
<1>4. IsFiniteSet(M) /\ M \in SUBSET Clicks
  <2>1. M \in SUBSET Clicks
    BY <1>2
  <2> HIDE DEF M
  <2> QED
    BY <1>1, <2>1, FS_Subset
<1>5. IsFiniteSet(gs) /\ K <= Cardinality(M) /\ K \in Nat /\ Cardinality(M) \in Nat
  <2> DEFINE f == [g \in gs |-> Min(g)]
  <2>1. f \in [gs -> M] /\ \A g, h \in gs : f[g] = f[h] => g = h
    BY <1>3
  <2> HIDE DEF f, M
  <2>2. f \in Injection(gs, M)
    BY <2>1 DEF Injection, IsInjective
  <2>3. IsFiniteSet(gs) /\ K <= Cardinality(M)
    BY <1>4, <2>2, FS_Injection
  <2> QED
    BY <1>4, <2>3, FS_CardinalityType
<1>6. k + K <= NClicks
  <2> DEFINE U == {c \in Clicks : click[c].batch # 0}
             own == [b \in 1..k |-> CHOOSE c \in Clicks : click[c].batch = b]
  <2>1. IsFiniteSet(U) /\ Cardinality(U) \in Nat
    BY <1>1, FS_Subset, FS_CardinalityType
  <2>2. k <= Cardinality(U)
    <3>1. ASSUME NEW b \in 1..k
          PROVE  own[b] \in Clicks /\ click[own[b]].batch = b
      <4>1. b \in Batches /\ batch[b].status # "none"
        OBVIOUS
      <4>2. ClicksOf(b) # {}
        BY <4>1, FollowsAll DEF LinkShape, Follows
      <4> QED
        BY <4>2 DEF ClicksOf
    <3>2. own \in [1..k -> U] /\ \A b, d \in 1..k : own[b] = own[d] => b = d
      BY <3>1
    <3> HIDE DEF own, U
    <3>3. own \in Injection(1..k, U)
      BY <3>2 DEF Injection, IsInjective
    <3>4. Cardinality(1..k) <= Cardinality(U)
      BY <2>1, <3>3, FS_Injection
    <3> QED
      BY <3>4, FS_Interval
  <2>3. M \cap U = {}
    BY <1>2
  <2>4. M \cup U \in SUBSET Clicks
    BY <1>4
  <2> HIDE DEF M, U
  <2>5. Cardinality(M \cup U) = Cardinality(M) + Cardinality(U)
    <3>1. Cardinality(M \cup U) = Cardinality(M) + Cardinality(U) - Cardinality(M \cap U)
      BY <1>4, <2>1, FS_Union
    <3>2. Cardinality(M \cap U) = 0
      BY <2>3, FS_EmptySet
    <3> QED
      BY <1>5, <2>1, <3>1, <3>2
  <2>6. Cardinality(M \cup U) <= NClicks
    BY <1>1, <2>4, FS_Subset
  <2> QED
    BY <1>1, <1>5, <2>1, <2>2, <2>5, <2>6
<1>7. \A g \in gs : /\ IsFiniteSet(H(g)) /\ Cardinality(H(g)) \in 1..K /\ H(g) \in SUBSET gs
  <2> SUFFICES ASSUME NEW g \in gs
               PROVE  IsFiniteSet(H(g)) /\ Cardinality(H(g)) \in 1..K /\ H(g) \in SUBSET gs
    OBVIOUS
  <2>1. H(g) \in SUBSET gs /\ g \in H(g)
    BY <1>2 DEF Clicks
  <2> HIDE DEF H
  <2>2. IsFiniteSet(H(g)) /\ Cardinality(H(g)) <= K
    BY <1>5, <2>1, FS_Subset
  <2>3. Cardinality(H(g)) \in Nat /\ Cardinality(H(g)) # 0
    BY <2>1, <2>2, FS_CardinalityType, FS_EmptySet
  <2> QED
    BY <1>5, <2>1, <2>2, <2>3
<1>8. \A g \in gs : NewBatch(g, r) = k + Cardinality(H(g))
  <2>1. Cardinality({b \in Batches : batch[b].status # "none"}) = k
    <3>1. 1 \in Int /\ k \in Int /\ k \in Nat
      BY <1>1
    <3>2. Cardinality(1..k) = IF 1 > k THEN 0 ELSE k - 1 + 1
      BY <3>1, FS_Interval
    <3>3. Cardinality(1..k) = k
      BY <3>1, <3>2
    <3> QED
      BY <3>3
  <2> QED
    BY <2>1 DEF NewBatch, gs
<1>9. ASSUME NEW g \in gs, NEW h \in gs, Min(g) < Min(h)
      PROVE  Cardinality(H(g)) < Cardinality(H(h))
  <2>1. H(g) \in SUBSET (H(h) \ {h}) /\ h \in H(h)
    BY <1>2, <1>9 DEF Clicks
  <2>2. IsFiniteSet(H(h)) /\ Cardinality(H(h)) \in Nat /\ Cardinality(H(g)) \in Nat
    BY <1>5, <1>7
  <2> HIDE DEF H
  <2>3. IsFiniteSet(H(h) \ {h}) /\ Cardinality(H(h) \ {h}) = Cardinality(H(h)) - 1
    BY <2>1, <2>2, FS_RemoveElement
  <2>4. Cardinality(H(g)) <= Cardinality(H(h) \ {h})
    BY <2>1, <2>3, FS_Subset
  <2> QED
    BY <2>2, <2>3, <2>4
<1> HIDE DEF H
<1>10. ASSUME NEW g \in gs, NEW h \in gs, NewBatch(g, r) = NewBatch(h, r)
       PROVE  g = h
  <2>1. Cardinality(H(g)) = Cardinality(H(h))
    BY <1>5, <1>7, <1>8, <1>10
  <2>2. Min(g) \in Nat /\ Min(h) \in Nat
    BY <1>2 DEF Clicks
  <2>3. ~(Min(g) < Min(h)) /\ ~(Min(h) < Min(g))
    BY <1>5, <1>7, <1>9, <2>1
  <2> QED
    BY <1>3, <2>2, <2>3
<1>11. \A g \in gs : NewBatch(g, r) \in (k + 1)..(k + K)
  BY <1>5, <1>7, <1>8
<1>12. ASSUME NEW n \in (k + 1)..(k + K)
       PROVE  \E g \in gs : NewBatch(g, r) = n
  <2> DEFINE f == [g \in gs |-> NewBatch(g, r)]
             T == (k + 1)..(k + K)
  <2>1. f \in [gs -> T] /\ \A g, h \in gs : f[g] = f[h] => g = h
    BY <1>10, <1>11
  <2>2. IsFiniteSet(T) /\ Cardinality(T) = K
    BY <1>5, FS_Interval
  <2> HIDE DEF f, T
  <2>3. f \in Injection(gs, T)
    BY <2>1 DEF Injection, IsInjective
  <2>4. f \in Surjection(gs, T)
    BY <2>2, <2>3, FS_Injection
  <2>5. \E g \in gs : f[g] = n
    BY <1>12, <2>4 DEF Surjection, T
  <2> QED
    BY <2>5 DEF f
<1> QED
  BY <1>5, <1>6, <1>10, <1>11, <1>12 DEF gs


\* The row a group becomes, a row taken over, and what the clicks of a group become.
Fresh(b, g, r) ==
  [batch[b] EXCEPT
     !.run = r, !.stake = click[Min(g)].stake, !.version = click[Min(g)].version, !.due = Due(g),
     !.status = IF Due(g) = 0 THEN "CONFIRMED" ELSE "PREPARED",
     !.charged = IF Due(g) = 0 THEN 0 ELSE -1]
MovedTo(b, r) == [batch[b] EXCEPT !.run = r]
Bound(c, g, r) ==
  [click[c] EXCEPT !.batch = NewBatch(g, r),
                   !.status = IF Due(g) = 0 THEN "SETTLED" ELSE "RESERVED"]

LEMMA ReservedRows ==
  ASSUME RowTypes, LinkShape, ReserveRun, NEW r, r = Min(pass.runs), NEW k \in 0..NClicks,
         {b \in Batches : batch[b].status # "none"} = 1..k
  PROVE  /\ \A b \in Batches :
              \/ batch'[b] = batch[b]
              \/ /\ batch[b].status \in Preparable /\ batch[b].run \in Takes(r)
                 /\ batch'[b] = MovedTo(b, r)
              \/ \E g \in Reservable(r) : NewBatch(g, r) = b /\ batch[b].status = "none"
                                          /\ batch'[b] = Fresh(b, g, r)
         /\ \A g \in Reservable(r) : /\ NewBatch(g, r) \in Batches
                                     /\ batch[NewBatch(g, r)].status = "none"
                                     /\ batch'[NewBatch(g, r)] = Fresh(NewBatch(g, r), g, r)
         /\ \A c \in Clicks :
              \/ click'[c] = click[c] /\ \A g \in Reservable(r) : c \notin g
              \/ \E g \in Reservable(r) : c \in g /\ click'[c] = Bound(c, g, r)
<1> DEFINE gs == Reservable(r)
           K == Cardinality(gs)
           taken == {b \in Batches : batch[b].run \in Takes(r)
                                    /\ batch[b].status \in Preparable}
<1>1. K \in Nat /\ k \in Nat /\ NClicks \in Nat /\ k + K <= NClicks
  BY Numbering, ChargeAssumption
<1>2. \A g \in gs : NewBatch(g, r) \in (k + 1)..(k + K)
  BY Numbering
<1>3. \A g, h \in gs : NewBatch(g, r) = NewBatch(h, r) => g = h
  BY Numbering
<1>4. \A g \in gs : NewBatch(g, r) \in 1..NClicks /\ NewBatch(g, r) \notin 1..k
  BY <1>1, <1>2
<1>5. \A g \in gs : NewBatch(g, r) \in Batches /\ batch[NewBatch(g, r)].status = "none"
  BY <1>4 DEF Batches
<1>6. \A b \in Batches : \A g \in gs : NewBatch(g, r) = b =>
        (CHOOSE h \in gs : NewBatch(h, r) = b) = g
  BY <1>3
<1>7. \A c \in Clicks : \A g \in gs : c \in g => (CHOOSE h \in gs : c \in h) = g
  BY ReservedGroups
<1>8. batch' = [b \in Batches |->
                 IF b \in taken THEN MovedTo(b, r)
                 ELSE IF batch[b].status = "none" /\ \E g \in gs : NewBatch(g, r) = b
                 THEN Fresh(b, CHOOSE g \in gs : NewBatch(g, r) = b, r) ELSE batch[b]]
  BY DEF ReserveRun, Fresh, MovedTo
<1>9. click' = [c \in Clicks |-> IF \E g \in gs : c \in g
                                 THEN Bound(c, CHOOSE g \in gs : c \in g, r) ELSE click[c]]
  BY DEF ReserveRun, Bound
<1>10. "none" \notin Preparable
  BY DEF Preparable
<1> HIDE DEF gs
<1>11. \A g \in gs : batch'[NewBatch(g, r)] = Fresh(NewBatch(g, r), g, r)
  BY <1>5, <1>6, <1>8, <1>10
<1>12. \A b \in Batches :
         \/ batch'[b] = batch[b]
         \/ b \in taken /\ batch'[b] = MovedTo(b, r)
         \/ \E g \in gs : NewBatch(g, r) = b /\ batch[b].status = "none"
                          /\ batch'[b] = Fresh(b, g, r)
  BY <1>6, <1>8
<1>13. \A c \in Clicks :
         \/ click'[c] = click[c] /\ \A g \in gs : c \notin g
         \/ \E g \in gs : c \in g /\ click'[c] = Bound(c, g, r)
  BY <1>7, <1>9
<1> QED
  BY <1>5, <1>11, <1>12, <1>13 DEF gs

LEMMA FreshRow ==
  ASSUME RowTypes, NEW b \in Batches, NEW r \in Runs, NEW g \in SUBSET Clicks, Min(g) \in Clicks
  PROVE  /\ Fresh(b, g, r) \in BatchRecords
         /\ Fresh(b, g, r).run = r /\ Fresh(b, g, r).due = Due(g)
         /\ Fresh(b, g, r).stake = click[Min(g)].stake
         /\ Fresh(b, g, r).version = click[Min(g)].version
         /\ Fresh(b, g, r).status = IF Due(g) = 0 THEN "CONFIRMED" ELSE "PREPARED"
         /\ Fresh(b, g, r).charged = IF Due(g) = 0 THEN 0 ELSE -1
         /\ \A f \in {"nonce", "attempts", "receipt", "error", "deferred"} :
              Fresh(b, g, r)[f] = batch[b][f]
<1> DEFINE row == Fresh(b, g, r)
           amount == Due(g)
           c == click[Min(g)]
           statuses == {"none", "PREPARED", "FAILED"} \cup InFlight \cup Terminal
<1>1. amount \in Nat /\ c \in ClickRecords /\ batch[b] \in BatchRecords
  BY DueRemove DEF RowTypes
<1>2. c.stake \in Stakes /\ c.version \in Nat
  BY <1>1 DEF ClickRecords
<1>3. "CONFIRMED" \in statuses /\ "PREPARED" \in statuses
  BY DEF Terminal
<1>4. row = [batch[b] EXCEPT
               !.run = r, !.stake = c.stake, !.version = c.version, !.due = amount,
               !.status = IF amount = 0 THEN "CONFIRMED" ELSE "PREPARED",
               !.charged = IF amount = 0 THEN 0 ELSE -1]
  BY DEF Fresh
<1> HIDE DEF row, amount, c, statuses
<1>5. batch[b] \in [status : statuses,
           run : Runs \cup {0}, stake : Stakes, version : Nat, due : Nat,
           charged : Nat \cup {-1}, nonce : Nat \cup {-1}, attempts : Nat,
           receipt : BlockRefs, error : Errors, deferred : BOOLEAN]
  BY <1>1 DEF statuses, BatchRecords
<1>6. row \in [status : statuses,
           run : Runs \cup {0}, stake : Stakes, version : Nat, due : Nat,
           charged : Nat \cup {-1}, nonce : Nat \cup {-1}, attempts : Nat,
           receipt : BlockRefs, error : Errors, deferred : BOOLEAN]
  BY <1>1, <1>2, <1>3, <1>4, <1>5
<1>7. /\ row.run = r /\ row.due = amount /\ row.stake = c.stake /\ row.version = c.version
      /\ row.status = IF amount = 0 THEN "CONFIRMED" ELSE "PREPARED"
      /\ row.charged = IF amount = 0 THEN 0 ELSE -1
  BY <1>4, <1>5
<1>8. /\ row.nonce = batch[b].nonce /\ row.attempts = batch[b].attempts
      /\ row.receipt = batch[b].receipt /\ row.error = batch[b].error
      /\ row.deferred = batch[b].deferred
  BY <1>4, <1>5
<1>9. row \in BatchRecords
  BY <1>6 DEF statuses, BatchRecords
<1> QED
  BY <1>7, <1>8, <1>9 DEF row, amount, c

LEMMA BoundClick ==
  ASSUME RowTypes, NEW c \in Clicks, NEW g, NEW r, NewBatch(g, r) \in Batches
  PROVE  /\ Bound(c, g, r) \in ClickRecords /\ Bound(c, g, r).batch = NewBatch(g, r)
         /\ Bound(c, g, r).status = IF Due(g) = 0 THEN "SETTLED" ELSE "RESERVED"
         /\ \A f \in {"stake", "version", "bid", "price", "aged"} :
              Bound(c, g, r)[f] = click[c][f]
<1> DEFINE statuses == {"none", "CAPTURING", "PRICE_PENDING", "PENDING", "RESERVED", "SETTLED",
                        "UNCOLLECTABLE", "UNBILLED"}
           status == IF Due(g) = 0 THEN "SETTLED" ELSE "RESERVED"
<1>1. status \in statuses
  OBVIOUS
<1> HIDE DEF statuses, status
<1>2. click[c] \in [status : statuses, stake : Stakes, version : Nat, bid : BlockRefs,
                    price : BlockRefs, batch : Batches \cup {0}, aged : BOOLEAN]
  BY DEF RowTypes, ClickRecords, statuses
<1>3. Bound(c, g, r) = [click[c] EXCEPT !.batch = NewBatch(g, r), !.status = status]
  BY DEF Bound, status
<1>4. /\ Bound(c, g, r) \in [status : statuses, stake : Stakes, version : Nat, bid : BlockRefs,
                             price : BlockRefs, batch : Batches \cup {0}, aged : BOOLEAN]
      /\ Bound(c, g, r).batch = NewBatch(g, r) /\ Bound(c, g, r).status = status
      /\ \A f \in {"stake", "version", "bid", "price", "aged"} :
           Bound(c, g, r)[f] = click[c][f]
  BY <1>1, <1>2, <1>3
<1> QED
  BY <1>4 DEF statuses, ClickRecords, status

LEMMA MovedRow ==
  ASSUME RowTypes, NEW b \in Batches, NEW r \in Runs
  PROVE  /\ MovedTo(b, r) \in BatchRecords /\ MovedTo(b, r).run = r
         /\ MovedTo(b, r).status = batch[b].status /\ MovedTo(b, r).stake = batch[b].stake
         /\ MovedTo(b, r).version = batch[b].version /\ MovedTo(b, r).due = batch[b].due
         /\ MovedTo(b, r).charged = batch[b].charged /\ MovedTo(b, r).nonce = batch[b].nonce
         /\ MovedTo(b, r).attempts = batch[b].attempts
         /\ MovedTo(b, r).receipt = batch[b].receipt
<1> DEFINE statuses == {"none", "PREPARED", "FAILED"} \cup InFlight \cup Terminal
<1>1. BatchRecords = [status : statuses,
         run : Runs \cup {0}, stake : Stakes, version : Nat, due : Nat,
         charged : Nat \cup {-1}, nonce : Nat \cup {-1}, attempts : Nat,
         receipt : BlockRefs, error : Errors, deferred : BOOLEAN]
  BY DEF BatchRecords
<1> HIDE DEF statuses
<1>2. batch[b] \in BatchRecords
  BY DEF RowTypes
<1> QED
  BY <1>1, <1>2 DEF MovedTo

LEMMA ReserveRunTables ==
  ASSUME TableInv, ReserveRun
  PROVE  Tables'
<1> DEFINE r0 == Min(pass.runs)
<1>1. PICK r : r = r0
  OBVIOUS
<1>2. r \in Runs
  BY <1>1, MinRun DEF TableInv, Tables, PassTypes, PassFields, ReserveRun
<1>3. PICK k \in 0..NClicks : {b \in Batches : batch[b].status # "none"} = 1..k
  BY DEF TableInv, Tables, LinkShape, BatchOrder
<1> HIDE DEF r0
<1> DEFINE gs == Reservable(r)
           K == Cardinality(gs)
<1>4. RowTypes /\ LinkShape /\ ClickOrder /\ (\A b \in Batches : Follows(b))
  BY FollowsAll DEF TableInv, Tables, LinkShape
<1>5. /\ \A b \in Batches :
           \/ batch'[b] = batch[b]
           \/ /\ batch[b].status \in Preparable /\ batch[b].run \in Takes(r)
              /\ batch'[b] = MovedTo(b, r)
           \/ \E g \in gs : NewBatch(g, r) = b /\ batch[b].status = "none"
                            /\ batch'[b] = Fresh(b, g, r)
      /\ \A g \in gs : /\ NewBatch(g, r) \in Batches
                       /\ batch[NewBatch(g, r)].status = "none"
                       /\ batch'[NewBatch(g, r)] = Fresh(NewBatch(g, r), g, r)
      /\ \A c \in Clicks :
           \/ click'[c] = click[c] /\ \A g \in gs : c \notin g
           \/ \E g \in gs : c \in g /\ click'[c] = Bound(c, g, r)
  BY <1>1, <1>3, <1>4, ReservedRows DEF r0
<1>6. \A g \in gs :
        /\ g \in SUBSET Clicks /\ g # {} /\ Min(g) \in Clicks
        /\ \A c \in g : click[c].status = "PENDING" /\ click[c].batch = 0
        /\ \A h \in gs : \A c \in g : c \in h => g = h
  BY <1>4, ReservedGroups
<1>7. /\ K \in Nat /\ k + K \in 0..NClicks /\ k \in Nat
      /\ \A g \in gs : NewBatch(g, r) \in (k + 1)..(k + K)
      /\ \A g, h \in gs : NewBatch(g, r) = NewBatch(h, r) => g = h
      /\ \A n \in (k + 1)..(k + K) : \E g \in gs : NewBatch(g, r) = n
  BY <1>3, <1>4, Numbering, ChargeAssumption
<1> HIDE DEF gs, K
<1>8. \A b \in Batches : \A g \in gs :
        /\ Fresh(b, g, r) \in BatchRecords
        /\ Fresh(b, g, r).run = r /\ Fresh(b, g, r).due = Due(g)
        /\ Fresh(b, g, r).status = IF Due(g) = 0 THEN "CONFIRMED" ELSE "PREPARED"
        /\ Fresh(b, g, r).charged = IF Due(g) = 0 THEN 0 ELSE -1
        /\ Fresh(b, g, r).nonce = batch[b].nonce
        /\ Fresh(b, g, r).receipt = batch[b].receipt
  BY <1>2, <1>4, <1>6, FreshRow
<1>9. \A c \in Clicks : \A g \in gs :
        /\ Bound(c, g, r) \in ClickRecords /\ Bound(c, g, r).batch = NewBatch(g, r)
        /\ Bound(c, g, r).status = IF Due(g) = 0 THEN "SETTLED" ELSE "RESERVED"
  BY <1>4, <1>5, BoundClick
<1>10. \A b \in Batches :
         /\ MovedTo(b, r) \in BatchRecords /\ MovedTo(b, r).run = r
         /\ MovedTo(b, r).status = batch[b].status /\ MovedTo(b, r).stake = batch[b].stake
         /\ MovedTo(b, r).version = batch[b].version /\ MovedTo(b, r).due = batch[b].due
         /\ MovedTo(b, r).charged = batch[b].charged /\ MovedTo(b, r).nonce = batch[b].nonce
         /\ MovedTo(b, r).attempts = batch[b].attempts
         /\ MovedTo(b, r).receipt = batch[b].receipt
  BY <1>2, <1>4, MovedRow
<1>11. /\ "none" \notin Preparable /\ "none" \notin Terminal
       /\ 0 \notin Runs /\ 0 \notin Batches
  BY DEF Preparable, Terminal, Runs, Batches
<1>12. \A b \in Batches : batch'[b] \in BatchRecords /\ batch'[b].nonce = batch[b].nonce
                          /\ batch'[b].receipt = batch[b].receipt
  <2>1. \A b \in Batches : batch[b] \in BatchRecords
    BY <1>4 DEF RowTypes
  <2> QED
    BY <1>5, <1>8, <1>10, <2>1
<1>13. \A b \in Batches : batch[b].status # "none" =>
         /\ batch'[b].attempts = batch[b].attempts /\ batch'[b].stake = batch[b].stake
         /\ batch'[b].version = batch[b].version /\ batch'[b].due = batch[b].due
         /\ batch'[b].status = batch[b].status /\ batch'[b].charged = batch[b].charged
  BY <1>5, <1>10
<1>14. \A b \in Batches : Signed(b) => batch[b].status # "none"
  BY <1>4 DEF LinkShape
<1>15. chain' = chain /\ forks' = forks /\ mempool' = mempool /\ sent' = sent
       /\ auto' = auto /\ checkpoint' = checkpoint /\ jobs' = jobs
  BY DEF ReserveRun, chainVars
<1>16. NodeShape' /\ SentShape'
  <2>1. mempool' \subseteq sent /\ Tables
    BY <1>15 DEF TableInv, Tables, NodeShape
  <2> QED
    BY <1>12, <1>13, <1>14, <1>15, <2>1, QuietTables
<1> DEFINE row == [run[r] EXCEPT !.status = "RUNNING", !.error = "none",
                                 !.cutoff = IF run[r].cutoff = -1 THEN pass.cutoff
                                            ELSE run[r].cutoff]
<1>17. run' = [run EXCEPT ![r] = row]
  <2> DEFINE New(q) == [run[q] EXCEPT !.status = "RUNNING", !.error = "none",
                                      !.cutoff = IF run[q].cutoff = -1 THEN pass.cutoff
                                                 ELSE run[q].cutoff]
  <2>1. run' = [run EXCEPT ![r0] = New(r0)]
    BY ZenonT(40) DEF ReserveRun, r0
  <2>2. row = New(r)
    OBVIOUS
  <2> HIDE DEF New, row
  <2> QED
    BY <1>1, <2>1, <2>2
<1>18. row \in RunRecords /\ row.status = "RUNNING"
  <2>1. run[r] \in RunRecords
    BY <1>2, <1>4 DEF RowTypes
  <2>2. pass.cutoff \in -1..NClicks
    BY ChargeAssumption DEF TableInv, Tables, PassTypes, PassFields
  <2> QED
    BY <2>1, <2>2 DEF RunRecords, RecoverableRuns, Errors
<1> HIDE DEF row
<1>19. /\ run' \in [Runs -> RunRecords] /\ run'[r].status = "RUNNING"
       /\ \A q \in Runs \ {r} : run'[q] = run[q]
  BY <1>2, <1>4, <1>17, <1>18 DEF RowTypes
<1>20. DOMAIN batch' = Batches /\ DOMAIN click' = Clicks
       /\ batch' = [b \in Batches |-> batch'[b]] /\ click' = [c \in Clicks |-> click'[c]]
  BY DEF ReserveRun
<1>21. \A c \in Clicks : click'[c] \in ClickRecords
  BY <1>4, <1>5, <1>9 DEF RowTypes
<1>22. RowTypes'
  <2>1. batch' \in [Batches -> BatchRecords]
    BY <1>12, <1>20
  <2>2. click' \in [Clicks -> ClickRecords]
    BY <1>20, <1>21
  <2> QED
    BY <1>4, <1>15, <1>19, <2>1, <2>2 DEF RowTypes
<1>23. ClickOrder'
  <2>1. \A c \in Clicks : click'[c].status = "none" <=> click[c].status = "none"
    BY <1>5, <1>6, <1>9
  <2> QED
    BY <1>4, <2>1, ClickOrderSame
<1>24. BatchOrder'
  <2>1. ASSUME NEW b \in Batches, b \in 1..(k + K)
        PROVE  batch'[b].status # "none"
    <3>1. CASE b \in 1..k
      <4>1. batch[b].status # "none"
        BY <1>3, <3>1
      <4> QED
        BY <1>13, <4>1
    <3>2. CASE b \in (k + 1)..(k + K)
      <4>1. PICK g \in gs : NewBatch(g, r) = b
        BY <1>7, <3>2
      <4>2. batch'[b] = Fresh(b, g, r)
        BY <1>5, <4>1
      <4> QED
        BY <1>8, <4>2
    <3> QED
      BY <1>7, <2>1, <3>1, <3>2
  <2>2. ASSUME NEW b \in Batches, b \notin 1..(k + K)
        PROVE  batch'[b].status = "none"
    <3>1. b \notin 1..k /\ b \notin (k + 1)..(k + K)
      BY <1>7, <2>2 DEF Batches
    <3>2. batch[b].status = "none"
      BY <1>3, <3>1
    <3>3. \A g \in gs : NewBatch(g, r) # b
      BY <1>7, <3>1
    <3> QED
      BY <1>5, <1>11, <3>2, <3>3
  <2>3. 1..(k + K) \subseteq Batches
    BY <1>7, ChargeAssumption DEF Batches
  <2>4. {b \in Batches : batch'[b].status # "none"} = 1..(k + K)
    BY <2>1, <2>2, <2>3
  <2> QED
    BY <1>7, <2>4 DEF BatchOrder
<1>25. \A c \in Clicks : click'[c].status \in Unbatched => click'[c].batch = 0
  BY <1>4, <1>5, <1>9 DEF LinkShape, Unbatched
<1>26. \A b \in Batches : batch'[b].status = "none" <=> batch'[b].run = 0
  <2> SUFFICES ASSUME NEW b \in Batches
               PROVE  batch'[b].status = "none" <=> batch'[b].run = 0
    OBVIOUS
  <2>1. batch[b].status = "none" <=> batch[b].run = 0
    BY <1>4 DEF LinkShape
  <2>2. CASE batch[b].status \in Preparable /\ batch'[b] = MovedTo(b, r)
    BY <1>2, <1>10, <1>11, <2>2
  <2>3. ASSUME NEW g \in gs, batch'[b] = Fresh(b, g, r)
        PROVE  batch'[b].status # "none" /\ batch'[b].run # 0
    BY <1>2, <1>8, <1>11, <2>3
  <2> QED
    BY <1>5, <2>1, <2>2, <2>3
<1>27. \A b \in Batches : batch'[b].nonce # -1 => batch'[b].status = batch[b].status
  BY <1>12, <1>13, <1>14 DEF Signed
<1>28. \A b \in Batches : batch'[b].status \in {"none", "PREPARED"} => ~Signed(b)'
  BY <1>4, <1>12, <1>27 DEF LinkShape, Signed
<1>29. \A b \in Batches : batch'[b].status \in Terminal /\ batch'[b].receipt = NoBlock => ~Signed(b)'
  <2>1. Preparable \cap Terminal = {}
    BY DEF Preparable, Terminal
  <2> QED
    BY <1>4, <1>12, <1>27, <2>1 DEF LinkShape, Signed
<1>30. ASSUME NEW b \in Batches
       PROVE  Follows(b)'
  <2>1. CASE \E g \in gs : NewBatch(g, r) = b
    <3>1. PICK g \in gs : NewBatch(g, r) = b
      BY <2>1
    <3>2. batch'[b] = Fresh(b, g, r) /\ batch[b].status = "none"
      BY <1>5, <3>1
    <3>3. \A c \in Clicks : click[c].batch # b
      BY <1>4, <3>2 DEF Follows, ClicksOf
    <3>4. \A c \in g : click'[c] = Bound(c, g, r)
      BY <1>5, <1>6
    <3>5. \A c \in Clicks : click'[c].batch = b <=> c \in g
      BY <1>5, <1>6, <1>7, <1>9, <3>1, <3>3, <3>4
    <3>6. ClicksOf(b)' = g
      BY <1>6, <3>5 DEF ClicksOf
    <3>7. g # {} /\ batch'[b].due = Due(g) /\ Due(g) \in Nat
      BY <1>6, <1>8, <3>2, DueRemove
    <3>8. \A c \in g : click'[c].status = IF Due(g) = 0 THEN "SETTLED" ELSE "RESERVED"
      BY <1>6, <1>9, <3>4
    <3>9. CASE Due(g) = 0
      <4>1. {c \in ClicksOf(b)' : click'[c].status = "SETTLED"} = g
        BY <3>6, <3>8, <3>9
      <4>2. batch'[b].status = "CONFIRMED" /\ batch'[b].charged = 0
        BY <1>8, <3>2, <3>9
      <4>3. Due({c \in ClicksOf(b)' : click'[c].status = "SETTLED"}) <= batch'[b].charged
        BY <3>9, <4>1, <4>2
      <4> QED
        BY <3>6, <3>7, <3>8, <3>9, <4>1, <4>2, <4>3 DEF Follows, InFlight
    <3>10. CASE Due(g) # 0
      <4>1. batch'[b].status = "PREPARED"
        BY <1>8, <3>2, <3>10
      <4> QED
        BY <3>6, <3>7, <3>8, <3>10, <4>1 DEF Follows, Terminal
    <3> QED
      BY <3>9, <3>10
  <2>2. CASE ~\E g \in gs : NewBatch(g, r) = b
    <3>1. batch'[b].status = batch[b].status /\ batch'[b].due = batch[b].due
          /\ batch'[b].charged = batch[b].charged
      BY <1>5, <1>10, <2>2
    <3>2. SameClicks(b)
      BY <1>5, <1>6, <1>9, <1>11, <2>2 DEF SameClicks
    <3>3. \A c \in Clicks : click[c].batch = b => click'[c].status = click[c].status
      BY <1>5, <1>6, <1>11
    <3> QED
      BY <1>4, <3>1, <3>2, <3>3, FollowsSame
  <2> QED
    BY <2>1, <2>2
<1>31. ClicksFollowBatch'
  BY <1>30 DEF ClicksFollowBatch, Follows
<1>32. FinishedRunsAreSettled'
  <2> SUFFICES ASSUME NEW q \in Runs, run'[q].status \in {"COMPLETED", "PARTIAL"},
                      NEW b \in Batches, batch'[b].run = q
               PROVE  batch'[b].status \in Terminal
    BY DEF FinishedRunsAreSettled, BatchesOf
  <2>1. q # r /\ run'[q] = run[q]
    BY <1>19
  <2>2. batch'[b] = batch[b]
    <3>1. batch'[b].run # r
      BY <2>1
    <3> QED
      BY <1>5, <1>8, <1>10, <3>1
  <2> QED
    BY <1>4, <2>1, <2>2 DEF LinkShape, FinishedRunsAreSettled, BatchesOf
<1>33. LinkShape'
  BY <1>23, <1>24, <1>25, <1>26, <1>28, <1>29, <1>31, <1>32 DEF LinkShape
<1>34. PassTypes'
  <2> DEFINE todo == {b \in Batches : batch'[b].run = r /\ batch'[b].status \in Preparable}
             p == [pass EXCEPT !.run = r, !.runs = @ \ {r}, !.refresh = Takes(r), !.todo = todo]
  <2>1. pass' = AfterRefresh(p)
    BY <1>1 DEF ReserveRun, r0
  <2>2. PassFields(pass) /\ Takes(r) \subseteq Runs
    BY DEF TableInv, Tables, PassTypes, Takes
  <2> HIDE DEF todo
  <2>3. PassFields(p) /\ p.todo = todo
    BY <1>2, <2>2 DEF PassFields, IdlePass
  <2>4. \A b \in p.todo : batch'[b].status # "none"
    BY <1>11, <2>3 DEF todo
  <2> HIDE DEF p
  <2> QED
    BY <1>15, <2>1, <2>3, <2>4, AfterRefreshTypes
<1>35. ReceiptBlocks'
  BY <1>12, <1>15 DEF TableInv, Tables, ReceiptBlocks, Height
<1> QED
  BY <1>16, <1>22, <1>33, <1>34, <1>35 DEF Tables

-----------------------------------------------------------------------------
\* A step of the chain leaves the tables alone.
LEMMA ChainStepTables ==
  ASSUME TableInv, ChainStep
  PROVE  Tables'
<1>1. NodeShape' /\ ChainMoves
  BY ChainStepNode DEF TableInv, Tables
<1>2. UNCHANGED <<dbVars, pass>>
  BY DEF ChainStep
<1>3. SentShape' /\ RowTypes'
  BY <1>2 DEF TableInv, Tables, SentShape, RowTypes, Signed, Transaction, dbVars
<1>4. LinkShape'
  <2>1. LinkShape
    BY DEF TableInv, Tables
  <2>2. click' = click /\ batch' = batch /\ run' = run
    BY <1>2 DEF dbVars
  <2>3. ClickOrder' /\ BatchOrder'
    BY <2>1, <2>2 DEF LinkShape, ClickOrder, BatchOrder, Claimed
  <2>4. ClicksFollowBatch'
    <3>1. \A b \in Batches : Follows(b)'
      BY <2>1, <2>2, FollowsAll, FollowsSame DEF LinkShape, SameClicks
    <3> QED
      BY <3>1 DEF ClicksFollowBatch, Follows
  <2>5. FinishedRunsAreSettled'
    BY <2>1, <2>2 DEF LinkShape, FinishedRunsAreSettled, BatchesOf
  <2> QED
    BY <2>1, <2>2, <2>3, <2>4, <2>5 DEF LinkShape, Signed
<1>5. \A n \in 0..Height : n \in 0..Height'
  BY <1>1, NodeFacts DEF ChainMoves, TableInv, Tables
<1>6. PassTypes'
  <2>1. PassTypes
    BY DEF TableInv, Tables
  <2>2. PassFields(pass)'
    BY <1>2, <1>5, <2>1 DEF PassTypes, PassFields
  <2> QED
    BY <1>2, <2>1, <2>2 DEF PassTypes, dbVars
<1>7. ReceiptBlocks'
  BY <1>2, <1>5 DEF TableInv, Tables, ReceiptBlocks, dbVars
<1> QED
  BY <1>1, <1>3, <1>4, <1>6, <1>7 DEF Tables

LEMMA TableInit ==
  ASSUME Init
  PROVE  TableInv
<1> DEFINE empty == EmptyBlock(0, [s \in Stakes |-> [version |-> 1, amount |-> InitialStake]])
           stake == CHOOSE s \in Stakes : TRUE
<1>1. /\ {InitialHeight, MaxHeight, MaxForks} \subseteq Nat /\ InitialHeight <= MaxHeight
      /\ InitialStake \in Nat /\ stake \in Stakes /\ NClicks \in Nat
  BY ChainAssumption, ChargeAssumption
<1>2. chain = [i \in 1..(InitialHeight + 1) |-> empty] /\ mempool = {} /\ forks = 0 /\ sent = {}
  BY DEF Init, ChainInit
<1> DEFINE clickRow == [status |-> "none", stake |-> stake, version |-> 0, bid |-> NoBlock,
                        price |-> NoBlock, batch |-> 0, aged |-> FALSE]
           batchRow == [status |-> "none", run |-> 0, stake |-> stake, version |-> 0, due |-> 0,
                        charged |-> -1, nonce |-> -1, attempts |-> 0, receipt |-> NoBlock,
                        error |-> "none", deferred |-> FALSE]
           runRow == [trigger |-> "none", status |-> "none", error |-> "none", cutoff |-> -1]
<1>3. /\ click = [c \in Clicks |-> clickRow] /\ batch = [b \in Batches |-> batchRow]
      /\ run = [r \in Runs |-> runRow] /\ auto = InitialAuto /\ checkpoint = NoBlock
      /\ jobs = {} /\ pass = IdlePass
  BY DEF Init
<1>4. NoBlock \in BlockRefs
  BY <1>1 DEF NoBlock, BlockRefs
<1>5. /\ clickRow \in ClickRecords /\ clickRow.status = "none" /\ clickRow.batch = 0
      /\ batchRow \in BatchRecords /\ batchRow.status = "none" /\ batchRow.run = 0
      /\ batchRow.nonce = -1 /\ batchRow.receipt = NoBlock
      /\ runRow \in RunRecords /\ runRow.status = "none"
  BY <1>1, <1>4 DEF ClickRecords, BatchRecords, RunRecords, Errors
<1>6. empty.tx = NoTx /\ empty.position \in [Stakes -> [version : Nat, amount : Nat]]
      /\ empty \in [fork : 0..0, tx : {NoTx}, result : {"none"}, charged : Nat,
                    position : [Stakes -> [version : Nat, amount : Nat]]]
  BY <1>1 DEF EmptyBlock
<1> HIDE DEF empty, clickRow, batchRow, runRow, stake
<1>7. chain \in Seq(BlockRecords) /\ Len(chain) = InitialHeight + 1
  <2>1. empty \in BlockRecords
    BY <1>2, <1>6 DEF BlockRecords
  <2> QED
    BY <1>1, <1>2, <2>1
<1>8. Height = InitialHeight /\ Height \in Nat
  BY <1>1, <1>7 DEF Height
<1>9. \A i \in DOMAIN chain : chain[i] = empty
  BY <1>2
<1>10. NodeShape
  <2>1. Mined = {}
    <3>1. \A n \in 0..Height : n + 1 \in DOMAIN chain
      BY <1>2, <1>8
    <3> QED
      BY <1>6, <1>9, <3>1 DEF Mined, Block
  <2>2. NonceOrder
    BY <2>1 DEF NonceOrder
  <2>3. ChargeOnce
    BY <1>6, <1>9 DEF ChargeOnce
  <2>4. PositionOrder
    <3>1. \A s \in Stakes : empty.position[s].version <= empty.position[s].version
                           /\ empty.position[s].amount <= empty.position[s].amount
      BY <1>6
    <3> QED
      BY <1>9, <3>1 DEF PositionOrder, NotAfter
  <2> QED
    BY <1>1, <1>2, <1>7, <1>8, <2>2, <2>3, <2>4 DEF NodeShape
<1>11. SentShape
  BY <1>2, <1>3, <1>5 DEF SentShape, Signed
<1>12. RowTypes
  BY <1>3, <1>4, <1>5, ChargeAssumption DEF RowTypes
<1>13. \A c \in Clicks : click[c].status = "none" /\ click[c].batch = 0
  BY <1>3, <1>5
<1>14. \A b \in Batches : batch[b].status = "none" /\ batch[b].run = 0 /\ batch[b].nonce = -1
                          /\ batch[b].receipt = NoBlock
  BY <1>3, <1>5
<1>15. ClickOrder
  <2>1. {c \in Clicks : click[c].status # "none"} = {}
    BY <1>13
  <2>2. Claimed = 0
    BY <2>1, FS_EmptySet DEF Claimed
  <2> QED
    BY <2>1, <2>2 DEF ClickOrder
<1>16. BatchOrder
  <2>1. {b \in Batches : batch[b].status # "none"} = 1..0
    BY <1>14
  <2> QED
    BY <1>1, <2>1 DEF BatchOrder
<1>17. ClicksFollowBatch
  <2>1. \A b \in Batches : ClicksOf(b) = {}
    BY <1>13 DEF ClicksOf, Batches
  <2> QED
    BY <1>14, <2>1 DEF ClicksFollowBatch, InFlight, Terminal
<1>18. FinishedRunsAreSettled
  BY <1>3, <1>5 DEF FinishedRunsAreSettled
<1>19. LinkShape
  BY <1>13, <1>14, <1>15, <1>16, <1>17, <1>18 DEF LinkShape, Signed, Terminal
<1>20. PassTypes
  BY <1>1, <1>3, <1>8 DEF PassTypes, PassFields, IdlePass, Unread, Errors, SignedSteps
<1>21. ReceiptBlocks
  BY <1>14 DEF ReceiptBlocks
<1> QED
  BY <1>10, <1>11, <1>12, <1>19, <1>20, <1>21, JournalInit DEF TableInv, Tables

LEMMA TableStep ==
  ASSUME TableInv, [Next]_vars
  PROVE  TableInv'
<1>1. JournalInv'
  BY JournalStep DEF TableInv
<1> SUFFICES Tables'
  BY <1>1 DEF TableInv
<1>2. CASE ChainStep
  BY <1>2, ChainStepTables
<1>3. CASE ApiStep \/ TimeStep
  BY <1>3, ClaimClickTables, FinishCaptureTables, ToggleTables, RequestTables, AgeTables,
     ReachNextAttemptTables DEF ApiStep, TimeStep
<1>4. CASE Start
  BY <1>4, BeginPassTables DEF Start
<1>5. CASE \/ ValidateAndFetch \/ ReconcileNext \/ ReceiptMissing \/ RecordBroadcast
           \/ \E indexed \in BOOLEAN : ReadReceipt(indexed) \/ ResolveUnseen(indexed)
           \/ \E accepted \in BOOLEAN, reply \in {"accepted", "unknown", "gas"} :
                Broadcast(accepted, reply)
  BY <1>5, ValidateTables, ReconcileNextTables, ReceiptMissingTables, RecordBroadcastTables,
     ReadReceiptTables, ResolveUnseenTables, BroadcastTables
<1>6. CASE \/ \E ready \in BOOLEAN : SaveCheckpoint(ready)
           \/ RefreshRun \/ PlanRuns \/ BlockRun \/ ReserveRun
           \/ PrepareNext \/ CheckBatch \/ SignBatch \/ FinishRun
  BY <1>6, SaveCheckpointTables, RefreshRunTables, PlanRunsTables, BlockRunTables,
     ReserveRunTables, PrepareNextTables, CheckBatchTables, SignBatchTables, FinishRunTables
<1>7. CASE Crash \/ \E noted \in BOOLEAN : RpcFails(noted)
  BY <1>7, CrashTables, RpcFailsTables
<1>8. CASE UNCHANGED vars
  <2>1. UNCHANGED <<chain, forks, click, batch, run, auto, checkpoint, jobs, sent>>
        /\ mempool' = mempool /\ pass' = pass
    BY <1>8 DEF vars, chainVars, dbVars
  <2>2. PassTypes'
    BY <2>1, SamePass DEF TableInv, Tables, JournalInv
  <2> QED
    BY <2>1, <2>2, NoRow DEF TableInv, Tables, NodeShape
<1> QED
  BY <1>2, <1>3, <1>4, <1>5, <1>6, <1>7, <1>8 DEF Next, PassStep

\* The tables, the journal and the node keep their shape throughout.
THEOREM TablesKeepShape == Spec => []TableInv
<1>1. Init => TableInv
  BY TableInit
<1>2. TableInv /\ [Next]_vars => TableInv'
  BY TableStep
<1> QED
  BY <1>1, <1>2, PTL DEF Spec
=============================================================================
