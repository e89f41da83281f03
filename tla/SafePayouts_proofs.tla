------------------------ MODULE SafePayouts_proofs ------------------------
(***************************************************************************)
(* Proofs about SafePayouts, for any number of payouts, calls, executions  *)
(* and resets.                                                             *)
(*                                                                         *)
(* PayoutInv holds of every way the operators work: at most one payout     *)
(* stands for a release.  GapInv adds that every nonce before one that was *)
(* chosen is in the queue or spent, and GivenUpInv why a payout that was   *)
(* given up can release nothing, unless its proposal was sent again after  *)
(* the recovery delay.  OwnInv is about a Safe that only executes what the *)
(* API submitted for it: then a release is projected to the payout that    *)
(* made it, as long as no proposal was sent late.  Without that hypothesis *)
(* it is false.                                                            *)
(***************************************************************************)
EXTENDS SafePayouts, FiniteSetTheorems, WellFoundedInduction, TLAPS

-----------------------------------------------------------------------------
(* What the records hold.                                                   *)

Transactions == [by : Ids \cup {Outside}, key : Keys \cup {NoKey}]

Verdicts == {"SUBMITTING", "AWAITING", "EXECUTED", "FAILED", "STALE"}
Updates == [st : Verdicts, exec : Nat, reason : BOOLEAN]

Inserting == [pc : {"insert"}, key : Keys, delivery : Deliveries, nonce : Nat]
Replacing == [pc : {"replace"}, p : Ids, proposal : BOOLEAN]
Reading == [pc : {"active", "blocking", "goal", "nonce"}, key : Keys, delivery : Deliveries]
Calls == {Idle, Ended} \cup Replacing \cup Inserting \cup Reading

Reconciling == [pc : {"reconciling"}, todo : SUBSET Ids, p : Ids, tx : Nat, row : Nat]
Passing == [pc : {"pass"}, todo : SUBSET Ids, nonce : Nat]
Missing == [pc : {"missing"}, todo : SUBSET Ids, nonce : Nat, p : Ids]
Committing == [pc : {"commit"}, todo : SUBSET Ids, nonce : Nat, p : Ids,
               next : Updates, row : Nat]
Settling == [pc : {"settle"}, p : Ids, proposal : BOOLEAN, manual : BOOLEAN]

PayoutRows == [st : {"NONE", "PROPOSED", "EXECUTED", "FAILED"},
               key : Keys \cup {NoKey}, tx : Nat]
IntentRows == [delivery : {"SERVICE", "MANUAL"}, nonce : Nat, due : BOOLEAN, consumed : BOOLEAN]
ProposalRows == [st : Verdicts \cup {"NONE"}, nonce : Nat, exec : Nat,
                 reason : BOOLEAN, aged : BOOLEAN, late : BOOLEAN]

PayoutTypes == payout \in [Ids -> PayoutRows]
IntentTypes == intent \in [Ids -> IntentRows]
PropTypes == prop \in [Ids -> ProposalRows]
RowTypes == PayoutTypes /\ IntentTypes /\ PropTypes

CallTypes ==
  /\ create \in [Requests -> Calls]
  /\ submit \in [Ids -> {"idle", "nonce", "claiming", "proposing", "accepted"}]
  /\ sync \in {Idle} \cup [pc : {"reconcile"}, todo : SUBSET Ids] \cup Reconciling
              \cup Passing \cup Missing \cup Committing
  /\ handler \in {Idle} \cup [pc : {"project"}] \cup Settling

ChainTypes ==
  /\ spent \in Seq(Transactions)
  /\ seen \in 0..Len(spent) /\ cursor \in 0..Len(spent)
  /\ rows \subseteq 1..cursor
  /\ queue \subseteq Ids

\* A payout that was never created has nothing; one that was has its key.
RowsAreCreated ==
  \A p \in Ids :
    /\ Absent(p) => payout[p].key = NoKey /\ prop[p].st = "NONE" /\ ~intent[p].consumed
    /\ ~Absent(p) => payout[p].key \in Keys
    /\ prop[p].st = "NONE" => /\ p \notin queue /\ ~prop[p].late
                              /\ submit[p] \in {"idle", "nonce", "claiming"}
    /\ prop[p].st # "NONE" => submit[p] \in {"idle", "proposing", "accepted"}

\* What the Safe executed for a payout was in the queue, at its nonce and for its key.
SpentByTheQueue ==
  \A i \in DOMAIN spent : spent[i].by \in Ids =>
    /\ spent[i].by \in queue
    /\ prop[spent[i].by].nonce = i - 1
    /\ spent[i].key \in {NoKey, payout[spent[i].by].key}

\* There is a last nonce in the queue.
QueueIsBounded == \E b \in Nat : \A p \in queue : prop[p].nonce <= b

\* A row stands for a release, and so does an EXECUTED payout, for one of its key.
RowsAreReleases == \A i \in rows : spent[i].key # NoKey
ExecutedIsReleased ==
  \A p \in Ids : payout[p].st = "EXECUTED" =>
    payout[p].tx \in 1..cursor /\ spent[payout[p].tx].key = payout[p].key

\* No two of them stand for the same one.
CountedOnce ==
  \A p \in Ids : payout[p].st = "EXECUTED" =>
    /\ payout[p].tx \notin rows
    /\ \A q \in Ids : payout[q].st = "EXECUTED" /\ payout[q].tx = payout[p].tx => q = p

\* What the event handler has read stays true until it writes.
HandlerReads ==
  handler # Idle =>
    /\ cursor < Len(spent) /\ spent[cursor + 1].key # NoKey
    /\ handler.pc = "settle" =>
         /\ payout[handler.p].key = spent[cursor + 1].key
         /\ handler.proposal => prop[handler.p].st # "NONE"

\* A row the sync job has found is a release of the payout's key.
RowOf(p, row) ==
  row # 0 => row \in DOMAIN spent /\ spent[row].key # NoKey /\ payout[p].key = spent[row].key
SyncReads ==
  /\ sync.pc = "reconciling" => RowOf(sync.p, sync.row) /\ sync.row \in {0, sync.tx}
  /\ sync.pc = "commit" => RowOf(sync.p, sync.row)

PayoutInv ==
  /\ RowTypes /\ CallTypes /\ ChainTypes
  /\ RowsAreCreated /\ SpentByTheQueue /\ QueueIsBounded /\ RowsAreReleases
  /\ ExecutedIsReleased /\ CountedOnce /\ HandlerReads /\ SyncReads

(* No release is counted twice, and nothing is counted that is not one.     *)
NoReleaseCountedTwice ==
  /\ \A i \in rows : i \in 1..cursor /\ spent[i].key # NoKey
  /\ \A p \in Ids : payout[p].st = "EXECUTED" =>
        /\ payout[p].tx \in (1..cursor) \ rows
        /\ spent[payout[p].tx].key = payout[p].key /\ payout[p].key # NoKey
        /\ \A q \in Ids : payout[q].st = "EXECUTED" /\ payout[q].tx = payout[p].tx => q = p

-----------------------------------------------------------------------------
(* Why a payout that was given up releases nothing.                         *)

\* Its nonce went to another transaction, its own released nothing, or its time
\* to get to the service is over: when it is sent again, it comes late.
TakenByAnother(p) ==
  prop[p].nonce < Len(spent) /\ spent[prop[p].nonce + 1].by # p
ReleasedNothing(p) ==
  prop[p].nonce < Len(spent) /\ spent[prop[p].nonce + 1].key = NoKey
NotInTime(p) == prop[p].aged /\ (p \in queue => prop[p].late)
Hopeless(p) ==
  prop[p].st # "NONE" /\ (TakenByAnother(p) \/ ReleasedNothing(p) \/ NotInTime(p))

GivenUpIsHopeless ==
  \A p \in Ids : intent[p].delivery = "SERVICE" =>
    /\ payout[p].st = "FAILED" =>
         (prop[p].st = "NONE" /\ intent[p].consumed) \/ Hopeless(p)
    /\ prop[p].st = "STALE" => TakenByAnother(p)

\* What a pass has in hand was submitted, and its verdicts are for good.
VerdictsAreFinal ==
  /\ sync.pc \in {"pass", "missing", "commit"} => \A p \in sync.todo : prop[p].st # "NONE"
  /\ sync.pc \in {"missing", "commit"} => prop[sync.p].st # "NONE"
  /\ sync.pc = "missing" => NotInTime(sync.p)
  /\ sync.pc = "commit" =>
       /\ sync.next.st = "FAILED" => Hopeless(sync.p)
       /\ sync.next.st = "STALE" => TakenByAnother(sync.p)

GivenUpInv == PayoutInv /\ GivenUpIsHopeless /\ VerdictsAreFinal

-----------------------------------------------------------------------------
(* Every nonce before one that was chosen is spent or in the queue.         *)

Filled(n) == \A m \in Len(spent)..(n - 1) : \E q \in queue : prop[q].nonce = m
NoncesAreFilled ==
  /\ \A p \in Ids : Filled(prop[p].nonce) /\ Filled(intent[p].nonce)
  /\ \A r \in Requests : create[r].pc = "insert" => Filled(create[r].nonce)

GapInv == PayoutInv /\ NoncesAreFilled

-----------------------------------------------------------------------------
(* A Safe that executes nothing but what the API submits.                   *)

OnlyService ==
  /\ \A p \in Ids : intent[p].delivery = "SERVICE"
  /\ \A r \in Requests : create[r].pc # "replace"

\* Every execution is of a payout, and what names one names its own.
Mine(p, i) == i # 0 => i \in DOMAIN spent /\ spent[i].by = p
OwnExecutions ==
  /\ \A i \in DOMAIN spent : spent[i].by \in Ids
  /\ \A p \in Ids : Mine(p, prop[p].exec)
  /\ \A p \in Ids : payout[p].st = "EXECUTED" => Mine(p, payout[p].tx)
  /\ sync.pc = "reconciling" => Mine(sync.p, sync.row)
  /\ sync.pc = "commit" => /\ Mine(sync.p, sync.row) /\ Mine(sync.p, sync.next.exec)
                           /\ sync.next.st # "EXECUTED" => sync.row = 0
  /\ handler # Idle /\ handler.pc = "settle" => Mine(handler.p, cursor + 1)

\* A release that is indexed is a row of its own or its payout's.
ProjectedToItsOwn ==
  \A i \in 1..cursor : spent[i].key # NoKey =>
    (i \in rows) = (payout[spent[i].by].st # "EXECUTED")

Created == {p \in Ids : ~Absent(p)}
FinitelyMany == IsFiniteSet(Created)

OwnInv ==
  /\ GivenUpInv /\ OnTime /\ OnlyService /\ OwnExecutions /\ ProjectedToItsOwn
  /\ FinitelyMany

-----------------------------------------------------------------------------
(* What no step undoes: executions stay, a payout keeps its key, a proposal *)
(* its nonce, its age and that it came late, and the service what it holds. *)
SpentGrows == Len(spent) <= Len(spent') /\ \A i \in DOMAIN spent : spent'[i] = spent[i]
KeysStay == \A p \in Ids : ~Absent(p) => ~Absent(p)' /\ payout'[p].key = payout[p].key
SentStays ==
  /\ queue \subseteq queue'
  /\ \A p \in Ids : prop[p].st # "NONE" =>
       /\ prop'[p].st # "NONE" /\ prop'[p].nonce = prop[p].nonce
       /\ prop[p].aged => prop'[p].aged
       /\ prop[p].late => prop'[p].late
Steady == SpentGrows /\ KeysStay /\ SentStays

\* The API only adds payouts, and submits a payout that has no proposal yet.
LEMMA StepIsSteady == ASSUME PayoutInv, Next PROVE Steady

<1>1. ASSUME ExpireAbandonedSafeIntents PROVE Steady
  BY <1>1
     DEF PayoutInv, RowTypes, Steady, SpentGrows, KeysStay, SentStays, Absent,
         ExpireAbandonedSafeIntents, chain, ExpiredPayouts, ExpiredIntents, Expirable,
         PayoutTypes, PayoutRows
<1>2. ASSUME NEW p \in Ids, ExecuteQueued(p) PROVE Steady
  BY <1>2
     DEF PayoutInv, RowTypes, Steady, SpentGrows, KeysStay, SentStays, Absent, ExecuteQueued,
         chain, ChainTypes, Transactions
<1>3. ASSUME NEW k \in Keys \cup {NoKey}, ExecuteOutside(k) PROVE Steady
  BY <1>3
     DEF PayoutInv, RowTypes, Steady, SpentGrows, KeysStay, SentStays, Absent, ExecuteOutside,
         chain, ChainTypes, Transactions
<1>4. ASSUME ServiceObserves PROVE Steady
  BY <1>4
     DEF PayoutInv, RowTypes, Steady, SpentGrows, KeysStay, SentStays, Absent,
         ServiceObserves, chain
<1>5. ASSUME NEW p \in Ids, IntentFallsDue(p) PROVE Steady
  BY <1>5
     DEF PayoutInv, RowTypes, Steady, SpentGrows, KeysStay, SentStays, Absent, IntentFallsDue,
         chain, Unconsumed
<1>6. ASSUME NEW p \in Ids, ProposalAges(p) PROVE Steady
  BY <1>6
     DEF PayoutInv, RowTypes, Steady, SpentGrows, KeysStay, SentStays, Absent, ProposalAges,
         chain, PropTypes, ProposalRows, Verdicts
<1>7. ASSUME NEW r \in Requests, NEW k \in Keys, NEW d \in Deliveries, BeginCreate(r, k, d) PROVE Steady
  BY SMTT(30), <1>7
     DEF PayoutInv, RowTypes, Steady, SpentGrows, KeysStay, SentStays, Absent, BeginCreate,
         chain, ExpiredPayouts, ExpiredIntents, Expirable, PayoutTypes, PayoutRows
<1>8. ASSUME NEW r \in Requests, ReplaceIntent(r) PROVE Steady
  BY <1>8
     DEF PayoutInv, RowTypes, Steady, SpentGrows, KeysStay, SentStays, Absent, ReplaceIntent,
         chain, PropTypes, ProposalRows, Verdicts, CallTypes, Calls, Idle, Ended, Replacing,
         Inserting, Reading
<1>9. ASSUME NEW r \in Requests, InsertIntent(r) PROVE Steady
  <2>1. UNCHANGED <<prop, queue, spent>>
    BY <1>9 DEF InsertIntent, chain
  <2>2. KeysStay
    <3>1. CASE UNCHANGED payout
      BY <3>1 DEF KeysStay, Absent
    <3>2. CASE \E q \in Ids : Absent(q) /\ payout' = [payout EXCEPT ![q] =
                                   [st |-> "PROPOSED", tx |-> 0, key |-> create[r].key]]
      BY <3>2 DEF KeysStay, Absent, PayoutInv, RowTypes, PayoutTypes
    <3> QED
      BY <1>9, <3>1, <3>2 DEF InsertIntent
  <2> QED
    BY <2>1, <2>2 DEF PayoutInv, ChainTypes, Steady, SpentGrows, SentStays
<1>10. ASSUME NEW p \in Ids, CancelManual(p) PROVE Steady
  BY <1>10
     DEF PayoutInv, RowTypes, Steady, SpentGrows, KeysStay, SentStays, Absent, CancelManual,
         chain, PayoutTypes, PayoutRows
<1>11. ASSUME NEW p \in Ids, BeginSubmit(p) PROVE Steady
  <2>1. UNCHANGED <<prop, queue, spent>> /\ payout' \in {payout, ExpiredPayouts}
    BY <1>11 DEF BeginSubmit, chain
  <2> QED
    BY <2>1
       DEF PayoutInv, RowTypes, Steady, SpentGrows, KeysStay, SentStays, Absent,
           ExpiredPayouts, Expirable, PayoutTypes, PayoutRows, ChainTypes
<1>12. ASSUME NEW p \in Ids, Propose(p) PROVE Steady
  <2>1. PICK late \in BOOLEAN :
          (prop[p].late => late) /\ prop' = [prop EXCEPT ![p].late = late]
    BY <1>12 DEF Propose, PayoutInv, RowTypes, PropTypes, ProposalRows
  <2>2. UNCHANGED <<payout, spent>> /\ queue \subseteq queue'
    BY <1>12 DEF Propose, chain
  <2> QED
    BY <2>1, <2>2
       DEF PayoutInv, RowTypes, Steady, SpentGrows, KeysStay, SentStays, Absent, PropTypes,
           ProposalRows, ChainTypes
<1>13. ASSUME NEW p \in Ids, ProposeFails(p) PROVE Steady
  BY <1>13
     DEF PayoutInv, RowTypes, Steady, SpentGrows, KeysStay, SentStays, Absent, ProposeFails,
         chain, PropTypes, ProposalRows, Verdicts
<1>14. ASSUME NEW p \in Ids, SubmitDies(p) PROVE Steady
  BY <1>14
     DEF PayoutInv, RowTypes, Steady, SpentGrows, KeysStay, SentStays, Absent, SubmitDies,
         chain
<1>15. ASSUME NEW p \in Ids, SubmitDone(p) PROVE Steady
  BY <1>15
     DEF PayoutInv, RowTypes, Steady, SpentGrows, KeysStay, SentStays, Absent, SubmitDone,
         chain, PropTypes, ProposalRows, Verdicts
<1>16. ASSUME SyncBegin PROVE Steady
  BY <1>16
     DEF PayoutInv, RowTypes, Steady, SpentGrows, KeysStay, SentStays, Absent, SyncBegin,
         chain, ExpiredPayouts, ExpiredIntents, Expirable, PayoutTypes, PayoutRows
<1>17. ASSUME NEW p \in Ids, ReconcileFind(p) PROVE Steady
  BY <1>17
     DEF PayoutInv, RowTypes, Steady, SpentGrows, KeysStay, SentStays, Absent, ReconcileFind,
         chain, ConfirmedProjection
<1>18. ASSUME ReconcileCommit PROVE Steady
  BY <1>18
     DEF PayoutInv, RowTypes, Steady, SpentGrows, KeysStay, SentStays, Absent,
         ReconcileCommit, chain, Promotes, RowGone, PayoutTypes, PayoutRows, CallTypes, Idle,
         Replacing, Inserting, Reconciling, Passing, Missing, Committing, Settling, Updates,
         Verdicts
<1>19. ASSUME SyncPending PROVE Steady
  BY <1>19
     DEF PayoutInv, RowTypes, Steady, SpentGrows, KeysStay, SentStays, Absent, SyncPending,
         chain, Pending
<1>20. ASSUME NEW p \in Ids, NEW known \in BOOLEAN, SyncRead(p, known) PROVE Steady
  <2>1. UNCHANGED <<payout, prop, queue, spent>>
    BY <1>20 DEF SyncRead, chain
  <2> QED
    BY <2>1 DEF PayoutInv, ChainTypes, Steady, SpentGrows, KeysStay, SentStays, Absent
<1>21. ASSUME NEW p \in Ids, SyncFails(p) PROVE Steady
  BY <1>21
     DEF PayoutInv, RowTypes, Steady, SpentGrows, KeysStay, SentStays, Absent, SyncFails,
         chain, Pending, PropTypes, ProposalRows, Verdicts
<1>22. ASSUME SyncMissing PROVE Steady
  <2>1. UNCHANGED <<payout, prop, queue, spent>>
    BY <1>22 DEF SyncMissing, chain
  <2> QED
    BY <2>1 DEF PayoutInv, ChainTypes, Steady, SpentGrows, KeysStay, SentStays, Absent
<1>23. ASSUME SyncCommit PROVE Steady
  BY SMTT(30), <1>23
     DEF PayoutInv, RowTypes, Steady, SpentGrows, KeysStay, SentStays, Absent, SyncCommit,
         chain, StillPending, RowGone, Promotes, Pending, PayoutTypes, PayoutRows, PropTypes,
         ProposalRows, Verdicts, CallTypes, Idle, Replacing, Inserting, Reconciling, Passing,
         Missing, Committing, Settling, Updates
<1>24. ASSUME SyncEnd PROVE Steady
  BY <1>24
     DEF PayoutInv, RowTypes, Steady, SpentGrows, KeysStay, SentStays, Absent, SyncEnd, chain
<1>25. ASSUME EventRead PROVE Steady
  BY <1>25
     DEF PayoutInv, RowTypes, Steady, SpentGrows, KeysStay, SentStays, Absent, EventRead,
         chain, MatchingPayout
<1>26. ASSUME EventWrite PROVE Steady
  <2>1. UNCHANGED <<queue, spent>> /\ handler # Idle
    BY <1>26 DEF EventWrite, chain
  <2>2. CASE UNCHANGED <<payout, prop>>
    BY <2>1, <2>2 DEF PayoutInv, ChainTypes, Steady, SpentGrows, KeysStay, SentStays, Absent
  <2>3. CASE handler.pc = "settle"
    <3>1. handler.p \in Ids /\ payout[handler.p].key = spent[cursor + 1].key
          /\ spent[cursor + 1].key # NoKey
      BY <2>1, <2>3 DEF PayoutInv, CallTypes, Settling, HandlerReads
    <3>2. payout' = [payout EXCEPT ![handler.p].st = "EXECUTED", ![handler.p].tx = cursor + 1]
      BY <1>26, <2>3 DEF EventWrite
    <3>3. KeysStay
      BY <3>1, <3>2 DEF KeysStay, Absent, PayoutInv, RowTypes, PayoutTypes, PayoutRows
    <3>4. prop' = prop \/ prop' = [prop EXCEPT ![handler.p].st = "EXECUTED",
                                ![handler.p].exec = cursor + 1, ![handler.p].reason = FALSE]
      BY <1>26, <2>3 DEF EventWrite
    <3>5. SentStays
      BY <2>1, <3>1, <3>4
         DEF SentStays, PayoutInv, RowTypes, PropTypes, ProposalRows, Verdicts
    <3> QED
      BY <2>1, <3>3, <3>5 DEF PayoutInv, ChainTypes, Steady, SpentGrows
  <2> QED
    BY <1>26, <2>2, <2>3 DEF EventWrite
<1>27. ASSUME IndexOther PROVE Steady
  BY <1>27
     DEF PayoutInv, RowTypes, Steady, SpentGrows, KeysStay, SentStays, Absent, IndexOther,
         chain
<1>28. ASSUME ResetChainProjection PROVE Steady
  <2>1. UNCHANGED <<queue, spent>>
    BY <1>28 DEF ResetChainProjection
  <2>2. KeysStay
    BY <1>28
       DEF ResetChainProjection, KeysStay, Absent, PayoutInv, RowTypes, PayoutTypes,
           PayoutRows
  <2>3. ASSUME NEW p \in Ids, prop[p].st # "NONE"
        PROVE  /\ prop'[p].st # "NONE" /\ prop'[p].nonce = prop[p].nonce
               /\ prop[p].aged => prop'[p].aged
               /\ prop[p].late => prop'[p].late
    <3>1. CASE prop'[p] = prop[p]
      BY <2>3, <3>1
    <3>2. CASE prop'[p] = [prop[p] EXCEPT !.st = "SUBMITTING", !.exec = 0, !.reason = FALSE]
      BY <3>2 DEF PayoutInv, RowTypes, PropTypes, ProposalRows
    <3> QED
      BY <1>28, <3>1, <3>2 DEF ResetChainProjection
  <2> QED
    BY <2>1, <2>2, <2>3 DEF PayoutInv, ChainTypes, Steady, SpentGrows, SentStays
<1>29. ASSUME NEW r \in Requests,
              FindActive(r) \/ FindBlocking(r) \/ ReadGoal(r) \/ ReadNonce(r)
       PROVE  Steady
  <2>1. UNCHANGED <<payout, prop, queue, spent>>
    BY <1>29 DEF FindActive, FindBlocking, ReadGoal, ReadNonce, chain
  <2> QED
    BY <2>1 DEF PayoutInv, ChainTypes, Steady, SpentGrows, KeysStay, SentStays, Absent
<1>30. ASSUME NEW p \in Ids, CheckNonce(p) PROVE Steady
  BY <1>30
     DEF PayoutInv, RowTypes, Steady, SpentGrows, KeysStay, SentStays, Absent, CheckNonce,
         chain
<1>31. ASSUME NEW p \in Ids, ClaimIntent(p) PROVE Steady
  <2>1. UNCHANGED <<payout, queue, spent>>
    BY <1>31 DEF ClaimIntent, chain
  <2>2. ASSUME NEW q \in Ids, prop[q].st # "NONE" PROVE prop'[q] = prop[q]
    BY <1>31, <2>2 DEF ClaimIntent, PayoutInv, RowTypes, PropTypes, RowsAreCreated
  <2> QED
    BY <2>1, <2>2 DEF PayoutInv, ChainTypes, Steady, SpentGrows, KeysStay, SentStays, Absent
<1> QED
  BY <1>1, <1>2, <1>3, <1>4, <1>5, <1>6, <1>7, <1>8, <1>9, <1>10, <1>11, <1>12, <1>13, <1>14, <1>15, <1>16, <1>17, <1>18, <1>19, <1>20, <1>21, <1>22, <1>23, <1>24, <1>25, <1>26, <1>27, <1>28, <1>29, <1>30, <1>31
     DEF Next, ApiStep, SyncStep, SyncTrouble, IndexerStep, SafeStep
\* What the executions, the event handler and the sync job rely on outlasts a
\* step that leaves them alone.
LEMMA SpentStays ==
  ASSUME PayoutInv, Steady, UNCHANGED spent
  PROVE  SpentByTheQueue'
<1> SUFFICES ASSUME NEW i \in DOMAIN spent, spent[i].by \in Ids
             PROVE  /\ spent[i].by \in queue'
                    /\ prop'[spent[i].by].nonce = i - 1
                    /\ spent[i].key \in {NoKey, payout'[spent[i].by].key}
  BY DEF SpentByTheQueue
<1>1. /\ spent[i].by \in queue
      /\ prop[spent[i].by].nonce = i - 1
      /\ spent[i].key \in {NoKey, payout[spent[i].by].key}
  BY DEF PayoutInv, SpentByTheQueue
<1>2. prop[spent[i].by].st # "NONE" /\ ~Absent(spent[i].by)
  BY <1>1 DEF PayoutInv, RowsAreCreated
<1> QED
  BY <1>1, <1>2 DEF Steady, KeysStay, SentStays

LEMMA RowOfStays ==
  ASSUME PayoutInv, Steady, NEW p \in Ids, NEW i \in Nat, RowOf(p, i)
  PROVE  (i # 0 => /\ i \in DOMAIN spent' /\ spent'[i].key # NoKey
                   /\ payout'[p].key = spent'[i].key)
<1>1. DOMAIN spent \subseteq DOMAIN spent' /\ \A j \in DOMAIN spent : spent'[j] = spent[j]
  BY DEF Steady, SpentGrows, PayoutInv, ChainTypes
<1> QED
  BY <1>1 DEF Steady, KeysStay, RowOf, PayoutInv, RowsAreCreated

LEMMA HandlerStays ==
  ASSUME PayoutInv, Steady, UNCHANGED <<handler, cursor>>
  PROVE  HandlerReads'
<1> SUFFICES ASSUME handler # Idle
             PROVE  HandlerReads'
  BY DEF HandlerReads
<1>1. /\ cursor < Len(spent) /\ spent[cursor + 1].key # NoKey
      /\ handler.pc = "settle" => /\ payout[handler.p].key = spent[cursor + 1].key
                                  /\ handler.proposal => prop[handler.p].st # "NONE"
  BY DEF PayoutInv, HandlerReads
<1>2. cursor \in Nat /\ Len(spent) \in Nat /\ Len(spent') >= Len(spent)
      /\ spent'[cursor + 1] = spent[cursor + 1]
  BY <1>1 DEF PayoutInv, ChainTypes, Steady, SpentGrows
<1>3. handler.pc = "settle" => handler.p \in Ids
  BY DEF PayoutInv, CallTypes, Settling, Idle
<1>4. handler.pc = "settle" =>
        /\ payout'[handler.p].key = payout[handler.p].key
        /\ prop[handler.p].st # "NONE" => prop'[handler.p].st # "NONE"
  BY <1>1, <1>3 DEF Steady, KeysStay, SentStays, PayoutInv, RowsAreCreated
<1>5. cursor < Len(spent') /\ spent'[cursor + 1].key # NoKey
  BY <1>1, <1>2
<1> QED
  BY <1>1, <1>2, <1>4, <1>5 DEF HandlerReads

\* The record of the sync job has the fields of its stage.
LEMMA SyncIsShaped ==
  ASSUME PayoutInv
  PROVE  /\ sync.pc = "reconcile" => sync \in [pc : {"reconcile"}, todo : SUBSET Ids]
         /\ sync.pc = "reconciling" => sync \in Reconciling
         /\ sync.pc = "pass" => sync \in Passing
         /\ sync.pc = "missing" => sync \in Missing
         /\ sync.pc = "commit" => sync \in Committing
BY DEF PayoutInv, CallTypes, Idle, Reconciling, Passing, Missing, Committing

LEMMA SyncStays ==
  ASSUME PayoutInv, Steady, UNCHANGED sync
  PROVE  SyncReads'
<1>1. ASSUME sync.pc = "reconciling"
      PROVE  RowOf(sync.p, sync.row)' /\ sync.row \in {0, sync.tx}
  <2>1. sync.p \in Ids /\ sync.row \in Nat
    BY <1>1, SyncIsShaped DEF Reconciling
  <2>2. RowOf(sync.p, sync.row) /\ sync.row \in {0, sync.tx}
    BY <1>1 DEF PayoutInv, SyncReads
  <2> QED
    BY <2>1, <2>2, RowOfStays DEF RowOf
<1>2. ASSUME sync.pc = "commit"
      PROVE  RowOf(sync.p, sync.row)'
  <2>1. sync.p \in Ids /\ sync.row \in Nat
    BY <1>2, SyncIsShaped DEF Committing
  <2>2. RowOf(sync.p, sync.row)
    BY <1>2 DEF PayoutInv, SyncReads
  <2> QED
    BY <2>1, <2>2, RowOfStays DEF RowOf
<1> QED
  BY <1>1, <1>2 DEF SyncReads

\* What classifySafeProposal may answer, and what the service knew then.
LEMMA ClassifyAnswers ==
  ASSUME PayoutInv, NEW p \in Ids, NEW n \in Nat, NEW known \in BOOLEAN
  PROVE  LET tx == prop[p].nonce + 1
             c == Classify(p, n, known)
         IN  \/ \E b \in BOOLEAN : c = [st |-> "AWAITING", exec |-> 0, reason |-> b]
             \/ /\ tx \in DOMAIN spent /\ spent[tx].by = p
                /\ \/ c = [st |-> "AWAITING", exec |-> tx, reason |-> TRUE]
                   \/ spent[tx].key # NoKey /\ c = [st |-> "EXECUTED", exec |-> tx, reason |-> FALSE]
                   \/ spent[tx].key = NoKey /\ c = [st |-> "FAILED", exec |-> tx, reason |-> TRUE]
             \/ /\ tx \in DOMAIN spent /\ spent[tx].by # p
                /\ c = [st |-> "STALE", exec |-> 0, reason |-> TRUE]
<1> DEFINE tx == prop[p].nonce + 1
           own == \E t \in KnownAt(prop[p].nonce) : t.by = p
           replaced == \E t \in KnownAt(prop[p].nonce) : t.by # p
<1>1. own => tx \in DOMAIN spent /\ spent[tx].by = p
  BY DEF KnownAt, PayoutInv, ChainTypes, RowTypes, PropTypes, ProposalRows
<1>2. replaced => tx \in DOMAIN spent /\ spent[tx].by # p
  BY DEF KnownAt, PayoutInv, ChainTypes, RowTypes, PropTypes, ProposalRows
<1>3. CASE own /\ ~known
  <2>1. Classify(p, n, known) = [st |-> "AWAITING", exec |-> tx, reason |-> TRUE]
    BY <1>1, <1>2, <1>3 DEF Classify
  <2> QED
    BY <1>1, <1>3, <2>1
<1>4. CASE own /\ known /\ spent[tx].key # NoKey
  <2>1. Classify(p, n, known) = [st |-> "EXECUTED", exec |-> tx, reason |-> FALSE]
    BY <1>1, <1>2, <1>4 DEF Classify
  <2> QED
    BY <1>1, <1>4, <2>1
<1>5. CASE own /\ known /\ spent[tx].key = NoKey
  <2>1. Classify(p, n, known) = [st |-> "FAILED", exec |-> tx, reason |-> TRUE]
    BY <1>1, <1>2, <1>5 DEF Classify
  <2> QED
    BY <1>1, <1>5, <2>1
<1>6. CASE ~own /\ replaced /\ prop[p].nonce < n
  <2>1. Classify(p, n, known) = [st |-> "STALE", exec |-> 0, reason |-> TRUE]
    BY <1>6 DEF Classify
  <2> QED
    BY <1>2, <1>6, <2>1
<1>7. CASE ~own /\ ~(replaced /\ prop[p].nonce < n)
  <2>1. Classify(p, n, known) = [st |-> "AWAITING", exec |-> 0, reason |-> prop[p].nonce < n]
    BY <1>7 DEF Classify
  <2>2. (prop[p].nonce < n) \in BOOLEAN
    OBVIOUS
  <2> HIDE DEF own, replaced
  <2> QED
    BY <2>1, <2>2
<1> HIDE DEF own, replaced
<1> QED
  BY <1>3, <1>4, <1>5, <1>6, <1>7

LEMMA QueueStays ==
  ASSUME PayoutInv, Steady, UNCHANGED queue
  PROVE  QueueIsBounded'
<1>1. PICK b \in Nat : \A p \in queue : prop[p].nonce <= b
  BY DEF PayoutInv, QueueIsBounded
<1>2. \A p \in queue : prop'[p].nonce = prop[p].nonce
  BY DEF PayoutInv, ChainTypes, RowsAreCreated, Steady, SentStays
<1> QED
  BY <1>1, <1>2 DEF QueueIsBounded

\* A nonempty set of numbers below a bound has a largest one.
LEMMA Largest ==
  ASSUME NEW S, S \subseteq Nat, S # {}, NEW b \in Nat, \A x \in S : x <= b
  PROVE  \E m \in S : \A x \in S : x <= m
<1> DEFINE bounds == {n \in Nat : \A x \in S : x <= n}
           R == OpToRel(<, Nat)
<1>1. \A x, y \in Nat : y < x => <<y, x>> \in R
  BY DEF OpToRel
<1>2. IsWellFoundedOn(R, Nat)
  BY NatLessThanWellFounded
<1>3. b \in bounds /\ bounds \subseteq Nat
  OBVIOUS
<1> HIDE DEF R
<1>4. PICK n \in bounds : \A y \in bounds : ~ (<<y, n>> \in R)
  BY <1>2, <1>3, WFMin
<1>5. n \in S
  <2> SUFFICES ASSUME n \notin S
               PROVE  FALSE
    OBVIOUS
  <2>1. \A x \in S : x < n
    <3> TAKE x \in S
    <3>1. x <= n /\ x # n /\ x \in Nat /\ n \in Nat
      BY <1>3, <1>4
    <3> QED
      BY <3>1
  <2>2. PICK x0 \in S : x0 < n
    BY <2>1
  <2>3. n \in Nat /\ n - 1 \in Nat /\ n - 1 < n
    BY <1>3, <1>4, <2>2
  <2>4. \A x \in S : x <= n - 1
    BY <2>1, <2>3
  <2>5. n - 1 \in bounds
    BY <2>3, <2>4
  <2>6. <<n - 1, n>> \in R
    BY <1>1, <2>3
  <2> QED
    BY <1>4, <2>5, <2>6
<1> QED
  BY <1>5

\* getNextNonce answers one past the last nonce that is queued or executed.
LEMMA NextNonceIsLast ==
  ASSUME PayoutInv
  PROVE  /\ NextNonce \in Nat /\ NextNonce >= Len(spent)
         /\ \A p \in queue : prop[p].nonce < NextNonce
         /\ \/ NextNonce = Len(spent)
            \/ \E p \in queue : prop[p].nonce >= Len(spent) /\ NextNonce = prop[p].nonce + 1
<1> DEFINE S == {prop[p].nonce + 1 : p \in {q \in queue : prop[q].nonce >= Len(spent)}}
                \union {Len(spent)}
<1>1. Len(spent) \in Nat /\ \A p \in queue : prop[p].nonce \in Nat
  BY DEF PayoutInv, ChainTypes, RowTypes, PropTypes, ProposalRows
<1>2. PICK b \in Nat : \A p \in queue : prop[p].nonce <= b
  BY DEF PayoutInv, QueueIsBounded
<1>3. S \subseteq Nat /\ Len(spent) \in S
  BY <1>1
<1>4. \A x \in S : x <= b + 1 + Len(spent)
  BY <1>1, <1>2
<1>5. \E m \in S : \A x \in S : x <= m
  <2> HIDE DEF S
  <2>1. b + 1 + Len(spent) \in Nat
    BY <1>1
  <2> QED
    BY <1>3, <1>4, <2>1, Largest
<1>6. NextNonce = CHOOSE m \in S : \A x \in S : x <= m
  BY DEF NextNonce
<1>7. NextNonce \in S /\ \A x \in S : x <= NextNonce
  <2> HIDE DEF S
  <2> QED
    BY <1>5, <1>6
<1>8. \A p \in queue : prop[p].nonce < NextNonce
  <2> TAKE p \in queue
  <2>1. CASE prop[p].nonce >= Len(spent)
    BY <1>1, <1>3, <1>7, <2>1
  <2>2. CASE prop[p].nonce < Len(spent)
    <3>1. Len(spent) <= NextNonce /\ NextNonce \in Nat
      BY <1>3, <1>7
    <3> QED
      BY <1>1, <2>2, <3>1
  <2> QED
    BY <1>1, <2>1, <2>2
<1> QED
  BY <1>3, <1>7, <1>8

\* An execution is added at the end.
LEMMA ExecutionIsAdded ==
  ASSUME PayoutInv, NEW t \in Transactions, spent' = Append(spent, t)
  PROVE  /\ spent' \in Seq(Transactions) /\ Len(spent') = Len(spent) + 1 /\ Len(spent) \in Nat
         /\ \A i \in DOMAIN spent' :
              \/ i \in DOMAIN spent /\ spent'[i] = spent[i]
              \/ i = Len(spent) + 1 /\ spent'[i] = t
BY DEF PayoutInv, ChainTypes

LEMMA ClassifyIsUpdate ==
  ASSUME PayoutInv, NEW p \in Ids, NEW n \in Nat, NEW known \in BOOLEAN
  PROVE  Classify(p, n, known) \in Updates
<1>1. prop[p].nonce + 1 \in Nat
  BY DEF PayoutInv, RowTypes, PropTypes, ProposalRows
<1>2. \A st \in Verdicts, e \in Nat, b \in BOOLEAN :
        [st |-> st, exec |-> e, reason |-> b] \in Updates
  BY Zenon DEF Updates
<1> HIDE DEF Updates
<1> QED
  BY <1>1, <1>2, ClassifyAnswers DEF Verdicts

\* The rows stand for executions, and reconcileConfirmedSafePayout finds one of
\* the payout's key or none.
LEMMA RowsAreSpent ==
  ASSUME PayoutInv, NEW i \in rows
  PROVE  i \in DOMAIN spent /\ i \in Nat \ {0} /\ spent[i].key # NoKey
BY DEF PayoutInv, ChainTypes, RowsAreReleases

LEMMA ProjectionFound ==
  ASSUME PayoutInv, NEW p \in Ids, NEW tx \in Nat
  PROVE  /\ ConfirmedProjection(p, tx) \in {0, tx}
         /\ RowOf(p, ConfirmedProjection(p, tx))
BY RowsAreSpent DEF ConfirmedProjection, RowOf

\* A payout that takes over a row stands for the row's release.
LEMMA PromotedOnce ==
  ASSUME PayoutInv, NEW p \in Ids, NEW i \in rows,
         payout[p].st = "PROPOSED", payout[p].key = spent[i].key,
         payout' = [payout EXCEPT ![p].st = "EXECUTED", ![p].tx = i],
         rows' = rows \ {i}, UNCHANGED <<spent, cursor>>
  PROVE  (ExecutedIsReleased /\ CountedOnce)'
<1>1. /\ payout'[p].st = "EXECUTED" /\ payout'[p].tx = i /\ payout'[p].key = payout[p].key
      /\ \A q \in Ids \ {p} : payout'[q] = payout[q]
  BY DEF PayoutInv, RowTypes, PayoutTypes, PayoutRows
<1>2. i \in 1..cursor
  BY DEF PayoutInv, ChainTypes
<1>3. \A q \in Ids : payout[q].st = "EXECUTED" => payout[q].tx # i
  BY DEF PayoutInv, CountedOnce
<1>4. ExecutedIsReleased'
  BY ZenonT(40), <1>1, <1>2 DEF PayoutInv, ExecutedIsReleased
<1>5. CountedOnce'
  <2> SUFFICES ASSUME NEW q \in Ids, payout'[q].st = "EXECUTED"
               PROVE  /\ payout'[q].tx \notin rows'
                      /\ \A s \in Ids : payout'[s].st = "EXECUTED"
                                        /\ payout'[s].tx = payout'[q].tx => s = q
    BY DEF CountedOnce
  <2>1. CASE q = p
    <3>1. payout'[q].tx = i /\ i \notin rows'
      BY <1>1, <2>1
    <3>2. \A s \in Ids : payout'[s].st = "EXECUTED" /\ payout'[s].tx = i => s = p
      BY <1>1, <1>3
    <3> HIDE DEF CountedOnce
    <3> QED
      BY <2>1, <3>1, <3>2, Zenon
  <2>2. CASE q # p
    <3>1. payout'[q] = payout[q]
      BY <1>1, <2>2
    <3>2. payout[q].tx \notin rows /\ payout[q].tx # i
      BY <1>3, <3>1 DEF PayoutInv, CountedOnce
    <3>3. \A s \in Ids : payout[s].st = "EXECUTED" /\ payout[s].tx = payout[q].tx => s = q
      BY <3>1 DEF PayoutInv, CountedOnce
    <3>4. \A s \in Ids : payout'[s].st = "EXECUTED" /\ payout'[s].tx = payout[q].tx => s = q
      <4> TAKE s \in Ids
      <4>1. s = p => payout'[s].tx = i
        BY <1>1
      <4>2. s # p => payout'[s] = payout[s]
        BY <1>1
      <4> QED
        BY <3>2, <3>3, <4>1, <4>2
    <3>5. payout[q].tx \notin rows'
      BY <3>2
    <3> QED
      BY <3>1, <3>4, <3>5
  <2> QED
    BY <2>1, <2>2
<1> QED
  BY <1>4, <1>5

\* A payout the event handler settles stands for the event's release.
LEMMA SettledOnce ==
  ASSUME PayoutInv, NEW p \in Ids, cursor < Len(spent),
         payout[p].key = spent[cursor + 1].key,
         payout' = [payout EXCEPT ![p].st = "EXECUTED", ![p].tx = cursor + 1],
         cursor' = cursor + 1, UNCHANGED <<rows, spent>>
  PROVE  (ExecutedIsReleased /\ CountedOnce)'
<1>1. /\ payout'[p].st = "EXECUTED" /\ payout'[p].tx = cursor + 1
      /\ payout'[p].key = payout[p].key
      /\ \A q \in Ids \ {p} : payout'[q] = payout[q]
  BY DEF PayoutInv, RowTypes, PayoutTypes, PayoutRows
<1>2. cursor \in Nat /\ rows \subseteq 1..cursor
  BY DEF PayoutInv, ChainTypes
<1>3. \A q \in Ids : payout[q].st = "EXECUTED" => payout[q].tx \in 1..cursor
  BY DEF PayoutInv, ExecutedIsReleased
<1>4. ExecutedIsReleased'
  <2> SUFFICES ASSUME NEW q \in Ids, payout'[q].st = "EXECUTED"
               PROVE  payout'[q].tx \in 1..(cursor + 1)
                      /\ spent[payout'[q].tx].key = payout'[q].key
    BY DEF ExecutedIsReleased
  <2>1. CASE q = p
    BY <1>1, <1>2, <2>1
  <2>2. CASE q # p
    <3>1. payout'[q] = payout[q]
      BY <1>1, <2>2
    <3> QED
      BY <1>2, <3>1 DEF PayoutInv, ExecutedIsReleased
  <2> QED
    BY <2>1, <2>2
<1>5. CountedOnce'
  <2> SUFFICES ASSUME NEW q \in Ids, payout'[q].st = "EXECUTED"
               PROVE  /\ payout'[q].tx \notin rows
                      /\ \A s \in Ids : payout'[s].st = "EXECUTED"
                                        /\ payout'[s].tx = payout'[q].tx => s = q
    BY DEF CountedOnce
  <2>1. CASE q = p
    <3>1. payout'[q].tx = cursor + 1 /\ cursor + 1 \notin rows
      BY <1>1, <1>2, <2>1
    <3>2. \A s \in Ids : payout'[s].st = "EXECUTED" /\ payout'[s].tx = cursor + 1 => s = p
      <4>1. \A n \in 1..cursor : n # cursor + 1
        BY <1>2
      <4> QED
        BY <1>1, <1>3, <4>1
    <3> QED
      BY <2>1, <3>1, <3>2
  <2>2. CASE q # p
    <3>1. payout'[q] = payout[q]
      BY <1>1, <2>2
    <3>2. payout[q].tx \notin rows /\ payout[q].tx # cursor + 1
      <4>1. payout[q].st = "EXECUTED" /\ payout[q].tx \in 1..cursor
        BY <1>3, <3>1
      <4> QED
        BY <1>2, <4>1 DEF PayoutInv, CountedOnce
    <3>3. \A s \in Ids : payout[s].st = "EXECUTED" /\ payout[s].tx = payout[q].tx => s = q
      BY <3>1 DEF PayoutInv, CountedOnce
    <3> QED
      BY <1>1, <2>2, <3>1, <3>2, <3>3
  <2> QED
    BY <2>1, <2>2
<1> QED
  BY <1>4, <1>5

\* A step that settles nothing and adds no row disturbs neither.
LEMMA NothingSettled ==
  ASSUME PayoutInv, \A q \in Ids : payout'[q].st = "EXECUTED" => payout'[q] = payout[q],
         rows' \subseteq rows, UNCHANGED <<spent, cursor>>
  PROVE  (ExecutedIsReleased /\ CountedOnce)'
<1>1. ExecutedIsReleased'
  BY DEF PayoutInv, ExecutedIsReleased
<1>2. CountedOnce'
  BY DEF PayoutInv, CountedOnce
<1> QED
  BY <1>1, <1>2

\* What the sync job writes to a payout and the rows.
LEMMA ReconcileWrites ==
  ASSUME PayoutInv, ReconcileCommit
  PROVE  /\ sync.p \in Ids
         /\ \/ UNCHANGED <<payout, rows>>
            \/ /\ sync.row \in rows /\ sync.tx = sync.row
               /\ payout[sync.p].st = "PROPOSED" /\ payout[sync.p].key = spent[sync.row].key
               /\ payout' = [payout EXCEPT ![sync.p].st = "EXECUTED", ![sync.p].tx = sync.row]
               /\ rows' = rows \ {sync.row}
<1>1. sync.p \in Ids
  BY SyncIsShaped DEF ReconcileCommit, Reconciling
<1>2. RowOf(sync.p, sync.row) /\ sync.row \in {0, sync.tx}
  BY DEF PayoutInv, SyncReads, ReconcileCommit
<1> QED
  BY <1>1, <1>2 DEF ReconcileCommit, Promotes, RowGone, RowOf

LEMMA CommitWrites ==
  ASSUME PayoutInv, SyncCommit
  PROVE  /\ sync.p \in Ids /\ sync.next \in Updates /\ sync.row \in Nat
         /\ \/ UNCHANGED payout /\ rows' = rows
            \/ /\ payout[sync.p].st = "PROPOSED" /\ sync.next.st \in {"FAILED", "STALE"}
               /\ prop[sync.p].st \in Pending
               /\ payout' = [payout EXCEPT ![sync.p].st = "FAILED"]
               /\ rows' \subseteq rows /\ (sync.row = 0 => rows' = rows)
            \/ /\ sync.row \in rows
               /\ payout[sync.p].st = "PROPOSED" /\ payout[sync.p].key = spent[sync.row].key
               /\ payout' = [payout EXCEPT ![sync.p].st = "EXECUTED", ![sync.p].tx = sync.row]
               /\ rows' = rows \ {sync.row}
         /\ \/ UNCHANGED prop
            \/ prop[sync.p].st \in Pending /\ prop' = [prop EXCEPT ![sync.p].reason = TRUE]
            \/ /\ prop[sync.p].st \in Pending
               /\ prop' = [prop EXCEPT ![sync.p].st = sync.next.st,
                                       ![sync.p].exec = sync.next.exec,
                                       ![sync.p].reason = sync.next.reason]
<1>1. sync.p \in Ids /\ sync.next \in Updates /\ sync.row \in Nat
  BY SyncIsShaped DEF SyncCommit, Committing
<1>2. RowOf(sync.p, sync.row)
  BY DEF PayoutInv, SyncReads, SyncCommit
<1>3. payout' = IF ~StillPending(sync.p) \/ payout[sync.p].st # "PROPOSED" THEN payout
                        ELSE IF sync.next.st \in {"FAILED", "STALE"}
                        THEN [payout EXCEPT ![sync.p].st = "FAILED"]
                        ELSE IF sync.row # 0 /\ ~RowGone(sync.p, sync.row)
                        THEN [payout EXCEPT ![sync.p].st = "EXECUTED", ![sync.p].tx = sync.row]
                        ELSE payout
  BY DEF SyncCommit
<1>4. rows' = IF StillPending(sync.p) /\ Promotes(sync.p, sync.row)
              THEN rows \ {sync.row} ELSE rows
  BY DEF SyncCommit
<1>5. \/ UNCHANGED payout /\ rows' = rows
      \/ /\ payout[sync.p].st = "PROPOSED" /\ sync.next.st \in {"FAILED", "STALE"}
         /\ prop[sync.p].st \in Pending
         /\ payout' = [payout EXCEPT ![sync.p].st = "FAILED"]
         /\ rows' \subseteq rows /\ (sync.row = 0 => rows' = rows)
      \/ /\ sync.row \in rows
         /\ payout[sync.p].st = "PROPOSED" /\ payout[sync.p].key = spent[sync.row].key
         /\ payout' = [payout EXCEPT ![sync.p].st = "EXECUTED", ![sync.p].tx = sync.row]
         /\ rows' = rows \ {sync.row}
  BY <1>2, <1>3, <1>4 DEF StillPending, Promotes, RowGone, RowOf
<1>6. \/ UNCHANGED prop
      \/ prop[sync.p].st \in Pending /\ prop' = [prop EXCEPT ![sync.p].reason = TRUE]
      \/ /\ prop[sync.p].st \in Pending
         /\ prop' = [prop EXCEPT ![sync.p].st = sync.next.st,
                                 ![sync.p].exec = sync.next.exec,
                                 ![sync.p].reason = sync.next.reason]
  BY DEF SyncCommit, StillPending
<1> QED
  BY <1>1, <1>5, <1>6

\* What the event handler writes.
LEMMA HandlerWrites ==
  ASSUME PayoutInv, EventWrite
  PROVE  /\ cursor' = cursor + 1 /\ handler' = Idle
         /\ cursor < Len(spent) /\ spent[cursor + 1].key # NoKey
         /\ UNCHANGED <<create, submit, sync, goals, queue, spent, seen, resets>>
         /\ \/ /\ handler.pc = "project"
               /\ rows' = rows \union {cursor + 1} /\ UNCHANGED <<payout, intent, prop>>
            \/ /\ handler.pc = "settle" /\ UNCHANGED rows
               /\ handler.p \in Ids /\ payout[handler.p].key = spent[cursor + 1].key
               /\ payout' = [payout EXCEPT ![handler.p].st = "EXECUTED",
                                           ![handler.p].tx = cursor + 1]
               /\ \/ UNCHANGED prop
                  \/ /\ prop[handler.p].st # "NONE"
                     /\ prop' = [prop EXCEPT ![handler.p].st = "EXECUTED",
                                ![handler.p].exec = cursor + 1, ![handler.p].reason = FALSE]
               /\ \/ UNCHANGED intent
                  \/ intent' = [intent EXCEPT ![handler.p].consumed = TRUE]
<1>1. /\ handler # Idle /\ cursor < Len(spent) /\ spent[cursor + 1].key # NoKey
      /\ handler.pc = "settle" => /\ payout[handler.p].key = spent[cursor + 1].key
                                  /\ handler.proposal => prop[handler.p].st # "NONE"
  BY DEF PayoutInv, HandlerReads, EventWrite
<1>2. handler.pc = "settle" => handler.p \in Ids
  BY <1>1 DEF PayoutInv, CallTypes, Settling
<1> QED
  BY <1>1, <1>2 DEF EventWrite, chain

\* The expiry that several calls begin with.
LEMMA ExpiryKeeps ==
  ASSUME PayoutInv, Steady, payout' = ExpiredPayouts, intent' = ExpiredIntents,
         UNCHANGED <<prop, rows, submit, handler, cursor, queue, chain>>,
         CallTypes', SyncReads'
  PROVE  PayoutInv'
<1>1. (PropTypes /\ ChainTypes /\ RowsAreReleases)'
  BY DEF PayoutInv, RowTypes, chain, PropTypes, ChainTypes, RowsAreReleases
<1>2. PayoutTypes'
  BY SMTT(30) DEF PayoutInv, RowTypes, ExpiredPayouts, Expirable, PayoutTypes, PayoutRows
<1>3. IntentTypes'
  BY ZenonT(40) DEF PayoutInv, RowTypes, ExpiredIntents, Expirable, IntentTypes, IntentRows
<1>4. RowsAreCreated'
  BY DEF PayoutInv, RowTypes, ExpiredPayouts, ExpiredIntents, Expirable, RowsAreCreated,
         Absent, PayoutTypes, PayoutRows, IntentTypes, IntentRows
<1>5. SpentByTheQueue'
  BY SpentStays DEF chain
<1>6. ExecutedIsReleased'
  BY DEF PayoutInv, RowTypes, chain, ExpiredPayouts, Expirable, ExecutedIsReleased,
         PayoutTypes, PayoutRows
<1>7. CountedOnce'
  BY DEF PayoutInv, RowTypes, ExpiredPayouts, Expirable, CountedOnce, PayoutTypes, PayoutRows
<1>8. HandlerReads'
  BY HandlerStays
<1>9. QueueIsBounded'
  BY QueueStays
<1> QED
  BY <1>1, <1>2, <1>3, <1>4, <1>5, <1>6, <1>7, <1>8, <1>9 DEF PayoutInv, RowTypes

\* A step that only moves a call on.
LEMMA CallsMove ==
  ASSUME PayoutInv, CallTypes',
         UNCHANGED <<payout, intent, prop, rows, sync, handler, cursor, queue, chain>>,
         \A p \in Ids : \/ submit'[p] \in {submit[p], "idle"}
                        \/ submit'[p] = "claiming" /\ submit[p] = "nonce"
                        \/ submit'[p] = "proposing" /\ prop[p].st # "NONE"
                        \/ submit'[p] = "nonce" /\ prop[p].st = "NONE"
  PROVE  PayoutInv'
<1>1. (PayoutTypes /\ IntentTypes /\ PropTypes /\ ChainTypes /\ SpentByTheQueue
       /\ RowsAreReleases /\ ExecutedIsReleased /\ CountedOnce /\ HandlerReads /\ SyncReads)'
  BY DEF PayoutInv, RowTypes, chain, PayoutTypes, IntentTypes, PropTypes,
         ChainTypes, SpentByTheQueue, RowsAreReleases, ExecutedIsReleased, CountedOnce,
         HandlerReads, SyncReads, RowOf
<1>2. RowsAreCreated'
  BY DEF PayoutInv, RowsAreCreated, Absent
<1>3. QueueIsBounded'
  BY DEF PayoutInv, QueueIsBounded
<1> QED
  BY <1>1, <1>2, <1>3 DEF PayoutInv, RowTypes

LEMMA ExpireAbandonedSafeIntentsKeeps ==
  ASSUME PayoutInv, ExpireAbandonedSafeIntents
  PROVE  PayoutInv'
<1>0. Steady
  BY StepIsSteady DEF Next, ApiStep
<1>1. CallTypes'
  BY DEF PayoutInv, ExpireAbandonedSafeIntents, chain, CallTypes
<1>2. SyncReads'
  BY <1>0, SyncStays DEF ExpireAbandonedSafeIntents
<1> QED
  BY <1>0, <1>1, <1>2, ExpiryKeeps DEF ExpireAbandonedSafeIntents

LEMMA ExecuteQueuedKeeps ==
  ASSUME PayoutInv, NEW p \in Ids, ExecuteQueued(p)
  PROVE  PayoutInv'
<1>0. Steady
  BY StepIsSteady DEF Next, ApiStep, SyncStep, SyncTrouble, IndexerStep, SafeStep
<1>1. (PayoutTypes /\ IntentTypes /\ PropTypes /\ CallTypes /\ RowsAreCreated /\ CountedOnce)'
  BY DEF PayoutInv, RowTypes, ExecuteQueued, chain, PayoutTypes, IntentTypes, PropTypes,
         CallTypes, RowsAreCreated, Absent, CountedOnce
<1>2. ChainTypes'
  <2>1. PICK k \in Keys \cup {NoKey} : /\ k \in {NoKey, payout[p].key}
                                       /\ spent' = Append(spent, [by |-> p, key |-> k])
    BY DEF ExecuteQueued, PayoutInv, RowTypes, PayoutTypes, PayoutRows
  <2>2. [by |-> p, key |-> k] \in Transactions
    BY DEF Transactions
  <2> QED
    BY <2>1, <2>2, ExecutionIsAdded DEF ExecuteQueued, PayoutInv, ChainTypes
<1>3. SpentByTheQueue'
  <2>1. PICK k \in Keys \cup {NoKey} : /\ k \in {NoKey, payout[p].key}
                                       /\ spent' = Append(spent, [by |-> p, key |-> k])
    BY DEF ExecuteQueued, PayoutInv, RowTypes, PayoutTypes, PayoutRows
  <2>2. [by |-> p, key |-> k] \in Transactions
    BY DEF Transactions
  <2>3. \A i \in DOMAIN spent' : \/ i \in DOMAIN spent /\ spent'[i] = spent[i]
                                 \/ i - 1 = prop[p].nonce /\ spent'[i] = [by |-> p, key |-> k]
    <3>1. prop[p].nonce = Len(spent) /\ Len(spent) + 1 - 1 = Len(spent)
      BY DEF ExecuteQueued, PayoutInv, ChainTypes
    <3>2. \A i \in DOMAIN spent' : \/ i \in DOMAIN spent /\ spent'[i] = spent[i]
                                   \/ i = Len(spent) + 1 /\ spent'[i] = [by |-> p, key |-> k]
      <4>1. PICK t \in Transactions : t = [by |-> p, key |-> k] /\ spent' = Append(spent, t)
        BY <2>1, <2>2
      <4>2. \A i \in DOMAIN spent' : \/ i \in DOMAIN spent /\ spent'[i] = spent[i]
                                     \/ i = Len(spent) + 1 /\ spent'[i] = t
        BY <4>1, ExecutionIsAdded
      <4> QED
        BY <4>1, <4>2
    <3> QED
      BY <3>1, <3>2
  <2> QED
    BY <2>1, <2>3 DEF ExecuteQueued, PayoutInv, SpentByTheQueue
<1>u. UNCHANGED <<payout, rows, cursor>>
  BY DEF ExecuteQueued
<1>4. RowsAreReleases'
  BY <1>0, <1>u, RowsAreSpent DEF PayoutInv, RowsAreReleases, Steady, SpentGrows
<1>5. ExecutedIsReleased'
  BY <1>0, <1>u DEF PayoutInv, ExecutedIsReleased, Steady, SpentGrows, ChainTypes
<1>6. HandlerReads'
  BY <1>0, HandlerStays DEF ExecuteQueued, chain
<1>7. SyncReads'
  BY <1>0, SyncStays DEF ExecuteQueued, chain
<1>q. QueueIsBounded'
  BY <1>0, QueueStays DEF ExecuteQueued, chain
<1> QED
  BY <1>q, <1>1, <1>2, <1>3, <1>4, <1>5, <1>6, <1>7 DEF PayoutInv, RowTypes

LEMMA ExecuteOutsideKeeps ==
  ASSUME PayoutInv, NEW k \in Keys \cup {NoKey}, ExecuteOutside(k)
  PROVE  PayoutInv'
<1>0. Steady
  BY StepIsSteady DEF Next, ApiStep, SyncStep, SyncTrouble, IndexerStep, SafeStep
<1>1. (PayoutTypes /\ IntentTypes /\ PropTypes /\ CallTypes /\ RowsAreCreated /\ CountedOnce)'
  BY DEF PayoutInv, RowTypes, ExecuteOutside, chain, PayoutTypes, IntentTypes, PropTypes,
         CallTypes, RowsAreCreated, Absent, CountedOnce
<1>2. ChainTypes'
  BY DEF PayoutInv, ExecuteOutside, chain, ChainTypes, Transactions
<1>3. SpentByTheQueue'
  <2>1. [by |-> Outside, key |-> k] \in Transactions
    BY DEF Transactions
  <2>2. \A i \in DOMAIN spent' : \/ i \in DOMAIN spent /\ spent'[i] = spent[i]
                                 \/ spent'[i].by = Outside
    BY <2>1, ExecutionIsAdded DEF ExecuteOutside
  <2> QED
    BY <2>2, PayoutAssumption DEF ExecuteOutside, PayoutInv, SpentByTheQueue, Outside
<1>u. UNCHANGED <<payout, rows, cursor>>
  BY DEF ExecuteOutside
<1>4. RowsAreReleases'
  BY <1>0, <1>u, RowsAreSpent DEF PayoutInv, RowsAreReleases, Steady, SpentGrows
<1>5. ExecutedIsReleased'
  BY <1>0, <1>u DEF PayoutInv, ExecutedIsReleased, Steady, SpentGrows, ChainTypes
<1>6. HandlerReads'
  BY <1>0, HandlerStays DEF ExecuteOutside, chain
<1>7. SyncReads'
  BY <1>0, SyncStays DEF ExecuteOutside, chain
<1>q. QueueIsBounded'
  BY <1>0, QueueStays DEF ExecuteOutside, chain
<1> QED
  BY <1>q, <1>1, <1>2, <1>3, <1>4, <1>5, <1>6, <1>7 DEF PayoutInv, RowTypes

LEMMA ServiceObservesKeeps ==
  ASSUME PayoutInv, ServiceObserves
  PROVE  PayoutInv'
<1>0. Steady
  BY StepIsSteady DEF Next, ApiStep, SyncStep, SyncTrouble, IndexerStep, SafeStep
<1>1. (PayoutTypes /\ IntentTypes /\ PropTypes /\ CallTypes /\ RowsAreCreated
       /\ SpentByTheQueue /\ RowsAreReleases /\ ExecutedIsReleased /\ CountedOnce
       /\ HandlerReads /\ SyncReads)'
  BY DEF PayoutInv, RowTypes, ServiceObserves, chain, PayoutTypes, IntentTypes, PropTypes,
         CallTypes, RowsAreCreated, Absent, SpentByTheQueue, RowsAreReleases,
         ExecutedIsReleased, CountedOnce, HandlerReads, SyncReads, RowOf
<1>2. ChainTypes'
  BY DEF PayoutInv, ServiceObserves, chain, ChainTypes, Transactions
<1>q. QueueIsBounded'
  BY <1>0, QueueStays DEF ServiceObserves, chain
<1> QED
  BY <1>q, <1>1, <1>2 DEF PayoutInv, RowTypes

LEMMA IntentFallsDueKeeps ==
  ASSUME PayoutInv, NEW p \in Ids, IntentFallsDue(p)
  PROVE  PayoutInv'
<1>0. Steady
  BY StepIsSteady DEF Next, ApiStep, SyncStep, SyncTrouble, IndexerStep, SafeStep
<1>1. (PayoutTypes /\ PropTypes /\ CallTypes /\ ChainTypes /\ SpentByTheQueue
       /\ RowsAreReleases /\ ExecutedIsReleased /\ CountedOnce /\ HandlerReads /\ SyncReads)'
  BY DEF PayoutInv, RowTypes, IntentFallsDue, chain, PayoutTypes, PropTypes, CallTypes,
         ChainTypes, SpentByTheQueue, RowsAreReleases, ExecutedIsReleased, CountedOnce,
         HandlerReads, SyncReads, RowOf
<1>2. IntentTypes'
  BY Zenon DEF PayoutInv, RowTypes, IntentFallsDue, chain, Unconsumed, IntentTypes, IntentRows
<1>3. RowsAreCreated'
  BY DEF PayoutInv, RowTypes, IntentFallsDue, chain, Unconsumed, RowsAreCreated, Absent,
         NoProposal, IntentTypes, IntentRows
<1>q. QueueIsBounded'
  BY <1>0, QueueStays DEF IntentFallsDue, chain
<1> QED
  BY <1>q, <1>1, <1>2, <1>3 DEF PayoutInv, RowTypes

LEMMA ProposalAgesKeeps ==
  ASSUME PayoutInv, NEW p \in Ids, ProposalAges(p)
  PROVE  PayoutInv'
<1>0. Steady
  BY StepIsSteady DEF Next, ApiStep, SyncStep, SyncTrouble, IndexerStep, SafeStep
<1>1. (PayoutTypes /\ IntentTypes /\ CallTypes /\ ChainTypes /\ RowsAreReleases
       /\ ExecutedIsReleased /\ CountedOnce /\ SyncReads)'
  BY DEF PayoutInv, RowTypes, ProposalAges, chain, PayoutTypes, IntentTypes, CallTypes,
         ChainTypes, RowsAreReleases, ExecutedIsReleased, CountedOnce,
         SyncReads, RowOf
<1>2. PropTypes'
  BY Zenon DEF PayoutInv, RowTypes, ProposalAges, chain, PropTypes, ProposalRows, Verdicts
<1>3. RowsAreCreated'
  BY DEF PayoutInv, RowTypes, ProposalAges, chain, RowsAreCreated, Absent, NoProposal,
         PropTypes, ProposalRows, Verdicts
<1>4. SpentByTheQueue'
  BY <1>0, SpentStays DEF ProposalAges, chain
<1>h. HandlerReads'
  BY <1>0, HandlerStays DEF ProposalAges, chain
<1>q. QueueIsBounded'
  BY <1>0, QueueStays DEF ProposalAges, chain
<1> QED
  BY <1>q, <1>h, <1>1, <1>2, <1>3, <1>4 DEF PayoutInv, RowTypes

LEMMA BeginCreateKeeps ==
  ASSUME PayoutInv, NEW r \in Requests, NEW k \in Keys, NEW d \in Deliveries, BeginCreate(r, k, d)
  PROVE  PayoutInv'
<1>0. Steady
  BY StepIsSteady DEF Next, ApiStep
<1>1. CallTypes'
  <2>1. [pc |-> "active", key |-> k, delivery |-> d] \in Calls
    BY DEF Calls, Reading
  <2> QED
    BY <2>1 DEF BeginCreate, PayoutInv, CallTypes
<1>2. SyncReads'
  BY <1>0, SyncStays DEF BeginCreate
<1> QED
  BY <1>0, <1>1, <1>2, ExpiryKeeps DEF BeginCreate

\* What a create call has in hand between its reads.
LEMMA CallIsReading ==
  ASSUME PayoutInv, NEW r \in Requests, create[r].pc \in {"active", "blocking", "goal", "nonce"}
  PROVE  create[r] \in Reading
BY DEF PayoutInv, CallTypes, Calls, Idle, Ended, Replacing, Inserting, Reading

LEMMA CallProceeds ==
  ASSUME PayoutInv, NEW r \in Requests, NEW ok \in BOOLEAN,
         NEW pc \in {"active", "blocking", "goal", "nonce"}, create[r] \in Reading,
         Proceeds(r, ok, pc), UNCHANGED <<submit, sync, handler>>
  PROVE  CallTypes'
<1>1. [create[r] EXCEPT !.pc = pc] \in Reading
  BY Zenon DEF Reading
<1>2. Ended \in Calls /\ [create[r] EXCEPT !.pc = pc] \in Calls
  BY <1>1 DEF Calls
<1> HIDE DEF Calls
<1>3. create' \in [Requests -> Calls]
  BY <1>2 DEF Proceeds, PayoutInv, CallTypes
<1> QED
  BY <1>3 DEF PayoutInv, CallTypes

LEMMA FindActiveKeeps ==
  ASSUME PayoutInv, NEW r \in Requests, FindActive(r)
  PROVE  PayoutInv'
<1>1. CallTypes'
  <2>1. CASE Proceeds(r, TRUE, "blocking")
    BY <2>1, CallIsReading, CallProceeds DEF FindActive
  <2>2. ASSUME NEW p \in Ids,
               create' \in {[create EXCEPT ![r] = [pc |-> "replace", p |-> p,
                                                  proposal |-> prop[p].st # "NONE"]],
                            [create EXCEPT ![r] = Ended]}
        PROVE  CallTypes'
    <3>1. (prop[p].st # "NONE") \in BOOLEAN
      OBVIOUS
    <3>2. [pc |-> "replace", p |-> p, proposal |-> prop[p].st # "NONE"] \in Calls
      BY <3>1, Zenon DEF Calls, Replacing
    <3>3. Ended \in Calls
      BY DEF Calls
    <3> HIDE DEF Calls
    <3>4. create' \in [Requests -> Calls]
      BY <2>2, <3>2, <3>3 DEF PayoutInv, CallTypes
    <3> QED
      BY <3>4 DEF FindActive, PayoutInv, CallTypes
  <2> QED
    BY <2>1, <2>2 DEF FindActive
<1> QED
  BY <1>1, CallsMove DEF FindActive

LEMMA FindBlockingKeeps ==
  ASSUME PayoutInv, NEW r \in Requests, FindBlocking(r)
  PROVE  PayoutInv'
<1>1. CallTypes'
  BY CallIsReading, CallProceeds DEF FindBlocking
<1> QED
  BY <1>1, CallsMove DEF FindBlocking

LEMMA ReadGoalKeeps ==
  ASSUME PayoutInv, NEW r \in Requests, ReadGoal(r)
  PROVE  PayoutInv'
<1>1. CallTypes'
  BY CallIsReading, CallProceeds DEF ReadGoal
<1> QED
  BY <1>1, CallsMove DEF ReadGoal

LEMMA ReadNonceKeeps ==
  ASSUME PayoutInv, NEW r \in Requests, ReadNonce(r)
  PROVE  PayoutInv'
<1>1. CallTypes'
  <2>1. create[r] \in Reading
    BY CallIsReading DEF ReadNonce
  <2>2. [pc |-> "insert", key |-> create[r].key, delivery |-> create[r].delivery,
         nonce |-> IF create[r].delivery = "SERVICE" THEN NextNonce ELSE 0] \in Calls
    BY <2>1, NextNonceIsLast DEF Calls, Reading, Inserting
  <2> HIDE DEF Calls
  <2>3. create' \in [Requests -> Calls]
    BY <2>2 DEF ReadNonce, PayoutInv, CallTypes
  <2> QED
    BY <2>3 DEF ReadNonce, PayoutInv, CallTypes
<1> QED
  BY <1>1, CallsMove DEF ReadNonce

LEMMA ReplaceIntentKeeps ==
  ASSUME PayoutInv, NEW r \in Requests, ReplaceIntent(r)
  PROVE  PayoutInv'
<1>0. Steady
  BY StepIsSteady DEF Next, ApiStep, SyncStep, SyncTrouble, IndexerStep, SafeStep
<1> DEFINE p == create[r].p
           manual == [delivery |-> "MANUAL", nonce |-> 0, due |-> FALSE, consumed |-> FALSE]
<1>a. create[r] \in Replacing
  BY DEF ReplaceIntent, PayoutInv, CallTypes, Calls, Replacing, Inserting, Reading, Idle, Ended
<1>b. \/ UNCHANGED <<intent, prop>>
      \/ /\ intent' = [intent EXCEPT ![p] = manual]
         /\ \/ UNCHANGED prop
            \/ /\ prop[p].st = "SUBMITTING"
               /\ prop' = [prop EXCEPT ![p].st = "STALE", ![p].reason = TRUE]
  BY DEF ReplaceIntent
<1>c. p \in Ids
  BY <1>a DEF Replacing
<1>1. (PayoutTypes /\ ChainTypes /\ RowsAreReleases /\ ExecutedIsReleased /\ CountedOnce
       /\ SyncReads)'
  BY DEF PayoutInv, RowTypes, ReplaceIntent, chain, PayoutTypes, ChainTypes, RowsAreReleases,
         ExecutedIsReleased, CountedOnce, SyncReads, RowOf
<1>h. HandlerReads'
  BY <1>0, HandlerStays DEF ReplaceIntent, chain
<1>2. IntentTypes'
  <2>1. manual \in IntentRows
    BY Zenon DEF IntentRows
  <2> HIDE DEF manual, p
  <2> QED
    BY <1>b, <1>c, <2>1 DEF PayoutInv, RowTypes, IntentTypes
<1>3. PropTypes'
  <2>1. prop \in [Ids -> ProposalRows]
    BY DEF PayoutInv, RowTypes, PropTypes
  <2>2. [prop[p] EXCEPT !.st = "STALE", !.reason = TRUE] \in ProposalRows
    BY <1>c, <2>1, Zenon DEF ProposalRows, Verdicts
  <2> HIDE DEF manual, p
  <2> QED
    BY <1>b, <1>c, <2>1, <2>2, Zenon DEF PropTypes
<1>4. CallTypes'
  BY DEF PayoutInv, ReplaceIntent, chain, CallTypes, Calls
<1>5. RowsAreCreated'
  <2>1. \A q \in Ids : /\ (prop'[q].st = "NONE") = (prop[q].st = "NONE")
                       /\ prop'[q].late = prop[q].late
                       /\ intent'[q].consumed => intent[q].consumed
    <3>1. \A q \in Ids : /\ (prop'[q].st = "NONE") = (prop[q].st = "NONE")
                         /\ prop'[q].late = prop[q].late
      BY <1>b, <1>c DEF PayoutInv, RowTypes, PropTypes, ProposalRows
    <3>2. \A q \in Ids : intent'[q].consumed => intent[q].consumed
      BY <1>b, <1>c DEF PayoutInv, RowTypes, IntentTypes
    <3> QED
      BY <3>1, <3>2
  <2> QED
    BY <2>1 DEF ReplaceIntent, PayoutInv, RowsAreCreated, Absent
<1>6. SpentByTheQueue'
  BY <1>0, SpentStays DEF ReplaceIntent, chain
<1>q. QueueIsBounded'
  BY <1>0, QueueStays DEF ReplaceIntent, chain
<1> QED
  BY <1>q, <1>h, <1>1, <1>2, <1>3, <1>4, <1>5, <1>6 DEF PayoutInv, RowTypes

LEMMA InsertIntentKeeps ==
  ASSUME PayoutInv, NEW r \in Requests, InsertIntent(r)
  PROVE  PayoutInv'
<1>0. Steady
  BY StepIsSteady DEF Next, ApiStep, SyncStep, SyncTrouble, IndexerStep, SafeStep
<1>a. create[r] \in Inserting
  BY DEF InsertIntent, PayoutInv, CallTypes, Calls, Replacing, Inserting, Reading, Idle, Ended
<1>b. \/ UNCHANGED <<payout, intent>>
      \/ \E p \in Ids :
            /\ Absent(p)
            /\ payout' = [payout EXCEPT ![p] = [st |-> "PROPOSED", tx |-> 0,
                                                 key |-> create[r].key]]
            /\ intent' = [intent EXCEPT ![p].delivery = create[r].delivery,
                                         ![p].nonce = create[r].nonce]
  BY DEF InsertIntent
<1>c. /\ create[r].key \in Keys /\ create[r].nonce \in Nat
      /\ create[r].delivery \in {"SERVICE", "MANUAL"}
  BY <1>a, PayoutAssumption DEF Inserting
<1>1. (PropTypes /\ ChainTypes /\ RowsAreReleases)'
  BY DEF PayoutInv, RowTypes, InsertIntent, chain, PropTypes, ChainTypes, RowsAreReleases
<1>2. PayoutTypes'
  <2>1. [st |-> "PROPOSED", tx |-> 0, key |-> create[r].key] \in PayoutRows
    BY <1>c DEF PayoutRows
  <2> QED
    BY <1>b, <2>1 DEF PayoutInv, RowTypes, PayoutTypes
<1>3. IntentTypes'
  <2>1. intent \in [Ids -> IntentRows]
    BY DEF PayoutInv, RowTypes, IntentTypes
  <2>2. ASSUME NEW p \in Ids
        PROVE  [intent[p] EXCEPT !.delivery = create[r].delivery, !.nonce = create[r].nonce]
                 \in IntentRows
    BY <1>c, <2>1, Zenon DEF IntentRows
  <2> QED
    BY <1>b, <2>1, <2>2, ZenonT(40) DEF IntentTypes
<1>4. CallTypes'
  BY DEF PayoutInv, InsertIntent, chain, CallTypes, Calls
<1>5. RowsAreCreated'
  <2>1. CASE UNCHANGED <<payout, intent>>
    BY <2>1 DEF InsertIntent, PayoutInv, RowsAreCreated, Absent
  <2>2. ASSUME NEW p \in Ids, Absent(p),
               payout' = [payout EXCEPT ![p] = [st |-> "PROPOSED", tx |-> 0, key |-> create[r].key]],
               intent' = [intent EXCEPT ![p].delivery = create[r].delivery,
                                         ![p].nonce = create[r].nonce]
        PROVE  RowsAreCreated'
    <3>1. /\ payout'[p].st = "PROPOSED" /\ payout'[p].key = create[r].key
          /\ \A q \in Ids \ {p} : payout'[q] = payout[q] /\ intent'[q] = intent[q]
      BY <2>2 DEF PayoutInv, RowTypes, PayoutTypes, IntentTypes
    <3> QED
      BY <1>c, <3>1 DEF InsertIntent, PayoutInv, RowsAreCreated, Absent
  <2> QED
    BY <1>b, <2>1, <2>2
<1>6. SpentByTheQueue'
  BY <1>0, SpentStays DEF InsertIntent, chain
<1>7. ExecutedIsReleased'
  <2>1. \A q \in Ids : payout'[q].st = "EXECUTED" => payout'[q] = payout[q]
    <3>1. CASE UNCHANGED payout
      BY <3>1
    <3>2. ASSUME NEW p \in Ids,
                 payout' = [payout EXCEPT ![p] = [st |-> "PROPOSED", tx |-> 0, key |-> create[r].key]]
          PROVE  \A q \in Ids : payout'[q].st = "EXECUTED" => payout'[q] = payout[q]
      <4>1. payout'[p].st = "PROPOSED" /\ \A q \in Ids \ {p} : payout'[q] = payout[q]
        BY <3>2 DEF PayoutInv, RowTypes, PayoutTypes
      <4> QED
        BY <4>1
    <3> QED
      BY <1>b, <3>1, <3>2
  <2> QED
    BY <2>1 DEF InsertIntent, PayoutInv, ExecutedIsReleased, chain
<1>8. CountedOnce'
  <2>1. \A q \in Ids : payout'[q].st = "EXECUTED" => payout'[q] = payout[q]
    <3>1. CASE UNCHANGED payout
      BY <3>1
    <3>2. ASSUME NEW p \in Ids,
                 payout' = [payout EXCEPT ![p] = [st |-> "PROPOSED", tx |-> 0, key |-> create[r].key]]
          PROVE  \A q \in Ids : payout'[q].st = "EXECUTED" => payout'[q] = payout[q]
      <4>1. payout'[p].st = "PROPOSED" /\ \A q \in Ids \ {p} : payout'[q] = payout[q]
        BY <3>2 DEF PayoutInv, RowTypes, PayoutTypes
      <4> QED
        BY <4>1
    <3> QED
      BY <1>b, <3>1, <3>2
  <2> QED
    BY <2>1 DEF InsertIntent, PayoutInv, CountedOnce, chain
<1>9. HandlerReads'
  BY <1>0, HandlerStays DEF InsertIntent, chain
<1>10. SyncReads'
  BY <1>0, SyncStays DEF InsertIntent, chain
<1>q. QueueIsBounded'
  BY <1>0, QueueStays DEF InsertIntent, chain
<1> QED
  BY <1>q, <1>1, <1>2, <1>3, <1>4, <1>5, <1>6, <1>7, <1>8, <1>9, <1>10 DEF PayoutInv, RowTypes

LEMMA CancelManualKeeps ==
  ASSUME PayoutInv, NEW p \in Ids, CancelManual(p)
  PROVE  PayoutInv'
<1>0. Steady
  BY StepIsSteady DEF Next, ApiStep, SyncStep, SyncTrouble, IndexerStep, SafeStep
<1>1. (PropTypes /\ CallTypes /\ ChainTypes /\ RowsAreReleases)'
  BY DEF PayoutInv, RowTypes, CancelManual, chain, PropTypes, CallTypes, ChainTypes,
         RowsAreReleases
<1>2. PayoutTypes'
  BY DEF PayoutInv, RowTypes, CancelManual, chain, PayoutTypes, PayoutRows
<1>3. IntentTypes'
  BY Zenon DEF PayoutInv, RowTypes, CancelManual, chain, IntentTypes, IntentRows
<1>4. RowsAreCreated'
  BY DEF PayoutInv, RowTypes, CancelManual, chain, RowsAreCreated, Absent, NoProposal,
         PayoutTypes, PayoutRows, IntentTypes, IntentRows
<1>5. SpentByTheQueue'
  BY <1>0, SpentStays DEF CancelManual, chain
<1>6. ExecutedIsReleased'
  BY DEF PayoutInv, RowTypes, CancelManual, chain, ExecutedIsReleased, PayoutTypes, PayoutRows
<1>7. CountedOnce'
  BY DEF PayoutInv, RowTypes, CancelManual, chain, CountedOnce, PayoutTypes, PayoutRows
<1>8. HandlerReads'
  BY <1>0, HandlerStays DEF CancelManual, chain
<1>9. SyncReads'
  BY <1>0, SyncStays DEF CancelManual, chain
<1>q. QueueIsBounded'
  BY <1>0, QueueStays DEF CancelManual, chain
<1> QED
  BY <1>q, <1>1, <1>2, <1>3, <1>4, <1>5, <1>6, <1>7, <1>8, <1>9 DEF PayoutInv, RowTypes

LEMMA BeginSubmitKeeps ==
  ASSUME PayoutInv, NEW p \in Ids, BeginSubmit(p)
  PROVE  PayoutInv'
<1>0. Steady
  BY StepIsSteady DEF Next, ApiStep
<1>1. CallTypes'
  BY DEF BeginSubmit, PayoutInv, CallTypes
<1>2. CASE UNCHANGED <<payout, intent>>
  <2>1. \A q \in Ids : \/ submit'[q] = submit[q]
                       \/ submit'[q] = "proposing" /\ prop[q].st # "NONE"
                       \/ submit'[q] = "nonce" /\ prop[q].st = "NONE"
    BY DEF BeginSubmit, PayoutInv, CallTypes
  <2> QED
    BY <1>1, <1>2, <2>1, CallsMove DEF BeginSubmit
<1>3. CASE payout' = ExpiredPayouts /\ intent' = ExpiredIntents /\ UNCHANGED submit
  <2>1. SyncReads'
    BY <1>0, SyncStays DEF BeginSubmit
  <2> QED
    BY <1>0, <1>1, <1>3, <2>1, ExpiryKeeps DEF BeginSubmit
<1> QED
  BY <1>2, <1>3 DEF BeginSubmit

LEMMA CheckNonceKeeps ==
  ASSUME PayoutInv, NEW p \in Ids, CheckNonce(p)
  PROVE  PayoutInv'
<1>1. CallTypes'
  BY DEF CheckNonce, PayoutInv, CallTypes
<1>2. \A q \in Ids : \/ submit'[q] \in {submit[q], "idle"}
                     \/ submit'[q] = "claiming" /\ submit[q] = "nonce"
  BY DEF CheckNonce, PayoutInv, CallTypes
<1> QED
  BY <1>1, <1>2, CallsMove DEF CheckNonce

LEMMA ClaimIntentKeeps ==
  ASSUME PayoutInv, NEW p \in Ids, ClaimIntent(p)
  PROVE  PayoutInv'
<1>0. Steady
  BY StepIsSteady DEF Next, ApiStep
<1>a. prop[p].st = "NONE"
  BY DEF ClaimIntent, PayoutInv, RowsAreCreated
<1>1. (PayoutTypes /\ ChainTypes /\ RowsAreReleases /\ ExecutedIsReleased /\ CountedOnce
       /\ SyncReads)'
  BY DEF PayoutInv, RowTypes, ClaimIntent, chain, PayoutTypes, ChainTypes, RowsAreReleases,
         ExecutedIsReleased, CountedOnce, SyncReads, RowOf
<1>2. IntentTypes'
  BY Zenon DEF PayoutInv, RowTypes, ClaimIntent, chain, IntentTypes, IntentRows
<1>3. PropTypes'
  <2>1. prop \in [Ids -> ProposalRows] /\ intent[p].nonce \in Nat
    BY DEF PayoutInv, RowTypes, PropTypes, IntentTypes, IntentRows
  <2>2. [NoProposal EXCEPT !.st = "SUBMITTING", !.nonce = intent[p].nonce] \in ProposalRows
    BY <2>1, Zenon DEF NoProposal, ProposalRows, Verdicts
  <2> QED
    BY <2>1, <2>2 DEF ClaimIntent, PropTypes
<1>4. CallTypes'
  BY DEF PayoutInv, ClaimIntent, CallTypes
<1>5. RowsAreCreated'
  <2>1. CASE UNCHANGED <<intent, prop>> /\ submit' = [submit EXCEPT ![p] = "idle"]
    BY <2>1 DEF ClaimIntent, PayoutInv, RowsAreCreated, Absent, CallTypes
  <2>2. CASE /\ payout[p].st = "PROPOSED" /\ submit' = [submit EXCEPT ![p] = "proposing"]
             /\ intent' = [intent EXCEPT ![p].consumed = TRUE]
             /\ prop' = [prop EXCEPT ![p] = [NoProposal EXCEPT
                             !.st = "SUBMITTING", !.nonce = intent[p].nonce]]
    <3>1. ~Absent(p) /\ payout[p].key \in Keys
      BY <2>2 DEF ClaimIntent, Absent, PayoutInv, RowsAreCreated
    <3>2. /\ prop'[p].st # "NONE" /\ submit'[p] = "proposing"
          /\ \A q \in Ids \ {p} : prop'[q] = prop[q] /\ intent'[q] = intent[q] /\ submit'[q] = submit[q]
      BY <2>2 DEF ClaimIntent, NoProposal, PayoutInv, RowTypes, PropTypes, IntentTypes, CallTypes
    <3> QED
      BY <3>1, <3>2 DEF ClaimIntent, PayoutInv, RowsAreCreated, Absent
  <2> QED
    BY <2>1, <2>2 DEF ClaimIntent
<1>6. SpentByTheQueue'
  BY <1>0, SpentStays DEF ClaimIntent, chain
<1>7. HandlerReads'
  BY <1>0, HandlerStays DEF ClaimIntent, chain
<1>q. QueueIsBounded'
  BY <1>0, QueueStays DEF ClaimIntent, chain
<1> QED
  BY <1>q, <1>1, <1>2, <1>3, <1>4, <1>5, <1>6, <1>7 DEF PayoutInv, RowTypes

LEMMA ProposeKeeps ==
  ASSUME PayoutInv, NEW p \in Ids, Propose(p)
  PROVE  PayoutInv'
<1>0. Steady
  BY StepIsSteady DEF Next, ApiStep
<1>a. PICK late \in BOOLEAN : prop' = [prop EXCEPT ![p].late = late]
  BY DEF Propose, PayoutInv, RowTypes, PropTypes, ProposalRows
<1>b. \A q \in Ids : prop'[q].st = prop[q].st /\ prop'[q].nonce = prop[q].nonce
  BY <1>a DEF PayoutInv, RowTypes, PropTypes, ProposalRows
<1>1. (PayoutTypes /\ IntentTypes /\ RowsAreReleases /\ ExecutedIsReleased
       /\ CountedOnce /\ SyncReads)'
  BY DEF PayoutInv, RowTypes, Propose, chain, PayoutTypes, IntentTypes,
         RowsAreReleases, ExecutedIsReleased, CountedOnce, SyncReads, RowOf
<1>p. PropTypes'
  BY Zenon, <1>a DEF PayoutInv, RowTypes, PropTypes, ProposalRows
<1>2. CallTypes'
  BY DEF PayoutInv, Propose, chain, CallTypes
<1>3. ChainTypes'
  BY DEF PayoutInv, Propose, chain, ChainTypes, Transactions
<1>4. RowsAreCreated'
  BY <1>b DEF PayoutInv, RowTypes, Propose, chain, RowsAreCreated, Absent, NoProposal, CallTypes
<1>5. SpentByTheQueue'
  BY <1>0, SpentStays DEF Propose, chain
<1>6. HandlerReads'
  BY <1>0, HandlerStays DEF Propose, chain
<1>q. QueueIsBounded'
  <2>1. PICK b \in Nat : \A q \in queue : prop[q].nonce <= b
    BY DEF PayoutInv, QueueIsBounded
  <2>2. b \in Nat /\ prop[p].nonce \in Nat /\ \A q \in queue : q \in Ids /\ prop[q].nonce \in Nat
    BY DEF PayoutInv, RowTypes, PropTypes, ProposalRows, ChainTypes
  <2>3. \A q \in queue' : q \in Ids /\ prop[q].nonce <= b + prop[p].nonce
    BY <2>1, <2>2 DEF Propose
  <2> QED
    BY <1>b, <2>2, <2>3 DEF QueueIsBounded
<1> QED
  BY <1>p, <1>q, <1>1, <1>2, <1>3, <1>4, <1>5, <1>6 DEF PayoutInv, RowTypes

LEMMA ProposeFailsKeeps ==
  ASSUME PayoutInv, NEW p \in Ids, ProposeFails(p)
  PROVE  PayoutInv'
<1>0. Steady
  BY StepIsSteady DEF Next, ApiStep, SyncStep, SyncTrouble, IndexerStep, SafeStep
<1>1. (PayoutTypes /\ IntentTypes /\ ChainTypes /\ RowsAreReleases /\ ExecutedIsReleased
       /\ CountedOnce /\ SyncReads)'
  BY DEF PayoutInv, RowTypes, ProposeFails, chain, PayoutTypes, IntentTypes, ChainTypes,
         RowsAreReleases, ExecutedIsReleased, CountedOnce, SyncReads, RowOf
<1>2. PropTypes'
  BY Zenon DEF PayoutInv, RowTypes, ProposeFails, chain, PropTypes, ProposalRows, Verdicts
<1>3. CallTypes'
  BY DEF PayoutInv, ProposeFails, chain, CallTypes, Idle, Replacing, Inserting, Reconciling,
         Passing, Missing, Committing, Settling, Updates, Verdicts
<1>4. RowsAreCreated'
  BY DEF PayoutInv, RowTypes, ProposeFails, chain, RowsAreCreated, Absent, NoProposal,
         PropTypes, ProposalRows, Verdicts, CallTypes
<1>5. SpentByTheQueue'
  BY <1>0, SpentStays DEF ProposeFails, chain
<1>h. HandlerReads'
  BY <1>0, HandlerStays DEF ProposeFails, chain
<1>q. QueueIsBounded'
  BY <1>0, QueueStays DEF ProposeFails, chain
<1> QED
  BY <1>q, <1>h, <1>1, <1>2, <1>3, <1>4, <1>5 DEF PayoutInv, RowTypes

LEMMA SubmitDiesKeeps ==
  ASSUME PayoutInv, NEW p \in Ids, SubmitDies(p)
  PROVE  PayoutInv'
<1>0. Steady
  BY StepIsSteady DEF Next, ApiStep, SyncStep, SyncTrouble, IndexerStep, SafeStep
<1>1. (PayoutTypes /\ IntentTypes /\ PropTypes /\ ChainTypes /\ SpentByTheQueue
       /\ RowsAreReleases /\ ExecutedIsReleased /\ CountedOnce /\ HandlerReads /\ SyncReads)'
  BY DEF PayoutInv, RowTypes, SubmitDies, chain, PayoutTypes, IntentTypes, PropTypes,
         ChainTypes, SpentByTheQueue, RowsAreReleases, ExecutedIsReleased, CountedOnce,
         HandlerReads, SyncReads, RowOf
<1>2. CallTypes'
  BY DEF PayoutInv, SubmitDies, chain, CallTypes, Idle, Replacing, Inserting, Reconciling,
         Passing, Missing, Committing, Settling, Updates, Verdicts
<1>3. RowsAreCreated'
  BY DEF PayoutInv, RowTypes, SubmitDies, chain, RowsAreCreated, Absent, NoProposal, CallTypes
<1>q. QueueIsBounded'
  BY <1>0, QueueStays DEF SubmitDies, chain
<1> QED
  BY <1>q, <1>1, <1>2, <1>3 DEF PayoutInv, RowTypes

LEMMA SubmitDoneKeeps ==
  ASSUME PayoutInv, NEW p \in Ids, SubmitDone(p)
  PROVE  PayoutInv'
<1>0. Steady
  BY StepIsSteady DEF Next, ApiStep, SyncStep, SyncTrouble, IndexerStep, SafeStep
<1>1. (PayoutTypes /\ IntentTypes /\ ChainTypes /\ RowsAreReleases /\ ExecutedIsReleased
       /\ CountedOnce /\ SyncReads)'
  BY DEF PayoutInv, RowTypes, SubmitDone, chain, PayoutTypes, IntentTypes, ChainTypes,
         RowsAreReleases, ExecutedIsReleased, CountedOnce, SyncReads, RowOf
<1>2. PropTypes'
  BY ZenonT(40) DEF PayoutInv, RowTypes, SubmitDone, chain, PropTypes, ProposalRows, Verdicts
<1>3. CallTypes'
  BY DEF PayoutInv, SubmitDone, chain, CallTypes, Idle, Replacing, Inserting, Reconciling,
         Passing, Missing, Committing, Settling, Updates, Verdicts
<1>4. RowsAreCreated'
  BY DEF PayoutInv, RowTypes, SubmitDone, chain, RowsAreCreated, Absent, NoProposal,
         PropTypes, ProposalRows, Verdicts, CallTypes
<1>5. SpentByTheQueue'
  BY <1>0, SpentStays DEF SubmitDone, chain
<1>h. HandlerReads'
  BY <1>0, HandlerStays DEF SubmitDone, chain
<1>q. QueueIsBounded'
  BY <1>0, QueueStays DEF SubmitDone, chain
<1> QED
  BY <1>q, <1>h, <1>1, <1>2, <1>3, <1>4, <1>5 DEF PayoutInv, RowTypes

LEMMA SyncBeginKeeps ==
  ASSUME PayoutInv, SyncBegin
  PROVE  PayoutInv'
<1>0. Steady
  BY StepIsSteady DEF Next, ApiStep, SyncStep, SyncTrouble, IndexerStep, SafeStep
<1>1. (PropTypes /\ ChainTypes /\ RowsAreReleases)'
  BY DEF PayoutInv, RowTypes, SyncBegin, chain, PropTypes, ChainTypes, RowsAreReleases
<1>2. PayoutTypes'
  BY DEF PayoutInv, RowTypes, SyncBegin, chain, ExpiredPayouts, ExpiredIntents, Expirable,
         PayoutTypes, PayoutRows
<1>3. IntentTypes'
  BY Zenon
     DEF PayoutInv, RowTypes, SyncBegin, chain, ExpiredPayouts, ExpiredIntents, Expirable,
         IntentTypes, IntentRows
<1>4. CallTypes'
  BY DEF PayoutInv, SyncBegin, chain, ExpiredPayouts, ExpiredIntents, Expirable, CallTypes,
         Idle, Replacing, Inserting, Reconciling, Passing, Missing, Committing, Settling,
         Updates, Verdicts
<1>5. RowsAreCreated'
  BY DEF PayoutInv, RowTypes, SyncBegin, chain, ExpiredPayouts, ExpiredIntents, Expirable,
         RowsAreCreated, Absent, NoProposal, PayoutTypes, PayoutRows, IntentTypes, IntentRows
<1>6. SpentByTheQueue'
  BY <1>0, SpentStays DEF SyncBegin, chain
<1>7. ExecutedIsReleased'
  BY DEF PayoutInv, RowTypes, SyncBegin, chain, ExpiredPayouts, ExpiredIntents, Expirable,
         ExecutedIsReleased, PayoutTypes, PayoutRows
<1>8. CountedOnce'
  BY DEF PayoutInv, RowTypes, SyncBegin, chain, ExpiredPayouts, ExpiredIntents, Expirable,
         CountedOnce, PayoutTypes, PayoutRows
<1>9. HandlerReads'
  BY <1>0, HandlerStays DEF SyncBegin, chain
<1>10. SyncReads'
  <2>1. sync'.pc \notin {"reconciling", "commit"}
    BY SyncIsShaped DEF SyncBegin, Passing, Idle
  <2> QED
    BY <2>1 DEF SyncReads
<1>q. QueueIsBounded'
  BY <1>0, QueueStays DEF SyncBegin, chain
<1> QED
  BY <1>q, <1>1, <1>2, <1>3, <1>4, <1>5, <1>6, <1>7, <1>8, <1>9, <1>10 DEF PayoutInv, RowTypes

LEMMA ReconcileFindKeeps ==
  ASSUME PayoutInv, NEW p \in Ids, ReconcileFind(p)
  PROVE  PayoutInv'
<1>0. Steady
  BY StepIsSteady DEF Next, ApiStep, SyncStep, SyncTrouble, IndexerStep, SafeStep
<1>1. (PayoutTypes /\ IntentTypes /\ PropTypes /\ ChainTypes /\ RowsAreCreated
       /\ SpentByTheQueue /\ RowsAreReleases /\ ExecutedIsReleased /\ CountedOnce
       /\ HandlerReads)'
  BY DEF PayoutInv, RowTypes, ReconcileFind, chain, PayoutTypes, IntentTypes, PropTypes,
         ChainTypes, RowsAreCreated, Absent, SpentByTheQueue, RowsAreReleases,
         ExecutedIsReleased, CountedOnce, HandlerReads
<1>2. CallTypes'
  <2>1. sync \in [pc : {"reconcile"}, todo : SUBSET Ids] /\ prop[p].exec \in Nat
    BY SyncIsShaped DEF ReconcileFind, PayoutInv, RowTypes, PropTypes, ProposalRows
  <2>2. ConfirmedProjection(p, prop[p].exec) \in Nat
    BY <2>1 DEF ConfirmedProjection
  <2>3. sync' \in Reconciling
    BY <2>1, <2>2 DEF ReconcileFind, Reconciling
  <2> QED
    BY <2>3 DEF PayoutInv, CallTypes, ReconcileFind
<1>3. SyncReads'
  <2>1. prop[p].exec \in Nat
    BY DEF PayoutInv, RowTypes, PropTypes, ProposalRows
  <2>2. /\ ConfirmedProjection(p, prop[p].exec) \in {0, prop[p].exec}
        /\ RowOf(p, ConfirmedProjection(p, prop[p].exec))
    BY <2>1, ProjectionFound
  <2>3. /\ sync'.pc = "reconciling" /\ sync'.p = p /\ sync'.tx = prop[p].exec
        /\ sync'.row = ConfirmedProjection(p, prop[p].exec)
    BY DEF ReconcileFind
  <2> QED
    BY <2>2, <2>3 DEF ReconcileFind, SyncReads, RowOf, chain
<1>q. QueueIsBounded'
  BY <1>0, QueueStays DEF ReconcileFind, chain
<1> QED
  BY <1>q, <1>1, <1>2, <1>3 DEF PayoutInv, RowTypes

LEMMA ReconcileCommitKeeps ==
  ASSUME PayoutInv, ReconcileCommit
  PROVE  PayoutInv'
<1>0. Steady
  BY StepIsSteady DEF Next, ApiStep, SyncStep, SyncTrouble, IndexerStep, SafeStep
<1>1. (IntentTypes /\ PropTypes)'
  BY DEF PayoutInv, RowTypes, ReconcileCommit, chain, IntentTypes, PropTypes
<1>2. PayoutTypes'
  BY DEF PayoutInv, RowTypes, ReconcileCommit, chain, Promotes, RowGone, PayoutTypes,
         PayoutRows, CallTypes, Idle, Replacing, Inserting, Reconciling, Passing, Missing,
         Committing, Settling, Updates, Verdicts
<1>3. CallTypes'
  BY DEF PayoutInv, ReconcileCommit, chain, Promotes, RowGone, CallTypes, Idle, Replacing,
         Inserting, Reconciling, Passing, Missing, Committing, Settling, Updates, Verdicts
<1>4. ChainTypes'
  BY DEF PayoutInv, ReconcileCommit, chain, Promotes, RowGone, ChainTypes, Transactions,
         CallTypes, Idle, Replacing, Inserting, Reconciling, Passing, Missing, Committing,
         Settling, Updates, Verdicts
<1>5. RowsAreCreated'
  BY DEF PayoutInv, RowTypes, ReconcileCommit, chain, Promotes, RowGone, RowsAreCreated,
         Absent, NoProposal, PayoutTypes, PayoutRows, CallTypes, Idle, Replacing, Inserting,
         Reconciling, Passing, Missing, Committing, Settling, Updates, Verdicts
<1>6. SpentByTheQueue'
  BY <1>0, SpentStays DEF ReconcileCommit, chain
<1>7. RowsAreReleases'
  BY DEF PayoutInv, ReconcileCommit, chain, Promotes, RowGone, RowsAreReleases, ChainTypes,
         CallTypes, Idle, Replacing, Inserting, Reconciling, Passing, Missing, Committing,
         Settling, Updates, Verdicts
<1>8. (ExecutedIsReleased /\ CountedOnce)'
  <2>1. UNCHANGED <<spent, cursor>>
    BY DEF ReconcileCommit, chain
  <2> QED
    BY <2>1, ReconcileWrites, PromotedOnce, NothingSettled
<1>10. HandlerReads'
  BY <1>0, HandlerStays DEF ReconcileCommit, chain
<1>11. SyncReads'
  BY DEF PayoutInv, RowTypes, ReconcileCommit, chain, Promotes, RowGone, SyncReads, RowOf,
         PayoutTypes, PayoutRows, CallTypes, Idle, Replacing, Inserting, Reconciling, Passing,
         Missing, Committing, Settling, Updates, Verdicts
<1>q. QueueIsBounded'
  BY <1>0, QueueStays DEF ReconcileCommit, chain
<1> QED
  BY <1>q, <1>1, <1>2, <1>3, <1>4, <1>5, <1>6, <1>7, <1>8, <1>10, <1>11 DEF PayoutInv, RowTypes

LEMMA SyncPendingKeeps ==
  ASSUME PayoutInv, SyncPending
  PROVE  PayoutInv'
<1>0. Steady
  BY StepIsSteady DEF Next, ApiStep, SyncStep, SyncTrouble, IndexerStep, SafeStep
<1>1. (PayoutTypes /\ IntentTypes /\ PropTypes /\ ChainTypes /\ RowsAreCreated
       /\ SpentByTheQueue /\ RowsAreReleases /\ ExecutedIsReleased /\ CountedOnce
       /\ HandlerReads)'
  BY DEF PayoutInv, RowTypes, SyncPending, chain, PayoutTypes, IntentTypes, PropTypes,
         ChainTypes, RowsAreCreated, Absent, SpentByTheQueue, RowsAreReleases,
         ExecutedIsReleased, CountedOnce, HandlerReads
<1>2. CallTypes'
  BY DEF PayoutInv, SyncPending, chain, Pending, CallTypes, Idle, Replacing, Inserting,
         Reconciling, Passing, Missing, Committing, Settling, Updates, Verdicts
<1>3. SyncReads'
  <2>1. sync'.pc \notin {"reconciling", "commit"}
    BY SyncIsShaped DEF SyncPending, Passing, Idle
  <2> QED
    BY <2>1 DEF SyncReads
<1>q. QueueIsBounded'
  BY <1>0, QueueStays DEF SyncPending, chain
<1> QED
  BY <1>q, <1>1, <1>2, <1>3 DEF PayoutInv, RowTypes

LEMMA SyncReadKeeps ==
  ASSUME PayoutInv, NEW p \in Ids, NEW known \in BOOLEAN, SyncRead(p, known)
  PROVE  PayoutInv'
<1>0. Steady
  BY StepIsSteady DEF Next, ApiStep, SyncStep, SyncTrouble, IndexerStep, SafeStep
<1>1. (PayoutTypes /\ IntentTypes /\ PropTypes /\ ChainTypes /\ RowsAreCreated
       /\ SpentByTheQueue /\ RowsAreReleases /\ ExecutedIsReleased /\ CountedOnce
       /\ HandlerReads)'
  BY DEF PayoutInv, RowTypes, SyncRead, chain, PayoutTypes, IntentTypes, PropTypes,
         ChainTypes, RowsAreCreated, Absent, SpentByTheQueue, RowsAreReleases,
         ExecutedIsReleased, CountedOnce, HandlerReads
<1>2. CallTypes'
  <2>1. p \in Ids /\ sync.todo \subseteq Ids /\ sync.nonce \in Nat
    BY SyncIsShaped DEF SyncRead, Passing, Missing
  <2>2. PICK next \in Updates : SyncView(p, next)
    <3>1. Classify(p, sync.nonce, known) \in Updates
      BY <2>1, ClassifyIsUpdate
    <3> QED
      BY <3>1 DEF SyncRead
  <2>3. (IF next.st = "EXECUTED" THEN ConfirmedProjection(p, next.exec) ELSE 0) \in Nat
    BY DEF ConfirmedProjection, Updates
  <2>4. sync' \in Committing
    BY <2>1, <2>2, <2>3 DEF SyncView, Committing
  <2> QED
    BY <2>4 DEF PayoutInv, CallTypes, SyncRead
<1>3. SyncReads'
  <2>1. p \in Ids /\ sync.todo \subseteq Ids /\ sync.nonce \in Nat
    BY SyncIsShaped DEF SyncRead, Passing, Missing
  <2>2. PICK next \in Updates : SyncView(p, next)
    <3>1. Classify(p, sync.nonce, known) \in Updates
      BY <2>1, ClassifyIsUpdate
    <3> QED
      BY <3>1 DEF SyncRead
  <2>3. next.exec \in Nat
    BY <2>2 DEF Updates
  <2>4. sync'.pc = "commit" /\ sync'.p = p /\ RowOf(p, sync'.row)
    BY <2>1, <2>2, <2>3, ProjectionFound DEF SyncView, RowOf
  <2> QED
    BY <2>4 DEF SyncRead, SyncReads, RowOf, chain
<1>q. QueueIsBounded'
  BY <1>0, QueueStays DEF SyncRead, chain
<1> QED
  BY <1>q, <1>1, <1>2, <1>3 DEF PayoutInv, RowTypes

LEMMA SyncFailsKeeps ==
  ASSUME PayoutInv, NEW p \in Ids, SyncFails(p)
  PROVE  PayoutInv'
<1>0. Steady
  BY StepIsSteady DEF Next, ApiStep, SyncStep, SyncTrouble, IndexerStep, SafeStep
<1>1. (PayoutTypes /\ IntentTypes /\ ChainTypes /\ RowsAreReleases /\ ExecutedIsReleased
       /\ CountedOnce)'
  BY DEF PayoutInv, RowTypes, SyncFails, chain, PayoutTypes, IntentTypes, ChainTypes,
         RowsAreReleases, ExecutedIsReleased, CountedOnce
<1>h. HandlerReads'
  BY <1>0, HandlerStays DEF SyncFails, chain
<1>2. PropTypes'
  BY ZenonT(40)
     DEF PayoutInv, RowTypes, SyncFails, chain, Pending, PropTypes, ProposalRows, Verdicts
<1>3. CallTypes'
  BY DEF PayoutInv, SyncFails, chain, Pending, CallTypes, Idle, Replacing, Inserting,
         Reconciling, Passing, Missing, Committing, Settling, Updates, Verdicts
<1>4. RowsAreCreated'
  BY DEF PayoutInv, RowTypes, SyncFails, chain, Pending, RowsAreCreated, Absent, NoProposal,
         PropTypes, ProposalRows, Verdicts
<1>5. SpentByTheQueue'
  BY <1>0, SpentStays DEF SyncFails, chain
<1>6. SyncReads'
  <2>1. sync'.pc \notin {"reconciling", "commit"}
    BY SyncIsShaped DEF SyncFails, Passing, Idle
  <2> QED
    BY <2>1 DEF SyncReads
<1>q. QueueIsBounded'
  BY <1>0, QueueStays DEF SyncFails, chain
<1> QED
  BY <1>q, <1>h, <1>1, <1>2, <1>3, <1>4, <1>5, <1>6 DEF PayoutInv, RowTypes

LEMMA SyncMissingKeeps ==
  ASSUME PayoutInv, SyncMissing
  PROVE  PayoutInv'
<1>0. Steady
  BY StepIsSteady DEF Next, ApiStep, SyncStep, SyncTrouble, IndexerStep, SafeStep
<1>1. (PayoutTypes /\ IntentTypes /\ PropTypes /\ ChainTypes /\ RowsAreCreated
       /\ SpentByTheQueue /\ RowsAreReleases /\ ExecutedIsReleased /\ CountedOnce
       /\ HandlerReads)'
  BY DEF PayoutInv, RowTypes, SyncMissing, chain, PayoutTypes, IntentTypes, PropTypes,
         ChainTypes, RowsAreCreated, Absent, SpentByTheQueue, RowsAreReleases,
         ExecutedIsReleased, CountedOnce, HandlerReads
<1>2. CallTypes'
  <2>1. sync.p \in Ids /\ sync.todo \subseteq Ids /\ sync.nonce \in Nat
    BY SyncIsShaped DEF SyncMissing, Passing, Missing
  <2>2. PICK next \in Updates : SyncView(sync.p, next)
    <3>1. prop[sync.p].nonce + 1 \in Nat /\ prop[sync.p].exec \in Nat
      BY <2>1 DEF PayoutInv, RowTypes, PropTypes, ProposalRows
    <3>2. Classify(sync.p, sync.nonce, TRUE) \in Updates
      BY <2>1, ClassifyIsUpdate
    <3>3. \A st \in Verdicts : [st |-> st, exec |-> prop[sync.p].exec, reason |-> TRUE] \in Updates
      BY <3>1, Zenon DEF Updates
    <3> QED
      BY <3>2, <3>3 DEF SyncMissing, Verdicts
  <2>3. (IF next.st = "EXECUTED" THEN ConfirmedProjection(sync.p, next.exec) ELSE 0) \in Nat
    BY DEF ConfirmedProjection, Updates
  <2>4. sync' \in Committing
    BY <2>1, <2>2, <2>3 DEF SyncView, Committing
  <2> QED
    BY <2>4 DEF PayoutInv, CallTypes, SyncMissing
<1>3. SyncReads'
  <2>1. sync.p \in Ids /\ sync.todo \subseteq Ids /\ sync.nonce \in Nat
    BY SyncIsShaped DEF SyncMissing, Passing, Missing
  <2>2. PICK next \in Updates : SyncView(sync.p, next)
    <3>1. prop[sync.p].nonce + 1 \in Nat /\ prop[sync.p].exec \in Nat
      BY <2>1 DEF PayoutInv, RowTypes, PropTypes, ProposalRows
    <3>2. Classify(sync.p, sync.nonce, TRUE) \in Updates
      BY <2>1, ClassifyIsUpdate
    <3>3. \A st \in Verdicts : [st |-> st, exec |-> prop[sync.p].exec, reason |-> TRUE] \in Updates
      BY <3>1, Zenon DEF Updates
    <3> QED
      BY <3>2, <3>3 DEF SyncMissing, Verdicts
  <2>3. next.exec \in Nat
    BY <2>2 DEF Updates
  <2>4. sync'.pc = "commit" /\ sync'.p = sync.p /\ RowOf(sync.p, sync'.row)
    BY <2>1, <2>2, <2>3, ProjectionFound DEF SyncView, RowOf
  <2> QED
    BY <2>4 DEF SyncMissing, SyncReads, RowOf, chain
<1>q. QueueIsBounded'
  BY <1>0, QueueStays DEF SyncMissing, chain
<1> QED
  BY <1>q, <1>1, <1>2, <1>3 DEF PayoutInv, RowTypes

LEMMA SyncCommitKeeps ==
  ASSUME PayoutInv, SyncCommit
  PROVE  PayoutInv'
<1>0. Steady
  BY StepIsSteady DEF Next, ApiStep, SyncStep, SyncTrouble, IndexerStep, SafeStep
<1>1. IntentTypes'
  BY DEF PayoutInv, RowTypes, SyncCommit, chain, IntentTypes
<1>2. PayoutTypes'
  BY DEF PayoutInv, RowTypes, SyncCommit, chain, StillPending, RowGone, Promotes, Pending,
         PayoutTypes, PayoutRows, CallTypes, Idle, Replacing, Inserting, Reconciling, Passing,
         Missing, Committing, Settling, Updates, Verdicts
<1>3. PropTypes'
  <2>1. sync.p \in Ids /\ sync.next \in Updates
    BY CommitWrites
  <2>2. /\ prop \in [Ids -> ProposalRows]
        /\ [prop[sync.p] EXCEPT !.reason = TRUE] \in ProposalRows
    BY <2>1, Zenon DEF PayoutInv, RowTypes, PropTypes, ProposalRows
  <2>3. sync.next.st \in Verdicts /\ sync.next.exec \in Nat /\ sync.next.reason \in BOOLEAN
    BY <2>1, Zenon DEF Updates
  <2>4. [prop[sync.p] EXCEPT !.st = sync.next.st, !.exec = sync.next.exec,
                             !.reason = sync.next.reason] \in ProposalRows
    BY <2>1, <2>2, <2>3, Zenon DEF ProposalRows
  <2> HIDE DEF ProposalRows, Updates
  <2> QED
    BY <2>1, <2>2, <2>4, CommitWrites, Zenon DEF PropTypes
<1>4. CallTypes'
  BY DEF PayoutInv, SyncCommit, chain, StillPending, RowGone, Promotes, Pending, CallTypes,
         Idle, Replacing, Inserting, Reconciling, Passing, Missing, Committing, Settling,
         Updates, Verdicts
<1>5. ChainTypes'
  BY DEF PayoutInv, SyncCommit, chain, StillPending, RowGone, Promotes, Pending, ChainTypes,
         Transactions, CallTypes, Idle, Replacing, Inserting, Reconciling, Passing, Missing,
         Committing, Settling, Updates, Verdicts
<1>6. RowsAreCreated'
  BY DEF PayoutInv, RowTypes, SyncCommit, chain, StillPending, RowGone, Promotes, Pending,
         RowsAreCreated, Absent, NoProposal, PayoutTypes, PayoutRows, PropTypes, ProposalRows,
         Verdicts, CallTypes, Idle, Replacing, Inserting, Reconciling, Passing, Missing,
         Committing, Settling, Updates
<1>7. SpentByTheQueue'
  BY <1>0, SpentStays DEF SyncCommit, chain
<1>8. RowsAreReleases'
  BY DEF PayoutInv, SyncCommit, chain, StillPending, RowGone, Promotes, Pending,
         RowsAreReleases, ChainTypes, CallTypes, Idle, Replacing, Inserting, Reconciling,
         Passing, Missing, Committing, Settling, Updates, Verdicts
<1>9. (ExecutedIsReleased /\ CountedOnce)'
  <2>1. UNCHANGED <<spent, cursor>>
    BY DEF SyncCommit, chain
  <2>2. CASE UNCHANGED payout /\ rows' = rows
    BY <2>1, <2>2, NothingSettled
  <2>3. CASE payout' = [payout EXCEPT ![sync.p].st = "FAILED"] /\ rows' \subseteq rows
    <3>1. \A q \in Ids : payout'[q].st = "EXECUTED" => payout'[q] = payout[q]
      BY <2>3, CommitWrites DEF PayoutInv, RowTypes, PayoutTypes, PayoutRows
    <3> QED
      BY <2>1, <2>3, <3>1, NothingSettled
  <2> QED
    BY <2>1, <2>2, <2>3, CommitWrites, PromotedOnce
<1>11. HandlerReads'
  BY <1>0, HandlerStays DEF SyncCommit, chain
<1>12. SyncReads'
  BY DEF PayoutInv, RowTypes, SyncCommit, chain, StillPending, RowGone, Promotes, Pending,
         SyncReads, RowOf, PayoutTypes, PayoutRows, CallTypes, Idle, Replacing, Inserting,
         Reconciling, Passing, Missing, Committing, Settling, Updates, Verdicts
<1>q. QueueIsBounded'
  BY <1>0, QueueStays DEF SyncCommit, chain
<1> QED
  BY <1>q, <1>1, <1>2, <1>3, <1>4, <1>5, <1>6, <1>7, <1>8, <1>9, <1>11, <1>12
     DEF PayoutInv, RowTypes

LEMMA SyncEndKeeps ==
  ASSUME PayoutInv, SyncEnd
  PROVE  PayoutInv'
<1>0. Steady
  BY StepIsSteady DEF Next, ApiStep, SyncStep, SyncTrouble, IndexerStep, SafeStep
<1>1. (PayoutTypes /\ IntentTypes /\ PropTypes /\ ChainTypes /\ RowsAreCreated
       /\ SpentByTheQueue /\ RowsAreReleases /\ ExecutedIsReleased /\ CountedOnce
       /\ HandlerReads)'
  BY DEF PayoutInv, RowTypes, SyncEnd, chain, PayoutTypes, IntentTypes, PropTypes, ChainTypes,
         RowsAreCreated, Absent, SpentByTheQueue, RowsAreReleases, ExecutedIsReleased,
         CountedOnce, HandlerReads
<1>2. CallTypes'
  BY DEF PayoutInv, SyncEnd, chain, CallTypes, Idle, Replacing, Inserting, Reconciling,
         Passing, Missing, Committing, Settling, Updates, Verdicts
<1>3. SyncReads'
  <2>1. sync'.pc \notin {"reconciling", "commit"}
    BY SyncIsShaped DEF SyncEnd, Passing, Idle
  <2> QED
    BY <2>1 DEF SyncReads
<1>q. QueueIsBounded'
  BY <1>0, QueueStays DEF SyncEnd, chain
<1> QED
  BY <1>q, <1>1, <1>2, <1>3 DEF PayoutInv, RowTypes

LEMMA EventReadKeeps ==
  ASSUME PayoutInv, EventRead
  PROVE  PayoutInv'
<1>0. Steady
  BY StepIsSteady DEF Next, ApiStep, SyncStep, SyncTrouble, IndexerStep, SafeStep
<1>1. (PayoutTypes /\ IntentTypes /\ PropTypes /\ ChainTypes /\ RowsAreCreated
       /\ SpentByTheQueue /\ RowsAreReleases /\ ExecutedIsReleased /\ CountedOnce
       /\ SyncReads)'
  BY DEF PayoutInv, RowTypes, EventRead, chain, PayoutTypes, IntentTypes, PropTypes,
         ChainTypes, RowsAreCreated, Absent, SpentByTheQueue, RowsAreReleases,
         ExecutedIsReleased, CountedOnce, SyncReads, RowOf
<1>2. CallTypes'
  <2>1. \A b, c \in BOOLEAN, p \in Ids :
          [pc |-> "settle", p |-> p, proposal |-> b, manual |-> c] \in Settling
    BY Zenon DEF Settling
  <2>2. handler' \in {Idle} \cup [pc : {"project"}] \cup Settling
    <3>1. CASE handler' = [pc |-> "project"]
      BY <3>1
    <3>2. ASSUME NEW p \in Ids,
                 handler' = [pc |-> "settle", p |-> p,
                             proposal |-> /\ intent[p].delivery = "SERVICE"
                                          /\ prop[p].st # "NONE",
                             manual |-> intent[p].delivery = "MANUAL"]
          PROVE  handler' \in Settling
      <4>1. /\ (intent[p].delivery = "SERVICE" /\ prop[p].st # "NONE") \in BOOLEAN
            /\ (intent[p].delivery = "MANUAL") \in BOOLEAN
        OBVIOUS
      <4> QED
        BY <2>1, <3>2, <4>1, Zenon
    <3>3. MatchingPayout(cursor + 1) \subseteq Ids
      BY DEF MatchingPayout
    <3> QED
      BY <3>1, <3>2, <3>3 DEF EventRead
  <2> QED
    BY <2>2 DEF EventRead, PayoutInv, CallTypes
<1>3. HandlerReads'
  <2>1. cursor < Len(spent) /\ spent[cursor + 1].key # NoKey /\ UNCHANGED <<payout, prop, spent, cursor>>
    BY DEF EventRead, chain
  <2>2. \A p \in MatchingPayout(cursor + 1) : payout[p].key = spent[cursor + 1].key
    BY DEF MatchingPayout
  <2>3. handler'.pc = "settle" => /\ handler'.p \in MatchingPayout(cursor + 1)
                                  /\ handler'.proposal => prop[handler'.p].st # "NONE"
    BY DEF EventRead
  <2> QED
    BY <2>1, <2>2, <2>3 DEF HandlerReads
<1>q. QueueIsBounded'
  BY <1>0, QueueStays DEF EventRead, chain
<1> QED
  BY <1>q, <1>1, <1>2, <1>3 DEF PayoutInv, RowTypes

LEMMA EventWriteKeeps ==
  ASSUME PayoutInv, EventWrite
  PROVE  PayoutInv'
<1>0. Steady
  BY StepIsSteady DEF Next, ApiStep, SyncStep, SyncTrouble, IndexerStep, SafeStep
<1> DEFINE p == handler.p
           Projects == /\ rows' = rows \union {cursor + 1}
                       /\ UNCHANGED <<payout, intent, prop>>
           Settles ==
             /\ UNCHANGED rows /\ p \in Ids /\ payout[p].key = spent[cursor + 1].key
             /\ payout' = [payout EXCEPT ![p].st = "EXECUTED", ![p].tx = cursor + 1]
             /\ \/ UNCHANGED prop
                \/ /\ prop[p].st # "NONE"
                   /\ prop' = [prop EXCEPT ![p].st = "EXECUTED", ![p].exec = cursor + 1,
                                           ![p].reason = FALSE]
             /\ \/ UNCHANGED intent
                \/ intent' = [intent EXCEPT ![p].consumed = TRUE]
<1>a. /\ cursor' = cursor + 1 /\ handler' = Idle
      /\ cursor < Len(spent) /\ spent[cursor + 1].key # NoKey
      /\ UNCHANGED <<create, submit, sync, goals, queue, spent, seen, resets>>
  BY HandlerWrites
<1>b. Projects \/ Settles
  BY HandlerWrites
<1>c. cursor \in Nat /\ cursor + 1 \in Nat
  BY DEF PayoutInv, ChainTypes
<1>1. PayoutTypes'
  <2>1. payout \in [Ids -> PayoutRows]
    BY DEF PayoutInv, RowTypes, PayoutTypes
  <2>2. CASE Settles
    <3>1. [payout[p] EXCEPT !.st = "EXECUTED", !.tx = cursor + 1] \in PayoutRows
      BY ZenonT(40), <1>c, <2>1, <2>2 DEF PayoutRows
    <3> QED
      BY <2>1, <2>2, <3>1 DEF PayoutTypes
  <2> QED
    BY <1>b, <2>1, <2>2 DEF PayoutTypes
<1>2. IntentTypes'
  <2>1. intent \in [Ids -> IntentRows]
    BY DEF PayoutInv, RowTypes, IntentTypes
  <2>2. CASE Settles
    <3>1. [intent[p] EXCEPT !.consumed = TRUE] \in IntentRows
      <4>1. intent[p] \in IntentRows
        BY <2>1, <2>2
      <4> HIDE DEF p
      <4> QED
        BY <4>1, Zenon DEF IntentRows
    <3> QED
      BY <2>1, <2>2, <3>1, Zenon DEF IntentTypes
  <2> QED
    BY <1>b, <2>1, <2>2, Zenon DEF IntentTypes
<1>3. PropTypes'
  <2>1. prop \in [Ids -> ProposalRows]
    BY DEF PayoutInv, RowTypes, PropTypes
  <2>2. CASE Settles
    <3>1. [prop[p] EXCEPT !.st = "EXECUTED", !.exec = cursor + 1, !.reason = FALSE]
             \in ProposalRows
      <4>1. prop[p] \in ProposalRows
        BY <2>1, <2>2
      <4> HIDE DEF p
      <4> QED
        BY <1>c, <4>1, Zenon DEF ProposalRows, Verdicts
    <3> QED
      BY <2>1, <2>2, <3>1, Zenon DEF PropTypes
  <2> QED
    BY <1>b, <2>1, <2>2, Zenon DEF PropTypes
<1>4. CallTypes'
  BY <1>a DEF PayoutInv, CallTypes
<1>5. ChainTypes'
  BY <1>a, <1>b DEF PayoutInv, ChainTypes
<1>6. RowsAreCreated'
  <2>1. CASE Projects
    BY <1>a, <2>1 DEF PayoutInv, RowsAreCreated, Absent
  <2>2. CASE Settles
    <3>1. ~Absent(p) /\ payout[p].key \in Keys
      BY <1>a, <2>2 DEF PayoutInv, RowsAreCreated
    <3>2. /\ payout'[p].st = "EXECUTED" /\ payout'[p].key = payout[p].key
          /\ \A q \in Ids \ {p} : /\ payout'[q] = payout[q] /\ prop'[q] = prop[q]
                                  /\ intent'[q] = intent[q]
      BY <2>2 DEF PayoutInv, RowTypes, PayoutTypes, IntentTypes, PropTypes, PayoutRows
    <3>3. (prop'[p].st = "NONE") = (prop[p].st = "NONE") /\ prop'[p].late = prop[p].late
      BY <2>2 DEF PayoutInv, RowTypes, PropTypes, ProposalRows
    <3> QED
      BY <1>a, <3>1, <3>2, <3>3 DEF PayoutInv, RowsAreCreated, Absent
  <2> QED
    BY <1>b, <2>1, <2>2
<1>7. SpentByTheQueue'
  BY <1>0, <1>a, SpentStays
<1>8. RowsAreReleases'
  BY <1>a, <1>b DEF PayoutInv, RowsAreReleases
<1>9. (ExecutedIsReleased /\ CountedOnce)'
  <2>1. CASE Projects
    <3>1. ExecutedIsReleased'
      BY <1>a, <1>c, <2>1 DEF PayoutInv, ExecutedIsReleased
    <3>2. \A q \in Ids : payout[q].st = "EXECUTED" => payout[q].tx # cursor + 1
      BY <1>c DEF PayoutInv, ExecutedIsReleased
    <3>3. CountedOnce'
      BY <1>a, <2>1, <3>2 DEF PayoutInv, CountedOnce
    <3> QED
      BY <3>1, <3>3
  <2>2. CASE Settles
    BY <1>a, <2>2, SettledOnce
  <2> QED
    BY <1>b, <2>1, <2>2
<1>10. HandlerReads'
  BY <1>a DEF HandlerReads
<1>11. SyncReads'
  BY <1>0, <1>a, SyncStays
<1>q. QueueIsBounded'
  BY <1>0, <1>a, QueueStays
<1> QED
  BY <1>q, <1>1, <1>2, <1>3, <1>4, <1>5, <1>6, <1>7, <1>8, <1>9, <1>10, <1>11
     DEF PayoutInv, RowTypes

LEMMA IndexOtherKeeps ==
  ASSUME PayoutInv, IndexOther
  PROVE  PayoutInv'
<1>0. Steady
  BY StepIsSteady DEF Next, ApiStep, SyncStep, SyncTrouble, IndexerStep, SafeStep
<1>1. (PayoutTypes /\ IntentTypes /\ PropTypes /\ CallTypes /\ RowsAreCreated
       /\ SpentByTheQueue /\ RowsAreReleases /\ CountedOnce /\ SyncReads)'
  BY DEF PayoutInv, RowTypes, IndexOther, chain, PayoutTypes, IntentTypes, PropTypes,
         CallTypes, RowsAreCreated, Absent, SpentByTheQueue, RowsAreReleases, CountedOnce,
         SyncReads, RowOf
<1>2. ChainTypes'
  BY DEF PayoutInv, IndexOther, chain, ChainTypes, Transactions
<1>3. ExecutedIsReleased'
  BY DEF PayoutInv, RowTypes, IndexOther, chain, ExecutedIsReleased, ChainTypes
<1>4. HandlerReads'
  BY DEF IndexOther, HandlerReads
<1>q. QueueIsBounded'
  BY <1>0, QueueStays DEF IndexOther, chain
<1> QED
  BY <1>q, <1>1, <1>2, <1>3, <1>4 DEF PayoutInv, RowTypes

LEMMA ResetChainProjectionKeeps ==
  ASSUME PayoutInv, ResetChainProjection
  PROVE  PayoutInv'
<1>0. Steady
  BY StepIsSteady DEF Next, ApiStep, SyncStep, SyncTrouble, IndexerStep, SafeStep
<1>1. (IntentTypes /\ CallTypes)'
  BY DEF PayoutInv, RowTypes, ResetChainProjection, chain, IntentTypes, CallTypes
<1>2. PayoutTypes'
  BY DEF PayoutInv, RowTypes, ResetChainProjection, chain, PayoutTypes, PayoutRows
<1>3. PropTypes'
  BY Zenon
     DEF PayoutInv, RowTypes, ResetChainProjection, chain, PropTypes, ProposalRows, Verdicts
<1>4. ChainTypes'
  <2>1. /\ spent \in Seq(Transactions) /\ seen \in 0..Len(spent) /\ queue \subseteq Ids
        /\ Len(spent) \in Nat
    BY DEF PayoutInv, ChainTypes
  <2>2. cursor' = 0 /\ rows' = {} /\ UNCHANGED <<spent, seen, queue>>
    BY DEF ResetChainProjection
  <2> QED
    BY <2>1, <2>2 DEF ChainTypes
<1>5. RowsAreCreated'
  BY ZenonT(40)
     DEF PayoutInv, RowTypes, ResetChainProjection, chain, RowsAreCreated, Absent, NoProposal,
         PayoutTypes, PayoutRows, PropTypes, ProposalRows, Verdicts
<1>6. SpentByTheQueue'
  BY <1>0, SpentStays DEF ResetChainProjection, chain
<1>7. RowsAreReleases'
  BY DEF PayoutInv, ResetChainProjection, chain, RowsAreReleases, ChainTypes
<1>8. ExecutedIsReleased'
  BY DEF PayoutInv, RowTypes, ResetChainProjection, chain, ExecutedIsReleased, PayoutTypes,
         PayoutRows, ChainTypes
<1>9. CountedOnce'
  BY DEF PayoutInv, RowTypes, ResetChainProjection, chain, CountedOnce, PayoutTypes,
         PayoutRows, ChainTypes
<1>10. HandlerReads'
  BY DEF ResetChainProjection, HandlerReads
<1>11. SyncReads'
  BY <1>0, SyncStays DEF ResetChainProjection, chain
<1>q. QueueIsBounded'
  BY <1>0, QueueStays DEF ResetChainProjection, chain
<1> QED
  BY <1>q, <1>1, <1>2, <1>3, <1>4, <1>5, <1>6, <1>7, <1>8, <1>9, <1>10, <1>11
     DEF PayoutInv, RowTypes
LEMMA PayoutInit == Init => PayoutInv
<1> SUFFICES ASSUME Init
             PROVE  PayoutInv
  OBVIOUS
<1>1. PayoutTypes /\ PropTypes
  BY DEF Init, PayoutTypes, PayoutRows, PropTypes, ProposalRows, NoProposal, Verdicts
<1>2. IntentTypes
  <2>1. [delivery |-> "SERVICE", nonce |-> 0, due |-> FALSE, consumed |-> FALSE] \in IntentRows
    BY Zenon DEF IntentRows
  <2> QED
    BY <2>1 DEF Init, IntentTypes
<1>3. CallTypes /\ ChainTypes
  BY DEF Init, CallTypes, Calls, ChainTypes
<1>4. RowsAreCreated
  BY DEF Init, RowsAreCreated, Absent, NoProposal
<1>5. QueueIsBounded
  BY DEF Init, QueueIsBounded
<1>6. SpentByTheQueue /\ RowsAreReleases /\ ExecutedIsReleased /\ CountedOnce
  BY DEF Init, SpentByTheQueue, RowsAreReleases, ExecutedIsReleased, CountedOnce
<1>7. HandlerReads /\ SyncReads
  BY DEF Init, HandlerReads, SyncReads, Idle
<1> QED
  BY <1>1, <1>2, <1>3, <1>4, <1>5, <1>6, <1>7 DEF PayoutInv, RowTypes

LEMMA PayoutStep == PayoutInv /\ [Next]_vars => PayoutInv'
<1> SUFFICES ASSUME PayoutInv, [Next]_vars
             PROVE  PayoutInv'
  OBVIOUS
<1>1. CASE ApiStep
  BY <1>1, ExpireAbandonedSafeIntentsKeeps, BeginCreateKeeps, FindActiveKeeps,
     FindBlockingKeeps, ReadGoalKeeps, ReadNonceKeeps, ReplaceIntentKeeps,
     InsertIntentKeeps, CancelManualKeeps, BeginSubmitKeeps, CheckNonceKeeps,
     ClaimIntentKeeps, ProposeKeeps, ProposeFailsKeeps, SubmitDiesKeeps, SubmitDoneKeeps
     DEF ApiStep
<1>2. CASE SyncStep \/ SyncTrouble
  BY <1>2, SyncBeginKeeps, ReconcileFindKeeps, ReconcileCommitKeeps, SyncPendingKeeps,
     SyncReadKeeps, SyncFailsKeeps, SyncMissingKeeps, SyncCommitKeeps, SyncEndKeeps
     DEF SyncStep, SyncTrouble
<1>3. CASE IndexerStep
  BY <1>3, EventReadKeeps, EventWriteKeeps, IndexOtherKeeps DEF IndexerStep
<1>4. CASE SafeStep
  BY <1>4, ExecuteQueuedKeeps, ExecuteOutsideKeeps, ServiceObservesKeeps,
     IntentFallsDueKeeps, ProposalAgesKeeps DEF SafeStep
<1>5. CASE ResetChainProjection
  BY <1>5, ResetChainProjectionKeeps
<1>6. CASE UNCHANGED vars
  <2>1. UNCHANGED <<payout, intent, prop, rows, create, submit, sync, handler, cursor,
                    spent, seen, queue>>
    BY <1>6 DEF vars
  <2>2. (RowTypes /\ CallTypes /\ ChainTypes)'
    BY <2>1 DEF PayoutInv, RowTypes, PayoutTypes, IntentTypes, PropTypes, CallTypes, ChainTypes
  <2>3. (RowsAreCreated /\ SpentByTheQueue /\ QueueIsBounded /\ RowsAreReleases)'
    BY <2>1
       DEF PayoutInv, RowsAreCreated, Absent, SpentByTheQueue, QueueIsBounded, RowsAreReleases
  <2>4. (ExecutedIsReleased /\ CountedOnce /\ HandlerReads /\ SyncReads)'
    BY <2>1 DEF PayoutInv, ExecutedIsReleased, CountedOnce, HandlerReads, SyncReads, RowOf
  <2> QED
    BY <2>2, <2>3, <2>4 DEF PayoutInv
<1> QED
  BY <1>1, <1>2, <1>3, <1>4, <1>5, <1>6 DEF Next

\* What the tables and the calls in flight hold, and the facts that make a
\* release count once.
THEOREM PayoutInvariant == Spec => []PayoutInv
<1> QED
  BY PayoutInit, PayoutStep, PTL DEF Spec

\* However the API, the sync job, the indexer, resets and the Safe's owners
\* interleave: no release stands behind two EXECUTED payouts, or behind one and
\* a row the event handler made for it, and none stands behind no release.
THEOREM NothingCountedTwice == Spec => []NoReleaseCountedTwice
<1>1. PayoutInv => NoReleaseCountedTwice
  <2> SUFFICES ASSUME PayoutInv
               PROVE  NoReleaseCountedTwice
    OBVIOUS
  <2>1. \A i \in rows : i \in 1..cursor /\ spent[i].key # NoKey
    BY DEF PayoutInv, ChainTypes, RowsAreReleases
  <2>2. \A p \in Ids : payout[p].st = "EXECUTED" => payout[p].key \in Keys
    BY DEF PayoutInv, RowsAreCreated, Absent
  <2>3. NoKey \notin Keys
    BY PayoutAssumption DEF NoKey
  <2> QED
    BY <2>1, <2>2, <2>3 DEF PayoutInv, ExecutedIsReleased, CountedOnce, NoReleaseCountedTwice
<1> QED
  BY <1>1, PayoutInvariant, PTL

-----------------------------------------------------------------------------
(* Who writes what.                                                         *)

ExpiresAtSubmit(p) ==
  BeginSubmit(p) /\ payout' = ExpiredPayouts /\ intent' = ExpiredIntents /\ UNCHANGED submit
Expires == \/ ExpireAbandonedSafeIntents \/ SyncBegin
           \/ \E r \in Requests, k \in Keys, d \in Deliveries : BeginCreate(r, k, d)
           \/ \E p \in Ids : ExpiresAtSubmit(p)

LEMMA WritersOfTables ==
  ASSUME Next
  PROVE  \/ UNCHANGED <<payout, intent, prop>>
         \/ Expires \/ ReconcileCommit \/ SyncCommit \/ EventWrite \/ ResetChainProjection
         \/ \E r \in Requests : ReplaceIntent(r) \/ InsertIntent(r)
         \/ \E p \in Ids : \/ CancelManual(p) \/ ClaimIntent(p) \/ Propose(p)
                           \/ ProposeFails(p) \/ SubmitDone(p) \/ SyncFails(p)
                           \/ IntentFallsDue(p) \/ ProposalAges(p)
<1>1. ASSUME NEW p \in Ids, \/ ExecuteQueued(p) \/ SubmitDies(p) \/ CheckNonce(p)
                            \/ ReconcileFind(p) \/ SyncRead(p, TRUE) \/ SyncRead(p, FALSE)
      PROVE  UNCHANGED <<payout, intent, prop>>
  BY <1>1 DEF ExecuteQueued, SubmitDies, CheckNonce, ReconcileFind, SyncRead
<1>2. ASSUME NEW k \in Keys \cup {NoKey}, ExecuteOutside(k)
      PROVE  UNCHANGED <<payout, intent, prop>>
  BY <1>2 DEF ExecuteOutside
<1>3. ASSUME SyncPending \/ SyncMissing \/ SyncEnd \/ EventRead \/ IndexOther \/ ServiceObserves
      PROVE  UNCHANGED <<payout, intent, prop>>
  BY <1>3 DEF SyncPending, SyncMissing, SyncEnd, EventRead, IndexOther, ServiceObserves
<1>4. ASSUME NEW r \in Requests,
             FindActive(r) \/ FindBlocking(r) \/ ReadGoal(r) \/ ReadNonce(r)
      PROVE  UNCHANGED <<payout, intent, prop>>
  BY <1>4 DEF FindActive, FindBlocking, ReadGoal, ReadNonce
<1>5. ASSUME NEW p \in Ids, BeginSubmit(p)
      PROVE  UNCHANGED <<payout, intent, prop>> \/ ExpiresAtSubmit(p)
  BY <1>5 DEF BeginSubmit, ExpiresAtSubmit
<1> QED
  BY <1>1, <1>2, <1>3, <1>4, <1>5
     DEF Next, ApiStep, SyncStep, SyncTrouble, IndexerStep, SafeStep, Expires

LEMMA WritersOfSync ==
  ASSUME Next
  PROVE  \/ UNCHANGED sync
         \/ SyncBegin \/ ReconcileCommit \/ SyncPending \/ SyncMissing \/ SyncCommit \/ SyncEnd
         \/ \E p \in Ids : \/ ReconcileFind(p) \/ SyncRead(p, TRUE) \/ SyncRead(p, FALSE)
                           \/ SyncFails(p)
<1>1. ASSUME NEW p \in Ids, \/ ExecuteQueued(p) \/ CancelManual(p) \/ BeginSubmit(p)
                            \/ Propose(p) \/ ProposeFails(p) \/ SubmitDies(p) \/ SubmitDone(p)
                            \/ IntentFallsDue(p) \/ ProposalAges(p)
      PROVE  UNCHANGED sync
  BY <1>1 DEF ExecuteQueued, CancelManual, BeginSubmit, Propose, ProposeFails, SubmitDies,
              SubmitDone, IntentFallsDue, ProposalAges
<1>2. ASSUME NEW k \in Keys \cup {NoKey}, ExecuteOutside(k)
      PROVE  UNCHANGED sync
  BY <1>2 DEF ExecuteOutside
<1>3. ASSUME \/ EventRead \/ IndexOther \/ ServiceObserves \/ ExpireAbandonedSafeIntents
             \/ EventWrite \/ ResetChainProjection
      PROVE  UNCHANGED sync
  BY <1>3 DEF EventRead, IndexOther, ServiceObserves, ExpireAbandonedSafeIntents,
              EventWrite, ResetChainProjection
<1>4. ASSUME NEW r \in Requests, \/ ReplaceIntent(r) \/ InsertIntent(r)
                                 \/ \E k \in Keys, d \in Deliveries : BeginCreate(r, k, d)
      PROVE  UNCHANGED sync
  BY <1>4 DEF ReplaceIntent, InsertIntent, BeginCreate
<1>5. ASSUME NEW r \in Requests,
             FindActive(r) \/ FindBlocking(r) \/ ReadGoal(r) \/ ReadNonce(r)
      PROVE  UNCHANGED sync
  BY <1>5 DEF FindActive, FindBlocking, ReadGoal, ReadNonce, chain
<1>6. ASSUME NEW p \in Ids, CheckNonce(p) \/ ClaimIntent(p)
      PROVE  UNCHANGED sync
  BY <1>6 DEF CheckNonce, ClaimIntent, chain
<1> QED
  BY <1>1, <1>2, <1>3, <1>4, <1>5, <1>6 DEF Next, ApiStep, SyncStep, SyncTrouble, IndexerStep, SafeStep

LEMMA WritersOfQueue ==
  ASSUME Next
  PROVE  UNCHANGED queue \/ \E p \in Ids : Propose(p)
<1>1. ASSUME NEW p \in Ids, \/ ExecuteQueued(p) \/ ReconcileFind(p) \/ SyncRead(p, TRUE)
                            \/ SyncRead(p, FALSE) \/ CancelManual(p) \/ SyncFails(p)
                            \/ IntentFallsDue(p) \/ ProposalAges(p) \/ BeginSubmit(p)
                            \/ ProposeFails(p) \/ SubmitDies(p) \/ SubmitDone(p)
      PROVE  UNCHANGED queue
  BY <1>1 DEF ExecuteQueued, ReconcileFind, SyncRead, CancelManual, SyncFails, IntentFallsDue,
              ProposalAges, BeginSubmit, ProposeFails, SubmitDies, SubmitDone
<1>2. ASSUME NEW k \in Keys \cup {NoKey}, ExecuteOutside(k)
      PROVE  UNCHANGED queue
  BY <1>2 DEF ExecuteOutside
<1>3. ASSUME \/ SyncPending \/ SyncMissing \/ SyncEnd \/ EventRead \/ IndexOther
             \/ ServiceObserves \/ ExpireAbandonedSafeIntents \/ SyncBegin \/ ReconcileCommit
             \/ SyncCommit \/ EventWrite \/ ResetChainProjection
      PROVE  UNCHANGED queue
  BY <1>3 DEF SyncPending, SyncMissing, SyncEnd, EventRead, IndexOther, ServiceObserves,
              ExpireAbandonedSafeIntents, SyncBegin, ReconcileCommit, SyncCommit, EventWrite,
              ResetChainProjection
<1>4. ASSUME NEW r \in Requests, \/ ReplaceIntent(r) \/ InsertIntent(r)
                                 \/ \E k \in Keys, d \in Deliveries : BeginCreate(r, k, d)
      PROVE  UNCHANGED queue
  BY <1>4 DEF ReplaceIntent, InsertIntent, BeginCreate
<1>5. ASSUME NEW r \in Requests,
             FindActive(r) \/ FindBlocking(r) \/ ReadGoal(r) \/ ReadNonce(r)
      PROVE  UNCHANGED queue
  BY <1>5 DEF FindActive, FindBlocking, ReadGoal, ReadNonce, chain
<1>6. ASSUME NEW p \in Ids, CheckNonce(p) \/ ClaimIntent(p)
      PROVE  UNCHANGED queue
  BY <1>6 DEF CheckNonce, ClaimIntent, chain
<1> QED
  BY <1>1, <1>2, <1>3, <1>4, <1>5, <1>6 DEF Next, ApiStep, SyncStep, SyncTrouble, IndexerStep, SafeStep

LEMMA WritersOfCreate ==
  ASSUME Next
  PROVE  \/ UNCHANGED create
         \/ \E r \in Requests : /\ create' = [create EXCEPT ![r] = Ended]
                                /\ ReplaceIntent(r) \/ InsertIntent(r)
         \/ \E r \in Requests : \/ FindActive(r) \/ FindBlocking(r) \/ ReadGoal(r)
                                \/ ReadNonce(r)
         \/ \E r \in Requests, k \in Keys, d \in Deliveries : BeginCreate(r, k, d)
<1>1. ASSUME NEW p \in Ids, \/ ExecuteQueued(p) \/ ReconcileFind(p) \/ SyncRead(p, TRUE)
                            \/ SyncRead(p, FALSE) \/ CancelManual(p) \/ SyncFails(p)
                            \/ IntentFallsDue(p) \/ ProposalAges(p) \/ BeginSubmit(p)
                            \/ ProposeFails(p) \/ SubmitDies(p) \/ SubmitDone(p) \/ Propose(p)
      PROVE  UNCHANGED create
  BY <1>1 DEF ExecuteQueued, ReconcileFind, SyncRead, CancelManual, SyncFails, IntentFallsDue,
              ProposalAges, BeginSubmit, ProposeFails, SubmitDies, SubmitDone, Propose
<1>2. ASSUME NEW k \in Keys \cup {NoKey}, ExecuteOutside(k)
      PROVE  UNCHANGED create
  BY <1>2 DEF ExecuteOutside
<1>3. ASSUME \/ SyncPending \/ SyncMissing \/ SyncEnd \/ EventRead \/ IndexOther
             \/ ServiceObserves \/ ExpireAbandonedSafeIntents \/ SyncBegin \/ ReconcileCommit
             \/ SyncCommit \/ EventWrite \/ ResetChainProjection
      PROVE  UNCHANGED create
  BY <1>3 DEF SyncPending, SyncMissing, SyncEnd, EventRead, IndexOther, ServiceObserves,
              ExpireAbandonedSafeIntents, SyncBegin, ReconcileCommit, SyncCommit, EventWrite,
              ResetChainProjection
<1>4. ASSUME NEW r \in Requests, ReplaceIntent(r) \/ InsertIntent(r)
      PROVE  create' = [create EXCEPT ![r] = Ended]
  BY <1>4 DEF ReplaceIntent, InsertIntent
<1>6. ASSUME NEW p \in Ids, CheckNonce(p) \/ ClaimIntent(p)
      PROVE  UNCHANGED create
  BY <1>6 DEF CheckNonce, ClaimIntent, chain
<1> QED
  BY <1>1, <1>2, <1>3, <1>4, <1>6 DEF Next, ApiStep, SyncStep, SyncTrouble, IndexerStep, SafeStep

LEMMA WritersOfRows ==
  ASSUME Next
  PROVE  UNCHANGED rows \/ ReconcileCommit \/ SyncCommit \/ EventWrite \/ ResetChainProjection
<1>1. ASSUME NEW p \in Ids, \/ ExecuteQueued(p) \/ ReconcileFind(p) \/ SyncRead(p, TRUE)
                            \/ SyncRead(p, FALSE) \/ CancelManual(p) \/ SyncFails(p)
                            \/ IntentFallsDue(p) \/ ProposalAges(p) \/ BeginSubmit(p)
                            \/ ProposeFails(p) \/ SubmitDies(p) \/ SubmitDone(p) \/ Propose(p)
      PROVE  UNCHANGED rows
  BY <1>1 DEF ExecuteQueued, ReconcileFind, SyncRead, CancelManual, SyncFails, IntentFallsDue,
              ProposalAges, BeginSubmit, ProposeFails, SubmitDies, SubmitDone, Propose
<1>2. ASSUME NEW k \in Keys \cup {NoKey}, ExecuteOutside(k)
      PROVE  UNCHANGED rows
  BY <1>2 DEF ExecuteOutside
<1>3. ASSUME \/ SyncPending \/ SyncMissing \/ SyncEnd \/ EventRead \/ IndexOther
             \/ ServiceObserves \/ ExpireAbandonedSafeIntents \/ SyncBegin
      PROVE  UNCHANGED rows
  BY <1>3 DEF SyncPending, SyncMissing, SyncEnd, EventRead, IndexOther, ServiceObserves,
              ExpireAbandonedSafeIntents, SyncBegin
<1>4. ASSUME NEW r \in Requests, \/ ReplaceIntent(r) \/ InsertIntent(r)
                                 \/ \E k \in Keys, d \in Deliveries : BeginCreate(r, k, d)
      PROVE  UNCHANGED rows
  BY <1>4 DEF ReplaceIntent, InsertIntent, BeginCreate
<1>5. ASSUME NEW r \in Requests,
             FindActive(r) \/ FindBlocking(r) \/ ReadGoal(r) \/ ReadNonce(r)
      PROVE  UNCHANGED rows
  BY <1>5 DEF FindActive, FindBlocking, ReadGoal, ReadNonce, chain
<1>6. ASSUME NEW p \in Ids, CheckNonce(p) \/ ClaimIntent(p)
      PROVE  UNCHANGED rows
  BY <1>6 DEF CheckNonce, ClaimIntent, chain
<1> QED
  BY <1>1, <1>2, <1>3, <1>4, <1>5, <1>6 DEF Next, ApiStep, SyncStep, SyncTrouble, IndexerStep, SafeStep

LEMMA WritersOfHandler ==
  ASSUME Next
  PROVE  \/ UNCHANGED <<handler, cursor>> \/ EventRead \/ EventWrite
         \/ IndexOther \/ ResetChainProjection
<1>1. ASSUME NEW p \in Ids, \/ ExecuteQueued(p) \/ ReconcileFind(p) \/ SyncRead(p, TRUE)
                            \/ SyncRead(p, FALSE) \/ CancelManual(p) \/ SyncFails(p)
                            \/ IntentFallsDue(p) \/ ProposalAges(p) \/ BeginSubmit(p)
                            \/ ProposeFails(p) \/ SubmitDies(p) \/ SubmitDone(p) \/ Propose(p)
      PROVE  UNCHANGED <<handler, cursor>>
  BY <1>1 DEF ExecuteQueued, ReconcileFind, SyncRead, CancelManual, SyncFails, IntentFallsDue,
              ProposalAges, BeginSubmit, ProposeFails, SubmitDies, SubmitDone, Propose
<1>2. ASSUME NEW k \in Keys \cup {NoKey}, ExecuteOutside(k)
      PROVE  UNCHANGED <<handler, cursor>>
  BY <1>2 DEF ExecuteOutside
<1>3. ASSUME \/ SyncPending \/ SyncMissing \/ SyncEnd
             \/ ServiceObserves \/ ExpireAbandonedSafeIntents \/ SyncBegin \/ ReconcileCommit
             \/ SyncCommit
      PROVE  UNCHANGED <<handler, cursor>>
  BY <1>3 DEF SyncPending, SyncMissing, SyncEnd, ServiceObserves,
              ExpireAbandonedSafeIntents, SyncBegin, ReconcileCommit, SyncCommit
<1>4. ASSUME NEW r \in Requests, \/ ReplaceIntent(r) \/ InsertIntent(r)
                                 \/ \E k \in Keys, d \in Deliveries : BeginCreate(r, k, d)
      PROVE  UNCHANGED <<handler, cursor>>
  BY <1>4 DEF ReplaceIntent, InsertIntent, BeginCreate
<1>5. ASSUME NEW r \in Requests,
             FindActive(r) \/ FindBlocking(r) \/ ReadGoal(r) \/ ReadNonce(r)
      PROVE  UNCHANGED <<handler, cursor>>
  BY <1>5 DEF FindActive, FindBlocking, ReadGoal, ReadNonce, chain
<1>6. ASSUME NEW p \in Ids, CheckNonce(p) \/ ClaimIntent(p)
      PROVE  UNCHANGED <<handler, cursor>>
  BY <1>6 DEF CheckNonce, ClaimIntent, chain
<1> QED
  BY <1>1, <1>2, <1>3, <1>4, <1>5, <1>6 DEF Next, ApiStep, SyncStep, SyncTrouble, IndexerStep, SafeStep

LEMMA WritersOfSpent ==
  ASSUME Next
  PROVE  UNCHANGED spent \/ (\E p \in Ids : ExecuteQueued(p))
         \/ \E k \in Keys \cup {NoKey} : ExecuteOutside(k)
<1>1. ASSUME NEW p \in Ids, \/ ReconcileFind(p) \/ SyncRead(p, TRUE)
                            \/ SyncRead(p, FALSE) \/ CancelManual(p) \/ SyncFails(p)
                            \/ IntentFallsDue(p) \/ ProposalAges(p) \/ BeginSubmit(p)
                            \/ ProposeFails(p) \/ SubmitDies(p) \/ SubmitDone(p) \/ Propose(p)
      PROVE  UNCHANGED spent
  BY <1>1 DEF ReconcileFind, SyncRead, CancelManual, SyncFails, IntentFallsDue, chain,
              ProposalAges, BeginSubmit, ProposeFails, SubmitDies, SubmitDone, Propose
<1>3. ASSUME \/ SyncPending \/ SyncMissing \/ SyncEnd \/ EventRead \/ IndexOther
             \/ ServiceObserves \/ ExpireAbandonedSafeIntents \/ SyncBegin \/ ReconcileCommit
             \/ SyncCommit \/ EventWrite \/ ResetChainProjection
      PROVE  UNCHANGED spent
  BY <1>3 DEF SyncPending, SyncMissing, SyncEnd, EventRead, IndexOther, ServiceObserves,
              ExpireAbandonedSafeIntents, SyncBegin, ReconcileCommit, SyncCommit, EventWrite,
              ResetChainProjection, chain
<1>4. ASSUME NEW r \in Requests, \/ ReplaceIntent(r) \/ InsertIntent(r)
                                 \/ \E k \in Keys, d \in Deliveries : BeginCreate(r, k, d)
      PROVE  UNCHANGED spent
  BY <1>4 DEF ReplaceIntent, InsertIntent, BeginCreate, chain
<1>5. ASSUME NEW r \in Requests,
             FindActive(r) \/ FindBlocking(r) \/ ReadGoal(r) \/ ReadNonce(r)
      PROVE  UNCHANGED spent
  BY <1>5 DEF FindActive, FindBlocking, ReadGoal, ReadNonce, chain
<1>6. ASSUME NEW p \in Ids, CheckNonce(p) \/ ClaimIntent(p)
      PROVE  UNCHANGED spent
  BY <1>6 DEF CheckNonce, ClaimIntent, chain
<1> QED
  BY <1>1, <1>3, <1>4, <1>5, <1>6 DEF Next, ApiStep, SyncStep, SyncTrouble, IndexerStep, SafeStep

\* What an update leaves of a proposal and an intent.
LEMMA ProposalNoted ==
  ASSUME NEW row \in ProposalRows, NEW b, NEW noted, noted = [row EXCEPT !.reason = b]
  PROVE  /\ noted.st = row.st /\ noted.exec = row.exec
         /\ noted.nonce = row.nonce /\ noted.aged = row.aged /\ noted.late = row.late
BY DEF ProposalRows

LEMMA IntentConsumed ==
  ASSUME NEW row \in IntentRows, NEW b, NEW used, used = [row EXCEPT !.consumed = b]
  PROVE  used.consumed = b /\ used.delivery = row.delivery /\ used.nonce = row.nonce
BY DEF IntentRows

LEMMA ProposalOfCommit ==
  ASSUME PayoutInv, SyncCommit, NEW p \in Ids
  PROVE  \/ prop'[p] = prop[p]
         \/ /\ sync.p = p /\ prop[p].st \in Pending
            /\ prop'[p].st = prop[p].st /\ prop'[p].exec = prop[p].exec
         \/ /\ sync.p = p /\ prop[p].st \in Pending
            /\ prop'[p].st = sync.next.st /\ prop'[p].exec = sync.next.exec
<1>1. prop \in [Ids -> ProposalRows] /\ prop[p] \in ProposalRows
  BY DEF PayoutInv, RowTypes, PropTypes
<1>2. p # sync.p => prop'[p] = prop[p]
  BY <1>1, CommitWrites
<1>3. p = sync.p => \/ prop'[p] = prop[p]
                    \/ /\ prop[p].st \in Pending
                       /\ prop'[p] = [prop[p] EXCEPT !.reason = TRUE]
                    \/ /\ prop[p].st \in Pending
                       /\ prop'[p] = [prop[p] EXCEPT !.st = sync.next.st,
                                        !.exec = sync.next.exec, !.reason = sync.next.reason]
  BY ZenonT(40), <1>1, CommitWrites
<1>4. ASSUME prop'[p] = [prop[p] EXCEPT !.reason = TRUE]
      PROVE  prop'[p].st = prop[p].st /\ prop'[p].exec = prop[p].exec
  BY <1>1, <1>4, ProposalNoted
<1>5. ASSUME prop'[p] = [prop[p] EXCEPT !.st = sync.next.st, !.exec = sync.next.exec,
                                        !.reason = sync.next.reason]
      PROVE  prop'[p].st = sync.next.st /\ prop'[p].exec = sync.next.exec
  BY <1>1, <1>5 DEF ProposalRows
<1> QED
  BY <1>2, <1>3, <1>4, <1>5, Zenon

LEMMA ProposalOfWrite ==
  ASSUME PayoutInv, EventWrite, NEW p \in Ids
  PROVE  \/ prop'[p] = prop[p]
         \/ /\ handler.pc = "settle" /\ handler.p = p
            /\ prop'[p].st = "EXECUTED" /\ prop'[p].exec = cursor + 1
<1>1. prop \in [Ids -> ProposalRows] /\ prop[p] \in ProposalRows
  BY DEF PayoutInv, RowTypes, PropTypes
<1>2. \/ prop'[p] = prop[p]
      \/ /\ handler.pc = "settle" /\ handler.p = p
         /\ prop'[p] = [prop[p] EXCEPT !.st = "EXECUTED", !.exec = cursor + 1, !.reason = FALSE]
  BY <1>1, HandlerWrites
<1>3. ASSUME prop'[p] = [prop[p] EXCEPT !.st = "EXECUTED", !.exec = cursor + 1, !.reason = FALSE]
      PROVE  prop'[p].st = "EXECUTED" /\ prop'[p].exec = cursor + 1
  BY <1>1, <1>3 DEF ProposalRows
<1> QED
  BY <1>2, <1>3, Zenon

\* What an expiry does to one payout.
LEMMA ExpiryOf ==
  ASSUME Expires, NEW p \in Ids
  PROVE  /\ UNCHANGED <<prop, rows, submit, handler, cursor, goals, queue, chain>>
         /\ \/ payout'[p] = payout[p] /\ intent'[p] = intent[p]
            \/ /\ payout[p].st = "PROPOSED" /\ prop[p].st = "NONE"
               /\ intent[p].delivery = "SERVICE"
               /\ payout'[p] = [payout[p] EXCEPT !.st = "FAILED"]
               /\ intent'[p] = [intent[p] EXCEPT !.consumed = TRUE]
<1>1. /\ payout' = ExpiredPayouts /\ intent' = ExpiredIntents
      /\ UNCHANGED <<prop, rows, submit, handler, cursor, goals, queue, chain>>
  BY DEF Expires, ExpireAbandonedSafeIntents, SyncBegin, BeginCreate, ExpiresAtSubmit,
         BeginSubmit
<1> QED
  BY <1>1 DEF ExpiredPayouts, ExpiredIntents, Expirable

-----------------------------------------------------------------------------
(* A payout that was given up releases nothing.                             *)

\* Who gives a payout up, and who finds its proposal replaced.
LEMMA GivenUpBy ==
  ASSUME PayoutInv, Next, NEW p \in Ids, intent'[p].delivery = "SERVICE"
  PROVE  /\ payout'[p].st = "FAILED" =>
              \/ /\ payout[p].st = "FAILED" /\ intent[p].delivery = "SERVICE"
                 /\ prop[p].st = "NONE" /\ intent[p].consumed =>
                       prop'[p].st = "NONE" /\ intent'[p].consumed
              \/ prop'[p].st = "NONE" /\ intent'[p].consumed
              \/ sync.pc = "commit" /\ sync.p = p /\ sync.next.st \in {"FAILED", "STALE"}
         /\ prop'[p].st = "STALE" =>
              \/ prop[p].st = "STALE" /\ intent[p].delivery = "SERVICE"
              \/ sync.pc = "commit" /\ sync.p = p /\ sync.next.st = "STALE"
<1> DEFINE Given ==
         /\ payout'[p].st = "FAILED" =>
              \/ /\ payout[p].st = "FAILED" /\ intent[p].delivery = "SERVICE"
                 /\ prop[p].st = "NONE" /\ intent[p].consumed =>
                       prop'[p].st = "NONE" /\ intent'[p].consumed
              \/ prop'[p].st = "NONE" /\ intent'[p].consumed
              \/ sync.pc = "commit" /\ sync.p = p /\ sync.next.st \in {"FAILED", "STALE"}
         /\ prop'[p].st = "STALE" =>
              \/ prop[p].st = "STALE" /\ intent[p].delivery = "SERVICE"
              \/ sync.pc = "commit" /\ sync.p = p /\ sync.next.st = "STALE"
<1>t. /\ payout \in [Ids -> PayoutRows] /\ intent \in [Ids -> IntentRows]
      /\ prop \in [Ids -> ProposalRows]
      /\ payout[p] \in PayoutRows /\ intent[p] \in IntentRows /\ prop[p] \in ProposalRows
  BY DEF PayoutInv, RowTypes, PayoutTypes, IntentTypes, PropTypes
<1>1. ASSUME UNCHANGED <<payout, intent, prop>> PROVE Given
  BY <1>1
<1>2. ASSUME Expires PROVE Given
  BY <1>2, <1>t, ExpiryOf DEF PayoutRows, IntentRows
<1>3. ASSUME ReconcileCommit PROVE Given
  <2>1. UNCHANGED <<intent, prop>> /\ \A q \in Ids : payout'[q].st = "FAILED" => payout[q].st = "FAILED"
    BY <1>3, <1>t, ReconcileWrites DEF ReconcileCommit, PayoutRows
  <2> QED
    BY <2>1
<1>4. ASSUME SyncCommit PROVE Given
  <2>1. sync.pc = "commit" /\ UNCHANGED intent
    BY <1>4 DEF SyncCommit
  <2>2. payout'[p].st = "FAILED" => \/ payout[p].st = "FAILED"
                                    \/ sync.p = p /\ sync.next.st \in {"FAILED", "STALE"}
    BY <1>4, <1>t, CommitWrites DEF PayoutRows
  <2>3. /\ prop'[p].st = "STALE" => prop[p].st = "STALE" \/ (sync.p = p /\ sync.next.st = "STALE")
        /\ prop[p].st = "NONE" => prop'[p].st = "NONE"
    BY <1>4, ProposalOfCommit DEF Pending
  <2> QED
    BY <2>1, <2>2, <2>3
<1>5. ASSUME EventWrite PROVE Given
  <2>1. payout'[p].st = "FAILED" => payout'[p] = payout[p] /\ prop'[p] = prop[p]
                                    /\ intent'[p] = intent[p]
    BY <1>5, <1>t, HandlerWrites DEF PayoutRows
  <2>2. prop'[p].st = "STALE" => prop[p].st = "STALE"
    BY <1>5, ProposalOfWrite
  <2>3. intent'[p].delivery = intent[p].delivery
    <3>1. intent'[p] = intent[p] \/ intent'[p] = [intent[p] EXCEPT !.consumed = TRUE]
      BY ZenonT(40), <1>5, <1>t, HandlerWrites
    <3> QED
      BY <1>t, <3>1, IntentConsumed
  <2> QED
    BY <2>1, <2>2, <2>3
<1>6. ASSUME ResetChainProjection PROVE Given
  <2>1. UNCHANGED intent /\ (payout'[p].st = "FAILED" => payout[p].st = "FAILED" /\ prop'[p] = prop[p])
    BY <1>6, <1>t DEF ResetChainProjection, PayoutRows
  <2>2. prop'[p].st = "STALE" => prop[p].st = "STALE"
    BY <1>6, <1>t DEF ResetChainProjection, ProposalRows
  <2> QED
    BY <2>1, <2>2
<1>7. ASSUME NEW r \in Requests, ReplaceIntent(r) PROVE Given
  <2>1. create[r] \in Replacing /\ create[r].p \in Ids
    BY <1>7
       DEF ReplaceIntent, PayoutInv, CallTypes, Calls, Replacing, Inserting, Reading, Idle, Ended
  <2>2. p # create[r].p => intent'[p] = intent[p] /\ prop'[p] = prop[p]
    BY <1>7, <1>t DEF ReplaceIntent
  <2>3. p = create[r].p => intent'[p] = intent[p] /\ prop'[p] = prop[p]
    <3>1. [delivery |-> "MANUAL", nonce |-> 0, due |-> FALSE, consumed |-> FALSE].delivery # "SERVICE"
      OBVIOUS
    <3> QED
      BY <1>7, <1>t, <2>1, <3>1 DEF ReplaceIntent
  <2>4. UNCHANGED payout
    BY <1>7 DEF ReplaceIntent
  <2> QED
    BY <2>2, <2>3, <2>4
<1>8. ASSUME NEW r \in Requests, InsertIntent(r) PROVE Given
  <2>1. UNCHANGED prop
    BY <1>8 DEF InsertIntent
  <2>2. \/ payout'[p] = payout[p] /\ intent'[p] = intent[p]
        \/ Absent(p) /\ payout'[p].st = "PROPOSED"
    <3>1. CASE UNCHANGED <<payout, intent>>
      BY <3>1
    <3>2. ASSUME NEW q \in Ids, Absent(q),
                 payout' = [payout EXCEPT ![q] = [st |-> "PROPOSED", tx |-> 0,
                                                  key |-> create[r].key]],
                 intent' = [intent EXCEPT ![q].delivery = create[r].delivery,
                                          ![q].nonce = create[r].nonce]
          PROVE  \/ payout'[p] = payout[p] /\ intent'[p] = intent[p]
                 \/ Absent(p) /\ payout'[p].st = "PROPOSED"
      BY <1>t, <3>2
    <3> QED
      BY <1>8, <3>1, <3>2 DEF InsertIntent
  <2>3. Absent(p) => prop[p].st = "NONE"
    BY DEF PayoutInv, RowsAreCreated
  <2> QED
    BY <2>1, <2>2, <2>3
<1>9. ASSUME NEW q \in Ids, CancelManual(q) PROVE Given
  <2>1. p # q /\ UNCHANGED prop
    BY <1>9, <1>t DEF CancelManual, IntentRows
  <2> QED
    BY <1>9, <1>t, <2>1 DEF CancelManual
<1>10. ASSUME NEW q \in Ids, ClaimIntent(q) PROVE Given
  <2>1. CASE UNCHANGED <<payout, intent, prop>>
    BY <2>1
  <2>2. CASE /\ UNCHANGED payout /\ payout[q].st = "PROPOSED"
             /\ intent' = [intent EXCEPT ![q].consumed = TRUE]
             /\ prop' = [prop EXCEPT ![q] = [NoProposal EXCEPT
                             !.st = "SUBMITTING", !.nonce = intent[q].nonce]]
    <3>1. p # q => intent'[p] = intent[p] /\ prop'[p] = prop[p]
      BY <1>t, <2>2
    <3>2. p = q => prop'[p].st = "SUBMITTING"
      BY <1>t, <2>2 DEF NoProposal
    <3> QED
      BY <2>2, <3>1, <3>2
  <2> QED
    BY <1>10, <2>1, <2>2 DEF ClaimIntent
<1>14. ASSUME NEW q \in Ids, Propose(q) PROVE Given
  <2>1. UNCHANGED <<payout, intent>>
    BY <1>14 DEF Propose
  <2>2. prop'[p].st = prop[p].st
    BY <1>14, <1>t DEF Propose, ProposalRows
  <2> QED
    BY <2>1, <2>2
<1>11. ASSUME NEW q \in Ids, ProposeFails(q) \/ SubmitDone(q) \/ SyncFails(q) \/ ProposalAges(q)
       PROVE  Given
  <2>1. UNCHANGED <<payout, intent>>
    BY <1>11 DEF ProposeFails, SubmitDone, SyncFails, ProposalAges
  <2>2. /\ prop'[p].st = "STALE" => prop[p].st = "STALE"
        /\ prop[p].st = "NONE" => prop'[p].st = "NONE"
    BY <1>11, <1>t DEF ProposeFails, SubmitDone, SyncFails, ProposalAges, ProposalRows
  <2> QED
    BY <2>1, <2>2
<1>12. ASSUME NEW q \in Ids, IntentFallsDue(q) PROVE Given
  <2>1. UNCHANGED <<payout, prop>> /\ intent' = [intent EXCEPT ![q].due = TRUE]
    BY <1>12 DEF IntentFallsDue
  <2>2. intent'[p].delivery = intent[p].delivery /\ intent'[p].consumed = intent[p].consumed
    BY <1>t, <2>1 DEF IntentRows
  <2> QED
    BY <2>1, <2>2
<1> HIDE DEF Given
<1>13. Given
  BY <1>1, <1>2, <1>3, <1>4, <1>5, <1>6, <1>7, <1>8, <1>9, <1>10, <1>11, <1>12, <1>14, WritersOfTables
<1> QED
  BY <1>13 DEF Given

\* What makes a payout hopeless lasts.
LEMMA HopelessLasts ==
  ASSUME PayoutInv, Next, NEW p \in Ids, prop[p].st # "NONE"
  PROVE  /\ TakenByAnother(p) => TakenByAnother(p)'
         /\ ReleasedNothing(p) => ReleasedNothing(p)'
         /\ NotInTime(p) => NotInTime(p)'
         /\ Hopeless(p) => Hopeless(p)'
<1>0. Steady
  BY StepIsSteady
<1>1. prop'[p].st # "NONE" /\ prop'[p].nonce = prop[p].nonce
      /\ (prop[p].aged => prop'[p].aged) /\ (prop[p].late => prop'[p].late)
  BY <1>0 DEF Steady, SentStays
<1>2. prop[p].nonce < Len(spent) =>
        prop[p].nonce < Len(spent') /\ spent'[prop[p].nonce + 1] = spent[prop[p].nonce + 1]
  <2>1. prop[p].nonce \in Nat /\ Len(spent) \in Nat /\ DOMAIN spent = 1..Len(spent)
        /\ Len(spent) <= Len(spent') /\ Len(spent') \in Nat
    <3>1. PayoutInv'
      BY PayoutStep
    <3> QED
      BY <1>0, <3>1
         DEF PayoutInv, ChainTypes, RowTypes, PropTypes, ProposalRows, Steady, SpentGrows
  <2> QED
    BY <1>0, <2>1 DEF Steady, SpentGrows
<1>3. NotInTime(p) => NotInTime(p)'
  <2> SUFFICES ASSUME NotInTime(p), p \in queue'
               PROVE  prop'[p].late
    BY <1>1 DEF NotInTime
  <2>1. CASE p \in queue
    BY <1>1, <2>1 DEF NotInTime
  <2>2. ASSUME NEW q \in Ids, Propose(q), p \notin queue
        PROVE  prop'[p].late
    <3>1. p = q /\ prop[p].aged
      BY <2>2 DEF Propose, NotInTime
    <3> QED
      BY <2>2, <3>1 DEF Propose, PayoutInv, RowTypes, PropTypes, ProposalRows
  <2> QED
    BY <2>1, <2>2, WritersOfQueue
<1>4. (TakenByAnother(p) => TakenByAnother(p)') /\ (ReleasedNothing(p) => ReleasedNothing(p)')
  BY <1>1, <1>2 DEF TakenByAnother, ReleasedNothing
<1> QED
  BY <1>1, <1>3, <1>4 DEF Hopeless

\* A verdict on a transaction that spent the proposal's nonce.
LEMMA VerdictOfClassify ==
  ASSUME PayoutInv, NEW p \in Ids, NEW n \in Nat, NEW known \in BOOLEAN, prop[p].st # "NONE"
  PROVE  /\ Classify(p, n, known).st = "FAILED" => Hopeless(p)
         /\ Classify(p, n, known).st = "STALE" => TakenByAnother(p)
<1>1. prop[p].nonce \in Nat /\ Len(spent) \in Nat /\ DOMAIN spent = 1..Len(spent)
  BY DEF PayoutInv, ChainTypes, RowTypes, PropTypes, ProposalRows
<1>2. prop[p].nonce + 1 \in DOMAIN spent => prop[p].nonce < Len(spent)
  BY <1>1
<1> DEFINE c == Classify(p, n, known)
           tx == prop[p].nonce + 1
<1>3. \/ \E b \in BOOLEAN : c = [st |-> "AWAITING", exec |-> 0, reason |-> b]
      \/ /\ tx \in DOMAIN spent /\ spent[tx].by = p
         /\ \/ c = [st |-> "AWAITING", exec |-> tx, reason |-> TRUE]
            \/ spent[tx].key # NoKey /\ c = [st |-> "EXECUTED", exec |-> tx, reason |-> FALSE]
            \/ spent[tx].key = NoKey /\ c = [st |-> "FAILED", exec |-> tx, reason |-> TRUE]
      \/ /\ tx \in DOMAIN spent /\ spent[tx].by # p
         /\ c = [st |-> "STALE", exec |-> 0, reason |-> TRUE]
  BY ClassifyAnswers
<1> HIDE DEF c
<1>4. c.st = "FAILED" => tx \in DOMAIN spent /\ spent[tx].key = NoKey
  BY <1>3
<1>5. c.st = "STALE" => tx \in DOMAIN spent /\ spent[tx].by # p
  BY <1>3
<1> QED
  BY <1>2, <1>4, <1>5 DEF c, Hopeless, ReleasedNothing, TakenByAnother

LEMMA VerdictsStayFinal ==
  ASSUME GivenUpInv, Next
  PROVE  VerdictsAreFinal'
<1>0. /\ PayoutInv /\ Steady
      /\ \A p \in Ids : prop[p].st # "NONE" => prop'[p].st # "NONE"
  BY StepIsSteady DEF GivenUpInv, Steady, SentStays
<1>1. CASE UNCHANGED sync
  <2>1. sync.pc \in {"pass", "missing", "commit"} => sync.todo \subseteq Ids
    BY <1>0, SyncIsShaped DEF Passing, Missing, Committing
  <2>2. sync.pc \in {"missing", "commit"} => sync.p \in Ids
    BY <1>0, SyncIsShaped DEF Missing, Committing
  <2>3. sync.pc \in {"pass", "missing", "commit"} => \A p \in sync.todo : prop'[p].st # "NONE"
    BY <1>0, <2>1 DEF GivenUpInv, VerdictsAreFinal
  <2>4. sync.pc \in {"missing", "commit"} => prop[sync.p].st # "NONE"
    BY DEF GivenUpInv, VerdictsAreFinal
  <2>5. sync.pc = "missing" => NotInTime(sync.p)'
    BY <1>0, <1>1, <2>2, <2>4, HopelessLasts DEF GivenUpInv, VerdictsAreFinal, NotInTime
  <2>6. sync.pc = "commit" => /\ sync.next.st = "FAILED" => Hopeless(sync.p)'
                              /\ sync.next.st = "STALE" => TakenByAnother(sync.p)'
    BY <1>0, <1>1, <2>2, <2>4, HopelessLasts
       DEF GivenUpInv, VerdictsAreFinal, Hopeless, TakenByAnother, ReleasedNothing, NotInTime
  <2> QED
    BY <1>0, <1>1, <2>2, <2>3, <2>4, <2>5, <2>6 DEF VerdictsAreFinal
<1>2. ASSUME \/ SyncBegin \/ ReconcileCommit \/ SyncEnd \/ \E p \in Ids : ReconcileFind(p)
      PROVE  VerdictsAreFinal'
  <2>1. sync'.pc \notin {"pass", "missing", "commit"}
    BY <1>2 DEF SyncBegin, ReconcileCommit, SyncEnd, ReconcileFind, Idle
  <2> QED
    BY <2>1 DEF VerdictsAreFinal
<1>3. CASE SyncPending
  <2>1. UNCHANGED prop /\ \/ sync' = Idle
                          \/ /\ sync'.pc = "pass"
                             /\ sync'.todo = {p \in Ids : prop[p].st \in Pending}
    BY <1>3 DEF SyncPending
  <2> QED
    BY <2>1 DEF VerdictsAreFinal, Idle, Pending
<1>4. CASE SyncCommit
  <2>1. sync'.pc = "pass" /\ sync'.todo = sync.todo /\ sync.todo \subseteq Ids /\ sync.pc = "commit"
    BY <1>0, <1>4, SyncIsShaped DEF SyncCommit, Committing
  <2>2. \A p \in sync.todo : prop[p].st # "NONE"
    BY <2>1 DEF GivenUpInv, VerdictsAreFinal
  <2> QED
    BY <1>0, <2>1, <2>2 DEF VerdictsAreFinal
<1>5. ASSUME NEW p \in Ids, SyncFails(p)
      PROVE  VerdictsAreFinal'
  <2>1. /\ sync.pc = "pass" /\ sync.todo \subseteq Ids /\ p \in sync.todo
        /\ UNCHANGED queue
    BY <1>0, <1>5, SyncIsShaped DEF SyncFails, Passing
  <2>2. \A q \in sync.todo : prop'[q].st # "NONE"
    BY <1>0, <2>1 DEF GivenUpInv, VerdictsAreFinal
  <2>3. \/ /\ sync'.pc = "missing" /\ sync'.todo = sync.todo \ {p} /\ sync'.p = p
           /\ p \notin queue /\ prop[p].aged /\ UNCHANGED prop
        \/ sync'.pc = "pass" /\ sync'.todo = sync.todo \ {p}
    BY <1>0, <1>5, <2>1, SyncIsShaped DEF SyncFails, Passing
  <2> QED
    BY <2>1, <2>2, <2>3 DEF VerdictsAreFinal, NotInTime
<1>6. ASSUME NEW p \in Ids, NEW known \in BOOLEAN, SyncRead(p, known)
      PROVE  VerdictsAreFinal'
  <2>1. /\ sync.pc = "pass" /\ sync.todo \subseteq Ids /\ p \in sync.todo /\ sync.nonce \in Nat
        /\ UNCHANGED <<prop, queue, spent>>
    BY <1>0, <1>6, SyncIsShaped DEF SyncRead, Passing, chain
  <2>2. \A q \in sync.todo : prop[q].st # "NONE"
    BY <2>1 DEF GivenUpInv, VerdictsAreFinal
  <2>3. /\ sync'.pc = "commit" /\ sync'.todo = sync.todo \ {p} /\ sync'.p = p
        /\ sync'.next = Classify(p, sync.nonce, known)
    BY <1>6 DEF SyncRead, SyncView
  <2>4. /\ sync'.next.st = "FAILED" => Hopeless(p)
        /\ sync'.next.st = "STALE" => TakenByAnother(p)
    BY <1>0, <2>1, <2>2, <2>3, VerdictOfClassify
  <2>5. (Hopeless(p) => Hopeless(p)') /\ (TakenByAnother(p) => TakenByAnother(p)')
    BY <2>1 DEF Hopeless, TakenByAnother, ReleasedNothing, NotInTime
  <2> QED
    BY <2>1, <2>2, <2>3, <2>4, <2>5
       DEF VerdictsAreFinal, Hopeless, TakenByAnother, ReleasedNothing, NotInTime
<1>7. CASE SyncMissing
  <2> DEFINE p == sync.p
  <2>1. /\ sync.pc = "missing" /\ sync.todo \subseteq Ids /\ p \in Ids /\ sync.nonce \in Nat
        /\ UNCHANGED <<prop, queue, spent>>
    BY <1>0, <1>7, SyncIsShaped DEF SyncMissing, Missing, chain
  <2>2. /\ \A q \in sync.todo : prop[q].st # "NONE"
        /\ prop[p].st # "NONE" /\ NotInTime(p)
    BY <2>1 DEF GivenUpInv, VerdictsAreFinal
  <2>3. PICK next : /\ SyncView(p, next)
                    /\ next.st = "FAILED" => Hopeless(p)
                    /\ next.st = "STALE" => TakenByAnother(p)
    <3> DEFINE other == \E t \in KnownAt(prop[p].nonce) : t.by # p
               next == IF other
                       THEN [st |-> "STALE", exec |-> prop[p].exec, reason |-> TRUE]
                       ELSE IF p \in queue THEN Classify(p, sync.nonce, TRUE)
                       ELSE IF prop[p].nonce < sync.nonce
                       THEN [st |-> "SUBMITTING", exec |-> prop[p].exec, reason |-> TRUE]
                       ELSE [st |-> "FAILED", exec |-> prop[p].exec, reason |-> TRUE]
    <3>1. SyncView(p, next)
      BY <1>7 DEF SyncMissing
    <3>2. other => TakenByAnother(p)
      <4>1. prop[p].nonce \in Nat /\ Len(spent) \in Nat /\ seen \in 0..Len(spent)
        BY <1>0, <2>1 DEF PayoutInv, ChainTypes, RowTypes, PropTypes, ProposalRows
      <4> QED
        BY <4>1 DEF KnownAt, TakenByAnother
    <3>3. Hopeless(p)
      BY <2>2 DEF Hopeless
    <3>4. next.st = "STALE" => TakenByAnother(p)
      <4>1. Classify(p, sync.nonce, TRUE).st = "STALE" => TakenByAnother(p)
        BY <1>0, <2>1, <2>2, VerdictOfClassify
      <4> HIDE DEF other
      <4> QED
        BY <3>2, <4>1
    <3> HIDE DEF other, next
    <3> QED
      BY <3>1, <3>3, <3>4
  <2>4. /\ sync'.pc = "commit" /\ sync'.todo = sync.todo \ {p} /\ sync'.p = p
        /\ sync'.next = next
    BY <2>3 DEF SyncView
  <2> HIDE DEF p
  <2>5. (Hopeless(p) => /\ prop'[p].st # "NONE"
                        /\ \/ prop'[p].nonce < Len(spent') /\ spent'[prop'[p].nonce + 1].by # p
                           \/ prop'[p].nonce < Len(spent') /\ spent'[prop'[p].nonce + 1].key = NoKey
                           \/ prop'[p].aged /\ (p \in queue' => prop'[p].late))
        /\ (TakenByAnother(p) =>
              prop'[p].nonce < Len(spent') /\ spent'[prop'[p].nonce + 1].by # p)
    BY <2>1 DEF Hopeless, TakenByAnother, ReleasedNothing, NotInTime
  <2> QED
    BY <2>1, <2>2, <2>3, <2>4, <2>5
       DEF VerdictsAreFinal, Hopeless, TakenByAnother, ReleasedNothing, NotInTime
<1> QED
  BY <1>1, <1>2, <1>3, <1>4, <1>5, <1>6, <1>7, WritersOfSync

LEMMA GivenUpStep ==
  ASSUME GivenUpInv, Next
  PROVE  GivenUpInv'
<1>0. PayoutInv /\ PayoutInv'
  BY PayoutStep DEF GivenUpInv
<1>1. VerdictsAreFinal'
  BY VerdictsStayFinal
<1>2. GivenUpIsHopeless'
  <2> SUFFICES ASSUME NEW p \in Ids, intent'[p].delivery = "SERVICE"
               PROVE  /\ payout'[p].st = "FAILED" =>
                           \/ prop'[p].st = "NONE" /\ intent'[p].consumed
                           \/ Hopeless(p)'
                      /\ prop'[p].st = "STALE" => TakenByAnother(p)'
    BY DEF GivenUpIsHopeless
  <2>1. sync.pc = "commit" /\ sync.p = p =>
          /\ prop[p].st # "NONE"
          /\ sync.next.st = "FAILED" => Hopeless(p)
          /\ sync.next.st = "STALE" => TakenByAnother(p)
    BY DEF GivenUpInv, VerdictsAreFinal
  <2>2. TakenByAnother(p) /\ prop[p].st # "NONE" => Hopeless(p)
    BY DEF Hopeless
  <2>3. prop[p].st # "NONE" => /\ Hopeless(p) => Hopeless(p)'
                               /\ TakenByAnother(p) => TakenByAnother(p)'
    BY <1>0, HopelessLasts
  <2>4. Hopeless(p) => prop[p].st # "NONE"
    BY DEF Hopeless
  <2>5. intent[p].delivery = "SERVICE" =>
          /\ payout[p].st = "FAILED" => (prop[p].st = "NONE" /\ intent[p].consumed) \/ Hopeless(p)
          /\ prop[p].st = "STALE" => TakenByAnother(p)
    BY DEF GivenUpInv, GivenUpIsHopeless
  <2>6. payout'[p].st = "FAILED" =>
              \/ /\ payout[p].st = "FAILED" /\ intent[p].delivery = "SERVICE"
                 /\ prop[p].st = "NONE" /\ intent[p].consumed =>
                       prop'[p].st = "NONE" /\ intent'[p].consumed
              \/ prop'[p].st = "NONE" /\ intent'[p].consumed
              \/ sync.pc = "commit" /\ sync.p = p /\ sync.next.st \in {"FAILED", "STALE"}
    BY <1>0, GivenUpBy
  <2>7. prop'[p].st = "STALE" =>
              \/ prop[p].st = "STALE" /\ intent[p].delivery = "SERVICE"
              \/ sync.pc = "commit" /\ sync.p = p /\ sync.next.st = "STALE"
    BY <1>0, GivenUpBy
  <2>8. payout'[p].st = "FAILED" =>
          \/ prop'[p].st = "NONE" /\ intent'[p].consumed
          \/ Hopeless(p)'
    BY <2>1, <2>2, <2>3, <2>4, <2>5, <2>6
  <2>9. prop'[p].st = "STALE" => TakenByAnother(p)'
    BY <2>1, <2>3, <2>5, <2>7
  <2> QED
    BY <2>8, <2>9
<1> QED
  BY <1>0, <1>1, <1>2 DEF GivenUpInv

LEMMA GivenUpInit == Init => GivenUpInv
<1> SUFFICES ASSUME Init
             PROVE  GivenUpInv
  OBVIOUS
<1>1. PayoutInv
  BY PayoutInit
<1>2. GivenUpIsHopeless
  BY DEF Init, GivenUpIsHopeless, NoProposal
<1>3. VerdictsAreFinal
  BY DEF Init, VerdictsAreFinal, Idle
<1> QED
  BY <1>1, <1>2, <1>3 DEF GivenUpInv

LEMMA GivenUpReleasesNone == GivenUpInv => GivenUpReleasesNothing
<1> SUFFICES ASSUME GivenUpInv, NEW p \in Ids, intent[p].delivery = "SERVICE"
             PROVE  /\ payout[p].st = "FAILED" /\ ~prop[p].late =>
                         \A i \in DOMAIN spent : spent[i].by = p => spent[i].key = NoKey
                    /\ prop[p].st = "STALE" =>
                         prop[p].nonce < Len(spent) /\ spent[prop[p].nonce + 1].by # p
  BY DEF GivenUpReleasesNothing
<1>1. ASSUME payout[p].st = "FAILED", ~prop[p].late, NEW i \in DOMAIN spent, spent[i].by = p
      PROVE  spent[i].key = NoKey
  <2>1. p \in queue /\ prop[p].nonce = i - 1
    BY <1>1 DEF GivenUpInv, PayoutInv, SpentByTheQueue
  <2>2. prop[p].st # "NONE"
    BY <2>1 DEF GivenUpInv, PayoutInv, RowsAreCreated
  <2>3. Hopeless(p) /\ ~NotInTime(p)
    BY <1>1, <2>1, <2>2 DEF GivenUpInv, GivenUpIsHopeless, NotInTime
  <2>4. prop[p].nonce + 1 = i
    BY <2>1 DEF GivenUpInv, PayoutInv, ChainTypes
  <2> QED
    BY <1>1, <2>3, <2>4 DEF Hopeless, TakenByAnother, ReleasedNothing
<1> QED
  BY <1>1 DEF GivenUpInv, GivenUpIsHopeless, TakenByAnother

LEMMA GivenUpKept == GivenUpInv /\ [Next]_vars => GivenUpInv'
<1> SUFFICES ASSUME GivenUpInv, [Next]_vars
             PROVE  GivenUpInv'
  OBVIOUS
<1>1. CASE Next
  BY <1>1, GivenUpStep
<1>2. CASE UNCHANGED vars
  BY <1>2, PayoutStep
     DEF vars, GivenUpInv, GivenUpIsHopeless, VerdictsAreFinal, Hopeless,
         TakenByAnother, ReleasedNothing, NotInTime
<1> QED
  BY <1>1, <1>2

\* A payout that the expiry or the sync job gave up as FAILED has released
\* nothing and will not, unless its proposal was sent again after the recovery
\* delay; and a STALE proposal has lost its nonce to another transaction.
THEOREM PayoutGivenUpReleasesNothing == Spec => []GivenUpReleasesNothing
<1> QED
  BY GivenUpInit, GivenUpKept, GivenUpReleasesNone, PTL DEF Spec

-----------------------------------------------------------------------------
(* Nonces.                                                                  *)

\* What is filled stays so: the queue keeps what it holds, and the Safe spends on.
LEMMA FilledStays ==
  ASSUME PayoutInv, PayoutInv', Steady, NEW n \in Nat, Filled(n)
  PROVE  Filled(n)'
<1>1. Len(spent) \in Nat /\ Len(spent') \in Nat /\ Len(spent) <= Len(spent')
  BY DEF Steady, SpentGrows, PayoutInv, ChainTypes
<1>2. \A q \in queue : q \in queue' /\ prop'[q].nonce = prop[q].nonce
  BY DEF Steady, SentStays, PayoutInv, ChainTypes, RowsAreCreated
<1>3. ASSUME NEW m \in Len(spent')..(n - 1)
      PROVE  \E q \in queue' : prop'[q].nonce = m
  <2>1. m \in Len(spent)..(n - 1)
    BY <1>1
  <2> QED
    BY <1>2, <2>1 DEF Filled
<1> QED
  BY <1>3 DEF Filled

\* The next nonce is the first one that is free.
LEMMA NextNonceIsFilled ==
  ASSUME GapInv
  PROVE  NextNonce \in Nat /\ Filled(NextNonce)
<1>1. NextNonce \in Nat
  BY NextNonceIsLast DEF GapInv
<1>2. CASE NextNonce = Len(spent)
  BY <1>1, <1>2 DEF Filled
<1>3. ASSUME NEW q \in queue, NextNonce = prop[q].nonce + 1
      PROVE  Filled(NextNonce)
  <2>1. q \in Ids /\ prop[q].nonce \in Nat /\ Len(spent) \in Nat
    BY DEF GapInv, PayoutInv, ChainTypes, RowTypes, PropTypes, ProposalRows
  <2>2. Filled(prop[q].nonce)
    BY <2>1 DEF GapInv, NoncesAreFilled
  <2>3. ASSUME NEW m \in Len(spent)..(NextNonce - 1)
        PROVE  \E x \in queue : prop[x].nonce = m
    <3>1. m = prop[q].nonce \/ m \in Len(spent)..(prop[q].nonce - 1)
      BY <1>3, <2>1
    <3> QED
      BY <2>2, <3>1 DEF Filled
  <2> QED
    BY <2>3 DEF Filled
<1> QED
  BY <1>1, <1>2, <1>3, NextNonceIsLast DEF GapInv

\* Who chooses a nonce: the claim takes the intent's, ...
LEMMA NonceOfProposal ==
  ASSUME PayoutInv, Next, NEW p \in Ids
  PROVE  prop'[p].nonce \in {prop[p].nonce, intent[p].nonce}
<1>t. prop \in [Ids -> ProposalRows] /\ prop[p] \in ProposalRows
  BY DEF PayoutInv, RowTypes, PropTypes
<1>1. ASSUME prop'[p] = prop[p]
      PROVE  prop'[p].nonce = prop[p].nonce
  BY <1>1
<1>2. ASSUME Expires \/ ReconcileCommit
      PROVE  prop'[p] = prop[p]
  BY <1>2, ExpiryOf DEF ReconcileCommit
<1>3. ASSUME SyncCommit
      PROVE  prop'[p].nonce = prop[p].nonce
  <2>1. \/ prop'[p] = prop[p]
        \/ prop'[p] = [prop[p] EXCEPT !.reason = TRUE]
        \/ prop'[p] = [prop[p] EXCEPT !.st = sync.next.st, !.exec = sync.next.exec,
                                      !.reason = sync.next.reason]
    BY <1>t, <1>3, CommitWrites
  <2> QED
    BY <1>t, <2>1 DEF ProposalRows
<1>4. ASSUME EventWrite
      PROVE  prop'[p].nonce = prop[p].nonce
  <2>1. \/ prop'[p] = prop[p]
        \/ prop'[p] = [prop[p] EXCEPT !.st = "EXECUTED", !.exec = cursor + 1, !.reason = FALSE]
    BY <1>t, <1>4, HandlerWrites
  <2> QED
    BY <1>t, <2>1 DEF ProposalRows
<1>5. ASSUME ResetChainProjection
      PROVE  prop'[p].nonce = prop[p].nonce
  <2>1. \/ prop'[p] = prop[p]
        \/ prop'[p] = [prop[p] EXCEPT !.st = "SUBMITTING", !.exec = 0, !.reason = FALSE]
    BY <1>5 DEF ResetChainProjection
  <2> QED
    BY <1>t, <2>1 DEF ProposalRows
<1>6. ASSUME NEW r \in Requests, ReplaceIntent(r) \/ InsertIntent(r)
      PROVE  prop'[p].nonce = prop[p].nonce
  <2>1. \/ UNCHANGED prop
        \/ prop' = [prop EXCEPT ![create[r].p].st = "STALE", ![create[r].p].reason = TRUE]
    BY <1>6 DEF ReplaceIntent, InsertIntent
  <2>2. \/ prop'[p] = prop[p]
        \/ prop'[p] = [prop[p] EXCEPT !.st = "STALE", !.reason = TRUE]
    BY <1>t, <2>1
  <2> QED
    BY <1>t, <2>2 DEF ProposalRows
<1>7. ASSUME NEW q \in Ids, ClaimIntent(q)
      PROVE  prop'[p].nonce \in {prop[p].nonce, intent[p].nonce}
  <2>1. \/ UNCHANGED prop
        \/ prop' = [prop EXCEPT ![q] = [NoProposal EXCEPT !.st = "SUBMITTING",
                                                          !.nonce = intent[q].nonce]]
    BY <1>7 DEF ClaimIntent
  <2>2. [NoProposal EXCEPT !.st = "SUBMITTING", !.nonce = intent[q].nonce].nonce = intent[q].nonce
    BY DEF NoProposal
  <2> QED
    BY <1>t, <2>1, <2>2
<1>8. ASSUME NEW q \in Ids, \/ CancelManual(q) \/ ProposeFails(q) \/ SubmitDone(q)
                            \/ SyncFails(q) \/ IntentFallsDue(q) \/ ProposalAges(q)
      PROVE  prop'[p].nonce = prop[p].nonce
  <2>1. \/ UNCHANGED prop
        \/ prop' = [prop EXCEPT ![q].reason = TRUE]
        \/ prop' = [prop EXCEPT ![q].aged = TRUE]
        \/ prop' = [prop EXCEPT ![q].st = "AWAITING", ![q].reason = FALSE]
    BY <1>8 DEF CancelManual, ProposeFails, SubmitDone, SyncFails, IntentFallsDue, ProposalAges
  <2>2. \/ prop'[p] = prop[p]
        \/ prop'[p] = [prop[p] EXCEPT !.reason = TRUE]
        \/ prop'[p] = [prop[p] EXCEPT !.aged = TRUE]
        \/ prop'[p] = [prop[p] EXCEPT !.st = "AWAITING", !.reason = FALSE]
    BY <1>t, <2>1
  <2> QED
    BY <1>t, <2>2 DEF ProposalRows
<1>9. ASSUME NEW q \in Ids, Propose(q)
      PROVE  prop'[p].nonce = prop[p].nonce
  <2>1. PICK late : prop' = [prop EXCEPT ![q].late = late]
    BY <1>9 DEF Propose
  <2>2. prop'[p] = prop[p] \/ prop'[p] = [prop[p] EXCEPT !.late = late]
    BY <1>t, <2>1
  <2> QED
    BY <1>t, <2>2 DEF ProposalRows
<1> QED
  BY <1>1, <1>2, <1>3, <1>4, <1>5, <1>6, <1>7, <1>8, <1>9, WritersOfTables

\* ... the insert the call's, and a manual payout has none ...
LEMMA NonceOfIntent ==
  ASSUME PayoutInv, Next, NEW p \in Ids
  PROVE  \/ intent'[p].nonce \in {intent[p].nonce, 0}
         \/ \E r \in Requests : create[r].pc = "insert" /\ intent'[p].nonce = create[r].nonce
<1>t. intent \in [Ids -> IntentRows] /\ intent[p] \in IntentRows
  BY DEF PayoutInv, RowTypes, IntentTypes
<1>1. ASSUME \/ intent'[p] = intent[p]
             \/ intent'[p] = [intent[p] EXCEPT !.consumed = TRUE]
             \/ intent'[p] = [intent[p] EXCEPT !.due = TRUE]
      PROVE  intent'[p].nonce = intent[p].nonce
  BY <1>t, <1>1 DEF IntentRows
<1>2. ASSUME Expires \/ ReconcileCommit \/ SyncCommit \/ EventWrite \/ ResetChainProjection
      PROVE  intent'[p].nonce = intent[p].nonce
  <2>1. CASE Expires
    BY <1>1, <2>1, ExpiryOf
  <2>2. CASE EventWrite
    BY ZenonT(40), <1>1, <1>t, <2>2, HandlerWrites
  <2>3. CASE ReconcileCommit \/ SyncCommit \/ ResetChainProjection
    BY <1>1, <2>3 DEF ReconcileCommit, SyncCommit, ResetChainProjection
  <2> QED
    BY <1>2, <2>1, <2>2, <2>3
<1>3. ASSUME NEW r \in Requests, ReplaceIntent(r)
      PROVE  intent'[p].nonce \in {intent[p].nonce, 0}
  <2>1. \/ UNCHANGED intent
        \/ intent' = [intent EXCEPT ![create[r].p] = [delivery |-> "MANUAL", nonce |-> 0,
                                                     due |-> FALSE, consumed |-> FALSE]]
    BY <1>3 DEF ReplaceIntent
  <2> QED
    BY <1>t, <2>1
<1>4. ASSUME NEW r \in Requests, InsertIntent(r), intent'[p].nonce # intent[p].nonce
      PROVE  create[r].pc = "insert" /\ intent'[p].nonce = create[r].nonce
  <2>1. PICK q \in Ids :
          intent' = [intent EXCEPT ![q].delivery = create[r].delivery, ![q].nonce = create[r].nonce]
    BY <1>4 DEF InsertIntent
  <2>2. q = p
    BY <1>t, <1>4, <2>1
  <2>3. intent'[p] = [intent[p] EXCEPT !.delivery = create[r].delivery, !.nonce = create[r].nonce]
    BY <1>t, <2>1, <2>2
  <2>4. intent'[p].nonce = create[r].nonce
    BY <1>t, <2>3 DEF IntentRows
  <2> QED
    BY <1>4, <2>4 DEF InsertIntent
<1>5. ASSUME NEW q \in Ids, \/ CancelManual(q) \/ ClaimIntent(q) \/ Propose(q)
                            \/ ProposeFails(q) \/ SubmitDone(q) \/ SyncFails(q)
                            \/ IntentFallsDue(q) \/ ProposalAges(q)
      PROVE  intent'[p].nonce = intent[p].nonce
  <2>1. \/ UNCHANGED intent \/ intent' = [intent EXCEPT ![q].consumed = TRUE]
        \/ intent' = [intent EXCEPT ![q].due = TRUE]
    BY <1>5 DEF CancelManual, ClaimIntent, Propose, ProposeFails, SubmitDone, SyncFails,
                IntentFallsDue, ProposalAges
  <2> QED
    BY <1>1, <1>t, <2>1
<1> QED
  BY <1>1, <1>2, <1>3, <1>4, <1>5, WritersOfTables

\* ... and the call reads the Safe's next one.
LEMMA NonceOfCreate ==
  ASSUME PayoutInv, Next, NEW r \in Requests, create'[r].pc = "insert"
  PROVE  create'[r] = create[r] \/ create'[r].nonce \in {0, NextNonce}
<1>t. create \in [Requests -> Calls]
  BY DEF PayoutInv, CallTypes
<1>1. ASSUME NEW s \in Requests, create' = [create EXCEPT ![s] = Ended]
      PROVE  create'[r] = create[r]
  BY <1>t, <1>1 DEF Ended
<1>2. ASSUME NEW s \in Requests, NEW k \in Keys, NEW d \in Deliveries, BeginCreate(s, k, d)
      PROVE  create'[r] = create[r]
  <2>1. create' = [create EXCEPT ![s] = [pc |-> "active", key |-> k, delivery |-> d]]
    BY <1>2 DEF BeginCreate
  <2> QED
    BY <1>t, <2>1
<1>3. ASSUME NEW s \in Requests, NEW ok \in BOOLEAN, NEW pc \in {"blocking", "goal", "nonce"},
             create[s] \in Reading, Proceeds(s, ok, pc)
      PROVE  create'[r] = create[r]
  <2>1. [create[s] EXCEPT !.pc = pc].pc = pc /\ Ended.pc = "ended"
    BY <1>3 DEF Reading, Ended
  <2>2. create'[r] \in {create[r], [create[s] EXCEPT !.pc = pc], Ended}
    BY <1>t, <1>3 DEF Proceeds
  <2> QED
    BY <2>1, <2>2
<1>4. ASSUME NEW s \in Requests, FindActive(s)
      PROVE  create'[r] = create[r]
  <2>1. create[s] \in Reading
    BY <1>4, CallIsReading DEF FindActive
  <2>2. \/ Proceeds(s, TRUE, "blocking") \/ create' = [create EXCEPT ![s] = Ended]
        \/ \E p \in Ids : create' = [create EXCEPT ![s] =
                             [pc |-> "replace", p |-> p, proposal |-> prop[p].st # "NONE"]]
    BY <1>4 DEF FindActive
  <2>3. ASSUME NEW p \in Ids, create' = [create EXCEPT ![s] =
                             [pc |-> "replace", p |-> p, proposal |-> prop[p].st # "NONE"]]
        PROVE  create'[r] = create[r]
    BY <1>t, <2>3
  <2> QED
    BY <1>1, <1>3, <2>1, <2>2, <2>3
<1>5. ASSUME NEW s \in Requests, FindBlocking(s) \/ ReadGoal(s)
      PROVE  create'[r] = create[r]
  <2>1. create[s] \in Reading
    BY <1>5, CallIsReading DEF FindBlocking, ReadGoal
  <2>2. \E ok \in BOOLEAN : Proceeds(s, ok, "goal") \/ Proceeds(s, ok, "nonce")
    BY <1>5 DEF FindBlocking, ReadGoal
  <2> QED
    BY <1>3, <2>1, <2>2
<1>6. ASSUME NEW s \in Requests, ReadNonce(s)
      PROVE  create'[r] = create[r] \/ create'[r].nonce \in {0, NextNonce}
  <2>1. create' = [create EXCEPT ![s] =
           [pc |-> "insert", key |-> create[s].key, delivery |-> create[s].delivery,
            nonce |-> IF create[s].delivery = "SERVICE" THEN NextNonce ELSE 0]]
    BY <1>6 DEF ReadNonce
  <2> QED
    BY <1>t, <2>1
<1> QED
  BY <1>1, <1>2, <1>4, <1>5, <1>6, WritersOfCreate

LEMMA NoncesStayFilled ==
  ASSUME GapInv, Next
  PROVE  NoncesAreFilled'
<1>0. PayoutInv /\ PayoutInv' /\ Steady
  BY PayoutStep, StepIsSteady DEF GapInv
<1>1. /\ \A p \in Ids : /\ prop[p].nonce \in Nat /\ Filled(prop[p].nonce)
                         /\ intent[p].nonce \in Nat /\ Filled(intent[p].nonce)
      /\ \A r \in Requests : create[r].pc = "insert" =>
            create[r].nonce \in Nat /\ Filled(create[r].nonce)
  <2>1. \A p \in Ids : prop[p].nonce \in Nat /\ intent[p].nonce \in Nat
    BY <1>0 DEF PayoutInv, RowTypes, PropTypes, ProposalRows, IntentTypes, IntentRows
  <2>2. \A r \in Requests : create[r].pc = "insert" => create[r].nonce \in Nat
    BY <1>0 DEF PayoutInv, CallTypes, Calls, Idle, Ended, Replacing, Inserting, Reading
  <2> QED
    BY <2>1, <2>2 DEF GapInv, NoncesAreFilled
<1>2. Filled(0) /\ NextNonce \in Nat /\ Filled(NextNonce)
  <2>1. \A m \in Len(spent)..(0 - 1) : FALSE
    BY <1>0 DEF PayoutInv, ChainTypes
  <2> QED
    BY <2>1, NextNonceIsFilled DEF Filled
<1>3. \A n \in Nat : Filled(n) => \A m \in Len(spent')..(n - 1) : \E q \in queue' : prop'[q].nonce = m
  BY <1>0, FilledStays DEF Filled
<1> DEFINE Stays(n) == \A m \in Len(spent')..(n - 1) : \E q \in queue' : prop'[q].nonce = m
<1>4. \A n \in Nat : Filled(n) => Stays(n)
  BY <1>3
<1>5. ASSUME NEW p \in Ids
      PROVE  Stays(prop'[p].nonce) /\ Stays(intent'[p].nonce)
  <2> HIDE DEF Stays
  <2>1. Stays(prop'[p].nonce)
    BY <1>0, <1>1, <1>4, NonceOfProposal
  <2>2. Stays(intent'[p].nonce)
    BY <1>0, <1>1, <1>2, <1>4, NonceOfIntent
  <2> QED
    BY <2>1, <2>2
<1>6. ASSUME NEW r \in Requests, create'[r].pc = "insert"
      PROVE  Stays(create'[r].nonce)
  <2> HIDE DEF Stays
  <2> QED
    BY <1>0, <1>1, <1>2, <1>4, <1>6, NonceOfCreate
<1> QED
  BY <1>5, <1>6 DEF NoncesAreFilled, Filled

LEMMA GapInit == Init => GapInv
<1> SUFFICES ASSUME Init
             PROVE  GapInv
  OBVIOUS
<1>1. PayoutInv
  BY PayoutInit
<1>2. /\ Len(spent) = 0
      /\ \A p \in Ids : prop[p].nonce = 0 /\ intent[p].nonce = 0
      /\ \A r \in Requests : create[r].pc = "idle"
  BY DEF Init, NoProposal, Idle
<1>3. Filled(0)
  BY <1>2 DEF Filled
<1>4. NoncesAreFilled
  BY <1>2, <1>3 DEF NoncesAreFilled
<1> QED
  BY <1>1, <1>4 DEF GapInv

LEMMA GapStep == GapInv /\ [Next]_vars => GapInv'
<1> SUFFICES ASSUME GapInv, [Next]_vars
             PROVE  GapInv'
  OBVIOUS
<1>0. PayoutInv'
  BY PayoutStep DEF GapInv
<1>1. CASE Next
  BY <1>0, <1>1, NoncesStayFilled DEF GapInv
<1>2. CASE UNCHANGED vars
  BY <1>0, <1>2 DEF GapInv, vars, NoncesAreFilled, Filled
<1> QED
  BY <1>1, <1>2

\* No prepared or proposed payout waits for a nonce that nobody fills, however
\* the calls that prepare, submit, lose and repeat their proposals interleave.
THEOREM NoPayoutWaitsForAGap == Spec => []NoNonceGap
<1>1. GapInv => NoNonceGap
  BY DEF GapInv, NoncesAreFilled, Filled, NoNonceGap
<1> QED
  BY <1>1, GapInit, GapStep, PTL DEF Spec

-----------------------------------------------------------------------------
(* A Safe that executes nothing but what the API submits.                   *)

\* The payout an execution belongs to has no other.
LEMMA ExecutedOnce ==
  ASSUME OwnInv, NEW i \in DOMAIN spent
  PROVE  LET p == spent[i].by
         IN  /\ p \in Ids /\ p \in queue /\ prop[p].nonce = i - 1 /\ prop[p].st # "NONE"
             /\ \A j \in DOMAIN spent : spent[j].by = p => j = i
             /\ spent[i].key # NoKey =>
                  /\ payout[p].key = spent[i].key /\ payout[p].st \in {"PROPOSED", "EXECUTED"}
                  /\ payout[p].st = "EXECUTED" => payout[p].tx = i
<1> DEFINE p == spent[i].by
<1>0. PayoutInv /\ GivenUpInv
  BY DEF OwnInv, GivenUpInv
<1>1. p \in Ids
  BY DEF OwnInv, OwnExecutions
<1>2. p \in queue /\ prop[p].nonce = i - 1 /\ spent[i].key \in {NoKey, payout[p].key}
  BY <1>0, <1>1 DEF PayoutInv, SpentByTheQueue
<1>3. \A j \in DOMAIN spent : spent[j].by = p => j = i
  <2> TAKE j \in DOMAIN spent
  <2> HAVE spent[j].by = p
  <2>1. prop[p].nonce = j - 1
    BY <1>0, <1>1 DEF PayoutInv, SpentByTheQueue
  <2>2. i \in Nat /\ j \in Nat
    BY <1>0 DEF PayoutInv, ChainTypes
  <2> QED
    BY <1>2, <2>1, <2>2
<1>4. prop[p].st # "NONE"
  BY <1>0, <1>1, <1>2 DEF PayoutInv, RowsAreCreated
<1>5. ASSUME spent[i].key # NoKey
      PROVE  /\ payout[p].key = spent[i].key /\ payout[p].st \in {"PROPOSED", "EXECUTED"}
             /\ payout[p].st = "EXECUTED" => payout[p].tx = i
  <2>1. payout[p].key = spent[i].key
    BY <1>2, <1>5
  <2>2. payout[p].st # "NONE"
    BY <1>0, <1>1, <1>4 DEF PayoutInv, RowsAreCreated, Absent
  <2>3. payout[p].st # "FAILED"
    <3>1. intent[p].delivery = "SERVICE" /\ GivenUpReleasesNothing
      BY <1>0, <1>1, GivenUpReleasesNone DEF OwnInv, OnlyService
    <3> QED
      BY <1>1, <1>5, <3>1 DEF GivenUpReleasesNothing, OwnInv, OnTime
  <2>4. payout[p] \in PayoutRows
    BY <1>0, <1>1 DEF PayoutInv, RowTypes, PayoutTypes
  <2>5. payout[p].st \in {"PROPOSED", "EXECUTED"}
    BY <2>2, <2>3, <2>4 DEF PayoutRows
  <2>6. ASSUME payout[p].st = "EXECUTED"
        PROVE  payout[p].tx = i
    <3>1. payout[p].tx \in 1..cursor /\ cursor \in Nat
      BY <1>0, <1>1, <2>6 DEF PayoutInv, ExecutedIsReleased, ChainTypes
    <3>2. payout[p].tx \in DOMAIN spent /\ spent[payout[p].tx].by = p
      BY <1>1, <2>6, <3>1 DEF OwnInv, OwnExecutions, Mine
    <3> QED
      BY <1>3, <3>2
  <2> QED
    BY <2>1, <2>5, <2>6
<1> QED
  BY <1>1, <1>2, <1>3, <1>4, <1>5

\* The one candidate of a release without a known hash is the payout it is of.
LEMMA MatchIsMine ==
  ASSUME OwnInv, cursor < Len(spent), spent[cursor + 1].key # NoKey,
         NEW p \in MatchingPayout(cursor + 1)
  PROVE  Mine(p, cursor + 1)
<1> DEFINE i == cursor + 1
           candidates == {q \in Ids : payout[q].st = "PROPOSED" /\ payout[q].key = spent[i].key}
           exact == {q \in candidates : prop[q].exec = i}
<1>1. i \in DOMAIN spent /\ i \in Nat \ {0} /\ cursor \in Nat
  BY DEF OwnInv, GivenUpInv, PayoutInv, ChainTypes
<1>2. CASE p \in exact
  BY <1>1, <1>2 DEF OwnInv, OwnExecutions
<1>3. CASE p \notin exact
  <2>1. p \in candidates /\ Cardinality(candidates) = 1
    <3> HIDE DEF candidates
    <3> QED
      BY <1>3 DEF MatchingPayout, candidates
  <2>2. spent[i].by \in candidates
    <3>1. spent[i].by \in Ids /\ payout[spent[i].by].key = spent[i].key
          /\ payout[spent[i].by].st \in {"PROPOSED", "EXECUTED"}
          /\ (payout[spent[i].by].st = "EXECUTED" => payout[spent[i].by].tx = i)
      BY <1>1, ExecutedOnce
    <3>2. payout[spent[i].by].st # "EXECUTED"
      BY <1>1, <3>1 DEF OwnInv, GivenUpInv, PayoutInv, ExecutedIsReleased
    <3> QED
      BY <3>1, <3>2
  <2>3. IsFiniteSet(candidates)
    <3>1. candidates \subseteq Created
      BY DEF Created, Absent
    <3> QED
      BY <3>1, FS_Subset DEF OwnInv, FinitelyMany
  <2>4. p = spent[i].by
    <3> HIDE DEF candidates
    <3>1. PICK x : candidates = {x}
      BY <2>1, <2>3, FS_Singleton
    <3> QED
      BY <2>1, <2>2, <3>1
  <2> QED
    BY <1>1, <2>4 DEF Mine
<1> QED
  BY <1>2, <1>3

LEMMA MineLasts ==
  ASSUME PayoutInv, Steady, NEW p, NEW i, Mine(p, i)
  PROVE  i # 0 => i \in DOMAIN spent' /\ spent'[i].by = p
BY DEF Mine, Steady, SpentGrows, PayoutInv, ChainTypes

\* The Safe is not used for anything else.
LEMMA OnlyServiceLasts ==
  ASSUME OwnInv, Next, Deliveries \subseteq {"SERVICE"}
  PROVE  OnlyService'
<1>0. PayoutInv
  BY DEF OwnInv, GivenUpInv
<1>t. intent \in [Ids -> IntentRows]
  BY <1>0 DEF PayoutInv, RowTypes, IntentTypes
<1>a. \A r \in Requests : ~ReplaceIntent(r)
  BY DEF OwnInv, OnlyService, ReplaceIntent
<1>1. ASSUME NEW p \in Ids
      PROVE  intent'[p].delivery = "SERVICE"
  <2>1. intent[p].delivery = "SERVICE" /\ intent[p] \in IntentRows
    BY <1>t DEF OwnInv, OnlyService
  <2>2. CASE Expires
    BY <2>1, <2>2, ExpiryOf DEF IntentRows
  <2>3. ASSUME ReconcileCommit \/ SyncCommit \/ ResetChainProjection
        PROVE  intent'[p].delivery = "SERVICE"
    BY <2>1, <2>3 DEF ReconcileCommit, SyncCommit, ResetChainProjection
  <2>4. CASE EventWrite
    <3>1. intent'[p] = intent[p] \/ intent'[p] = [intent[p] EXCEPT !.consumed = TRUE]
      BY <1>0, <1>t, <2>4, HandlerWrites
    <3> QED
      BY <2>1, <3>1, IntentConsumed
  <2>5. ASSUME NEW r \in Requests, InsertIntent(r)
        PROVE  intent'[p].delivery = "SERVICE"
    <3>1. create[r].delivery = "SERVICE"
      <4>1. create[r] \in Inserting
        BY <1>0, <2>5
           DEF InsertIntent, PayoutInv, CallTypes, Calls, Replacing, Inserting, Reading, Idle, Ended
      <4> QED
        BY <4>1 DEF Inserting
    <3>2. \/ UNCHANGED intent
          \/ \E q \in Ids : intent' = [intent EXCEPT ![q].delivery = create[r].delivery,
                                                     ![q].nonce = create[r].nonce]
      BY <2>5 DEF InsertIntent
    <3>3. \/ intent'[p] = intent[p]
          \/ intent'[p] = [intent[p] EXCEPT !.delivery = create[r].delivery,
                                            !.nonce = create[r].nonce]
      BY <1>t, <3>2
    <3> QED
      BY <2>1, <3>1, <3>3 DEF IntentRows
  <2>6. ASSUME NEW q \in Ids, \/ CancelManual(q) \/ ClaimIntent(q) \/ Propose(q)
                              \/ ProposeFails(q) \/ SubmitDone(q) \/ SyncFails(q)
                              \/ IntentFallsDue(q) \/ ProposalAges(q)
        PROVE  intent'[p].delivery = "SERVICE"
    <3>1. \/ UNCHANGED intent \/ intent' = [intent EXCEPT ![q].consumed = TRUE]
          \/ intent' = [intent EXCEPT ![q].due = TRUE]
      BY <2>6 DEF CancelManual, ClaimIntent, Propose, ProposeFails, SubmitDone,
                  SyncFails, IntentFallsDue, ProposalAges
    <3>2. \/ intent'[p] = intent[p] \/ intent'[p] = [intent[p] EXCEPT !.consumed = TRUE]
          \/ intent'[p] = [intent[p] EXCEPT !.due = TRUE]
      BY <1>t, <3>1
    <3> QED
      BY <2>1, <3>2 DEF IntentRows
  <2> QED
    BY <1>a, <2>1, <2>2, <2>3, <2>4, <2>5, <2>6, WritersOfTables
<1>2. ASSUME NEW r \in Requests
      PROVE  create'[r].pc # "replace"
  <2>1. create[r].pc # "replace" /\ create \in [Requests -> Calls]
    BY <1>0 DEF OwnInv, OnlyService, PayoutInv, CallTypes
  <2>2. ASSUME NEW s \in Requests, NEW k \in Keys, NEW d \in Deliveries, BeginCreate(s, k, d)
        PROVE  create'[r].pc # "replace"
    <3>1. create' = [create EXCEPT ![s] = [pc |-> "active", key |-> k, delivery |-> d]]
      BY <2>2 DEF BeginCreate
    <3> QED
      BY <2>1, <3>1
  <2>3. ASSUME NEW s \in Requests, NEW ok \in BOOLEAN,
               NEW pc \in {"active", "blocking", "goal", "nonce"},
               create[s] \in Reading, Proceeds(s, ok, pc)
        PROVE  create'[r].pc # "replace"
    <3>1. [create[s] EXCEPT !.pc = pc].pc = pc /\ Ended.pc = "ended"
      BY <2>3 DEF Reading, Ended
    <3>2. create'[r] \in {create[r], [create[s] EXCEPT !.pc = pc], Ended}
      BY <2>1, <2>3 DEF Proceeds
    <3> QED
      BY <2>1, <3>1, <3>2
  <2>4. ASSUME NEW s \in Requests, FindActive(s)
        PROVE  create'[r].pc # "replace"
    <3>1. create[s] \in Reading /\ create[s].delivery # "MANUAL"
      BY <1>0, <2>4, CallIsReading DEF FindActive, Reading
    <3>2. Proceeds(s, TRUE, "blocking") \/ create' = [create EXCEPT ![s] = Ended]
      BY <2>4, <3>1 DEF FindActive
    <3>3. ASSUME create' = [create EXCEPT ![s] = Ended]
          PROVE  create'[r].pc # "replace"
      BY <2>1, <3>3 DEF Ended
    <3> QED
      BY <2>3, <3>1, <3>2, <3>3
  <2>5. ASSUME NEW s \in Requests, FindBlocking(s) \/ ReadGoal(s)
        PROVE  create'[r].pc # "replace"
    <3>1. create[s] \in Reading
      BY <1>0, <2>5, CallIsReading DEF FindBlocking, ReadGoal
    <3>2. \E ok \in BOOLEAN : Proceeds(s, ok, "goal") \/ Proceeds(s, ok, "nonce")
      BY <2>5 DEF FindBlocking, ReadGoal
    <3> QED
      BY <2>3, <3>1, <3>2
  <2>6. ASSUME NEW s \in Requests, ReadNonce(s)
        PROVE  create'[r].pc # "replace"
    <3>1. create' = [create EXCEPT ![s] =
             [pc |-> "insert", key |-> create[s].key, delivery |-> create[s].delivery,
              nonce |-> IF create[s].delivery = "SERVICE" THEN NextNonce ELSE 0]]
      BY <2>6 DEF ReadNonce
    <3> QED
      BY <2>1, <3>1
  <2>7. ASSUME NEW s \in Requests, create' = [create EXCEPT ![s] = Ended]
        PROVE  create'[r].pc # "replace"
    BY <2>1, <2>7 DEF Ended
  <2> QED
    BY <2>1, <2>2, <2>4, <2>5, <2>6, <2>7, WritersOfCreate
<1> QED
  BY <1>1, <1>2 DEF OnlyService

\* Nothing else spends a nonce.
LEMMA SpentByItsOwn ==
  ASSUME OwnInv, Next, MaxOutside = 0
  PROVE  /\ \A i \in DOMAIN spent' : spent'[i].by \in Ids
         /\ Len(spent) <= Len(spent') /\ Len(spent) \in Nat
         /\ \A i \in DOMAIN spent : spent'[i] = spent[i]
<1>0. PayoutInv /\ Steady
  BY StepIsSteady DEF OwnInv, GivenUpInv
<1>1. CASE UNCHANGED spent
  BY <1>1 DEF OwnInv, OwnExecutions
<1>2. ASSUME NEW p \in Ids, ExecuteQueued(p)
      PROVE  \A i \in DOMAIN spent' : spent'[i].by \in Ids
  <2>1. PICK k \in Keys \cup {NoKey} : spent' = Append(spent, [by |-> p, key |-> k])
    BY <1>0, <1>2 DEF ExecuteQueued, PayoutInv, RowTypes, PayoutTypes, PayoutRows
  <2>2. PICK t \in Transactions : t = [by |-> p, key |-> k] /\ spent' = Append(spent, t)
    BY <2>1 DEF Transactions
  <2>3. \A i \in DOMAIN spent' : \/ i \in DOMAIN spent /\ spent'[i] = spent[i]
                                 \/ i = Len(spent) + 1 /\ spent'[i] = t
    BY <1>0, <2>2, ExecutionIsAdded
  <2> QED
    BY <2>2, <2>3 DEF OwnInv, OwnExecutions
<1>3. ASSUME NEW k \in Keys \cup {NoKey}, ExecuteOutside(k)
      PROVE  FALSE
  <2>1. Outside \notin Ids
    BY PayoutAssumption DEF Outside
  <2>2. {i \in DOMAIN spent : spent[i].by = Outside} = {}
    BY <2>1 DEF OwnInv, OwnExecutions
  <2>3. Cardinality({}) = 0
    BY FS_EmptySet
  <2>4. Cardinality({i \in DOMAIN spent : spent[i].by = Outside}) < 0
    BY <1>3 DEF ExecuteOutside
  <2> QED
    BY <2>2, <2>3, <2>4
<1>4. \A i \in DOMAIN spent' : spent'[i].by \in Ids
  BY <1>1, <1>2, <1>3, WritersOfSpent
<1> QED
  BY <1>0, <1>4 DEF Steady, SpentGrows, PayoutInv, ChainTypes

\* What a step writes into executionTxHash.
LEMMA ExecutionNoted ==
  ASSUME OwnInv, Next, NEW p \in Ids
  PROVE  Mine(p, prop'[p].exec)
<1>0. PayoutInv
  BY DEF OwnInv, GivenUpInv
<1>t. prop \in [Ids -> ProposalRows] /\ prop[p] \in ProposalRows
  BY <1>0 DEF PayoutInv, RowTypes, PropTypes
<1>1. Mine(p, prop[p].exec) /\ Mine(p, 0)
  BY DEF OwnInv, OwnExecutions, Mine
<1>2. CASE prop'[p] = prop[p]
  BY <1>1, <1>2
<1>3. ASSUME Expires \/ ReconcileCommit
      PROVE  prop'[p] = prop[p]
  BY <1>3, ExpiryOf DEF ReconcileCommit
<1>4. CASE SyncCommit
  <2>1. sync.p = p => Mine(p, sync.next.exec)
    BY <1>4 DEF OwnInv, OwnExecutions, SyncCommit
  <2> QED
    BY <1>0, <1>1, <1>4, <2>1, ProposalOfCommit
<1>5. CASE EventWrite
  <2>1. handler # Idle
    BY <1>5 DEF EventWrite
  <2>2. handler.pc = "settle" /\ handler.p = p => Mine(p, cursor + 1)
    BY <2>1 DEF OwnInv, OwnExecutions
  <2> QED
    BY <1>0, <1>1, <1>5, <2>2, ProposalOfWrite
<1>6. CASE ResetChainProjection
  <2>1. \/ prop'[p] = prop[p]
        \/ prop'[p] = [prop[p] EXCEPT !.st = "SUBMITTING", !.exec = 0, !.reason = FALSE]
    BY <1>6 DEF ResetChainProjection
  <2>2. prop'[p].exec \in {prop[p].exec, 0}
    BY <1>t, <2>1 DEF ProposalRows
  <2> QED
    BY <1>1, <2>2
<1>7. ASSUME NEW r \in Requests, ReplaceIntent(r) \/ InsertIntent(r)
      PROVE  prop'[p] = prop[p]
  BY <1>7 DEF OwnInv, OnlyService, ReplaceIntent, InsertIntent
<1>8. ASSUME NEW q \in Ids, ClaimIntent(q)
      PROVE  Mine(p, prop'[p].exec)
  <2>1. \/ prop'[p] = prop[p]
        \/ prop'[p] = [NoProposal EXCEPT !.st = "SUBMITTING", !.nonce = intent[q].nonce]
    BY <1>t, <1>8 DEF ClaimIntent
  <2>2. [NoProposal EXCEPT !.st = "SUBMITTING", !.nonce = intent[q].nonce].exec = 0
    BY DEF NoProposal
  <2> QED
    BY <1>1, <2>1, <2>2
<1>9. ASSUME NEW q \in Ids, \/ CancelManual(q) \/ Propose(q) \/ ProposeFails(q)
                            \/ SubmitDone(q) \/ SyncFails(q) \/ IntentFallsDue(q)
                            \/ ProposalAges(q)
      PROVE  Mine(p, prop'[p].exec)
  <2>1. \/ UNCHANGED prop
        \/ prop' = [prop EXCEPT ![q].reason = TRUE]
        \/ prop' = [prop EXCEPT ![q].aged = TRUE]
        \/ \E late : prop' = [prop EXCEPT ![q].late = late]
        \/ prop' = [prop EXCEPT ![q].st = "AWAITING", ![q].reason = FALSE]
    BY <1>9 DEF CancelManual, Propose, ProposeFails, SubmitDone, SyncFails, IntentFallsDue,
                ProposalAges
  <2>2. \/ prop'[p] = prop[p]
        \/ prop'[p] = [prop[p] EXCEPT !.reason = TRUE]
        \/ prop'[p] = [prop[p] EXCEPT !.aged = TRUE]
        \/ \E late : prop'[p] = [prop[p] EXCEPT !.late = late]
        \/ prop'[p] = [prop[p] EXCEPT !.st = "AWAITING", !.reason = FALSE]
    <3>1. ASSUME NEW late, prop' = [prop EXCEPT ![q].late = late]
          PROVE  prop'[p] = prop[p] \/ prop'[p] = [prop[p] EXCEPT !.late = late]
      BY <1>t, <3>1
    <3>2. CASE \E late : prop' = [prop EXCEPT ![q].late = late]
      BY <3>1, <3>2
    <3>3. CASE ~ \E late : prop' = [prop EXCEPT ![q].late = late]
      BY <1>t, <2>1, <3>3
    <3> QED
      BY <3>2, <3>3
  <2>3. prop'[p].exec = prop[p].exec
    BY <1>t, <2>2 DEF ProposalRows
  <2> QED
    BY <1>1, <2>3
<1> QED
  BY <1>2, <1>3, <1>4, <1>5, <1>6, <1>7, <1>8, <1>9, WritersOfTables

\* Who settles a payout, and what a payout that is not settled was before.
LEMMA SettledBy ==
  ASSUME OwnInv, Next, NEW p \in Ids
  PROVE  /\ payout'[p].st = "EXECUTED" =>
              \/ payout[p].st = "EXECUTED" /\ payout'[p].tx = payout[p].tx
              \/ /\ payout'[p].tx \in rows /\ payout'[p].tx \notin rows'
                 /\ Mine(p, payout'[p].tx) /\ UNCHANGED cursor
              \/ /\ EventWrite /\ handler.pc = "settle" /\ handler.p = p
                 /\ payout'[p].tx = cursor + 1 /\ Mine(p, cursor + 1)
         /\ payout[p].st = "EXECUTED" => payout'[p].st = "EXECUTED" \/ ResetChainProjection
<1>0. PayoutInv
  BY DEF OwnInv, GivenUpInv
<1>t. payout \in [Ids -> PayoutRows] /\ payout[p] \in PayoutRows
  BY <1>0 DEF PayoutInv, RowTypes, PayoutTypes
<1> DEFINE Settled ==
         /\ payout'[p].st = "EXECUTED" =>
              \/ payout[p].st = "EXECUTED" /\ payout'[p].tx = payout[p].tx
              \/ /\ payout'[p].tx \in rows /\ payout'[p].tx \notin rows'
                 /\ Mine(p, payout'[p].tx) /\ UNCHANGED cursor
              \/ /\ EventWrite /\ handler.pc = "settle" /\ handler.p = p
                 /\ payout'[p].tx = cursor + 1 /\ Mine(p, cursor + 1)
         /\ payout[p].st = "EXECUTED" => payout'[p].st = "EXECUTED" \/ ResetChainProjection
<1>1. ASSUME payout'[p] = payout[p]
      PROVE  Settled
  BY <1>1
<1>2. ASSUME Expires
      PROVE  Settled
  BY <1>t, <1>2, ExpiryOf DEF PayoutRows
<1>p. ASSUME sync.p \in Ids, sync.row \in rows, payout[sync.p].st = "PROPOSED",
             Mine(sync.p, sync.row), UNCHANGED cursor,
             payout' = [payout EXCEPT ![sync.p].st = "EXECUTED", ![sync.p].tx = sync.row],
             rows' = rows \ {sync.row}
      PROVE  Settled
  <2>1. ASSUME p = sync.p PROVE Settled
    <3>1. payout'[p].st = "EXECUTED" /\ payout'[p].tx = sync.row
      BY <1>t, <1>p, <2>1 DEF PayoutRows
    <3> QED
      BY <1>p, <2>1, <3>1
  <2>2. ASSUME p # sync.p PROVE Settled
    <3>1. payout'[p] = payout[p]
      BY <1>t, <1>p, <2>2
    <3> QED
      BY <1>1, <3>1
  <2> QED
    BY <2>1, <2>2
<1>3. ASSUME ReconcileCommit
      PROVE  Settled
  <2>1. Mine(sync.p, sync.row) /\ UNCHANGED cursor
    BY <1>3 DEF OwnInv, OwnExecutions, ReconcileCommit
  <2>2. ASSUME UNCHANGED payout
        PROVE  Settled
    BY <1>1, <2>2
  <2>3. ASSUME sync.p \in Ids, sync.row \in rows, payout[sync.p].st = "PROPOSED",
               payout' = [payout EXCEPT ![sync.p].st = "EXECUTED", ![sync.p].tx = sync.row],
               rows' = rows \ {sync.row}
        PROVE  Settled
    BY <1>p, <2>1, <2>3
  <2> HIDE DEF Settled
  <2> QED
    BY <1>0, <1>3, <2>2, <2>3, ReconcileWrites
<1>4. ASSUME SyncCommit
      PROVE  Settled
  <2>1. Mine(sync.p, sync.row) /\ UNCHANGED cursor
    BY <1>4 DEF OwnInv, OwnExecutions, SyncCommit
  <2>2. ASSUME payout[sync.p].st = "PROPOSED", payout' = [payout EXCEPT ![sync.p].st = "FAILED"]
        PROVE  Settled
    <3>1. payout'[p].st # "EXECUTED" \/ payout'[p] = payout[p]
      BY <1>t, <2>2 DEF PayoutRows
    <3>2. payout[p].st = "EXECUTED" => payout'[p] = payout[p]
      BY <1>t, <2>2
    <3> QED
      BY <3>1, <3>2
  <2>3. ASSUME UNCHANGED payout
        PROVE  Settled
    BY <1>1, <2>3
  <2>4. ASSUME sync.p \in Ids, sync.row \in rows, payout[sync.p].st = "PROPOSED",
               payout' = [payout EXCEPT ![sync.p].st = "EXECUTED", ![sync.p].tx = sync.row],
               rows' = rows \ {sync.row}
        PROVE  Settled
    BY <1>p, <2>1, <2>4
  <2> HIDE DEF Settled
  <2> QED
    BY <1>0, <1>4, <2>2, <2>3, <2>4, CommitWrites, Zenon
<1>5. ASSUME EventWrite
      PROVE  Settled
  <2>1. handler # Idle
    BY <1>5 DEF EventWrite
  <2>2. handler.pc = "settle" => Mine(handler.p, cursor + 1)
    BY <2>1 DEF OwnInv, OwnExecutions
  <2>3. \/ payout'[p] = payout[p]
        \/ /\ handler.pc = "settle" /\ handler.p = p
           /\ payout'[p].st = "EXECUTED" /\ payout'[p].tx = cursor + 1
    BY <1>0, <1>t, <1>5, HandlerWrites DEF PayoutRows
  <2> QED
    BY <1>1, <1>5, <2>2, <2>3
<1>6. ASSUME ResetChainProjection
      PROVE  Settled
  <2>1. payout'[p].st # "EXECUTED"
    BY <1>t, <1>6 DEF ResetChainProjection, PayoutRows
  <2> QED
    BY <1>6, <2>1
<1>7. ASSUME NEW r \in Requests, ReplaceIntent(r) \/ InsertIntent(r)
      PROVE  Settled
  <2>1. \/ payout'[p] = payout[p]
        \/ Absent(p) /\ payout'[p].st = "PROPOSED"
    <3>1. CASE UNCHANGED payout
      BY <3>1
    <3>2. ASSUME NEW q \in Ids, Absent(q),
                 payout' = [payout EXCEPT ![q] = [st |-> "PROPOSED", tx |-> 0,
                                                  key |-> create[r].key]]
          PROVE  payout'[p] = payout[p] \/ (Absent(p) /\ payout'[p].st = "PROPOSED")
      BY <1>t, <3>2
    <3> QED
      BY <1>7, <3>1, <3>2 DEF ReplaceIntent, InsertIntent
  <2> QED
    BY <1>1, <2>1 DEF Absent
<1>8. ASSUME NEW q \in Ids, \/ CancelManual(q) \/ ClaimIntent(q) \/ Propose(q)
                            \/ ProposeFails(q) \/ SubmitDone(q) \/ SyncFails(q)
                            \/ IntentFallsDue(q) \/ ProposalAges(q)
      PROVE  Settled
  <2>1. \/ UNCHANGED payout
        \/ payout[q].st = "PROPOSED" /\ payout' = [payout EXCEPT ![q].st = "FAILED"]
    BY <1>8 DEF CancelManual, ClaimIntent, Propose, ProposeFails, SubmitDone,
                SyncFails, IntentFallsDue, ProposalAges
  <2>2. \/ payout'[p] = payout[p]
        \/ payout[p].st = "PROPOSED" /\ payout'[p].st = "FAILED"
    BY <1>t, <2>1 DEF PayoutRows
  <2> QED
    BY <1>1, <2>2
<1>9. ASSUME UNCHANGED <<payout, intent, prop>>
      PROVE  Settled
  BY <1>1, <1>9
<1> HIDE DEF Settled
<1>10. Settled
  BY <1>9, <1>2, <1>3, <1>4, <1>5, <1>6, <1>7, <1>8, WritersOfTables, Zenon
<1> QED
  BY <1>10 DEF Settled

LEMMA OwnExecutionsLast ==
  ASSUME OwnInv, Next, MaxOutside = 0
  PROVE  OwnExecutions'
<1>0. PayoutInv /\ PayoutInv' /\ Steady
  BY StepIsSteady, PayoutStep DEF OwnInv, GivenUpInv
<1>1. \A p, i : Mine(p, i) => (i # 0 => i \in DOMAIN spent' /\ spent'[i].by = p)
  BY <1>0, MineLasts
<1>2. \A p \in Ids : Mine(p, prop[p].exec) /\ Mine(p, prop'[p].exec)
  BY ExecutionNoted DEF OwnInv, OwnExecutions
<1>3. \A p \in Ids : payout'[p].st = "EXECUTED" => Mine(p, payout'[p].tx)
  BY SettledBy DEF OwnInv, OwnExecutions
<1>4. sync'.pc = "reconciling" => Mine(sync'.p, sync'.row)
  <2>1. ASSUME NEW p \in Ids, ReconcileFind(p)
        PROVE  Mine(sync'.p, sync'.row)
    <3>1. sync'.p = p /\ sync'.row \in {0, prop[p].exec}
      BY <2>1 DEF ReconcileFind, ConfirmedProjection
    <3> QED
      BY <1>2, <3>1 DEF Mine
  <2>2. ASSUME SyncBegin \/ ReconcileCommit \/ SyncPending \/ SyncCommit \/ SyncEnd
        PROVE  sync'.pc # "reconciling"
    BY <2>2 DEF SyncBegin, ReconcileCommit, SyncPending, SyncCommit, SyncEnd, Idle
  <2>3. ASSUME NEW p \in Ids, SyncFails(p)
        PROVE  sync'.pc # "reconciling"
    <3>1. sync \in Passing
      BY <1>0, <2>3, SyncIsShaped DEF SyncFails
    <3> QED
      BY <2>3, <3>1 DEF SyncFails, Passing
  <2>4. ASSUME SyncMissing \/ \E p \in Ids : SyncRead(p, TRUE) \/ SyncRead(p, FALSE)
        PROVE  sync'.pc # "reconciling"
    <3>1. \A p, next : SyncView(p, next) => sync'.pc = "commit"
      BY DEF SyncView
    <3> QED
      BY <2>4, <3>1 DEF SyncMissing, SyncRead
  <2> QED
    BY <2>1, <2>2, <2>3, <2>4, WritersOfSync DEF OwnInv, OwnExecutions
<1>5. sync'.pc = "commit" => /\ Mine(sync'.p, sync'.row) /\ Mine(sync'.p, sync'.next.exec)
                             /\ sync'.next.st # "EXECUTED" => sync'.row = 0
  <2>1. ASSUME NEW p \in Ids, NEW next, SyncView(p, next), Mine(p, next.exec)
        PROVE  /\ Mine(sync'.p, sync'.row) /\ Mine(sync'.p, sync'.next.exec)
               /\ sync'.next.st # "EXECUTED" => sync'.row = 0
    <3>1. sync'.p = p /\ sync'.next = next /\ sync'.row \in {0, next.exec}
          /\ (next.st # "EXECUTED" => sync'.row = 0)
      BY <2>1 DEF SyncView, ConfirmedProjection
    <3> QED
      BY <2>1, <3>1 DEF Mine
  <2>2. ASSUME NEW p \in Ids, NEW n \in Nat, NEW known \in BOOLEAN
        PROVE  Mine(p, Classify(p, n, known).exec)
    <3> DEFINE c == Classify(p, n, known)
    <3>1. c.exec = 0 \/ (c.exec \in DOMAIN spent /\ spent[c.exec].by = p)
      <4>1. \/ \E b \in BOOLEAN : c = [st |-> "AWAITING", exec |-> 0, reason |-> b]
            \/ /\ prop[p].nonce + 1 \in DOMAIN spent /\ spent[prop[p].nonce + 1].by = p
               /\ \/ c = [st |-> "AWAITING", exec |-> prop[p].nonce + 1, reason |-> TRUE]
                  \/ c = [st |-> "EXECUTED", exec |-> prop[p].nonce + 1, reason |-> FALSE]
                  \/ c = [st |-> "FAILED", exec |-> prop[p].nonce + 1, reason |-> TRUE]
            \/ c = [st |-> "STALE", exec |-> 0, reason |-> TRUE]
        BY <1>0, ClassifyAnswers
      <4> HIDE DEF c
      <4> QED
        BY <4>1
    <3> QED
      BY <3>1 DEF Mine
  <2>3. ASSUME NEW p \in Ids, NEW known \in BOOLEAN, SyncRead(p, known)
        PROVE  /\ Mine(sync'.p, sync'.row) /\ Mine(sync'.p, sync'.next.exec)
               /\ sync'.next.st # "EXECUTED" => sync'.row = 0
    <3>1. sync.nonce \in Nat
      BY <1>0, <2>3, SyncIsShaped DEF SyncRead, Passing
    <3>2. SyncView(p, Classify(p, sync.nonce, known))
      BY <2>3 DEF SyncRead
    <3> QED
      BY <2>1, <2>2, <3>1, <3>2
  <2>4. ASSUME SyncMissing
        PROVE  /\ Mine(sync'.p, sync'.row) /\ Mine(sync'.p, sync'.next.exec)
               /\ sync'.next.st # "EXECUTED" => sync'.row = 0
    <3>1. sync.nonce \in Nat /\ sync.p \in Ids
      BY <1>0, <2>4, SyncIsShaped DEF SyncMissing, Missing
    <3>2. \/ SyncView(sync.p, Classify(sync.p, sync.nonce, TRUE))
          \/ \E st \in Verdicts :
               SyncView(sync.p, [st |-> st, exec |-> prop[sync.p].exec, reason |-> TRUE])
      BY <2>4 DEF SyncMissing, Verdicts
    <3>3. \A st : Mine(sync.p, [st |-> st, exec |-> prop[sync.p].exec, reason |-> TRUE].exec)
      BY <1>2, <3>1
    <3>4. Mine(sync.p, Classify(sync.p, sync.nonce, TRUE).exec)
      BY <2>2, <3>1
    <3> QED
      BY <2>1, <3>1, <3>2, <3>3, <3>4
  <2>5. ASSUME \/ SyncBegin \/ ReconcileCommit \/ SyncPending \/ SyncCommit \/ SyncEnd
               \/ \E p \in Ids : ReconcileFind(p) \/ SyncFails(p)
        PROVE  sync'.pc # "commit"
    <3>1. \A p : SyncFails(p) => sync \in Passing
      BY <1>0, SyncIsShaped DEF SyncFails
    <3> QED
      BY <2>5, <3>1 DEF SyncBegin, ReconcileCommit, SyncPending, SyncCommit, SyncEnd,
                  ReconcileFind, SyncFails, Idle, Passing
  <2> QED
    BY <2>3, <2>4, <2>5, WritersOfSync DEF OwnInv, OwnExecutions
<1>6. handler' # Idle /\ handler'.pc = "settle" => Mine(handler'.p, cursor' + 1)
  <2>1. CASE UNCHANGED <<handler, cursor>>
    BY <2>1 DEF OwnInv, OwnExecutions
  <2>2. CASE EventRead
    <3>1. cursor < Len(spent) /\ spent[cursor + 1].key # NoKey /\ UNCHANGED cursor
      BY <2>2 DEF EventRead
    <3>2. handler'.pc = "settle" => handler'.p \in MatchingPayout(cursor + 1)
      BY <2>2 DEF EventRead
    <3> QED
      BY <3>1, <3>2, MatchIsMine
  <2>3. ASSUME EventWrite \/ IndexOther \/ ResetChainProjection
        PROVE  handler' = Idle
    BY <2>3 DEF EventWrite, IndexOther, ResetChainProjection
  <2> QED
    BY <2>1, <2>2, <2>3, WritersOfHandler
<1>7. \A i \in DOMAIN spent' : spent'[i].by \in Ids
  BY SpentByItsOwn
<1> QED
  BY ZenonT(40), <1>1, <1>2, <1>3, <1>4, <1>5, <1>6, <1>7 DEF OwnExecutions, Mine

\* A release that is indexed stays projected to the payout that made it.
LEMMA ProjectedStays ==
  ASSUME OwnInv, Next, MaxOutside = 0
  PROVE  ProjectedToItsOwn'
<1>0. /\ PayoutInv /\ PayoutInv'
      /\ \A i \in DOMAIN spent : spent'[i] = spent[i]
  BY PayoutStep, SpentByItsOwn DEF OwnInv, GivenUpInv
<1>1. /\ cursor \in Nat /\ cursor' \in Nat /\ 1..cursor \subseteq DOMAIN spent
      /\ rows \subseteq 1..cursor
  BY <1>0 DEF PayoutInv, ChainTypes
<1> SUFFICES ASSUME NEW i \in 1..cursor', spent'[i].key # NoKey
             PROVE  (i \in rows') = (payout'[spent'[i].by].st # "EXECUTED")
  BY DEF ProjectedToItsOwn
<1>2. ASSUME ResetChainProjection
      PROVE  FALSE
  <2>1. cursor' = 0
    BY <1>2 DEF ResetChainProjection
  <2> QED
    BY <2>1
<1>3. CASE EventWrite
  <2> DEFINE q == spent[i].by
  <2>1. /\ cursor' = cursor + 1 /\ cursor < Len(spent) /\ UNCHANGED spent /\ handler # Idle
        /\ i \in DOMAIN spent
    BY <1>0, <1>1, <1>3, HandlerWrites DEF EventWrite, PayoutInv, ChainTypes
  <2>2. /\ q \in Ids
        /\ \A j \in DOMAIN spent : spent[j].by = q => j = i
        /\ payout[q].st = "EXECUTED" => payout[q].tx = i
    BY <2>1, ExecutedOnce
  <2>3. CASE i = cursor + 1
    <3>1. payout[q].st # "EXECUTED" /\ i \notin rows
      BY <1>0, <1>1, <2>2, <2>3 DEF PayoutInv, ExecutedIsReleased
    <3>2. CASE rows' = rows \union {cursor + 1} /\ UNCHANGED payout
      BY <2>1, <2>3, <3>1, <3>2
    <3>3. CASE /\ handler.pc = "settle" /\ UNCHANGED rows /\ handler.p \in Ids
               /\ payout' = [payout EXCEPT ![handler.p].st = "EXECUTED",
                                           ![handler.p].tx = cursor + 1]
      <4>1. handler.p = q
        BY <1>1, <2>1, <2>3, <3>3 DEF OwnInv, OwnExecutions, Mine
      <4>2. payout'[q].st = "EXECUTED"
        BY <1>0, <3>3, <4>1 DEF PayoutInv, RowTypes, PayoutTypes, PayoutRows
      <4> QED
        BY <2>1, <3>1, <3>3, <4>2
    <3> QED
      BY <1>0, <1>3, <3>2, <3>3, HandlerWrites
  <2>4. CASE i # cursor + 1
    <3>1. i \in 1..cursor /\ ((i \in rows) = (payout[q].st # "EXECUTED"))
      BY <1>1, <2>1, <2>4 DEF OwnInv, ProjectedToItsOwn
    <3>2. (i \in rows') = (i \in rows)
      BY <1>0, <1>3, <2>4, HandlerWrites
    <3>3. handler.pc = "settle" => handler.p # q
      BY <1>1, <2>1, <2>2, <2>4 DEF OwnInv, OwnExecutions, Mine
    <3>4. payout'[q] = payout[q]
      BY <1>0, <1>3, <2>2, <3>3, HandlerWrites
         DEF PayoutInv, RowTypes, PayoutTypes
    <3> QED
      BY <2>1, <3>1, <3>2, <3>4
  <2> QED
    BY <2>3, <2>4
<1>4. CASE IndexOther
  <2>1. UNCHANGED <<rows, payout>> /\ i \in DOMAIN spent /\ spent'[i] = spent[i]
        /\ (i = cursor + 1 => spent[i].key = NoKey \/ cursor' = cursor)
        /\ cursor' \in {cursor, cursor + 1}
    BY <1>0, <1>1, <1>4 DEF IndexOther, PayoutInv, ChainTypes, chain
  <2>2. i \in 1..cursor
    BY <1>1, <2>1
  <2> QED
    BY <2>1, <2>2 DEF OwnInv, ProjectedToItsOwn
<1>5. CASE cursor' = cursor /\ ~ResetChainProjection /\ ~EventWrite
  <2> DEFINE q == spent[i].by
  <2>1. i \in 1..cursor /\ i \in DOMAIN spent /\ spent'[i] = spent[i]
    BY <1>0, <1>1, <1>5
  <2>2. /\ q \in Ids
        /\ \A j \in DOMAIN spent : spent[j].by = q => j = i
        /\ payout[q].st = "EXECUTED" => payout[q].tx = i
        /\ (i \in rows) = (payout[q].st # "EXECUTED")
    BY <2>1, ExecutedOnce DEF OwnInv, ProjectedToItsOwn
  <2>3. CASE UNCHANGED rows
    <3>1. payout[q].st = "EXECUTED" => payout'[q].st = "EXECUTED"
      BY <1>5, <2>2, SettledBy
    <3>2. payout'[q].st = "EXECUTED" => payout[q].st = "EXECUTED"
      BY <1>5, <2>2, <2>3, SettledBy
    <3> QED
      BY <2>1, <2>2, <2>3, <3>1, <3>2
  <2>4. ASSUME NEW p \in Ids, NEW j \in rows, rows' = rows \ {j}, Mine(p, j),
               payout[p].st = "PROPOSED",
               payout' = [payout EXCEPT ![p].st = "EXECUTED", ![p].tx = j]
        PROVE  (i \in rows') = (payout'[spent'[i].by].st # "EXECUTED")
    <3>1. j \in DOMAIN spent /\ spent[j].by = p
      BY <1>1, <2>4 DEF Mine
    <3>2. CASE q = p
      <4>1. j = i /\ payout'[q].st = "EXECUTED"
        BY <1>0, <2>2, <2>4, <3>1, <3>2 DEF PayoutInv, RowTypes, PayoutTypes, PayoutRows
      <4> QED
        BY <2>1, <2>4, <4>1
    <3>3. CASE q # p
      <4>1. j # i /\ payout'[q] = payout[q]
        BY <1>0, <2>2, <2>4, <3>1, <3>3 DEF PayoutInv, RowTypes, PayoutTypes
      <4>2. (i \in rows') = (i \in rows)
        BY <2>4, <4>1
      <4>3. payout'[spent'[i].by] = payout[q]
        BY <2>1, <4>1
      <4> HIDE DEF q
      <4> QED
        BY <2>2, <4>2, <4>3
    <3> QED
      BY <3>2, <3>3
  <2>5. CASE ReconcileCommit
    <3>1. Mine(sync.p, sync.row)
      BY <2>5 DEF OwnInv, OwnExecutions, ReconcileCommit
    <3> QED
      BY <1>0, <2>3, <2>4, <2>5, <3>1, ReconcileWrites
  <2>6. CASE SyncCommit
    <3>1. Mine(sync.p, sync.row) /\ (sync.next.st # "EXECUTED" => sync.row = 0)
      BY <2>6 DEF OwnInv, OwnExecutions, SyncCommit
    <3>2. \/ UNCHANGED rows
          \/ /\ sync.p \in Ids /\ sync.row \in rows
             /\ payout[sync.p].st = "PROPOSED"
             /\ payout' = [payout EXCEPT ![sync.p].st = "EXECUTED", ![sync.p].tx = sync.row]
             /\ rows' = rows \ {sync.row}
      BY <1>0, <2>6, <3>1, CommitWrites
    <3> QED
      BY <2>3, <2>4, <3>1, <3>2
  <2>7. UNCHANGED rows \/ ReconcileCommit \/ SyncCommit
    BY <1>5, WritersOfRows
  <2> QED
    BY <2>3, <2>5, <2>6, <2>7
<1>6. ASSUME EventRead
      PROVE  cursor' = cursor
  BY <1>6 DEF EventRead
<1> QED
  BY <1>2, <1>3, <1>4, <1>5, <1>6, WritersOfHandler

\* Every call creates one payout.
LEMMA CreatedStaysFinite ==
  ASSUME OwnInv, Next
  PROVE  FinitelyMany'
<1>0. PayoutInv
  BY DEF OwnInv, GivenUpInv
<1>t. payout \in [Ids -> PayoutRows]
  BY <1>0 DEF PayoutInv, RowTypes, PayoutTypes
<1> DEFINE New == {p \in Ids : ~Absent(p)'}
<1>1. ASSUME \A p \in Ids : Absent(p) => Absent(p)'
      PROVE  IsFiniteSet(New)
  <2>1. New \subseteq Created
    BY <1>1 DEF Created
  <2> QED
    BY <2>1, FS_Subset DEF OwnInv, FinitelyMany
<1>2. ASSUME NEW r \in Requests, InsertIntent(r)
      PROVE  IsFiniteSet(New)
  <2>1. CASE UNCHANGED payout
    BY <1>1, <2>1 DEF Absent
  <2>2. ASSUME NEW q \in Ids,
               payout' = [payout EXCEPT ![q] = [st |-> "PROPOSED", tx |-> 0, key |-> create[r].key]]
        PROVE  IsFiniteSet(New)
    <3>1. New \subseteq Created \cup {q}
      BY <1>t, <2>2 DEF Created, Absent
    <3>2. IsFiniteSet(Created \cup {q})
      BY FS_AddElement DEF OwnInv, FinitelyMany
    <3> QED
      BY <3>1, <3>2, FS_Subset
  <2> QED
    BY <1>2, <2>1, <2>2 DEF InsertIntent
<1>3. ASSUME NEW p \in Ids, Absent(p), ~ \E r \in Requests : InsertIntent(r)
      PROVE  Absent(p)'
  <2>t. payout[p] \in PayoutRows /\ payout[p].st = "NONE"
    BY <1>t, <1>3 DEF Absent
  <2>1. CASE Expires
    BY <2>t, <2>1, ExpiryOf DEF Absent
  <2>2. CASE ReconcileCommit
    BY <1>0, <1>t, <2>t, <2>2, ReconcileWrites DEF Absent
  <2>3. CASE SyncCommit
    BY <1>0, <1>t, <2>t, <2>3, CommitWrites DEF Absent
  <2>4. CASE EventWrite
    <3>1. handler.pc = "settle" => handler.p # p
      <4>1. payout[p].key = NoKey /\ NoKey \notin Keys
        BY <1>0, <1>3, PayoutAssumption DEF PayoutInv, RowsAreCreated, NoKey
      <4> QED
        BY <1>0, <2>4, <4>1, HandlerWrites
    <3> QED
      BY <1>0, <1>t, <2>t, <2>4, <3>1, HandlerWrites DEF Absent
  <2>5. CASE ResetChainProjection
    BY <2>t, <2>5 DEF ResetChainProjection, Absent
  <2>6. ASSUME NEW r \in Requests, ReplaceIntent(r)
        PROVE  Absent(p)'
    BY <2>t, <2>6 DEF ReplaceIntent, Absent
  <2>7. ASSUME NEW q \in Ids, \/ CancelManual(q) \/ ClaimIntent(q) \/ Propose(q)
                              \/ ProposeFails(q) \/ SubmitDone(q) \/ SyncFails(q)
                              \/ IntentFallsDue(q) \/ ProposalAges(q)
        PROVE  Absent(p)'
    <3>1. \/ UNCHANGED payout
          \/ payout[q].st = "PROPOSED" /\ payout' = [payout EXCEPT ![q].st = "FAILED"]
      BY <2>7 DEF CancelManual, ClaimIntent, Propose, ProposeFails, SubmitDone,
                  SyncFails, IntentFallsDue, ProposalAges
    <3> QED
      BY <1>t, <2>t, <3>1 DEF Absent
  <2>8. CASE UNCHANGED <<payout, intent, prop>>
    BY <2>t, <2>8 DEF Absent
  <2> QED
    BY <1>3, <2>1, <2>2, <2>3, <2>4, <2>5, <2>6, <2>7, <2>8, WritersOfTables
<1>4. IsFiniteSet(New)
  BY <1>1, <1>2, <1>3
<1> QED
  BY <1>4 DEF FinitelyMany, Created

\* An EXECUTED payout names the execution that settled it.
LEMMA SettledByAnExecution ==
  ASSUME OwnInv, NEW p \in Ids, payout[p].st = "EXECUTED"
  PROVE  /\ payout[p].tx \in DOMAIN spent /\ spent[payout[p].tx].by = p
         /\ prop[p].st # "NONE"
<1>0. PayoutInv
  BY DEF OwnInv, GivenUpInv
<1>1. payout[p].tx # 0
  BY <1>0 DEF PayoutInv, ExecutedIsReleased, ChainTypes
<1>2. payout[p].tx \in DOMAIN spent /\ spent[payout[p].tx].by = p
  BY <1>1 DEF OwnInv, OwnExecutions, Mine
<1> QED
  BY <1>2, ExecutedOnce

LEMMA OwnInit == Init => OwnInv
<1> SUFFICES ASSUME Init
             PROVE  OwnInv
  OBVIOUS
<1>1. GivenUpInv /\ PayoutInv
  BY GivenUpInit, PayoutInit
<1>2. OnlyService
  BY DEF Init, OnlyService, Idle
<1>3. /\ spent = <<>> /\ DOMAIN spent = {} /\ cursor = 0 /\ sync.pc = "idle" /\ handler = Idle
      /\ \A p \in Ids : payout[p].st = "NONE" /\ prop[p].exec = 0 /\ ~prop[p].late
  BY DEF Init, Idle, NoProposal
<1>4. OwnExecutions
  BY <1>3 DEF OwnExecutions, Mine, Idle
<1>5. ProjectedToItsOwn /\ OnTime
  BY <1>3 DEF ProjectedToItsOwn, OnTime
<1>6. FinitelyMany
  <2>1. Created = {}
    BY <1>3 DEF Created, Absent
  <2> QED
    BY <2>1, FS_EmptySet DEF FinitelyMany
<1> QED
  BY <1>1, <1>2, <1>4, <1>5, <1>6 DEF OwnInv

LEMMA OwnStep ==
  ASSUME Deliveries \subseteq {"SERVICE"}, MaxOutside = 0,
         OwnInv, [Next]_vars, OnTime'
  PROVE  OwnInv'
<1>1. CASE Next
  <2>1. GivenUpInv'
    BY <1>1, GivenUpStep DEF OwnInv
  <2> QED
    BY <1>1, <2>1, OnlyServiceLasts, OwnExecutionsLast, ProjectedStays, CreatedStaysFinite
       DEF OwnInv
<1>2. CASE UNCHANGED vars
  <2>1. GivenUpInv'
    BY GivenUpKept DEF OwnInv
  <2>2. OnlyService' /\ OwnExecutions'
    BY <1>2 DEF OwnInv, vars, OnlyService, OwnExecutions, Mine
  <2>3. ProjectedToItsOwn'
    BY <1>2 DEF OwnInv, vars, ProjectedToItsOwn
  <2>4. FinitelyMany'
    BY <1>2 DEF OwnInv, vars, FinitelyMany, Created, Absent
  <2> QED
    BY <2>1, <2>2, <2>3, <2>4 DEF OwnInv
<1> QED
  BY <1>1, <1>2

\* A proposal that came late stays one that did.
LEMMA LateForGood ==
  ASSUME PayoutInv, [Next]_vars, OnTime'
  PROVE  OnTime
<1>1. CASE Next
  <2>1. Steady
    BY <1>1, StepIsSteady
  <2> SUFFICES ASSUME NEW p \in Ids, prop[p].late
               PROVE  FALSE
    BY DEF OnTime
  <2>2. prop[p].st # "NONE"
    BY DEF PayoutInv, RowsAreCreated
  <2> QED
    BY <2>1, <2>2 DEF Steady, SentStays, OnTime
<1>2. CASE UNCHANGED vars
  BY <1>2 DEF vars, OnTime
<1> QED
  BY <1>1, <1>2

LEMMA OwnReleasesProjectedOnce ==
  GivenUpInv /\ (OnTime => OwnInv) => ReleaseProjectedOnce
<1> SUFFICES ASSUME GivenUpInv, OnTime => OwnInv
             PROVE  ReleaseProjectedOnce
  OBVIOUS
<1>0. PayoutInv
  BY DEF GivenUpInv
<1> DEFINE as(i) == {p \in Ids : payout[p].st = "EXECUTED" /\ payout[p].tx = i}
<1>1. rows \subseteq 1..cursor /\ 1..cursor \subseteq DOMAIN spent
  BY <1>0 DEF PayoutInv, ChainTypes
<1>2. ASSUME OnTime, NEW i \in 1..cursor, spent[i].key # NoKey
      PROVE  Cardinality(as(i)) + (IF i \in rows THEN 1 ELSE 0) = 1
  <2> DEFINE q == spent[i].by
  <2>0. OwnInv
    BY <1>2
  <2>1. /\ q \in Ids
        /\ payout[q].st = "EXECUTED" => payout[q].tx = i
        /\ (i \in rows) = (payout[q].st # "EXECUTED")
    BY <1>1, <1>2, <2>0, ExecutedOnce DEF OwnInv, ProjectedToItsOwn
  <2>2. as(i) \subseteq {q}
    BY <2>0, SettledByAnExecution
  <2>3. CASE i \in rows
    <3>1. as(i) = {}
      BY <2>1, <2>2, <2>3
    <3>2. Cardinality(as(i)) = 0
      BY <3>1, FS_EmptySet
    <3> HIDE DEF as
    <3> QED
      BY <2>3, <3>2
  <2>4. CASE i \notin rows
    <3>1. as(i) = {q}
      BY <2>1, <2>2, <2>4
    <3>2. Cardinality(as(i)) = 1
      BY <3>1, FS_Singleton
    <3> HIDE DEF as
    <3> QED
      BY <2>4, <3>2
  <2> QED
    BY <2>3, <2>4
<1>3. \A p \in Ids : payout[p].st = "EXECUTED" =>
        payout[p].tx \in 1..cursor /\ spent[payout[p].tx].key = payout[p].key
  BY <1>0 DEF PayoutInv, ExecutedIsReleased
<1> QED
  BY <1>1, <1>2, <1>3 DEF ReleaseProjectedOnce

\* Every release that has been indexed is exactly one EXECUTED payout or one row
\* of its own, unless a proposal was sent late, and every EXECUTED payout and
\* every row is an indexed release, whatever the indexer, the sync job, the API
\* and a reset interleave: when the operators use the service and the Safe
\* executes nothing else.
THEOREM ReleasesAreProjectedOnce ==
  ASSUME Deliveries \subseteq {"SERVICE"}, MaxOutside = 0
  PROVE  Spec => []ReleaseProjectedOnce
<1> DEFINE Inv == GivenUpInv /\ (OnTime => OwnInv)
<1>1. Init => Inv
  BY GivenUpInit, OwnInit
<1>2. Inv /\ [Next]_vars => Inv'
  <2> SUFFICES ASSUME Inv, [Next]_vars
               PROVE  Inv'
    OBVIOUS
  <2>1. GivenUpInv'
    BY GivenUpKept
  <2>2. ASSUME OnTime'
        PROVE  OwnInv'
    <3>1. OnTime
      BY <2>2, LateForGood DEF GivenUpInv
    <3> QED
      BY <2>2, <3>1, OwnStep
  <2> QED
    BY <2>1, <2>2
<1>3. Inv => ReleaseProjectedOnce
  BY OwnReleasesProjectedOnce
<1> HIDE DEF Inv
<1> QED
  BY <1>1, <1>2, <1>3, PTL DEF Spec
=============================================================================
