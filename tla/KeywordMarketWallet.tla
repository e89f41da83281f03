------------------------ MODULE KeywordMarketWallet ------------------------
(***************************************************************************)
(* The nonce reservation that the two signing journals of the worker share *)
(* (apps/worker/src/keyword-market-wallet.ts).                             *)
(*                                                                         *)
(* A journal row is an AdChargeBatch or an AdPricePublication.  A row is   *)
(* "resting" (PREPARED, FAILED or a terminal status) or "inFlight" (SIGNED,*)
(* SUBMITTED, RECONCILING), and once signed it keeps the wallet and the    *)
(* nonce of its LAST signature: signing it again overwrites the older      *)
(* bytes, although the network may still hold them.  `sent' remembers      *)
(* every transaction that was ever signed, and accountNonce is the number  *)
(* of transactions of a wallet the chain has executed.                     *)
(*                                                                         *)
(* This is the abstract specification that KeywordMarketCharges is shown   *)
(* to implement; the chain is an arbitrary environment here.               *)
(***************************************************************************)
EXTENDS Integers, FiniteSets

CONSTANTS Charges,        \* ids of AdChargeBatch rows
          Publications,   \* ids of AdPricePublication rows
          Wallets,        \* signer addresses: keys can be rotated
          NoWallet,       \* signerAddress of an unsigned row (SQL NULL)
          Nonces,         \* transaction counts an RPC node may report
          Attempts,       \* values of attemptCount (bounds re-signing in TLC)
          NonceRollback   \* can a reorganization undo executed transactions?

Rows == Charges \cup Publications

ASSUME JournalAssumption ==
  /\ Charges \cap Publications = {}
  /\ NoWallet \notin Wallets

ASSUME NonceAssumption == Nonces \subseteq Nat /\ Attempts \subseteq Nat

\* Either signers are rotated or finalized transactions can be undone, never
\* both: a row signed by a second wallet no longer records its first nonce.
ASSUME RollbackAssumption ==
  /\ NonceRollback \in BOOLEAN
  /\ NonceRollback => \A v, w \in Wallets : v = w

VARIABLES state,         \* [Rows -> {"resting", "inFlight"}]
          signer,        \* wallet of the row's last signature
          nonce,         \* nonce of the row's last signature, -1 if unsigned
          attempts,      \* attemptCount
          sent,          \* history: every transaction ever signed
          accountNonce   \* executed transactions of each wallet

vars == <<state, signer, nonce, attempts, sent, accountNonce>>

Transactions == [row : Rows, wallet : Wallets, nonce : Nat, attempt : Nat]

TypeOK ==
  /\ state \in [Rows -> {"resting", "inFlight"}]
  /\ signer \in [Rows -> Wallets \cup {NoWallet}]
  /\ nonce \in [Rows -> Nat \cup {-1}]
  /\ attempts \in [Rows -> Nat]
  /\ sent \subseteq Transactions
  /\ accountNonce \in [Wallets -> Nat]

Init ==
  /\ state = [r \in Rows |-> "resting"]
  /\ signer = [r \in Rows |-> NoWallet]
  /\ nonce = [r \in Rows |-> -1]
  /\ attempts = [r \in Rows |-> 0]
  /\ sent = {}
  /\ accountNonce = [w \in Wallets |-> 0]

-----------------------------------------------------------------------------
\* reservation.pending: some OTHER row of the wallet is in flight.
Pending(r, w) == \E q \in Rows \ {r} : signer[q] = w /\ state[q] = "inFlight"

\* Fault: the latest nonce is taken from one journal only.
AboveLatestOwnJournal(p, w) == \A q \in Charges : signer[q] = w => nonce[q] < p

\* p is above reservation.latestNonce, the largest nonce either journal holds
\* for the wallet.
AboveLatest(p, w) == \A q \in Rows : signer[q] = w => nonce[q] < p

\* The wallet-lock transaction that signs row r.  The pending nonce is read
\* inside it and is never below the executed count; a publication also
\* requires that nothing of the wallet waits in the transaction pool.
Sign(r, w, p) ==
  /\ state[r] = "resting"
  /\ attempts[r] + 1 \in Attempts
  /\ ~Pending(r, w)
  /\ p >= accountNonce[w]
  /\ r \in Publications => p = accountNonce[w]
  /\ AboveLatest(p, w)
  /\ state' = [state EXCEPT ![r] = "inFlight"]
  /\ signer' = [signer EXCEPT ![r] = w]
  /\ nonce' = [nonce EXCEPT ![r] = p]
  /\ attempts' = [attempts EXCEPT ![r] = @ + 1]
  /\ sent' = sent \cup {[row |-> r, wallet |-> w, nonce |-> p,
                         attempt |-> attempts[r] + 1]}
  /\ UNCHANGED accountNonce

\* A receipt, or an executed nonce, takes the row out of flight.  Only a
\* reorganization can settle a row whose own nonce was not executed (an
\* earlier attempt of the same charge was).
Conclude(r) ==
  /\ state[r] = "inFlight"
  /\ NonceRollback \/ accountNonce[signer[r]] > nonce[r]
  /\ state' = [state EXCEPT ![r] = "resting"]
  /\ UNCHANGED <<signer, nonce, attempts, sent, accountNonce>>

\* A signed row whose receipt block is no longer canonical is reconciled again.
Reopen(r) ==
  /\ state[r] = "resting"
  /\ nonce[r] # -1
  /\ state' = [state EXCEPT ![r] = "inFlight"]
  /\ UNCHANGED <<signer, nonce, attempts, sent, accountNonce>>

\* The chain executes transactions of the wallet, the journals' or others.
Execute(w, n) ==
  /\ n > accountNonce[w]
  /\ accountNonce' = [accountNonce EXCEPT ![w] = n]
  /\ UNCHANGED <<state, signer, nonce, attempts, sent>>

\* A reorganization undoes executed transactions.
Rollback(w, n) ==
  /\ NonceRollback
  /\ n < accountNonce[w]
  /\ accountNonce' = [accountNonce EXCEPT ![w] = n]
  /\ UNCHANGED <<state, signer, nonce, attempts, sent>>

Next ==
  \/ \E r \in Rows, w \in Wallets, p \in Nonces : Sign(r, w, p)
  \/ \E r \in Rows : Conclude(r)
  \/ \E r \in Rows : Reopen(r)
  \/ \E w \in Wallets, n \in Nonces : Execute(w, n)
  \/ \E w \in Wallets, n \in Nonces : Rollback(w, n)

Spec == Init /\ [][Next]_vars

-----------------------------------------------------------------------------
\* No two transactions are ever signed for the same nonce of a wallet, over
\* both journals, retries, reorganizations and key rotation: otherwise the
\* later one replaces, or is replaced by, one the journals still rely on.
\* (prepareBatch and processPreUsdPricePublication, under the wallet lock.)
NonceNeverReused ==
  \A t, u \in sent : t.wallet = u.wallet /\ t.nonce = u.nonce => t = u

-----------------------------------------------------------------------------
\* The strengthening that makes NonceNeverReused inductive.

\* The row of each journal names its last signature.
RowsAreSent ==
  \A r \in Rows : nonce[r] # -1 =>
    /\ signer[r] \in Wallets
    /\ [row |-> r, wallet |-> signer[r], nonce |-> nonce[r],
        attempt |-> attempts[r]] \in sent

\* Every signed nonce is either dominated by a row of the journals or, when
\* execution is final, already executed.
SentIsCovered ==
  \A t \in sent :
    \/ \E r \in Rows : signer[r] = t.wallet /\ nonce[r] >= t.nonce
    \/ ~NonceRollback /\ accountNonce[t.wallet] > t.nonce

\* When execution is final, a row leaves flight only with its nonce executed.
RestingIsExecuted ==
  \A r \in Rows :
    ~NonceRollback /\ state[r] = "resting" /\ nonce[r] # -1 =>
      accountNonce[signer[r]] > nonce[r]

\* The inductive invariant behind NonceNeverReused.
WalletInv ==
  /\ TypeOK
  /\ RowsAreSent
  /\ SentIsCovered
  /\ RestingIsExecuted
  /\ NonceNeverReused
=============================================================================
