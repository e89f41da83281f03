-------------------- MODULE KeywordMarketWallet_proofs --------------------
(***************************************************************************)
(* No nonce is signed twice, for any number of rows, wallets and attempts. *)
(*                                                                         *)
(* NonceNeverReused is not inductive: signing compares the new nonce with  *)
(* the rows of the journals, and a row signed again forgets its previous   *)
(* nonce.  WalletInv adds that every forgotten nonce is still dominated,   *)
(* by another row or by the executed count (SentIsCovered); the second     *)
(* disjunct survives re-signing by another wallet because a row leaves     *)
(* flight only once its nonce is executed (RestingIsExecuted).             *)
(***************************************************************************)
EXTENDS KeywordMarketWallet, TLAPS

\* The initial journals are empty: WalletInv holds of the unsigned rows.
LEMMA WalletInit == Init => WalletInv
  BY NonceAssumption, JournalAssumption
  DEF Init, WalletInv, TypeOK, RowsAreSent, SentIsCovered, RestingIsExecuted,
      NonceNeverReused, Transactions

\* A nonce that passes the wallet-lock checks is above every nonce ever signed
\* for that wallet (the reservation read of keyword-market-wallet.ts).
LEMMA FreshNonce ==
  ASSUME WalletInv, NEW w \in Wallets, NEW p \in Nat,
         p >= accountNonce[w], AboveLatest(p, w)
  PROVE  \A t \in sent : t.wallet = w => t.nonce < p
<1> SUFFICES ASSUME NEW t \in sent, t.wallet = w
             PROVE  t.nonce < p
  OBVIOUS
<1>1. t.nonce \in Nat /\ accountNonce[w] \in Nat
  BY DEF WalletInv, TypeOK, Transactions
<1>2. CASE \E r \in Rows : signer[r] = t.wallet /\ nonce[r] >= t.nonce
  <2>1. PICK r \in Rows : signer[r] = w /\ nonce[r] >= t.nonce
    BY <1>2
  <2>2. nonce[r] < p /\ nonce[r] \in Int
    BY <2>1 DEF AboveLatest, WalletInv, TypeOK
  <2> QED
    BY <1>1, <2>1, <2>2
<1>3. CASE accountNonce[t.wallet] > t.nonce
  BY <1>1, <1>3
<1> QED
  BY <1>2, <1>3 DEF WalletInv, SentIsCovered

\* Signing under the wallet lock preserves the inductive invariant.
LEMMA SignPreserves ==
  ASSUME WalletInv, NEW r \in Rows, NEW w \in Wallets, NEW p \in Nonces,
         Sign(r, w, p)
  PROVE  WalletInv'
<1> DEFINE new == [row |-> r, wallet |-> w, nonce |-> p,
                   attempt |-> attempts[r] + 1]
<1>1. p \in Nat /\ NoWallet \notin Wallets /\ NonceRollback \in BOOLEAN
  BY NonceAssumption, JournalAssumption, RollbackAssumption
<1>2. sent' = sent \cup {new} /\ new \in Transactions
  BY <1>1 DEF Sign, Transactions, WalletInv, TypeOK
<1>3. /\ signer' = [signer EXCEPT ![r] = w]
      /\ nonce' = [nonce EXCEPT ![r] = p]
      /\ state' = [state EXCEPT ![r] = "inFlight"]
      /\ attempts' = [attempts EXCEPT ![r] = attempts[r] + 1]
      /\ accountNonce' = accountNonce
      /\ state[r] = "resting"
  BY DEF Sign
<1>4. TypeOK'
  BY <1>1, <1>2, <1>3 DEF WalletInv, TypeOK
<1>5. \A t \in sent : t.wallet = w => t.nonce < p
  BY <1>1, FreshNonce DEF Sign
<1>6. RowsAreSent'
  <2> SUFFICES ASSUME NEW q \in Rows, nonce'[q] # -1
               PROVE  /\ signer'[q] \in Wallets
                      /\ [row |-> q, wallet |-> signer'[q], nonce |-> nonce'[q],
                          attempt |-> attempts'[q]] \in sent'
    BY DEF RowsAreSent
  <2>1. CASE q = r
    BY <1>2, <1>3, <2>1 DEF WalletInv, TypeOK
  <2>2. CASE q # r
    BY <1>2, <1>3, <2>2 DEF WalletInv, TypeOK, RowsAreSent
  <2> QED
    BY <2>1, <2>2
<1>7. SentIsCovered'
  <2> SUFFICES ASSUME NEW t \in sent'
               PROVE  \/ \E q \in Rows : signer'[q] = t.wallet /\ nonce'[q] >= t.nonce
                      \/ ~NonceRollback /\ accountNonce'[t.wallet] > t.nonce
    BY DEF SentIsCovered
  <2>1. t \in Transactions
    BY <1>4 DEF TypeOK
  <2>2. CASE t.wallet = w
    <3>1. t.nonce <= p
      BY <1>1, <1>2, <1>5, <2>1, <2>2 DEF Transactions
    <3>2. signer'[r] = t.wallet /\ nonce'[r] >= t.nonce
      BY <1>1, <1>3, <2>1, <2>2, <3>1 DEF WalletInv, TypeOK, Transactions
    <3> QED
      BY <3>2
  <2>3. CASE t.wallet # w
    <3>1. t \in sent
      BY <1>2, <2>3
    <3>2. CASE ~NonceRollback /\ accountNonce[t.wallet] > t.nonce
      BY <1>3, <3>2
    <3>3. CASE \E q \in Rows : signer[q] = t.wallet /\ nonce[q] >= t.nonce
      <4>1. PICK q \in Rows : signer[q] = t.wallet /\ nonce[q] >= t.nonce
        BY <3>3
      <4>2. CASE q # r
        BY <1>3, <4>1, <4>2 DEF WalletInv, TypeOK
      <4>3. CASE q = r
        <5>1. ~NonceRollback
          BY <2>1, <2>3, RollbackAssumption DEF Transactions
        <5>2. nonce[r] # -1
          BY <2>1, <4>1, <4>3 DEF Transactions
        <5>3. accountNonce[t.wallet] > nonce[r]
          BY <1>3, <4>1, <4>3, <5>1, <5>2 DEF WalletInv, RestingIsExecuted
        <5>4. accountNonce[t.wallet] \in Nat /\ nonce[r] \in Int /\ t.nonce \in Nat
          BY <2>1 DEF WalletInv, TypeOK, Transactions
        <5> QED
          BY <1>3, <4>1, <4>3, <5>1, <5>3, <5>4
      <4> QED
        BY <4>2, <4>3
    <3> QED
      BY <3>1, <3>2, <3>3 DEF WalletInv, SentIsCovered
  <2> QED
    BY <2>2, <2>3
<1>8. RestingIsExecuted'
  BY <1>3 DEF WalletInv, TypeOK, RestingIsExecuted
<1>9. NonceNeverReused'
  <2> SUFFICES ASSUME NEW t \in sent', NEW u \in sent',
                      t.wallet = u.wallet, t.nonce = u.nonce
               PROVE  t = u
    BY DEF NonceNeverReused
  <2>1. CASE t \in sent /\ u \in sent
    BY <2>1 DEF WalletInv, NonceNeverReused
  <2>2. CASE t = new /\ u \in sent
    BY <1>1, <1>5, <2>2
  <2>3. CASE u = new /\ t \in sent
    BY <1>1, <1>5, <2>3
  <2> QED
    BY <1>2, <2>1, <2>2, <2>3
<1> QED
  BY <1>4, <1>6, <1>7, <1>8, <1>9 DEF WalletInv

\* Every step of the journals or of the chain preserves the invariant.
LEMMA WalletStep == WalletInv /\ [Next]_vars => WalletInv'
<1> SUFFICES ASSUME WalletInv, [Next]_vars
             PROVE  WalletInv'
  OBVIOUS
<1> USE DEF WalletInv
<1>1. ASSUME NEW r \in Rows, NEW w \in Wallets, NEW p \in Nonces, Sign(r, w, p)
      PROVE  WalletInv'
  BY <1>1, SignPreserves
<1>2. ASSUME NEW r \in Rows, Conclude(r)
      PROVE  WalletInv'
  BY <1>2 DEF Conclude, TypeOK, RowsAreSent, SentIsCovered,
              RestingIsExecuted, NonceNeverReused
<1>3. ASSUME NEW r \in Rows, Reopen(r)
      PROVE  WalletInv'
  BY <1>3 DEF Reopen, TypeOK, RowsAreSent, SentIsCovered,
              RestingIsExecuted, NonceNeverReused
<1>4. ASSUME NEW w \in Wallets, NEW n \in Nonces, Execute(w, n)
      PROVE  WalletInv'
  <2>1. n \in Nat /\ n > accountNonce[w]
    BY <1>4, NonceAssumption DEF Execute
  <2>2. accountNonce' = [accountNonce EXCEPT ![w] = n]
    BY <1>4 DEF Execute
  <2>3. UNCHANGED <<state, signer, nonce, attempts, sent>>
    BY <1>4 DEF Execute
  <2>4. \A v \in Wallets : accountNonce'[v] >= accountNonce[v] /\ accountNonce'[v] \in Nat
    BY <2>1, <2>2 DEF TypeOK
  <2>5. TypeOK' /\ RowsAreSent' /\ NonceNeverReused'
    BY <2>1, <2>2, <2>3 DEF TypeOK, RowsAreSent, NonceNeverReused
  <2>6. SentIsCovered'
    BY <2>3, <2>4 DEF SentIsCovered, TypeOK, Transactions
  <2>7. RestingIsExecuted'
    <3> SUFFICES ASSUME NEW r \in Rows, ~NonceRollback,
                        state[r] = "resting", nonce[r] # -1
                 PROVE  accountNonce'[signer[r]] > nonce[r]
      BY <2>3 DEF RestingIsExecuted
    <3>1. signer[r] \in Wallets /\ accountNonce[signer[r]] > nonce[r]
      BY DEF RestingIsExecuted, RowsAreSent
    <3>2. accountNonce[signer[r]] \in Nat /\ nonce[r] \in Int
      BY <3>1 DEF TypeOK
    <3> QED
      BY <2>4, <3>1, <3>2
  <2> QED
    BY <2>5, <2>6, <2>7
<1>5. ASSUME NEW w \in Wallets, NEW n \in Nonces, Rollback(w, n)
      PROVE  WalletInv'
  BY <1>5, NonceAssumption
  DEF Rollback, TypeOK, RowsAreSent, SentIsCovered, RestingIsExecuted,
      NonceNeverReused
<1>6. CASE UNCHANGED vars
  BY <1>6 DEF vars, TypeOK, RowsAreSent, SentIsCovered, RestingIsExecuted,
              NonceNeverReused
<1> QED
  BY <1>1, <1>2, <1>3, <1>4, <1>5, <1>6 DEF Next

\* The inductive invariant holds throughout.
THEOREM WalletInvariant == Spec => []WalletInv
  BY WalletInit, WalletStep, PTL DEF Spec

\* prepareBatch and processPreUsdPricePublication never sign two transactions
\* for one nonce of a wallet, whatever the chain and the operators do.
THEOREM NonceNeverReusedTheorem == Spec => []NonceNeverReused
<1>1. WalletInv => NonceNeverReused
  BY DEF WalletInv
<1> QED
  BY <1>1, WalletInvariant, PTL
=============================================================================
