------------------------------- MODULE Sessions -------------------------------
(* Signing in and out: the rows of walletSession                                *)
(* (src/apps/api/src/auth/auth.service.ts), the cookie, and what a tab of the   *)
(* site shows (src/apps/web/hooks/use-wallet-session.ts).  A challenge becomes  *)
(* a session in one transaction; a request may be delivered again, answers may  *)
(* be lost, and readings of the session overlap with sign-in and sign-out.      *)
EXTENDS Naturals, FiniteSets, Sequences

CONSTANTS Wallets, Challenges,
          MaxReads,   \* readings of the session in flight
          MaxEvents   \* accounts switched, answers lost, sign-outs and expiries

NoOne == "nobody"
NoRow == "no row"

VARIABLES
  row,      \* walletSession: [state, address, live]
  tokens,   \* session tokens handed out for each challenge, a history variable
  verify,   \* verifications on the server, by challenge: the original and a copy
  account,  \* the account of the wallet, or nobody
  cookie,   \* the challenge whose session the browser holds, or NoRow
  shown,    \* sessionAddress
  flow,     \* authenticate
  leaving,  \* logout
  reads,    \* refreshSession, in the order of sending
  crossed,  \* an answer arrived after that of a later reading, a history variable
  events

sessionVars == <<row, tokens, verify, account, cookie, shown, flow, leaving, reads, crossed, events>>

Unused == [state |-> "none", address |-> NoOne, live |-> FALSE]
NoFlow == [pc |-> "idle", address |-> NoOne, challenge |-> NoRow]
NoLogout == [pc |-> "idle", challenge |-> NoRow]
Copies == {"first", "again"}
NotThere == [pc |-> "none", ok |-> FALSE, signer |-> NoOne]

SessionsInit ==
  /\ row = [c \in Challenges |-> Unused]
  /\ tokens = [c \in Challenges |-> 0]
  /\ verify = [c \in Challenges |-> [k \in Copies |-> NotThere]]
  /\ account \in Wallets /\ cookie = NoRow /\ shown = NoOne
  /\ flow = NoFlow /\ leaving = NoLogout
  /\ reads = <<[cookie |-> NoRow, answer |-> "none"]>>  \* the first reading, at mount
  /\ crossed = FALSE /\ events = 0

Event == events < MaxEvents /\ events' = events + 1
Server == <<row, tokens, verify>>
Tab == <<shown, flow, leaving, reads, crossed>>

\* A session authenticates while its row is there and has not expired.
Authenticated(c) == c # NoRow /\ row[c].state = "session" /\ row[c].live
AddressOf(c) == IF Authenticated(c) THEN row[c].address ELSE NoOne

\* AUTH_CHANGED: refreshSession sends a reading, whatever is in flight.
Sent(cookieThen) == Append(reads, [cookie |-> cookieThen, answer |-> "none"])

-----------------------------------------------------------------------------
(* authenticate *)

\* authenticationInFlightRef lets one run at a time.
Begin ==
  /\ flow.pc = "idle" /\ account # NoOne
  /\ \E c \in Challenges : row[c] = Unused
  /\ flow' = [NoFlow EXCEPT !.pc = "nonce", !.address = account]
  /\ UNCHANGED <<Server, account, cookie, shown, leaving, reads, crossed, events>>

\* The expired challenges and sessions, deleted when ten minutes have passed.
Cleaned == [c \in Challenges |->
  IF row[c].state \in {"issued", "session"} /\ ~row[c].live THEN [row[c] EXCEPT !.state = "deleted"] ELSE row[c]]

CreateNonce ==
  /\ flow.pc = "nonce"
  /\ \E c \in Challenges, kept \in {row, Cleaned} :
       /\ row[c] = Unused
       /\ row' = [kept EXCEPT ![c] = [state |-> "issued", address |-> flow.address, live |-> TRUE]]
       /\ flow' = [flow EXCEPT !.pc = "signing", !.challenge = c]
  /\ UNCHANGED <<tokens, verify, account, cookie, shown, leaving, reads, crossed, events>>

\* The wallet signs with the account it has selected, or refuses.
SignMessage ==
  /\ flow.pc = "signing"
  /\ \/ /\ account # NoOne
        /\ flow' = [flow EXCEPT !.pc = "verifying"]
        /\ verify' = [verify EXCEPT ![flow.challenge]["first"] =
                        [NotThere EXCEPT !.pc = "arrived", !.signer = account]]
     \/ flow' = NoFlow /\ UNCHANGED verify
  /\ UNCHANGED <<row, tokens, account, cookie, shown, leaving, reads, crossed, events>>

\* The request is delivered again.
Redeliver(c) ==
  /\ Event /\ verify[c]["first"].pc # "none" /\ verify[c]["again"].pc = "none"
  /\ verify' = [verify EXCEPT ![c]["again"] = [verify[c]["first"] EXCEPT !.pc = "arrived", !.ok = FALSE]]
  /\ UNCHANGED <<row, tokens, account, cookie, Tab>>

\* verify looks for a live challenge and checks the signature, ...
FindChallenge(c, k) ==
  /\ verify[c][k].pc = "arrived"
  /\ verify' = [verify EXCEPT ![c][k].pc =
       IF row[c].state = "issued" /\ row[c].live /\ verify[c][k].signer = row[c].address
       THEN "found" ELSE "done"]
  /\ UNCHANGED <<row, tokens, account, cookie, Tab, events>>

\* The claim trusts the reading before it.
ClaimFound(c) == TRUE

\* ... and claims it in a transaction unless another request did.
Claimable(c) == row[c].state = "issued" /\ row[c].live

ClaimNonce(c, k) ==
  /\ verify[c][k].pc = "found"
  /\ verify' = [verify EXCEPT ![c][k].pc = "done", ![c][k].ok = Claimable(c)]
  /\ IF Claimable(c)
     THEN row' = [row EXCEPT ![c].state = "session", ![c].live = TRUE]
          /\ tokens' = [tokens EXCEPT ![c] = @ + 1]
     ELSE UNCHANGED <<row, tokens>>
  /\ UNCHANGED <<account, cookie, Tab, events>>

\* The answer brings the cookie, and the tab announces the change.
VerifyEnds ==
  LET c == flow.challenge
      answer == verify[c]["first"]
  IN  /\ flow.pc = "verifying" /\ answer.pc = "done"
      /\ \/ /\ answer.ok
            /\ cookie' = c /\ shown' = flow.address /\ reads' = Sent(c)
            /\ Len(reads) < MaxReads /\ UNCHANGED events
         \/ /\ answer.ok => Event
            /\ ~answer.ok => UNCHANGED events
            /\ UNCHANGED <<cookie, shown, reads>>
      /\ flow' = NoFlow
      /\ UNCHANGED <<Server, account, leaving, crossed>>

-----------------------------------------------------------------------------
(* logout *)

\* The wallet is disconnected first.
Disconnect ==
  /\ leaving.pc = "idle" /\ Event
  /\ account' = NoOne
  /\ leaving' = [NoLogout EXCEPT !.pc = "sent", !.challenge = cookie]
  /\ UNCHANGED <<Server, cookie, shown, flow, reads, crossed>>

\* The session of the cookie that came with the request is deleted.
Logout ==
  /\ leaving.pc = "sent"
  /\ leaving' = [leaving EXCEPT !.pc = "answered"]
  /\ row' = IF leaving.challenge = NoRow THEN row
            ELSE [row EXCEPT ![leaving.challenge].state = "deleted"]
  /\ UNCHANGED <<tokens, verify, account, cookie, shown, flow, reads, crossed, events>>

\* Nothing is read after a sign-out.
LeaveQuietly ==
  /\ leaving.pc = "answered" \/ (leaving.pc = "sent" /\ Event)
  /\ leaving.pc = "answered" => UNCHANGED events
  /\ cookie' = IF leaving.pc = "answered" THEN NoRow ELSE cookie
  /\ shown' = NoOne /\ leaving' = NoLogout
  /\ UNCHANGED <<Server, account, flow, reads, crossed>>

\* The finally block, also when the request failed or its answer was lost: the
\* session is no longer shown, and what the cookie gives is read again.
LogoutEnds ==
  /\ leaving.pc # "idle" /\ Len(reads) < MaxReads
  /\ \/ leaving.pc = "answered" /\ cookie' = NoRow /\ UNCHANGED events
     \/ Event /\ UNCHANGED cookie
  /\ shown' = NoOne /\ leaving' = NoLogout /\ reads' = Sent(cookie')
  /\ UNCHANGED <<Server, account, flow, crossed>>

-----------------------------------------------------------------------------
(* refreshSession, and what changes besides. *)

AnswerMe(i) ==
  /\ reads[i].answer = "none"
  /\ reads' = [reads EXCEPT ![i].answer = AddressOf(reads[i].cookie)]
  /\ UNCHANGED <<Server, account, cookie, shown, flow, leaving, crossed, events>>

\* The answer, or a failure of the request, is shown, whichever reading it is of.
RefreshEnds(i) ==
  /\ \/ reads[i].answer # "none" /\ shown' = reads[i].answer /\ UNCHANGED events
     \/ Event /\ reads[i].answer = "none" /\ shown' = NoOne
  /\ reads' = [j \in 1..(Len(reads) - 1) |-> IF j < i THEN reads[j] ELSE reads[j + 1]]
  /\ crossed' = (crossed \/ i > 1 \/ (reads[i].answer = "none"))
  /\ UNCHANGED <<Server, account, cookie, flow, leaving>>

SwitchAccount ==
  /\ Event /\ account' \in Wallets \ {account}
  /\ UNCHANGED <<Server, cookie, Tab>>

\* A challenge or a session expires; the browser drops the cookie with it.
Expire(c) ==
  /\ Event /\ row[c].live /\ row' = [row EXCEPT ![c].live = FALSE]
  /\ cookie' = IF cookie = c THEN NoRow ELSE cookie
  /\ UNCHANGED <<tokens, verify, account, Tab>>

SessionsNext ==
  \/ Begin \/ CreateNonce \/ SignMessage \/ VerifyEnds \/ Disconnect \/ Logout \/ LogoutEnds
  \/ SwitchAccount
  \/ \E i \in 1..MaxReads : i <= Len(reads) /\ (AnswerMe(i) \/ RefreshEnds(i))
  \/ \E c \in Challenges :
       \/ Redeliver(c) \/ Expire(c)
       \/ \E k \in Copies : FindChallenge(c, k) \/ ClaimNonce(c, k)

SessionsSpec == SessionsInit /\ [][SessionsNext]_sessionVars

-----------------------------------------------------------------------------
(* Properties. *)

\* A challenge gives one session, although its message is delivered twice and both
\* copies find it unused (verify, "Nonce replay rejected").
OneSessionPerNonce == \A c \in Challenges : tokens[c] <= 1

\* When sign-in, sign-out and readings have ended, the tab shows the session the
\* cookie gives, or one that has expired since, whatever was lost in between;
\* readings that failed or overtook each other aside (authenticate, logout,
\* refreshSession).
TabShowsCookie ==
  flow.pc = "idle" /\ leaving.pc = "idle" /\ reads = <<>> /\ ~crossed =>
    \/ shown = AddressOf(cookie)
    \/ \E c \in Challenges : shown = row[c].address /\ ~row[c].live

SessionsInv == OneSessionPerNonce /\ TabShowsCookie
=============================================================================
