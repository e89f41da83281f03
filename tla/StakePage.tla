------------------------------ MODULE StakePage ------------------------------
(* The page of an advertiser's campaign, from which stakes are sent            *)
(* (src/apps/web/components/keyword-market-campaign-detail.tsx), with the API  *)
(* that prepares the transactions and answers the page's readings              *)
(* (ads-chain.adapter.ts, ads.service.ts).  A reading of the page lives in     *)
(* loadInFlight, one at a time; a transaction goes from the click through the  *)
(* plan, the allowance, the wallet and its confirmations to the index.  The    *)
(* session, the account of the wallet and the index change meanwhile.          *)
(* The chain keeps its blocks here: forks are the subject of AdsIndexer.       *)
EXTENDS Naturals, Sequences

CONSTANTS Clicks,        \* the clicks on Stake, Request unstake and Withdraw
          Confirmations, \* keywordMarketConfirmations
          MaxBlock,      \* the highest block
          Cases          \* pairs <<clicks, left>>: how often a behaviour submits and
                         \* how often the session or the account changes, the
                         \* campaign is paused or a request fails

Owner == "owner"
Operations == {"STAKE", "REQUEST_UNSTAKE", "UNSTAKE"}

VARIABLES
  history,   \* the owner's position after each block that changed it
  allowance, \* whether the market may take the amount from the owner
  matured,   \* the 24 hours after the request are over
  head,      \* the latest block
  through,   \* AdIndexerState.lastBlockNumber
  session,   \* who is signed in: the owner, somebody else or nobody
  account,   \* the account the wallet has selected
  view,      \* campaign, chainSnapshot and state of the page
  load,      \* load(): the reading in flight
  busy,      \* loadInFlight
  pending,   \* pendingLoad
  action,    \* what disables the buttons
  toggle,    \* togglePause
  flow,      \* submitStake, per click
  indexed,   \* the click whose message says "Position updated and indexed."
  left       \* what is left of the case of this behaviour

vars == <<history, allowance, matured, head, through, session, account, view, load,
          busy, pending, action, toggle, flow, indexed, left>>
chainVars == <<history, allowance, matured, head>>
readVars == <<view, load, busy, pending>>
outside == <<through, session, account>>

NoOne == "nobody"
None == "none"
NoAnswer == [session |-> NoOne, position |-> [block |-> 0, stake |-> "none"]]
NoLoad == [stage |-> "idle", background |-> FALSE, answer |-> NoAnswer]
NoTx == [what |-> None, from |-> NoOne, block |-> 0, ok |-> FALSE]

NoPlan == [approval |-> FALSE]
NoRead == [through |-> 0, answer |-> NoAnswer, next |-> 1]

Position(n) == LET s == SelectSeq(history, LAMBDA p : p.block <= n) IN s[Len(s)]
Latest == history[Len(history)]

\* mine and snapshot: the campaign of the signed-in wallet with its indexed
\* position.
Answer == [session |-> session, position |-> Position(through)]

Init ==
  /\ \E stake \in {"none", "staked"} : history = <<[block |-> 0, stake |-> stake]>>
  /\ allowance = FALSE /\ matured = FALSE /\ head = 0 /\ through = 0
  /\ session = Owner /\ account = Owner
  /\ view = [state |-> "loading", session |-> NoOne, position |-> Position(0)]
  /\ load = [NoLoad EXCEPT !.stage = "sent"] /\ busy = TRUE /\ pending = FALSE
  /\ action = None /\ toggle = "idle" /\ indexed = None /\ left \in Cases
  /\ flow = [c \in Clicks |->
               [stage |-> "idle", op |-> None, staker |-> NoOne, base |-> 0,
                plan |-> NoPlan, tx |-> NoTx, read |-> NoRead]]

Event == left[2] > 0 /\ left' = [left EXCEPT ![2] = @ - 1]

-----------------------------------------------------------------------------
(* The chain and its index (external). *)

Holds(op) ==
  CASE op = "STAKE" -> Latest.stake # "leaving" /\ allowance
    [] op = "REQUEST_UNSTAKE" -> Latest.stake = "staked"
    [] op = "UNSTAKE" -> Latest.stake = "leaving" /\ matured

Mine(c) ==
  LET tx == flow[c].tx
      op == flow[c].op
      ok == tx.what = "approve" \/ Holds(op)
      stake == CASE op = "STAKE" -> "staked" [] op = "REQUEST_UNSTAKE" -> "leaving" [] OTHER -> "none"
  IN  /\ tx.what # None /\ tx.block = 0 /\ head < MaxBlock
      /\ head' = head + 1
      /\ flow' = [flow EXCEPT ![c].tx.block = head + 1, ![c].tx.ok = ok]
      /\ IF tx.what = "operation" /\ ok /\ tx.from = Owner
         THEN /\ history' = Append(history, [block |-> head + 1, stake |-> stake])
              /\ allowance' = (allowance /\ op # "STAKE")
              /\ matured' = FALSE
         ELSE /\ allowance' = (allowance \/ (tx.what = "approve" /\ tx.from = Owner))
              /\ UNCHANGED <<history, matured>>
      /\ UNCHANGED <<outside, readVars, action, toggle, indexed, left>>

EmptyBlock ==
  /\ \E c \in Clicks : flow[c].tx.block # 0 /\ flow[c].tx.block + Confirmations > head
  /\ head < MaxBlock /\ head' = head + 1
  /\ UNCHANGED <<history, allowance, matured, outside, readVars, action, toggle, flow, indexed, left>>

Mature ==
  /\ Latest.stake = "leaving" /\ ~matured /\ matured' = TRUE
  /\ UNCHANGED <<history, allowance, head, outside, readVars, action, toggle, flow, indexed, left>>

Index ==
  /\ through + Confirmations <= head /\ through' = through + 1
  /\ UNCHANGED <<chainVars, session, account, readVars, action, toggle, flow, indexed, left>>

AccountChanges ==
  /\ Event /\ account' \in {Owner, "other"} \ {account}
  /\ UNCHANGED <<chainVars, through, session, readVars, action, toggle, flow, indexed>>

-----------------------------------------------------------------------------
(* load *)

\* The finally block: loadInFlight is released and the remembered load starts.
Release(v) ==
  /\ busy' = pending /\ pending' = FALSE
  /\ load' = IF pending THEN [NoLoad EXCEPT !.stage = "sent"] ELSE NoLoad
  /\ view' = IF pending THEN [v EXCEPT !.state = "loading"] ELSE v

\* A load by an event while one is in flight is taken for that one.
LoadShared ==
  IF busy THEN UNCHANGED readVars
  ELSE /\ busy' = TRUE /\ load' = [NoLoad EXCEPT !.stage = "sent"]
       /\ view' = [view EXCEPT !.state = "loading"] /\ UNCHANGED pending

\* load() by an event: in flight already, it is remembered.
Load ==
  IF busy THEN pending' = TRUE /\ UNCHANGED <<view, load, busy>>
  ELSE /\ busy' = TRUE /\ load' = [NoLoad EXCEPT !.stage = "sent"]
       /\ view' = [view EXCEPT !.state = "loading"] /\ UNCHANGED pending

SessionChanges ==
  /\ Event /\ session' \in {Owner, "other", NoOne} \ {session}
  /\ Load
  /\ UNCHANGED <<chainVars, through, account, action, toggle, flow, indexed>>

\* useKeywordMarketRefresh: every 15 seconds while the page is visible.
Refresh ==
  /\ view.state = "ready" /\ action = None /\ ~busy
  /\ busy' = TRUE /\ load' = [NoLoad EXCEPT !.stage = "sent", !.background = TRUE]
  /\ UNCHANGED <<chainVars, outside, view, pending, action, toggle, flow, indexed, left>>

LoadAnswered ==
  /\ load.stage = "sent"
  /\ \/ load' = [load EXCEPT !.stage = "answered", !.answer = Answer]
        /\ UNCHANGED left
     \/ Event /\ load' = [load EXCEPT !.stage = "failed"]
  /\ UNCHANGED <<chainVars, outside, view, busy, pending, action, toggle, flow, indexed>>

Shown(answer) ==
  [state |-> IF answer.session = Owner THEN "ready"
             ELSE IF answer.session = NoOne THEN "signed-out" ELSE "missing",
   session |-> answer.session, position |-> answer.position]

LoadEnds ==
  /\ load.stage \in {"answered", "failed"}
  /\ Release(IF load.stage = "answered" THEN Shown(load.answer)
             ELSE IF load.background THEN view ELSE [view EXCEPT !.state = "error"])
  /\ toggle' = IF toggle = "loading" THEN "loaded" ELSE toggle
  /\ UNCHANGED <<chainVars, outside, action, flow, indexed, left>>

-----------------------------------------------------------------------------
(* togglePause: its end enables the buttons, whatever else is going on. *)

Toggle ==
  /\ view.state = "ready" /\ toggle = "idle" /\ Event
  /\ action' = "pause" /\ toggle' = "sent"
  /\ UNCHANGED <<chainVars, outside, readVars, flow, indexed>>

Toggled ==
  /\ toggle = "sent"
  /\ Load /\ toggle' = IF busy THEN "loaded" ELSE "loading"
  /\ UNCHANGED <<chainVars, outside, action, flow, indexed, left>>

ToggleEnds ==
  /\ toggle = "loaded" /\ toggle' = "idle" /\ action' = None
  /\ UNCHANGED <<chainVars, outside, readVars, flow, indexed, left>>

-----------------------------------------------------------------------------
(* submitStake *)

Becomes(c, f) == flow' = [flow EXCEPT ![c] = f]
At(c, stage) == flow[c].stage = stage
Goes(c, stage) == Becomes(c, [flow[c] EXCEPT !.stage = stage])
Page == <<chainVars, outside, readVars>>

\* What the buttons ask for, an index that is SYNCED aside.
Offered(op) ==
  CASE op = "STAKE" -> view.position.stake # "leaving"
    [] op = "REQUEST_UNSTAKE" -> view.position.stake = "staked"
    [] op = "UNSTAKE" -> view.position.stake = "leaving" /\ matured

Submit(c) ==
  /\ At(c, "idle") /\ view.state = "ready" /\ action = None
  /\ \E op \in Operations :
       /\ Offered(op)
       /\ account = session
       /\ Becomes(c, [flow[c] EXCEPT !.stage = "preparing", !.op = op, !.staker = account,
                                     !.base = head])
  /\ left[1] > 0 /\ left' = [left EXCEPT ![1] = @ - 1]
  /\ action' = "stake" /\ indexed' = None
  /\ UNCHANGED <<Page, toggle>>

\* prepare looks at the indexed position.
AllowedByIndex(op) ==
  LET stake == Position(through).stake
  IN  CASE op = "STAKE" -> stake # "leaving"
        [] op = "REQUEST_UNSTAKE" -> stake = "staked"
        [] op = "UNSTAKE" -> stake = "leaving" /\ matured

\* What prepare asks of the position at the chain's latest block.
Allowed(op) ==
  CASE op = "STAKE" -> Latest.stake # "leaving"
    [] op = "REQUEST_UNSTAKE" -> Latest.stake = "staked"
    [] op = "UNSTAKE" -> Latest.stake = "leaving" /\ matured

\* The finally block: whoever ends enables the buttons.
Ended(c) ==
  /\ Becomes(c, [flow[c] EXCEPT !.stage = "done", !.plan = NoPlan, !.read = NoRead])
  /\ action' = None

Prepare(c) ==
  /\ flow[c].stage \in {"preparing", "repreparing"}
  /\ IF session = Owner /\ Allowed(flow[c].op)
     THEN \/ /\ Becomes(c, [flow[c] EXCEPT
                              !.stage = IF @ = "preparing" THEN "planned" ELSE "ready",
                              !.plan.approval = flow[c].op = "STAKE" /\ ~allowance,
                              !.tx = NoTx])
             /\ UNCHANGED <<action, left>>
          \/ Event /\ Ended(c)
     ELSE Ended(c) /\ UNCHANGED left
  /\ UNCHANGED <<Page, toggle, indexed>>

\* The page's own reading of the allowance decides.
Planned(c) ==
  /\ At(c, "planned")
  /\ \/ /\ flow[c].op # "STAKE" \/ allowance
        /\ Goes(c, "ready") /\ UNCHANGED action
     \/ /\ flow[c].op = "STAKE" /\ ~allowance
        /\ IF flow[c].plan.approval THEN Goes(c, "approving") /\ UNCHANGED action ELSE Ended(c)
  /\ UNCHANGED <<Page, toggle, indexed, left>>

\* sendPreparedTransaction: the connected account must be the one of the click
\* when the wallet is asked, and the wallet is asked for that account.
Send(c) ==
  /\ flow[c].stage \in {"approving", "ready"}
  /\ IF account = flow[c].staker
     THEN /\ Goes(c, IF At(c, "ready") THEN "signing" ELSE "signing-approval")
          /\ UNCHANGED action
     ELSE Ended(c)
  /\ UNCHANGED <<Page, toggle, indexed, left>>

\* The wallet is asked for whichever account it has selected.
SelectedSigner(c) == account

\* The account that signs (external: the wallet).
Signer(c) == flow[c].staker

Sign(c) ==
  /\ flow[c].stage \in {"signing", "signing-approval"}
  /\ \/ /\ Becomes(c, [flow[c] EXCEPT
              !.stage = IF @ = "signing" THEN "sent" ELSE "approval-sent",
              !.tx = [NoTx EXCEPT !.from = Signer(c),
                                  !.what = IF At(c, "signing") THEN "operation" ELSE "approve"]])
        /\ UNCHANGED action
     \/ Ended(c)
  /\ UNCHANGED <<Page, toggle, indexed, left>>

Confirmed(c) == flow[c].tx.block # 0 /\ flow[c].tx.block + Confirmations - 1 <= head

Receipt(c) ==
  /\ flow[c].stage \in {"sent", "approval-sent"}
  /\ \/ /\ Confirmed(c)
        /\ IF flow[c].tx.ok
           THEN Goes(c, IF At(c, "sent") THEN "indexing" ELSE "repreparing") /\ UNCHANGED action
           ELSE Ended(c)
        /\ UNCHANGED left
     \/ Event /\ Ended(c)
  /\ UNCHANGED <<Page, toggle, indexed>>

-----------------------------------------------------------------------------
(* waitForIndexedPosition *)

\* The campaigns are read before the cursor.
ShownFirst == <<"campaigns", "status", "projection">>

\* The committed cursor is read before the campaigns that are shown.
Order == <<"status", "campaigns", "projection">>

\* The loop reads while a load is in flight.
Whenever == TRUE

Free == ~busy

WaitBegins(c) ==
  /\ At(c, "indexing") /\ Free
  /\ busy' = TRUE
  /\ Becomes(c, [flow[c] EXCEPT !.stage = "reading", !.read = NoRead])
  /\ UNCHANGED <<chainVars, outside, view, load, pending, action, toggle, indexed, left>>

WaitReads(c) ==
  LET r == flow[c].read IN
  /\ At(c, "reading") /\ Order[r.next] # "projection"
  /\ Becomes(c, [flow[c] EXCEPT
       !.read = IF Order[r.next] = "status" THEN [r EXCEPT !.next = @ + 1, !.through = through]
                ELSE [r EXCEPT !.next = @ + 1, !.answer = Answer]])
  /\ UNCHANGED <<Page, action, toggle, indexed, left>>

\* transaction: the API knows the event of a wallet's own transaction, up to the
\* block it has indexed.
Projects(c) == session = Owner /\ flow[c].tx.block <= through

\* The answers agree on the transaction, all of them SYNCED: isAdTransactionIndexed.
IsIndexed(c) == Projects(c) /\ flow[c].read.through >= flow[c].tx.block

WaitEnds(c) ==
  LET answer == flow[c].read.answer
      mine == answer.session = Owner
      shown == IF mine THEN [Shown(answer) EXCEPT !.state = view.state] ELSE view
  IN
  /\ At(c, "reading") /\ Order[flow[c].read.next] = "projection"
  /\ \/ /\ Release(shown) /\ IsIndexed(c) /\ mine
        /\ Ended(c) /\ indexed' = c
     \/ /\ Release(shown)
        /\ Goes(c, "indexing") /\ UNCHANGED <<action, indexed>>
  /\ UNCHANGED <<chainVars, outside, toggle, left>>

\* A reading of the loop that failed; a sign-out ends the loop.
WaitFails(c) ==
  /\ At(c, "reading") /\ Release(view)
  /\ \/ Event /\ Goes(c, "indexing") /\ UNCHANGED action
     \/ session = NoOne /\ Ended(c) /\ UNCHANGED left
  /\ UNCHANGED <<chainVars, outside, toggle, indexed>>

\* 90 seconds
Deadline(c) ==
  /\ At(c, "indexing") /\ Ended(c)
  /\ UNCHANGED <<Page, toggle, indexed, left>>

Flow(c) ==
  \/ Submit(c) \/ Prepare(c) \/ Planned(c) \/ Send(c) \/ Sign(c) \/ Mine(c) \/ Receipt(c)
  \/ WaitBegins(c) \/ WaitReads(c) \/ WaitEnds(c) \/ WaitFails(c) \/ Deadline(c)

Next ==
  \/ EmptyBlock \/ Mature \/ Index \/ AccountChanges \/ SessionChanges
  \/ Refresh \/ LoadAnswered \/ LoadEnds \/ Toggle \/ Toggled \/ ToggleEnds
  \/ \E c \in Clicks : Flow(c)

Spec == Init /\ [][Next]_vars

-----------------------------------------------------------------------------
(* Properties. *)

\* The page that says "Position updated and indexed." shows the position the
\* transaction made, or a later one (waitForIndexedPosition, isAdTransactionIndexed).
IndexedIsShown ==
  indexed # None /\ view.state = "ready" => view.position.block >= flow[indexed].tx.block

\* When nothing is being read, the page shows what the wallet that is signed in
\* may see, or says that it could not load it: no AUTH_CHANGED is lost to a
\* reading that began before it (load, pendingLoad).
ViewIsOfSession == ~busy => view.session = session \/ view.state = "error"

\* Approvals and operations are signed by the wallet of the click, which was the
\* one signed in then, though the wallet may have selected another account before
\* it signs (sendPreparedTransaction).
SignedByWalletOfClick ==
  \A c \in Clicks : flow[c].tx.what # None => flow[c].tx.from = flow[c].staker

\* An operation reverts only when another transaction of the page landed after its
\* click: what prepare asks of the chain is what the contract asks (prepare).
RevertsOnlyAfterAnother ==
  \A c \in Clicks :
    flow[c].tx.what = "operation" /\ flow[c].tx.block # 0 /\ ~flow[c].tx.ok =>
      \E d \in Clicks \ {c} : flow[d].tx.ok /\ flow[d].tx.block > flow[c].base

StakeInv == IndexedIsShown /\ ViewIsOfSession /\ SignedByWalletOfClick /\ RevertsOnlyAfterAnother
=============================================================================
