------------------------------- MODULE AdminPage -------------------------------
(* The administrator's page (src/apps/web/hooks/use-admin-workspace.ts): its    *)
(* actions, each a chain of requests and wallet prompts that ends by reading    *)
(* the workspace again, the one flag that disables its buttons, the polling of  *)
(* pending proposals, and what it remembers of an acceptance of the ownership   *)
(* whose submission was not answered.  One mount of the page; the wallet and    *)
(* the session stay the same.  The server's part is what these requests need of *)
(* GoalManagers, MonthlyActions and SafePayouts.                                *)
EXTENDS Naturals, FiniteSets

CONSTANTS Slots,       \* actions running at once
          Plans,       \* what the user may try: [kinds, clicks], the kinds of action and a bound
          MaxFailures

SafeKinds == {"lifecycle", "managers", "payout", "acceptance"}
Readers == Slots \cup {"page", "poll"}

VARIABLES
  queue,       \* what the server has of each kind: none, submitting, waiting, exported or executed
  audit,       \* the last audit event of the acceptance: none, SUBMIT or UNCONFIRMED
  post,        \* submissions on the server, by slot
  job,         \* the actions
  reading,     \* load and the poll, by who waits for it
  state, listed, delivery,            \* state; the pending proposals shown; safeDelivery
  busy,                               \* transactionPending
  uncertain,                          \* ownershipSubmissionUncertain
  dialog,                             \* an open dialog: none, acceptance or replacement
  replacement,                        \* manualReplacement: the kind to retry
  unlocked,    \* an action cleared busy while another ran, a history variable
  crossed,     \* an older reading was shown after a newer one, likewise
  missed,      \* kinds whose submission was given up before the server made it, likewise
  misread,     \* the Safe's queue could not be read, likewise
  accepted,    \* an acceptance was signed, and one exported unasked again, likewise
  plan, clicks, failures

server == <<queue, audit, post>>
page == <<state, listed, delivery, busy, uncertain, dialog, replacement>>
history == <<unlocked, crossed, missed, misread, accepted>>
adminVars == <<server, job, reading, page, history, plan, clicks, failures>>

NoJob == [pc |-> "idle", kind |-> "none", delivery |-> "SERVICE", confirmed |-> FALSE, ok |-> FALSE]
NoPost == [pc |-> "none", kind |-> "none", ok |-> FALSE]
NoReading == [pc |-> "none", order |-> 0, late |-> FALSE, snap |-> {}]

AdminInit ==
  /\ queue = [k \in SafeKinds |-> "none"] /\ audit = "none"
  /\ post = [s \in Slots |-> NoPost] /\ job = [s \in Slots |-> NoJob]
  /\ reading = [r \in Readers |-> NoReading]
  /\ state = "ready" /\ listed = {} /\ delivery = "SERVICE" /\ busy = FALSE
  /\ uncertain = FALSE /\ dialog = "none" /\ replacement = "none"
  /\ unlocked = FALSE /\ crossed = FALSE /\ missed = {} /\ misread = FALSE /\ accepted = "none"
  /\ plan \in Plans /\ clicks = 0 /\ failures = 0

Failure == failures < MaxFailures /\ failures' = failures + 1
Idle(s) == job[s].pc = "idle" /\ post[s].pc \in {"none", "done"}

\* A payout disables the buttons from the preparation's answer on.
LocksLater(k) == k \in {"managers", "acceptance"}

\* The actions that disable the buttons from the click on; the others do so with
\* the wallet's prompt.
Locks(k) == k \in {"managers", "payout", "acceptance"}

-----------------------------------------------------------------------------
(* Readings. *)

\* load shows its spinner over the panels, and with them over their dialogs.
Spinner == /\ state' = "loading"
           /\ dialog' = IF dialog = "acceptance" THEN "none" ELSE dialog

Sent == [NoReading EXCEPT !.pc = "sent"]

\* "Check again", the refresh button and AUTH_CHANGED.
LoadPage ==
  /\ reading["page"].pc = "none" /\ reading' = [reading EXCEPT !["page"] = Sent]
  /\ Spinner
  /\ clicks < plan.clicks /\ clicks' = clicks + 1
  /\ UNCHANGED <<server, job, listed, delivery, busy, uncertain, replacement, history, failures>>

\* hasPendingSafeProposal: the timer runs while something pending is shown.
Polled == {"payout", "lifecycle", "acceptance"}
Poll ==
  /\ listed \cap Polled # {} /\ state # "closed"
  /\ reading["poll"].pc = "none" /\ reading' = [reading EXCEPT !["poll"] = Sent]
  /\ UNCHANGED <<server, job, page, history, clicks, failures>>

Pending == {k \in SafeKinds : queue[k] \in {"submitting", "waiting", "exported"}}

\* The lists; an acceptance that the service does not give is shown as none.
Read(r) ==
  /\ reading[r].pc = "sent"
  /\ \E snap \in {Pending, Pending \ {"acceptance"}} :
       /\ IF snap = Pending THEN UNCHANGED <<failures, misread>> ELSE Failure /\ misread' = TRUE
       /\ reading' = [reading EXCEPT ![r] =
            [pc |-> "read", late |-> FALSE, snap |-> snap,
             order |-> 1 + Cardinality({q \in Readers : reading[q].pc = "read"})]]
  /\ UNCHANGED <<server, job, page, unlocked, crossed, missed, accepted, clicks>>

\* An answer taken from r; those read before it are late from now on.
Taken(r) ==
  [q \in Readers |->
    IF q = r THEN NoReading
    ELSE IF reading[q].pc # "read" THEN reading[q]
    ELSE IF reading[r].pc # "read" \/ reading[q].order < reading[r].order THEN [reading[q] EXCEPT !.late = TRUE]
    ELSE [reading[q] EXCEPT !.order = @ - 1]]

\* The answer of load or of the poll is shown, whenever it arrives.
Show(r) ==
  /\ reading[r].pc = "read"
  /\ listed' = reading[r].snap /\ crossed' = (crossed \/ reading[r].late)
  /\ state' = IF r = "poll" THEN state ELSE "ready"
  /\ reading' = Taken(r)
  /\ UNCHANGED <<server, job, delivery, busy, uncertain, dialog, replacement,
                 unlocked, missed, misread, accepted, clicks, failures>>

\* load failed, or the session is not allowed any more; a failed poll is ignored.
ReadingFails(r) ==
  /\ reading[r].pc # "none" /\ Failure /\ reading' = Taken(r)
  /\ \/ r = "poll" /\ UNCHANGED <<state, listed>>
     \/ r # "poll" /\ state' = "error" /\ UNCHANGED listed
     \/ r # "poll" /\ state' = "closed" /\ listed' = {}
  /\ dialog' = IF r # "poll" /\ dialog = "acceptance" THEN "none" ELSE dialog
  /\ UNCHANGED <<server, job, delivery, busy, uncertain, replacement, history, clicks>>

-----------------------------------------------------------------------------
(* An action of the page: its end. *)

\* The finally block, whoever else is running; a retry closes its dialog.
Ends(s) ==
  /\ job' = [job EXCEPT ![s] = NoJob]
  /\ busy' = FALSE
  /\ unlocked' = (unlocked \/ \E q \in Slots \ {s} : job[q].pc # "idle")
  /\ IF job[s].confirmed THEN dialog' = "none" /\ replacement' = "none"
     ELSE /\ dialog' = IF dialog = "acceptance" /\ job[s].kind = "acceptance" THEN "none" ELSE dialog
          /\ UNCHANGED replacement

\* A transaction that was not sent, a question and a notice end without a reading; ...
EndsAtOnce(s) == Ends(s) /\ UNCHANGED <<state, listed, reading>>

\* ... all other actions end by reading the workspace.
Reloads(s) ==
  /\ job' = [job EXCEPT ![s].pc = "loading"]
  /\ reading' = [reading EXCEPT ![s] = Sent]
  /\ IF job[s].kind = "managers" THEN UNCHANGED <<state, dialog>> ELSE Spinner
  /\ UNCHANGED <<listed, busy, replacement, unlocked>>

\* An acceptance the server has taken is shown whatever the reading gave.
JobEnds(s) ==
  /\ job[s].pc = "loading" /\ reading[s].pc = "none"
  /\ Ends(s)
  /\ listed' = IF job[s].kind = "acceptance" /\ job[s].ok /\ state # "closed"
               THEN listed \cup {"acceptance"} ELSE listed
  /\ UNCHANGED <<server, reading, state, delivery, uncertain,
                 crossed, missed, misread, accepted, clicks, failures>>

-----------------------------------------------------------------------------
(* An action of the page: its steps. *)

Clickable == state = "ready" /\ ~busy /\ dialog = "none"
Click == clicks < plan.clicks /\ clicks' = clicks + 1

SelectDelivery ==
  /\ state = "ready" /\ dialog = "none" /\ Click
  /\ delivery' = IF delivery = "SERVICE" THEN "MANUAL" ELSE "SERVICE"
  /\ UNCHANGED <<server, job, reading, state, listed, busy, uncertain, dialog, replacement,
                 history, failures>>

Begins(s, k, confirmed) ==
  /\ Idle(s)
  /\ job' = [job EXCEPT ![s] = [pc |-> "preparing", kind |-> k, delivery |-> delivery,
                                confirmed |-> confirmed, ok |-> FALSE]]
  /\ post' = [post EXCEPT ![s] = NoPost]
  /\ busy' = (busy \/ Locks(k))

Start(s, k) ==
  /\ Clickable /\ Click /\ k # "acceptance"
  /\ Begins(s, k, FALSE)
  /\ UNCHANGED <<queue, audit, reading, state, listed, delivery, uncertain, dialog, replacement,
                 history, failures>>

\* The acceptance is offered while the Safe is not seen to have one.
AskAcceptance ==
  /\ Clickable /\ Click
  /\ "acceptance" \in plan.kinds \ listed /\ queue["acceptance"] # "executed"
  /\ dialog' = "acceptance"
  /\ UNCHANGED <<server, job, reading, state, listed, delivery, busy, uncertain, replacement,
                 history, failures>>

\* The question is never asked.
NeverAsks == FALSE

AsksFirst == delivery = "MANUAL" /\ uncertain

\* proposeOwnershipAcceptance: after an unanswered submission a manual export asks first.
ConfirmAcceptance(s) ==
  /\ dialog = "acceptance" /\ \A q \in Slots : job[q].kind # "acceptance"
  /\ IF AsksFirst
     THEN /\ replacement' = "acceptance" /\ dialog' = "replacement"
          /\ UNCHANGED <<job, post, busy>>
     ELSE Begins(s, "acceptance", FALSE) /\ UNCHANGED <<dialog, replacement>>
  /\ UNCHANGED <<queue, audit, reading, state, listed, delivery, uncertain, history, clicks, failures>>

\* confirmManualReplacement: the user has looked into the Safe's queue.
ConfirmReplacement(s) ==
  /\ dialog = "replacement" /\ \A q \in Slots : ~job[q].confirmed
  /\ Begins(s, replacement, TRUE)
  /\ UNCHANGED <<queue, audit, reading, state, listed, delivery, uncertain, dialog, replacement,
                 history, clicks, failures>>

CloseDialog ==
  /\ dialog # "none"
  /\ \A q \in Slots : IF dialog = "replacement" THEN ~job[q].confirmed ELSE job[q].kind # "acceptance"
  /\ dialog' = "none" /\ replacement' = "none"
  /\ UNCHANGED <<server, job, reading, state, listed, delivery, busy, uncertain, history,
                 clicks, failures>>

\* The server asks for a confirmation, or refuses a duplicate.
MustConfirm(s) ==
  LET k == job[s].kind IN
  /\ job[s].delivery = "MANUAL" /\ ~job[s].confirmed
  /\ IF k = "acceptance" THEN audit = "UNCONFIRMED" ELSE queue[k] = "submitting"
Refused(s) ==
  LET k == job[s].kind IN
  CASE k = "acceptance" -> \/ queue[k] = "executed"
                           \/ job[s].delivery = "MANUAL" /\ audit = "SUBMIT"
    [] k = "managers" -> \/ queue[k] = "waiting"
                         \/ queue[k] = "submitting" /\ job[s].delivery = "SERVICE"
    [] OTHER -> queue[k] = "waiting" \/ (queue[k] = "exported" /\ job[s].delivery = "SERVICE")

\* A proposal of the managers that is under way is an answer (PENDING), no error.
Answered(s) == job[s].kind = "managers" /\ job[s].delivery = "SERVICE"

\* A request for the managers that fails only leaves a notice; the other actions
\* read the workspace again.
AfterError(s) == IF job[s].kind = "managers" THEN EndsAtOnce(s) ELSE Reloads(s)

\* The preparation is answered with the transaction to send.
PrepareDirect(s) ==
  /\ job[s].pc = "preparing" /\ job[s].kind \in {"direct", "lifecycle", "managers"}
  /\ job' = [job EXCEPT ![s].pc = "sending"] /\ busy' = TRUE
  /\ UNCHANGED <<server, reading, state, listed, delivery, uncertain, dialog, replacement, history,
                 clicks, failures>>

\* ... with an export for the Safe, which leaves no row for the managers, ...
PrepareManual(s) ==
  LET k == job[s].kind IN
  /\ job[s].pc = "preparing" /\ k # "direct" /\ job[s].delivery = "MANUAL"
  /\ ~MustConfirm(s) /\ ~Refused(s)
  /\ IF k = "acceptance"
     THEN /\ uncertain' = FALSE /\ audit' = "none"
          /\ accepted' = IF job[s].confirmed \/ accepted = "none" THEN "none" ELSE "again"
          /\ EndsAtOnce(s) /\ UNCHANGED queue
     ELSE /\ queue' = [queue EXCEPT ![k] = IF k = "managers" THEN "none" ELSE "exported"]
          /\ Reloads(s) /\ UNCHANGED <<uncertain, audit, accepted>>
  /\ UNCHANGED <<post, delivery, crossed, missed, misread, clicks, failures>>

\* ... or with what to sign; a payout is reserved from now on.
PrepareService(s) ==
  LET k == job[s].kind IN
  /\ job[s].pc = "preparing" /\ k # "direct" /\ job[s].delivery = "SERVICE" /\ ~Refused(s)
  /\ IF k = "acceptance" /\ queue[k] = "waiting"
     THEN /\ Ends(s) /\ listed' = listed \cup {k} /\ audit' = "SUBMIT"
          /\ UNCHANGED <<queue, reading, state>>
     ELSE /\ job' = [job EXCEPT ![s].pc = "signing"] /\ busy' = TRUE
          /\ queue' = IF k = "payout" THEN [queue EXCEPT ![k] = "submitting"] ELSE queue
          /\ UNCHANGED <<audit, reading, state, listed, dialog, replacement, unlocked>>
  /\ UNCHANGED <<post, delivery, uncertain, crossed, missed, misread, accepted, clicks, failures>>

\* The question of requestManualReplacement, or the error.
PrepareRefused(s) ==
  /\ job[s].pc = "preparing" /\ job[s].kind # "direct"
  /\ \/ /\ MustConfirm(s)
        /\ job' = [job EXCEPT ![s] = NoJob] /\ busy' = FALSE
        /\ unlocked' = (unlocked \/ \E q \in Slots \ {s} : job[q].pc # "idle")
        /\ replacement' = job[s].kind /\ dialog' = "replacement"
        /\ UNCHANGED <<state, listed, reading>>
     \/ /\ ~MustConfirm(s) /\ Refused(s)
        /\ IF Answered(s) THEN Reloads(s) ELSE AfterError(s)
  /\ UNCHANGED <<server, delivery, uncertain, crossed, missed, misread, accepted, clicks, failures>>

\* The request fails; requestAndExecute neither reads nor clears anything then.
PrepareFails(s) ==
  /\ job[s].pc = "preparing" /\ Failure
  /\ IF job[s].kind = "direct"
     THEN job' = [job EXCEPT ![s] = NoJob]
          /\ UNCHANGED <<reading, state, listed, dialog, busy, replacement, unlocked>>
     ELSE AfterError(s)
  /\ queue' \in {queue, IF job[s].kind = "payout" /\ ~Refused(s) /\ job[s].delivery = "SERVICE"
                        THEN [queue EXCEPT !["payout"] = "submitting"] ELSE queue}
  /\ UNCHANGED <<audit, post, delivery, uncertain, crossed, missed, misread, accepted, clicks>>

\* execute: the transaction is sent and mined, or not.
SendTransaction(s) ==
  /\ job[s].pc = "sending"
  /\ \/ Reloads(s)
     \/ job[s].kind # "managers" /\ EndsAtOnce(s)
  /\ UNCHANGED <<server, delivery, uncertain, crossed, missed, misread, accepted, clicks, failures>>

\* The wallet signs the Safe's transaction, or refuses.
SignSafeProposal(s) ==
  LET k == job[s].kind IN
  /\ job[s].pc = "signing"
  /\ \/ /\ job' = [job EXCEPT ![s].pc = "submitting"]
        /\ post' = [post EXCEPT ![s] = [pc |-> "arrived", kind |-> k, ok |-> FALSE]]
        /\ accepted' = IF k = "acceptance" /\ accepted = "none" THEN "signed" ELSE accepted
        /\ UNCHANGED <<reading, state, listed, dialog, busy, replacement, unlocked>>
     \/ Reloads(s) /\ UNCHANGED <<post, accepted>>
  /\ UNCHANGED <<queue, audit, delivery, uncertain, crossed, missed, misread, clicks, failures>>

\* The server hands it to the Safe's service, which may take it and not answer.
Propose(s) ==
  LET k == post[s].kind IN
  /\ post[s].pc = "arrived"
  /\ \E taken, answered \in BOOLEAN :
       /\ taken \/ ~answered
       /\ IF answered THEN UNCHANGED failures ELSE Failure
       /\ post' = [post EXCEPT ![s] = [pc |-> IF k = "acceptance" THEN "proposed" ELSE "done",
                                      kind |-> k, ok |-> answered]]
       /\ queue' = [queue EXCEPT ![k] =
            IF k # "acceptance" THEN IF answered THEN "waiting" ELSE "submitting"
            ELSE IF taken /\ @ # "executed" THEN "waiting" ELSE @]
  /\ UNCHANGED <<audit, job, reading, page, history, clicks>>

\* ownershipAudit, on a best effort.
Audit(s) ==
  /\ post[s].pc = "proposed"
  /\ post' = [post EXCEPT ![s].pc = "done"]
  /\ \/ audit' = (IF post[s].ok THEN "SUBMIT" ELSE "UNCONFIRMED") /\ UNCHANGED failures
     \/ Failure /\ UNCHANGED audit
  /\ UNCHANGED <<queue, job, reading, page, history, clicks>>

\* The submission is answered, ...
Submitted(s) ==
  /\ job[s].pc = "submitting" /\ post[s].pc = "done" /\ post[s].ok
  /\ uncertain' = (uncertain /\ job[s].kind # "acceptance")
  /\ reading' = [reading EXCEPT ![s] = Sent]
  /\ job' = [job EXCEPT ![s].pc = "loading", ![s].ok = TRUE]
  /\ IF job[s].kind = "managers" THEN UNCHANGED <<state, dialog>> ELSE Spinner
  /\ UNCHANGED <<server, listed, delivery, busy, replacement, history, clicks, failures>>

\* ... with an error, or not at all.
SubmissionFails(s) ==
  /\ job[s].pc = "submitting"
  /\ IF post[s].pc = "done" /\ ~post[s].ok THEN UNCHANGED failures ELSE Failure
  /\ uncertain' = (uncertain \/ job[s].kind = "acceptance")
  /\ missed' = IF post[s].pc = "arrived" THEN missed \cup {job[s].kind} ELSE missed
  /\ Reloads(s)
  /\ UNCHANGED <<server, delivery, crossed, misread, accepted, clicks>>

\* The Safe's owners execute it (external).
Execute(k) ==
  /\ k \in Pending
  /\ queue' = [queue EXCEPT ![k] = IF k = "acceptance" THEN "executed" ELSE "none"]
  /\ UNCHANGED <<audit, post, job, reading, page, history, clicks, failures>>

AdminNext == UNCHANGED plan /\ (
  \/ LoadPage \/ Poll \/ SelectDelivery \/ AskAcceptance \/ CloseDialog
  \/ \E r \in Readers : Read(r) \/ Show(r) \/ ReadingFails(r)
  \/ \E k \in SafeKinds : Execute(k)
  \/ \E s \in Slots :
       \/ \E k \in plan.kinds : Start(s, k)
       \/ ConfirmAcceptance(s) \/ ConfirmReplacement(s)
       \/ PrepareDirect(s) \/ PrepareManual(s) \/ PrepareService(s) \/ PrepareRefused(s)
       \/ PrepareFails(s) \/ SendTransaction(s) \/ SignSafeProposal(s)
       \/ Propose(s) \/ Audit(s) \/ Submitted(s) \/ SubmissionFails(s) \/ JobEnds(s))

AdminSpec == AdminInit /\ [][AdminNext]_adminVars

-----------------------------------------------------------------------------
(* Properties. *)

\* Two actions that disable the buttons from their click on never run together,
\* unless an action that does so later cleared the flag (transactionPending).
OneAtATime ==
  \A s, q \in Slots :
    s # q /\ {job[s].kind, job[q].kind} \subseteq {"managers", "payout", "acceptance"} => unlocked

\* After an acceptance was signed no other one is exported without asking while
\* that one reaches the Safe, whichever single message is lost: the page's flag,
\* the list it shows and the server's audit trail stand in for each other
\* (proposeOwnershipAcceptance, "Confirm the proposal is absent from Safe").
AcceptanceIsNotRepeated ==
  accepted = "again" /\ queue["acceptance"] \in {"waiting", "executed"} => unlocked \/ failures > 1

\* At rest the page polls for what the server still has pending, whichever of its
\* actions failed: it is shown, so the timer runs (load, hasPendingSafeProposal).
PendingIsPolled ==
  /\ state = "ready" /\ ~crossed /\ ~misread
  /\ \A s \in Slots : Idle(s)
  /\ \A r \in Readers : reading[r].pc = "none"
  => (Polled \cap Pending) \ missed \subseteq listed

AdminInv == OneAtATime /\ AcceptanceIsNotRepeated /\ PendingIsPolled
=============================================================================
