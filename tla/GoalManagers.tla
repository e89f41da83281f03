----------------------------- MODULE GoalManagers -----------------------------
(***************************************************************************)
(* Who may create goals: the goal managers of the escrow contract, the     *)
(* policy that says who they should be, and the handover of the contract   *)
(* to the Safe.                                                            *)
(*                                                                         *)
(* The worker's policy pass and every admin request reconcile the policy   *)
(* (goalManagerAssignment rows) with the Safe's owners, statement by       *)
(* statement and without a common transaction.  A request then prepares    *)
(* the calls that bring the contract in line: sent by the direct owner     *)
(* before the handover, by a Safe proposal or a manual export after it.    *)
(* A second worker pass follows the proposals.  The escrow indexer         *)
(* projects the contract's events into chainAuthority rows.                *)
(*                                                                         *)
(* Addresses are members of Addr.  The hash of a desired state stands for  *)
(* the set itself.  A Safe nonce n is spent by spent[n + 1].               *)
(***************************************************************************)
EXTENDS Integers, Sequences, FiniteSets
LOCAL INSTANCE SequencesExt

CONSTANTS
    Addr,            \* owners and managers
    InitialOwners,   \* owners of the Safe
    LegacyManagers,  \* enabled on the contract before the policy was tracked
    Intents,         \* Safe intents that can be prepared
    MaxEvents,       \* bound: events of the contract
    MaxOwnerChanges, \* bound: changes of the Safe's owners
    MaxRequests,     \* bound: requests of administrators
    MaxSubmits,      \* bound: submissions of signed transactions
    MaxNonce         \* bound: Safe transactions executed

VARIABLES
    owners,    \* owners of the Safe, on chain
    contract,  \* the escrow contract: managers, owner, pendingOwner
    log,       \* its authority events
    projected, \* chainAuthority: managers, owner; and the events indexed
    assign,    \* goalManagerAssignment, by address and source
    proc,      \* the worker's policy pass and an admin request
    calls,     \* calls handed to the direct owner or exported for the Safe
    intent,    \* SafeGoalManagerIntent
    proposal,  \* SafeGoalManagerProposal
    submit,    \* submitSafeGoalManagerIntent around safe.propose
    pass,      \* the worker's proposal pass
    queue,     \* proposals the Transaction Service holds
    spent,     \* Safe transactions executed, by nonce
    accept,    \* the ownership acceptance in the Safe and its audit trail
    choice,    \* ghost: the last explicit choice of an administrator
    everOwner, \* ghost: addresses that ever owned the Safe
    bound      \* changes of owners and requests so far

gmVars == <<owners, contract, log, projected, assign, proc, calls, intent, proposal,
            submit, pass, queue, spent, accept, choice, everOwner, bound>>

Processes == {"worker", "api"}
PendingManagers == {"SUBMITTING", "AWAITING"}  \* AWAITING: also READY_TO_EXECUTE
Rest == [pc |-> "idle"]
Change(a, on) == [address |-> a, enabled |-> on]

GoalManagersInit ==
    /\ owners = InitialOwners
    /\ contract \in [managers : {LegacyManagers}, owner : {"direct", "safe"}, pending : {FALSE}]
    /\ log = <<[type |-> "owner", who |-> contract.owner]>>
              \o [i \in 1..Cardinality(LegacyManagers) |->
                     [type |-> "manager", who |-> SetToSeq(LegacyManagers)[i], on |-> TRUE]]
    /\ projected = [managers |-> {}, owner |-> "none", cursor |-> 0]
    /\ assign = [a \in Addr |-> [SAFE_OWNER |-> "none", MANUAL |-> "none"]]
    /\ proc = [p \in Processes |-> Rest]
    /\ calls = {}
    /\ intent = [i \in Intents |-> Rest]
    /\ proposal = [i \in Intents |-> [status |-> "none", key |-> FALSE, reason |-> "none"]]
    /\ submit = [i \in Intents |-> "idle"]
    /\ pass = Rest
    /\ queue = {}
    /\ spent = <<>>
    /\ accept = [st |-> "none", audit |-> "none", nonce |-> 0]
    /\ choice = [a \in Addr |-> "none"]
    /\ everOwner = InitialOwners
    /\ bound = [owners |-> 0, requests |-> 0, submits |-> 0]

-----------------------------------------------------------------------------
(* The escrow contract and its projection.                                  *)

(* setGoalManager: an event for each change that is really one.             *)
ManagersAfter(changes) ==
    (contract.managers \union {c.address : c \in {d \in changes : d.enabled}})
        \ {c.address : c \in {d \in changes : ~d.enabled}}

EventsOf(changes) ==
    LET real == SetToSeq({c \in changes : (c.address \in contract.managers) # c.enabled})
    IN  [i \in DOMAIN real |->
            [type |-> "manager", who |-> real[i].address, on |-> real[i].enabled]]

ApplyCalls(changes) ==
    /\ Len(log) + Cardinality(changes) <= MaxEvents
    /\ contract' = [contract EXCEPT !.managers = ManagersAfter(changes)]
    /\ log' = log \o EventsOf(changes)

\* Fault: the announcement of a new owner already moves the authority.
AnnouncedOwner(rows, event) ==
    CASE event.type = "manager" /\ event.on -> [rows EXCEPT !.managers = @ \union {event.who}]
      [] event.type = "manager" /\ ~event.on -> [rows EXCEPT !.managers = @ \ {event.who}]
      [] event.type \in {"owner", "started"} -> [rows EXCEPT !.owner = event.who]

(* applyAuthorityChange: one OWNER row, replaced only when the transfer is  *)
(* accepted; a manager's row is upserted or deleted.                        *)
ApplyAuthorityChange(rows, event) ==
    CASE event.type = "manager" /\ event.on -> [rows EXCEPT !.managers = @ \union {event.who}]
      [] event.type = "manager" /\ ~event.on -> [rows EXCEPT !.managers = @ \ {event.who}]
      [] event.type = "owner" -> [rows EXCEPT !.owner = event.who]
      [] event.type = "started" -> rows

IndexEvent ==
    /\ projected.cursor < Len(log)
    /\ LET event == log[projected.cursor + 1]
       IN  projected' = [ApplyAuthorityChange(projected, event) EXCEPT !.cursor = @ + 1]
    /\ UNCHANGED <<owners, contract, log, assign, proc, calls, intent, proposal, submit,
                   pass, queue, spent, accept, choice, everOwner, bound>>

(* The owners of the Safe change, by a Safe transaction of their own.       *)
ChangeOwners(a) ==
    /\ bound.owners < MaxOwnerChanges
    /\ Len(spent) < MaxNonce
    /\ owners' = IF a \in owners THEN owners \ {a} ELSE owners \union {a}
    /\ owners' # {}
    /\ everOwner' = everOwner \union owners'
    /\ spent' = Append(spent, "outside")
    /\ bound' = [bound EXCEPT !.owners = @ + 1]
    /\ UNCHANGED <<contract, log, projected, assign, proc, calls, intent, proposal,
                   submit, pass, queue, accept, choice>>

-----------------------------------------------------------------------------
(* The policy.                                                              *)

Classified(rows, a) == \E source \in {"SAFE_OWNER", "MANUAL"} : rows[a][source] # "none"

\* Fault: an unclassified manager is not part of the desired state.
DesiredWithoutLegacy(rows, safeOwners) ==
    safeOwners \union {a \in Addr : "on" \in {rows[a].SAFE_OWNER, rows[a].MANUAL}}

(* desiredGoalManagerSet.                                                   *)
DesiredBy(rows, safeOwners) ==
    safeOwners
    \union {a \in Addr : "on" \in {rows[a].SAFE_OWNER, rows[a].MANUAL}}
    \union {a \in projected.managers : ~Classified(rows, a)}

Desired(safeOwners) == DesiredBy(assign, safeOwners)

(* The differences between the projection and the desired state.            *)
SyncChanges(desired) ==
    {Change(a, TRUE) : a \in desired \ projected.managers}
    \union {Change(a, FALSE) : a \in projected.managers \ desired}

(* goalManagers: the list an administrator sees.                            *)
InSync == SyncChanges(Desired(owners)) = {}

(* A reconciliation starts: Safe owners, then the rows it classifies.  A    *)
(* request goes on to prepare a sync, or to pin or unpin one address.       *)
ReadPolicy(p, then) ==
    /\ proc[p].pc = "idle"
    /\ p = "worker" <=> then.op = "none"
    /\ p = "api" => bound.requests < MaxRequests
    /\ proc' = [proc EXCEPT ![p] =
           [pc |-> "read", owners |-> owners, then |-> then,
            legacy |-> {a \in projected.managers : ~Classified(assign, a)} \ owners]]
    /\ bound' = [bound EXCEPT !.requests = IF p = "api" THEN @ + 1 ELSE @]
    /\ UNCHANGED <<owners, contract, log, projected, assign, calls, intent, proposal,
                   submit, pass, queue, spent, accept, choice, everOwner>>

ReconcileOwners(p) ==
    /\ proc[p].pc = "read"
    /\ assign' = [a \in Addr |-> [assign[a] EXCEPT !.SAFE_OWNER =
                     IF a \in proc[p].owners THEN "on"
                     ELSE IF @ = "on" THEN "off" ELSE @]]
    /\ proc' = [proc EXCEPT ![p].pc = "owners"]
    /\ UNCHANGED <<owners, contract, log, projected, calls, intent, proposal, submit,
                   pass, queue, spent, accept, choice, everOwner, bound>>

\* Fault: the upsert of a legacy manager enables an existing row.
OverwrittenLegacy(p) ==
    [a \in Addr |-> IF a \in proc[p].legacy
                    THEN [assign[a] EXCEPT !.MANUAL = "on"] ELSE assign[a]]

(* The upsert of a legacy manager leaves a row that appeared meanwhile.     *)
PreservedLegacy(p) ==
    [a \in Addr |-> IF a \in proc[p].legacy /\ assign[a].MANUAL = "none"
                    THEN [assign[a] EXCEPT !.MANUAL = "on"] ELSE assign[a]]

PreserveLegacy(p) ==
    /\ proc[p].pc = "owners"
    /\ assign' = PreservedLegacy(p)
    /\ proc' = [proc EXCEPT ![p] =
                   IF @.then.op = "none" THEN Rest
                   ELSE [proc[p] EXCEPT !.pc = proc[p].then.op]]
    /\ UNCHANGED <<owners, contract, log, projected, calls, intent, proposal, submit,
                   pass, queue, spent, accept, choice, everOwner, bound>>

-----------------------------------------------------------------------------
(* Preparing the calls.                                                     *)

(* prepareSafeGoalManagerSync: every difference becomes a call.             *)
ReadSync ==
    /\ proc["api"].pc = "sync"
    /\ LET desired == Desired(proc["api"].owners)
       IN  proc' = [proc EXCEPT !["api"] =
               [pc |-> "prepare", desired |-> desired, changes |-> SyncChanges(desired)]]
    /\ UNCHANGED <<owners, contract, log, projected, assign, calls, intent, proposal,
                   submit, pass, queue, spent, accept, choice, everOwner, bound>>

(* updateGoalManager: the choice is stored, pending proposals of another    *)
(* desired state are flagged, and at most the one address is changed.       *)
UpdateGoalManager ==
    LET request == proc["api"]
        a == request.then.address
        wanted == IF request.pc = "pin" THEN "on" ELSE "off"
        rows == [assign EXCEPT ![a].MANUAL = wanted]
        desired == DesiredBy(rows, request.owners)
    IN  /\ request.pc \in {"pin", "unpin"}
        /\ assign' = rows
        /\ choice' = [choice EXCEPT ![a] = wanted]
        /\ proc' = [proc EXCEPT !["api"] =
               [pc |-> "prepare", desired |-> desired,
                changes |-> {c \in SyncChanges(desired) : c.address = a}]]
        /\ proposal' = [i \in Intents |->
               IF proposal[i].status \in PendingManagers /\ intent[i].desired # desired
               THEN [proposal[i] EXCEPT !.reason = "policy"] ELSE proposal[i]]
        /\ UNCHANGED <<owners, contract, log, projected, calls, intent, submit, pass, queue,
                       spent, accept, everOwner, bound>>

ActiveProposals == {i \in Intents : proposal[i].status \in PendingManagers}

(* assertManualReplacementAllowed.                                          *)
ReplacementAllowed(i, confirmedAbsent) ==
    /\ proposal[i].status = "SUBMITTING"
    /\ proposal[i].reason # "none"
    /\ confirmedAbsent

Superseded(i) == [proposal EXCEPT ![i].status = "STALE", ![i].key = FALSE, ![i].reason = "replaced"]

Queued == {i \in queue : intent[i].nonce >= Len(spent)}

(* getNextNonce: behind the last transaction queued or executed.            *)
NextManagerNonce ==
    LET behind == {intent[i].nonce + 1 : i \in Queued} \union {Len(spent)}
    IN  CHOOSE n \in behind : \A m \in behind : m <= n

(* prepareGoalManagerChanges.                                               *)
NothingToPrepare ==
    /\ proc["api"].pc = "prepare"
    /\ \/ proc["api"].changes = {}
       \/ contract.owner = "safe" /\ ActiveProposals # {}
    /\ proc' = [proc EXCEPT !["api"] = Rest]
    /\ UNCHANGED <<owners, contract, log, projected, assign, calls, intent, proposal,
                   submit, pass, queue, spent, accept, choice, everOwner, bound>>

PrepareDirect ==
    /\ proc["api"].pc = "prepare"
    /\ proc["api"].changes # {}
    /\ contract.owner = "direct"
    /\ calls' = calls \union {[by |-> "direct", changes |-> proc["api"].changes]}
    /\ proc' = [proc EXCEPT !["api"] = Rest]
    /\ UNCHANGED <<owners, contract, log, projected, assign, intent, proposal, submit, pass,
                   queue, spent, accept, choice, everOwner, bound>>

PrepareManual(confirmedAbsent) ==
    /\ proc["api"].pc = "prepare"
    /\ proc["api"].changes # {}
    /\ contract.owner = "safe"
    /\ \A i \in ActiveProposals : ReplacementAllowed(i, confirmedAbsent)
    /\ \/ ActiveProposals = {} /\ UNCHANGED proposal
       \/ \E i \in ActiveProposals : proposal' = Superseded(i)
    /\ calls' = calls \union {[by |-> "safe", changes |-> proc["api"].changes]}
    /\ proc' = [proc EXCEPT !["api"] = Rest]
    /\ UNCHANGED <<owners, contract, log, projected, assign, intent, submit, pass, queue,
                   spent, accept, choice, everOwner, bound>>

PrepareIntent(i) ==
    /\ proc["api"].pc = "prepare"
    /\ proc["api"].changes # {}
    /\ contract.owner = "safe"
    /\ ActiveProposals = {}
    /\ intent[i] = Rest
    /\ intent' = [intent EXCEPT ![i] =
           [pc |-> "prepared", desired |-> proc["api"].desired,
            changes |-> proc["api"].changes, nonce |-> NextManagerNonce]]
    /\ proc' = [proc EXCEPT !["api"] = Rest]
    /\ UNCHANGED <<owners, contract, log, projected, assign, calls, proposal, submit, pass,
                   queue, spent, accept, choice, everOwner, bound>>

(* The direct owner, or the Safe's owners by hand, send what was prepared.  *)
SendCalls(c) ==
    /\ c \in calls
    /\ contract.owner = c.by
    /\ calls' = calls \ {c}
    /\ ApplyCalls(c.changes)
    /\ \/ c.by = "direct" /\ UNCHANGED spent
       \/ c.by = "safe" /\ Len(spent) < MaxNonce /\ spent' = Append(spent, "outside")
    /\ UNCHANGED <<owners, projected, assign, proc, intent, proposal, submit, pass, queue,
                   accept, choice, everOwner, bound>>

-----------------------------------------------------------------------------
(* submitSafeGoalManagerIntent, for a signed Safe transaction.              *)

IntentStillApplies(i) ==
    /\ contract.owner = "safe"
    /\ intent[i].desired = Desired(owners)
    /\ intent[i].changes = SyncChanges(Desired(owners))

CheckSubmit(i) ==
    /\ submit[i] = "idle"
    /\ bound.submits < MaxSubmits
    /\ intent[i] # Rest
    /\ \/ proposal[i].status = "none" /\ intent[i].nonce = NextManagerNonce
       \/ proposal[i].status = "SUBMITTING"
    /\ IntentStillApplies(i)
    /\ submit' = [submit EXCEPT ![i] = "checked"]
    /\ bound' = [bound EXCEPT !.submits = @ + 1]
    /\ UNCHANGED <<owners, contract, log, projected, assign, proc, calls, intent, proposal,
                   pass, queue, spent, accept, choice, everOwner>>

(* The claim: activeKey admits one live proposal for the Safe.              *)
ClaimSubmit(i) ==
    /\ submit[i] = "checked"
    /\ \/ /\ proposal[i].status = "none"
          /\ \A j \in Intents : ~proposal[j].key
          /\ proposal' = [proposal EXCEPT ![i] = [status |-> "SUBMITTING", key |-> TRUE, reason |-> "none"]]
          /\ submit' = [submit EXCEPT ![i] = "proposing"]
       \/ /\ proposal[i].status = "SUBMITTING"
          /\ submit' = [submit EXCEPT ![i] = "proposing"]
          /\ UNCHANGED proposal
       \/ /\ proposal[i].status # "SUBMITTING"
          /\ proposal[i].status = "none" => \E j \in Intents : proposal[j].key
          /\ submit' = [submit EXCEPT ![i] = "idle"]
          /\ UNCHANGED proposal
    /\ UNCHANGED <<owners, contract, log, projected, assign, proc, calls, intent, pass,
                   queue, spent, accept, choice, everOwner, bound>>

(* safe.propose: accepted, or refused, or the answer is lost.               *)
ProposeManagers(i) ==
    /\ submit[i] = "proposing"
    /\ \/ /\ intent[i].nonce >= Len(spent)
          /\ queue' = queue \union {i}
          /\ submit' \in {[submit EXCEPT ![i] = o] : o \in {"accepted", "failed"}}
       \/ /\ i \in queue
          /\ submit' = [submit EXCEPT ![i] = "accepted"]
          /\ UNCHANGED queue
       \/ /\ submit' = [submit EXCEPT ![i] = "failed"]
          /\ UNCHANGED queue
    /\ UNCHANGED <<owners, contract, log, projected, assign, proc, calls, intent, proposal,
                   pass, spent, accept, choice, everOwner, bound>>

\* Fault: the outcome is written whatever became of the proposal meanwhile.
OutcomeWithoutClaim(i) ==
    IF submit[i] = "accepted"
    THEN [proposal EXCEPT ![i].status = "AWAITING", ![i].reason = "none"]
    ELSE [proposal EXCEPT ![i].reason = "unconfirmed"]

SubmitOutcome(i) ==
    IF proposal[i].status # "SUBMITTING" THEN proposal
    ELSE IF submit[i] = "accepted"
    THEN [proposal EXCEPT ![i].status = "AWAITING", ![i].reason = "none"]
    ELSE [proposal EXCEPT ![i].reason = "unconfirmed"]

RecordSubmit(i) ==
    /\ submit[i] \in {"accepted", "failed"}
    /\ proposal' = SubmitOutcome(i)
    /\ submit' = [submit EXCEPT ![i] = "idle"]
    /\ UNCHANGED <<owners, contract, log, projected, assign, proc, calls, intent, pass,
                   queue, spent, accept, choice, everOwner, bound>>

(* A submission that passed its checks goes on, one step at a time.         *)
SubmitStep(i) == ClaimSubmit(i) \/ ProposeManagers(i) \/ RecordSubmit(i)

ExecuteManagers(i) ==
    /\ i \in queue
    /\ intent[i].nonce = Len(spent)
    /\ Len(spent) < MaxNonce
    /\ contract.owner = "safe"
    /\ ApplyCalls(intent[i].changes)
    /\ spent' = Append(spent, i)
    /\ UNCHANGED <<owners, projected, assign, proc, calls, intent, proposal, submit, pass,
                   queue, accept, choice, everOwner, bound>>

-----------------------------------------------------------------------------
(* syncSafeGoalManagerProposals.                                            *)

PassBegin ==
    /\ pass = Rest
    /\ ActiveProposals # {}
    /\ pass' = [pc |-> "run", nonce |-> Len(spent), desired |-> Desired(owners),
                left |-> ActiveProposals]
    /\ UNCHANGED <<owners, contract, log, projected, assign, proc, calls, intent, proposal,
                   submit, queue, spent, accept, choice, everOwner, bound>>

\* Fault: the warning is lost when the Safe's answer is stored.
ViewWithoutWarning(i, status, reason) ==
    [status |-> status, key |-> status \in PendingManagers, reason |-> reason]

(* What the pass stores: a pending proposal of another desired state keeps  *)
(* the warning, and a terminal one frees the active key.                    *)
PassView(i, status, reason) ==
    [status |-> status,
     key |-> status \in PendingManagers,
     reason |-> IF status \in PendingManagers /\ intent[i].desired # pass.desired
                THEN "policy" ELSE reason]

PassStores(i, view) ==
    /\ proposal' = IF proposal[i].status \in PendingManagers
                   THEN [proposal EXCEPT ![i] = view] ELSE proposal
    /\ pass' = [pass EXCEPT !.left = @ \ {i}]
    /\ UNCHANGED <<owners, contract, log, projected, assign, proc, calls, intent, submit,
                   queue, spent, accept, choice, everOwner, bound>>

ExecutedAt(n) == IF n < Len(spent) THEN spent[n + 1] ELSE "nothing"

\* Fault: a proposal that lost its nonce to another transaction stays pending.
ClassifyByHashOnly(i, known) ==
    IF known /\ ExecutedAt(intent[i].nonce) = i THEN PassView(i, "EXECUTED", "none")
    ELSE PassView(i, "AWAITING", "none")

(* classifySafeProposal, with the Safe's nonce read when the pass began and *)
(* resolveSafeTransaction's proof, if the service knows it, of what was     *)
(* executed at the proposal's nonce.                                        *)
ClassifySafeProposal(i, known) ==
    LET spentBefore == intent[i].nonce < pass.nonce
    IN  IF known /\ ExecutedAt(intent[i].nonce) = i THEN PassView(i, "EXECUTED", "none")
        ELSE IF known /\ spentBefore THEN PassView(i, "STALE", "replaced")
        ELSE PassView(i, "AWAITING", IF spentBefore THEN "unverified" ELSE "none")

PassFound(i, known) ==
    /\ pass # Rest
    /\ i \in pass.left
    /\ i \in queue
    /\ PassStores(i, ClassifySafeProposal(i, known))

(* safeTransactionsAtNonce, recoveredSafeTransaction and                    *)
(* classifyMissingSafeSubmission: a submission the service never saw, also  *)
(* while a retry of it is on its way.                                       *)
PassMissing(i, known) ==
    /\ pass # Rest
    /\ i \in pass.left
    /\ i \notin queue
    /\ proposal[i].status = "SUBMITTING"
    /\ PassStores(i,
          IF known /\ ExecutedAt(intent[i].nonce) # "nothing" THEN PassView(i, "STALE", "replaced")
          ELSE IF intent[i].nonce < pass.nonce THEN PassView(i, "SUBMITTING", "unverified")
          ELSE PassView(i, "FAILED", "never arrived"))

(* The Safe service answered for the proposal.                              *)
PassAnswered(i, known) == PassFound(i, known) \/ PassMissing(i, known)

(* A failed lookup, or a submission too young to be given up.               *)
PassUnavailable(i) ==
    /\ pass # Rest
    /\ i \in pass.left
    /\ PassStores(i, PassView(i, proposal[i].status, "unavailable"))

PassEnd ==
    /\ pass # Rest
    /\ pass.left = {}
    /\ pass' = Rest
    /\ UNCHANGED <<owners, contract, log, projected, assign, proc, calls, intent, proposal,
                   submit, queue, spent, accept, choice, everOwner, bound>>

-----------------------------------------------------------------------------
(* The handover.                                                            *)

(* prepareSafeOwnershipTransfer, and the direct owner sends it.             *)
TransferOwnership ==
    /\ projected.owner = "direct"
    /\ projected.managers # {}
    /\ contract.owner = "direct" /\ ~contract.pending
    /\ Len(log) < MaxEvents
    /\ contract' = [contract EXCEPT !.pending = TRUE]
    /\ log' = Append(log, [type |-> "started", who |-> "safe"])
    /\ UNCHANGED <<owners, projected, assign, proc, calls, intent, proposal, submit, pass,
                   queue, spent, accept, choice, everOwner, bound>>

(* ownershipAcceptanceStatus: the acceptance found in the Safe's queue.     *)
AcceptanceQueued == accept.st = "queued" /\ accept.nonce >= Len(spent)

(* prepareSafeOwnershipAcceptance by the service only observes it.          *)
ObserveAcceptance ==
    /\ contract.pending
    /\ AcceptanceQueued
    /\ accept' = [accept EXCEPT !.audit = "OBSERVE"]
    /\ UNCHANGED <<owners, contract, log, projected, assign, proc, calls, intent, proposal,
                   submit, pass, queue, spent, choice, everOwner, bound>>

(* submitSafeOwnershipAcceptance: the audit is written on a best effort.    *)
SubmitAcceptance ==
    /\ contract.pending
    /\ ~AcceptanceQueued
    /\ accept' \in
          {[st |-> "queued", nonce |-> Len(spent), audit |-> a] : a \in {"SUBMIT", "UNCONFIRMED", accept.audit}}
          \union {[accept EXCEPT !.audit = a] : a \in {"UNCONFIRMED", accept.audit}}
    /\ accept' # accept
    /\ UNCHANGED <<owners, contract, log, projected, assign, proc, calls, intent, proposal,
                   submit, pass, queue, spent, choice, everOwner, bound>>

(* The manual export, refused while the trail says one waits in the Safe.   *)
ExportAcceptance ==
    /\ contract.pending
    /\ accept.audit \notin {"SUBMIT", "OBSERVE"}
    /\ accept' = [accept EXCEPT !.st = IF AcceptanceQueued THEN @ ELSE "exported",
                                !.audit = IF @ = "UNCONFIRMED" THEN "SUPERSEDE" ELSE @]
    /\ accept' # accept
    /\ UNCHANGED <<owners, contract, log, projected, assign, proc, calls, intent, proposal,
                   submit, pass, queue, spent, choice, everOwner, bound>>

AcceptOwnership ==
    /\ contract.pending
    /\ \/ accept.st = "exported"
       \/ AcceptanceQueued /\ accept.nonce = Len(spent)
    /\ Len(log) < MaxEvents /\ Len(spent) < MaxNonce
    /\ contract' = [contract EXCEPT !.owner = "safe", !.pending = FALSE]
    /\ log' = Append(log, [type |-> "owner", who |-> "safe"])
    /\ spent' = Append(spent, "outside")
    /\ UNCHANGED <<owners, projected, assign, proc, calls, intent, proposal, submit, pass,
                   queue, accept, choice, everOwner, bound>>

-----------------------------------------------------------------------------
Continuations ==
    {[op |-> "sync"]} \union [op : {"pin", "unpin"}, address : Addr]

GoalManagersNext ==
    \/ IndexEvent
    \/ \E a \in Addr : ChangeOwners(a)
    \/ ReadPolicy("worker", [op |-> "none"])
    \/ \E then \in Continuations : ReadPolicy("api", then)
    \/ \E p \in Processes : ReconcileOwners(p) \/ PreserveLegacy(p)
    \/ ReadSync \/ UpdateGoalManager
    \/ NothingToPrepare \/ PrepareDirect
    \/ \E confirmed \in BOOLEAN : PrepareManual(confirmed)
    \/ \E i \in Intents :
          \/ PrepareIntent(i)
          \/ CheckSubmit(i) \/ SubmitStep(i)
          \/ ExecuteManagers(i)
          \/ \E known \in BOOLEAN : PassAnswered(i, known)
          \/ PassUnavailable(i)
    \/ \E c \in calls : SendCalls(c)
    \/ PassBegin \/ PassEnd
    \/ TransferOwnership \/ ObserveAcceptance \/ SubmitAcceptance \/ ExportAcceptance
    \/ AcceptOwnership

GoalManagersSpec == GoalManagersInit /\ [][GoalManagersNext]_gmVars

(* The worker's passes are repeated jobs; a request ends; a lookup that     *)
(* keeps being made is answered.                                            *)
GoalManagersFairness ==
    /\ WF_gmVars(PassBegin \/ PassEnd)
    /\ \A i \in Intents :
          /\ SF_gmVars(PassAnswered(i, TRUE))
          /\ WF_gmVars(SubmitStep(i))

-----------------------------------------------------------------------------
(* Invariants *)

(* The rows that grant roles say what the contract said some confirmed      *)
(* events ago: the Safe has no authority before it accepts the ownership.   *)
(* A list "in sync" and up to date has the contract's managers as desired.  *)
AuthorityFollowsChain ==
    /\ LET indexed == SubSeq(log, 1, projected.cursor)
           last(a) == {n \in DOMAIN indexed : indexed[n].type = "manager" /\ indexed[n].who = a}
           transfers == {n \in DOMAIN indexed : indexed[n].type = "owner"}
           latest(S) == indexed[CHOOSE n \in S : \A m \in S : m <= n]
       IN  /\ \A a \in Addr : a \in projected.managers <=> last(a) # {} /\ latest(last(a)).on
           /\ transfers # {} => projected.owner = latest(transfers).who
    /\ projected.cursor = Len(log) =>
          /\ projected.managers = contract.managers
          /\ projected.owner = contract.owner
          /\ InSync => contract.managers = Desired(owners)

(* An explicit pin or unpin is never overwritten by a reconciliation that   *)
(* read the rows before it: comment at goal-manager-assignments.ts:75.      *)
ChoiceIsKept ==
    \A a \in Addr : choice[a] # "none" => assign[a].MANUAL = choice[a]

(* "Preserve them ... instead of revoking authority during rollout": no     *)
(* prepared call disables a legacy manager nobody decided about.            *)
LegacyManagersStay ==
    \A a \in LegacyManagers \ everOwner :
        choice[a] = "none" =>
            /\ \A c \in calls : Change(a, FALSE) \notin c.changes
            /\ \A i \in Intents : intent[i] # Rest => Change(a, FALSE) \notin intent[i].changes

(* The active key is held exactly by the pending proposal: a key left       *)
(* behind would refuse every later synchronization, and a pending proposal  *)
(* without it would admit a second one.                                     *)
KeyIsHeldByThePending ==
    \A i \in Intents : proposal[i].key <=> proposal[i].status \in PendingManagers

PolicyInv == ChoiceIsKept /\ LegacyManagersStay

(* A proposal prepared for another desired state ends or carries the        *)
(* warning, whichever request wrote its row last.                           *)
PolicyChangeIsFlagged ==
    \A i \in Intents :
        (i \in ActiveProposals /\ intent[i].desired # Desired(owners))
            ~> (i \notin ActiveProposals \/ proposal[i].reason = "policy"
                \/ intent[i].desired = Desired(owners))

(* A proposal whose Safe nonce is spent ends, and with it its key.          *)
SpentProposalEnds ==
    \A i \in Intents :
        (i \in ActiveProposals /\ intent[i].nonce < Len(spent)) ~> i \notin ActiveProposals
=============================================================================
