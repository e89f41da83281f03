------------------------------ MODULE GoalDrafts ------------------------------
(***************************************************************************)
(* A goal draft (the Expense row) from its creation to the goal the escrow *)
(* indexer projects for it: edits, the preview link, the publication call  *)
(* and the archive, requested by several administrators at once.           *)
(*                                                                         *)
(* A request that reads the row before it writes takes two steps: the      *)
(* database runs at READ COMMITTED and the writes carry no version.        *)
(***************************************************************************)
EXTENDS Integers, FiniteSets

CONSTANTS
    Requests,    \* requests of administrators in flight
    MaxTokens,   \* bound: preview tokens generated
    MaxRequested \* bound: requests

VARIABLES
    draft,    \* the Expense row
    request,  \* what each request has read
    links,    \* preview links handed out
    revoked,  \* ghost: tokens dropped by a revocation or the archive
    publications,    \* createGoal calls prepared for the publisher
    chainGoal, \* the goal of the draft on the contract, "none" or its form
    indexed,   \* the projected goal: "none", "linked" by expenseId, "orphan"
    used      \* tokens and requests so far

gdVars == <<draft, request, links, revoked, publications, chainGoal, indexed, used>>

Ready == [pc |-> "ready"]
NoToken == 0
Unpublished == {"DRAFT", "PENDING_CHAIN"}

Forms == [cadence : {"ONE_TIME", "MONTHLY"}, deadline : BOOLEAN, policy : BOOLEAN]

(* validateCadence.                                                         *)
WellFormed(form) ==
    IF form.cadence = "ONE_TIME" THEN form.deadline /\ ~form.policy
    ELSE ~form.deadline /\ form.policy

GoalDraftsInit ==
    /\ draft = [status |-> "none", archived |-> FALSE, token |-> NoToken, prepared |-> FALSE]
    /\ request = [r \in Requests |-> Ready]
    /\ links = {} /\ revoked = {} /\ publications = {}
    /\ chainGoal = "none"
    /\ indexed = "none"
    /\ used = [tokens |-> 0, requests |-> 0]

Requested == used.requests < MaxRequested /\ used' = [used EXCEPT !.requests = @ + 1]

(* createExpense.                                                           *)
CreateExpense(form) ==
    /\ draft.status = "none"
    /\ WellFormed(form)
    /\ draft' = [status |-> "DRAFT", archived |-> FALSE, token |-> NoToken, prepared |-> FALSE, form |-> form]
    /\ UNCHANGED <<request, links, revoked, publications, chainGoal, indexed, used>>

(* A request reads the row; what it is about to do depends on it.           *)
Read(r, op) ==
    /\ request[r] = Ready
    /\ draft.status # "none"
    /\ Requested
    /\ CASE op = "edit" -> draft.status = "DRAFT"
         [] op = "publish" -> draft.status \in Unpublished
         [] op = "mark" -> draft.status \in Unpublished /\ draft.prepared
    /\ request' = [request EXCEPT ![r] = [pc |-> op, row |-> draft]]
    /\ UNCHANGED <<draft, links, revoked, publications, chainGoal, indexed>>

\* Fault: an edit saves the whole row it read.
SavedWhole(r, given, form) == [request[r].row EXCEPT !.form = form]

(* The fields that are given, over the row as it is by then.                *)
Saved(r, given, form) ==
    [draft EXCEPT !.form = [field \in DOMAIN form |->
                              IF field \in given THEN form[field] ELSE @[field]]]

(* updateExpense: the fields that are given are checked with those read     *)
(* before, and written alone.                                               *)
UpdateExpense(r, given, form) ==
    /\ request[r].pc = "edit"
    /\ \A field \in DOMAIN form \ given : form[field] = request[r].row.form[field]
    /\ WellFormed(form)
    /\ draft' = Saved(r, given, form)
    /\ request' = [request EXCEPT ![r] = Ready]
    /\ UNCHANGED <<links, revoked, publications, chainGoal, indexed, used>>

ArchiveExpense ==
    /\ draft.status # "none" /\ ~draft.archived
    /\ Requested
    /\ draft' = [draft EXCEPT !.status = "ARCHIVED", !.archived = TRUE, !.token = NoToken]
    /\ revoked' = revoked \union ({draft.token} \ {NoToken})
    /\ UNCHANGED <<request, links, publications, chainGoal, indexed>>

\* Fault: every request generates a token of its own.
LinkableAlways == draft.status \in Unpublished /\ ~draft.archived

Linkable == draft.status \in Unpublished /\ ~draft.archived /\ draft.token = NoToken

(* createExpensePreviewLink: the conditional update holds the row's lock    *)
(* when it wrote; otherwise the read that follows is a statement of its own. *)
CreatePreviewLink ==
    /\ Linkable
    /\ used.requests < MaxRequested /\ used.tokens < MaxTokens
    /\ used' = [used EXCEPT !.tokens = @ + 1, !.requests = @ + 1]
    /\ draft' = [draft EXCEPT !.token = used.tokens + 1]
    /\ links' = links \union {used.tokens + 1}
    /\ UNCHANGED <<request, revoked, publications, chainGoal, indexed>>

FindPreviewLink(r) ==
    /\ request[r] = Ready
    /\ draft.status # "none" /\ ~Linkable
    /\ Requested
    /\ request' = [request EXCEPT ![r] = [pc |-> "link"]]
    /\ UNCHANGED <<draft, links, revoked, publications, chainGoal, indexed>>

ReturnPreviewLink(r) ==
    /\ request[r].pc = "link"
    /\ request' = [request EXCEPT ![r] = Ready]
    /\ links' = IF draft.status \in Unpublished /\ ~draft.archived /\ draft.token # NoToken
                THEN links \union {draft.token} ELSE links
    /\ UNCHANGED <<draft, revoked, publications, chainGoal, indexed, used>>

RevokePreviewLink ==
    /\ draft.status # "none" /\ draft.token # NoToken
    /\ Requested
    /\ draft' = [draft EXCEPT !.token = NoToken]
    /\ revoked' = revoked \union {draft.token}
    /\ UNCHANGED <<request, links, publications, chainGoal, indexed>>

Publishable(row) == row.status \in Unpublished /\ WellFormed(row.form)

(* publishExpense: the call carries what was read; the row is only marked   *)
(* with the goal's identifier.                                              *)
PublishExpense(r) ==
    /\ request[r].pc = "publish"
    /\ request' = [request EXCEPT ![r] = Ready]
    /\ IF Publishable(request[r].row)
       THEN /\ draft' = [draft EXCEPT !.prepared = TRUE]
            /\ publications' = publications \union {request[r].row.form}
       ELSE UNCHANGED <<draft, publications>>
    /\ UNCHANGED <<links, revoked, chainGoal, indexed, used>>

(* The contract accepts one goal of an identifier; the indexer projects it. *)
CreateOnChain(form) ==
    /\ form \in publications
    /\ chainGoal = "none"
    /\ chainGoal' = form.cadence
    /\ UNCHANGED <<draft, request, links, revoked, publications, indexed, used>>

MarkSubmitted(r) ==
    /\ request[r].pc = "mark"
    /\ draft' = [draft EXCEPT !.status = "PENDING_CHAIN"]
    /\ request' = [request EXCEPT ![r] = Ready]
    /\ UNCHANGED <<links, revoked, publications, chainGoal, indexed, used>>

(* GoalCreated: the draft that carries the identifier is linked with the    *)
(* goal and PUBLISHED; without one the goal is projected alone.             *)
IndexCreation ==
    /\ chainGoal # "none" /\ indexed = "none"
    /\ indexed' = IF draft.prepared THEN "linked" ELSE "orphan"
    /\ draft' = IF draft.prepared THEN [draft EXCEPT !.status = "PUBLISHED"] ELSE draft
    /\ UNCHANGED <<request, links, revoked, publications, chainGoal, used>>

GoalDraftsNext ==
    \/ \E form \in Forms : CreateExpense(form) \/ CreateOnChain(form)
    \/ \E r \in Requests :
          \/ \E op \in {"edit", "publish", "mark"} : Read(r, op)
          \/ \E given \in SUBSET {"cadence", "deadline", "policy"}, form \in Forms :
                UpdateExpense(r, given, form)
          \/ PublishExpense(r) \/ MarkSubmitted(r)
          \/ FindPreviewLink(r) \/ ReturnPreviewLink(r)
    \/ ArchiveExpense \/ CreatePreviewLink \/ RevokePreviewLink
    \/ IndexCreation

GoalDraftsSpec == GoalDraftsInit /\ [][GoalDraftsNext]_gdVars

-----------------------------------------------------------------------------
(* "The conditional update lets concurrent requests reuse the same link":   *)
(* a link handed out and not revoked since opens the draft until it is      *)
(* published or archived, and a revoked link never opens it again.          *)
PreviewLinksOpen ==
    /\ \A t \in links \ revoked :
          draft.status \in Unpublished /\ ~draft.archived => draft.token = t
    /\ draft.token \notin revoked

(* A goal whose creation was prepared from a draft is projected with that   *)
(* draft, although edits, another publication and the indexer cross: the    *)
(* identifier is stored before the call is handed out and no request that   *)
(* read the row earlier takes it away, or opens the draft for edits again.  *)
GoalKeepsItsDraft ==
    /\ indexed # "orphan"
    /\ indexed = "linked" => draft.status # "DRAFT"

(* Does not hold, see the README: a submission marked after the goal was    *)
(* projected puts the published draft back to PENDING_CHAIN.                *)
ProjectedStaysPublished ==
    [][indexed = "linked" /\ draft.status = "PUBLISHED" => draft'.status # "PENDING_CHAIN"]_gdVars
=============================================================================
