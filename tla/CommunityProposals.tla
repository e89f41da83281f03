-------------------------- MODULE CommunityProposals --------------------------
(***************************************************************************)
(* Community proposals: submission under the review setting, edits, the    *)
(* vote weighted by the PRE held at a snapshot block, moderation, and the  *)
(* conversion of a passed proposal into a goal draft.                      *)
(*                                                                         *)
(* Operations that read and then write without a lock take two steps.  A   *)
(* vote and the closing of a vote hold the proposal's row lock; a          *)
(* submission holds the author's and a share of the project's.             *)
(***************************************************************************)
EXTENDS Integers, FiniteSets, FiniteSetsExt

CONSTANTS
    Proposals,
    Voters,       \* community members, authors included
    Holdings,     \* PRE held, by member and block
    MinimumPre,   \* COMMUNITY_MIN_PRE
    HourlyLimit,  \* proposals a member may submit in an hour (3 in the code)
    LastBlock,    \* bound: confirmed blocks 1..LastBlock
    MaxRevision   \* bound: edits of a text

VARIABLES
    cp,         \* CommunityProposal
    votes,      \* ProposalVote: choice and stored weight, by proposal and member
    submitting, \* create, between its two attempts
    acting,     \* vote, update and conversion, after their first reads
    moderated,  \* communitySettings.proposalModerationEnabled
    goalDrafts, \* drafts created from each proposal
    comment,    \* one comment of each proposal
    head,       \* latest confirmed block
    recent      \* submissions of the last hour, by member

cpVars == <<cp, votes, submitting, acting, moderated, goalDrafts, comment, head, recent>>

NoVote == [choice |-> "none", weight |-> 0]
Still == [pc |-> "idle"]
VoteTexts == {"FOR", "AGAINST", "ABSTAIN"}

CommunityInit ==
    /\ cp = [p \in Proposals |-> [status |-> "none", snapshot |-> 0, over |-> FALSE, revision |-> 0]]
    /\ votes = [p \in Proposals |-> [v \in Voters |-> NoVote]]
    /\ submitting = [v \in Voters |-> Still]
    /\ acting = [v \in Voters |-> Still]
    /\ moderated \in BOOLEAN
    /\ goalDrafts = [p \in Proposals |-> 0]
    /\ comment = [p \in Proposals |-> "none"]
    /\ head = 1
    /\ recent = [v \in Voters |-> 0]

(* currentBalance may be an answer cached for half a minute.                *)
MayParticipate(v) == \E b \in 1..head : Holdings[v][b] >= MinimumPre

NewBlock ==
    /\ head < LastBlock
    /\ head' = head + 1
    /\ UNCHANGED <<cp, votes, submitting, acting, moderated, goalDrafts, comment, recent>>

(* updateSettings.                                                          *)
SwitchModeration ==
    /\ moderated' = ~moderated
    /\ UNCHANGED <<cp, votes, submitting, acting, goalDrafts, comment, head, recent>>

(* create: without review a snapshot block is chosen first, outside the     *)
(* transaction, and the setting is read again.                              *)
ChooseSnapshot(v) ==
    /\ submitting[v] = Still
    /\ MayParticipate(v)
    /\ ~moderated
    /\ submitting' = [submitting EXCEPT ![v] = [pc |-> "create", block |-> head]]
    /\ UNCHANGED <<cp, votes, acting, moderated, goalDrafts, comment, head, recent>>

SubmitProposal(v, p) ==
    /\ cp[p].status = "none"
    /\ MayParticipate(v)
    /\ moderated \/ submitting[v] # Still
    /\ recent[v] < HourlyLimit
    /\ cp' = [cp EXCEPT ![p] =
           [status |-> IF moderated THEN "PENDING_REVIEW" ELSE "VOTING",
            snapshot |-> IF moderated THEN 0 ELSE submitting[v].block,
            over |-> FALSE, revision |-> 0, author |-> v]]
    /\ recent' = [recent EXCEPT ![v] = @ + 1]
    /\ submitting' = [submitting EXCEPT ![v] = Still]
    /\ UNCHANGED <<votes, acting, moderated, goalDrafts, comment, head>>

HourPasses ==
    /\ \E v \in Voters : recent[v] > 0
    /\ recent' = [v \in Voters |-> 0]
    /\ UNCHANGED <<cp, votes, submitting, acting, moderated, goalDrafts, comment, head>>

-----------------------------------------------------------------------------
(* update: the status is checked, the text is written unguarded.            *)
BeginEdit(v, p) ==
    /\ acting[v] = Still
    /\ cp[p].status = "PENDING_REVIEW" /\ cp[p].author = v
    /\ MayParticipate(v)
    /\ acting' = [acting EXCEPT ![v] = [pc |-> "edit", p |-> p]]
    /\ UNCHANGED <<cp, votes, submitting, moderated, goalDrafts, comment, head, recent>>

WriteEdit(v) ==
    /\ acting[v].pc = "edit"
    /\ cp' = [cp EXCEPT ![acting[v].p].revision = IF @ < MaxRevision THEN @ + 1 ELSE @]
    /\ acting' = [acting EXCEPT ![v] = Still]
    /\ UNCHANGED <<votes, submitting, moderated, goalDrafts, comment, head, recent>>

(* comment, editComment, deleteComment and removeComment.                   *)
Comment(v, p) ==
    /\ MayParticipate(v)
    /\ cp[p].status \notin {"none", "PENDING_REVIEW", "REMOVED"}
    /\ \/ comment[p] = "none" /\ comment' = [comment EXCEPT ![p] = "shown"]
       \/ comment[p] = "shown" /\ comment' = [comment EXCEPT ![p] = "hidden"]
    /\ UNCHANGED <<cp, votes, submitting, acting, moderated, goalDrafts, head, recent>>

-----------------------------------------------------------------------------
(* The vote.                                                                *)

OpenForVotes(p) == cp[p].status = "VOTING" /\ cp[p].snapshot # 0 /\ ~cp[p].over

BeginVote(v, p) ==
    /\ acting[v] = Still
    /\ OpenForVotes(p)
    /\ Holdings[v][cp[p].snapshot] >= MinimumPre
    /\ acting' = [acting EXCEPT ![v] = [pc |-> "vote", p |-> p, snapshot |-> cp[p].snapshot,
                                          weight |-> Holdings[v][cp[p].snapshot]]]
    /\ UNCHANGED <<cp, votes, submitting, moderated, goalDrafts, comment, head, recent>>

\* Fault: what was checked before the balance was read is not checked again.
StillOpenUnchecked(v) == TRUE

StillOpen(v) == OpenForVotes(acting[v].p) /\ cp[acting[v].p].snapshot = acting[v].snapshot

(* Under the row lock.  A changed vote keeps the stored weight; one that    *)
(* follows another within two seconds is refused.                           *)
CastVote(v, choice) ==
    /\ acting[v].pc = "vote"
    /\ acting' = [acting EXCEPT ![v] = Still]
    /\ IF StillOpen(v)
       THEN votes' = [votes EXCEPT ![acting[v].p][v] =
                [choice |-> choice, weight |-> IF @.choice = "none" THEN acting[v].weight ELSE @.weight]]
       ELSE UNCHANGED votes
    /\ UNCHANGED <<cp, submitting, moderated, goalDrafts, comment, head, recent>>

WindowEnds(p) ==
    /\ cp[p].status = "VOTING" /\ ~cp[p].over
    /\ cp' = [cp EXCEPT ![p].over = TRUE]
    /\ UNCHANGED <<votes, submitting, acting, moderated, goalDrafts, comment, head, recent>>

Total(p, choice) ==
    MapThenSumSet(LAMBDA v : votes[p][v].weight, {v \in Voters : votes[p][v].choice = choice})

\* Fault: the number of votes decides.
CountedOutcome(p) ==
    IF Cardinality({v \in Voters : votes[p][v].choice = "FOR"})
         > Cardinality({v \in Voters : votes[p][v].choice = "AGAINST"})
    THEN "PASSED" ELSE "REJECTED"

(* aggregateProposalVoteTotals: more PRE for than against.                  *)
Outcome(p) == IF Total(p, "FOR") > Total(p, "AGAINST") THEN "PASSED" ELSE "REJECTED"

(* closeExpired, called by every reader: checked again under the row lock.  *)
CloseExpired(p) ==
    /\ cp[p].status = "VOTING" /\ cp[p].over
    /\ cp' = [cp EXCEPT ![p].status = Outcome(p)]
    /\ UNCHANGED <<votes, submitting, acting, moderated, goalDrafts, comment, head, recent>>

-----------------------------------------------------------------------------
(* Moderation: conditional updates.                                         *)

OpenVoting(p, block) ==
    /\ block \in 1..head
    /\ cp[p].status = "PENDING_REVIEW"
    /\ cp' = [cp EXCEPT ![p].status = "VOTING", ![p].snapshot = block]
    /\ UNCHANGED <<votes, submitting, acting, moderated, goalDrafts, comment, head, recent>>

Decline(p) ==
    /\ cp[p].status \in {"PENDING_REVIEW", "PASSED", "REJECTED"}
    /\ cp' = [cp EXCEPT ![p].status = "DECLINED"]
    /\ UNCHANGED <<votes, submitting, acting, moderated, goalDrafts, comment, head, recent>>

\* Fault: a converted proposal can be removed.
RemovableAlways(p) == cp[p].status # "none"

Removable(p) == cp[p].status \notin {"none", "CONVERTED"}

RemoveProposal(p) ==
    /\ Removable(p)
    /\ cp' = [cp EXCEPT ![p].status = "REMOVED"]
    /\ UNCHANGED <<votes, submitting, acting, moderated, goalDrafts, comment, head, recent>>

-----------------------------------------------------------------------------
(* createExpense of a passed proposal, by two administrators at once.  The  *)
(* draft's communityProposalId is unique.                                   *)
BeginConversion(v, p) ==
    /\ acting[v] = Still
    /\ cp[p].status = "PASSED" /\ goalDrafts[p] = 0
    /\ acting' = [acting EXCEPT ![v] = [pc |-> "convert", p |-> p]]
    /\ UNCHANGED <<cp, votes, submitting, moderated, goalDrafts, comment, head, recent>>

Convert(v) ==
    /\ acting[v].pc = "convert"
    /\ acting' = [acting EXCEPT ![v] = Still]
    /\ LET p == acting[v].p
       IN  IF goalDrafts[p] = 0
           THEN /\ goalDrafts' = [goalDrafts EXCEPT ![p] = 1]
                /\ cp' = [cp EXCEPT ![p].status = "CONVERTED"]
           ELSE UNCHANGED <<goalDrafts, cp>>
    /\ UNCHANGED <<votes, submitting, moderated, comment, head, recent>>

-----------------------------------------------------------------------------
CommunityNext ==
    \/ NewBlock \/ SwitchModeration \/ HourPasses
    \/ \E v \in Voters :
          \/ ChooseSnapshot(v) \/ WriteEdit(v) \/ Convert(v)
          \/ \E choice \in VoteTexts : CastVote(v, choice)
          \/ \E p \in Proposals :
                \/ SubmitProposal(v, p) \/ BeginEdit(v, p) \/ Comment(v, p)
                \/ BeginVote(v, p) \/ BeginConversion(v, p)
    \/ \E p \in Proposals :
          \/ WindowEnds(p) \/ CloseExpired(p)
          \/ \E block \in 1..head : OpenVoting(p, block)
          \/ Decline(p) \/ RemoveProposal(p)

CommunitySpec == CommunityInit /\ [][CommunityNext]_cpVars

-----------------------------------------------------------------------------
(* The result of a vote is that of the stored votes, each weighing what its *)
(* member held at the snapshot: no vote arrives after the count, and a      *)
(* vote that was changed is counted once.                                   *)
OutcomeMatchesVotes ==
    \A p \in Proposals :
        /\ \A v \in Voters :
              votes[p][v].choice # "none" => votes[p][v].weight = Holdings[v][cp[p].snapshot]
        /\ cp[p].status \in {"PASSED", "REJECTED"} =>
              LET held(c) == MapThenSumSet(LAMBDA v : Holdings[v][cp[p].snapshot],
                                           {v \in Voters : votes[p][v].choice = c})
              IN  cp[p].status = "PASSED" <=> held("FOR") > held("AGAINST")

(* A proposal is CONVERTED exactly when one goal draft carries it, whatever *)
(* moderators and a second administrator do meanwhile.                      *)
ConvertedWithItsDraft ==
    \A p \in Proposals : goalDrafts[p] = (IF cp[p].status = "CONVERTED" THEN 1 ELSE 0)

(* Does not hold, see the README: "A proposal is frozen after voting        *)
(* review" (community.service.ts:203), but an edit checked before the       *)
(* review is written after it.                                              *)
TextIsFrozen ==
    [][\A p \in Proposals :
          cp[p].status = "VOTING" => cp'[p].revision = cp[p].revision]_cpVars
=============================================================================
