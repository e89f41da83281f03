----------------------------- MODULE MCContent -----------------------------
(***************************************************************************)
(* What the API lets members, advertisers and moderators write, checked in *)
(* one run: community proposals, the forum and advertising campaigns.      *)
(* They share no row.  `part' names the one that runs in a behavior; the   *)
(* others stay as they start.                                              *)
(***************************************************************************)
EXTENDS Integers, Sequences, FiniteSets, TLC

CONSTANTS Proposals, Voters, MinimumPre, HourlyLimit, LastBlock, MaxRevision,
          Topics, Members, Categories, MaxReplies, TopicsPerHour, RepliesPerMinute, MaxDrafts,
          Campaigns, Requests, Ranks, MaxVersions, Ttl

VARIABLES part,
          cp, votes, submitting, acting, moderated, goalDrafts, comment, head, recent,
          topic, replies, notices, openCategories, topicReview, writing, minute,
          revs, active, paused, review, rank, synced, open, request, resolver, cache, served, shown

cpVars == <<cp, votes, submitting, acting, moderated, goalDrafts, comment, head, recent>>
forumVars == <<topic, replies, notices, openCategories, topicReview, writing, minute>>
adVars == <<revs, active, paused, review, rank, synced, open, request, resolver, cache, served, shown>>
allVars == <<part, cpVars, forumVars, adVars>>

\* One member holds the minimum throughout, the other only at the first block.
Holdings == [v \in Voters |-> IF v = "v1" THEN <<1, 1>> ELSE <<2, 0>>]

Community == INSTANCE CommunityProposals
Board == INSTANCE Forum
Ads == INSTANCE AdCampaigns

ContentInit ==
    /\ part \in {"community", "forum", "ads"}
    /\ Community!CommunityInit /\ Board!ForumInit /\ Ads!CampaignsInit
    /\ part # "forum" => ~topicReview
    /\ part # "ads" => ~review
    /\ part # "community" => ~moderated

ContentNext ==
    \/ part = "community" /\ Community!CommunityNext /\ UNCHANGED <<part, forumVars, adVars>>
    \/ part = "forum" /\ Board!ForumNext /\ UNCHANGED <<part, cpVars, adVars>>
    \/ part = "ads" /\ Ads!CampaignsNext /\ UNCHANGED <<part, cpVars, forumVars>>

ContentSpec == ContentInit /\ [][ContentNext]_allVars

Symmetry == Permutations(Topics) \union Permutations(Members) \union Permutations(Categories)
            \union Permutations(Requests)

\* State constraints.  Replies are written with one topic and no category
\* archived; a resolution runs while nobody writes, and moderation runs while
\* the resolver rests.
TopicsOrReplies ==
    replies # {} => /\ openCategories = Categories
                    /\ Cardinality({t \in Topics : topic[t].status # "none"}) = 1

ResolverOrModeration ==
    \/ /\ open = {} /\ \E q \in Requests : request[q] = Ads!Waiting
       /\ \A c \in Campaigns : Len(revs[c]) <= 1
    \/ /\ resolver = Ads!Waiting /\ cache = Ads!NoEntry /\ synced /\ served = Ads!NotServed
       /\ \A c \in Campaigns : rank[c] = 0 /\ ~paused[c]

SmallEnough == TopicsOrReplies /\ ResolverOrModeration

(* Counters, limits and notifications of the forum hold although            *)
(* transactions overlap: ForumBooks of Forum (createReply, publishTopic).   *)
ForumBooks == Board!ForumBooks

(* Every topic and reply obeys the switches of the moment it is written:    *)
(* RulesHoldAtWriting of Forum (lockForumSettings, createReply).             *)
RulesHoldAtWriting == Board!RulesHoldAtWriting

(* A vote is counted as it was cast, and a passed proposal becomes one draft *)
(* (vote, closeExpired and convertProposal of community.service.ts).         *)
CommunityInv == Community!OutcomeMatchesVotes /\ Community!ConvertedWithItsDraft

(* However revisions, moderation and reports cross, a campaign's active      *)
(* revision is its approved one, and no cached advertisement outlives        *)
(* RESOLVER_CACHE_MS (createRevision, moderateRevision, resolveReports and   *)
(* resolve of ads.service.ts).                                               *)
AdsInv == Ads!ModerationInv /\ Ads!ServedIsRecent
=============================================================================
