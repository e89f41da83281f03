-------------------------------- MODULE Forum --------------------------------
(***************************************************************************)
(* The forum: topics with drafts, review and locks, replies with their     *)
(* notifications, categories and settings.                                 *)
(*                                                                         *)
(* Two row locks order the requests.  A topic is created or published      *)
(* under a share of the project's lock, which settings and categories take *)
(* exclusively, and under its author's lock, which makes the count of the  *)
(* last hour exact.  A topic's own lock orders moderation, deletion and    *)
(* saves; a reply guards its update with the topic's state.                *)
(***************************************************************************)
EXTENDS Integers, FiniteSets

CONSTANTS
    Topics, Members, Categories,
    MaxReplies,   \* bound: replies
    TopicsPerHour, \* 3 in the code
    RepliesPerMinute, \* 10 in the code
    MaxDrafts     \* 20 in the code

VARIABLES
    topic,    \* ForumTopic
    replies,  \* ForumReply: topic, number, author, state
    notices,  \* ForumNotification: recipient, topic, reply number
    openCategories, \* categories that are not archived
    topicReview, \* forumTopicModerationEnabled
    writing,  \* each member's transaction, between its reads and its write
    minute    \* replies of the last minute, by member

forumVars == <<topic, replies, notices, openCategories, topicReview, writing, minute>>

Quiet == [pc |-> "idle"]
Shown == {"PUBLISHED", "LOCKED"}

ForumInit ==
    /\ topic = [t \in Topics |-> [status |-> "none", gone |-> FALSE, fresh |-> FALSE, replyCount |-> 0]]
    /\ replies = {} /\ notices = {}
    /\ openCategories = Categories
    /\ topicReview \in BOOLEAN
    /\ writing = [m \in Members |-> Quiet]
    /\ minute = [m \in Members |-> 0]

Present(t) == topic[t].status # "none" /\ ~topic[t].gone
Author(t, m) == Present(t) /\ topic[t].author = m

-----------------------------------------------------------------------------
(* Topics.                                                                  *)

RecentTopics(m) ==
    {t \in Topics : topic[t].status \notin {"none", "DRAFT"} /\ topic[t].fresh /\ topic[t].author = m}

Drafts(m) == {t \in Topics : topic[t].status = "DRAFT" /\ ~topic[t].gone /\ topic[t].author = m}

CreateDraft(m, t, c) ==
    /\ topic[t].status = "none"
    /\ writing[m] = Quiet
    /\ c \in openCategories
    /\ Cardinality(Drafts(m)) < MaxDrafts
    /\ topic' = [topic EXCEPT ![t] = [status |-> "DRAFT", gone |-> FALSE, fresh |-> FALSE,
                                        replyCount |-> 0, author |-> m, category |-> c]]
    /\ UNCHANGED <<replies, notices, openCategories, topicReview, writing, minute>>

(* updateDraft, under the topic's lock; a category that stays the same may  *)
(* have been archived.                                                      *)
UpdateDraft(m, t, c) ==
    /\ Author(t, m) /\ topic[t].status = "DRAFT"
    /\ c # topic[t].category => c \in openCategories
    /\ topic' = [topic EXCEPT ![t].category = c]
    /\ UNCHANGED <<replies, notices, openCategories, topicReview, writing, minute>>

(* create and publishDraft: the share of the project's lock, the category,  *)
(* the settings, the author's lock, the draft and the count of the hour.    *)
BeginTopic(m, t, c) ==
    /\ writing[m] = Quiet   \* the author's lock
    /\ c \in openCategories
    /\ \/ topic[t].status = "none"
       \/ Author(t, m) /\ topic[t].status = "DRAFT"
    /\ Cardinality(RecentTopics(m)) < TopicsPerHour
    /\ writing' = [writing EXCEPT ![m] =
           [pc |-> "topic", topic |-> t, category |-> c, draft |-> topic[t].status = "DRAFT",
            status |-> IF topicReview THEN "PENDING_REVIEW" ELSE "PUBLISHED"]]
    /\ UNCHANGED <<topic, replies, notices, openCategories, topicReview, minute>>

(* publishDraft does not lock the topic: a deletion that came first stays.  *)
WriteTopic(m) ==
    LET w == writing[m]
    IN  /\ w.pc = "topic"
        /\ w.draft \/ topic[w.topic].status = "none"
        /\ topic' = [topic EXCEPT ![w.topic] =
               [status |-> w.status, gone |-> @.gone, fresh |-> TRUE,
                replyCount |-> 0, author |-> m, category |-> w.category]]
        /\ writing' = [writing EXCEPT ![m] = Quiet]
        /\ UNCHANGED <<replies, notices, openCategories, topicReview, minute>>

(* Another author's row took the identity this instance offered.            *)
AbandonTopic(m) ==
    /\ writing[m].pc = "topic"
    /\ ~writing[m].draft /\ topic[writing[m].topic].status # "none"
    /\ writing' = [writing EXCEPT ![m] = Quiet]
    /\ UNCHANGED <<topic, replies, notices, openCategories, topicReview, minute>>

(* update: the category is checked, then one guarded write.                 *)
UpdateTopic(m, t, c, moderator) ==
    /\ IF moderator THEN Present(t) /\ topic[t].status \in Shown
       ELSE Author(t, m) /\ topic[t].status \in {"PENDING_REVIEW", "PUBLISHED"}
    /\ c # topic[t].category /\ c \in openCategories
    /\ topic' = [topic EXCEPT ![t].category = c]
    /\ UNCHANGED <<replies, notices, openCategories, topicReview, writing, minute>>

(* delete, and REMOVE of a topic that is no draft.                          *)
DropTopic(t) ==
    /\ Present(t)
    /\ topic' = [topic EXCEPT ![t].gone = TRUE]
    /\ UNCHANGED <<replies, notices, openCategories, topicReview, writing, minute>>

(* moderateTopic.                                                           *)
ModerateTopic(t, action) ==
    /\ Present(t)
    /\ \/ /\ action = "APPROVE" /\ topic[t].status = "PENDING_REVIEW"
          /\ topic' = [topic EXCEPT ![t].status = "PUBLISHED"]
       \/ /\ action = "DECLINE" /\ topic[t].status = "PENDING_REVIEW"
          /\ topic' = [topic EXCEPT ![t].status = "DECLINED"]
       \/ /\ action = "LOCK" /\ topic[t].status = "PUBLISHED"
          /\ topic' = [topic EXCEPT ![t].status = "LOCKED"]
       \/ /\ action = "UNLOCK" /\ topic[t].status = "LOCKED"
          /\ topic' = [topic EXCEPT ![t].status = "PUBLISHED"]
    /\ UNCHANGED <<replies, notices, openCategories, topicReview, writing, minute>>

-----------------------------------------------------------------------------
(* Replies.                                                                 *)

OpenForReplies(t) == Present(t) /\ topic[t].status = "PUBLISHED"

BeginReply(m, t) ==
    /\ writing[m] = Quiet
    /\ OpenForReplies(t)
    /\ Cardinality(replies) < MaxReplies
    /\ writing' = [writing EXCEPT ![m] = [pc |-> "reply", topic |-> t]]
    /\ UNCHANGED <<topic, replies, notices, openCategories, topicReview, minute>>

\* Fault: the topic was open when the request began.
AcceptedUnchecked(m) == minute[m] < RepliesPerMinute

Accepted(m) == minute[m] < RepliesPerMinute /\ OpenForReplies(writing[m].topic)

\* Fault: only the author of the topic is told.
AuthorOnly(t, quoted) == {topic[t].author}

Audience(t, quoted) ==
    {topic[t].author} \union {r.author : r \in {q \in replies : q.topic = t}}
                      \union {r.author : r \in quoted}

(* reply: one transaction, whose update of the counter holds the topic.     *)
(* quoted is the reply answered to, still shown and of this topic.          *)
PostReply(m, quoted) ==
    LET t == writing[m].topic
        n == topic[t].replyCount + 1
    IN  /\ writing[m].pc = "reply"
        /\ quoted \subseteq {r \in replies : r.topic = t /\ r.shown} /\ Cardinality(quoted) <= 1
        /\ Accepted(m)
        /\ topic' = [topic EXCEPT ![t].replyCount = n]
        /\ replies' = replies \union {[topic |-> t, number |-> n, author |-> m, shown |-> TRUE]}
        /\ notices' = notices \union
               {[to |-> p, topic |-> t, number |-> n] : p \in Audience(t, quoted) \ {m}}
        /\ minute' = [minute EXCEPT ![m] = @ + 1]
        /\ writing' = [writing EXCEPT ![m] = Quiet]
        /\ UNCHANGED <<openCategories, topicReview>>

RefuseReply(m) ==
    /\ writing[m].pc = "reply"
    /\ ~Accepted(m)
    /\ writing' = [writing EXCEPT ![m] = Quiet]
    /\ UNCHANGED <<topic, replies, notices, openCategories, topicReview, minute>>

(* deleteReply and removeReply.  The counter keeps counting it.             *)
HideReply(r) ==
    /\ r \in replies /\ r.shown
    /\ replies' = (replies \ {r}) \union {[r EXCEPT !.shown = FALSE]}
    /\ UNCHANGED <<topic, notices, openCategories, topicReview, writing, minute>>

-----------------------------------------------------------------------------
(* Settings and categories.                                                 *)

\* Fault: a change of the rules does not wait for topics being written.
RulesUnlocked == TRUE

(* The project's lock, exclusively: no topic is between its reads and its   *)
(* write.                                                                   *)
RulesLock == \A m \in Members : writing[m].pc # "topic"

UpdateSettings ==
    /\ RulesLock
    /\ topicReview' = ~topicReview
    /\ UNCHANGED <<topic, replies, notices, openCategories, writing, minute>>

\* Fault: the last active category can be archived.
ArchivableAlways(c) == c \in openCategories

Archivable(c) == c \in openCategories /\ Cardinality(openCategories) > 1

UpdateCategory(c) ==
    /\ RulesLock
    /\ \/ Archivable(c) /\ openCategories' = openCategories \ {c}
       \/ c \notin openCategories /\ openCategories' = openCategories \union {c}
    /\ UNCHANGED <<topic, replies, notices, topicReview, writing, minute>>

TimePasses ==
    /\ \/ /\ \E m \in Members : minute[m] > 0
          /\ minute' = [m \in Members |-> 0] /\ UNCHANGED topic
       \/ /\ \E t \in Topics : topic[t].fresh
          /\ topic' = [t \in Topics |-> [topic[t] EXCEPT !.fresh = FALSE]] /\ UNCHANGED minute
    /\ UNCHANGED <<replies, notices, openCategories, topicReview, writing>>

-----------------------------------------------------------------------------
ForumNext ==
    \/ \E m \in Members :
          \/ \E t \in Topics, c \in Categories :
                \/ CreateDraft(m, t, c) \/ UpdateDraft(m, t, c) \/ BeginTopic(m, t, c)
                \/ \E moderator \in BOOLEAN : UpdateTopic(m, t, c, moderator)
          \/ WriteTopic(m) \/ AbandonTopic(m)
          \/ \E t \in Topics : BeginReply(m, t)
          \/ PostReply(m, {}) \/ \E r \in replies : PostReply(m, {r})
          \/ RefuseReply(m)
    \/ \E t \in Topics :
          \/ DropTopic(t)
          \/ \E action \in {"APPROVE", "DECLINE", "LOCK", "UNLOCK"} : ModerateTopic(t, action)
    \/ \E r \in replies : HideReply(r)
    \/ UpdateSettings \/ TimePasses
    \/ \E c \in Categories : UpdateCategory(c)

ForumSpec == ForumInit /\ [][ForumNext]_forumVars

-----------------------------------------------------------------------------
(* "This gives the switch a single ordering point": a topic appears in a    *)
(* category that is active at that moment and, while review is on, never    *)
(* without one; a reply is added only to a topic open at that moment.       *)
RulesHoldAtWriting ==
    [][/\ \A t \in Topics :
             (topic[t].status \in {"none", "DRAFT"} /\ topic'[t].status \notin {"none", "DRAFT"}) =>
                /\ topic'[t].category \in openCategories
                /\ (topic'[t].status = "PUBLISHED" => ~topicReview)
       /\ \A r \in replies' :
             r.number > topic[r.topic].replyCount => OpenForReplies(r.topic)]_forumVars

(* The counter is the number of replies; the hour's limit holds over drafts *)
(* published side by side; one category is active; and whoever wrote in the *)
(* topic before a reply of somebody else is told of it.                     *)
ForumBooks ==
    /\ \A t \in Topics : topic[t].replyCount = Cardinality({r \in replies : r.topic = t})
    /\ \A m \in Members : Cardinality(RecentTopics(m)) <= TopicsPerHour
    /\ openCategories # {}
    /\ \A r, q \in replies :
          r.topic = q.topic /\ q.number < r.number /\ q.author # r.author =>
             \E n \in notices : n.to = q.author /\ n.topic = r.topic /\ n.number = r.number
=============================================================================
