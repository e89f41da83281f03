----------------------------- MODULE AdCampaigns -----------------------------
(***************************************************************************)
(* The ads API: an advertiser's campaigns and their creative revisions,    *)
(* the moderation of revisions, reports, and the resolver with its cache.  *)
(*                                                                         *)
(* A request that writes first reads the revision and its campaign, then   *)
(* writes with the values it read as guards, in one transaction, and last  *)
(* clears the resolver's cache.  The resolver notes the time, reads the    *)
(* positions, then the campaigns, and then stores what it found for Ttl    *)
(* ticks after the time it noted.                                          *)
(***************************************************************************)
EXTENDS Integers, Sequences

CONSTANTS
    Campaigns, Requests,
    Ranks,        \* places a campaign can hold, larger is better
    MaxVersions,  \* bound: revisions of a campaign
    Ttl           \* RESOLVER_CACHE_MS, in ticks of the clock

VARIABLES
    revs,     \* AdCreativeRevision by campaign and version: status, moderatedAt # null
    active,   \* AdCampaign.activeRevisionId as a version, 0 for null
    paused,   \* AdCampaign.pausedAt # null
    review,   \* keywordMarketRequireReview
    rank,     \* each campaign's place by its indexed position, 0 when not eligible
    synced,   \* the chain snapshot is SYNCED
    open,     \* revisions with an open report
    request,  \* each writing request
    resolver, \* one resolution in progress
    cache,    \* the resolver's entry for the query
    served,   \* the last answer: from the cache or not, how stale, what it took
    shown     \* revisions that have been active, a history variable

adVars == <<revs, active, paused, review, rank, synced, open, request, resolver, cache, served, shown>>
rowVars == <<revs, active, paused, review, rank, synced, open, shown>>

None == [campaign |-> "none", version |-> 0]
Waiting == [pc |-> "idle"]
NoEntry == [held |-> FALSE]
NotServed == [cached |-> FALSE, stale |-> 0, took |-> 0]

CampaignsInit ==
    /\ revs = [c \in Campaigns |-> <<>>]
    /\ active = [c \in Campaigns |-> 0]
    /\ paused = [c \in Campaigns |-> FALSE]
    /\ review \in BOOLEAN
    /\ rank = [c \in Campaigns |-> 0]
    /\ synced = TRUE
    /\ open = {} /\ shown = {}
    /\ request = [q \in Requests |-> Waiting]
    /\ resolver = Waiting /\ cache = NoEntry
    /\ served = NotServed

Status(c, v) == revs[c][v].status
Revision(c, v) == [campaign |-> c, version |-> v]

-----------------------------------------------------------------------------
(* Requests that write.                                                     *)

Begin(q, r) ==
    /\ request[q] = Waiting
    /\ request' = [request EXCEPT ![q] = r]
    /\ UNCHANGED <<rowVars, resolver, cache, served>>

(* createCampaign and createRevision: the latest version, the active one    *)
(* and the review switch.                                                   *)
BeginRevision(q, c) ==
    Begin(q, [pc |-> "create", campaign |-> c, top |-> Len(revs[c]), active |-> active[c], review |-> review])

CanSuspend(r) == r.status = "APPROVED" \/ (r.status = "SUPERSEDED" /\ r.moderated)

Permitted(action, c, v) ==
    CASE action \in {"APPROVE", "REJECT"} -> Status(c, v) = "PENDING_REVIEW"
      [] action = "SUSPEND" -> CanSuspend(revs[c][v])
      [] action = "RESTORE" -> Status(c, v) = "SUSPENDED" /\ active[c] = 0
      [] action \in {"SUSPEND_AD", "DISMISS"} -> Revision(c, v) \in open

(* moderateRevision and resolveReports, up to their first write.            *)
BeginModeration(q, c, v, action) ==
    /\ v \in 1 .. Len(revs[c])
    /\ Permitted(action, c, v)
    /\ Begin(q, [pc |-> action, campaign |-> c, version |-> v, read |-> revs[c][v], active |-> active[c]])

Guarded(c, v, status) == v \in 1 .. Len(revs[c]) /\ Status(c, v) = status

\* Fault: the campaign is switched to the new revision whatever is active now.
UnchangedExceptActive(r) ==
    LET c == r.campaign
    IN  CASE r.pc = "create" -> Len(revs[c]) = r.top
          [] r.pc = "APPROVE" -> Guarded(c, r.version, "PENDING_REVIEW")
          [] r.pc = "REJECT" -> Guarded(c, r.version, "PENDING_REVIEW")
          [] r.pc = "SUSPEND" -> revs[c][r.version] = r.read
          [] r.pc = "RESTORE" -> Guarded(c, r.version, "SUSPENDED")
          [] r.pc = "SUSPEND_AD" -> Revision(c, r.version) \in open
          [] r.pc = "DISMISS" -> Revision(c, r.version) \in open

(* assertModerationStateUnchanged on every guarded write, and the unique    *)
(* version of a campaign's revision.                                        *)
Unchanged(r) ==
    LET c == r.campaign
        switched == active[c] = r.active
        replaced == r.active # 0 => Guarded(c, r.active, "APPROVED")
    IN  CASE r.pc = "create" -> Len(revs[c]) = r.top /\ (~r.review => switched /\ replaced)
          [] r.pc = "APPROVE" -> Guarded(c, r.version, "PENDING_REVIEW") /\ switched /\ replaced
          [] r.pc = "REJECT" -> Guarded(c, r.version, "PENDING_REVIEW")
          [] r.pc = "SUSPEND" -> Status(c, r.version) = r.read.status
                                    /\ (r.active = r.version => switched)
          [] r.pc = "RESTORE" -> Guarded(c, r.version, "SUSPENDED") /\ switched
          [] r.pc = "SUSPEND_AD" -> /\ Revision(c, r.version) \in open
                                    /\ CanSuspend(r.read) => Status(c, r.version) = r.read.status
                                    /\ r.active = r.version => switched
          [] r.pc = "DISMISS" -> Revision(c, r.version) \in open

Moderated(s) == [status |-> s, moderated |-> TRUE]

\* Fault: a new revision retires every one that is not published.
RetiredToo(r) == r.status \in {"PENDING_REVIEW", "REJECTED"}

Retired(r) == r.status = "PENDING_REVIEW"

Superseded(r) == [r EXCEPT !.status = "SUPERSEDED"]

(* The revisions of the campaign after the writes of the request.           *)
Written(r) ==
    LET s == revs[r.campaign]
        unpublished == IF r.active = 0 THEN s ELSE [s EXCEPT ![r.active] = Superseded(@)]
    IN  CASE r.pc = "create" ->
               LET before == IF r.review THEN s ELSE unpublished
               IN  Append([v \in DOMAIN before |-> IF Retired(before[v]) THEN Superseded(before[v]) ELSE before[v]],
                          [status |-> IF r.review THEN "PENDING_REVIEW" ELSE "APPROVED", moderated |-> ~r.review])
          [] r.pc = "APPROVE" -> [unpublished EXCEPT ![r.version] = Moderated("APPROVED")]
          [] r.pc = "REJECT" -> [s EXCEPT ![r.version] = Moderated("REJECTED")]
          [] r.pc = "RESTORE" -> [s EXCEPT ![r.version] = Moderated("APPROVED")]
          [] r.pc = "SUSPEND" \/ (r.pc = "SUSPEND_AD" /\ CanSuspend(r.read)) ->
               [s EXCEPT ![r.version] = Moderated("SUSPENDED")]
          [] OTHER -> s

\* Fault: a suspended revision stays the campaign's active one.
ActiveUntouched(r) ==
    IF r.pc \in {"APPROVE", "RESTORE"} THEN r.version
    ELSE IF r.pc = "create" /\ ~r.review THEN r.top + 1 ELSE active[r.campaign]

ActiveAfter(r) ==
    IF r.pc \in {"APPROVE", "RESTORE"} THEN r.version
    ELSE IF r.pc = "create" /\ ~r.review THEN r.top + 1
    ELSE IF r.pc \in {"SUSPEND", "SUSPEND_AD"} /\ r.active = r.version THEN 0
    ELSE active[r.campaign]

Commit(q) ==
    LET r == request[q]
        c == r.campaign
    IN  /\ r.pc \notin {"idle", "clear"}
        /\ Unchanged(r)
        /\ revs' = [revs EXCEPT ![c] = Written(r)]
        /\ active' = [active EXCEPT ![c] = ActiveAfter(r)]
        /\ shown' = IF ActiveAfter(r) = 0 THEN shown ELSE shown \union {Revision(c, ActiveAfter(r))}
        /\ open' = IF r.pc \in {"SUSPEND_AD", "DISMISS"} THEN open \ {Revision(c, r.version)} ELSE open
        /\ request' = [request EXCEPT ![q] = [pc |-> "clear"]]
        /\ UNCHANGED <<paused, review, rank, synced, resolver, cache, served>>

(* A conflict rolls the transaction back and answers 409.                   *)
Conflict(q) ==
    /\ request[q].pc \notin {"idle", "clear"}
    /\ ~Unchanged(request[q])
    /\ request' = [request EXCEPT ![q] = Waiting]
    /\ UNCHANGED <<rowVars, resolver, cache, served>>

ClearResolverCache(q) ==
    /\ request[q].pc = "clear"
    /\ cache' = NoEntry
    /\ request' = [request EXCEPT ![q] = Waiting]
    /\ UNCHANGED <<rowVars, resolver, served>>

(* updateCampaign: one update.                                              *)
UpdateCampaign(q, c) ==
    /\ request[q] = Waiting /\ revs[c] # <<>>
    /\ paused' = [paused EXCEPT ![c] = ~@]
    /\ request' = [request EXCEPT ![q] = [pc |-> "clear"]]
    /\ UNCHANGED <<revs, active, review, rank, synced, open, shown, resolver, cache, served>>

(* report; a revision need not be public.                                   *)
Report(c, v) ==
    /\ v \in 1 .. Len(revs[c])
    /\ Revision(c, v) \notin open
    /\ open' = open \union {Revision(c, v)}
    /\ UNCHANGED <<revs, active, paused, review, rank, synced, shown, request, resolver, cache, served>>

UpdateKeywordMarketReview ==
    /\ review' = ~review
    /\ UNCHANGED <<revs, active, paused, rank, synced, open, shown, request, resolver, cache, served>>

(* The indexer moves positions and its checkpoint.                          *)
PositionsMove(c, n) ==
    /\ rank[c] # n
    /\ n # 0 => \A d \in Campaigns : rank[d] # n
    /\ rank' = [rank EXCEPT ![c] = n]
    /\ UNCHANGED <<revs, active, paused, review, synced, open, shown, request, resolver, cache, served>>

IndexerFallsBehind ==
    /\ synced' = ~synced
    /\ UNCHANGED <<revs, active, paused, review, rank, open, shown, request, resolver, cache, served>>

-----------------------------------------------------------------------------
(* The resolver.                                                            *)

Running(c) == ~paused[c] /\ active[c] # 0 /\ Status(c, active[c]) = "APPROVED"

(* resolveCandidates from the campaigns on, and selectEligibleAd: the first *)
(* running campaign by the places in p.                                     *)
Selected(p) ==
    LET eligible == {c \in Campaigns : p[c] > 0 /\ Running(c)}
    IN  IF eligible = {} THEN None
        ELSE LET best == CHOOSE c \in eligible : \A d \in eligible : p[d] <= p[c]
             IN  Revision(best, active[best])

\* The advertisement to show now.
Winner == Selected(rank)

\* Fault: an entry lives until it is cleared.
LiveForever(e) == e.held

Live(e) == e.held /\ e.age < Ttl

ServeCached ==
    /\ resolver = Waiting
    /\ Live(cache)
    /\ served' = [cached |-> TRUE, stale |-> cache.stale, took |-> 0]
    /\ UNCHANGED <<rowVars, request, resolver, cache>>

(* The snapshot and the time are taken before the rows are read; a chain    *)
(* that is not SYNCED is not asked.                                         *)
BeginResolve ==
    /\ resolver = Waiting
    /\ ~Live(cache)
    /\ resolver' = IF synced THEN [pc |-> "positions", age |-> 0]
                   ELSE [pc |-> "found", ad |-> None, age |-> 0, stale |-> 0]
    /\ UNCHANGED <<rowVars, request, cache, served>>

(* resolveCandidates, its first query; no position, no advertisement.       *)
ReadPositions ==
    /\ resolver.pc = "positions"
    /\ resolver' = IF \A c \in Campaigns : rank[c] = 0
                   THEN [pc |-> "found", ad |-> None, age |-> resolver.age, stale |-> 0]
                   ELSE [pc |-> "campaigns", places |-> rank, age |-> resolver.age, waited |-> 0]
    /\ UNCHANGED <<rowVars, request, cache, served>>

(* The second query.  An answer that is not the one to show is as stale as  *)
(* the positions it was selected by.                                        *)
ReadCampaigns ==
    /\ resolver.pc = "campaigns"
    /\ LET ad == Selected(resolver.places)
       IN  resolver' = [pc |-> "found", ad |-> ad, age |-> resolver.age,
                        stale |-> IF ad \in {None, Winner} THEN 0 ELSE resolver.waited]
    /\ UNCHANGED <<rowVars, request, cache, served>>

\* Fault: the entry's life starts when it is stored.
StoredAge(r) == 0

EntryAge(r) == r.age

(* The request that resolved is answered with what it found, however long   *)
(* that took.                                                               *)
StoreAndServe ==
    /\ resolver.pc = "found"
    /\ cache' = [held |-> TRUE, ad |-> resolver.ad, age |-> EntryAge(resolver), stale |-> resolver.stale]
    /\ served' = [cached |-> FALSE, stale |-> resolver.stale, took |-> resolver.age]
    /\ resolver' = Waiting
    /\ UNCHANGED <<rowVars, request>>

Older(n) == IF n > Ttl THEN n ELSE n + 1
StaleBy(e) == IF e.ad \in {None, Winner} THEN 0 ELSE Older(e.stale)

(* One tick of the clock; stale counts the ticks since the advertisement    *)
(* was last the one to show.                                                *)
Tick ==
    /\ cache.held \/ resolver # Waiting
    /\ cache' = IF ~cache.held THEN cache
                ELSE IF cache.age >= Ttl THEN NoEntry
                ELSE [cache EXCEPT !.age = Older(@), !.stale = StaleBy(cache)]
    /\ resolver' = CASE resolver.pc = "idle" -> resolver
                     [] resolver.pc = "positions" -> [resolver EXCEPT !.age = Older(@)]
                     [] resolver.pc = "campaigns" -> [resolver EXCEPT !.age = Older(@), !.waited = Older(@)]
                     [] resolver.pc = "found" -> [resolver EXCEPT !.age = Older(@), !.stale = StaleBy(resolver)]
    /\ UNCHANGED <<rowVars, request, served>>

-----------------------------------------------------------------------------
CampaignsNext ==
    \/ \E q \in Requests :
          \/ \E c \in Campaigns :
                \/ Len(revs[c]) < MaxVersions /\ BeginRevision(q, c)
                \/ \E v \in 1 .. MaxVersions,
                      action \in {"APPROVE", "REJECT", "SUSPEND", "RESTORE", "SUSPEND_AD", "DISMISS"} :
                         BeginModeration(q, c, v, action)
                \/ UpdateCampaign(q, c)
          \/ Commit(q) \/ Conflict(q) \/ ClearResolverCache(q)
    \/ \E c \in Campaigns :
          \/ \E v \in 1 .. MaxVersions : Report(c, v)
          \/ \E n \in {0} \union Ranks : PositionsMove(c, n)
    \/ UpdateKeywordMarketReview \/ IndexerFallsBehind
    \/ ServeCached \/ BeginResolve \/ ReadPositions \/ ReadCampaigns \/ StoreAndServe \/ Tick

CampaignsSpec == CampaignsInit /\ [][CampaignsNext]_adVars

-----------------------------------------------------------------------------
(* However moderation, reports and new revisions cross: a campaign's active *)
(* revision is its one approved revision, at most one waits for review, and *)
(* a click is redirected only to a revision that was once published.        *)
Clickable(c, v) == Status(c, v) = "APPROVED" \/ (Status(c, v) = "SUPERSEDED" /\ revs[c][v].moderated)

ModerationInv ==
    \A c \in Campaigns :
       /\ \A v \in DOMAIN revs[c] :
             /\ Status(c, v) = "APPROVED" <=> active[c] = v
             /\ Clickable(c, v) => Revision(c, v) \in shown
             /\ \A w \in DOMAIN revs[c] :
                   Status(c, v) = "PENDING_REVIEW" /\ Status(c, w) = "PENDING_REVIEW" => v = w
       /\ active[c] \in {0} \union DOMAIN revs[c]

(* The cache hands out no advertisement RESOLVER_CACHE_MS or longer after   *)
(* it stopped being the one to show, although a resolution that read before *)
(* the change may store after the cache was cleared; the request that       *)
(* resolves is answered with nothing older than its own reads.              *)
ServedIsRecent ==
    IF served.cached THEN served.stale < Ttl ELSE served.stale <= served.took
=============================================================================
