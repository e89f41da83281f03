\* One proposal of two members, two blocks; two topics, members and categories,
\* two replies; one campaign with two revisions and two requests.
CONSTANTS
  Proposals = {"p1"}
  Voters = {"v1", "v2"}
  MinimumPre = 1
  HourlyLimit = 1
  LastBlock = 2
  MaxRevision = 1
  Topics = {t1, t2}
  Members = {m1, m2}
  Categories = {c1, c2}
  MaxReplies = 2
  TopicsPerHour = 1
  RepliesPerMinute = 1
  MaxDrafts = 1
  Campaigns = {"c1"}
  Requests = {q1, q2}
  Ranks = {1}
  MaxVersions = 2
  Ttl = 2
SPECIFICATION ContentSpec
INVARIANTS CommunityInv ForumBooks AdsInv
PROPERTY RulesHoldAtWriting
CONSTRAINT SmallEnough
SYMMETRY Symmetry
CHECK_DEADLOCK FALSE
