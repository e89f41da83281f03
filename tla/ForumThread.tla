------------------------------ MODULE ForumThread ------------------------------
(* The responses of one topic on its page (use-forum-replies.ts): the newest page  *)
(* comes with the topic, earlier ones are loaded by a button or until the reply a   *)
(* link points to is found, and the page is rendered again whenever something was   *)
(* posted.  Replies are numbered in the order of (createdAt, id); a removed one      *)
(* keeps its place.  The server's pages are those of ForumService.replies.          *)
EXTENDS Naturals, Sequences, SequencesExt

CONSTANTS MaxReplies, EarlierLimit, TargetLimit,
          MaxRefreshes  \* the page rendered again, and links followed

VARIABLES
  top,      \* replies on the server, 1..top
  shown,    \* replies
  cursor,   \* nextCursor: a reply, or None
  hash,     \* the reply the address points to, or None
  earlier,  \* the request of loadEarlier
  target,   \* the request of loadTargetReply
  overtaken,\* an answer of loadEarlier was late, see Overtakes; a history variable
  refreshes

threadVars == <<top, shown, cursor, hash, earlier, target, overtaken, refreshes>>

None == 0
NoRequest == [pc |-> "idle", cursor |-> None, items |-> <<>>, next |-> None, late |-> FALSE]
NoTarget == [pc |-> "idle", reply |-> None, cursor |-> None, loaded |-> <<>>, ends |-> 0]

\* A page of at most limit replies before a cursor, oldest first, and the cursor of the
\* next one; one more is read to see whether there is a next.
PageBefore(last, limit) ==
  LET first == IF last > limit THEN last - limit + 1 ELSE 1 IN
  [items |-> [i \in 1..(last - first + 1) |-> first + i - 1],
   next |-> IF last > limit THEN first ELSE None]

Shows(reply) == \E i \in DOMAIN shown : shown[i] = reply
Without(replies, others) == SelectSeq(replies, LAMBDA r : \A i \in DOMAIN others : others[i] /= r)

\* handleHashChange: a target that is not shown is looked for from the cursor on.
Seeks(reply, replies, from) ==
  IF reply = None \/ from = None \/ (\E i \in DOMAIN replies : replies[i] = reply) THEN NoTarget
  ELSE [NoTarget EXCEPT !.pc = "sent", !.reply = reply, !.cursor = from]

ThreadInit ==
  LET page == PageBefore(top, EarlierLimit) IN
  /\ top \in 2..(MaxReplies - 1)
  /\ shown = page.items /\ cursor = page.next
  /\ hash \in 0..top /\ target = Seeks(hash, page.items, page.next)
  /\ earlier = NoRequest /\ overtaken = FALSE /\ refreshes = 0

-----------------------------------------------------------------------------
\* The effect is cleaned up before it runs again: its request is aborted.
KeepsTarget(new) == IF target.pc = "idle" THEN new ELSE target
Aborts(new) == new

\* A reply is posted, here or elsewhere; router.refresh renders what the server has.
Post ==
  /\ top < MaxReplies /\ top' = top + 1
  /\ UNCHANGED <<shown, cursor, hash, earlier, target, overtaken, refreshes>>

Refresh ==
  LET page == PageBefore(top, EarlierLimit) IN
  /\ refreshes < MaxRefreshes /\ refreshes' = refreshes + 1
  /\ shown' = page.items /\ cursor' = page.next
  /\ target' = Aborts(Seeks(hash, page.items, page.next))
  /\ earlier' = [earlier EXCEPT !.late = earlier.pc /= "idle"]
  /\ overtaken' = FALSE
  /\ UNCHANGED <<top, hash>>

FollowLink(reply) ==
  /\ refreshes < MaxRefreshes /\ refreshes' = refreshes + 1
  /\ hash /= reply /\ hash' = reply
  /\ target' = Aborts(Seeks(reply, shown, cursor))
  /\ UNCHANGED <<top, shown, cursor, earlier, overtaken>>

-----------------------------------------------------------------------------
(* loadEarlier: one at a time, whatever else changes the replies meanwhile. *)

LoadEarlier ==
  /\ earlier.pc = "idle" /\ cursor /= None
  /\ earlier' = [NoRequest EXCEPT !.pc = "sent", !.cursor = cursor]
  /\ UNCHANGED <<top, shown, cursor, hash, target, overtaken, refreshes>>

ReadEarlier ==
  LET page == PageBefore(earlier.cursor - 1, EarlierLimit) IN
  /\ earlier.pc = "sent"
  /\ earlier' = [earlier EXCEPT !.pc = "answered", !.items = page.items, !.next = page.next]
  /\ UNCHANGED <<top, shown, cursor, hash, target, overtaken, refreshes>>

Prepends(items) == items \o shown
Merges(items) == Without(items, shown) \o shown

EarlierEnds ==
  /\ earlier.pc = "answered" /\ earlier' = NoRequest
  /\ shown' = Merges(earlier.items) /\ cursor' = earlier.next
  /\ overtaken' = (overtaken \/ earlier.late)
  /\ target' = IF target.pc = "idle" THEN target ELSE [target EXCEPT !.ends = @ + 1]
  /\ UNCHANGED <<top, hash, refreshes>>

EarlierFails ==
  /\ earlier.pc /= "idle" /\ earlier' = NoRequest
  /\ UNCHANGED <<top, shown, cursor, hash, target, overtaken, refreshes>>

-----------------------------------------------------------------------------
(* loadTargetReply: pages are collected until one has the reply, then shown. *)

Collect ==
  LET page == PageBefore(target.cursor - 1, TargetLimit)
      found == \E i \in DOMAIN page.items : page.items[i] = target.reply
  IN
  /\ target.pc = "sent"
  /\ target' = [target EXCEPT !.loaded = page.items \o @, !.cursor = page.next,
                              !.pc = IF found \/ page.next = None THEN "loaded" ELSE "sent"]
  /\ UNCHANGED <<top, shown, cursor, hash, earlier, overtaken, refreshes>>

TargetEnds ==
  /\ target.pc = "loaded" /\ target' = NoTarget
  /\ shown' = target.loaded \o Without(shown, target.loaded) /\ cursor' = target.cursor
  /\ overtaken' = (overtaken \/ target.ends * EarlierLimit > TargetLimit)
  /\ UNCHANGED <<top, hash, earlier, refreshes>>

TargetFails ==
  /\ target.pc /= "idle" /\ target' = NoTarget
  /\ UNCHANGED <<top, shown, cursor, hash, earlier, overtaken, refreshes>>

ThreadNext ==
  \/ Post \/ Refresh \/ \E reply \in 0..top : FollowLink(reply)
  \/ LoadEarlier \/ ReadEarlier \/ EarlierEnds \/ EarlierFails
  \/ Collect \/ TargetEnds \/ TargetFails

ThreadSpec == ThreadInit /\ [][ThreadNext]_threadVars

-----------------------------------------------------------------------------
\* No reply is shown twice, however loadEarlier, a followed link and a refresh overlap.
ShownOnce == \A i, j \in DOMAIN shown : i < j => shown[i] /= shown[j]

\* The replies shown follow one another without a gap, and the cursor still leads to
\* every earlier one; unless an answer of loadEarlier outlived the page it was asked on,
\* or the button was used more often than a page of the link's search spans.
ThreadIsWhole ==
  ~overtaken =>
    /\ \A i \in 1..(Len(shown) - 1) : shown[i + 1] = shown[i] + 1
    /\ shown[1] > 1 => cursor >= shown[1] /\ cursor <= shown[Len(shown)]

ThreadInv == ShownOnce /\ ThreadIsWhole

=============================================================================
