----------------------------- MODULE PublicLedger -----------------------------
(* What a visitor reads of one goal (src/apps/api/src/public/public.service.ts, *)
(* funding-presenter.ts): the dashboard of a month and the goal's page, built    *)
(* from several statements while the worker writes, and the pages of its         *)
(* contributions and periods (goal-contributions.tsx, monthly-goal-panel.tsx).   *)
(* Every unit of time is half a month.  The rows change as EscrowFunding's       *)
(* handlers and SafePayouts change them; amounts are counts of equal parts.  A   *)
(* rebuild of the projection is a matter of the lists: EscrowFunding has what it *)
(* does to the figures of a goal, and a dashboard read across one is torn.       *)
EXTENDS Integers, Sequences, SequencesExt, FiniteSets

CONSTANTS Payouts, MaxContributions, MaxTime, MaxRebuilds,
          PageSize  \* rows of a page

VARIABLES
  goal,     \* the row of fundingGoal
  periods,  \* the periods of the goal: [start, end, settled]
  known,    \* those in the rows of fundingGoalPeriod, 1..known
  rows,     \* confirmed contributions in the projection, 1..rows
  mined,    \* confirmed contributions of the chain
  payout,   \* the rows of payout: none, PROPOSED or EXECUTED, and whether it has the
            \* transaction and the date of its execution
  now,
  request,  \* a request for the goal's page
  list,     \* the rows a visitor has loaded: [kind, items, cursor, top]
  page,     \* the request of loadMore: its cursor and its answer
  rebuilds,
  visit     \* what the visitor of a behavior reads: "page" or "lists"

ledgerVars == <<goal, periods, known, rows, mined, payout, now, request, list, page, rebuilds, visit>>
worker == <<goal, periods, known, rows, mined, payout>>

Never == MaxTime + 10
Month(t) == t \div 2  \* monthFromQuery and utcMonthStart
MonthStart(m) == 2 * m
NextUtcMonthStart(m) == 2 * m + 2

NoGoalRead == [status |-> "none", ent |-> 0]
NoRequest == [pc |-> "idle", month |-> 0, goal |-> NoGoalRead, counted |-> FALSE, released |-> 0,
              reserved |-> 0, actual |-> 0, summed |-> FALSE, funded |-> 0, paid |-> 0]
NoPage == [pc |-> "idle", cursor |-> 0, items |-> <<>>, next |-> 0]
Row(status) == [status |-> status, dated |-> status = "EXECUTED"]
Count(status) == Cardinality({p \in Payouts : payout[p].status = status})

\* The history of rows that a list is of, newest last.
Rows(kind) == IF kind = "contributions" THEN rows ELSE known

\* The rows below a cursor, newest first, and the cursor after them: one row more
\* than a page is read to know whether another page follows.
Below(kind, cursor) == IF cursor = 0 THEN Rows(kind) ELSE cursor - 1
Items(last) == [i \in 1..(IF last < PageSize THEN last ELSE PageSize) |-> last - i + 1]

\* The cursor is the row that was read to see whether there is more.
CursorOfExtraRow(last) == IF last > PageSize THEN last - PageSize ELSE 0

NextCursor(last) == IF last > PageSize THEN last - PageSize + 1 ELSE 0

FirstPage(kind) ==
  [kind |-> kind, items |-> Items(Rows(kind)), cursor |-> NextCursor(Rows(kind)), top |-> Rows(kind),
   rebuilt |-> rebuilds]

LedgerInit ==
  /\ \E type \in {"ONE_TIME", "MONTHLY"}, start \in 0..1, length \in 1..3 :
       /\ type = "MONTHLY" => length = 2
       /\ goal = [type |-> type, status |-> "OPEN", published |-> start, deadline |-> start + length,
                  closed |-> Never, stop |-> FALSE, ent |-> 0]
       /\ periods = IF type = "MONTHLY" THEN <<[start |-> start, end |-> start + 2, settled |-> FALSE]>>
                    ELSE <<>>
       /\ now = start
  /\ known = Len(periods) /\ rows = 0 /\ mined = 0 /\ payout = [p \in Payouts |-> Row("none")]
  /\ request = NoRequest /\ page = NoPage /\ rebuilds = 0
  /\ visit \in {"page", "lists"}
  /\ \E kind \in {"contributions", "periods"} :
       (visit = "page" => kind = "periods") /\ list = FirstPage(kind)

Reader == <<request, list, page>>

-----------------------------------------------------------------------------
(* The worker; each step is one transaction of it (external to this module). *)

\* No rebuild is under way.
Projected == rows = mined /\ known = Len(periods)

Contribute ==
  /\ goal.status = "OPEN" /\ now < goal.deadline /\ Projected /\ mined < MaxContributions
  /\ mined' = mined + 1 /\ rows' = rows + 1
  /\ UNCHANGED <<goal, periods, known, payout, now, Reader, rebuilds>>

CloseGoal ==
  /\ goal.status = "OPEN" /\ goal.type = "ONE_TIME" /\ Projected
  /\ goal' = [goal EXCEPT !.status = "CLOSED", !.closed = now, !.ent = mined]
  /\ UNCHANGED <<periods, known, rows, mined, payout, now, Reader, rebuilds>>

CancelGoal ==
  /\ goal.status = "OPEN" /\ Projected
  /\ goal' = [goal EXCEPT !.status = "CANCELLED", !.closed = now]
  /\ UNCHANGED <<periods, known, rows, mined, payout, now, Reader, rebuilds>>

RequestStop ==
  /\ goal.status = "OPEN" /\ goal.type = "MONTHLY" /\ ~goal.stop /\ now < goal.deadline /\ Projected
  /\ goal' = [goal EXCEPT !.stop = TRUE]
  /\ UNCHANGED <<periods, known, rows, mined, payout, now, Reader, rebuilds>>

SettlePeriod ==
  LET settled == [periods EXCEPT ![Len(periods)].settled = TRUE] IN
  /\ goal.status = "OPEN" /\ goal.type = "MONTHLY" /\ goal.deadline <= now /\ Projected
  /\ IF goal.stop
     THEN goal' = [goal EXCEPT !.ent = mined, !.status = "CLOSED", !.closed = now] /\ periods' = settled
     ELSE /\ goal' = [goal EXCEPT !.ent = mined, !.deadline = @ + 2]
          /\ periods' = Append(settled, [start |-> goal.deadline, end |-> goal.deadline + 2, settled |-> FALSE])
  /\ known' = Len(periods')
  /\ UNCHANGED <<rows, mined, payout, now, Reader, rebuilds>>

\* A payout is reserved, given up, or released, which writes its transaction and
\* date with the status; each is of one part.
Reserve(p) ==
  /\ payout[p].status = "none" /\ Count("PROPOSED") + Count("EXECUTED") < goal.ent
  /\ payout' = [payout EXCEPT ![p] = Row("PROPOSED")]
  /\ UNCHANGED <<goal, periods, known, rows, mined, now, Reader, rebuilds>>

GiveUp(p) ==
  /\ payout[p].status = "PROPOSED" /\ payout' = [payout EXCEPT ![p] = Row("none")]
  /\ UNCHANGED <<goal, periods, known, rows, mined, now, Reader, rebuilds>>

Release(p) ==
  /\ payout[p].status = "PROPOSED" /\ payout' = [payout EXCEPT ![p] = Row("EXECUTED")]
  /\ UNCHANGED <<goal, periods, known, rows, mined, now, Reader, rebuilds>>

\* A reorganization clears contributions and periods, which are projected again
\* one event after the other.
Rebuild ==
  /\ rebuilds < MaxRebuilds /\ rows + known > 0 /\ rebuilds' = rebuilds + 1
  /\ rows' = 0 /\ known' = 0
  /\ UNCHANGED <<goal, periods, mined, payout, now, Reader>>

Reproject ==
  /\ \/ rows < mined /\ rows' = rows + 1 /\ UNCHANGED known
     \/ known < Len(periods) /\ known' = known + 1 /\ UNCHANGED rows
  /\ UNCHANGED <<goal, periods, mined, payout, now, Reader, rebuilds>>

Tick ==
  /\ now < MaxTime /\ now' = now + 1
  /\ UNCHANGED <<worker, Reader, rebuilds>>

-----------------------------------------------------------------------------
(* The page of the goal. *)

\* The goals of a month.
Listed(g, ps, m) ==
  IF g.type = "ONE_TIME"
  THEN /\ g.published < NextUtcMonthStart(m)
       /\ g.deadline > MonthStart(m) \/ (g.closed # Never /\ g.closed >= MonthStart(m))
  ELSE \E i \in 1..Len(ps) :
         /\ ps[i].start < NextUtcMonthStart(m)
         /\ ps[i].end > MonthStart(m) \/ (g.status = "OPEN" /\ ~ps[i].settled)

\* The month of a goal's page that names none.
DefaultMonth(g, ps) ==
  IF g.type = "MONTHLY"
  THEN IF g.status = "OPEN" THEN Month(now) ELSE Month(ps[Len(ps)].start)
  ELSE Month(g.deadline)

ReadDefaultMonth ==
  /\ request.pc = "idle"
  /\ request' = [NoRequest EXCEPT !.pc = "goals", !.month = DefaultMonth(goal, periods)]
  /\ UNCHANGED <<worker, now, list, page, rebuilds>>

\* dashboard: the goals first, ...
ReadGoals ==
  /\ request.pc = "goals"
  /\ request' = IF Listed(goal, periods, request.month)
                THEN [request EXCEPT !.pc = "sums", !.goal = [status |-> goal.status, ent |-> goal.ent]]
                ELSE NoRequest  \* not found
  /\ UNCHANGED <<worker, now, list, page, rebuilds>>

\* The statements that follow run at once and are answered in any order.
Answered(r) == [r EXCEPT !.pc = IF r.counted /\ r.summed THEN "shown" ELSE "sums"]

\* ... what was contributed ...
ReadFunded ==
  /\ request.pc = "sums" /\ ~request.summed
  /\ request' = Answered([request EXCEPT !.summed = TRUE, !.funded = rows])
  /\ UNCHANGED <<worker, now, list, page, rebuilds>>

Counted(released, reserved) ==
  [request EXCEPT !.counted = TRUE, !.released = released, !.reserved = reserved,
                  !.actual = goal.ent - Count("EXECUTED") - Count("PROPOSED")]

\* ... and what was paid and what is reserved for payouts.
ReadPayouts ==
  /\ request.pc = "sums" /\ ~request.counted
  /\ request' = Answered(Counted(Count("EXECUTED"), Count("PROPOSED")))
  /\ UNCHANGED <<worker, now, list, page, rebuilds>>

\* goal: the payouts once more, for the list on the page, which takes those with a
\* transaction and a date.
ReadPaid ==
  /\ request.pc = "shown"
  /\ request' = [request EXCEPT !.pc = "page",
       !.paid = Cardinality({p \in Payouts : payout[p].status = "EXECUTED" /\ payout[p].dated})]
  /\ UNCHANGED <<worker, now, list, page, rebuilds>>

Leave ==
  /\ request.pc = "page" /\ request' = NoRequest
  /\ UNCHANGED <<worker, now, list, page, rebuilds>>

\* Only what was paid is taken off.
AvailableBeforeReserved(r) == IF r.goal.ent > r.released THEN r.goal.ent - r.released ELSE 0

\* mapPublicFundingGoal
Available(r) == IF r.goal.ent > r.released + r.reserved THEN r.goal.ent - r.released - r.reserved ELSE 0
ShownAsSettled(r) == r.goal.status = "CLOSED" /\ r.released = r.goal.ent

-----------------------------------------------------------------------------
(* The lists. *)

\* The page is opened again.
Open ==
  /\ page.pc = "idle" /\ \E kind \in {"contributions", "periods"} : list' = FirstPage(kind)
  /\ UNCHANGED <<worker, now, request, page, rebuilds>>

LoadMore ==
  /\ page.pc = "idle" /\ list.cursor # 0
  /\ page' = [NoPage EXCEPT !.pc = "sent", !.cursor = list.cursor]
  /\ UNCHANGED <<worker, now, request, list, rebuilds>>

\* contributions and periods read what is below the cursor at this moment.
ReadPage ==
  LET below == IF page.cursor - 1 <= Rows(list.kind) THEN page.cursor - 1 ELSE Rows(list.kind) IN
  /\ page.pc = "sent"
  /\ page' = [page EXCEPT !.pc = "read", !.items = Items(below), !.next = NextCursor(below)]
  /\ UNCHANGED <<worker, now, request, list, rebuilds>>

LoadMoreEnds ==
  /\ page.pc = "read" /\ page' = NoPage
  /\ list' = [list EXCEPT !.items = @ \o page.items, !.cursor = page.next]
  /\ UNCHANGED <<worker, now, request, rebuilds>>

LoadMoreFails ==
  /\ page.pc # "idle" /\ page' = NoPage
  /\ UNCHANGED <<worker, now, request, list, rebuilds>>

LedgerNext == UNCHANGED visit /\ (
  \/ Contribute \/ CloseGoal \/ CancelGoal \/ RequestStop \/ SettlePeriod \/ Tick
  \/ visit = "page" /\ \/ \E p \in Payouts : Reserve(p) \/ GiveUp(p) \/ Release(p)
                       \/ ReadDefaultMonth \/ ReadGoals \/ ReadFunded \/ ReadPayouts
                       \/ ReadPaid \/ Leave
  \/ visit = "lists" /\ \/ Rebuild \/ Reproject
                        \/ Open \/ LoadMore \/ ReadPage \/ LoadMoreEnds \/ LoadMoreFails)

LedgerSpec == LedgerInit /\ [][LedgerNext]_ledgerVars

-----------------------------------------------------------------------------
(* Properties. *)

\* Although the goal, its contributions and its payouts are read one after the
\* other while handlers and jobs write, the page never shows more as available than
\* there was when the payouts were read, nor an entitlement above what it shows as
\* contributed; it calls no goal settled before everything was paid, and it lists
\* every payout it counts (dashboard, goal, mapPublicFundingGoal).
PageIsCovered ==
  /\ request.counted =>
       /\ Available(request) <= request.actual
       /\ ShownAsSettled(request) => request.actual = 0
       /\ request.pc = "page" => request.paid >= request.released
  /\ request.summed => request.goal.ent <= request.funded

\* A projected goal is on the dashboard of the month its page asks for, whatever
\* happens to its periods; a deadline on the first moment of a month aside.  An open goal
\* that takes contributions is on the dashboard of the present month
\* (dashboard, goal).
GoalIsFound ==
  /\ goal.type = "MONTHLY" \/ goal.deadline % 2 # 0 => Listed(goal, periods, DefaultMonth(goal, periods))
  /\ goal.status = "OPEN" /\ (goal.type = "MONTHLY" \/ now < goal.deadline)
       => Listed(goal, periods, Month(now))

\* Page by page a visitor sees every row once, from the first one loaded down to
\* the oldest, while others are added above; a rebuild of the projection may cut
\* the list short but repeats nothing (contributions, periods, loadMore).
ListIsComplete ==
  /\ \A i, j \in 1..Len(list.items) : i < j => list.items[i] > list.items[j]
  /\ list.rebuilt = rebuilds /\ list.cursor = 0 => Len(list.items) = list.top

LedgerInv == PageIsCovered /\ GoalIsFound /\ ListIsComplete
=============================================================================
