--------------------------- MODULE MonthlyCalendar ---------------------------
(* The calendar of a monthly goal (src/packages/shared/src/monthly-schedule.ts): *)
(* the dates a form offers and previews, the date the API accepts, and the       *)
(* boundaries the indexer and the settlement request compute with their own      *)
(* arithmetic, beside those the contract keeps.                                  *)
(* A midnight is the number of its day since 1970, an instant counts half days.  *)
EXTENDS Integers, FiniteSets
LOCAL INSTANCE FiniteSetsExt

CONSTANTS Years, Months, \* forms are opened before and at the start of these months
          MaxPeriods     \* bound: periods of a goal

VARIABLES
  now,
  form,  \* the form of a draft: when it was opened, and its custom date or 0
  goal   \* the goal of the contract, with the deadline of the projection

calendarVars == <<now, form, goal>>

-----------------------------------------------------------------------------
(* Date of the language: the day a year starts on, and its months.           *)
DayFromYear(y) == 365 * (y - 1970) + (y - 1969) \div 4 - (y - 1901) \div 100 + (y - 1601) \div 400
LeapDay(y) == DayFromYear(y + 1) - DayFromYear(y) - 365
DaysBefore(m, leapDay) ==
  <<0, 31, 59, 90, 120, 151, 181, 212, 243, 273, 304, 334>>[m + 1] + (IF m > 1 THEN leapDay ELSE 0)
FirstOfMonth(y, m) == DayFromYear(y) + DaysBefore(m, LeapDay(y))
Year(n) == CHOOSE y \in (1970 + n \div 366)..(1970 + n \div 365) :
             DayFromYear(y) <= n /\ n < DayFromYear(y + 1)
Month(n) ==
  LET day == n - DayFromYear(Year(n))
      leapDay == LeapDay(Year(n))
  IN Cardinality({m \in 1..11 : DaysBefore(m, leapDay) <= day})
Day(n) == n - FirstOfMonth(Year(n), Month(n)) + 1
UtcDate(y, m, day) == FirstOfMonth(y, m) + day - 1
DayOf(instant) == instant \div 2

-----------------------------------------------------------------------------
IsGregorianLeapYear(y) == y % 4 = 0 /\ (y % 100 # 0 \/ y % 400 = 0)
DaysInUtcMonth(y, m) ==
  IF m = 1 THEN (IF IsGregorianLeapYear(y) THEN 29 ELSE 28) ELSE IF m \in {3, 5, 8, 10} THEN 30 ELSE 31

\* The day of the current boundary, once clamped, is carried on.
NextFromBoundary(boundary, settlementDay) ==
  LET m == (Month(boundary) + 1) % 12
      y == Year(boundary) + (IF Month(boundary) = 11 THEN 1 ELSE 0)
      last == DaysInUtcMonth(y, m)
  IN UtcDate(y, m, IF Day(boundary) < last THEN Day(boundary) ELSE last)

NextMonthlySettlementUtc(boundary, settlementDay) ==
  LET m == (Month(boundary) + 1) % 12
      y == Year(boundary) + (IF Month(boundary) = 11 THEN 1 ELSE 0)
      last == DaysInUtcMonth(y, m)
  IN UtcDate(y, m, IF settlementDay < last THEN settlementDay ELSE last)

DefaultFirstSettlementUtc(instant) ==
  LET today == DayOf(instant) IN
  NextMonthlySettlementUtc(FirstOfMonth(Year(today), Month(today)), Day(today))

\* monthlyOverrideDateBounds: whole days, 7 to 60 days from now.
BoundsCutShort(instant) == (DayOf(instant) + 7)..(DayOf(instant) + 60)
OverrideBounds(instant) ==
  (DayOf(instant) + 7 + (instant % 2))..(DayOf(instant) + 60)

\* validateCadence, and the contract's own FirstSettlementOutOfRange.
InRange(date, instant) == 2 * date - instant >= 2 * 7 /\ 2 * date - instant <= 2 * 60

\* monthlyPeriodPreview: the i-th of the dates shown.
Preview(i) ==
  LET first == IF form.custom # 0 THEN form.custom ELSE DefaultFirstSettlementUtc(form.opened)
      day == IF form.custom # 0 THEN Day(form.custom) ELSE Day(DayOf(form.opened))
      second == NextMonthlySettlementUtc(first, day)
  IN <<first, second, NextMonthlySettlementUtc(second, day)>>[i]

\* The loop of settlementRequest.
PeriodsDue ==
  LET boundary[i \in 1..MaxPeriods] ==
        IF i = 1 THEN goal.deadline ELSE NextMonthlySettlementUtc(boundary[i - 1], goal.day)
      due == Cardinality({i \in 1..MaxPeriods : 2 * boundary[i] <= now})
  IN IF goal.stop /\ due > 1 THEN 1 ELSE due

-----------------------------------------------------------------------------
(* The boundary the contract goes to: the next day, 28 to 31 days on, that is   *)
(* the settlement day or the last day of a month too short for it.              *)
IsSettlementDay(n, day) == Day(n) = day \/ (Day(n) < day /\ Day(n + 1) = 1)
Following(n, day) == Min({k \in (n + 28)..(n + 31) : IsSettlementDay(k, day)})

\* The contract's default: the settlement day of the month after this one.
FollowingMonth(n) == Min({k \in n..(n + 61) : Month(k) # Month(n) /\ IsSettlementDay(k, Day(n))})

NoGoal == [start |-> 0, day |-> 0, boundary |-> 0, deadline |-> 0, index |-> 0, stop |-> FALSE]

\* Forms are opened on the first day of a month and the three days before.
CalendarInit ==
  /\ \E y \in Years, m \in Months, back \in -3..0, half \in 0..1 : now = 2 * (FirstOfMonth(y, m) + back) + half
  /\ form = [opened |-> now, custom |-> 0]
  /\ goal = NoGoal

ChooseDate ==
  /\ goal = NoGoal /\ form.custom = 0 /\ form.opened = now
  /\ \E date \in OverrideBounds(now) :
       /\ Day(date) \in {29, 31} \/ {date - 1, date + 1} \ OverrideBounds(now) # {}
       /\ form' = [form EXCEPT !.custom = date]
  /\ UNCHANGED <<now, goal>>

\* The form, the draft or the signature waits.
Waits ==
  /\ goal = NoGoal /\ now = form.opened
  /\ now' \in {now + 1, now + 2 * 54}
  /\ UNCHANGED <<form, goal>>

\* prepareGoalPublication refuses a date out of range; MonthlyGoalCreated is projected.
Publish ==
  /\ goal = NoGoal
  /\ form.custom # 0 => InRange(form.custom, now)
  /\ LET first == IF form.custom # 0 THEN form.custom ELSE FollowingMonth(DayOf(now)) IN
     goal' = [NoGoal EXCEPT !.start = now, !.boundary = first, !.deadline = first, !.index = 1,
                            !.day = Day(IF form.custom # 0 THEN first ELSE DayOf(now))]
  /\ UNCHANGED <<now, form>>

\* Time passes to an end of a period or to just before it.
Pass ==
  /\ goal # NoGoal /\ now < 2 * goal.boundary
  /\ \E before \in 0..1 :
       \/ now' = 2 * goal.boundary - before
       \/ now' = 2 * Following(goal.boundary, goal.day) - before
  /\ now' > now
  /\ UNCHANGED <<form, goal>>

RequestStop ==
  /\ goal # NoGoal /\ ~goal.stop /\ now < 2 * goal.boundary /\ goal' = [goal EXCEPT !.stop = TRUE]
  /\ UNCHANGED <<now, form>>

\* MonthlyPeriodSettled: the contract and its handler each find the next end.
Settle ==
  /\ goal # NoGoal /\ ~goal.stop /\ 2 * goal.boundary <= now /\ goal.index < MaxPeriods
  /\ goal' = [goal EXCEPT !.index = @ + 1, !.boundary = Following(@, goal.day),
                          !.deadline = NextMonthlySettlementUtc(@, goal.day)]
  /\ UNCHANGED <<now, form>>

CalendarNext == ChooseDate \/ Waits \/ Publish \/ Pass \/ RequestStop \/ Settle

CalendarSpec == CalendarInit /\ [][CalendarNext]_calendarVars

-----------------------------------------------------------------------------
(* The end of a period computed by the handler of MonthlyPeriodSettled is     *)
(* the contract's, however short the months in between (event-handlers.ts).   *)
DeadlineIsTheContracts == goal.deadline = goal.boundary

(* What the form previewed becomes true when the goal is published on the day *)
(* it was opened, or with a date of its own (monthlyPeriodPreview).           *)
PreviewComesTrue ==
  goal # NoGoal /\ (form.custom # 0 \/ DayOf(form.opened) = DayOf(goal.start)) /\ goal.index <= 3
    => goal.boundary = Preview(goal.index)

(* The form offers exactly the dates the API accepts at that moment           *)
(* (monthlyOverrideDateBounds, validateCadence).                              *)
OfferedIsAccepted ==
  OverrideBounds(now) = {date \in (DayOf(now) + 5)..(DayOf(now) + 62) : InRange(date, now)}

(* The settlement request announces the periods the contract would settle     *)
(* (settlementRequest).                                                       *)
DueIsSettled ==
  goal # NoGoal =>
    LET end == Following(goal.boundary, goal.day) IN
    /\ (PeriodsDue >= 1) = (2 * goal.boundary <= now)
    /\ (PeriodsDue >= 2) = (2 * end <= now /\ ~goal.stop)

CalendarInv == DeadlineIsTheContracts /\ PreviewComesTrue /\ OfferedIsAccepted /\ DueIsSettled
=============================================================================
