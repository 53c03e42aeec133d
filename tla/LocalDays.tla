----------------------------- MODULE LocalDays -----------------------------
(***************************************************************************)
(* Local calendar days (core/timeutil.py, analysis/activity.py).  Times are *)
(* minutes since some midnight UTC, days are counted from it.  A zone has   *)
(* one change of its UTC offset, such as the start or the end of daylight   *)
(* saving time: [before, after, change].                                    *)
(***************************************************************************)
EXTENDS Integers

Minutes == 1440

\* A time zone's offset is always less than a day.
Offset == 1 - Minutes .. Minutes - 1

TimeZone == [before : Offset, after : Offset, change : Int]

\* astimezone(tz): the wall clock at an instant.
Wall(zone, ts) == ts + (IF ts < zone.change THEN zone.before ELSE zone.after)

LocalDate(zone, ts) == Wall(zone, ts) \div Minutes
LocalHour(zone, ts) == (Wall(zone, ts) % Minutes) \div 60

\* The wall clock's two readings of the change, the lower and the higher.  In
\* between, the wall clock is skipped or shows everything twice.
Low(zone)  == zone.change + (IF zone.before < zone.after THEN zone.before ELSE zone.after)
High(zone) == zone.change + (IF zone.before < zone.after THEN zone.after ELSE zone.before)

\* datetime(day, tzinfo=zone).astimezone(UTC): with fold = 0 the offset before the
\* change holds for everything the wall clock shows up to the higher reading.
Midnight(zone, day) ==
  day * Minutes - (IF day * Minutes < High(zone) THEN zone.before ELSE zone.after)

\* Mutant: a day has 24 hours.
LocalDayRange_Fixed(zone, day) ==
  [start |-> Midnight(zone, day), end |-> Midnight(zone, day) + Minutes]

\* local_day_range; DateRange refuses it when it is empty.
LocalDayRange(zone, day) ==
  [start |-> Midnight(zone, day), end |-> Midnight(zone, day + 1)]

IsDateRange(r) == r.start < r.end

\* local_date_range
LocalDateRange(zone, first, last) ==
  [start |-> LocalDayRange(zone, first).start, end |-> LocalDayRange(zone, last).end]

\* DateRange.contains
Contains(r, ts) == r.start <= ts /\ ts < r.end

\* Mutant: the rows are read by the dates as they are.
ActivityRows_Exact(first, last) == [start |-> first * Minutes, end |-> (last + 1) * Minutes]

\* activity_for: the UTC dates from a day before to a day after.
ActivityRows(first, last) ==
  [start |-> (first - 1) * Minutes, end |-> (last + 2) * Minutes]

\* build_activity: one day is shown by the hour, anything longer by the day.
Label(zone, ts, first, last) ==
  IF first = last THEN LocalHour(zone, ts) ELSE LocalDate(zone, ts)

Labels(first, last) == IF first = last THEN 0 .. 23 ELSE first .. last
=============================================================================
