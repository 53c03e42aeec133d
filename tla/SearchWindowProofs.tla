------------------------- MODULE SearchWindowProofs -------------------------
(***************************************************************************)
(* Proofs that the range of some local days holds exactly their instants,   *)
(* that a fetch stores exactly the messages of the range in any zones for   *)
(* which the widened search reaches far enough, and that the timeline       *)
(* counts what was fetched.                                                 *)
(***************************************************************************)
EXTENDS SearchWindow, TLAPS

\* The dates the search asks for.
Since  == ImapDate(Widened(range).start)
Before == ImapDate(Widened(range).end)

Typed ==
  /\ zone.user \in TimeZone /\ zone.server \in Int
  /\ days.first \in Int /\ days.last \in Int
  /\ arrived \in Int
  /\ returned \in BOOLEAN

\* What each phase knows about the answers of the earlier ones.
Answers ==
  /\ pc = "refused" => ~ (/\ IsDateRange(LocalDayRange(zone.user, days.first))
                          /\ IsDateRange(LocalDayRange(zone.user, days.last))
                          /\ IsDateRange(range))
  /\ pc \in {"filter", "count", "done"} =>
       (returned <=> Matches(arrived, zone.server, Since, Before))
  /\ pc \in {"count", "done"} => (stored <=> returned /\ Contains(range, arrived))
  /\ pc = "done" =>
       bucket = IF /\ stored /\ Contains(ActivityRows(days.first, days.last), arrived)
                   /\ LocalDate(zone.user, arrived) \in days.first .. days.last
                THEN {Label(zone.user, arrived, days.first, days.last)} ELSE {}

Inv == Typed /\ Answers

Ordered == days.first <= days.last

-----------------------------------------------------------------------------
(* Local days *)

Clear(z, d) == d * Minutes <= Low(z) \/ d * Minutes >= High(z)

LEMMA ZoneFacts ==
  ASSUME NEW z \in TimeZone
  PROVE  /\ z.before \in Int /\ z.after \in Int /\ z.change \in Int
         /\ z.before <= 1440 /\ z.before >= -1440 /\ z.after <= 1440 /\ z.after >= -1440
<1>1. z.before \in Offset /\ z.after \in Offset /\ z.change \in Int
  BY DEF TimeZone
<1>2. \A o \in Offset : o \in Int /\ o <= 1440 /\ o >= -1440
  BY DEF Offset, Minutes
<1> QED
  BY <1>1, <1>2

LEMMA WallIsInt ==
  ASSUME NEW z \in TimeZone, NEW ts \in Int
  PROVE  Wall(z, ts) \in Int /\ ts - 1440 <= Wall(z, ts) /\ Wall(z, ts) <= ts + 1440
BY ZoneFacts DEF Wall

\* A clear midnight parts time: from it on, and never before, the wall clock shows
\* that day or a later one.
LEMMA MidnightParts ==
  ASSUME NEW z \in TimeZone, NEW d \in Int, NEW ts \in Int, Clear(z, d)
  PROVE  Midnight(z, d) \in Int /\ (Midnight(z, d) <= ts <=> d <= LocalDate(z, ts))
<1> DEFINE w == d * 1440
           b == z.before
           a == z.after
           c == z.change
<1>1. w \in Int /\ b \in Int /\ a \in Int /\ c \in Int
  BY ZoneFacts
<1>2. Midnight(z, d) = w - (IF w < High(z) THEN b ELSE a) /\ Wall(z, ts) = ts + (IF ts < c THEN b ELSE a)
  BY DEF Midnight, Wall, Minutes
<1>3. w <= Low(z) \/ w >= High(z)
  BY DEF Clear, Minutes
<1>4. Low(z) = c + (IF b < a THEN b ELSE a) /\ High(z) = c + (IF b < a THEN a ELSE b)
  BY DEF Low, High
<1> HIDE DEF w, b, a, c
<1>5. Midnight(z, d) \in Int /\ (Midnight(z, d) <= ts <=> w <= Wall(z, ts))
  BY <1>1, <1>2, <1>3, <1>4
<1>6. Wall(z, ts) \in Int
  BY <1>1, <1>2
<1>7. w <= Wall(z, ts) <=> d <= Wall(z, ts) \div 1440
  BY <1>6 DEF w
<1> QED
  BY <1>5, <1>7 DEF LocalDate, Minutes

LEMMA LocalDateIsInt ==
  ASSUME NEW z \in TimeZone, NEW ts \in Int PROVE LocalDate(z, ts) \in Int
BY WallIsInt DEF LocalDate, Minutes

LEMMA ClearDays ==
  ASSUME MidnightsClear
  PROVE  /\ Clear(zone.user, days.first) /\ Clear(zone.user, days.first + 1)
         /\ Clear(zone.user, days.last) /\ Clear(zone.user, days.last + 1)
BY DEF MidnightsClear, Clear

\* The range of local days holds exactly their instants.
LEMMA RangeIsDays ==
  ASSUME Typed, MidnightsClear
  PROVE  Contains(range, arrived)
           <=> LocalDate(zone.user, arrived) \in days.first .. days.last
<1> DEFINE z == zone.user
           f == days.first
           l == days.last
<1>1. z \in TimeZone /\ f \in Int /\ l + 1 \in Int /\ l \in Int /\ arrived \in Int
  BY DEF Typed
<1>2. Clear(z, f) /\ Clear(z, l + 1)
  BY ClearDays
<1>3. Midnight(z, f) <= arrived <=> f <= LocalDate(z, arrived)
  BY <1>1, <1>2, MidnightParts
<1>4. Midnight(z, l + 1) \in Int /\ (Midnight(z, l + 1) <= arrived <=> l + 1 <= LocalDate(z, arrived))
  BY <1>1, <1>2, MidnightParts
<1>5. LocalDate(z, arrived) \in Int
  BY <1>1, LocalDateIsInt
<1>6. range.start = Midnight(z, f) /\ range.end = Midnight(z, l + 1)
  BY DEF range, LocalDateRange, LocalDayRange
<1> HIDE DEF z, f, l
<1>7. Contains(range, arrived) <=> f <= LocalDate(z, arrived) /\ LocalDate(z, arrived) < l + 1
  BY <1>1, <1>3, <1>4, <1>5, <1>6 DEF Contains
<1> QED
  BY <1>1, <1>5, <1>7 DEF z, f, l

\* A day whose range is empty was skipped: the wall clock never showed it.
LEMMA EmptyDay ==
  ASSUME NEW z \in TimeZone, NEW d \in Int, Clear(z, d), Clear(z, d + 1),
         ~IsDateRange(LocalDayRange(z, d)), NEW ts \in Int
  PROVE  LocalDate(z, ts) # d
<1>1. ~(Midnight(z, d) < Midnight(z, d + 1))
  BY DEF IsDateRange, LocalDayRange
<1>2. /\ Midnight(z, d) \in Int /\ Midnight(z, d + 1) \in Int
      /\ Midnight(z, d) <= ts <=> d <= LocalDate(z, ts)
      /\ Midnight(z, d + 1) <= ts <=> d + 1 <= LocalDate(z, ts)
  BY MidnightParts
<1> QED
  BY <1>1, <1>2, LocalDateIsInt

\* When both days exist, so does the range between them.
LEMMA DaysMakeRange ==
  ASSUME NEW z \in TimeZone, NEW f \in Int, NEW l \in Int, f <= l,
         Clear(z, f), Clear(z, l), Clear(z, l + 1),
         IsDateRange(LocalDayRange(z, l))
  PROVE  IsDateRange(LocalDateRange(z, f, l))
<1>1. Midnight(z, f) \in Int /\ Midnight(z, l) \in Int /\ Midnight(z, l + 1) \in Int
  BY MidnightParts
<1>2. Midnight(z, l) < Midnight(z, l + 1)
  BY DEF IsDateRange, LocalDayRange
<1>3. l <= LocalDate(z, Midnight(z, l)) /\ LocalDate(z, Midnight(z, l)) \in Int
  BY <1>1, MidnightParts, LocalDateIsInt
<1>4. Midnight(z, f) <= Midnight(z, l)
  BY <1>1, <1>3, MidnightParts
<1> QED
  BY <1>1, <1>2, <1>4 DEF IsDateRange, LocalDateRange, LocalDayRange

-----------------------------------------------------------------------------
(* The search *)

\* Every message of the range is among those that the widened search returns.
LEMMA WindowCovers ==
  ASSUME Typed, WindowReaches, Contains(range, arrived)
  PROVE  Matches(arrived, zone.server, Since, Before)
<1> DEFINE s == range.start
           e == range.end
           z == zone.server
           x == arrived
<1>1. s \in Int /\ e \in Int /\ z \in Int /\ x \in Int
  BY ZoneFacts DEF Typed, range, LocalDateRange, LocalDayRange, Midnight, Minutes
<1>2. s <= x /\ x < e /\ (e % 1440) + z <= 1440 /\ 0 <= z + 1440
  BY DEF Contains, WindowReaches, Minutes
<1> HIDE DEF s, e, z, x
<1>3. (s - 1440) \div 1440 <= (x + z) \div 1440
  BY <1>1, <1>2, SMT
<1>4. (x + z) \div 1440 < (e + 1440) \div 1440
  BY <1>1, <1>2, SMT
<1> QED
  BY <1>3, <1>4 DEF s, e, z, x, Matches, Since, Before, ImapDate, Widened, Minutes

-----------------------------------------------------------------------------
(* The timeline *)

\* No zone's offset takes a message of the days out of the rows that are read.
LEMMA RowsReach ==
  ASSUME NEW z \in TimeZone, NEW f \in Int, NEW l \in Int, NEW ts \in Int,
         LocalDate(z, ts) \in f .. l
  PROVE  Contains(ActivityRows(f, l), ts)
<1> DEFINE w == Wall(z, ts)
<1>1. w \in Int /\ ts - 1440 <= w /\ w <= ts + 1440
  BY WallIsInt
<1>2. f <= w \div 1440 /\ w \div 1440 <= l
  BY <1>1 DEF LocalDate, Minutes
<1> HIDE DEF w
<1>3. f * 1440 <= w /\ w < (l + 1) * 1440
  BY <1>1, <1>2
<1>4. (f - 1) * 1440 <= ts /\ ts < (l + 2) * 1440
  BY <1>1, <1>3
<1> QED
  BY <1>4 DEF Contains, ActivityRows, Minutes

LEMMA LabelExists ==
  ASSUME NEW z \in TimeZone, NEW f \in Int, NEW l \in Int, NEW ts \in Int,
         LocalDate(z, ts) \in f .. l
  PROVE  Label(z, ts, f, l) \in Labels(f, l)
<1>1. Wall(z, ts) \in Int
  BY WallIsInt
<1>2. (Wall(z, ts) % 1440) \div 60 \in 0 .. 23
  BY <1>1
<1> QED
  BY <1>2 DEF Label, Labels, LocalHour, Minutes

-----------------------------------------------------------------------------
(* The invariant *)

LEMMA InitInv == Init => Inv
<1> SUFFICES ASSUME Init PROVE Inv
  OBVIOUS
<1>1. zone \in [user : TimeZone, server : Int] /\ arrived \in Int /\ returned = FALSE
  BY ConstantsAssumption DEF Init
<1>2. days.first \in Int /\ days.last \in Int
  BY ConstantsAssumption DEF Init
<1>3. Answers
  BY DEF Init, Answers
<1> QED
  BY <1>1, <1>2, <1>3 DEF Inv, Typed

LEMMA NextInv == Inv /\ [Next]_vars => Inv'
<1> SUFFICES ASSUME Inv, [Next]_vars PROVE Inv'
  OBVIOUS
<1> USE DEF Inv
<1>1. CASE Request
  BY <1>1 DEF Request, Typed, Answers, range
<1>2. CASE Search
  <2>1. Typed'
    BY <1>2 DEF Search, Typed, Matches
  <2>2. Answers'
    BY <1>2 DEF Search, Answers, Since, Before, range
  <2> QED
    BY <2>1, <2>2
<1>3. CASE Filter
  <2>1. Typed'
    BY <1>3 DEF Filter, Typed
  <2>2. Answers'
    BY <1>3 DEF Filter, Answers, Since, Before, range
  <2> QED
    BY <2>1, <2>2
<1>4. CASE Count
  <2>1. Typed'
    BY <1>4 DEF Count, Typed
  <2>2. Answers'
    BY <1>4 DEF Count, Answers, Since, Before, range
  <2> QED
    BY <2>1, <2>2
<1>5. CASE UNCHANGED vars
  BY <1>5 DEF vars, Typed, Answers, Since, Before, range
<1> QED
  BY <1>1, <1>2, <1>3, <1>4, <1>5 DEF Next

\* Wherever the server's midnight lets the widened window reach, a fetch stores
\* a message if and only if it arrived in the requested local days
\* (widened_for_imap_search and contains in core/timeutil.py).
THEOREM FetchIsExact == Spec => []FoundWhenWindowReaches
<1>1. Inv => FoundWhenWindowReaches
  BY WindowCovers DEF Inv, Answers, FoundWhenWindowReaches, FoundExactly
<1> QED
  BY InitInv, NextInv, <1>1, PTL DEF Spec

\* "Correct even on a 23- or 25-hour day" (local_day_range in core/timeutil.py): for
\* every zone with any change whose midnights are clear.
THEOREM RangesAreLocalDays == Spec => []DaysAreLocal
<1>1. Ordered /\ Inv => DaysAreLocal
  <2> SUFFICES ASSUME Ordered, Inv, MidnightsClear, pc = "refused"
               PROVE  \E d \in {days.first, days.last} :
                        \A ts \in Instant : LocalDate(zone.user, ts) # d
    BY RangeIsDays DEF Inv, DaysAreLocal
  <2>1. /\ zone.user \in TimeZone /\ days.first \in Int /\ days.last \in Int
        /\ days.first <= days.last
    BY DEF Inv, Typed, Ordered
  <2>2. \/ ~IsDateRange(LocalDayRange(zone.user, days.first))
        \/ ~IsDateRange(LocalDayRange(zone.user, days.last))
    BY <2>1, ClearDays, DaysMakeRange DEF Inv, Answers, range
  <2> QED
    BY <2>1, <2>2, ClearDays, EmptyDay, ConstantsAssumption
<1>2. Init => Ordered
  BY DEF Init, Ordered
<1>3. Ordered /\ [Next]_vars => Ordered'
  BY DEF Ordered, Next, Request, Search, Filter, Count, vars
<1> QED
  BY InitInv, NextInv, <1>1, <1>2, <1>3, PTL DEF Spec

\* "Done. N emails are stored for this range" (ui/fetch_page.py): the timeline
\* counts each message that was fetched, once, for every such zone.
THEOREM TimelineCountsFetched == Spec => []FetchedIsCounted
<1>1. Inv => FetchedIsCounted
  <2> SUFFICES ASSUME Inv, MidnightsClear, pc = "done"
               PROVE  IF stored THEN \E k \in Labels(days.first, days.last) : bucket = {k}
                                ELSE bucket = {}
    BY DEF FetchedIsCounted
  <2>1. CASE stored
    <3>1. LocalDate(zone.user, arrived) \in days.first .. days.last
      BY <2>1, RangeIsDays DEF Inv, Answers
    <3>2. /\ Contains(ActivityRows(days.first, days.last), arrived)
          /\ Label(zone.user, arrived, days.first, days.last) \in Labels(days.first, days.last)
      BY <3>1, RowsReach, LabelExists DEF Inv, Typed
    <3> QED
      BY <2>1, <3>1, <3>2 DEF Inv, Answers
  <2>2. CASE ~stored
    BY <2>2 DEF Inv, Answers
  <2> QED
    BY <2>1, <2>2
<1> QED
  BY InitInv, NextInv, <1>1, PTL DEF Spec
=============================================================================
