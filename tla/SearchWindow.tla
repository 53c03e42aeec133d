---------------------------- MODULE SearchWindow ----------------------------
(***************************************************************************)
(* Which messages a fetch finds, and the dashboard counts: the UTC range of *)
(* some local days, the IMAP search for it, whose SINCE and BEFORE are      *)
(* whole dates that the server compares with the date of INTERNALDATE in    *)
(* the server's own zone, the exact filter afterwards                       *)
(* (ingest/collector.py), and the timeline of the same days                 *)
(* (core/activity_storage.py, analysis/activity.py), for one message.       *)
(***************************************************************************)
EXTENDS LocalDays

CONSTANTS
  Zone,      \* pairs of the user's zone and the IMAP server's, a fixed offset
  LocalDay,  \* days a request may start or end on
  Instant    \* times at which a message may have arrived

ASSUME ConstantsAssumption ==
  /\ Zone \subseteq [user : TimeZone, server : Int]
  /\ LocalDay \subseteq Int
  /\ Instant \subseteq Int

VARIABLES
  zone,      \* the zones of user and server
  days,      \* the requested days: first and last
  arrived,   \* INTERNALDATE of the message looked at
  returned,  \* did the search return the message?
  stored,    \* is it stored?
  bucket,    \* labels of the timeline's buckets that count it
  pc         \* "request", "refused", "search", "filter", "count", "done"

vars == <<zone, days, arrived, returned, stored, bucket, pc>>

range == LocalDateRange(zone.user, days.first, days.last)

\* Mutant: the search asks for the range as it is.
Widened_Not(r) == r

\* widened_for_imap_search
Widened(r) == [start |-> r.start - Minutes, end |-> r.end + Minutes]

\* imap_date_string: the UTC date.
ImapDate(ts) == ts \div Minutes

\* The server's SEARCH SINCE since BEFORE before (RFC 3501, 6.4.4).
Matches(ts, offset, since, before) ==
  LET date == (ts + offset) \div Minutes
  IN  since <= date /\ date < before

Init ==
  /\ zone \in Zone
  /\ days \in {d \in [first : LocalDay, last : LocalDay] : d.first <= d.last}
  /\ arrived \in Instant
  /\ returned = FALSE /\ stored = FALSE /\ bucket = {}
  /\ pc = "request"

\* POST /ingest answers 422 when the range, or its first or last day, is empty.
Request ==
  /\ pc = "request"
  /\ pc' = IF /\ IsDateRange(LocalDayRange(zone.user, days.first))
              /\ IsDateRange(LocalDayRange(zone.user, days.last))
              /\ IsDateRange(range)
           THEN "search" ELSE "refused"
  /\ UNCHANGED <<zone, days, arrived, returned, stored, bucket>>

Search ==
  /\ pc = "search"
  /\ LET wide == Widened(range)
     IN returned' = Matches(arrived, zone.server, ImapDate(wide.start), ImapDate(wide.end))
  /\ pc' = "filter"
  /\ UNCHANGED <<zone, days, arrived, stored, bucket>>

\* store_if_in_range for what the search returned.
Filter ==
  /\ pc = "filter"
  /\ stored' = (returned /\ Contains(range, arrived))
  /\ pc' = "count"
  /\ UNCHANGED <<zone, days, arrived, returned, bucket>>

\* activity_for: a row that was read counts if its local date is asked for.
Count ==
  /\ pc = "count"
  /\ bucket' = IF /\ stored /\ Contains(ActivityRows(days.first, days.last), arrived)
                  /\ LocalDate(zone.user, arrived) \in days.first .. days.last
               THEN {Label(zone.user, arrived, days.first, days.last)} ELSE {}
  /\ pc' = "done"
  /\ UNCHANGED <<zone, days, arrived, returned, stored>>

Next == Request \/ Search \/ Filter \/ Count

Spec == Init /\ [][Next]_vars

-----------------------------------------------------------------------------
(* Properties *)

\* No midnight that bounds the first or the last day is skipped by the wall clock
\* or shown twice, other than as the first or the last reading of the change.
MidnightsClear ==
  \A d \in {days.first, days.first + 1, days.last, days.last + 1} :
    \/ d * Minutes <= Low(zone.user)
    \/ d * Minutes >= High(zone.user)

\* "Correct even on a 23- or 25-hour day" (local_day_range): the range holds exactly
\* the instants at which the wall clock shows one of the days asked for, and a
\* request is refused only if its first or last day was skipped altogether.
\* Not so where a midnight is not clear.
DaysAreLocal ==
  MidnightsClear =>
    /\ Contains(range, arrived)
         <=> LocalDate(zone.user, arrived) \in days.first .. days.last
    /\ pc = "refused" =>
         \E d \in {days.first, days.last} : \A ts \in Instant : LocalDate(zone.user, ts) # d

\* Exactly the messages of the requested local days are stored: "ask IMAP for a
\* slightly wider window, then filter precisely" (widened_for_imap_search).
FoundExactly == pc \in {"count", "done"} => (stored <=> Contains(range, arrived))

\* BEFORE names the UTC date of the widened end and excludes it, so the window
\* reaches far enough only if the server's midnight is not too far before it:
\* always when the server keeps UTC or a zone west of it.
WindowReaches ==
  /\ (range.end % Minutes) + zone.server <= Minutes
  /\ 0 <= zone.server + Minutes

\* ... and then every message of the range is found and nothing else is stored.
FoundWhenWindowReaches == WindowReaches => FoundExactly

\* "Done. N emails are stored for this range": the Fetch mail page shows the
\* timeline's count for the days it fetched.  The timeline selects rows by UTC
\* dates and converts each of them, the fetch converts the midnights; a message
\* that was fetched is in exactly one of the timeline's buckets, on any day of any zone.
FetchedIsCounted ==
  pc = "done" /\ MidnightsClear =>
    IF stored THEN \E l \in Labels(days.first, days.last) : bucket = {l}
              ELSE bucket = {}
=============================================================================
