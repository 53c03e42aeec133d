------------------------------ MODULE GapSweep ------------------------------
(***************************************************************************)
(* compute_gaps (core/coverage.py): the sweep that finds the parts of a     *)
(* requested range which no covered segment covers, one step per iteration  *)
(* of its loop.  The covered segments may overlap, touch, repeat, or lie    *)
(* outside the request; sorted() has put them in order of their start.      *)
(***************************************************************************)
EXTENDS Integers, Sequences

CONSTANTS
  Instant,      \* the points in time a range may start or end at
  MaxSegments   \* bound: how many covered segments there are

ASSUME ConstantsAssumption == Instant \subseteq Int /\ MaxSegments \in Nat

\* DateRange: half-open, never empty (its constructor raises ValueError).
Range == {r \in [start : Instant, end : Instant] : r.start < r.end}
Contains(r, x) == r.start <= x /\ x < r.end

Later(x, y)   == IF x >= y THEN x ELSE y
Earlier(x, y) == IF x <= y THEN x ELSE y

\* What sorted(covered, key=start) may return.
SortedSegments ==
  {s \in UNION {[1 .. n -> Range] : n \in 0 .. MaxSegments} :
     \A k, l \in DOMAIN s : k < l => s[k].start <= s[l].start}

VARIABLES
  requested,  \* the argument
  segments,   \* the sorted covered segments
  i,          \* index of the segment the loop is at
  cursor,     \* everything of the request before it is settled
  gaps,       \* the list built so far
  pc          \* "sweep": in the loop, "tail": after it, "done": returned

vars == <<requested, segments, i, cursor, gaps, pc>>

Init ==
  /\ requested \in Range
  /\ segments \in SortedSegments
  /\ i = 1
  /\ cursor = requested.start
  /\ gaps = <<>>
  /\ pc = "sweep"

\* The part of the current segment inside the request, if any.
SegmentStart == Later(segments[i].start, requested.start)
SegmentEnd   == Earlier(segments[i].end, requested.end)

\* "continue": the segment does not overlap the request.
Skip ==
  /\ pc = "sweep" /\ i <= Len(segments)
  /\ SegmentStart >= SegmentEnd
  /\ i' = i + 1
  /\ UNCHANGED <<requested, segments, cursor, gaps, pc>>

\* Mutant: the cursor jumps to the segment's end even if it is further already.
Sweep_CursorBack ==
  /\ pc = "sweep" /\ i <= Len(segments)
  /\ SegmentStart < SegmentEnd
  /\ gaps' = IF SegmentStart > cursor
             THEN Append(gaps, [start |-> cursor, end |-> SegmentStart])
             ELSE gaps
  /\ cursor' = SegmentEnd
  /\ IF cursor' >= requested.end
     THEN pc' = "tail" /\ i' = i
     ELSE pc' = pc /\ i' = i + 1
  /\ UNCHANGED <<requested, segments>>

\* Mutant: the cursor moves to the segment's start only.
Sweep_CursorAtStart ==
  /\ pc = "sweep" /\ i <= Len(segments)
  /\ SegmentStart < SegmentEnd
  /\ gaps' = IF SegmentStart > cursor
             THEN Append(gaps, [start |-> cursor, end |-> SegmentStart])
             ELSE gaps
  /\ cursor' = Later(cursor, SegmentStart)
  /\ IF cursor' >= requested.end
     THEN pc' = "tail" /\ i' = i
     ELSE pc' = pc /\ i' = i + 1
  /\ UNCHANGED <<requested, segments>>

\* A gap before the segment, and the cursor moves past it; "break" at the end.
Sweep ==
  /\ pc = "sweep" /\ i <= Len(segments)
  /\ SegmentStart < SegmentEnd
  /\ gaps' = IF SegmentStart > cursor
             THEN Append(gaps, [start |-> cursor, end |-> SegmentStart])
             ELSE gaps
  /\ cursor' = Later(cursor, SegmentEnd)
  /\ IF cursor' >= requested.end
     THEN pc' = "tail" /\ i' = i
     ELSE pc' = pc /\ i' = i + 1
  /\ UNCHANGED <<requested, segments>>

LoopEnds ==
  /\ pc = "sweep" /\ i > Len(segments)
  /\ pc' = "tail"
  /\ UNCHANGED <<requested, segments, i, cursor, gaps>>

\* What is left of the request after the last segment is a gap too.
Return ==
  /\ pc = "tail"
  /\ gaps' = IF cursor < requested.end
             THEN Append(gaps, [start |-> cursor, end |-> requested.end])
             ELSE gaps
  /\ pc' = "done"
  /\ UNCHANGED <<requested, segments, i, cursor>>

Next == Skip \/ Sweep \/ LoopEnds \/ Return

Spec == Init /\ [][Next]_vars

-----------------------------------------------------------------------------
(* Properties *)

Covered(x) == \E k \in DOMAIN segments : Contains(segments[k], x)
InGap(x)   == \E k \in DOMAIN gaps : Contains(gaps[k], x)

TypeOK ==
  /\ requested \in Range
  /\ segments \in SortedSegments
  /\ i \in 1 .. Len(segments) + 1
  /\ cursor \in Instant
  /\ gaps \in Seq(Range)
  /\ pc \in {"sweep", "tail", "done"}

\* The answer holds exactly the instants of the request that no segment covers:
\* nothing missing is skipped, nothing stored is fetched again.
GapsExact ==
  pc = "done" =>
    \A x \in Instant : InGap(x) <=> Contains(requested, x) /\ ~Covered(x)

\* The gaps are in order and never touch: each is a longest uncovered stretch,
\* so the endpoint starts no two jobs where one would do.
GapsApart ==
  \A k \in DOMAIN gaps : \A l \in DOMAIN gaps : k < l => gaps[k].end < gaps[l].start
=============================================================================
