--------------------------- MODULE GapSweepProofs ---------------------------
(***************************************************************************)
(* What compute_gaps returns, for every set of instants, every request and  *)
(* every list of segments.  The induction is over the iterations of the     *)
(* sweep: everything before the cursor is settled.                          *)
(***************************************************************************)
EXTENDS GapSweep, TLAPS

\* The cursor stays inside the request, and an instant of the request before it
\* is in a gap exactly when no segment covers it.
Settled ==
  /\ requested.start <= cursor /\ cursor <= requested.end
  /\ \A x \in Instant : requested.start <= x /\ x < cursor =>
       (InGap(x) <=> ~Covered(x))

\* Every gap lies in the request and ends before the cursor; no segment the
\* sweep has still to look at starts before the end of a gap.
GapsBehind ==
  /\ \A k \in DOMAIN gaps :
       requested.start <= gaps[k].start /\ gaps[k].end < cursor
  /\ \A k \in DOMAIN gaps : \A l \in DOMAIN segments :
       i <= l => gaps[k].end <= segments[l].start

\* A segment the sweep has passed covers nothing of the request at or after the
\* cursor.
PassedBehind ==
  \A l \in DOMAIN segments : \A x \in Instant :
    l < i /\ Contains(segments[l], x) /\ Contains(requested, x) => x < cursor

\* Out of the loop the cursor is at the end, or every segment was passed.
TailReached ==
  pc = "tail" => cursor = requested.end \/ i > Len(segments)

Sweeping == pc # "done" => Settled /\ GapsBehind /\ PassedBehind /\ TailReached

Inv == TypeOK /\ GapsApart /\ GapsExact /\ Sweeping

-----------------------------------------------------------------------------
\* The segments are a finite sequence of ranges in order of their start.
LEMMA SegmentsFacts ==
  ASSUME TypeOK
  PROVE  /\ Len(segments) \in Nat
         /\ DOMAIN segments = 1 .. Len(segments)
         /\ \A k \in DOMAIN segments :
              /\ segments[k] \in Range
              /\ segments[k].start \in Instant /\ segments[k].start \in Int
              /\ segments[k].end \in Instant /\ segments[k].end \in Int
              /\ segments[k].start < segments[k].end
         /\ \A k, l \in DOMAIN segments :
              k < l => segments[k].start <= segments[l].start
<1>1. PICK n \in 0 .. MaxSegments : segments \in [1 .. n -> Range]
  BY DEF TypeOK, SortedSegments
<1>2. n \in Nat
  BY ConstantsAssumption
<1>3. segments \in Seq(Range) /\ Len(segments) = n
  BY <1>1, <1>2
<1> QED
  BY <1>1, <1>2, <1>3, ConstantsAssumption DEF TypeOK, SortedSegments, Range

\* A sequence of gaps with one more gap at the end.
LEMMA AppendFacts ==
  ASSUME TypeOK, NEW g \in Range
  PROVE  /\ Append(gaps, g) \in Seq(Range)
         /\ DOMAIN Append(gaps, g) = 1 .. Len(gaps) + 1
         /\ DOMAIN gaps = 1 .. Len(gaps)
         /\ Len(gaps) \in Nat
         /\ \A k \in DOMAIN gaps : Append(gaps, g)[k] = gaps[k]
         /\ Append(gaps, g)[Len(gaps) + 1] = g
         /\ \A k \in DOMAIN gaps : gaps[k] \in Range
BY DEF TypeOK

\* The gaps are ranges, with integer bounds.
LEMMA GapsFacts ==
  ASSUME TypeOK, NEW k \in DOMAIN gaps
  PROVE  /\ gaps[k] \in Range
         /\ gaps[k].start \in Int /\ gaps[k].end \in Int
         /\ gaps[k].start < gaps[k].end
<1>1. gaps[k] \in Range
  BY DEF TypeOK
<1> QED
  BY <1>1, ConstantsAssumption DEF Range

\* The request is a range, with integer bounds; so is the cursor an integer.
LEMMA RequestFacts ==
  ASSUME TypeOK
  PROVE  /\ requested.start \in Int /\ requested.end \in Int
         /\ requested.start \in Instant /\ requested.end \in Instant
         /\ requested.start < requested.end
         /\ cursor \in Instant /\ cursor \in Int /\ i \in Int
<1>1. Len(segments) \in Nat
  BY SegmentsFacts
<1>2. i \in Int
  BY <1>1 DEF TypeOK
<1>3. requested \in Range /\ cursor \in Instant
  BY DEF TypeOK
<1> QED
  BY <1>2, <1>3, ConstantsAssumption DEF Range

\* The sweep starts with nothing settled.
LEMMA InitInv == Init => Inv
<1> SUFFICES ASSUME Init PROVE Inv
  OBVIOUS
<1>1. TypeOK
  <2>1. Len(segments) \in Nat
    <3>1. PICK n \in 0 .. MaxSegments : segments \in [1 .. n -> Range]
      BY DEF Init, SortedSegments
    <3> QED
      BY <3>1, ConstantsAssumption
  <2> QED
    BY <2>1 DEF Init, TypeOK, Range
<1>2. requested.start \in Int /\ requested.end \in Int /\ requested.start < requested.end
  BY ConstantsAssumption DEF Init, Range
<1>3. DOMAIN gaps = {}
  BY DEF Init
<1>4. PassedBehind
  BY <1>1, SegmentsFacts DEF PassedBehind, Init
<1> QED
  BY <1>1, <1>2, <1>3, <1>4, ConstantsAssumption
  DEF Inv, Init, GapsApart, GapsExact, Sweeping, Settled, GapsBehind, TailReached

\* "continue": what is passed over covers nothing of the request.
LEMMA SkipInv == Inv /\ Skip => Inv'
<1> SUFFICES ASSUME Inv, Skip PROVE Inv'
  OBVIOUS
<1> USE DEF Inv
<1>1. Len(segments) \in Nat /\ i \in Int /\ i \in DOMAIN segments
      /\ DOMAIN segments = 1 .. Len(segments)
  BY SegmentsFacts DEF TypeOK, Skip
<1>2. requested.start \in Int /\ requested.end \in Int /\ requested.start < requested.end
  BY RequestFacts
<1>3. ~\E x \in Instant : Contains(segments[i], x) /\ Contains(requested, x)
  BY <1>1, <1>2, SegmentsFacts, ConstantsAssumption
  DEF Skip, SegmentStart, SegmentEnd, Later, Earlier, Contains
<1>4. TypeOK'
  BY <1>1 DEF TypeOK, Skip
<1>5. UNCHANGED <<requested, segments, cursor, gaps, pc>> /\ i' = i + 1 /\ pc = "sweep"
  BY DEF Skip
<1>6. Settled'
  BY <1>5 DEF Sweeping, Settled, InGap, Covered
<1>7. GapsBehind'
  BY <1>1, <1>5 DEF Sweeping, GapsBehind
<1>8. PassedBehind'
  <2> SUFFICES ASSUME NEW l \in DOMAIN segments, NEW x \in Instant,
                      l < i + 1, Contains(segments[l], x), Contains(requested, x)
               PROVE  x < cursor
    BY <1>5 DEF PassedBehind, Contains
  <2>1. l \in Int /\ l # i
    BY <1>1, <1>3
  <2>2. l < i
    BY <2>1, <1>1
  <2> QED
    BY <2>2, <1>5 DEF Sweeping, PassedBehind
<1>9. GapsApart'
  BY <1>5 DEF GapsApart
<1> QED
  BY <1>4, <1>5, <1>6, <1>7, <1>8, <1>9 DEF Sweeping, TailReached, GapsExact

\* One overlapping segment: the instants between the old and the new cursor are
\* settled by the segment and by the gap before it.
LEMMA SweepInv == Inv /\ Sweep => Inv'
<1> SUFFICES ASSUME Inv, Sweep PROVE Inv'
  OBVIOUS
<1> DEFINE seg == segments[i]
           first == SegmentStart
           last == SegmentEnd
           gap == [start |-> cursor, end |-> first]
<1>1. /\ Len(segments) \in Nat /\ i \in Int /\ i \in DOMAIN segments
      /\ DOMAIN segments = 1 .. Len(segments)
      /\ seg.start \in Instant /\ seg.end \in Instant
      /\ seg.start \in Int /\ seg.end \in Int
  BY SegmentsFacts DEF TypeOK, Sweep, Inv
<1>2. /\ requested.start \in Int /\ requested.end \in Int /\ requested.start < requested.end
      /\ requested.start \in Instant /\ requested.end \in Instant
  BY RequestFacts DEF Inv
<1>3. /\ first \in Instant /\ first \in Int /\ last \in Instant /\ last \in Int
      /\ first < last /\ requested.start <= first /\ last <= requested.end
      /\ first >= seg.start /\ last <= seg.end
      /\ first > requested.start => first = seg.start
      /\ last < requested.end => last = seg.end
  BY <1>1, <1>2 DEF Sweep, SegmentStart, SegmentEnd, Later, Earlier
<1>4. cursor \in Instant /\ cursor \in Int /\ requested.start <= cursor /\ cursor <= requested.end
  BY RequestFacts DEF Inv, Sweeping, Settled, Sweep
<1>5. UNCHANGED <<requested, segments>> /\ pc = "sweep"
  BY DEF Sweep
<1>6. /\ cursor' \in Instant /\ cursor' \in Int
      /\ cursor <= cursor' /\ last <= cursor' /\ cursor' <= requested.end
      /\ cursor' = cursor \/ cursor' = last
  <2>1. cursor' = Later(cursor, last)
    BY DEF Sweep
  <2> HIDE DEF first, last
  <2> QED
    BY <2>1, <1>3, <1>4 DEF Later
<1>7. Sweeping /\ Settled /\ GapsBehind /\ PassedBehind
  BY <1>5 DEF Inv, Sweeping
<1>8. ASSUME first > cursor
      PROVE  Settled' /\ GapsBehind' /\ GapsApart' /\ gaps' \in Seq(Range)
  <2>1. gap \in Range /\ gap.start = cursor /\ gap.end = first
    BY <1>3, <1>4, <1>8 DEF Range
  <2>2. gaps' = Append(gaps, gap)
    BY <1>8 DEF Sweep
  <2>3. /\ gaps' \in Seq(Range) /\ DOMAIN gaps' = 1 .. Len(gaps) + 1
        /\ DOMAIN gaps = 1 .. Len(gaps) /\ Len(gaps) \in Nat
        /\ \A k \in DOMAIN gaps : gaps'[k] = gaps[k] /\ gaps[k] \in Range
        /\ gaps'[Len(gaps) + 1] = gap
    BY <2>1, <2>2, AppendFacts DEF Inv
  <2>4. first = seg.start
    BY <1>2, <1>3, <1>4, <1>8
  <2>5. cursor' = last /\ first < cursor'
    <3> HIDE DEF first, last
    <3> QED
      BY <1>3, <1>4, <1>6, <1>8
  <2>6. \A x \in Instant : InGap(x)' <=> InGap(x) \/ Contains(gap, x)
    BY <2>3 DEF InGap, Contains
  <2>7. \A x \in Instant : cursor <= x /\ x < first => ~Covered(x)
    <3> SUFFICES ASSUME NEW x \in Instant, cursor <= x, x < first,
                        NEW l \in DOMAIN segments, Contains(segments[l], x)
                 PROVE  FALSE
      BY DEF Covered
    <3>1. x \in Int /\ Contains(requested, x) /\ l \in Int
      BY <1>1, <1>2, <1>3, <1>4, ConstantsAssumption DEF Contains
    <3>2. ~(l < i)
      BY <3>1, <1>7, <1>4 DEF PassedBehind
    <3>3. seg.start <= segments[l].start
      BY <3>1, <3>2, <1>1, SegmentsFacts DEF Inv
    <3> QED
      BY <3>1, <3>3, <2>4, <1>1, SegmentsFacts DEF Contains, Inv
  <2>8. Settled'
    <3> SUFFICES ASSUME NEW x \in Instant, requested.start <= x, x < cursor'
                 PROVE  InGap(x)' <=> ~Covered(x)
      BY <1>2, <1>4, <1>5, <1>6 DEF Settled, Covered, InGap
    <3>1. x \in Int
      BY ConstantsAssumption
    <3>2. CASE x < cursor
      <4>1. ~Contains(gap, x)
        BY <3>1, <3>2, <2>1, <1>4 DEF Contains
      <4> QED
        BY <4>1, <2>6, <3>2, <1>7 DEF Settled
    <3>3. CASE cursor <= x /\ x < first
      BY <3>3, <2>1, <2>6, <2>7 DEF Contains
    <3>4. CASE first <= x
      <4>1. Covered(x)
        BY <3>1, <3>4, <1>1, <1>3, <2>4, <2>5 DEF Covered, Contains
      <4>2. ~Contains(gap, x)
        BY <3>1, <3>4, <2>1, <1>3 DEF Contains
      <4>3. ~InGap(x)
        <5> SUFFICES ASSUME NEW k \in DOMAIN gaps, Contains(gaps[k], x) PROVE FALSE
          BY DEF InGap
        <5>1. gaps[k].end < cursor /\ gaps[k].end \in Int
          BY <1>7, GapsFacts DEF GapsBehind, Inv
        <5> QED
          BY <5>1, <3>1, <3>4, <1>3, <1>4, <1>8 DEF Contains
      <4> QED
        BY <4>1, <4>2, <4>3, <2>6
    <3> QED
      BY <3>1, <3>2, <3>3, <3>4, <1>3, <1>4
  <2>9. GapsBehind'
    <3>1. \A k \in DOMAIN gaps' : requested.start <= gaps'[k].start /\ gaps'[k].end < cursor'
      <4> SUFFICES ASSUME NEW k \in DOMAIN gaps'
                   PROVE  requested.start <= gaps'[k].start /\ gaps'[k].end < cursor'
        OBVIOUS
      <4>1. CASE k \in DOMAIN gaps
        <5>1. gaps[k].end \in Int /\ gaps[k].start \in Int
          BY <4>1, GapsFacts DEF Inv
        <5> QED
          BY <4>1, <5>1, <2>3, <1>4, <1>6, <1>7 DEF GapsBehind
      <4>2. CASE k = Len(gaps) + 1
        BY <4>2, <2>1, <2>3, <2>5, <1>4
      <4> QED
        BY <4>1, <4>2, <2>3
    <3>2. ASSUME NEW k \in DOMAIN gaps', NEW l \in DOMAIN segments, i <= l
          PROVE  gaps'[k].end <= segments[l].start
      <4>1. CASE k \in DOMAIN gaps
        BY <4>1, <3>2, <2>3, <1>7 DEF GapsBehind
      <4>2. CASE k = Len(gaps) + 1
        BY <4>2, <3>2, <2>1, <2>3, <2>4, <1>1, SegmentsFacts DEF Inv
      <4> QED
        BY <4>1, <4>2, <2>3
    <3>3. i' = i \/ i' = i + 1
      BY DEF Sweep
    <3> QED
      BY <3>1, <3>2, <3>3, <1>1, <1>5 DEF GapsBehind
  <2>10. GapsApart'
    <3> SUFFICES ASSUME NEW k \in DOMAIN gaps', NEW l \in DOMAIN gaps', k < l
                 PROVE  gaps'[k].end < gaps'[l].start
      BY DEF GapsApart
    <3>1. k \in DOMAIN gaps
      BY <2>3
    <3>2. CASE l \in DOMAIN gaps
      BY <3>1, <3>2, <2>3 DEF GapsApart, Inv
    <3>3. CASE l = Len(gaps) + 1
      BY <3>1, <3>3, <2>1, <2>3, <1>7 DEF GapsBehind
    <3> QED
      BY <3>2, <3>3, <2>3
  <2> QED
    BY <2>3, <2>8, <2>9, <2>10
<1>9. ASSUME ~(first > cursor)
      PROVE  Settled' /\ GapsBehind' /\ GapsApart' /\ gaps' \in Seq(Range)
  <2>1. gaps' = gaps
    BY <1>9 DEF Sweep
  <2>2. Settled'
    <3> SUFFICES ASSUME NEW x \in Instant, requested.start <= x, x < cursor'
                 PROVE  InGap(x) <=> ~Covered(x)
      BY <1>2, <1>4, <1>5, <1>6, <2>1 DEF Settled, Covered, InGap
    <3>1. CASE x < cursor
      BY <3>1, <1>7 DEF Settled
    <3>2. CASE ~(x < cursor)
      <4>1. x \in Int /\ Contains(seg, x)
        BY <3>2, <1>1, <1>3, <1>4, <1>6, <1>9, ConstantsAssumption DEF Contains
      <4>2. ~InGap(x)
        <5> SUFFICES ASSUME NEW k \in DOMAIN gaps, Contains(gaps[k], x) PROVE FALSE
          BY DEF InGap
        <5>1. gaps[k].end \in Int /\ gaps[k].end < cursor
          BY <1>7, GapsFacts DEF GapsBehind, Inv
        <5> QED
          BY <5>1, <4>1, <3>2, <1>4 DEF Contains
      <4> QED
        BY <4>1, <4>2, <1>1 DEF Covered
    <3> QED
      BY <3>1, <3>2
  <2>3. GapsBehind'
    <3>1. \A k \in DOMAIN gaps : gaps[k].end \in Int
      BY GapsFacts DEF Inv
    <3>2. i' = i \/ i' = i + 1
      BY DEF Sweep
    <3> QED
      BY <3>1, <3>2, <2>1, <1>1, <1>4, <1>5, <1>6, <1>7 DEF GapsBehind
  <2> QED
    BY <2>1, <2>2, <2>3 DEF Inv, GapsApart, TypeOK
<1>10. Settled' /\ GapsBehind' /\ GapsApart' /\ gaps' \in Seq(Range)
  BY <1>8, <1>9
<1>11. \/ cursor' >= requested.end /\ pc' = "tail" /\ i' = i
       \/ cursor' < requested.end /\ pc' = "sweep" /\ i' = i + 1
  BY <1>2, <1>5, <1>6 DEF Sweep
<1>12. PassedBehind'
  <2> SUFFICES ASSUME NEW l \in DOMAIN segments, NEW x \in Instant, l < i',
                      Contains(segments[l], x), Contains(requested, x)
               PROVE  x < cursor'
    BY <1>5 DEF PassedBehind, Contains
  <2>1. x \in Int /\ l \in Int
    BY <1>1, ConstantsAssumption
  <2>2. CASE l < i
    BY <2>1, <2>2, <1>4, <1>6, <1>7 DEF PassedBehind
  <2>3. CASE l = i /\ cursor' < requested.end
    BY <2>1, <2>3, <1>1, <1>2, <1>3, <1>6 DEF Contains
  <2> QED
    BY <2>1, <2>2, <2>3, <1>1, <1>11
<1>13. TypeOK'
  BY <1>1, <1>5, <1>6, <1>10, <1>11 DEF TypeOK, Inv
<1>14. TailReached'
  BY <1>2, <1>5, <1>6, <1>11 DEF TailReached
<1> QED
  BY <1>10, <1>11, <1>12, <1>13, <1>14 DEF Inv, Sweeping, GapsExact

\* The loop runs out of segments.
LEMMA LoopEndsInv == Inv /\ LoopEnds => Inv'
<1> SUFFICES ASSUME Inv, LoopEnds PROVE Inv'
  OBVIOUS
<1>1. UNCHANGED <<requested, segments, i, cursor, gaps>> /\ pc = "sweep" /\ pc' = "tail"
      /\ i > Len(segments)
  BY DEF LoopEnds
<1>2. TypeOK'
  BY <1>1 DEF TypeOK, Inv
<1>3. Settled' /\ GapsBehind' /\ PassedBehind' /\ TailReached'
  BY <1>1 DEF Inv, Sweeping, Settled, GapsBehind, PassedBehind, TailReached, InGap, Covered
<1> QED
  BY <1>1, <1>2, <1>3 DEF Inv, Sweeping, GapsApart, GapsExact

\* After the loop no segment covers anything from the cursor on.
LEMMA ReturnInv == Inv /\ Return => Inv'
<1> SUFFICES ASSUME Inv, Return PROVE Inv'
  OBVIOUS
<1> DEFINE gap == [start |-> cursor, end |-> requested.end]
<1>1. pc = "tail" /\ pc' = "done" /\ UNCHANGED <<requested, segments, i, cursor>>
  BY DEF Return
<1>2. Settled /\ GapsBehind /\ PassedBehind /\ TailReached
  BY <1>1 DEF Inv, Sweeping
<1>3. /\ requested.start \in Int /\ requested.end \in Int /\ requested.end \in Instant
      /\ cursor \in Instant /\ cursor \in Int
      /\ requested.start <= cursor /\ cursor <= requested.end
      /\ Len(segments) \in Nat /\ DOMAIN segments = 1 .. Len(segments) /\ i \in Int
  BY <1>2, RequestFacts, SegmentsFacts DEF Inv, Settled
<1>4. \A x \in Instant : cursor <= x /\ x < requested.end => ~Covered(x)
  <2> SUFFICES ASSUME NEW x \in Instant, cursor <= x, x < requested.end,
                      NEW l \in DOMAIN segments, Contains(segments[l], x)
               PROVE  FALSE
    BY DEF Covered
  <2>1. x \in Int /\ l \in Int /\ Contains(requested, x)
    BY <1>3, ConstantsAssumption DEF Contains
  <2>2. l < i
    BY <2>1, <1>1, <1>2, <1>3 DEF TailReached
  <2> QED
    BY <2>1, <2>2, <1>2, <1>3 DEF PassedBehind
<1>5. \A x \in Instant : InGap(x) => requested.start <= x /\ x < cursor
  <2> SUFFICES ASSUME NEW x \in Instant, NEW k \in DOMAIN gaps, Contains(gaps[k], x)
               PROVE  requested.start <= x /\ x < cursor
    BY DEF InGap
  <2>1. gaps[k].start \in Int /\ gaps[k].end \in Int /\ x \in Int
    BY ConstantsAssumption, GapsFacts DEF Inv
  <2> QED
    BY <2>1, <1>2, <1>3 DEF GapsBehind, Contains
<1>6. CASE cursor < requested.end
  <2>1. gap \in Range /\ gap.start = cursor /\ gap.end = requested.end
    BY <1>3, <1>6 DEF Range
  <2>2. gaps' = Append(gaps, gap)
    BY <1>6 DEF Return
  <2>3. /\ gaps' \in Seq(Range) /\ DOMAIN gaps' = 1 .. Len(gaps) + 1
        /\ DOMAIN gaps = 1 .. Len(gaps) /\ Len(gaps) \in Nat
        /\ \A k \in DOMAIN gaps : gaps'[k] = gaps[k]
        /\ gaps'[Len(gaps) + 1] = gap
    BY <2>1, <2>2, AppendFacts DEF Inv
  <2>4. \A x \in Instant : InGap(x)' <=> InGap(x) \/ Contains(gap, x)
    BY <2>3 DEF InGap, Contains
  <2>5. GapsExact'
    <3> SUFFICES ASSUME NEW x \in Instant
                 PROVE  InGap(x)' <=> Contains(requested, x) /\ ~Covered(x)
      BY <1>1 DEF GapsExact, Covered, Contains
    <3>1. x \in Int
      BY ConstantsAssumption
    <3>2. CASE x < cursor
      BY <3>1, <3>2, <2>1, <2>4, <1>2, <1>3, <1>5 DEF Settled, Contains
    <3>3. CASE ~(x < cursor)
      BY <3>1, <3>3, <2>1, <2>4, <1>3, <1>4, <1>5 DEF Contains
    <3> QED
      BY <3>2, <3>3
  <2>6. GapsApart'
    <3> SUFFICES ASSUME NEW k \in DOMAIN gaps', NEW l \in DOMAIN gaps', k < l
                 PROVE  gaps'[k].end < gaps'[l].start
      BY DEF GapsApart
    <3>1. k \in DOMAIN gaps
      BY <2>3
    <3>2. CASE l \in DOMAIN gaps
      BY <3>1, <3>2, <2>3 DEF GapsApart, Inv
    <3>3. CASE l = Len(gaps) + 1
      BY <3>1, <3>3, <2>1, <2>3, <1>2 DEF GapsBehind
    <3> QED
      BY <3>2, <3>3, <2>3
  <2>7. TypeOK'
    BY <1>1, <2>3 DEF TypeOK, Inv
  <2> QED
    BY <1>1, <2>5, <2>6, <2>7 DEF Inv, Sweeping
<1>7. CASE ~(cursor < requested.end)
  <2>1. gaps' = gaps
    BY <1>7 DEF Return
  <2>2. GapsExact'
    <3> SUFFICES ASSUME NEW x \in Instant
                 PROVE  InGap(x) <=> Contains(requested, x) /\ ~Covered(x)
      BY <1>1, <2>1 DEF GapsExact, Covered, Contains, InGap
    <3>1. x \in Int /\ cursor = requested.end
      BY <1>3, <1>7, ConstantsAssumption
    <3> QED
      BY <3>1, <1>2, <1>3, <1>5 DEF Settled, Contains
  <2> QED
    BY <1>1, <2>1, <2>2 DEF Inv, TypeOK, GapsApart, Sweeping
<1> QED
  BY <1>6, <1>7

-----------------------------------------------------------------------------
\* Every step keeps the induction hypothesis.
LEMMA InvHolds == Spec => []Inv
<1>1. Inv /\ [Next]_vars => Inv'
  <2> SUFFICES ASSUME Inv, [Next]_vars PROVE Inv'
    OBVIOUS
  <2>1. CASE Next
    BY <2>1, SkipInv, SweepInv, LoopEndsInv, ReturnInv DEF Next
  <2>2. CASE UNCHANGED vars
    BY <2>2 DEF vars, Inv, TypeOK, GapsApart, GapsExact, Sweeping, Settled, GapsBehind,
                PassedBehind, TailReached, InGap, Covered
  <2> QED
    BY <2>1, <2>2
<1> QED
  BY InitInv, <1>1, PTL DEF Spec

\* compute_gaps is total on well-typed arguments: it only ever builds ranges its
\* DateRange constructor accepts.
THEOREM TypeCorrect == Spec => []TypeOK
<1>1. Inv => TypeOK
  BY DEF Inv
<1> QED
  BY InvHolds, <1>1, PTL

\* compute_gaps returns exactly the instants of the request that are not covered.
THEOREM GapsAreExact == Spec => []GapsExact
<1>1. Inv => GapsExact
  BY DEF Inv
<1> QED
  BY InvHolds, <1>1, PTL

\* compute_gaps returns them as ordered gaps that never touch.
THEOREM GapsAreApart == Spec => []GapsApart
<1>1. Inv => GapsApart
  BY DEF Inv
<1> QED
  BY InvHolds, <1>1, PTL
=============================================================================
