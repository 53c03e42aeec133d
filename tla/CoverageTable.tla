--------------------------- MODULE CoverageTable ---------------------------
(***************************************************************************)
(* The rows of the coverage table and record_coverage (core/coverage.py):   *)
(* a SELECT of the key's rows, a loop over them that grows the new segment, *)
(* then the DELETE of the merged rows and the INSERT of the new one.        *)
(* pysqlite begins no transaction for the SELECT, so other writers may      *)
(* write between it and the DELETE; DELETE and INSERT are one transaction.  *)
(* The history variables say which calls were raced in that way.            *)
(***************************************************************************)
EXTENDS Integers, FiniteSets

CONSTANTS
  Writer,     \* threads that call record_coverage
  Key,        \* an account and a folder
  Instant,    \* points in time
  MaxCalls    \* bound: how often record_coverage is called

ASSUME ConstantsAssumption == Instant \subseteq Int /\ MaxCalls \in Nat

RowId == Nat \ {0}

\* DateRange: half-open, never empty.
Range == {r \in [start : Instant, end : Instant] : r.start < r.end}
Contains(r, x) == r.start <= x /\ x < r.end

Row == [id : RowId, key : Key, start : Instant, end : Instant]

VARIABLES
  rows,      \* the table
  pc,        \* pc[w]: "idle" or in the loop, "scan"
  key,       \* key[w]: the key of the call
  asked,     \* asked[w]: the range of the call
  span,      \* span[w]: the segment grown so far: start, end
  unread,    \* unread[w]: rows of the SELECT the loop has not reached
  merged,    \* merged[w]: ids of the rows merged into the segment
  calls,     \* how often record_coverage was called
  recorded,  \* history: the pairs <<key, instant>> callers asked to record
  read,      \* history: read[w]: what the rows of the SELECT cover
  raced,     \* history: raced[w]: its key's rows may have changed since
  dirty      \* history: keys that a raced call has written

history == <<recorded, read, raced, dirty>>
vars    == <<rows, pc, key, asked, span, unread, merged, calls, history>>

Later(x, y)   == IF x >= y THEN x ELSE y
Earlier(x, y) == IF x <= y THEN x ELSE y

\* The instants of a segment of key k.
Instants(k, r) == {p \in Key \X Instant : p[1] = k /\ Contains(r, p[2])}

\* What the table says is covered.
Claimed == {p \in Key \X Instant :
              \E row \in rows : row.key = p[1] /\ Contains(row, p[2])}

\* The id SQLite gives the next row: one more than the largest.
NextRowId(table) ==
  {n \in {1} \cup {row.id + 1 : row \in table} : \A row \in table : row.id < n}

\* Mutant: a gap of one instant counts as touching.
Touches_Near(row, r) == row.start <= r.end + 1 /\ row.end >= r.start

\* Mutant: segments that only touch are not merged.
Touches_Overlap(row, r) == row.start < r.end /\ row.end > r.start

\* The test of the loop: the two overlap, or touch.
Touches(row, r) == row.start <= r.end /\ row.end >= r.start

Init ==
  /\ rows = {}
  /\ pc = [w \in Writer |-> "idle"]
  /\ \E k \in Key : key = [w \in Writer |-> k]
  /\ \E r \in Range : /\ asked = [w \in Writer |-> r]
                      /\ span = [w \in Writer |-> r]
  /\ unread = [w \in Writer |-> {}]
  /\ merged = [w \in Writer |-> {}]
  /\ calls = 0
  /\ recorded = {} /\ dirty = {}
  /\ read = [w \in Writer |-> {}]
  /\ raced = [w \in Writer |-> FALSE]

\* The call, up to its SELECT.
Select(w) ==
  /\ pc[w] = "idle" /\ calls < MaxCalls
  /\ \E k \in Key, r \in Range :
       /\ key' = [key EXCEPT ![w] = k]
       /\ asked' = [asked EXCEPT ![w] = r]
       /\ span' = [span EXCEPT ![w] = r]
       /\ unread' = [unread EXCEPT ![w] = {row \in rows : row.key = k}]
       /\ recorded' = recorded \cup Instants(k, r)
       /\ read' = [read EXCEPT ![w] = {p \in Claimed : p[1] = k}]
  /\ pc' = [pc EXCEPT ![w] = "scan"]
  /\ calls' = calls + 1
  /\ UNCHANGED <<rows, merged, raced, dirty>>

\* One iteration.  The SELECT has no ORDER BY: any row may come next.
Scan(w) ==
  /\ pc[w] = "scan"
  /\ \E row \in unread[w] :
       /\ unread' = [unread EXCEPT ![w] = @ \ {row}]
       /\ IF Touches(row, span[w])
          THEN /\ span' = [span EXCEPT ![w] = [start |-> Earlier(@.start, row.start),
                                               end   |-> Later(@.end, row.end)]]
               /\ merged' = [merged EXCEPT ![w] = @ \cup {row.id}]
          ELSE UNCHANGED <<span, merged>>
  /\ UNCHANGED <<rows, pc, key, asked, calls, history>>

\* Whose SELECT no longer tells what the table holds once w has written: calls
\* for the same key, and every call if w deletes rows by ids it should not.
Overtake(w) ==
  /\ raced' = [v \in Writer |->
                 /\ v # w /\ pc[v] = "scan"
                 /\ raced[v] \/ raced[w] \/ key[v] = key[w]]
  /\ dirty' = IF raced[w] THEN dirty \cup {key[w]} ELSE dirty

\* Mutant: the requested range is inserted, not the grown segment.
Write_AskedOnly(w) ==
  /\ pc[w] = "scan" /\ unread[w] = {}
  /\ LET rest == {row \in rows : row.id \notin merged[w]}
     IN \E i \in NextRowId(rest) :
          rows' = rest \cup {[id |-> i, key |-> key[w], start |-> asked[w].start,
                              end |-> asked[w].end]}
  /\ pc' = [pc EXCEPT ![w] = "idle"]
  /\ merged' = [merged EXCEPT ![w] = {}]
  /\ read' = [read EXCEPT ![w] = {}]
  /\ Overtake(w)
  /\ UNCHANGED <<key, asked, span, unread, calls, recorded>>

\* DELETE WHERE id IN merged, whatever rows have these ids now, and INSERT.
Write(w) ==
  /\ pc[w] = "scan" /\ unread[w] = {}
  /\ LET rest == {row \in rows : row.id \notin merged[w]}
     IN \E i \in NextRowId(rest) :
          rows' = rest \cup {[id |-> i, key |-> key[w], start |-> span[w].start,
                              end |-> span[w].end]}
  /\ pc' = [pc EXCEPT ![w] = "idle"]
  /\ merged' = [merged EXCEPT ![w] = {}]
  /\ read' = [read EXCEPT ![w] = {}]
  /\ Overtake(w)
  /\ UNCHANGED <<key, asked, span, unread, calls, recorded>>

Next == \E w \in Writer : Select(w) \/ Scan(w) \/ Write(w)

Spec == Init /\ [][Next]_vars

-----------------------------------------------------------------------------
(* Properties *)

TypeOK ==
  /\ rows \subseteq Row
  /\ pc \in [Writer -> {"idle", "scan"}]
  /\ key \in [Writer -> Key]
  /\ asked \in [Writer -> Range]
  /\ span \in [Writer -> Range]
  /\ unread \in [Writer -> SUBSET Row]
  /\ merged \in [Writer -> SUBSET RowId]
  /\ calls \in Nat
  /\ recorded \subseteq Key \X Instant
  /\ read \in [Writer -> SUBSET (Key \X Instant)]
  /\ raced \in [Writer -> BOOLEAN]
  /\ dirty \subseteq Key

\* The table never claims an instant nobody recorded, however many writers race:
\* mail that was never fetched is never skipped on account of a merge.
NeverOverclaims == Claimed \subseteq recorded

\* "a tidy, minimal set of segments" (core/models.py): the rows of a key neither
\* overlap nor touch, until a call that another one raced has written them.
Tidy ==
  \A r, s \in rows : r.key = s.key /\ r.key \notin dirty /\ r # s =>
    r.end < s.start \/ s.end < r.start

\* The table implements the abstract coverage, raced calls included: a call adds
\* exactly its range, in one step, however many rows it merges on the way, and
\* takes nothing away unless it was raced.
Abstract == INSTANCE AbstractCoverage WITH
  covered <- Claimed,
  busy    <- {w \in Writer : pc[w] = "scan"},
  call    <- [w \in Writer |-> [key |-> key[w], range |-> asked[w]]],
  seen    <- read
ImplementsAbstract == Abstract!Spec
=============================================================================
