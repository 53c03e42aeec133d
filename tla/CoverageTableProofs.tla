------------------------- MODULE CoverageTableProofs -------------------------
(***************************************************************************)
(* Proofs about CoverageTable, for any number of racing writers, keys and   *)
(* instants: its types, that the table never claims an instant nobody       *)
(* recorded, that its rows stay tidy until a raced call writes them, and    *)
(* that it implements AbstractCoverage.                                     *)
(***************************************************************************)
EXTENDS CoverageTable, TLAPS

-----------------------------------------------------------------------------
(* The arithmetic of segments *)

\* The hull of two segments that touch holds what either holds, and no more.
LEMMA HullOfTouching ==
  ASSUME NEW r \in Range, NEW q \in Range, Touches(q, r),
         NEW x \in Int,
         Contains([start |-> Earlier(r.start, q.start), end |-> Later(r.end, q.end)], x)
  PROVE  Contains(r, x) \/ Contains(q, x)
PROOF
  <1>1. r.start \in Int /\ r.end \in Int /\ q.start \in Int /\ q.end \in Int
    BY ConstantsAssumption DEF Range
  <1>2. QED
    BY <1>1 DEF Touches, Contains, Earlier, Later

\* The hull of two segments is a segment.
LEMMA HullIsRange ==
  ASSUME NEW r \in Range, NEW q \in Range
  PROVE  [start |-> Earlier(r.start, q.start), end |-> Later(r.end, q.end)] \in Range
PROOF
  <1>1. r.start \in Instant /\ r.end \in Instant /\ r.start < r.end
    BY DEF Range
  <1>2. q.start \in Instant /\ q.end \in Instant /\ q.start < q.end
    BY DEF Range
  <1>3. Earlier(r.start, q.start) \in Instant /\ Later(r.end, q.end) \in Instant
    BY <1>1, <1>2 DEF Earlier, Later
  <1>4. Earlier(r.start, q.start) < Later(r.end, q.end)
    <2>1. r.start \in Int /\ r.end \in Int /\ q.start \in Int /\ q.end \in Int
      BY <1>1, <1>2, ConstantsAssumption
    <2>2. QED
      BY <1>1, <1>2, <2>1 DEF Earlier, Later
  <1>5. QED
    BY <1>3, <1>4 DEF Range

\* A new row id is a row id, and no row of the table has it.
LEMMA NewRowId ==
  ASSUME NEW table, table \subseteq Row, NEW n \in NextRowId(table)
  PROVE  n \in RowId /\ \A row \in table : row.id # n
PROOF
  <1>1. \A row \in table : row.id \in RowId
    BY DEF Row
  <1>2. QED
    BY <1>1 DEF NextRowId, RowId

-----------------------------------------------------------------------------
(* Types *)

\* TypeOK, and the rows of the table and of the SELECT are never empty.
Typed ==
  /\ TypeOK
  /\ \A row \in rows : row.start < row.end
  /\ \A w \in Writer : \A row \in unread[w] : row.start < row.end

LEMMA InitTyped == Init => Typed
PROOF BY DEF Init, Typed, TypeOK

LEMMA SelectTyped ==
  ASSUME Typed, NEW w \in Writer, Select(w)
  PROVE  Typed'
PROOF
  <1> USE DEF Typed, TypeOK
  <1>1. PICK k \in Key, r \in Range :
          /\ key' = [key EXCEPT ![w] = k]
          /\ asked' = [asked EXCEPT ![w] = r]
          /\ span' = [span EXCEPT ![w] = r]
          /\ unread' = [unread EXCEPT ![w] = {row \in rows : row.key = k}]
          /\ recorded' = recorded \cup Instants(k, r)
          /\ read' = [read EXCEPT ![w] = {p \in Claimed : p[1] = k}]
    BY DEF Select
  <1>2. /\ key' \in [Writer -> Key]
        /\ asked' \in [Writer -> Range]
        /\ span' \in [Writer -> Range]
    BY <1>1
  <1>3. unread' \in [Writer -> SUBSET Row]
    BY <1>1
  <1>4. \A v \in Writer : \A row \in unread'[v] : row.start < row.end
    BY <1>1
  <1>5. /\ recorded' \subseteq Key \X Instant
        /\ read' \in [Writer -> SUBSET (Key \X Instant)]
    BY <1>1 DEF Instants, Claimed
  <1>6. /\ UNCHANGED <<rows, merged, raced, dirty>> /\ calls' \in Nat
        /\ pc' \in [Writer -> {"idle", "scan"}]
    BY DEF Select
  <1>7. QED
    BY <1>2, <1>3, <1>4, <1>5, <1>6

LEMMA ScanTyped ==
  ASSUME Typed, NEW w \in Writer, Scan(w)
  PROVE  Typed'
PROOF
  <1> USE DEF Typed, TypeOK
  <1>1. PICK row \in unread[w] :
          /\ unread' = [unread EXCEPT ![w] = @ \ {row}]
          /\ IF Touches(row, span[w])
             THEN /\ span' = [span EXCEPT ![w] = [start |-> Earlier(@.start, row.start),
                                                  end   |-> Later(@.end, row.end)]]
                  /\ merged' = [merged EXCEPT ![w] = @ \cup {row.id}]
             ELSE UNCHANGED <<span, merged>>
    BY DEF Scan
  <1>2. row \in Row /\ row.start < row.end
    OBVIOUS
  <1>3. row.start \in Instant /\ row.end \in Instant /\ row.id \in RowId
    BY <1>2 DEF Row
  <1>4. span' \in [Writer -> Range]
    <2> DEFINE q == [start |-> row.start, end |-> row.end]
    <2>1. q \in Range
      BY <1>2, <1>3 DEF Range
    <2>2. [start |-> Earlier(span[w].start, q.start), end |-> Later(span[w].end, q.end)] \in Range
      BY <2>1, HullIsRange
    <2>3. QED
      BY <1>1, <2>2
  <1>5. merged' \in [Writer -> SUBSET RowId]
    BY <1>1, <1>3
  <1>6. /\ unread' \in [Writer -> SUBSET Row]
        /\ \A v \in Writer : unread'[v] \subseteq unread[v]
    BY <1>1
  <1>7. UNCHANGED <<rows, pc, key, asked, calls, recorded, read, raced, dirty>>
    BY DEF Scan, history
  <1>8. QED
    BY <1>4, <1>5, <1>6, <1>7

LEMMA WriteTyped ==
  ASSUME Typed, NEW w \in Writer, Write(w)
  PROVE  Typed'
PROOF
  <1> USE DEF Typed, TypeOK
  <1> DEFINE rest == {row \in rows : row.id \notin merged[w]}
  <1>1. PICK i \in NextRowId(rest) :
          rows' = rest \cup {[id |-> i, key |-> key[w], start |-> span[w].start,
                              end |-> span[w].end]}
    BY DEF Write
  <1>2. i \in RowId
    BY NewRowId, rest \subseteq Row
  <1>3. span[w].start \in Instant /\ span[w].end \in Instant /\ span[w].start < span[w].end
    BY DEF Range
  <1>4. [id |-> i, key |-> key[w], start |-> span[w].start, end |-> span[w].end] \in Row
    BY <1>2, <1>3 DEF Row
  <1>5. rows' \subseteq Row /\ \A row \in rows' : row.start < row.end
    BY <1>1, <1>3, <1>4
  <1>6. UNCHANGED <<key, asked, span, unread, recorded, calls>>
    BY DEF Write
  <1>7. /\ pc' \in [Writer -> {"idle", "scan"}]
        /\ merged' \in [Writer -> SUBSET RowId]
        /\ read' \in [Writer -> SUBSET (Key \X Instant)]
        /\ raced' \in [Writer -> BOOLEAN]
        /\ dirty' \subseteq Key
    BY DEF Write, Overtake
  <1>8. QED
    BY <1>5, <1>6, <1>7

LEMMA NextTyped == Typed /\ [Next]_vars => Typed'
PROOF
  <1> SUFFICES ASSUME Typed, [Next]_vars PROVE Typed'
    OBVIOUS
  <1>1. CASE UNCHANGED vars
    BY <1>1 DEF vars, history, Typed, TypeOK
  <1>2. QED
    BY <1>1, SelectTyped, ScanTyped, WriteTyped DEF Next

\* Every variable of the coverage table keeps its type: in particular no merge
\* yields an empty or inverted segment (record_coverage, core/coverage.py).
THEOREM TypeCorrect == Spec => []TypeOK
PROOF
  <1>1. Typed => TypeOK
    BY DEF Typed
  <1>2. QED
    BY InitTyped, NextTyped, <1>1, PTL DEF Spec

-----------------------------------------------------------------------------
(* Nothing is claimed that nobody recorded *)

\* A writer's segment, and the rows it is still to merge, stay within what was
\* recorded, whatever other writers do to the table meanwhile.
Justified ==
  /\ NeverOverclaims
  /\ \A w \in Writer : pc[w] = "scan" => Instants(key[w], span[w]) \subseteq recorded
  /\ \A w \in Writer : \A row \in unread[w] :
       row.key = key[w] /\ Instants(row.key, row) \subseteq recorded

LEMMA SelectJustified ==
  ASSUME Typed, Justified, NEW w \in Writer, Select(w)
  PROVE  Justified'
PROOF
  <1> USE DEF Typed, TypeOK
  <1>1. PICK k \in Key, r \in Range :
          /\ key' = [key EXCEPT ![w] = k]
          /\ asked' = [asked EXCEPT ![w] = r]
          /\ span' = [span EXCEPT ![w] = r]
          /\ unread' = [unread EXCEPT ![w] = {row \in rows : row.key = k}]
          /\ recorded' = recorded \cup Instants(k, r)
    BY DEF Select
  <1>2. rows' = rows /\ pc' = [pc EXCEPT ![w] = "scan"]
    BY DEF Select
  <1>3. NeverOverclaims'
    BY <1>1, <1>2 DEF Justified, NeverOverclaims, Claimed
  <1>4. ASSUME NEW v \in Writer, pc'[v] = "scan"
        PROVE  Instants(key'[v], span'[v]) \subseteq recorded'
    <2>1. CASE v = w
      BY <1>1, <2>1
    <2>2. CASE v # w
      BY <1>1, <1>2, <1>4, <2>2 DEF Justified
    <2>3. QED
      BY <2>1, <2>2
  <1>5. ASSUME NEW v \in Writer, NEW row \in unread'[v]
        PROVE  row.key = key'[v] /\ Instants(row.key, row) \subseteq recorded'
    <2>1. CASE v = w
      <3>1. row \in rows /\ row.key = k
        BY <1>1, <2>1, <1>5
      <3>2. Instants(row.key, row) \subseteq Claimed
        BY <3>1 DEF Instants, Claimed
      <3>3. QED
        BY <1>1, <2>1, <3>1, <3>2 DEF Justified, NeverOverclaims
    <2>2. CASE v # w
      BY <1>1, <1>5, <2>2 DEF Justified
    <2>3. QED
      BY <2>1, <2>2
  <1>6. QED
    BY <1>3, <1>4, <1>5 DEF Justified

LEMMA ScanJustified ==
  ASSUME Typed, Justified, NEW w \in Writer, Scan(w)
  PROVE  Justified'
PROOF
  <1> USE DEF Typed, TypeOK
  <1>1. PICK row \in unread[w] :
          /\ unread' = [unread EXCEPT ![w] = @ \ {row}]
          /\ IF Touches(row, span[w])
             THEN /\ span' = [span EXCEPT ![w] = [start |-> Earlier(@.start, row.start),
                                                  end   |-> Later(@.end, row.end)]]
                  /\ merged' = [merged EXCEPT ![w] = @ \cup {row.id}]
             ELSE UNCHANGED <<span, merged>>
    BY DEF Scan
  <1>2. UNCHANGED <<rows, pc, key, asked, recorded, calls>> /\ pc[w] = "scan"
    BY DEF Scan, history
  <1>3. NeverOverclaims'
    BY <1>2 DEF Justified, NeverOverclaims, Claimed
  <1>4. Instants(key[w], span'[w]) \subseteq recorded
    <2> DEFINE q == [start |-> row.start, end |-> row.end]
    <2>1. row \in Row /\ row.start < row.end /\ row.key = key[w]
      BY DEF Justified
    <2>2. q \in Range /\ span[w] \in Range
      BY <2>1 DEF Range, Row
    <2>3. Instants(key[w], q) \subseteq recorded
      BY <2>1 DEF Justified, Instants, Contains
    <2>4. Instants(key[w], span[w]) \subseteq recorded
      BY <1>2 DEF Justified
    <2>5. CASE Touches(row, span[w])
      <3> SUFFICES ASSUME NEW p \in Key \X Instant, p[1] = key[w], Contains(span'[w], p[2])
                   PROVE  p \in recorded
        BY DEF Instants
      <3>1. span'[w] = [start |-> Earlier(span[w].start, q.start),
                        end |-> Later(span[w].end, q.end)]
        BY <1>1, <2>5
      <3>2. Touches(q, span[w])
        BY <2>5 DEF Touches
      <3>3. p[2] \in Int
        BY ConstantsAssumption
      <3>4. Contains(span[w], p[2]) \/ Contains(q, p[2])
        BY <2>2, <3>1, <3>2, <3>3, HullOfTouching
      <3>5. QED
        BY <2>3, <2>4, <3>4 DEF Instants
    <2>6. CASE ~Touches(row, span[w])
      BY <1>1, <2>4, <2>6
    <2>7. QED
      BY <2>5, <2>6
  <1>5. ASSUME NEW v \in Writer, pc[v] = "scan"
        PROVE  Instants(key[v], span'[v]) \subseteq recorded
    <2>1. CASE v = w
      BY <1>4, <2>1
    <2>2. CASE v # w
      BY <1>1, <1>5, <2>2 DEF Justified
    <2>3. QED
      BY <2>1, <2>2
  <1>6. \A v \in Writer : unread'[v] \subseteq unread[v]
    BY <1>1
  <1>7. QED
    BY <1>2, <1>3, <1>5, <1>6 DEF Justified, Instants

LEMMA WriteJustified ==
  ASSUME Typed, Justified, NEW w \in Writer, Write(w)
  PROVE  Justified'
PROOF
  <1> USE DEF Typed, TypeOK
  <1>1. PICK i :
          rows' = {row \in rows : row.id \notin merged[w]}
                  \cup {[id |-> i, key |-> key[w], start |-> span[w].start,
                         end |-> span[w].end]}
    BY DEF Write
  <1>2. UNCHANGED <<key, asked, span, unread, recorded, calls>>
    BY DEF Write
  <1>3. pc' = [pc EXCEPT ![w] = "idle"] /\ pc[w] = "scan"
    BY DEF Write
  <1>4. NeverOverclaims'
    <2> SUFFICES ASSUME NEW p \in Key \X Instant, NEW row \in rows',
                        row.key = p[1], Contains(row, p[2])
                 PROVE  p \in recorded
      BY <1>2 DEF NeverOverclaims, Claimed
    <2>1. CASE row \in rows
      BY <2>1 DEF Justified, NeverOverclaims, Claimed
    <2>2. CASE row \notin rows
      <3>1. row.key = key[w] /\ row.start = span[w].start /\ row.end = span[w].end
        BY <1>1, <2>2
      <3>2. p \in Instants(key[w], span[w])
        BY <3>1 DEF Instants, Contains
      <3>3. QED
        BY <1>3, <3>2 DEF Justified
    <2>3. QED
      BY <2>1, <2>2
  <1>5. QED
    BY <1>2, <1>3, <1>4 DEF Justified, Instants

LEMMA NextJustified == Typed /\ Justified /\ [Next]_vars => Justified'
PROOF
  <1> SUFFICES ASSUME Typed, Justified, [Next]_vars PROVE Justified'
    OBVIOUS
  <1>1. CASE UNCHANGED vars
    BY <1>1 DEF vars, history, Justified, NeverOverclaims, Claimed, Instants
  <1>2. QED
    BY <1>1, SelectJustified, ScanJustified, WriteJustified DEF Next

\* However many callers of record_coverage race, the coverage table never claims
\* an instant that none of them recorded: a merge can lose coverage, but never
\* invent it, so no mail is skipped on account of one.
THEOREM NothingIsOverclaimed == Spec => []NeverOverclaims
PROOF
  <1>1. Init => Justified
    BY DEF Init, Justified, NeverOverclaims, Claimed
  <1>2. Justified => NeverOverclaims
    BY DEF Justified
  <1>3. QED
    BY InitTyped, NextTyped, <1>1, NextJustified, <1>2, PTL DEF Spec

-----------------------------------------------------------------------------
(* What a call has read and grown *)

\* The segment holds the request, and nothing else that the call did not read.
Grown(w) ==
  /\ Instants(key[w], asked[w]) \subseteq Instants(key[w], span[w])
  /\ Instants(key[w], span[w]) \subseteq read[w] \cup Instants(key[w], asked[w])
  /\ \A row \in unread[w] : row.key = key[w] /\ Instants(key[w], row) \subseteq read[w]

\* What a call that nobody raced knows of the table: the rows still to come are
\* there, the merged ones are there and inside its segment, the others are apart
\* from it (if the key was tidy), and what it read is what the key covers.
Snapshot(w) ==
  /\ read[w] = {p \in Claimed : p[1] = key[w]}
  /\ unread[w] \subseteq rows
  /\ \A row \in unread[w] : row.id \notin merged[w]
  /\ \A i \in merged[w] : \E row \in rows : row.id = i
  /\ \A row \in rows : row.id \in merged[w] =>
       row.key = key[w] /\ span[w].start <= row.start /\ row.end <= span[w].end
  /\ key[w] \notin dirty =>
       \A row \in rows :
         row.key = key[w] /\ row \notin unread[w] /\ row.id \notin merged[w]
           => ~Touches(row, span[w])

UniqueIds == \A r, s \in rows : r.id = s.id => r = s

Known ==
  /\ Tidy
  /\ UniqueIds
  /\ \A w \in Writer : pc[w] = "scan" => Grown(w)
  /\ \A w \in Writer : pc[w] = "scan" /\ ~raced[w] => Snapshot(w)
  /\ \A w \in Writer : pc[w] = "idle" => merged[w] = {} /\ ~raced[w]

\* A row beside a row that is merged, and beside the segment, is beside their hull.
LEMMA BesideHull ==
  ASSUME NEW r \in Range, NEW q \in Range, NEW s \in Range,
         Touches(q, r), ~Touches(s, r), s.end < q.start \/ q.end < s.start
  PROVE  ~Touches(s, [start |-> Earlier(r.start, q.start), end |-> Later(r.end, q.end)])
PROOF
  <1>1. /\ r.start \in Int /\ r.end \in Int /\ r.start < r.end
        /\ q.start \in Int /\ q.end \in Int /\ q.start < q.end
        /\ s.start \in Int /\ s.end \in Int /\ s.start < s.end
    BY ConstantsAssumption DEF Range
  <1>2. QED
    BY <1>1 DEF Touches, Earlier, Later

\* A segment lies inside its hull with another.
LEMMA InsideHull ==
  ASSUME NEW r \in Range, NEW q \in Range
  PROVE  LET h == [start |-> Earlier(r.start, q.start), end |-> Later(r.end, q.end)]
         IN  /\ h.start <= r.start /\ r.end <= h.end
             /\ h.start <= q.start /\ q.end <= h.end
PROOF
  <1>1. r.start \in Int /\ r.end \in Int /\ q.start \in Int /\ q.end \in Int
    BY ConstantsAssumption DEF Range
  <1>2. QED
    BY <1>1 DEF Earlier, Later

\* A segment inside another holds no instant that the other does not hold.
LEMMA InsideHolds ==
  ASSUME NEW k, NEW r, NEW q,
         r.start \in Int, r.end \in Int, q.start \in Int, q.end \in Int,
         r.start <= q.start, q.end <= r.end
  PROVE  Instants(k, q) \subseteq Instants(k, r)
PROOF
  <1> SUFFICES ASSUME NEW p \in Key \X Instant, Contains(q, p[2]) PROVE Contains(r, p[2])
    BY DEF Instants
  <1>1. p[2] \in Int
    BY ConstantsAssumption
  <1>2. QED
    BY <1>1 DEF Contains

LEMMA SelectKnown ==
  ASSUME Typed, Known, NEW w \in Writer, Select(w)
  PROVE  Known' /\ Claimed' = Claimed
PROOF
  <1> USE DEF Typed, TypeOK
  <1>1. PICK k \in Key, r \in Range :
          /\ key' = [key EXCEPT ![w] = k]
          /\ asked' = [asked EXCEPT ![w] = r]
          /\ span' = [span EXCEPT ![w] = r]
          /\ unread' = [unread EXCEPT ![w] = {row \in rows : row.key = k}]
          /\ read' = [read EXCEPT ![w] = {p \in Claimed : p[1] = k}]
    BY DEF Select
  <1>2. /\ UNCHANGED <<rows, merged, raced, dirty>>
        /\ pc[w] = "idle" /\ pc' = [pc EXCEPT ![w] = "scan"]
    BY DEF Select
  <1>3. Claimed' = Claimed
    BY <1>2 DEF Claimed
  <1>4. /\ key'[w] = k /\ asked'[w] = r /\ span'[w] = r /\ merged'[w] = {}
        /\ unread'[w] = {row \in rows : row.key = k}
        /\ read'[w] = {p \in Claimed : p[1] = k}
    BY <1>1, <1>2 DEF Known
  <1>5. Grown(w)'
    <2>1. ASSUME NEW row \in rows, row.key = k
          PROVE  Instants(k, row) \subseteq {p \in Claimed : p[1] = k}
      BY <2>1 DEF Instants, Claimed
    <2>2. QED
      BY <1>4, <2>1 DEF Grown, Instants
  <1>6. Snapshot(w)'
    BY <1>2, <1>3, <1>4 DEF Snapshot
  <1>7. ASSUME NEW v \in Writer, v # w
        PROVE  /\ UNCHANGED <<pc[v], key[v], asked[v], span[v], unread[v], read[v],
                              merged[v], raced[v]>>
               /\ Grown(v) => Grown(v)'
               /\ Snapshot(v) => Snapshot(v)'
    <2>1. UNCHANGED <<pc[v], key[v], asked[v], span[v], unread[v], read[v],
                      merged[v], raced[v]>>
      BY <1>1, <1>2, <1>7
    <2>2. QED
      BY <1>2, <1>3, <2>1 DEF Grown, Snapshot, Instants
  <1>8. pc'[w] = "scan"
    BY <1>2
  <1>9. Tidy' /\ UniqueIds'
    BY <1>2 DEF Known, Tidy, UniqueIds
  <1>10. \A v \in Writer :
           /\ pc'[v] = "scan" => Grown(v)'
           /\ pc'[v] = "scan" /\ ~raced'[v] => Snapshot(v)'
           /\ pc'[v] = "idle" => merged'[v] = {} /\ ~raced'[v]
    BY <1>5, <1>6, <1>7, <1>8 DEF Known
  <1>11. QED
    BY <1>3, <1>9, <1>10 DEF Known

LEMMA ScanKnown ==
  ASSUME Typed, Known, NEW w \in Writer, Scan(w)
  PROVE  Known' /\ Claimed' = Claimed
PROOF
  <1> USE DEF Typed, TypeOK
  <1>1. PICK row \in unread[w] :
          /\ unread' = [unread EXCEPT ![w] = @ \ {row}]
          /\ IF Touches(row, span[w])
             THEN /\ span' = [span EXCEPT ![w] = [start |-> Earlier(@.start, row.start),
                                                  end   |-> Later(@.end, row.end)]]
                  /\ merged' = [merged EXCEPT ![w] = @ \cup {row.id}]
             ELSE UNCHANGED <<span, merged>>
    BY DEF Scan
  <1>2. UNCHANGED <<rows, pc, key, asked, read, raced, dirty>> /\ pc[w] = "scan"
    BY DEF Scan, history
  <1>3. Claimed' = Claimed
    BY <1>2 DEF Claimed
  <1>4. unread'[w] = unread[w] \ {row}
    BY <1>1
  <1>5. Grown(w)
    BY <1>2 DEF Known
  <1>6. row \in Row /\ row.start < row.end /\ row.key = key[w]
    BY <1>5 DEF Grown
  <1> DEFINE Segment(r) == [start |-> r.start, end |-> r.end]
             hull == [start |-> Earlier(span[w].start, row.start),
                      end   |-> Later(span[w].end, row.end)]
  <1>7. span[w] \in Range /\ Segment(row) \in Range
    BY <1>6 DEF Range, Row
  <1>8. hull \in Range
    <2>1. [start |-> Earlier(span[w].start, Segment(row).start),
           end |-> Later(span[w].end, Segment(row).end)] \in Range
      BY <1>7, HullIsRange
    <2>2. QED
      BY <2>1
  <1>9. /\ hull.start <= span[w].start /\ span[w].end <= hull.end
        /\ hull.start <= row.start /\ row.end <= hull.end
    BY <1>7, InsideHull, Segment(row).start = row.start, Segment(row).end = row.end
  <1>10. \/ /\ ~Touches(row, span[w])
            /\ span'[w] = span[w] /\ merged'[w] = merged[w]
         \/ /\ Touches(row, span[w])
            /\ span'[w] = hull /\ merged'[w] = merged[w] \cup {row.id}
    BY <1>1
  <1>11. Grown(w)'
    <2>1. CASE ~Touches(row, span[w])
      BY <1>2, <1>4, <1>5, <1>10, <2>1 DEF Grown, Instants
    <2>2. CASE Touches(row, span[w])
      <3>1. Instants(key[w], asked[w]) \subseteq Instants(key[w], hull)
        <4>1. Instants(key[w], span[w]) \subseteq Instants(key[w], hull)
          <5>1. /\ hull.start \in Int /\ hull.end \in Int
                /\ span[w].start \in Int /\ span[w].end \in Int
            BY <1>7, <1>8, ConstantsAssumption DEF Range
          <5> HIDE DEF hull
          <5>2. QED
            BY <1>9, <5>1, InsideHolds
        <4>2. QED
          BY <1>5, <4>1 DEF Grown
      <3>2. Instants(key[w], hull) \subseteq read[w] \cup Instants(key[w], asked[w])
        <4> SUFFICES ASSUME NEW p \in Key \X Instant, p[1] = key[w], Contains(hull, p[2])
                     PROVE  p \in read[w] \cup Instants(key[w], asked[w])
          BY DEF Instants
        <4>1. Touches(Segment(row), span[w]) /\ p[2] \in Int
          BY <2>2, ConstantsAssumption DEF Touches
        <4>2. Contains(span[w], p[2]) \/ Contains(Segment(row), p[2])
          BY <1>7, <4>1, HullOfTouching
        <4>3. CASE Contains(span[w], p[2])
          BY <1>5, <4>3 DEF Grown, Instants
        <4>4. CASE Contains(Segment(row), p[2])
          <5>1. p \in Instants(key[w], row)
            BY <4>4 DEF Instants, Contains
          <5>2. QED
            BY <1>5, <5>1 DEF Grown
        <4>5. QED
          BY <4>2, <4>3, <4>4
      <3> HIDE DEF hull
      <3>3. span'[w] = hull
        BY <1>10, <2>2
      <3>4. QED
        BY <1>2, <1>4, <1>5, <3>1, <3>2, <3>3 DEF Grown, Instants
    <2>3. QED
      BY <2>1, <2>2
  <1>12. ASSUME ~raced[w] PROVE Snapshot(w)'
    <2>1. Snapshot(w)
      BY <1>2, <1>12 DEF Known
    <2>2. row \in rows /\ row.id \notin merged[w]
      BY <2>1 DEF Snapshot
    <2>3. CASE ~Touches(row, span[w])
      <3>1. span'[w] = span[w] /\ merged'[w] = merged[w]
        BY <1>10, <2>3
      <3>2. \A r \in rows :
              r.key = key[w] /\ r \notin unread'[w] /\ r.id \notin merged[w]
              /\ key[w] \notin dirty => ~Touches(r, span[w])
        BY <1>4, <2>1, <2>3 DEF Snapshot
      <3>3. QED
        BY <1>2, <1>3, <1>4, <2>1, <3>1, <3>2 DEF Snapshot
    <2>4. CASE Touches(row, span[w])
      <3>1. span'[w] = hull /\ merged'[w] = merged[w] \cup {row.id}
        BY <1>10, <2>4
      <3>2. \A r \in rows : Segment(r) \in Range
        BY DEF Range, Row
      <3>3. ASSUME NEW r \in rows, r.id \in merged'[w]
            PROVE  r.key = key[w] /\ hull.start <= r.start /\ r.end <= hull.end
        <4>1. CASE r.id = row.id
          BY <1>6, <1>9, <2>2, <4>1 DEF Known, UniqueIds
        <4>2. CASE r.id \in merged[w]
          <5>1. /\ hull.start \in Int /\ hull.end \in Int
                /\ span[w].start \in Int /\ span[w].end \in Int
                /\ r.start \in Int /\ r.end \in Int
            BY <1>7, <1>8, <3>2, ConstantsAssumption DEF Range, Row
          <5>2. r.key = key[w] /\ span[w].start <= r.start /\ r.end <= span[w].end
            BY <2>1, <4>2 DEF Snapshot
          <5> HIDE DEF hull
          <5>3. QED
            BY <1>9, <5>1, <5>2
        <4>3. QED
          BY <3>1, <3>3, <4>1, <4>2
      <3>4. ASSUME key[w] \notin dirty,
                   NEW r \in rows, r.key = key[w], r \notin unread'[w], r.id \notin merged'[w]
            PROVE  ~Touches(r, hull)
        <4>1. r # row /\ ~Touches(r, span[w])
          BY <1>4, <2>1, <3>1, <3>4 DEF Snapshot
        <4>2. r.end < row.start \/ row.end < r.start
          BY <1>6, <2>2, <3>4, <4>1 DEF Known, Tidy
        <4>3. Segment(r) \in Range
          BY <3>2
        <4>4. Touches(Segment(row), span[w]) /\ ~Touches(Segment(r), span[w])
          BY <2>4, <4>1 DEF Touches
        <4>5. ~Touches(Segment(r), [start |-> Earlier(span[w].start, Segment(row).start),
                                    end |-> Later(span[w].end, Segment(row).end)])
          BY <1>7, <4>2, <4>3, <4>4, BesideHull
        <4>6. QED
          BY <4>5 DEF Touches
      <3>5. \A r \in unread'[w] : r \in rows /\ r.id \notin merged'[w]
        BY <1>4, <2>1, <2>2, <3>1 DEF Snapshot, Known, UniqueIds
      <3>6. \A i \in merged'[w] : \E r \in rows : r.id = i
        BY <2>1, <2>2, <3>1 DEF Snapshot
      <3>7. read[w] = {p \in Claimed : p[1] = key[w]}
        BY <2>1 DEF Snapshot
      <3> HIDE DEF hull
      <3>8. QED
        BY <1>2, <1>3, <3>1, <3>3, <3>4, <3>5, <3>6, <3>7 DEF Snapshot
    <2>5. QED
      BY <2>3, <2>4
  <1>13. ASSUME NEW v \in Writer, v # w
         PROVE  /\ UNCHANGED <<span[v], unread[v], merged[v]>>
                /\ Grown(v) => Grown(v)'
                /\ Snapshot(v) => Snapshot(v)'
    <2>1. UNCHANGED <<span[v], unread[v], merged[v]>>
      BY <1>1, <1>13
    <2>2. QED
      BY <1>2, <1>3, <2>1 DEF Grown, Snapshot, Instants
  <1>14. Tidy' /\ UniqueIds'
    BY <1>2 DEF Known, Tidy, UniqueIds
  <1>15. \A v \in Writer :
           /\ pc[v] = "scan" => Grown(v)'
           /\ pc[v] = "scan" /\ ~raced[v] => Snapshot(v)'
           /\ pc[v] = "idle" => merged'[v] = {} /\ ~raced[v]
    BY <1>2, <1>11, <1>12, <1>13 DEF Known
  <1>16. QED
    BY <1>2, <1>3, <1>14, <1>15 DEF Known

\* The table after the write of a call that was not raced.
LEMMA UnracedWrite ==
  ASSUME Typed, Known, NEW w \in Writer, Write(w), ~raced[w]
  PROVE  Claimed' = Claimed \cup Instants(key[w], asked[w])
PROOF
  <1> USE DEF Typed, TypeOK
  <1> DEFINE rest == {row \in rows : row.id \notin merged[w]}
             new(i) == [id |-> i, key |-> key[w], start |-> span[w].start, end |-> span[w].end]
  <1>1. PICK i \in NextRowId(rest) : rows' = rest \cup {new(i)}
    BY DEF Write
  <1>2. Grown(w) /\ Snapshot(w)
    BY DEF Known, Write
  <1>3. ASSUME NEW row \in rows, row \notin rest
        PROVE  row.key = key[w] /\ Instants(key[w], row) \subseteq Instants(key[w], span[w])
    <2>1. row.key = key[w] /\ span[w].start <= row.start /\ row.end <= span[w].end
      BY <1>2, <1>3 DEF Snapshot
    <2>2. /\ row.start \in Int /\ row.end \in Int
          /\ span[w].start \in Int /\ span[w].end \in Int
      BY ConstantsAssumption DEF Row, Range
    <2>3. QED
      BY <2>1, <2>2, InsideHolds
  <1>4. Claimed \subseteq Claimed'
    <2> SUFFICES ASSUME NEW p \in Key \X Instant, NEW row \in rows,
                        row.key = p[1], Contains(row, p[2])
                 PROVE  p \in Claimed'
      BY DEF Claimed
    <2>1. CASE row \in rest
      BY <1>1, <2>1 DEF Claimed
    <2>2. CASE row \notin rest
      <3>1. p \in Instants(key[w], span[w]) /\ p[1] = key[w]
        BY <1>3, <2>2 DEF Instants
      <3>2. Contains(new(i), p[2])
        BY <3>1 DEF Instants, Contains
      <3>3. QED
        BY <1>1, <3>1, <3>2 DEF Claimed
    <2>3. QED
      BY <2>1, <2>2
  <1>5. Instants(key[w], asked[w]) \subseteq Claimed'
    <2> SUFFICES ASSUME NEW p \in Key \X Instant, p[1] = key[w], Contains(span[w], p[2])
                 PROVE  p \in Claimed'
      BY <1>2 DEF Grown, Instants
    <2>1. new(i) \in rows' /\ new(i).key = p[1] /\ Contains(new(i), p[2])
      BY <1>1 DEF Contains
    <2>2. QED
      BY <2>1 DEF Claimed
  <1>6. Claimed' \subseteq Claimed \cup Instants(key[w], asked[w])
    <2> SUFFICES ASSUME NEW p \in Key \X Instant, NEW row \in rows',
                        row.key = p[1], Contains(row, p[2])
                 PROVE  p \in Claimed \cup Instants(key[w], asked[w])
      BY DEF Claimed
    <2>1. CASE row \in rest
      BY <2>1 DEF Claimed
    <2>2. CASE row = new(i)
      <3>1. p \in Instants(key[w], span[w])
        BY <2>2 DEF Instants, Contains
      <3>2. read[w] \subseteq Claimed
        BY <1>2 DEF Snapshot
      <3>3. QED
        BY <1>2, <3>1, <3>2 DEF Grown
    <2>3. QED
      BY <1>1, <2>1, <2>2
  <1>7. QED
    BY <1>4, <1>5, <1>6

\* ... and of any call.
LEMMA AnyWrite ==
  ASSUME Typed, Known, NEW w \in Writer, Write(w)
  PROVE  /\ Claimed' \subseteq Claimed \cup read[w] \cup Instants(key[w], asked[w])
         /\ Instants(key[w], asked[w]) \subseteq Claimed'
PROOF
  <1> USE DEF Typed, TypeOK
  <1> DEFINE rest == {row \in rows : row.id \notin merged[w]}
             new(i) == [id |-> i, key |-> key[w], start |-> span[w].start, end |-> span[w].end]
  <1>1. PICK i \in NextRowId(rest) : rows' = rest \cup {new(i)}
    BY DEF Write
  <1>2. Grown(w)
    BY DEF Known, Write
  <1>3. Instants(key[w], asked[w]) \subseteq Claimed'
    <2> SUFFICES ASSUME NEW p \in Key \X Instant, p[1] = key[w], Contains(span[w], p[2])
                 PROVE  p \in Claimed'
      BY <1>2 DEF Grown, Instants
    <2>1. new(i) \in rows' /\ new(i).key = p[1] /\ Contains(new(i), p[2])
      BY <1>1 DEF Contains
    <2>2. QED
      BY <2>1 DEF Claimed
  <1>4. Claimed' \subseteq Claimed \cup read[w] \cup Instants(key[w], asked[w])
    <2> SUFFICES ASSUME NEW p \in Key \X Instant, NEW row \in rows',
                        row.key = p[1], Contains(row, p[2])
                 PROVE  p \in Claimed \cup read[w] \cup Instants(key[w], asked[w])
      BY DEF Claimed
    <2>1. CASE row \in rest
      BY <2>1 DEF Claimed
    <2>2. CASE row = new(i)
      <3>1. p \in Instants(key[w], span[w])
        BY <2>2 DEF Instants, Contains
      <3>2. QED
        BY <1>2, <3>1 DEF Grown
    <2>3. QED
      BY <1>1, <2>1, <2>2
  <1>5. QED
    BY <1>3, <1>4

LEMMA WriteKnown ==
  ASSUME Typed, Typed', Known, NEW w \in Writer, Write(w)
  PROVE  Known'
PROOF
  <1> USE DEF Typed, TypeOK
  <1> DEFINE rest == {row \in rows : row.id \notin merged[w]}
             new(i) == [id |-> i, key |-> key[w], start |-> span[w].start, end |-> span[w].end]
  <1>1. PICK i \in NextRowId(rest) : rows' = rest \cup {new(i)}
    BY DEF Write
  <1>2. /\ pc[w] = "scan" /\ unread[w] = {} /\ pc' = [pc EXCEPT ![w] = "idle"]
        /\ merged' = [merged EXCEPT ![w] = {}]
        /\ read' = [read EXCEPT ![w] = {}]
        /\ UNCHANGED <<key, asked, span, unread>>
    BY DEF Write
  <1>3. /\ raced' = [v \in Writer |->
                       /\ v # w /\ pc[v] = "scan"
                       /\ raced[v] \/ raced[w] \/ key[v] = key[w]]
        /\ dirty' = IF raced[w] THEN dirty \cup {key[w]} ELSE dirty
    BY DEF Write, Overtake
  <1>4. \A r \in rest : r.id # i
    BY NewRowId, rest \subseteq Row
  <1>5. UniqueIds'
    BY <1>1, <1>4 DEF Known, UniqueIds
  <1>6. Tidy'
    <2> SUFFICES ASSUME NEW r \in rows', NEW s \in rows', r.key = s.key, r # s,
                        r.key \notin dirty'
                 PROVE  r.end < s.start \/ s.end < r.start
      BY DEF Tidy
    <2>1. r.key \notin dirty /\ (r.key = key[w] => ~raced[w])
      BY <1>3
    <2>2. CASE r \in rest /\ s \in rest
      BY <2>1, <2>2 DEF Known, Tidy
    <2>3. ASSUME NEW q \in rest, q.key = key[w], r.key = key[w]
          PROVE  q.end < span[w].start \/ span[w].end < q.start
      <3>1. Snapshot(w)
        BY <1>2, <2>1, <2>3 DEF Known
      <3>2. ~Touches(q, span[w])
        BY <1>2, <2>1, <2>3, <3>1 DEF Snapshot
      <3>3. /\ q.start \in Int /\ q.end \in Int
            /\ span[w].start \in Int /\ span[w].end \in Int
        BY ConstantsAssumption DEF Row, Range
      <3>4. QED
        BY <3>2, <3>3 DEF Touches
    <2>4. CASE r = new(i) \/ s = new(i)
      BY <1>1, <2>3, <2>4
    <2>5. QED
      BY <1>1, <2>2, <2>4
  <1>7. ASSUME NEW v \in Writer, v # w
        PROVE  UNCHANGED <<pc[v], key[v], asked[v], span[v], unread[v], read[v], merged[v]>>
    BY <1>2, <1>7
  <1>8. ASSUME NEW v \in Writer, pc'[v] = "scan" PROVE Grown(v)'
    <2>1. v # w
      BY <1>2, <1>8
    <2>2. Grown(v)
      BY <1>7, <1>8, <2>1 DEF Known
    <2>3. QED
      BY <1>7, <2>1, <2>2 DEF Grown, Instants
  <1>9. ASSUME NEW v \in Writer, pc'[v] = "scan", ~raced'[v] PROVE Snapshot(v)'
    <2>1. v # w
      BY <1>2, <1>9
    <2>2. pc[v] = "scan" /\ ~raced[v] /\ ~raced[w] /\ key[v] # key[w]
      BY <1>3, <1>7, <1>9, <2>1
    <2>3. Snapshot(v) /\ Snapshot(w) /\ Grown(v)
      BY <1>2, <2>2 DEF Known
    <2>4. \A row \in rows : row.key # key[w] => row \in rest
      BY <2>3 DEF Snapshot
    <2>5. \A row \in rows' : row.key # key[w] => row \in rows
      BY <1>1
    <2>6. {p \in Claimed' : p[1] = key[v]} = {p \in Claimed : p[1] = key[v]}
      BY <1>1, <2>2, <2>4 DEF Claimed
    <2>7. unread[v] \subseteq rows'
      BY <1>1, <2>2, <2>3, <2>4 DEF Grown, Snapshot
    <2>8. \A j \in merged[v] : \E row \in rest : row.id = j
      BY <2>2, <2>3, <2>4 DEF Snapshot
    <2>9. ASSUME NEW row \in rows', row.id \in merged[v]
          PROVE  row \in rows
      BY <1>1, <1>4, <2>8, <2>9
    <2>10. dirty' = dirty
      BY <1>3, <2>2
    <2>11. \A j \in merged[v] : \E row \in rows' : row.id = j
      BY <1>1, <2>8
    <2>12. QED
      BY <1>7, <2>1, <2>2, <2>3, <2>5, <2>6, <2>7, <2>9, <2>10, <2>11 DEF Snapshot
  <1>10. \A v \in Writer : pc'[v] = "idle" => merged'[v] = {} /\ ~raced'[v]
    BY <1>2, <1>3, <1>7 DEF Known
  <1>11. QED
    BY <1>5, <1>6, <1>8, <1>9, <1>10 DEF Known

LEMMA InitKnown == Init => Known
PROOF BY DEF Init, Known, Tidy, UniqueIds

LEMMA NextKnown == Typed /\ Typed' /\ Known /\ [Next]_vars => Known'
PROOF
  <1> SUFFICES ASSUME Typed, Typed', Known, [Next]_vars PROVE Known'
    OBVIOUS
  <1>1. CASE UNCHANGED vars
    BY <1>1 DEF vars, history, Known, Tidy, UniqueIds, Grown, Snapshot, Claimed, Instants
  <1>2. QED
    BY <1>1, SelectKnown, ScanKnown, WriteKnown DEF Next

\* Until a raced call writes them the rows of a key neither overlap nor touch: "a
\* tidy, minimal set of segments" (core/models.py).
THEOREM RowsAreTidy == Spec => []Tidy
PROOF
  <1>1. Known => Tidy
    BY DEF Known
  <1>2. QED
    BY InitTyped, NextTyped, InitKnown, NextKnown, <1>1, PTL DEF Spec

\* record_coverage implements the abstract coverage, whoever races: a call adds
\* its range; unraced it changes nothing else, however many rows it merges; and
\* raced it adds nothing else but what it read.
THEOREM CoverageImplements == Spec => ImplementsAbstract
PROOF
  <1> DEFINE Busy == {w \in Writer : pc[w] = "scan"}
             Call == [w \in Writer |-> [key |-> key[w], range |-> asked[w]]]
  <1>1. Init => Abstract!Init
    <2> SUFFICES ASSUME Init PROVE Abstract!Init
      OBVIOUS
    <2>1. Claimed = {} /\ Busy = {}
      BY DEF Init, Claimed
    <2>2. Call \in [Writer -> [key : Key, range : Abstract!Range]]
      BY InitTyped DEF Typed, TypeOK, Range, Abstract!Range
    <2>3. read = [w \in Writer |-> {}] /\ raced = [w \in Writer |-> FALSE]
      BY DEF Init
    <2>4. QED
      BY <2>1, <2>2, <2>3 DEF Abstract!Init
  <1>2. ASSUME Typed, Known, [Next]_vars
        PROVE  [Abstract!Next]_<<Claimed, Busy, Call, read, raced>>
    <2> USE <1>2 DEF Typed, TypeOK
    <2>1. ASSUME NEW w \in Writer, Select(w)
          PROVE  Abstract!Next
      <3>1. PICK k \in Key, r \in Range :
              /\ key' = [key EXCEPT ![w] = k] /\ asked' = [asked EXCEPT ![w] = r]
              /\ read' = [read EXCEPT ![w] = {p \in Claimed : p[1] = k}]
        BY <2>1 DEF Select
      <3>2. pc[w] = "idle" /\ pc' = [pc EXCEPT ![w] = "scan"] /\ raced' = raced
        BY <2>1 DEF Select
      <3>3. w \notin Busy /\ Busy' = Busy \cup {w}
        BY <3>2
      <3>4. Call' = [Call EXCEPT ![w] = [key |-> k, range |-> r]]
        BY <3>1
      <3>5. Claimed' = Claimed
        BY <2>1, SelectKnown
      <3>6. r \in Abstract!Range
        BY DEF Range, Abstract!Range
      <3>7. Abstract!Ask(w, k, r)
        BY <3>1, <3>2, <3>3, <3>4, <3>5 DEF Abstract!Ask
      <3>8. QED
        BY <3>6, <3>7 DEF Abstract!Next
    <2>2. ASSUME NEW w \in Writer, Scan(w)
          PROVE  UNCHANGED <<Claimed, Busy, Call, read, raced>>
      <3>1. Claimed' = Claimed
        BY <2>2, ScanKnown
      <3>2. UNCHANGED <<pc, key, asked, read, raced>>
        BY <2>2 DEF Scan, history
      <3>3. QED
        BY <3>1, <3>2
    <2>3. ASSUME NEW w \in Writer, Write(w)
          PROVE  Abstract!Next
      <3>1. /\ pc[w] = "scan" /\ pc' = [pc EXCEPT ![w] = "idle"]
            /\ UNCHANGED <<key, asked>>
            /\ read' = [read EXCEPT ![w] = {}]
        BY <2>3 DEF Write
      <3>2. w \in Busy /\ Busy' = Busy \ {w} /\ Call' = Call
        BY <3>1
      <3>3. Abstract!Asked(Call[w]) = Instants(key[w], asked[w])
        BY ConstantsAssumption DEF Abstract!Asked, Instants, Contains
      <3>4. \E kept \in SUBSET (read[w] \cup Claimed) :
              /\ raced[w] \/ kept = Claimed
              /\ Claimed' = kept \cup Abstract!Asked(Call[w])
        <4>1. CASE raced[w]
          <5> DEFINE kept == Claimed' \cap (read[w] \cup Claimed)
          <5>1. Claimed' = kept \cup Instants(key[w], asked[w])
            BY <2>3, AnyWrite
          <5>2. QED
            BY <3>3, <4>1, <5>1
        <4>2. CASE ~raced[w]
          <5>1. Claimed' = Claimed \cup Instants(key[w], asked[w])
            BY <2>3, <4>2, UnracedWrite
          <5>2. QED
            BY <3>3, <5>1
        <4>3. QED
          BY <4>1, <4>2
      <3>5. raced' = [u \in Writer |->
                       /\ u \in Busy \ {w}
                       /\ raced[u] \/ raced[w] \/ Call[u].key = Call[w].key]
        BY <2>3 DEF Write, Overtake
      <3>6. Abstract!Record(w)
        BY <3>1, <3>2, <3>4, <3>5 DEF Abstract!Record
      <3>7. QED
        BY <3>6 DEF Abstract!Next
    <2>4. CASE UNCHANGED vars
      BY <2>4 DEF vars, history, Claimed
    <2>5. QED
      BY <2>1, <2>2, <2>3, <2>4 DEF Next
  <1>3. QED
    BY InitTyped, NextTyped, InitKnown, NextKnown, <1>1, <1>2, PTL
       DEF Spec, ImplementsAbstract, Abstract!Spec
=============================================================================
