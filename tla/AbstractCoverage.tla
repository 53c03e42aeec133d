-------------------------- MODULE AbstractCoverage --------------------------
(***************************************************************************)
(* What record_coverage promises its callers (and what Ingest.tla assumes   *)
(* of it).  A call adds exactly the instants of its range and removes none; *)
(* unless another call for the same key returned while it ran: then all     *)
(* that is certain is that its range is added and that nothing else is      *)
(* added but what it read.                                                  *)
(***************************************************************************)
EXTENDS Integers

CONSTANTS
  Writer,   \* callers of record_coverage
  Key,      \* an account and a folder
  Instant   \* points in time

Range == {r \in [start : Instant, end : Instant] : r.start < r.end}

\* The pairs <<key, instant>> a call asks to record.
Asked(c) == {p \in {c.key} \X Instant : c.range.start <= p[2] /\ p[2] < c.range.end}

VARIABLES
  covered,  \* pairs <<key, instant>>
  busy,     \* writers whose call has not returned
  call,     \* call[w]: the key and the range of w's call
  seen,     \* seen[w]: what was covered of that key when it began
  raced     \* raced[w]: the key was written since

Init ==
  /\ covered = {} /\ busy = {}
  /\ call \in [Writer -> [key : Key, range : Range]]
  /\ seen = [w \in Writer |-> {}]
  /\ raced = [w \in Writer |-> FALSE]

\* record_coverage(k, r) is called.
Ask(w, k, r) ==
  /\ w \notin busy
  /\ busy' = busy \cup {w}
  /\ call' = [call EXCEPT ![w] = [key |-> k, range |-> r]]
  /\ seen' = [seen EXCEPT ![w] = {p \in covered : p[1] = k}]
  /\ UNCHANGED <<covered, raced>>

\* It returns.  A raced call may take away what other keys cover, too.
Record(w) ==
  /\ w \in busy
  /\ busy' = busy \ {w}
  /\ \E kept \in SUBSET (seen[w] \cup covered) :
       /\ raced[w] \/ kept = covered
       /\ covered' = kept \cup Asked(call[w])
  /\ seen' = [seen EXCEPT ![w] = {}]
  /\ raced' = [u \in Writer |->
                 /\ u \in busy \ {w}
                 /\ raced[u] \/ raced[w] \/ call[u].key = call[w].key]
  /\ UNCHANGED call

Next == \E w \in Writer : Record(w) \/ \E k \in Key, r \in Range : Ask(w, k, r)

Spec == Init /\ [][Next]_<<covered, busy, call, seen, raced>>
=============================================================================
