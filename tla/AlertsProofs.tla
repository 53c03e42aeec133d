---------------------------- MODULE AlertsProofs ----------------------------
(***************************************************************************)
(* Theorems about Alerts, for any emails and any number of callers.         *)
(***************************************************************************)
EXTENDS Alerts, TLAPS

-----------------------------------------------------------------------------
(* The inductive invariant *)

\* alerts.email_id is UNIQUE, and so is the id.
Unique == \A a, b \in alerts : a.id = b.id \/ a.email = b.email => a = b

Tables ==
  /\ emails \subseteq Email /\ analyses \subseteq Analysis /\ alerts \subseteq Alert
  /\ Unique

Callers ==
  /\ pc \in [Client -> {"idle", "posted", "checked"}]
  /\ request \in [Client -> [id : RowId, target : Status]]
  /\ current \in [Client -> Status]
  /\ fresh \in [Client -> BOOLEAN]
  /\ refused \in BOOLEAN

\* Between the SELECT and the UPDATE a caller holds a legal move.
MoveIsLegal ==
  \A c \in Client : pc[c] = "checked" => request[c].target \in Moves(current[c])

\* While what the page showed is not outdated, the alert is there, can make the move,
\* and has the status the SELECT returned.
Offered(c) ==
  /\ pc[c] # "idle"
  /\ \E a \in alerts : /\ a.id = request[c].id /\ request[c].target \in Moves(a.status)
                       /\ pc[c] = "checked" => current[c] = a.status
OffersStand == \A c \in Client : fresh[c] => Offered(c)

AlertsInv ==
  /\ Tables /\ Callers /\ MoveIsLegal /\ OffersStand
  /\ StampsMatchStatus /\ FlaggedHasAlert /\ OffersHold

LEMMA AlertsInit == Init => AlertsInv
<1> SUFFICES ASSUME Init PROVE AlertsInv
  OBVIOUS
<1>1. Tables /\ StampsMatchStatus /\ FlaggedHasAlert
  BY DEF Init, Tables, Unique, StampsMatchStatus, FlaggedHasAlert
<1>2. NoRequest \in [id : RowId, target : Status] /\ "open" \in Status
  BY DEF NoRequest, RowId, Status
<1>3. Callers /\ MoveIsLegal
  BY <1>2 DEF Init, Callers, MoveIsLegal
<1>4. OffersStand /\ OffersHold
  BY Zenon DEF Init, OffersStand, OffersHold
<1> QED
  BY <1>1, <1>3, <1>4 DEF AlertsInv

-----------------------------------------------------------------------------
(* The tables *)

\* An upsert changes the content of the email's alert, or adds one that is open.
LEMMA Upserted ==
  ASSUME Tables, NEW e \in Email, NEW verdict \in Flagged, UpsertAlert(e, verdict)
  PROVE  \/ \E a \in alerts :
              /\ a.email = e
              /\ alerts' = (alerts \ {a}) \cup {[a EXCEPT !.verdict = verdict]}
         \/ \E n \in Alert :
              /\ n.email = e /\ n.status = "open" /\ n.verdict = verdict
              /\ ~n.acknowledgedAt /\ ~n.closedAt
              /\ \A a \in alerts : a.email # e /\ a.id < n.id
              /\ alerts' = alerts \cup {n}
<1>1. CASE \E a \in alerts : a.email = e
  <2>1. PICK a \in alerts : a.email = e
    BY <1>1
  <2>2. \A b \in alerts : b.email = e => b = a
    BY <2>1 DEF Tables, Unique
  <2>3. alerts' = {IF b.email = e THEN [b EXCEPT !.verdict = verdict] ELSE b : b \in alerts}
    BY <1>1 DEF UpsertAlert
  <2>4. alerts' = (alerts \ {a}) \cup {[a EXCEPT !.verdict = verdict]}
    BY <2>1, <2>2, <2>3
  <2> QED
    BY <2>1, <2>4
<1>2. CASE \A a \in alerts : a.email # e
  <2>1. PICK i \in NextRowId(alerts) :
          alerts' = alerts \cup {[id |-> i, email |-> e, status |-> "open",
                                  verdict |-> verdict, acknowledgedAt |-> FALSE,
                                  closedAt |-> FALSE]}
    BY <1>2 DEF UpsertAlert
  <2>2. i \in RowId /\ \A a \in alerts : a.id < i
    BY <2>1 DEF NextRowId, Tables, Alert, RowId
  <2> DEFINE n == [id |-> i, email |-> e, status |-> "open", verdict |-> verdict,
                   acknowledgedAt |-> FALSE, closedAt |-> FALSE]
  <2>3. n \in Alert
    BY <2>2 DEF Alert, Status
  <2> QED
    BY <1>2, <2>1, <2>2, <2>3
<1> QED
  BY <1>1, <1>2

\* One alert is written anew, under its own id and email.
LEMMA Rewritten ==
  ASSUME Tables, NEW a \in alerts, NEW b \in Alert, b.id = a.id, b.email = a.email,
         alerts' = (alerts \ {a}) \cup {b},
         emails' \subseteq Email, analyses' \subseteq Analysis
  PROVE  Tables'
<1>1. alerts' \subseteq Alert
  BY DEF Tables
<1>2. Unique'
  BY DEF Tables, Unique
<1> QED
  BY <1>1, <1>2 DEF Tables

\* What the UPDATE of a caller does to the table.
LEMMA Written ==
  ASSUME AlertsInv, NEW c \in Client, WriteMove(c), \E a \in alerts : UpdateHits(a, c)
  PROVE  \E a \in alerts :
           /\ a.id = request[c].id /\ a.status = current[c]
           /\ request[c].target \in Moves(a.status)
           /\ Stamped(a, request[c].target) \in Alert
           /\ alerts' = (alerts \ {a}) \cup {Stamped(a, request[c].target)}
           /\ Answer(c, 200)
<1>1. PICK a \in alerts : UpdateHits(a, c)
  OBVIOUS
<1>2. a.id = request[c].id /\ a.status = current[c]
  BY <1>1 DEF UpdateHits
<1>3. \A b \in alerts : UpdateHits(b, c) => b = a
  BY <1>2 DEF UpdateHits, AlertsInv, Tables, Unique
<1>4. /\ alerts' = {IF UpdateHits(b, c) THEN Stamped(b, request[c].target) ELSE b :
                    b \in alerts}
      /\ Answer(c, 200) /\ pc[c] = "checked"
  BY DEF WriteMove
<1>5. alerts' = (alerts \ {a}) \cup {Stamped(a, request[c].target)}
  BY <1>1, <1>3, <1>4
<1>6. request[c].target \in Moves(a.status)
  BY <1>2, <1>4 DEF AlertsInv, MoveIsLegal
<1>7. request[c].target \in Status /\ a \in Alert
  BY DEF AlertsInv, Callers, Tables
<1>8. Stamped(a, request[c].target) \in Alert
  BY <1>7 DEF Stamped, Alert
<1> QED
  BY <1>2, <1>4, <1>5, <1>6, <1>8

LEMMA DeletedStep ==
  ASSUME AlertsInv, NEW e \in Email, DeleteEmail(e)
  PROVE  Tables' /\ StampsMatchStatus' /\ FlaggedHasAlert'
<1>1. /\ emails' \subseteq emails /\ alerts' = {a \in alerts : a.email # e}
      /\ analyses' = {r \in analyses : r.email # e}
  BY DEF DeleteEmail
<1>2. Tables'
  BY <1>1 DEF AlertsInv, Tables, Unique
<1>3. StampsMatchStatus'
  BY <1>1 DEF AlertsInv, StampsMatchStatus
<1>4. FlaggedHasAlert'
  <2> SUFFICES ASSUME NEW r \in analyses', r.verdict \in Flagged
               PROVE  \E a \in alerts' : /\ a.email = r.email /\ a.verdict = r.verdict
                                         /\ \A b \in alerts' : b.email = r.email => b = a
    BY DEF FlaggedHasAlert
  <2>1. r \in analyses /\ r.email # e
    BY <1>1
  <2>2. PICK a \in alerts : /\ a.email = r.email /\ a.verdict = r.verdict
                            /\ \A b \in alerts : b.email = r.email => b = a
    BY <2>1 DEF AlertsInv, FlaggedHasAlert
  <2> QED
    BY <1>1, <2>1, <2>2
<1> QED
  BY <1>2, <1>3, <1>4

\* A re-score touches the email's own alert only, and not its handling.
LEMMA AssessedStep ==
  ASSUME AlertsInv, NEW e \in Email, NEW v \in Verdict, RecordAssessment(e, v)
  PROVE  Tables' /\ StampsMatchStatus' /\ FlaggedHasAlert'
<1> DEFINE mine == [email |-> e, verdict |-> v]
<1>1. /\ analyses' = {r \in analyses : r.email # e} \cup {mine}
      /\ emails' = emails
      /\ IF v \in Flagged THEN UpsertAlert(e, v) ELSE alerts' = alerts
  BY DEF RecordAssessment
<1>2. analyses' \subseteq Analysis /\ emails' \subseteq Email
  BY <1>1 DEF AlertsInv, Tables, Analysis
<1>3. ASSUME NEW r \in analyses', r.verdict \in Flagged, r # mine
      PROVE  \E a \in alerts : /\ a.email = r.email /\ a.verdict = r.verdict /\ a.email # e
                               /\ \A b \in alerts : b.email = r.email => b = a
  BY <1>1, <1>3 DEF AlertsInv, FlaggedHasAlert
<1>4. CASE v \notin Flagged
  <2>1. alerts' = alerts /\ mine.verdict \notin Flagged
    BY <1>1, <1>4
  <2>2. Tables' /\ StampsMatchStatus'
    BY <2>1, <1>2 DEF AlertsInv, Tables, Unique, StampsMatchStatus
  <2>3. FlaggedHasAlert'
    BY <2>1, <1>3 DEF FlaggedHasAlert
  <2> QED
    BY <2>2, <2>3
<1>5. CASE v \in Flagged /\ \E a \in alerts :
             a.email = e /\ alerts' = (alerts \ {a}) \cup {[a EXCEPT !.verdict = v]}
  <2>1. PICK a \in alerts :
          a.email = e /\ alerts' = (alerts \ {a}) \cup {[a EXCEPT !.verdict = v]}
    BY <1>5
  <2> DEFINE b == [a EXCEPT !.verdict = v]
  <2>2. a \in Alert /\ b \in Alert /\ b.id = a.id /\ b.email = e /\ b.verdict = v
    BY <1>5, <2>1 DEF AlertsInv, Tables, Alert
  <2>3. /\ b.status = a.status /\ b.acknowledgedAt = a.acknowledgedAt
        /\ b.closedAt = a.closedAt
    BY <2>2 DEF Alert
  <2> HIDE DEF b
  <2>4. Tables'
    BY <1>2, <2>1, <2>2, Rewritten DEF AlertsInv, b
  <2>5. StampsMatchStatus'
    BY <2>1, <2>3 DEF AlertsInv, StampsMatchStatus, b
  <2>6. \A x \in alerts' : x.email = e => x = b
    BY <2>1, <2>2 DEF AlertsInv, Tables, Unique, b
  <2>7. ASSUME NEW r \in analyses', r.verdict \in Flagged
        PROVE  \E x \in alerts' : /\ x.email = r.email /\ x.verdict = r.verdict
                                  /\ \A y \in alerts' : y.email = r.email => y = x
    <3>1. CASE r = mine
      BY <3>1, <2>1, <2>2, <2>6 DEF b
    <3>2. CASE r # mine
      <4>1. PICK x \in alerts : /\ x.email = r.email /\ x.verdict = r.verdict /\ x.email # e
                                /\ \A y \in alerts : y.email = r.email => y = x
        BY <3>2, <2>7, <1>3
      <4> QED
        BY <4>1, <2>1, <2>2 DEF b
    <3> QED
      BY <3>1, <3>2
  <2> QED
    BY <2>4, <2>5, <2>7 DEF FlaggedHasAlert
<1>6. CASE v \in Flagged /\ \E n \in Alert :
             /\ n.email = e /\ n.status = "open" /\ n.verdict = v
             /\ ~n.acknowledgedAt /\ ~n.closedAt
             /\ \A a \in alerts : a.email # e /\ a.id < n.id
             /\ alerts' = alerts \cup {n}
  <2>1. PICK n \in Alert :
             /\ n.email = e /\ n.status = "open" /\ n.verdict = v
             /\ ~n.acknowledgedAt /\ ~n.closedAt
             /\ \A a \in alerts : a.email # e /\ a.id < n.id
             /\ alerts' = alerts \cup {n}
    BY <1>6
  <2>2. \A a \in alerts : a.id # n.id
    BY <2>1 DEF AlertsInv, Tables, Alert, RowId
  <2>3. Tables'
    BY <1>2, <2>1, <2>2 DEF AlertsInv, Tables, Unique
  <2>4. StampsMatchStatus'
    BY <2>1 DEF AlertsInv, StampsMatchStatus
  <2>5. FlaggedHasAlert'
    BY <1>3, <2>1 DEF FlaggedHasAlert
  <2> QED
    BY <2>3, <2>4, <2>5
<1> QED
  BY <1>1, <1>4, <1>5, <1>6, Upserted DEF AlertsInv

\* A move stamps what its target says, from every status the lifecycle allows it from.
LEMMA WrittenStep ==
  ASSUME AlertsInv, NEW c \in Client, WriteMove(c)
  PROVE  Tables' /\ StampsMatchStatus' /\ FlaggedHasAlert'
<1>1. emails' = emails /\ analyses' = analyses
  BY DEF WriteMove
<1>2. CASE ~ \E a \in alerts : UpdateHits(a, c)
  <2>1. alerts' = alerts
    BY <1>2 DEF WriteMove
  <2> QED
    BY <1>1, <2>1 DEF AlertsInv, Tables, Unique, StampsMatchStatus, FlaggedHasAlert
<1>3. CASE \E a \in alerts : UpdateHits(a, c)
  <2> DEFINE target == request[c].target
  <2>1. PICK a \in alerts :
           /\ a.id = request[c].id /\ a.status = current[c]
           /\ target \in Moves(a.status)
           /\ Stamped(a, target) \in Alert
           /\ alerts' = (alerts \ {a}) \cup {Stamped(a, target)}
    BY <1>3, Written
  <2> DEFINE b == Stamped(a, target)
  <2>2. a \in Alert /\ target \in Status
    BY DEF AlertsInv, Tables, Callers
  <2>3. /\ b.id = a.id /\ b.email = a.email /\ b.verdict = a.verdict /\ b.status = target
        /\ b.acknowledgedAt <=> (target = "acknowledged" \/ (a.acknowledgedAt /\ target # "open"))
        /\ b.closedAt <=> (target # "open" /\ (a.closedAt \/ target \in {"resolved", "false_positive"}))
    BY <2>2 DEF Stamped, Alert
  <2>4. /\ a.status = "open" => ~a.acknowledgedAt /\ ~a.closedAt
        /\ target = "acknowledged" => a.status = "open"
    BY <2>1, <2>2 DEF AlertsInv, StampsMatchStatus, Moves, Alert, Status
  <2> HIDE DEF b, target
  <2>5. Tables'
    BY <1>1, <2>1, <2>3, Rewritten DEF AlertsInv, Tables, b
  <2>6. StampsMatchStatus'
    BY <2>1, <2>2, <2>3, <2>4 DEF AlertsInv, StampsMatchStatus, b, Status
  <2>7. ASSUME NEW r \in analyses', r.verdict \in Flagged
        PROVE  \E x \in alerts' : /\ x.email = r.email /\ x.verdict = r.verdict
                                  /\ \A y \in alerts' : y.email = r.email => y = x
    <3>1. PICK x \in alerts : /\ x.email = r.email /\ x.verdict = r.verdict
                              /\ \A y \in alerts : y.email = r.email => y = x
      BY <1>1, <2>7 DEF AlertsInv, FlaggedHasAlert
    <3>2. CASE x = a
      BY <3>1, <3>2, <2>1, <2>3 DEF b
    <3>3. CASE x # a
      BY <3>1, <3>3, <2>1, <2>3 DEF b
    <3> QED
      BY <3>2, <3>3
  <2> QED
    BY <2>5, <2>6, <2>7 DEF FlaggedHasAlert
<1> QED
  BY <1>2, <1>3

LEMMA TablesStep ==
  AlertsInv /\ [Next]_vars => Tables' /\ StampsMatchStatus' /\ FlaggedHasAlert'
<1> SUFFICES ASSUME AlertsInv, [Next]_vars
             PROVE  Tables' /\ StampsMatchStatus' /\ FlaggedHasAlert'
  OBVIOUS
<1>1. ASSUME NEW e \in Email, StoreEmail(e)
      PROVE  Tables' /\ StampsMatchStatus' /\ FlaggedHasAlert'
  BY <1>1 DEF StoreEmail, AlertsInv, Tables, Unique, StampsMatchStatus, FlaggedHasAlert
<1>2. CASE UNCHANGED <<emails, analyses, alerts>>
  BY <1>2 DEF AlertsInv, Tables, Unique, StampsMatchStatus, FlaggedHasAlert
<1>3. ASSUME NEW c \in Client, ClickMove(c) \/ CallApi(c) \/ CheckMove(c)
      PROVE  UNCHANGED <<emails, analyses, alerts>>
  BY <1>3 DEF ClickMove, CallApi, CheckMove
<1>4. CASE UNCHANGED vars
  BY <1>2, <1>4 DEF vars
<1> QED
  BY <1>1, <1>2, <1>3, <1>4, DeletedStep, AssessedStep, WrittenStep DEF Next

-----------------------------------------------------------------------------
(* The callers *)

\* An answer ends the request; what it changed is outdated for everybody else.
LEMMA Answered ==
  ASSUME Callers, MoveIsLegal, NEW c \in Client, NEW code, Answer(c, code)
  PROVE  /\ Callers' /\ MoveIsLegal'
         /\ pc'[c] = "idle" /\ ~fresh'[c]
         /\ \A d \in Client \ {c} : /\ pc'[d] = pc[d] /\ request'[d] = request[d]
                                    /\ current'[d] = current[d]
                                    /\ fresh'[d] => fresh[d]
                                    /\ (code = 200 /\ fresh'[d]) => request[d].id # request[c].id
<1>1. NoRequest \in [id : RowId, target : Status] /\ "open" \in Status
  BY DEF NoRequest, RowId, Status
<1>2. /\ pc' = [pc EXCEPT ![c] = "idle"]
      /\ request' = [request EXCEPT ![c] = NoRequest]
      /\ current' = [current EXCEPT ![c] = "open"]
      /\ fresh' = [Outdated(IF code = 200 THEN {request[c].id} ELSE {}) EXCEPT ![c] = FALSE]
      /\ refused' = (refused \/ (code = 409 /\ fresh[c]))
  BY DEF Answer
<1>3. /\ fresh' \in [Client -> BOOLEAN] /\ ~fresh'[c]
      /\ \A d \in Client \ {c} :
           /\ fresh'[d] => fresh[d]
           /\ (code = 200 /\ fresh'[d]) => request[d].id # request[c].id
  BY <1>2 DEF Outdated, Callers
<1>4. refused' \in BOOLEAN
  BY <1>2, Zenon DEF Callers
<1>5. Callers'
  BY <1>1, <1>2, <1>3, <1>4 DEF Callers
<1>6. /\ pc'[c] = "idle"
      /\ \A d \in Client \ {c} : /\ pc'[d] = pc[d] /\ request'[d] = request[d]
                                 /\ current'[d] = current[d]
  BY <1>2 DEF Callers
<1>7. MoveIsLegal'
  BY <1>6 DEF MoveIsLegal
<1> QED
  BY <1>3, <1>5, <1>6, <1>7

\* The table may change, as long as the alerts with a fresh offer keep their status.
LEMMA OfferKept ==
  ASSUME NEW d \in Client, fresh[d] => Offered(d),
         fresh'[d] => fresh[d], pc'[d] = pc[d], request'[d] = request[d],
         current'[d] = current[d],
         fresh'[d] => \A a \in alerts : a.id = request[d].id =>
                        \E b \in alerts' : b.id = a.id /\ b.status = a.status
  PROVE  fresh'[d] => Offered(d)'
  BY DEF Offered

\* An action that leaves the callers alone, but for offers that are outdated.
LEMMA Elsewhere ==
  ASSUME AlertsInv, UNCHANGED <<pc, request, current, refused>>, fresh' \in [Client -> BOOLEAN],
         \A d \in Client : fresh'[d] => fresh[d],
         \A d \in Client : fresh'[d] => \A a \in alerts : a.id = request[d].id =>
                             \E b \in alerts' : b.id = a.id /\ b.status = a.status
  PROVE  Callers' /\ MoveIsLegal' /\ OffersStand' /\ OffersHold'
<1>1. Callers' /\ MoveIsLegal' /\ OffersHold'
  BY DEF AlertsInv, Callers, MoveIsLegal, OffersHold
<1>2. OffersStand'
  BY OfferKept DEF AlertsInv, OffersStand
<1> QED
  BY <1>1, <1>2

LEMMA VaultCallers ==
  ASSUME AlertsInv, NEW e \in Email,
         StoreEmail(e) \/ DeleteEmail(e) \/ \E v \in Verdict : RecordAssessment(e, v)
  PROVE  Callers' /\ MoveIsLegal' /\ OffersStand' /\ OffersHold'
<1>1. CASE StoreEmail(e)
  BY <1>1, Elsewhere DEF StoreEmail, client, AlertsInv, Callers
<1>2. CASE DeleteEmail(e)
  <2>1. /\ UNCHANGED <<pc, request, current, refused>>
        /\ alerts' \subseteq alerts
        /\ fresh' = Outdated({a.id : a \in alerts \ alerts'})
    BY <1>2 DEF DeleteEmail
  <2>2. fresh' \in [Client -> BOOLEAN] /\ \A d \in Client : fresh'[d] => fresh[d]
    BY <2>1 DEF Outdated, AlertsInv, Callers
  <2>3. ASSUME NEW d \in Client, fresh'[d], NEW a \in alerts, a.id = request[d].id
        PROVE  a \in alerts'
    <3>1. request[d].id \notin {x.id : x \in alerts \ alerts'}
      BY <2>1, <2>3 DEF Outdated
    <3> QED
      BY <3>1, <2>3
  <2> QED
    BY <2>1, <2>2, <2>3, Elsewhere
<1>3. ASSUME NEW v \in Verdict, RecordAssessment(e, v)
      PROVE  Callers' /\ MoveIsLegal' /\ OffersStand' /\ OffersHold'
  <2>1. UNCHANGED <<pc, request, current, fresh, refused>>
    BY <1>3 DEF RecordAssessment, client
  <2>2. ASSUME NEW a \in alerts PROVE \E b \in alerts' : b.id = a.id /\ b.status = a.status
    <3>1. CASE v \notin Flagged
      BY <1>3, <3>1 DEF RecordAssessment
    <3>2. CASE v \in Flagged
      <4>1. UpsertAlert(e, v) /\ Tables
        BY <1>3, <3>2 DEF RecordAssessment, AlertsInv
      <4>2. CASE \E x \in alerts :
                   x.email = e /\ alerts' = (alerts \ {x}) \cup {[x EXCEPT !.verdict = v]}
        <5>1. PICK x \in alerts :
                   x.email = e /\ alerts' = (alerts \ {x}) \cup {[x EXCEPT !.verdict = v]}
          BY <4>2
        <5>2. x \in Alert
          BY DEF AlertsInv, Tables
        <5>3. [x EXCEPT !.verdict = v].id = x.id /\ [x EXCEPT !.verdict = v].status = x.status
          BY <5>2 DEF Alert
        <5> QED
          BY <5>1, <5>3
      <4>3. CASE \E n \in Alert : alerts' = alerts \cup {n}
        BY <4>3
      <4> QED
        BY <3>2, <4>1, <4>2, <4>3, Upserted
    <3> QED
      BY <3>1, <3>2
  <2> QED
    BY <2>1, <2>2, Elsewhere DEF AlertsInv, Callers
<1> QED
  BY <1>1, <1>2, <1>3

\* What the page sends, its alert could do when the page read it.
LEMMA PostedCallers ==
  ASSUME AlertsInv, NEW c \in Client, ClickMove(c) \/ CallApi(c)
  PROVE  Callers' /\ MoveIsLegal' /\ OffersStand' /\ OffersHold'
<1>1. /\ pc[c] = "idle" /\ pc' = [pc EXCEPT ![c] = "posted"]
      /\ alerts' = alerts /\ current' = current /\ refused' = refused
  BY DEF ClickMove, CallApi
<1>2. PICK a \in alerts, target \in Status :
        /\ request' = [request EXCEPT ![c] = [id |-> a.id, target |-> target]]
        /\ ClickMove(c) => target \in Moves(a.status)
  <2>1. CASE ClickMove(c)
    <3>1. PICK a \in alerts : \E target \in Moves(a.status) :
            request' = [request EXCEPT ![c] = [id |-> a.id, target |-> target]]
      BY <2>1 DEF ClickMove
    <3>2. Moves(a.status) \subseteq Status
      BY DEF AlertsInv, Tables, Alert, Moves, Status
    <3> QED
      BY <3>1, <3>2
  <2>2. CASE ~ClickMove(c)
    BY <2>2 DEF CallApi
  <2> QED
    BY <2>1, <2>2
<1>3. /\ fresh' \in [Client -> BOOLEAN]
      /\ \A d \in Client \ {c} : fresh'[d] = fresh[d]
      /\ fresh'[c] => ClickMove(c)
  <2>1. CASE ClickMove(c)
    BY <2>1 DEF ClickMove, AlertsInv, Callers
  <2>2. CASE CallApi(c)
    <3>1. fresh' = fresh
      BY <2>2 DEF CallApi
    <3>2. ~fresh[c]
      BY <1>1 DEF AlertsInv, OffersStand, Offered
    <3> QED
      BY <3>1, <3>2 DEF AlertsInv, Callers
  <2> QED
    BY <2>1, <2>2
<1>4. a.id \in RowId
  BY DEF AlertsInv, Tables, Alert
<1>5. Callers'
  BY <1>1, <1>2, <1>3, <1>4 DEF AlertsInv, Callers
<1>6. /\ pc'[c] = "posted" /\ request'[c] = [id |-> a.id, target |-> target]
      /\ \A d \in Client \ {c} : pc'[d] = pc[d] /\ request'[d] = request[d]
  BY <1>1, <1>2 DEF AlertsInv, Callers
<1>7. MoveIsLegal'
  BY <1>1, <1>6 DEF AlertsInv, MoveIsLegal
<1>8. ASSUME NEW d \in Client PROVE fresh'[d] => Offered(d)'
  <2>1. CASE d = c
    BY <2>1, <1>1, <1>2, <1>3, <1>6 DEF Offered
  <2>2. CASE d # c
    BY <2>2, <1>1, <1>3, <1>6 DEF AlertsInv, OffersStand, Offered
  <2> QED
    BY <2>1, <2>2
<1> QED
  BY <1>1, <1>5, <1>7, <1>8 DEF OffersStand, AlertsInv, OffersHold

\* The check refuses no offer that stands.
LEMMA CheckedCallers ==
  ASSUME AlertsInv, NEW c \in Client, CheckMove(c)
  PROVE  Callers' /\ MoveIsLegal' /\ OffersStand' /\ OffersHold'
<1>0. Callers /\ MoveIsLegal /\ OffersStand /\ OffersHold /\ Tables
  BY DEF AlertsInv
<1>1. pc[c] = "posted" /\ alerts' = alerts
  BY DEF CheckMove
<1>2. ASSUME NEW code, Answer(c, code), code # 409 \/ ~fresh[c]
      PROVE  Callers' /\ MoveIsLegal' /\ OffersStand' /\ OffersHold'
  <2>1. /\ Callers' /\ MoveIsLegal' /\ ~fresh'[c]
        /\ \A d \in Client \ {c} : /\ pc'[d] = pc[d] /\ request'[d] = request[d]
                                   /\ current'[d] = current[d] /\ (fresh'[d] => fresh[d])
    BY <1>0, <1>2, Answered
  <2>2. OffersStand'
    BY <1>0, <1>1, <2>1 DEF OffersStand, Offered
  <2>3. refused' = (refused \/ (code = 409 /\ fresh[c]))
    BY <1>2 DEF Answer
  <2>4. OffersHold'
    BY <1>0, <1>2, <2>3, Zenon DEF OffersHold
  <2> QED
    BY <2>1, <2>2, <2>4
<1>3. CASE Answer(c, 404)
  BY <1>2, <1>3
<1>4. CASE \E a \in alerts : /\ a.id = request[c].id
                             /\ request[c].target \notin Moves(a.status)
                             /\ Answer(c, 409)
  <2>1. ~fresh[c]
    BY <1>0, <1>4 DEF OffersStand, Offered, Tables, Unique
  <2> QED
    BY <1>2, <1>4, <2>1
<1>5. CASE \E a \in alerts :
             /\ a.id = request[c].id /\ request[c].target \in Moves(a.status)
             /\ current' = [current EXCEPT ![c] = a.status]
             /\ pc' = [pc EXCEPT ![c] = "checked"]
             /\ UNCHANGED <<request, fresh, refused>>
  <2>1. PICK a \in alerts :
             /\ a.id = request[c].id /\ request[c].target \in Moves(a.status)
             /\ current' = [current EXCEPT ![c] = a.status]
             /\ pc' = [pc EXCEPT ![c] = "checked"]
             /\ UNCHANGED <<request, fresh, refused>>
    BY <1>5
  <2>2. a.status \in Status
    BY <1>0 DEF Tables, Alert
  <2>3. Callers'
    BY <1>0, <2>1, <2>2 DEF Callers
  <2>4. /\ pc'[c] = "checked" /\ current'[c] = a.status
        /\ \A d \in Client \ {c} : pc'[d] = pc[d] /\ current'[d] = current[d]
    BY <1>0, <2>1 DEF Callers
  <2>5. MoveIsLegal'
    BY <1>0, <2>1, <2>4 DEF MoveIsLegal
  <2>6. OffersStand'
    BY <1>0, <1>1, <2>1, <2>4 DEF OffersStand, Offered
  <2> QED
    BY <1>0, <2>1, <2>3, <2>5, <2>6 DEF OffersHold
<1> QED
  BY <1>3, <1>4, <1>5 DEF CheckMove

\* The UPDATE misses no row whose offer stands, and outdates what it changes.
LEMMA WroteCallers ==
  ASSUME AlertsInv, NEW c \in Client, WriteMove(c)
  PROVE  Callers' /\ MoveIsLegal' /\ OffersStand' /\ OffersHold'
<1>0. Callers /\ MoveIsLegal /\ OffersStand /\ OffersHold /\ Tables
  BY DEF AlertsInv
<1>1. pc[c] = "checked"
  BY DEF WriteMove
<1>2. CASE \E a \in alerts : UpdateHits(a, c)
  <2>1. PICK a \in alerts :
           /\ a.id = request[c].id
           /\ Stamped(a, request[c].target) \in Alert
           /\ alerts' = (alerts \ {a}) \cup {Stamped(a, request[c].target)}
           /\ Answer(c, 200)
    BY <1>2, Written
  <2>2. /\ Callers' /\ MoveIsLegal' /\ ~fresh'[c]
        /\ \A d \in Client \ {c} : /\ pc'[d] = pc[d] /\ request'[d] = request[d]
                                   /\ current'[d] = current[d] /\ (fresh'[d] => fresh[d])
                                   /\ (fresh'[d] => request[d].id # request[c].id)
    BY <1>0, <2>1, Answered
  <2>3. ASSUME NEW d \in Client \ {c} PROVE fresh'[d] => Offered(d)'
    <3>1. fresh'[d] => \A x \in alerts : x.id = request[d].id => x \in alerts'
      BY <2>1, <2>2
    <3> QED
      BY <3>1, <2>2, <1>0, OfferKept DEF OffersStand
  <2>4. OffersStand'
    BY <2>2, <2>3 DEF OffersStand
  <2>5. refused' = (refused \/ (200 = 409 /\ fresh[c]))
    BY <2>1 DEF Answer
  <2>6. refused' = refused
    BY <1>0, <2>5 DEF Callers
  <2>7. OffersHold'
    BY <1>0, <2>6 DEF OffersHold
  <2> QED
    BY <2>2, <2>4, <2>7
<1>3. CASE ~ \E a \in alerts : UpdateHits(a, c)
  <2>1. Answer(c, 409) /\ alerts' = alerts
    BY <1>3 DEF WriteMove
  <2>2. ~fresh[c]
    BY <1>0, <1>1, <1>3 DEF OffersStand, Offered, UpdateHits
  <2>3. /\ Callers' /\ MoveIsLegal' /\ ~fresh'[c]
        /\ \A d \in Client \ {c} : /\ pc'[d] = pc[d] /\ request'[d] = request[d]
                                   /\ current'[d] = current[d] /\ (fresh'[d] => fresh[d])
    BY <1>0, <2>1, Answered
  <2>4. OffersStand'
    BY <1>0, <2>1, <2>3 DEF OffersStand, Offered
  <2>5. refused' = (refused \/ (409 = 409 /\ fresh[c]))
    BY <2>1 DEF Answer
  <2>6. OffersHold'
    BY <1>0, <2>2, <2>5, Zenon DEF OffersHold
  <2> QED
    BY <2>3, <2>4, <2>6
<1> QED
  BY <1>2, <1>3

LEMMA AlertsStep == AlertsInv /\ [Next]_vars => AlertsInv'
<1> SUFFICES ASSUME AlertsInv, [Next]_vars PROVE AlertsInv'
  OBVIOUS
<1>1. Tables' /\ StampsMatchStatus' /\ FlaggedHasAlert'
  BY TablesStep
<1>2. Callers' /\ MoveIsLegal' /\ OffersStand' /\ OffersHold'
  <2>1. CASE UNCHANGED vars
    <3>1. UNCHANGED <<pc, request, current, fresh, refused, alerts>>
      BY <2>1 DEF vars, client
    <3> QED
      BY <3>1, Elsewhere DEF AlertsInv, Callers
  <2> QED
    BY <2>1, VaultCallers, PostedCallers, CheckedCallers, WroteCallers DEF Next
<1> QED
  BY <1>1, <1>2 DEF AlertsInv

-----------------------------------------------------------------------------
(* Safety *)

LEMMA AlwaysAlertsInv == Spec => []AlertsInv
  BY AlertsInit, AlertsStep, PTL DEF Spec

\* Every table and every caller's state holds values of its type.
THEOREM TypeCorrect == Spec => []TypeOK
<1>1. AlertsInv => TypeOK
  BY DEF AlertsInv, Tables, Callers, TypeOK
<1> QED
  BY <1>1, AlwaysAlertsInv, PTL

\* An alert's stamps agree with its status, after any moves by any number of people.
THEOREM StampsAgree == Spec => []StampsMatchStatus
<1>1. AlertsInv => StampsMatchStatus
  BY DEF AlertsInv
<1> QED
  BY <1>1, AlwaysAlertsInv, PTL

\* Every flagged email has its one alert, which says what its latest analysis says.
THEOREM FlaggedHaveAlerts == Spec => []FlaggedHasAlert
<1>1. AlertsInv => FlaggedHasAlert
  BY DEF AlertsInv
<1> QED
  BY <1>1, AlwaysAlertsInv, PTL

\* A move the page offered is refused only when the alert has changed since.
THEOREM OffersAreKept == Spec => []OffersHold
<1>1. AlertsInv => OffersHold
  BY DEF AlertsInv
<1> QED
  BY <1>1, AlwaysAlertsInv, PTL

-----------------------------------------------------------------------------
(* The steps of an alert *)

\* What a step does to the alerts: one goes with its email, one is raised open, one
\* is moved by the caller that asked for the move, or all keep their status.
Dropped == \E e \in Email : alerts' = {a \in alerts : a.email # e}

Raised == \E n \in Alert : /\ n.status = "open"
                           /\ \A a \in alerts : a.email # n.email /\ a.id # n.id
                           /\ alerts' = alerts \cup {n}

Moved == \E a \in alerts, b \in Alert, c \in Client :
           /\ b.id = a.id /\ b.email = a.email /\ b.status \in Moves(a.status)
           /\ alerts' = (alerts \ {a}) \cup {b}
           /\ pc[c] = "checked" /\ pc'[c] = "idle"
           /\ request[c] = [id |-> a.id, target |-> b.status]

Kept == \/ alerts' = alerts
        \/ \E a \in alerts, b \in Alert :
             /\ b.id = a.id /\ b.email = a.email /\ b.status = a.status
             /\ alerts' = (alerts \ {a}) \cup {b}

LEMMA AlertSteps ==
  AlertsInv /\ [Next]_vars => Dropped \/ Raised \/ Moved \/ Kept
<1> SUFFICES ASSUME AlertsInv, [Next]_vars PROVE Dropped \/ Raised \/ Moved \/ Kept
  OBVIOUS
<1>0. Tables /\ Callers
  BY DEF AlertsInv
<1>1. ASSUME NEW e \in Email, DeleteEmail(e) PROVE Dropped
  BY <1>1 DEF DeleteEmail, Dropped
<1>2. ASSUME NEW e \in Email, NEW v \in Flagged, UpsertAlert(e, v) PROVE Raised \/ Kept
  <2>1. CASE \E a \in alerts :
               a.email = e /\ alerts' = (alerts \ {a}) \cup {[a EXCEPT !.verdict = v]}
    <3>1. PICK a \in alerts : alerts' = (alerts \ {a}) \cup {[a EXCEPT !.verdict = v]}
      BY <2>1
    <3>2. /\ [a EXCEPT !.verdict = v] \in Alert /\ [a EXCEPT !.verdict = v].id = a.id
          /\ [a EXCEPT !.verdict = v].email = a.email
          /\ [a EXCEPT !.verdict = v].status = a.status
      BY <1>0, <1>2 DEF Tables, Alert
    <3> QED
      BY <3>1, <3>2 DEF Kept
  <2>2. CASE \E n \in Alert : /\ n.email = e /\ n.status = "open"
                              /\ \A a \in alerts : a.email # e /\ a.id < n.id
                              /\ alerts' = alerts \cup {n}
    <3>1. PICK n \in Alert : /\ n.email = e /\ n.status = "open"
                             /\ \A a \in alerts : a.email # e /\ a.id < n.id
                             /\ alerts' = alerts \cup {n}
      BY <2>2
    <3>2. \A a \in alerts : a.id # n.id
      BY <1>0, <3>1 DEF Tables, Alert, RowId
    <3> QED
      BY <3>1, <3>2 DEF Raised
  <2> QED
    BY <1>0, <1>2, <2>1, <2>2, Upserted
<1>3. ASSUME NEW e \in Email, NEW v \in Verdict, RecordAssessment(e, v) PROVE Raised \/ Kept
  <2>1. CASE v \in Flagged
    BY <1>2, <1>3, <2>1 DEF RecordAssessment
  <2>2. CASE v \notin Flagged
    BY <1>3, <2>2 DEF RecordAssessment, Kept
  <2> QED
    BY <2>1, <2>2
<1>4. ASSUME NEW c \in Client, WriteMove(c) PROVE Moved \/ Kept
  <2>1. CASE ~ \E a \in alerts : UpdateHits(a, c)
    BY <1>4, <2>1 DEF WriteMove, Kept
  <2>2. CASE \E a \in alerts : UpdateHits(a, c)
    <3> DEFINE target == request[c].target
    <3>1. PICK a \in alerts :
             /\ a.id = request[c].id /\ target \in Moves(a.status)
             /\ Stamped(a, target) \in Alert
             /\ alerts' = (alerts \ {a}) \cup {Stamped(a, target)}
             /\ Answer(c, 200)
      BY <1>4, <2>2, Written
    <3>2. a \in Alert /\ target \in Status /\ request[c] \in [id : RowId, target : Status]
      BY <1>0 DEF Tables, Callers
    <3>3. /\ Stamped(a, target).id = a.id /\ Stamped(a, target).email = a.email
          /\ Stamped(a, target).status = target
      BY <3>2 DEF Stamped, Alert
    <3>4. request[c] = [id |-> a.id, target |-> target]
      BY <3>1, <3>2
    <3>5. pc[c] = "checked" /\ pc'[c] = "idle"
      BY <1>0, <1>4, <3>1 DEF WriteMove, Answer, Callers
    <3> HIDE DEF target
    <3> QED
      BY <3>1, <3>3, <3>4, <3>5 DEF Moved
  <2> QED
    BY <2>1, <2>2
<1>5. CASE UNCHANGED alerts
  BY <1>5 DEF Kept
<1> QED
  BY <1>1, <1>3, <1>4, <1>5 DEF Next, vars, StoreEmail, ClickMove, CallApi, CheckMove

\* While its email exists an alert's status changes by a caller that asked for it only,
\* whatever re-scores and deletions run beside.
THEOREM DecisionsSurvive == Spec => DecisionKept
<1> DEFINE Decided ==
      \A a \in alerts, b \in alerts' :
        a.id = b.id /\ a.email = b.email /\ a.status # b.status =>
          \E c \in Client : /\ pc[c] = "checked" /\ pc'[c] = "idle"
                            /\ request[c] = [id |-> a.id, target |-> b.status]
<1>1. AlertsInv /\ [Next]_vars => [Decided]_vars
  <2> SUFFICES ASSUME AlertsInv, [Next]_vars,
                      NEW a \in alerts, NEW b \in alerts',
                      a.id = b.id, a.status # b.status
               PROVE  \E c \in Client : /\ pc[c] = "checked" /\ pc'[c] = "idle"
                                        /\ request[c] = [id |-> a.id, target |-> b.status]
    OBVIOUS
  <2>1. \A x, y \in alerts : x.id = y.id => x = y
    BY DEF AlertsInv, Tables, Unique
  <2>2. b \notin alerts
    BY <2>1
  <2>3. CASE Dropped
    BY <2>2, <2>3 DEF Dropped
  <2>4. CASE Raised
    BY <2>2, <2>4 DEF Raised
  <2>5. CASE Moved
    BY <2>1, <2>2, <2>5 DEF Moved
  <2>6. CASE Kept
    BY <2>1, <2>2, <2>6 DEF Kept
  <2> QED
    BY <2>3, <2>4, <2>5, <2>6, AlertSteps
<1> QED
  BY <1>1, AlwaysAlertsInv, PTL DEF Spec, DecisionKept

-----------------------------------------------------------------------------
(* The refinement *)

\* The status of each email's alert, as AlertLifecycle sees it.
AlertStatus ==
  [e \in Email |-> IF \E a \in alerts : a.email = e
                   THEN (CHOOSE a \in alerts : a.email = e).status ELSE "none"]

StatusFits ==
  Unique => \A e \in Email :
    /\ \A a \in alerts : a.email = e => AlertStatus[e] = a.status
    /\ (\A a \in alerts : a.email # e) => AlertStatus[e] = "none"

LEMMA StatusIs == StatusFits
<1> SUFFICES ASSUME Unique, NEW e \in Email
             PROVE  /\ \A a \in alerts : a.email = e => AlertStatus[e] = a.status
                    /\ (\A a \in alerts : a.email # e) => AlertStatus[e] = "none"
  BY DEF StatusFits
<1>1. ASSUME NEW a \in alerts, a.email = e PROVE AlertStatus[e] = a.status
  <2>1. (CHOOSE b \in alerts : b.email = e) = a
    BY <1>1 DEF Unique
  <2> QED
    BY <1>1, <2>1 DEF AlertStatus
<1> QED
  BY <1>1 DEF AlertStatus

LEMMA StatusIsNext == StatusFits'
  BY StatusIs, PTL

\* Each step of an alert is a step of the lifecycle, or none.
LEMMA LifecycleStep ==
  AlertsInv /\ AlertsInv' /\ [Next]_vars => [Lifecycle!Next]_AlertStatus
<1> SUFFICES ASSUME AlertsInv, AlertsInv', [Next]_vars
             PROVE  [Lifecycle!Next]_AlertStatus
  OBVIOUS
<1>1. /\ Unique /\ Unique' /\ alerts \subseteq Alert /\ alerts' \subseteq Alert
  BY DEF AlertsInv, Tables
<1>2. \A e \in Email : /\ \A a \in alerts : a.email = e => AlertStatus[e] = a.status
                       /\ (\A a \in alerts : a.email # e) => AlertStatus[e] = "none"
  BY <1>1, StatusIs DEF StatusFits
<1>3. \A e \in Email : /\ \A a \in alerts' : a.email = e => AlertStatus'[e] = a.status
                       /\ (\A a \in alerts' : a.email # e) => AlertStatus'[e] = "none"
  BY <1>1, StatusIsNext DEF StatusFits
<1>4. AlertStatus = [e \in Email |-> AlertStatus[e]] /\ AlertStatus' = [e \in Email |-> AlertStatus'[e]]
  BY DEF AlertStatus
<1>5. ASSUME NEW e \in Email, NEW s,
             \A d \in Email \ {e} : AlertStatus'[d] = AlertStatus[d], AlertStatus'[e] = s
      PROVE  AlertStatus' = [AlertStatus EXCEPT ![e] = s]
  BY <1>4, <1>5
<1>6. ASSUME \A e \in Email : AlertStatus'[e] = AlertStatus[e] PROVE AlertStatus' = AlertStatus
  BY <1>4, <1>6
<1>7. CASE Dropped
  <2>1. PICK e \in Email : alerts' = {a \in alerts : a.email # e}
    BY <1>7 DEF Dropped
  <2>2. AlertStatus'[e] = "none" /\ \A d \in Email \ {e} : AlertStatus'[d] = AlertStatus[d]
    <3>1. ASSUME NEW d \in Email \ {e} PROVE AlertStatus'[d] = AlertStatus[d]
      <4>1. CASE \E a \in alerts : a.email = d
        BY <2>1, <4>1, <1>2, <1>3
      <4>2. CASE \A a \in alerts : a.email # d
        BY <2>1, <4>2, <1>2, <1>3
      <4> QED
        BY <4>1, <4>2
    <3> QED
      BY <2>1, <3>1, <1>3
  <2>3. AlertStatus' = [AlertStatus EXCEPT ![e] = "none"]
    BY <2>2, <1>5
  <2>4. CASE AlertStatus[e] = "none"
    BY <2>2, <2>4, <1>6
  <2>5. CASE AlertStatus[e] # "none"
    BY <2>3, <2>5 DEF Lifecycle!Next, Lifecycle!Drop, AlertStatus
  <2> QED
    BY <2>4, <2>5
<1>8. CASE Raised
  <2>1. PICK n \in Alert : /\ n.status = "open" /\ alerts' = alerts \cup {n}
                           /\ \A a \in alerts : a.email # n.email
    BY <1>8 DEF Raised
  <2>2. n.email \in Email
    BY DEF Alert
  <2>3. AlertStatus[n.email] = "none" /\ AlertStatus'[n.email] = "open"
    BY <2>1, <2>2, <1>2, <1>3
  <2>4. ASSUME NEW d \in Email \ {n.email} PROVE AlertStatus'[d] = AlertStatus[d]
    <3>1. CASE \E a \in alerts : a.email = d
      BY <2>1, <3>1, <1>2, <1>3
    <3>2. CASE \A a \in alerts : a.email # d
      BY <2>1, <3>2, <1>2, <1>3
    <3> QED
      BY <3>1, <3>2
  <2>5. AlertStatus' = [AlertStatus EXCEPT ![n.email] = "open"]
    BY <2>2, <2>3, <2>4, <1>5
  <2> QED
    BY <2>2, <2>3, <2>5 DEF Lifecycle!Next, Lifecycle!Raise, AlertStatus
<1>9. CASE Moved
  <2>1. PICK a \in alerts, b \in Alert :
           /\ b.email = a.email /\ b.status \in Moves(a.status)
           /\ alerts' = (alerts \ {a}) \cup {b}
    BY <1>9 DEF Moved
  <2>2. a.email \in Email /\ a.status \in Status
    BY <1>1 DEF Alert
  <2>3. AlertStatus[a.email] = a.status /\ AlertStatus'[a.email] = b.status
    BY <2>1, <2>2, <1>2, <1>3
  <2>4. ASSUME NEW d \in Email \ {a.email} PROVE AlertStatus'[d] = AlertStatus[d]
    <3>1. CASE \E x \in alerts : x.email = d
      BY <2>1, <3>1, <1>2, <1>3
    <3>2. CASE \A x \in alerts : x.email # d
      BY <2>1, <3>2, <1>2, <1>3
    <3> QED
      BY <3>1, <3>2
  <2>5. AlertStatus' = [AlertStatus EXCEPT ![a.email] = b.status]
    BY <2>2, <2>3, <2>4, <1>5
  <2>6. AlertStatus[a.email] # "none" /\ b.status \in Lifecycle!Moves(AlertStatus[a.email])
    BY <2>1, <2>2, <2>3 DEF Moves, Lifecycle!Moves, Status
  <2> QED
    BY <2>2, <2>5, <2>6 DEF Lifecycle!Next, Lifecycle!Decide, AlertStatus
<1>10. CASE Kept
  <2>1. CASE alerts' = alerts
    BY <2>1 DEF AlertStatus
  <2>2. CASE \E a \in alerts, b \in Alert :
               /\ b.email = a.email /\ b.status = a.status
               /\ alerts' = (alerts \ {a}) \cup {b}
    <3>1. PICK a \in alerts, b \in Alert :
               /\ b.email = a.email /\ b.status = a.status
               /\ alerts' = (alerts \ {a}) \cup {b}
      BY <2>2
    <3>2. ASSUME NEW d \in Email PROVE AlertStatus'[d] = AlertStatus[d]
      <4>1. CASE d = a.email
        BY <3>1, <4>1, <1>2, <1>3
      <4>2. CASE d # a.email /\ \E x \in alerts : x.email = d
        BY <3>1, <4>2, <1>2, <1>3
      <4>3. CASE \A x \in alerts : x.email # d
        BY <3>1, <4>3, <1>2, <1>3
      <4> QED
        BY <4>1, <4>2, <4>3
    <3> QED
      BY <3>2, <1>6
  <2> QED
    BY <2>1, <2>2, <1>10 DEF Kept
<1> QED
  BY <1>7, <1>8, <1>9, <1>10, AlertSteps

\* However requests race, re-scores run and mailboxes come and go: every alert follows
\* the lifecycle, so an alert that is resolved can only be reopened, and so on.
THEOREM AlertsFollowLifecycle == Spec => FollowsLifecycle
<1>1. Init => Lifecycle!Init
  BY DEF Init, Lifecycle!Init
<1>2. AlertsInv /\ AlertsInv' /\ [Next]_vars => [Lifecycle!Next]_AlertStatus
  BY LifecycleStep
<1> QED
  BY <1>1, <1>2, AlwaysAlertsInv, PTL DEF Spec, FollowsLifecycle, Lifecycle!Spec, AlertStatus

=============================================================================
