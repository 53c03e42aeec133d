------------------------------- MODULE Alerts -------------------------------
(***************************************************************************)
(* The alerts and analyses tables (core/analysis_storage.py), the endpoint  *)
(* that moves an alert (api/alerts.py) and the Alerts page that calls it    *)
(* (ui/alerts_page.py).  Several people, or tabs, work at the same time as  *)
(* the analysis pass saves results and mailboxes are deleted.               *)
(*                                                                         *)
(* record_assessment writes first, so its transaction is one step.          *)
(* set_alert_status reads first: pysqlite opens no transaction for the      *)
(* SELECT, so the check and the UPDATE are two steps.                       *)
(***************************************************************************)
EXTENDS Naturals

CONSTANTS
  Email,    \* ids of emails; an id is used again after its email was deleted
  Client    \* people's browser tabs, and other callers of the API

Status   == {"open", "acknowledged", "resolved", "false_positive"}
Verdict  == {"clean", "suspicious", "phishing"}
Flagged  == Verdict \ {"clean"}
RowId    == Nat \ {0}
Analysis == [email : Email, verdict : Verdict]
Alert    == [id : RowId, email : Email, status : Status, verdict : Flagged,
             acknowledgedAt : BOOLEAN, closedAt : BOOLEAN]   \* is it not NULL?

VARIABLES
  emails,     \* ids of the rows of table emails
  analyses,   \* table analyses
  alerts,     \* table alerts
  pc,         \* pc[c]: "idle", "posted" (request sent), "checked" (after the SELECT)
  request,    \* request[c]: the alert id and the target of c's request
  current,    \* current[c]: the status the SELECT returned
  fresh,      \* history: fresh[c]: the request comes from the Alerts page, and the
              \* alert's status has not changed since the page read it
  refused     \* history: such a request was answered 409

client == <<pc, request, current, fresh, refused>>
vars   == <<emails, analyses, alerts, client>>

-----------------------------------------------------------------------------
(* Helpers *)

\* _TRANSITIONS: the moves the lifecycle allows.
Moves(s) ==
  CASE s = "open"         -> {"acknowledged", "resolved", "false_positive"}
    [] s = "acknowledged" -> {"resolved", "false_positive"}
    [] s \in {"resolved", "false_positive"} -> {"open"}

NextRowId(table) ==
  {n \in {1} \cup {row.id + 1 : row \in table} : \A row \in table : row.id < n}

\* The alerts with these ids changed or went away: what pages showed is outdated.
Outdated(ids) == [c \in Client |-> fresh[c] /\ request[c].id \notin ids]

\* Mutant: reopening forgets to clear closed_at.
Stamped_KeepsClosed(a, target) ==
  [a EXCEPT !.status = target,
            !.acknowledgedAt = (target = "acknowledged") \/ (@ /\ target # "open"),
            !.closedAt = @ \/ target \in {"resolved", "false_positive"}]

\* The columns set_alert_status changes for a target.
Stamped(a, target) ==
  [a EXCEPT !.status = target,
            !.acknowledgedAt = (target = "acknowledged") \/ (@ /\ target # "open"),
            !.closedAt = target # "open"
                         /\ (@ \/ target \in {"resolved", "false_positive"})]

\* Mutant: a re-score reopens the alert.
UpsertAlert_Reopens(e, verdict) ==
  IF \E a \in alerts : a.email = e
  THEN alerts' = {IF a.email = e THEN [a EXCEPT !.verdict = verdict, !.status = "open",
                                       !.acknowledgedAt = FALSE, !.closedAt = FALSE]
                  ELSE a : a \in alerts}
  ELSE \E i \in NextRowId(alerts) :
         alerts' = alerts \cup {[id |-> i, email |-> e, status |-> "open",
                                 verdict |-> verdict, acknowledgedAt |-> FALSE,
                                 closedAt |-> FALSE]}

\* Mutant: on conflict do nothing.
UpsertAlert_Ignores(e, verdict) ==
  IF \E a \in alerts : a.email = e
  THEN UNCHANGED alerts
  ELSE \E i \in NextRowId(alerts) :
         alerts' = alerts \cup {[id |-> i, email |-> e, status |-> "open",
                                 verdict |-> verdict, acknowledgedAt |-> FALSE,
                                 closedAt |-> FALSE]}

\* _upsert_alert: a new alert is open; an old one keeps everything but its content.
UpsertAlert(e, verdict) ==
  IF \E a \in alerts : a.email = e
  THEN alerts' = {IF a.email = e THEN [a EXCEPT !.verdict = verdict] ELSE a : a \in alerts}
  ELSE \E i \in NextRowId(alerts) :
         alerts' = alerts \cup {[id |-> i, email |-> e, status |-> "open",
                                 verdict |-> verdict, acknowledgedAt |-> FALSE,
                                 closedAt |-> FALSE]}

-----------------------------------------------------------------------------
(* The vault *)

\* A message is stored (insert_email_if_new).
StoreEmail(e) ==
  /\ e \notin emails
  /\ emails' = emails \cup {e}
  /\ UNCHANGED <<analyses, alerts, client>>

\* The email's mailbox is deleted; the foreign keys cascade.
DeleteEmail(e) ==
  /\ e \in emails
  /\ emails' = emails \ {e}
  /\ analyses' = {r \in analyses : r.email # e}
  /\ alerts' = {a \in alerts : a.email # e}
  /\ fresh' = Outdated({a.id : a \in alerts \ alerts'})
  /\ UNCHANGED <<pc, request, current, refused>>

\* record_assessment: the first analysis of an email, or a new one under other rules.
RecordAssessment(e, verdict) ==
  /\ e \in emails
  /\ analyses' = {r \in analyses : r.email # e} \cup {[email |-> e, verdict |-> verdict]}
  /\ IF verdict \in Flagged THEN UpsertAlert(e, verdict) ELSE UNCHANGED alerts
  /\ UNCHANGED <<emails, client>>

-----------------------------------------------------------------------------
(* Callers of POST /alerts/{id}/status *)

\* The page: a click makes Streamlit run it again; it reads the alert anew and
\* sends the move only if it still offers that move (available_moves).
ClickMove(c) ==
  /\ pc[c] = "idle"
  /\ \E a \in alerts : \E target \in Moves(a.status) :
       request' = [request EXCEPT ![c] = [id |-> a.id, target |-> target]]
  /\ fresh' = [fresh EXCEPT ![c] = TRUE]
  /\ pc' = [pc EXCEPT ![c] = "posted"]
  /\ UNCHANGED <<emails, analyses, alerts, current, refused>>

\* Any other caller may ask for anything.
CallApi(c) ==
  /\ pc[c] = "idle"
  /\ \E a \in alerts, target \in Status :
       request' = [request EXCEPT ![c] = [id |-> a.id, target |-> target]]
  /\ pc' = [pc EXCEPT ![c] = "posted"]
  /\ UNCHANGED <<emails, analyses, alerts, current, fresh, refused>>

NoRequest == [id |-> 1, target |-> "open"]

\* The request is answered: with the alert, 404, or 409.
Answer(c, code) ==
  /\ pc' = [pc EXCEPT ![c] = "idle"]
  /\ request' = [request EXCEPT ![c] = NoRequest]
  /\ current' = [current EXCEPT ![c] = "open"]
  /\ fresh' = [Outdated(IF code = 200 THEN {request[c].id} ELSE {}) EXCEPT ![c] = FALSE]
  /\ refused' = (refused \/ (code = 409 /\ fresh[c]))

\* set_alert_status: the SELECT and the check of the move.
CheckMove(c) ==
  /\ pc[c] = "posted"
  /\ \/ /\ \A a \in alerts : a.id # request[c].id
        /\ Answer(c, 404)
     \/ \E a \in alerts :
          /\ a.id = request[c].id
          /\ IF request[c].target \in Moves(a.status)
             THEN /\ current' = [current EXCEPT ![c] = a.status]
                  /\ pc' = [pc EXCEPT ![c] = "checked"]
                  /\ UNCHANGED <<request, fresh, refused>>
             ELSE Answer(c, 409)
  /\ UNCHANGED <<emails, analyses, alerts>>

\* Mutant: the WHERE clause names the new status.
UpdateHits_Target(a, c) == a.id = request[c].id /\ a.status = request[c].target

\* Mutant: UPDATE ... WHERE id only.
UpdateHits_AnyStatus(a, c) == a.id = request[c].id

\* UPDATE ... WHERE id = alert_id AND status = current.
UpdateHits(a, c) == a.id = request[c].id /\ a.status = current[c]

\* The UPDATE; no row hit is a conflict.
WriteMove(c) ==
  /\ pc[c] = "checked"
  /\ IF \E a \in alerts : UpdateHits(a, c)
     THEN /\ alerts' = {IF UpdateHits(a, c) THEN Stamped(a, request[c].target) ELSE a :
                        a \in alerts}
          /\ Answer(c, 200)
     ELSE /\ Answer(c, 409)
          /\ UNCHANGED alerts
  /\ UNCHANGED <<emails, analyses>>

-----------------------------------------------------------------------------
(* The specification *)

Init ==
  /\ emails = {} /\ analyses = {} /\ alerts = {}
  /\ pc = [c \in Client |-> "idle"]
  /\ request = [c \in Client |-> NoRequest]
  /\ current = [c \in Client |-> "open"]
  /\ fresh = [c \in Client |-> FALSE]
  /\ refused = FALSE

Next ==
  \/ \E e \in Email : \/ StoreEmail(e) \/ DeleteEmail(e)
                      \/ \E v \in Verdict : RecordAssessment(e, v)
  \/ \E c \in Client : ClickMove(c) \/ CallApi(c) \/ CheckMove(c) \/ WriteMove(c)

Spec == Init /\ [][Next]_vars

-----------------------------------------------------------------------------
(* Properties *)

TypeOK ==
  /\ emails \subseteq Email
  /\ analyses \subseteq Analysis
  /\ alerts \subseteq Alert
  /\ pc \in [Client -> {"idle", "posted", "checked"}]
  /\ request \in [Client -> [id : RowId, target : Status]]
  /\ current \in [Client -> Status]
  /\ fresh \in [Client -> BOOLEAN]
  /\ refused \in BOOLEAN

\* The timeline the page shows agrees with the status, after any order of moves
\* by any number of people: an open alert carries no trace of earlier handling
\* ("reopened: forget the previous handling"), an acknowledged one says when it
\* was acknowledged, a closed one when it was closed.
StampsMatchStatus ==
  \A a \in alerts :
    /\ a.status = "open" => ~a.acknowledgedAt /\ ~a.closedAt
    /\ a.status = "acknowledged" => a.acknowledgedAt /\ ~a.closedAt
    /\ a.status \in {"resolved", "false_positive"} => a.closedAt

\* A flagged email has its one alert, and the alert says what the latest analysis
\* says, even after re-scoring and moves in any order.
FlaggedHasAlert ==
  \A r \in analyses : r.verdict \in Flagged =>
    \E a \in alerts : /\ a.email = r.email /\ a.verdict = r.verdict
                      /\ \A b \in alerts : b.email = r.email => b = a

\* "a person's decision survives" (_upsert_alert): while its email exists, an
\* alert's status only changes by the write of a caller that asked for that status.
DecisionKept ==
  [][\A a \in alerts, b \in alerts' :
       a.id = b.id /\ a.email = b.email /\ a.status # b.status =>
         \E c \in Client : /\ pc[c] = "checked" /\ pc'[c] = "idle"
                           /\ request[c] = [id |-> a.id, target |-> b.status]]_vars

\* However requests race, every alert follows the lifecycle.
Lifecycle == INSTANCE AlertLifecycle WITH
  status <- [e \in Email |->
               IF \E a \in alerts : a.email = e
               THEN (CHOOSE a \in alerts : a.email = e).status
               ELSE "none"]
FollowsLifecycle == Lifecycle!Spec

\* "the page can never offer a move the server would refuse" (ui/alert_logic.py):
\* a move the page offered is only answered 409 when the alert has changed since.
OffersHold == ~refused
=============================================================================
