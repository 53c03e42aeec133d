----------------------------- MODULE FetchPage -----------------------------
(***************************************************************************)
(* The Fetch mail page (ui/fetch_page.py, ui/fetch_logic.py) beside the     *)
(* server it talks to: Ingest, with every POST /ingest sent by a page.      *)
(*                                                                         *)
(* A tab runs the page's script from top to bottom whenever its user        *)
(* touches a widget; each HTTP call of the script is one step.  What the    *)
(* script read stays what it goes by, while jobs run and other tabs post.   *)
(***************************************************************************)
EXTENDS Ingest

CONSTANTS
  Tab,      \* browser tabs that show the page
  Ask,      \* the ranges users pick
  Recent,   \* how many jobs the page looks at: list_jobs(limit=20)
  MaxLost   \* bound: how often a tab gives up waiting for POST /ingest

ASSUME PageAssumption ==
  /\ 2 \in Day            \* PageInit has a message of day 2
  /\ Ask \subseteq Range
  /\ Recent \in Nat \ {0}
  /\ MaxLost \in Nat

VARIABLES
  page,     \* page[s]: the script of tab s, its locals, and what it showed last
  lost      \* how often a tab gave up waiting

pageVars == <<page, lost>>
allVars  == <<vars, pageVars>>

\* A tab whose script is at rest, with what it showed last in shown:
\*   script   what the script does next: over, list, post, wait or poll
\*   account  the mailbox_id that the user chose; range the dates
\*   clicked  this run of the script was caused by "Fetch missing mail"
\*   thread   the server's thread that serves the POST
\*   own      the watched jobs are those of this run's POST
\*   watched  job_ids of _watch; polled the statuses read in this round
\*   shown    "stored", "done", or "" for what promises nothing: an error,
\*            "still fetching", "2 of 3 parts failed"
Idle == [script |-> "over", account |-> 1, range |-> NoRange, clicked |-> FALSE,
         thread |-> CHOOSE t \in Thread : TRUE, own |-> FALSE,
         watched |-> <<>>, polled |-> <<>>, shown |-> ""]

-----------------------------------------------------------------------------
(* Helpers *)

Active(j) == j.status \in {"pending", "running"}

\* Mutant: list_jobs returns the oldest jobs.
Listed_Oldest(a) ==
  {j \in jobs : j.account = a /\
     Cardinality({k \in jobs : k.account = a /\ k.id < j.id}) < Recent}

\* list_jobs: the newest jobs of the mailbox, by id.
Listed(a) ==
  {j \in jobs : j.account = a /\
     Cardinality({k \in jobs : k.account = a /\ k.id > j.id}) < Recent}

\* active_job_ids, newest first.
RunningIds(a) ==
  {ids \in UNION {[1 .. n -> {j.id : j \in Listed(a)}] : n \in 0 .. Recent} :
     /\ {ids[k] : k \in DOMAIN ids} = {j.id : j \in {l \in Listed(a) : Active(l)}}
     /\ \A k, l \in DOMAIN ids : k < l => ids[k] > ids[l]}

\* Mutant: summarise_jobs counts the pending jobs only.
Finished_NonePending(statuses) == \A k \in DOMAIN statuses : statuses[k] # "pending"

\* JobsSummary.finished, of at least one job.
Finished(statuses) == \A k \in DOMAIN statuses : statuses[k] \in {"done", "failed"}

\* The script of tab s goes on with the fields in changes replaced.
Becomes(s, changes) ==
  page' = [page EXCEPT ![s] =
             [f \in DOMAIN @ |-> IF f \in DOMAIN changes THEN changes[f] ELSE @[f]]]

\* The script has run to its end, or st.stop() ended it: its locals are gone, and
\* what it showed stays.
Ends(s, shown) ==
  page' = [page EXCEPT ![s] =
    IF shown = "" THEN Idle
    ELSE [Idle EXCEPT !.account = page[s].account, !.range = page[s].range, !.shown = shown]]

\* The answer is awaited of thread t.
Awaited(t) == \E s \in Tab : page[s].script = "wait" /\ page[s].thread = t

-----------------------------------------------------------------------------
(* The script *)

\* The page is opened, or a widget is touched: the script starts over, also out of
\* _watch.  Within a call it is not interrupted before the answer is there, and
\* the button is not drawn beside "A fetch is already running".
Run(s, a, r, click) ==
  /\ up /\ page[s].script \in {"over", "poll"}
  /\ click /\ page[s].script = "poll" => page[s].own
  /\ MayAskToday \/ r.to <= today
  /\ page' = [page EXCEPT ![s] = [Idle EXCEPT !.script = "list", !.account = a,
                                             !.range = r, !.clicked = click]]
  /\ UNCHANGED <<vars, lost>>

\* "A fetch is already running for this mailbox."
ListRunning(s) ==
  /\ up /\ page[s].script = "list"
  /\ \E ids \in RunningIds(page[s].account) :
       /\ ids # <<>>
       /\ page' = [page EXCEPT ![s] = [Idle EXCEPT !.script = "poll", !.watched = ids,
                                                  !.account = page[s].account]]
  /\ UNCHANGED <<vars, lost>>

\* No job is active: the button is drawn, and on a click the script goes on.
ListQuiet(s) ==
  /\ up /\ page[s].script = "list"
  /\ RunningIds(page[s].account) = {<<>>}
  /\ IF page[s].clicked THEN Becomes(s, [script |-> "post"]) ELSE Ends(s, "")
  /\ UNCHANGED <<vars, lost>>

\* client.ingest(): an idle thread serves the request.  The threads are alike, so
\* one is chosen.
Post(s, t) ==
  /\ page[s].script = "post"
  /\ t = CHOOSE u \in Thread : pc[u] = "idle" /\ ~Awaited(u)
  /\ Request(t, page[s].account, page[s].range)
  /\ Becomes(s, [script |-> "wait", thread |-> t])
  /\ UNCHANGED lost

\* The response: the jobs of the request, or "Everything is already stored"
\* (without a worker, every job the request made is its own).
Answer(s) ==
  /\ page[s].script = "wait"
  /\ Respond(page[s].thread)
  /\ LET made_ == queue[page[s].thread]
     IN  IF made_ = <<>> THEN Ends(s, "stored")
         ELSE Becomes(s, [script |-> "poll", own |-> TRUE, thread |-> Idle.thread,
                          watched |-> [k \in DOMAIN made_ |-> made_[k].id]])
  /\ UNCHANGED lost

\* client.get_job for the next of the jobs.
Poll(s) ==
  /\ up /\ page[s].script = "poll"
  /\ Len(page[s].polled) < Len(page[s].watched)
  /\ \E j \in jobs :
       /\ j.id = page[s].watched[Len(page[s].polled) + 1]
       /\ Becomes(s, [polled |-> Append(page[s].polled, j.status)])
  /\ UNCHANGED <<vars, lost>>

\* get_activity has answered too: the round is complete.
RoundRead(s) ==
  /\ up /\ page[s].script = "poll"
  /\ Len(page[s].polled) = Len(page[s].watched)

\* "Done", unless a part failed; of a range the user picked, only when the jobs are
\* those of this run's POST.
Report(s) ==
  /\ RoundRead(s) /\ Finished(page[s].polled)
  /\ Ends(s, IF /\ page[s].own
                /\ \A k \in DOMAIN page[s].polled : page[s].polled[k] # "failed"
             THEN "done" ELSE "")
  /\ UNCHANGED <<vars, lost>>

\* time.sleep, and around again.
NextRound(s) ==
  /\ RoundRead(s) /\ ~Finished(page[s].polled)
  /\ Becomes(s, [polled |-> <<>>])
  /\ UNCHANGED <<vars, lost>>

\* 15 minutes are over: "Still fetching in the background."
TimeUp(s) ==
  /\ RoundRead(s) /\ ~Finished(page[s].polled)
  /\ Ends(s, "")
  /\ UNCHANGED <<vars, lost>>

\* The API is down, or the handler raised: _call stops the script.
CallFails(s) ==
  /\ \/ page[s].script \in {"list", "post", "poll"} /\ ~up
     \/ page[s].script = "wait" /\ pc[page[s].thread] \notin {"gaps", "create", "claim"}
  /\ Ends(s, "")
  /\ UNCHANGED <<vars, lost>>

\* Ten seconds without an answer; the server goes on with the request.
GiveUp(s) ==
  /\ page[s].script = "wait" /\ lost < MaxLost
  /\ Ends(s, "")
  /\ lost' = lost + 1
  /\ UNCHANGED vars

-----------------------------------------------------------------------------
(* The specification *)

\* Day 1 was fetched before; of the others, only day 2 has a message.
PageInit ==
  /\ today = LastDay
  /\ mail = [b \in Box |-> {[msg |-> 1, uid |-> 1, day |-> 2]}]
  /\ epoch = [b \in Box |-> 1]
  /\ uidNext = [b \in Box |-> 2]
  /\ \E b \in Box : accounts = {[id |-> 1, box |-> b]}
  /\ jobs = {[id |-> 1, account |-> 1, range |-> [from |-> 1, to |-> 2],
              status |-> "done", checkpoint |-> 0]}
  /\ covered = {<<1, 1>>}
  /\ emails = {}
  /\ used = [e \in Event |-> IF e = "deliver" THEN 1 ELSE 0]
  /\ NothingToDo
  /\ page = [s \in Tab |-> Idle]
  /\ lost = 0

Script(s) ==
  \/ ListRunning(s) \/ ListQuiet(s) \/ Poll(s) \/ Report(s) \/ NextRound(s)
  \/ CallFails(s) \/ Answer(s)
  \/ \E t \in Thread : pc[t] = "idle" /\ ~Awaited(t) /\ Post(s, t)

\* The steps of a thread; the response to a page that waits is its Answer.
Serve(t) ==
  /\ Step(t)
  /\ pc[t] = "create" /\ gaps[t] = {} => ~Awaited(t)
  /\ UNCHANGED pageVars

\* What happens meanwhile; that no mailbox is deleted is an assumption here.
Around ==
  /\ \/ \E t \in Thread : ErrorCaught(t) \/ ErrorEscapes(t)
     \/ \E b \in Box : Deliver(b) \/ Expunge(b)
     \/ Crash \/ Startup
  /\ UNCHANGED pageVars

PageNext ==
  \/ \E s \in Tab :
       \/ Script(s) \/ TimeUp(s) \/ GiveUp(s)
       \/ \E acc \in accounts, r \in Ask, click \in BOOLEAN : Run(s, acc.id, r, click)
  \/ \E t \in Thread : Serve(t)
  \/ Around

\* Streamlit runs every script, and the server some thread that has work; each
\* call has a timeout.
PageSpec ==
  /\ PageInit /\ [][PageNext]_allVars
  /\ WF_allVars(\E t \in Thread : Serve(t))
  /\ \A s \in Tab : WF_allVars(Script(s))

-----------------------------------------------------------------------------
(* Properties *)

\* Thread t serves a request for mailbox a, or has jobs of it to run.
FetchesFor(t, a) ==
  \/ pc[t] \in {"gaps", "create", "claim"} /\ want[t].account = a
  \/ \E k \in DOMAIN queue[t] : queue[t][k].account = a

SingleTab == \A s, u \in Tab : s = u

\* "A fetch is already running for this mailbox": one tab starts no fetch of a
\* mailbox beside another, although it looks at the newest jobs only, and before
\* it posts; unless it gave up on a POST that the server still works on.
OneFetchAtATime ==
  SingleTab /\ lost = 0 =>
    \A acc \in accounts, t, u \in Thread :
      FetchesFor(t, acc.id) /\ FetchesFor(u, acc.id) => t = u

\* "Done. N emails are stored for this range", or "Everything in this range is
\* already stored": every message of the days the user picked is in the vault,
\* when those days were over; whatever lost answers, other fetches, failures and
\* restarts did meanwhile.
DoneIsStored ==
  ~MayAskToday =>
    \A s \in Tab : page[s].shown # "" =>
      \A acc \in accounts : acc.id = page[s].account =>
        \A m \in mail[acc.box] : m.day \in Days(page[s].range) => Stored(acc.id, m)

\* The page stops waiting without its 15 minutes' limit: all it watches is
\* finished or failed some day, unless a database error left a job running, or the
\* process stopped between create_job and claim_job.
WatchEnds ==
  \A s \in Tab :
    page[s].script = "poll"
      ~> \/ page[s].script # "poll"
         \/ used["dbError"] > 0
         \/ ~PendingIsHeld
=============================================================================
