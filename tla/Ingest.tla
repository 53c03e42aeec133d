------------------------------- MODULE Ingest -------------------------------
(***************************************************************************)
(* Fetching mail into the vault: POST /ingest (api/ingest.py), the jobs     *)
(* table (core/jobs.py), the job runner (worker/runner.py) and what a       *)
(* restart does (core/job_recovery.py), over one IMAP folder per mailbox.   *)
(*                                                                         *)
(* A thread is one of the threadpool's: it serves an /ingest request and    *)
(* then runs the background tasks that request added, one after another.    *)
(* Every database transaction and every IMAP exchange is one step, so the   *)
(* threads interleave between any two of them.                              *)
(*                                                                         *)
(* Time is counted in local days, the unit in which ranges are requested.   *)
(* A table is a set of rows.  Row ids are INTEGER PRIMARY KEY without       *)
(* AUTOINCREMENT: a new id is one more than the largest id in the table.    *)
(* The coverage table is kept here as the relation of the covered days;     *)
(* CoverageTable.tla has its rows and their merging.                        *)
(***************************************************************************)
EXTENDS Naturals, Sequences, FiniteSets

CONSTANTS
  Thread,       \* threads that serve /ingest and run jobs
  Box,          \* real mailboxes: an address and its folder on an IMAP server
  LastDay,      \* bound: days are 0 .. LastDay
  BatchSize,    \* messages per IMAP FETCH and per checkpoint
  Limit,        \* bound: how often each event of Event may happen
  MayAskToday,  \* whether a request may reach into days that are not over
  HasWorker,    \* whether something calls claim_next_job (nothing shipped does)
  RetryStatus   \* statuses of the jobs that callers retry (nothing shipped does)

Event == {"request", "deliver", "expunge", "reset", "delete", "crash",
          "retry", "imapError", "dbError"}

ASSUME ConstantsAssumption ==
  /\ Box # {}
  /\ LastDay \in Nat
  /\ BatchSize \in Nat \ {0}
  /\ Limit \in [Event -> Nat]
  /\ MayAskToday \in BOOLEAN
  /\ HasWorker \in BOOLEAN
  /\ RetryStatus \subseteq {"pending", "running", "done", "failed"}

Day   == 0 .. LastDay
RowId == Nat \ {0}
Range == {r \in [from : Day, to : 1 .. LastDay + 1] : r.from < r.to}
Days(r) == {d \in Day : r.from <= d /\ d < r.to}

Account == [id : RowId, box : Box]
Message == [msg : RowId, uid : RowId, day : Day]
Email   == [account : RowId, epoch : RowId, uid : RowId, msg : RowId, day : Day]
Job     == [id : RowId, account : RowId, range : Range,
            status : {"pending", "running", "done", "failed"},
            checkpoint : Nat]      \* 0 stands for None
Session == [box : Box, epoch : RowId, todo : SUBSET RowId,
            batch : SUBSET RowId, got : SUBSET Message]

VARIABLES
  today,      \* the current day
  mail,       \* mail[b]: the messages in the folder of mailbox b
  epoch,      \* epoch[b]: the folder's UIDVALIDITY
  uidNext,    \* uidNext[b]: the UID of the next message to arrive
  accounts,   \* table accounts
  jobs,       \* table jobs
  covered,    \* table coverage: pairs <<account id, day>>
  emails,     \* table emails
  up,         \* the API process runs
  pc,         \* pc[t]: what thread t does next
  want,       \* want[t]: the account and the range of the request served
  gaps,       \* gaps[t]: gaps for which no job was created yet
  made,       \* made[t]: the id of the job created last
  queue,      \* queue[t]: background tasks, as the job rows claim_job returned
  sess,       \* sess[t]: the IMAP session and the batch loop of run_job
  seen,       \* seen[t]: the covered days record_coverage read
  raced,      \* raced[t]: another writer wrote coverage since that read
  used        \* used[e]: how often event e has happened

server == <<today, mail, epoch, uidNext>>
tables == <<accounts, jobs, covered, emails>>
local  == <<want, gaps, made, queue, sess, seen, raced>>
vars   == <<server, tables, up, pc, local, used>>

PC == {"idle", "gaps", "create", "claim", "load", "search", "fetch", "store",
       "fail", "merge", "cover", "done"}

-----------------------------------------------------------------------------
(* Helpers *)

\* The id SQLite gives the next row of a table: one more than the largest.
NextRowId(table) ==
  {n \in {1} \cup {row.id + 1 : row \in table} : \A row \in table : row.id < n}

CoveredDays(a) == {d \in Day : <<a, d>> \in covered}

\* Mutant: a covered stretch at the start of r yields an empty gap.
GapsOf_Empty(r, days) ==
  {[from |-> r.from, to |-> r.from] : d \in days \cap {r.from}} \cup
  {g \in Range :
     /\ Days(g) \subseteq Days(r) \ days
     /\ g.from = r.from \/ g.from - 1 \in days
     /\ g.to = r.to \/ g.to \in days}

\* get_gaps(): the maximal subranges of r with no covered day.
GapsOf(r, days) ==
  {g \in Range :
     /\ Days(g) \subseteq Days(r) \ days
     /\ g.from = r.from \/ g.from - 1 \in days
     /\ g.to = r.to \/ g.to \in days}

\* The days that "SINCE start - 1 day BEFORE end + 1 day" asks for.
Widened(r) == {d \in Day : r.from <= d + 1 /\ d <= r.to}

AccountExists(a) == \E acc \in accounts : acc.id = a

Task(t) == Head(queue[t])

\* UPDATE jobs SET status = s WHERE id = i, whatever row has that id now.
SetStatus(i, s) ==
  jobs' = {IF j.id = i THEN [j EXCEPT !.status = s] ELSE j : j \in jobs}

Go(t, label) == pc' = [pc EXCEPT ![t] = label]

Spend(e) == /\ used[e] < Limit[e]
            /\ used' = [used EXCEPT ![e] = @ + 1]

\* The locals of a thread that runs nothing; they die with their function.
NoRange   == [from |-> 0, to |-> 1]
NoRequest == [account |-> 1, range |-> NoRange]
NoSession == [box |-> CHOOSE b \in Box : TRUE, epoch |-> 1,
              todo |-> {}, batch |-> {}, got |-> {}]

DropRequest(t) ==
  /\ want' = [want EXCEPT ![t] = NoRequest]
  /\ gaps' = [gaps EXCEPT ![t] = {}]
  /\ made' = [made EXCEPT ![t] = 1]

DropRun(t) ==
  /\ sess' = [sess EXCEPT ![t] = NoSession]
  /\ seen' = [seen EXCEPT ![t] = {}]
  /\ raced' = [raced EXCEPT ![t] = FALSE]

\* run_job returned: the next background task starts, if there is one.
NextTask(t) ==
  /\ queue' = [queue EXCEPT ![t] = Tail(queue[t])]
  /\ Go(t, IF Tail(queue[t]) = <<>> THEN "idle" ELSE "load")
  /\ DropRun(t)
  /\ UNCHANGED <<want, gaps, made>>

\* An exception leaves the request handler or a background task: what is left
\* of the queue is never run.
Abandon(t) ==
  /\ queue' = [queue EXCEPT ![t] = <<>>]
  /\ Go(t, "idle")
  /\ DropRequest(t)
  /\ DropRun(t)

\* After a batch: the next one, or out of the "with ImapClient" block.
NextBatch(t, todo) == Go(t, IF todo = {} THEN "merge" ELSE "fetch")

-----------------------------------------------------------------------------
(* POST /ingest *)

\* A request whose account exists; get_account returned it.
Request(t, a, r) ==
  /\ up /\ pc[t] = "idle"
  /\ AccountExists(a)
  /\ MayAskToday \/ r.to <= today
  /\ Spend("request")
  /\ want' = [want EXCEPT ![t] = [account |-> a, range |-> r]]
  /\ Go(t, "gaps")
  /\ UNCHANGED <<server, tables, up, gaps, made, queue, sess, seen, raced>>

ReadGaps(t) ==
  /\ pc[t] = "gaps"
  /\ gaps' = [gaps EXCEPT ![t] =
                GapsOf(want[t].range, CoveredDays(want[t].account))]
  /\ Go(t, "create")
  /\ UNCHANGED <<server, tables, up, want, made, queue, sess, seen, raced, used>>

\* create_job for the earliest gap left.
CreateJob(t) ==
  /\ pc[t] = "create"
  /\ AccountExists(want[t].account)
  /\ \E g \in gaps[t], i \in NextRowId(jobs) :
       /\ \A h \in gaps[t] : g.from <= h.from
       /\ gaps' = [gaps EXCEPT ![t] = @ \ {g}]
       /\ made' = [made EXCEPT ![t] = i]
       /\ jobs' = jobs \cup {[id |-> i, account |-> want[t].account, range |-> g,
                              status |-> "pending", checkpoint |-> 0]}
  /\ Go(t, "claim")
  /\ UNCHANGED <<server, accounts, covered, emails, up, want, queue, sess,
                 seen, raced, used>>

\* The account is gone: the INSERT breaks its foreign key and the handler raises.
CreateJobRefused(t) ==
  /\ pc[t] = "create" /\ gaps[t] # {}
  /\ ~AccountExists(want[t].account)
  /\ Abandon(t)
  /\ UNCHANGED <<server, tables, up, used>>

\* Mutant: the claim does not ask that the job is still pending.
ClaimJob_AnyStatus(t) ==
  /\ pc[t] = "claim"
  /\ \E j \in jobs :
       /\ j.id = made[t]
       /\ SetStatus(j.id, "running")
       /\ queue' = [queue EXCEPT ![t] = Append(@, [j EXCEPT !.status = "running"])]
  /\ Go(t, "create")
  /\ UNCHANGED <<server, accounts, covered, emails, up, want, gaps, made, sess,
                 seen, raced, used>>

\* claim_job and add_task; a job that is not pending any more is not ours.
ClaimJob(t) ==
  /\ pc[t] = "claim"
  /\ \/ \E j \in jobs :
          /\ j.id = made[t] /\ j.status = "pending"
          /\ SetStatus(j.id, "running")
          /\ queue' = [queue EXCEPT ![t] = Append(@, [j EXCEPT !.status = "running"])]
     \/ /\ \A j \in jobs : j.id = made[t] => j.status # "pending"
        /\ UNCHANGED <<jobs, queue>>
  /\ Go(t, "create")
  /\ UNCHANGED <<server, accounts, covered, emails, up, want, gaps, made, sess,
                 seen, raced, used>>

\* The response is sent; the background tasks start.
Respond(t) ==
  /\ pc[t] = "create" /\ gaps[t] = {}
  /\ Go(t, IF queue[t] = <<>> THEN "idle" ELSE "load")
  /\ DropRequest(t)
  /\ UNCHANGED <<server, tables, up, queue, sess, seen, raced, used>>

\* claim_next_job: the oldest pending job, by a worker loop.
ClaimNextJob(t) ==
  /\ HasWorker /\ up /\ pc[t] = "idle"
  /\ \E j \in jobs :
       /\ j.status = "pending"
       /\ \A k \in jobs : k.status = "pending" => j.id <= k.id
       /\ SetStatus(j.id, "running")
       /\ queue' = [queue EXCEPT ![t] = <<[j EXCEPT !.status = "running"]>>]
  /\ Go(t, "load")
  /\ UNCHANGED <<server, accounts, covered, emails, up, want, gaps, made, sess,
                 seen, raced, used>>

-----------------------------------------------------------------------------
(* run_job *)

\* get_account, for the mailbox to connect to.
LoadAccount(t) ==
  /\ pc[t] = "load"
  /\ \/ \E acc \in accounts :
          /\ acc.id = Task(t).account
          /\ sess' = [sess EXCEPT ![t].box = acc.box]
          /\ Go(t, "search")
     \/ /\ ~AccountExists(Task(t).account)
        /\ Go(t, "fail")
        /\ UNCHANGED sess
  /\ UNCHANGED <<server, tables, up, want, gaps, made, queue, seen, raced, used>>

\* Log in, EXAMINE, SEARCH; UIDs up to the job's checkpoint are skipped.
Search(t) ==
  /\ pc[t] = "search"
  /\ LET box  == sess[t].box
         todo == {m.uid : m \in {n \in mail[box] :
                                   /\ n.day \in Widened(Task(t).range)
                                   /\ n.uid > Task(t).checkpoint}}
     IN /\ sess' = [sess EXCEPT ![t].epoch = epoch[box], ![t].todo = todo]
        /\ NextBatch(t, todo)
  /\ UNCHANGED <<server, tables, up, want, gaps, made, queue, seen, raced, used>>

\* Mutant: the batch stays among the messages to fetch.
Fetch_KeepsBatch(t) ==
  /\ pc[t] = "fetch"
  /\ sess[t].epoch = epoch[sess[t].box]
  /\ \E batch \in SUBSET sess[t].todo :
       /\ Cardinality(batch) = 1
       /\ sess' = [sess EXCEPT
                     ![t].batch = batch,
                     ![t].got   = {m \in mail[sess[t].box] : m.uid \in batch}]
  /\ Go(t, "store")
  /\ UNCHANGED <<server, tables, up, want, gaps, made, queue, seen, raced, used>>

\* fetch_messages for the next batch; an expunged message is not returned.
Fetch(t) ==
  /\ pc[t] = "fetch"
  /\ sess[t].epoch = epoch[sess[t].box]
  /\ \E batch \in SUBSET sess[t].todo :
       /\ batch # {}
       /\ \A u \in batch, v \in sess[t].todo \ batch : u < v
       /\ Cardinality(batch) <= BatchSize
       /\ batch = sess[t].todo \/ Cardinality(batch) = BatchSize
       /\ sess' = [sess EXCEPT
                     ![t].todo  = @ \ batch,
                     ![t].batch = batch,
                     ![t].got   = {m \in mail[sess[t].box] : m.uid \in batch}]
  /\ Go(t, "store")
  /\ UNCHANGED <<server, tables, up, want, gaps, made, queue, seen, raced, used>>

\* The folder was renumbered under the session: the server ends it.
SessionLost(t) ==
  /\ pc[t] = "fetch"
  /\ sess[t].epoch # epoch[sess[t].box]
  /\ Go(t, "fail")
  /\ UNCHANGED <<server, tables, up, local, used>>

\* Mutant: UIDVALIDITY is not part of the deduplication key.
KeyTaken_NoEpoch(a, e, m) == \E row \in emails : row.account = a /\ row.uid = m.uid

\* Is there a row with the deduplication key of message m?
KeyTaken(a, e, m) ==
  \E row \in emails : row.account = a /\ row.epoch = e /\ row.uid = m.uid

\* store_if_in_range for the next message of the batch.
Store(t) ==
  /\ pc[t] = "store"
  /\ \E m \in sess[t].got :
       LET a == Task(t).account
           e == sess[t].epoch
           inRange == m.day \in Days(Task(t).range)
       IN /\ \A n \in sess[t].got : m.uid <= n.uid
          /\ inRange => AccountExists(a)
          /\ emails' = IF inRange /\ ~KeyTaken(a, e, m)
                       THEN emails \cup {[account |-> a, epoch |-> e, uid |-> m.uid,
                                          msg |-> m.msg, day |-> m.day]}
                       ELSE emails
          /\ sess' = [sess EXCEPT ![t].got = @ \ {m}]
  /\ UNCHANGED <<server, accounts, jobs, covered, up, pc, want, gaps, made,
                 queue, seen, raced, used>>

\* The account is gone: the INSERT raises inside the try block.
StoreRefused(t) ==
  /\ pc[t] = "store"
  /\ ~AccountExists(Task(t).account)
  /\ \E m \in sess[t].got : /\ \A n \in sess[t].got : m.uid <= n.uid
                            /\ m.day \in Days(Task(t).range)
  /\ Go(t, "fail")
  /\ UNCHANGED <<server, tables, up, local, used>>

\* Mutant: the checkpoint is written before the batch is stored.
Checkpoint_Early(t) ==
  /\ pc[t] = "store" /\ sess[t].batch # {}
  /\ \E last \in sess[t].batch :
       /\ \A u \in sess[t].batch : u <= last
       /\ jobs' = {IF j.id = Task(t).id THEN [j EXCEPT !.checkpoint = last] ELSE j :
                   j \in jobs}
  /\ IF sess[t].got = {} THEN NextBatch(t, sess[t].todo) ELSE UNCHANGED pc
  /\ UNCHANGED <<server, accounts, covered, emails, up, local, used>>

\* The whole batch is stored: update_checkpoint(batch[-1]).
Checkpoint(t) ==
  /\ pc[t] = "store" /\ sess[t].got = {}
  /\ \E last \in sess[t].batch :
       /\ \A u \in sess[t].batch : u <= last
       /\ jobs' = {IF j.id = Task(t).id THEN [j EXCEPT !.checkpoint = last] ELSE j :
                   j \in jobs}
  /\ NextBatch(t, sess[t].todo)
  /\ UNCHANGED <<server, accounts, covered, emails, up, local, used>>

\* The SELECT of record_coverage; pysqlite opens no transaction for it.
ReadCoverage(t) ==
  /\ pc[t] = "merge"
  /\ seen' = [seen EXCEPT ![t] = CoveredDays(Task(t).account)]
  /\ raced' = [raced EXCEPT ![t] = FALSE]
  /\ Go(t, "cover")
  /\ UNCHANGED <<server, tables, up, want, gaps, made, queue, sess, used>>

\* Who is between the read and the write of coverage of one of these accounts.
RacedWith(ids) ==
  [u \in Thread |-> raced[u] \/ (pc[u] = "cover" /\ Task(u).account \in ids)]

\* Mutant: the merged segments are deleted but not added to the new one.
WriteCoverage_Replace(t) ==
  /\ pc[t] = "cover"
  /\ AccountExists(Task(t).account)
  /\ LET a == Task(t).account
     IN /\ covered' = {p \in covered : p[1] # a} \cup ({a} \X Days(Task(t).range))
        /\ raced' = [RacedWith({a}) EXCEPT ![t] = FALSE]
  /\ seen' = [seen EXCEPT ![t] = {}]
  /\ Go(t, "done")
  /\ UNCHANGED <<server, accounts, jobs, emails, up, want, gaps, made, queue,
                 sess, used>>

\* The DELETE and INSERT of record_coverage: AbstractCoverage!Record, with days
\* for instants.  When the account's rows changed since they were read, the ids
\* to delete may name any account's rows.
WriteCoverage(t) ==
  /\ pc[t] = "cover"
  /\ AccountExists(Task(t).account)
  /\ LET a == Task(t).account
         touched == IF raced[t] THEN {acc.id : acc \in accounts} ELSE {a}
     IN \E kept \in SUBSET (({a} \X seen[t]) \cup covered) :
          /\ raced[t] \/ kept = covered
          /\ covered' = kept \cup ({a} \X Days(Task(t).range))
          /\ raced' = [RacedWith(touched) EXCEPT ![t] = FALSE]
  /\ seen' = [seen EXCEPT ![t] = {}]
  /\ Go(t, "done")
  /\ UNCHANGED <<server, accounts, jobs, emails, up, want, gaps, made, queue,
                 sess, used>>

\* The account is gone: the INSERT raises, outside the try block.
WriteCoverageRefused(t) ==
  /\ pc[t] = "cover"
  /\ ~AccountExists(Task(t).account)
  /\ Abandon(t)
  /\ UNCHANGED <<server, tables, up, used>>

\* mark_done; the analysis pass that follows never raises and changes nothing here.
MarkDone(t) ==
  /\ pc[t] = "done"
  /\ SetStatus(Task(t).id, "done")
  /\ NextTask(t)
  /\ UNCHANGED <<server, accounts, covered, emails, up, used>>

MarkFailed(t) ==
  /\ pc[t] = "fail"
  /\ SetStatus(Task(t).id, "failed")
  /\ NextTask(t)
  /\ UNCHANGED <<server, accounts, covered, emails, up, used>>

-----------------------------------------------------------------------------
(* Exceptions *)

\* Mutant: an IMAP failure is logged and the job goes on to record coverage.
ErrorCaught_Ignored(t) ==
  /\ pc[t] \in {"search", "fetch", "store"}
  /\ Spend("imapError")
  /\ Go(t, "merge")
  /\ UNCHANGED <<server, tables, up, local>>

\* Mutant: the handler returns without mark_failed.
ErrorCaught_Silent(t) ==
  /\ pc[t] \in {"search", "fetch", "store"}
  /\ Spend("imapError")
  /\ NextTask(t)
  /\ UNCHANGED <<server, tables, up>>

\* The IMAP server fails, or anything else does, inside the try block.
ErrorCaught(t) ==
  /\ pc[t] \in {"search", "fetch", "store"}
  /\ Spend("imapError")
  /\ Go(t, "fail")
  /\ UNCHANGED <<server, tables, up, local>>

\* A statement outside the try block raises (the database is locked or full).
ErrorEscapes(t) ==
  /\ pc[t] \in {"gaps", "create", "claim", "load", "merge", "cover", "done", "fail"}
  /\ Spend("dbError")
  /\ Abandon(t)
  /\ UNCHANGED <<server, tables, up>>

-----------------------------------------------------------------------------
(* The rest of the program *)

\* POST /mailboxes; accounts.email_address is UNIQUE.
CreateAccount(b) ==
  /\ up
  /\ \A acc \in accounts : acc.box # b
  /\ \E i \in NextRowId(accounts) : accounts' = accounts \cup {[id |-> i, box |-> b]}
  /\ UNCHANGED <<server, jobs, covered, emails, up, pc, local, used>>

\* Mutant: coverage rows do not cascade.
DeleteAccount_KeepsCoverage(a) ==
  /\ up
  /\ AccountExists(a)
  /\ Spend("delete")
  /\ accounts' = {acc \in accounts : acc.id # a}
  /\ jobs' = {j \in jobs : j.account # a}
  /\ emails' = {row \in emails : row.account # a}
  /\ raced' = RacedWith({a})
  /\ UNCHANGED <<server, covered, up, pc, want, gaps, made, queue, sess, seen>>

\* DELETE /mailboxes/{id}: the account's rows go with it.
DeleteAccount(a) ==
  /\ up
  /\ AccountExists(a)
  /\ Spend("delete")
  /\ accounts' = {acc \in accounts : acc.id # a}
  /\ jobs' = {j \in jobs : j.account # a}
  /\ covered' = {p \in covered : p[1] # a}
  /\ emails' = {row \in emails : row.account # a}
  /\ raced' = RacedWith({a})
  /\ UNCHANGED <<server, up, pc, want, gaps, made, queue, sess, seen>>

\* retry_job, keeping the checkpoint.  It does not look at the job's status: that
\* only failed jobs are retried is up to its callers.
RetryJob(j) ==
  /\ up
  /\ j.status \in RetryStatus
  /\ Spend("retry")
  /\ SetStatus(j.id, "pending")
  /\ UNCHANGED <<server, accounts, covered, emails, up, pc, local>>

\* The process stops; what its threads held in memory is gone.
Crash ==
  /\ up
  /\ Spend("crash")
  /\ up' = FALSE
  /\ pc' = [t \in Thread |-> "idle"]
  /\ want' = [t \in Thread |-> NoRequest]
  /\ gaps' = [t \in Thread |-> {}]
  /\ made' = [t \in Thread |-> 1]
  /\ queue' = [t \in Thread |-> <<>>]
  /\ sess' = [t \in Thread |-> NoSession]
  /\ seen' = [t \in Thread |-> {}]
  /\ raced' = [t \in Thread |-> FALSE]
  /\ UNCHANGED <<server, tables>>

\* create_app: fail_interrupted_jobs, before any request is served.
Startup ==
  /\ ~up
  /\ up' = TRUE
  /\ jobs' = {IF j.status = "running" THEN [j EXCEPT !.status = "failed"] ELSE j :
              j \in jobs}
  /\ UNCHANGED <<server, accounts, covered, emails, pc, local, used>>

-----------------------------------------------------------------------------
(* The IMAP server *)

Deliver(b) ==
  /\ Spend("deliver")
  /\ mail' = [mail EXCEPT ![b] = @ \cup {[msg |-> used["deliver"] + 1,
                                          uid |-> uidNext[b], day |-> today]}]
  /\ uidNext' = [uidNext EXCEPT ![b] = @ + 1]
  /\ UNCHANGED <<today, epoch, tables, up, pc, local>>

Expunge(b) ==
  /\ Spend("expunge")
  /\ \E m \in mail[b] : mail' = [mail EXCEPT ![b] = @ \ {m}]
  /\ UNCHANGED <<today, epoch, uidNext, tables, up, pc, local>>

\* UIDVALIDITY changes and the messages are numbered afresh, in any order.
ResetUidValidity(b) ==
  /\ Spend("reset")
  /\ epoch' = [epoch EXCEPT ![b] = @ + 1]
  /\ \E f \in [mail[b] -> 1 .. used["deliver"]] :
       /\ \A m, n \in mail[b] : f[m] = f[n] => m = n
       /\ mail' = [mail EXCEPT ![b] = {[m EXCEPT !.uid = f[m]] : m \in mail[b]}]
  /\ uidNext' = [uidNext EXCEPT ![b] = used["deliver"] + 1]
  /\ UNCHANGED <<today, tables, up, pc, local>>

NextDay ==
  /\ today < LastDay
  /\ today' = today + 1
  /\ UNCHANGED <<mail, epoch, uidNext, tables, up, pc, local, used>>

-----------------------------------------------------------------------------
(* The specification *)

\* The process runs and has nothing to do.
NothingToDo ==
  /\ up = TRUE
  /\ pc = [t \in Thread |-> "idle"]
  /\ want = [t \in Thread |-> NoRequest]
  /\ gaps = [t \in Thread |-> {}]
  /\ made = [t \in Thread |-> 1]
  /\ queue = [t \in Thread |-> <<>>]
  /\ sess = [t \in Thread |-> NoSession]
  /\ seen = [t \in Thread |-> {}]
  /\ raced = [t \in Thread |-> FALSE]

Init ==
  /\ today = 0
  /\ mail = [b \in Box |-> {}]
  /\ epoch = [b \in Box |-> 1]
  /\ uidNext = [b \in Box |-> 1]
  /\ accounts = {} /\ jobs = {} /\ covered = {} /\ emails = {}
  /\ NothingToDo
  /\ used = [e \in Event |-> 0]

\* The next step of a thread that serves a request or runs a job.
Step(t) ==
  \/ ReadGaps(t) \/ CreateJob(t) \/ CreateJobRefused(t) \/ ClaimJob(t) \/ Respond(t)
  \/ LoadAccount(t) \/ Search(t) \/ Fetch(t) \/ SessionLost(t)
  \/ Store(t) \/ StoreRefused(t) \/ Checkpoint(t)
  \/ ReadCoverage(t) \/ WriteCoverage(t) \/ WriteCoverageRefused(t)
  \/ MarkDone(t) \/ MarkFailed(t)

Next ==
  \/ \E t \in Thread :
       \/ Step(t) \/ ClaimNextJob(t) \/ ErrorCaught(t) \/ ErrorEscapes(t)
       \/ \E acc \in accounts, r \in Range : Request(t, acc.id, r)
  \/ \E b \in Box : \/ CreateAccount(b) \/ Deliver(b) \/ Expunge(b)
                    \/ ResetUidValidity(b)
  \/ \E acc \in accounts : DeleteAccount(acc.id)
  \/ \E j \in jobs : RetryJob(j)
  \/ Crash \/ Startup \/ NextDay

Spec == Init /\ [][Next]_vars

-----------------------------------------------------------------------------
(* Properties *)

\* Every variable holds a value of its type.
TypeOK ==
  /\ today \in Day
  /\ mail \in [Box -> SUBSET Message]
  /\ epoch \in [Box -> RowId]
  /\ uidNext \in [Box -> RowId]
  /\ accounts \subseteq Account
  /\ jobs \subseteq Job
  /\ covered \subseteq RowId \X Day
  /\ emails \subseteq Email
  /\ up \in BOOLEAN
  /\ pc \in [Thread -> PC]
  /\ want \in [Thread -> [account : RowId, range : Range]]
  /\ gaps \in [Thread -> SUBSET Range]
  /\ made \in [Thread -> RowId]
  /\ queue \in [Thread -> Seq(Job)]
  /\ sess \in [Thread -> Session]
  /\ seen \in [Thread -> SUBSET Day]
  /\ raced \in [Thread -> BOOLEAN]
  /\ used \in [Event -> Nat]

\* Thread t is going to run (or is running) the job with row id i.
Holds(t, i) == \E k \in 1 .. Len(queue[t]) : queue[t][k].id = i

\* A job marked running is in the hands of a thread that will finish it: "a
\* crash must never leave a job running" (worker/runner.py).
RunningIsHeld ==
  up => \A j \in jobs : j.status = "running" => \E t \in Thread : Holds(t, j.id)

OnlyFailedRetried == RetryStatus \subseteq {"failed"}

\* ... as long as no statement outside run_job's try block raises, no mailbox is
\* deleted under a fetch and only failed jobs are retried.
NoOrphanRunning ==
  OnlyFailedRetried /\ used["dbError"] = 0 /\ used["delete"] = 0 => RunningIsHeld

\* Two claims never hand out the same job: "two workers racing to claim would
\* never both get the same job" (core/jobs.py, claim_next_job).
NeverBoth ==
  \A t, u \in Thread :
    \A k \in 1 .. Len(queue[t]), l \in 1 .. Len(queue[u]) :
      queue[t][k].id = queue[u][l].id => t = u /\ k = l

\* ... and a job in a thread's hands is still marked running, however /ingest, a
\* retry and a worker interleave, as long as no mailbox is deleted and only
\* failed jobs are retried.
JobHeldOnce ==
  OnlyFailedRetried /\ used["delete"] = 0 =>
    /\ NeverBoth
    /\ \A t \in Thread : \A k \in 1 .. Len(queue[t]) :
         \E j \in jobs : j.id = queue[t][k].id /\ j.status = "running"

\* A job that waits to be run is in the hands of the request that is about to
\* claim it: otherwise nothing finishes it and the Fetch mail page of its
\* mailbox refuses a new fetch for ever (ui/fetch_page.py, core/job_recovery.py).
PendingIsHeld ==
  up => \A j \in jobs : j.status = "pending" =>
          \E t \in Thread : pc[t] = "claim" /\ made[t] = j.id

\* The vault of account a has the message that mailbox message m is.
Stored(a, m) == \E row \in emails : row.account = a /\ row.msg = m.msg

\* A checkpoint is never ahead of what is stored: every message up to it that is
\* in the job's range is in the vault (worker/runner.py, the comment on
\* update_checkpoint), so a retry that skips to it loses nothing; unless the
\* folder was renumbered or the mailbox deleted.
CheckpointSound ==
  used["reset"] = 0 /\ used["delete"] = 0 =>
    \A j \in jobs, acc \in accounts : j.account = acc.id =>
      \A m \in mail[acc.box] :
        m.uid <= j.checkpoint /\ m.day \in Days(j.range) => Stored(acc.id, m)

\* A covered day is fully ingested (core/models.py, table coverage): every
\* message of that day still in the mailbox is in the account's vault.
CoveredIsStored ==
  \A p \in covered, acc \in accounts : acc.id = p[1] =>
    \A m \in mail[acc.box] : m.day = p[2] => Stored(acc.id, m)

\* ... for days that were over when they were fetched, when no mailbox is deleted
\* and no job is retried across a renumbering of its folder; through crashes,
\* failures, retries, concurrent requests and lost coverage writes.
CoveredPastIsStored ==
  /\ ~MayAskToday
  /\ used["delete"] = 0
  /\ used["reset"] = 0 \/ used["retry"] = 0
  => CoveredIsStored

\* No row outlives its account (core/models.py, ON DELETE CASCADE): a thread that
\* was fetching for a deleted mailbox leaves nothing behind in the vault.
RowsHaveAccount ==
  /\ \A j \in jobs : AccountExists(j.account)
  /\ \A p \in covered : AccountExists(p[1])
  /\ \A row \in emails : AccountExists(row.account)

SingleThread == \A t, u \in Thread : t = u

\* With one thread, the range of a finished job is covered and stays covered, so
\* it is never fetched again.
DoneIsCovered ==
  SingleThread /\ used["delete"] = 0 =>
    \A j \in jobs : j.status = "done" =>
      Days(j.range) \subseteq CoveredDays(j.account)

\* The legal moves of a job's status (core/jobs.py: "pending -> running -> (done |
\* failed)", and retry_job's failed -> pending); a done job is never touched again.
StatusMove == {<<"pending", "running">>, <<"running", "done">>,
               <<"running", "failed">>, <<"failed", "pending">>}
JobLifecycle ==
  [][OnlyFailedRetried /\ used'["delete"] = 0 =>
       \A j \in jobs : \E k \in jobs' :
         /\ k.id = j.id /\ k.account = j.account /\ k.range = j.range
         /\ k.status = j.status \/ <<j.status, k.status>> \in StatusMove
         /\ j.status = "done" => k = j]_vars
=============================================================================
