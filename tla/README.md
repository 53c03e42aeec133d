# Heron: TLA+ verification

Heron fetches mail over IMAP into a local vault (SQLite plus raw `.eml` files),
scores every message with a set of rules and raises alerts. These modules model
the parts of `src/src/heron` that keep state, check them with TLC on small
instances, and prove the most important results for every instance with TLAPS.
`PROJECT.json` maps every definition to the lines it translates, lists the runs,
the hazards and the theorems; this file says how it all fits together.

Contents: 1 the system, 2 the modules, 3 the runs, 4 fairness, 5 the proofs,
6 where code and documentation disagree, 7 what is not modelled, 8 the plan.

## 1. The system

### Processes, threads, transactions

One API process (FastAPI) serves the dashboard (Streamlit, another process that
only makes HTTP calls). Endpoints are ordinary functions that run in a thread
pool; the jobs a request creates are its *background tasks*, which the same
request runs one after another once its response is sent. Several requests are
served at once, so several jobs run at once, in one process.

* A task that raises ends the request's remaining tasks; an endpoint that raises
  never runs the tasks it had added.
* A database transaction that begins with a write is atomic. A `SELECT` before
  the first write opens no transaction (pysqlite begins one at the first DML
  statement), so `record_coverage` and `set_alert_status` are a read and, later,
  a write: two steps.
* Row ids are `INTEGER PRIMARY KEY` without `AUTOINCREMENT`: the next id is one
  more than the largest present, so ids of deleted rows are used again.
* Foreign keys are enforced and cascade on deletion.

### Components, their state and their operations

| Component | State | Operations | Talks to | What makes it correct |
|---|---|---|---|---|
| Fetch endpoint `api/ingest.py` | the request's gaps, its task queue | `POST /ingest` | coverage, jobs, runner | fetches just the gaps; every job it creates is claimed and run |
| Jobs table `core/jobs.py` | rows with status, checkpoint | create, claim, claim next, checkpoint, done, failed, retry | endpoint, runner | a job is run once, along its lifecycle |
| Job runner `worker/runner.py` | IMAP session, batch loop | `run_job` | IMAP, mail store, coverage, jobs, analysis | ends every job; never a checkpoint or coverage ahead of the vault |
| Restart recovery `core/job_recovery.py` | none | `fail_interrupted_jobs` | jobs | no job is left running by a process that stopped |
| Mail store `core/storage.py`, `ingest/collector.py` | accounts, emails, `.eml` files | store a message, create and delete a mailbox | runner, analysis | one row per IMAP identity, each with its readable file |
| IMAP client `ingest/imap_client.py` | a session on a folder | SEARCH, FETCH, UIDVALIDITY | the server | what a search names is fetched, or the job fails |
| Coverage `core/coverage.py` | segments per account and folder | `record_coverage`, `get_gaps` | runner, endpoint | says "covered" only of what was fetched; merged and minimal |
| Time ranges `core/timeutil.py` | none | local day ranges, widening, containment | runner, page | no message of the local days is missed |
| Alerts `core/analysis_storage.py`, `analysis/alerts.py`, `api/alerts.py`, `ui/alerts_page.py` | analyses, alerts, requests under way | save an assessment, move an alert | analysis worker, people | a person's decision survives; moves follow the lifecycle |
| Analysis worker `worker/analysis.py` | a cursor over emails | pass over unanalysed or stale emails | files, analyses | misses nothing, ends, scores the right message |
| Fetch mail page `ui/fetch_page.py`, `fetch_logic.py` | the script of each tab | look for running jobs, start a fetch, wait, report | jobs and fetch endpoints | starts no fetch beside another; "Done" means stored; stops waiting |
| Parsing and extraction `analysis/parser.py`, `extractor.py`, `domains.py`, `pipeline.py` | none kept; the collector's open anchor, four buckets | walk the parts, read the HTML, note indicators, hand over to the rules | analysis worker, rules | nothing of the sender's is lost or mixed up without `truncated` saying so; every lying link is judged |
| Rules and scoring `rules/*`, `analysis/scoring.py`, `analysis/alerts.py` | none | run the rules, score, draft an alert | analysis worker | a broken rule hides nothing; the score depends on what was found, not on order or repetition |
| Start and secrets `api/app.py`, `core/crypto.py`, `api/auth.py` | two files, the secrets in memory | load or generate, refuse an empty file | mailboxes endpoint | no start replaces a secret that is in use |
| Mailboxes endpoint `api/mailboxes.py` | accounts | test a login, add, delete | provider, page | one row per address, encrypted with the process's key |
| Add mailbox page `ui/mailbox_wizard.py` | the form, the fingerprint of what was tested | test, save | mailboxes endpoint | saves only what was tested |
| Activity `analysis/activity.py`, `core/activity_storage.py` | none | the timeline of some local days | fetch page, dashboard | counts a message on its local day, as the fetch saw it |
| Statistics, dashboard, doctor, migrations | see section 7 | | | |

### What is hard

Threads that interleave between any two statements on shared tables; reads that
are used after somebody else wrote; a process that stops between any two steps
and resumes from a checkpoint; an IMAP server that fails, expunges, renumbers; row
ids that come back; ranges that touch, nest and end in the future. Every such
point is a hazard in `PROJECT.json`, at its line, with the properties that
would catch it going wrong.

## 2. The modules

```
AbstractCoverage  <--refines--  CoverageTable      AlertLifecycle <--refines-- Alerts
      |  (its step, with days for instants)
      v
   Ingest  --(extended by)-->  FetchPage      GapSweep      Vault      MailboxSetup

   LocalDays  --(extended by)-->  SearchWindow
   Extraction, Scoring  --(extended by)-->  Pipeline  <--(Check)--  Rules
```

`MC*` modules give the constants values for TLC; `*Proofs` modules hold the
theorems.

**Ingest** composes the endpoint, the jobs table, the runner, recovery and the
IMAP server. A thread (`pc[t]`) walks `idle -> gaps -> create <-> claim` (the
endpoint) and then, for each task in `queue[t]`, `load -> search -> fetch <->
store -> merge -> cover -> done` or `-> fail` (`run_job`). One action is one
transaction or one IMAP exchange. `queue[t]` holds the job rows as `claim_job`
returned them, because `run_job` works from that copy: its `checkpoint_uid` is
the one read at the claim. `Store` is `store_if_in_range` for one message;
`Checkpoint` follows only when the whole batch is stored. `ErrorCaught` is an
exception inside the `try` block; `ErrorEscapes` is one outside it, which
abandons the request's other tasks. Time is counted in local days, the unit in
which ranges are requested; `today` moves on, and mail arrives on `today`.
`ClaimNextJob` and `RetryJob` model `claim_next_job` and `retry_job`, which the
code offers and tests but nothing shipped calls; the constants `HasWorker` and
`RetryStatus` say whether something does. `RetryJob` does not look at the status,
like the code; the properties say what they assume of its callers.

**FetchPage** composes a tab of the Fetch mail page with all of `Ingest`. A tab's
`page[s]` is its script: `over -> list -> (post -> wait ->) poll -> over`, one HTTP
call per step, and what the script read stays in its locals while jobs go on. The
actions of `Ingest` are used as they are: `Post` is `Request` by a thread,
`Answer` is `Respond`. `CallFails` is `_call` ending the script when the API is down
or the handler raised; `GiveUp` is the client's timeout, after which the server works
on; `Run` is Streamlit starting the script over, also out of the wait. `shown` is
what the page promised last: `done`, `stored`, or nothing.

**AbstractCoverage** is the contract of `record_coverage`: a call adds exactly its
range in one step and removes nothing, unless another call for the same key
returned while it ran; then it adds its range, and what else stays is a subset of
what was covered or what it had read. **CoverageTable** is the code: read the
rows, scan them in any order (the `SELECT` has no `ORDER BY`) while the segment
grows, delete the merged ids, insert. `Ingest!WriteCoverage` makes the abstract
step with days for instants, which is what justifies leaving the rows out there.
The history variables `read`, `raced`, `dirty` and `recorded` name what a writer
saw and whether it was overtaken.

**GapSweep** is `compute_gaps` iteration by iteration, over every sorted list of
segments; `Ingest!GapsOf` is its declarative counterpart.

**LocalDays** is the arithmetic of local days, in minutes, for a zone with one
change of its offset: what the wall clock shows (`astimezone`), when a midnight is
(a `datetime` in a zone, with `fold = 0`, as `zoneinfo` resolves it), ranges of days,
and the rows and labels of the timeline. **SearchWindow** follows one message from
a request for some days through the widened range, the `SINCE`/`BEFORE` dates and the
server's zone, to the final filter, and on into the timeline of the same days. The fetch
converts midnights, the timeline converts messages: two computations of one thing.

**Alerts** has the tables analyses and alerts, the page and other callers of the
endpoint. `CheckMove` (the `SELECT`) and `WriteMove` (`UPDATE ... WHERE status =
current`) are two steps. **AlertLifecycle** is the abstract lifecycle that every
alert follows.

**Vault** has the `.eml` files, the emails table and the passes. A file is
absent, partial or whole; storing is `exists -> open -> write -> insert`, and
`open` empties the file. A pass is `select -> read <-> save`, with a cursor over
ids. The parsed message and the score are abstracted to the content and the
rules version they were made with. It overlaps with `Ingest` in the emails table
only; there the file is left out, here the job.

**Rules** is each rule's `check` as an operator on the facts the rule looks at:
the best result of each authentication method, where answers would go, what the
sender's name claims, what links show, and of each attachment its last extension
and declared type. **Scoring** is what becomes of the findings: `RunRule` and
`RuleCrashes` are one turn of the loop of `run_rules`, `ScoreFinding` one of
`_score_findings`, `Assess` the verdict and the alert drafted from it. The
registry and `Check` are constants of `Scoring`, so that its theorems hold for
rules that do not exist yet; `MCPipeline` gives it those of `Rules`.

**Extraction** is one message on its way to its indicators. A message is its parts in
document order with their depth, a text is a sequence of words, an HTML part a sequence
of the tokens `HTMLParser` reports; what a regular expression takes for a URL, an
address, a hash or a mail address is a word of that kind. The phases are
`leaves` (`_iter_leaves`: a message/* part is one leaf whatever is in it), `html`
(`_HtmlCollector` on the joined parts, one token per step) and then `urls`, `hosts`,
`ips`, `domains`, `hashes`, one indicator per step, each into its bucket by `Note`.
The second half of the module reads the message at once, without any of that state
(which words stand between an `<a>` and the next, which parts are quoted): that is
what the properties compare with. `LooseIPv4` and `Address` are the arithmetic of
`_parse_loose_ipv4`, with `Octet` for 256. **Pipeline** is `analyze`: it extends
`Extraction` and `Scoring`, hands the attachments and what `_shown_host`,
`_mismatch` and `registered_domain` make of the links to the rules, and so follows
a link from the HTML to the finding.

**MailboxSetup** has the start of the API (`stage` says how far `create_app` is;
a secret's file is created by `OpenFile` and filled by `WriteFile`), the two
endpoints of the page, and the page. A page's script stands in `call[s]` while it
waits; `moved` says that the form was edited meanwhile, so that Streamlit will
interrupt the script at its next write to the session's state. `GiveUp` is the
client's timeout of ten seconds or a refused connection; the request may be in
`late` and is then served after all.

## 3. The runs

| Run | Question | Bounds |
|---|---|---|
| `ingest_serial` | through an IMAP failure, a database error, a renumbered folder and a retry, is the checkpoint never ahead of the vault, are covered past days stored, do finished jobs stay covered? | 1 thread, 1 mailbox, 3 days, 2 requests, 3 messages, batches of 2 |
| `ingest_race` | are jobs run once and never orphaned, statuses legal, rows never without account, when two threads, a worker's claim, a retry, a crash, an IMAP failure, an expunge and a deletion meet? | 2 threads, 1 mailbox, 3 days, 2 requests, 1 message |
| `fetch_page` | does a tab start no fetch beside another, is "Done" true, does its wait end, through a lost answer, a crash and a database error? | 1 tab, 2 threads, 3 days with a hole in them, so 2 gaps per request, 2 requests, 2 messages, the list cut to 1 job |
| `gap_sweep` | are the gaps exact, in order, apart? | all lists of up to 3 segments, all requests over the instants |
| `coverage_table` | does the one-pass merge implement the contract, raced or not? | 2 writers, 2 keys, 4 instants, 4 calls |
| `alerts` | do decisions survive re-scoring and races, stamps agree with statuses? | 3 callers, 1 email, its id used again |
| `search_window` | is a range exactly its local days, is exactly their mail stored, and does the timeline count it? | 22 zones for the user, 15 of them changing on day 1, 6 for the server, ranges in 3 days, messages to the minute around the hours of 5 days |
| `vault` | has each row its file, does a pass that ends miss nothing, do scores stand beside their message, do passes end? | 2 threads, 2 messages, 2 passes, 1 restart or failure, 1 lost file, 1 deletion |
| `pipeline` | is what the message's parts and HTML say collected exactly, does `truncated` tell what was dropped, are the hosts of links reported and lying links judged; does the score count each kind of finding once, does a crash hide nothing else, is one signal never enough, does an alert get the advice that fits and no other? | 1056 messages, every set of crashing rules, 2 indicators per kind, bodies of 4 words or tokens, link texts of 2 words |
| `mailbox_setup` | is what is saved what was tested, and do the generated secrets last? | 1 session, 1 address in 2 spellings, 2 passwords, 2 stops, 1 lost answer, 1 change of password at the provider |
| `ingest_today`, `setup_lost_key` | see section 6 | one thread; one session |

Why the bounds are enough. Two threads show every race of two statements, and
the code has no step that involves three. Three days give a range with an inside
and two edges, so that one request can leave a gap on either side of another.
Three messages in batches of two give a full batch, a partial one and a
checkpoint between them. Each disturbance (the constants `Limit`) happens at most
once per run, at every point. Four instants give segments that touch, overlap,
nest and stay apart; four calls let a writer be overtaken twice. Losing the rows
of *another* key takes five calls and is covered by the proof, not by the run.
The messages of `pipeline` are of three sorts. 735 are all combinations of seven
authentication outcomes, five senders, three HTML bodies and seven lists of
attachments, which between them make every rule report each of its kinds, repeat some,
and reach the cap; `MAX_ATTACHMENTS_CHECKED` is 2 there, 20 in the code. 316 are all
HTML bodies of an anchor and two tokens of ten, or three of six, so that anchors and
scripts are nested, left open, closed twice and broken off; a text, a sender and a
`Received` header beside them overflow buckets that hold two. Five are parts within
parts, quoted messages and hashes. The list of jobs in `fetch_page` is cut to the
newest one: a request makes two, so the page never sees all of them.
No shipped rule gives one `rule_id` two severities in a message, so the run shows
`ScoreIsStrongest` and `AdviceFits` for repeats and for notes of a rule that says nothing
else; that a weaker finding or a note may also come first is covered by their theorems,
which hold for any rules.
Sessions of `mailbox_setup`
share the accounts table only, in which a second one can merely take an address
first, and the theorem `OnlyTestedIsSaved` is for any number of them. Two stops
can hit both a start and the start that repairs it; three secrets are the token, the
key and one more that should never be needed.
Every passing property has a mutant in `PROJECT.json`: a plausible bug in the
code's translation that the run refutes.

## 4. Fairness

Only the liveness properties need any. `FetchPage!PageSpec` is weak fairness of the
server as a whole (some thread that has work goes on: the IMAP socket has a timeout of
30 seconds, after which the step fails, and SQLite a busy timeout of 5) and of each
tab's script, whose calls have timeouts too. It does not ask that the 15 minutes
ever pass (`TimeUp`), nor that anybody answers a click; crashes, errors, mail and the
clock are not fair. `WatchEnds` therefore says more than that the page's wait is
limited: the jobs themselves come to an end. `Vault!FairSpec`
is weak fairness of the steps of a pass only, a loop that waits for nothing but
the database and the disk. New passes and requests are bounded by `Limit`, so
liveness is about finishing what began.

## 5. The proofs

All proofs hold for any threads, mailboxes, keys, instants, batch sizes and
limits; the only assumptions are the modules' named `ASSUME`s (numbers are
numbers, sets are not empty).

* **IngestProofs, the jobs.** `TypeCorrect` is the type invariant. `JobHeldOnce`,
  `NoOrphanRunning` and `RowsHaveAccount` are not inductive by themselves: the
  inductive invariant `HeldInv` adds that job ids are unique and the id a thread
  just created is that of a row it owns or that somebody claimed (`Ids`, `Wanted`), that
  a stopped process has idle threads (`Quiet`), that queued jobs are distinct,
  running and held by one thread (`Held`). From it follow the theorems
  `NoRowOutlivesItsAccount`, `JobsAreHeldOnce`, `NoRunningJobIsOrphaned` and the
  action property `JobsFollowTheirLifecycle`.
* **IngestProofs, the vault.** `CheckpointsAreSound` and `CoveredDaysAreStored` rest on
  `VaultInv`. What makes a checkpoint true is that UIDs of an epoch only grow and
  name one message (`Identity`, `Epochs`), that no message of a day that is over
  is still to come (`Past`), that what a session holds was searched in the folder of
  its job (`Phases`, `Matched`, `Boxed`) and is stored in ascending order (`Ordered`), so
  that everything below the cursor of a running loop is stored (`Loop`, `SeenStored`) and
  everything above it is newer than the search or in hand (`Fresh`). Every step is
  first reduced to what it changes (`TablesGrow`, `MailMoves` and their like); each conjunct
  is then kept by such a change, not by each of the actions.
  `DoneJobsAreCovered` needs in addition that a single thread is never raced (`Alone`).
* **IngestProofs, the page.** `ShownIsStored` rests on `PageInv`, which follows a day the
  user picked through every hand it passes: it is stored, or in a gap the request has
  found, or in the range of the job it is about to claim or has queued (`Promised`); then
  in the range of a job the tab watches, unless that job was read to be done (`Watching`);
  and a done job's range is stored (`DoneStored`). `Served` ties a waiting tab to the
  thread that answers it, `MadeIsPending` the row a request made to that request.
  `OneTabFetchesOnce` adds `SoloInv`, for one tab that gave up on nothing: only the
  request it waits for is being served (`Waited`); the jobs of a mailbox are in one
  queue (`OneQueue`), in the order of their ids (`InOrder`), and running (`RowsRunning`);
  and the newest job of a mailbox that is being fetched is among them (`NewestQueued`).
  This last part is why a page that reads only the twenty newest jobs does not miss a fetch
  that is under way: whatever else is in the list, the newest job of the mailbox tells.
* **CoverageTableProofs.** `NothingIsOverclaimed` rests on `Justified`: a grown
  segment only spans instants that were recorded. `RowsAreTidy` and
  `CoverageImplements` rest on `Known`: as long as a writer has not been raced, the
  rows it read are still the rows of its key (`Snapshot`), the rows it passed by do not touch
  the segment it has (`Grown`), ids are unique. That is the argument
  for the one-pass merge: rows of a key never touch each other, so growing the
  segment by one of them cannot make it reach a row already passed by.
* **GapSweepProofs.** `GapsAreExact` and `GapsAreApart`, by the invariant that up
  to the cursor every instant of the request is in a gap or covered, and not both.
* **SearchWindowProofs.** For every zone with any change, every server's offset and
  any days: `RangesAreLocalDays`, from the lemma that a clear midnight parts time
  (before it the wall clock shows earlier days, from it on that day or later ones);
  `FetchIsExact`, where the window reaches; `TimelineCountsFetched`.
* **AlertsProofs.** All of `Alerts`: `TypeCorrect`, `StampsAgree`, `FlaggedHaveAlerts`,
  `OffersAreKept`, from one invariant, which adds that ids and emails of alerts are
  unique (`Unique`), that between its `SELECT` and its `UPDATE` a caller holds a legal
  move (`MoveIsLegal`), and that an offer which is not outdated still stands
  (`OffersStand`). Every step drops an email's alert, raises one, moves one for the
  caller that asked, or keeps all statuses (`AlertSteps`); from that follow
  `DecisionsSurvive` and the refinement `AlertsFollowLifecycle`.
* **PipelineProofs.** `UrlHostsInReport`: the hosts' turn comes when the other buckets
  are empty, so the bucket a host goes to is never longer than the URLs before it
  (`HostsInv`), and the host of a URL within the limit is within the limit.
  `LooseAddressFits`: the four notations fill disjoint places below `Octet`^4.
  Then, for any registry, any messages and any rules: `TypeCorrect`;
  `StrongestScoresOnce`, that of the findings with one `rule_id` only the first scored
  has points and none left over is stronger; `TwoSignals`, from the invariant that as
  long as only one kind of finding has scored, the total is worth that kind, which is
  at most 35 points; `NothingIsHidden`, from the invariant that of each rule that had its
  turn all findings stand together, or none if it crashed (`RulesReported`); and
  `AlertsAdvise`, since a finding has no points or those of its severity
  (`PointsAreWorth`), and a warning without points repeats a stronger one of its own
  rule (`ScoredIffWarns`). `AnalysisIsSound` carries these over to the whole of
  `analyze`; it assumes that what the rules are handed is one of the messages they are
  made for.
  `ScoresAreStrongest`: the total is at every moment the sum of what the strongest finding
  of each scored `rule_id` is worth (`SumInv`), and a sum over a finite set does not depend
  on the order it is taken in (`SumsExist`, `SumsAdd`, `SumsAgree`).
  The extraction is followed step by step against the message read at once.
  `WalkInv`: what was read of the parts is what the sender's own parts before `pos` hold,
  joined (`Joined`, the prefix of a flattened sequence), and the walk is never within a
  forwarded message (`AfterIsOwn`, `PassedOver`). `CollectInv`: what the collector holds is
  what the readable tokens before `pos` tell, and of the anchors before it all are listed
  but the one that is open, whose text so far is what was said since it was opened
  (`AnchorAt`); where `HTMLParser` gave up, that is so at the token it gave up at, and
  nothing after it is readable (`GaveUp`). From it follows `LinksAreCollected`.
  `BucketInv`: each bucket holds, without repetition, as many as it may of the items that
  were noted (`Holds`): all of them, or one more than it reports; and unless URLs were
  dropped, each has the texts of all its links. `TruncatedTellsAll` follows at the end, where
  the hosts of the URLs are the delicate part: they are noted from the bucket, so they
  are all there only if no URL was dropped. `LinksAreJudged` joins this to
  `NothingIsHidden`: what the link rule is handed are the judgements of all links, and what
  it reported of them stands in the result. It assumes that the link rule of `Rules` is
  registered under its name. These rest on `RawAssumption`: words, tokens and parts are of
  their types, and only a multipart or a forwarded message has parts in it.
* **MailboxSetupProofs.** `OnlyTestedIsSaved` needs that everything a script is
  waiting for, everything remembered and every late request was proved before
  (`CallIsProved`, `TestedIsProved`, `LateIsProved`); it assumes
  `HastyClicks = FALSE`. `StoredStaysReadable` needs the relation between the
  key's file, the environment and the key of the stored rows at every stage of a
  start, and assumes that nobody loses or replaces the key. `TokenStays` is about the
  other secret of the same start: a token that was ever in force is the one in the file
  (`TokenIsSaved`), and a file is only ever empty while its secret is still in memory
  (`OpenedIsHeld`); it assumes that nobody removes the files.
* **VaultProofs.** `StoredCanBeRead` needs that a file which is found or opened stays until
  its row is there (`FilesStay`), and that a file which is not whole is still open
  (`CutIsOpen`). `ScoresAreOfTheirEmails` needs that a pass holds rows of the table, unless
  a mailbox was deleted under it (`HeldAreRows`). `EndedPassesAreComplete` needs that what a
  pass owes and is still due lies ahead of its cursor or in the batch at hand
  (`OwedIsAhead`): the argument for a cursor on ids, whatever is inserted, scored and
  deleted while the pass runs.

There is no induction scheme the provers can use; where an argument needs the
least number with some property (the first row of a batch, the newest job of a
mailbox), it is the least element of a set of naturals (`HasLeast`, `HasGreatest`).

Model-checked only: liveness (`WatchEnds`, `PassEnds`), which is out of the provers' reach
with `ENABLED`. The type invariant of `MailboxSetup` is stated in its
module and listed in no run; those of the other modules are proved.

## 6. Where code and documentation disagree

With a run that shows it:

* `ingest_today`: a fetch of a day that is not over marks all of it covered; mail
  that arrives later that day is in no gap and is never fetched.
* `setup_lost_key`: when the key's file is lost or another key is configured, the
  API starts as if nothing had happened; that no stored password can be read shows
  only when a job fails or a stored mailbox is tested.

Stated by a property of a module that is refuted, without a run in the list:

* `Ingest!PendingIsHeld`: a crash between `create_job` and `claim_job` leaves a
  pending job that nothing finishes, and the Fetch mail page refuses that mailbox
  from then on (`job_recovery.py:4-6` names this outcome for running jobs).
  `WatchEnds` leaves that case out: the page waits its 15 minutes for such a job.
* `SearchWindow!FoundExactly`: the widened window reaches less than a day past the
  range, so a server east of the user's zone is not asked for the last hours.
* `Vault!StoredIsWhole`: a write cut short leaves a file that every later fetch
  takes for the whole message.
* `Scoring!PhishingHasStrong`: `scoring.py:13-15` says phishing takes two strong
  signals, or one and several smaller ones; four medium ones suffice.

Seen while modelling; the passing properties name each as a condition:

* A database error outside `run_job`'s `try` block leaves the job running until
  the next restart (`NoOrphanRunning`).
* A tab that gave up on its POST does not see the jobs the server is still about to
  create, nor does a second tab: either may start a fetch of the same gaps beside
  the first (`OneFetchAtATime`). The vault keeps one row per message all the same.
* A tab that finds another's jobs watches them, and then says "Done" of the dates in
  its own form, which those jobs may not have asked for. `DoneIsStored` counts such a
  report as promising nothing.
* HTML parts are joined before they are read: a script or anchor that one part leaves
  open reaches into the next one, and when `HTMLParser` gives up, the rest of all of
  them is dropped without `truncated` being set. `Readable` and `TextOf` define what
  counts accordingly.
* A link whose text shows the address it goes to in another notation counts as a
  mismatch (`_mismatch` compares the text with the normalised address).
* A mailbox deleted and another added under the same id while the first one's job
  runs: the job's coverage counts for the new mailbox (`CoveredPastIsStored`).
* A retry across a change of UIDVALIDITY skips new UIDs up to the old checkpoint
  (`CoveredPastIsStored`); `retry_job` has no shipped caller.
* Two concurrent `record_coverage` calls may leave overlapping rows or delete
  coverage, even of another key, by a reused id (`Tidy`, `AbstractCoverage`).
* A pass that holds rows of a mailbox when it is deleted may save a score under
  an id that belongs to another mailbox's email by then (`ScoreIsOfItsEmail`).
* A pass may score a file that another thread is just writing; nothing scores it
  again until the rules change. Nor is an assessment in which a rule crashed made
  again before that.
* `SavedWasTested` fails with `HastyClicks = TRUE`: after a successful test, an
  edit and a click on Save before the page was drawn again save what was not
  tested. Whether that can happen depends on Streamlit returning a click on a
  button that is disabled by the time the script runs.
* A midnight in the middle of a change: in St John's, until 2011, clocks went back at
  00:01 to 23:01, so a day's last hour came again after its range had ended
  (`DaysAreLocal`, `FetchedIsCounted`; the condition is `MidnightsClear`). We know of
  no zone that changes like that today. `local_day_range` says that it is correct on such days.
* `fingerprint` ignores the case of the address and the accounts table does not:
  one mailbox may be stored under two spellings.

## 7. What is not modelled, and why

* The regular expressions of the extractor, the decoding of charsets, headers and file
  names, and the MIME and HTML parsers of the library: text functions, out of TLC's
  reach. They make the words, parts and tokens of `Extraction`. IPv6 hosts, the
  sources of an indicator and the splitting of a URL are left out with them, and the
  evidence a finding quotes is wording.
* The deletion of a mailbox while the Fetch mail page waits for its jobs: `FetchPage`
  assumes there is none (`Ingest` has deletions without the page).
* A configured `HERON_API_TOKEN` (no file is read or written then), sign-in and
  sign-out, and the wizard's suggestions and validation of text.
* Two changes of a zone within the days of a request, and changes of the server's
  zone: `TimeZone` has one change, `SearchWindow`'s server an offset.
* The sums and verdict counts of the timeline: one message is followed.
* Several folders per account: a job names one folder; folders share nothing but
  the account, and `Key` in `CoverageTable` is an account and a folder.
* `imap_port`, credentials, login: no state; a failed login is `ErrorCaught`.
* Several API processes on one database: recovery documents that it assumes one.
* Encryption, comparing tokens, migrations, the dashboard's layout and sign-in,
  `doctor` (it reads the environment and prints): libraries, generated code and pure
  input and output. A row's ciphertext is the key it was made with.

## 8. Plan

Done, in this order, the most important behaviour first: `Ingest`,
`AbstractCoverage` and `CoverageTable`, `GapSweep`, `SearchWindow`, `Alerts`,
`Vault`, `Rules` and `Scoring`, `MailboxSetup`, `LocalDays`, `FetchPage`, `Extraction`
and `Pipeline`, and a proof of every safety property and action property the passing
runs check.

Next, the models: the deletion of a mailbox beside the page, and the sums of the
timeline.

Next, the proofs: what the new models add; that the gaps of a request are as few as
can be; and that a verdict does not depend on the order of the registry.
