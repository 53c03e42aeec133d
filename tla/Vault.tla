------------------------------- MODULE Vault -------------------------------
(***************************************************************************)
(* The raw messages on disk (ingest/collector.py), the emails table over    *)
(* them (core/storage.py) and the passes that read them back and save a     *)
(* score (worker/analysis.py, core/analysis_storage.py).                    *)
(*                                                                         *)
(* A thread stores the messages of the job it runs and, when a job is done, *)
(* makes a pass over the emails without an analysis; a pass over the stale  *)
(* ones is started by hand after the rules changed.  A file is written in   *)
(* place (opened, which empties it, and then filled), under a name taken    *)
(* from its content: equal messages of two mailboxes share one file.        *)
(***************************************************************************)
EXTENDS Naturals, FiniteSets

CONSTANTS
  Thread,     \* threads that run jobs and passes
  Account,    \* ids of accounts; an id is used again after a deletion
  Content,    \* raw messages, as their SHA-256 tells them apart
  Message,    \* what the mailboxes hold: records [account, uid, content], the uid
              \* standing for folder, UIDVALIDITY and UID
  BatchSize,  \* rows a pass selects at a time
  Limit       \* bound: how often each event of Event may happen

\* A restart, a full disk and an error of the database share one bound.
Event == {"failure", "lose", "delete", "pass"}

ASSUME VaultAssumption ==
  /\ Message # {}
  /\ Message \subseteq [account : Account, uid : Nat, content : Content]
  /\ BatchSize \in Nat \ {0}
  /\ Limit \in [Event -> Nat]

RowId    == Nat \ {0}
Email    == [id : RowId, account : Account, uid : Nat, content : Content]
Analysis == [email : RowId, content : Content, rules : Nat]
PassPC   == {"select", "read", "save"}
PC       == {"idle", "exists", "open", "write", "insert"} \cup PassPC

VARIABLES
  accounts,   \* ids of the rows of table accounts
  file,       \* file[c]: the .eml file of c is "absent", "partial" or "whole"
  emails,     \* table emails
  analyses,   \* table analyses, and what the analysed bytes were
  rules,      \* rules_version() of the running process
  pc,         \* pc[t]: what thread t does next
  msg,        \* msg[t]: the message being stored
  kind,       \* kind[t]: the pass looks for "missing" or "stale" analyses
  after,      \* after[t]: after_id of the pass
  batch,      \* batch[t]: the selected rows not looked at yet
  owed,       \* history: ids the pass found due at its start and has not skipped
  stale,      \* history: a mailbox was deleted while a pass held rows of it
  used        \* used[e]: how often event e has happened

tables  == <<accounts, emails, analyses>>
passing == <<kind, after, batch, owed>>
vars    == <<tables, file, rules, pc, msg, passing, stale, used>>

-----------------------------------------------------------------------------
(* Helpers *)

NextRowId(table) ==
  {n \in {1} \cup {row.id + 1 : row \in table} : \A row \in table : row.id < n}

Go(t, label) == pc' = [pc EXCEPT ![t] = label]

\* store_if_in_range returned or raised, and its locals are gone.
NoMessage == CHOOSE m \in Message : TRUE
EndStore(t) == Go(t, "idle") /\ msg' = [msg EXCEPT ![t] = NoMessage]

Spend(e) == used[e] < Limit[e] /\ used' = [used EXCEPT ![e] = @ + 1]

\* emails_missing_analysis and emails_with_stale_analysis: is this row one of them?
Due(k, row) ==
  IF k = "missing" THEN \A a \in analyses : a.email # row.id
  ELSE \E a \in analyses : a.email = row.id /\ a.rules # rules

\* Mutant: the cursor is taken for the next id to look at, and skips one.
Rest_SkipsOne(t) == {row \in emails : Due(kind[t], row) /\ row.id > after[t] + 1}

\* The rows the SELECT of the pass ranges over.
Rest(t) == {row \in emails : Due(kind[t], row) /\ row.id > after[t]}

\* Mutant: the cursor does not move; the WHERE clause is trusted to shrink the rest.
Cursor_Kept(t, rows) == after[t]

\* after_id = batch[-1]["id"].
Cursor(t, rows) == CHOOSE i \in {row.id : row \in rows} : \A row \in rows : row.id <= i

EndPass(t) ==
  /\ Go(t, "idle")
  /\ kind' = [kind EXCEPT ![t] = "missing"]
  /\ after' = [after EXCEPT ![t] = 0]
  /\ batch' = [batch EXCEPT ![t] = {}]
  /\ owed' = [owed EXCEPT ![t] = {}]

\* The next row of the batch, or the next batch.
NextRow(t, rest) ==
  /\ batch' = [batch EXCEPT ![t] = rest]
  /\ Go(t, IF rest = {} THEN "select" ELSE "read")

-----------------------------------------------------------------------------
(* store_if_in_range: _store_raw_message, then insert_email_if_new *)

\* A job comes to a message it fetched; its mailbox existed when the job began.
BeginStore(t, m) ==
  /\ pc[t] = "idle"
  /\ msg' = [msg EXCEPT ![t] = m]
  /\ Go(t, "exists")
  /\ UNCHANGED <<tables, file, rules, passing, stale, used>>

\* Mutant: the file is taken to be there.
FileExists_Trusted(t) ==
  /\ pc[t] = "exists"
  /\ Go(t, "insert")
  /\ UNCHANGED <<tables, file, rules, msg, passing, stale, used>>

\* if not full_path.exists().
FileExists(t) ==
  /\ pc[t] = "exists"
  /\ Go(t, IF file[msg[t].content] = "absent" THEN "open" ELSE "insert")
  /\ UNCHANGED <<tables, file, rules, msg, passing, stale, used>>

\* write_bytes opens the file, which empties it if another thread wrote it meanwhile.
OpenFile(t) ==
  /\ pc[t] = "open"
  /\ file' = [file EXCEPT ![msg[t].content] = "partial"]
  /\ Go(t, "write")
  /\ UNCHANGED <<tables, rules, msg, passing, stale, used>>

\* ... and fills it.  Another thread that opened it under way may have cut off
\* what was written; a file removed under way stays removed.
WriteFile(t) ==
  /\ pc[t] = "write"
  /\ \E left \in {"partial", "whole"} :
       /\ left = "partial" =>
            \E u \in Thread \ {t} : pc[u] = "write" /\ msg[u].content = msg[t].content
       /\ file' = [file EXCEPT ![msg[t].content] = IF @ = "absent" THEN @ ELSE left]
  /\ Go(t, "insert")
  /\ UNCHANGED <<tables, rules, msg, passing, stale, used>>

\* The INSERT: nothing if the IMAP identity is there already, refused by the
\* foreign key if the mailbox is gone.
InsertEmail(t) ==
  /\ pc[t] = "insert"
  /\ LET m == msg[t]
         known == \E row \in emails : row.account = m.account /\ row.uid = m.uid
     IN IF m.account \notin accounts \/ known
        THEN UNCHANGED emails
        ELSE \E i \in NextRowId(emails) :
               emails' = emails \cup {[id |-> i, account |-> m.account,
                                       uid |-> m.uid, content |-> m.content]}
  /\ EndStore(t)
  /\ UNCHANGED <<accounts, analyses, file, rules, passing, stale, used>>

\* The disk is full or the database locked: the exception fails the job, and the
\* file stays as it is.
StoreFails(t) ==
  /\ pc[t] \in {"open", "write", "insert"}
  /\ Spend("failure")
  /\ EndStore(t)
  /\ UNCHANGED <<tables, file, rules, passing, stale>>

-----------------------------------------------------------------------------
(* analyze_pending, reanalyze_stale: _run *)

BeginPass(t, k) ==
  /\ pc[t] = "idle"
  /\ Spend("pass")
  /\ kind' = [kind EXCEPT ![t] = k]
  /\ after' = [after EXCEPT ![t] = 0]
  /\ owed' = [owed EXCEPT ![t] = {row.id : row \in {r \in emails : Due(k, r)}}]
  /\ Go(t, "select")
  /\ UNCHANGED <<tables, file, rules, msg, batch, stale>>

\* The SELECT of the next batch; after_id, which only the next one reads, is set here.
SelectBatch(t) ==
  /\ pc[t] = "select"
  /\ \E rows \in SUBSET Rest(t) :
       /\ rows # {}
       /\ \A row \in rows, other \in Rest(t) \ rows : row.id < other.id
       /\ Cardinality(rows) <= BatchSize
       /\ rows = Rest(t) \/ Cardinality(rows) = BatchSize
       /\ after' = [after EXCEPT ![t] = Cursor(t, rows)]
       /\ NextRow(t, rows)
  /\ UNCHANGED <<tables, file, rules, msg, kind, owed, stale, used>>

\* The SELECT returns nothing.
PassDone(t) ==
  /\ pc[t] = "select" /\ Rest(t) = {}
  /\ EndPass(t)
  /\ UNCHANGED <<tables, file, rules, msg, stale, used>>

First(t) == CHOOSE row \in batch[t] : \A other \in batch[t] : row.id <= other.id

\* path.read_bytes(): a row whose file cannot be read is skipped.
ReadFile(t) ==
  /\ pc[t] = "read"
  /\ IF file[First(t).content] = "absent"
     THEN /\ NextRow(t, batch[t] \ {First(t)})
          /\ owed' = [owed EXCEPT ![t] = @ \ {First(t).id}]
     ELSE /\ Go(t, "save")
          /\ UNCHANGED <<batch, owed>>
  /\ UNCHANGED <<tables, file, rules, msg, kind, after, stale, used>>

\* record_assessment: the analysis is inserted, or replaces the email's old one.
SaveAnalysis(t) ==
  /\ pc[t] = "save"
  /\ \E row \in emails : row.id = First(t).id
  /\ analyses' = {a \in analyses : a.email # First(t).id} \cup
                   {[email |-> First(t).id, content |-> First(t).content,
                     rules |-> rules]}
  /\ NextRow(t, batch[t] \ {First(t)})
  /\ UNCHANGED <<accounts, emails, file, rules, msg, kind, after, owed, stale, used>>

\* The email is gone: the foreign key refuses the row, and the pass ends.
SaveRefused(t) ==
  /\ pc[t] = "save"
  /\ \A row \in emails : row.id # First(t).id
  /\ EndPass(t)
  /\ UNCHANGED <<tables, file, rules, msg, stale, used>>

\* A statement of the pass raises; analyze_pending_safely swallows it.
PassFails(t) ==
  /\ pc[t] \in {"select", "save"}
  /\ Spend("failure")
  /\ EndPass(t)
  /\ UNCHANGED <<tables, file, rules, msg, stale>>

-----------------------------------------------------------------------------
(* The rest of the program, and its surroundings *)

CreateAccount(a) ==
  /\ a \notin accounts
  /\ accounts' = accounts \cup {a}
  /\ UNCHANGED <<emails, analyses, file, rules, pc, msg, passing, stale, used>>

Gone(a) == {row.id : row \in {r \in emails : r.account = a}}

\* Who holds rows of mailbox a that it has selected and not finished with?
HeldRows(a) == \E t \in Thread : \E row \in batch[t] : row.account = a

\* Mutant: analyses do not cascade.
DeleteAccount_KeepsAnalyses(a) ==
  /\ a \in accounts
  /\ Spend("delete")
  /\ accounts' = accounts \ {a}
  /\ emails' = {row \in emails : row.account # a}
  /\ owed' = [t \in Thread |-> owed[t] \ Gone(a)]
  /\ stale' = (stale \/ HeldRows(a))
  /\ UNCHANGED <<analyses, file, rules, pc, msg, kind, after, batch>>

\* The mailbox's emails and their analyses cascade; the files stay.
DeleteAccount(a) ==
  /\ a \in accounts
  /\ Spend("delete")
  /\ accounts' = accounts \ {a}
  /\ emails' = {row \in emails : row.account # a}
  /\ analyses' = {r \in analyses : r.email \notin Gone(a)}
  /\ owed' = [t \in Thread |-> owed[t] \ Gone(a)]
  /\ stale' = (stale \/ HeldRows(a))
  /\ UNCHANGED <<file, rules, pc, msg, kind, after, batch>>

\* The process stops and starts again, maybe with changed rules.
Restart ==
  /\ Spend("failure")
  /\ rules' \in {rules, rules + 1}
  /\ pc' = [t \in Thread |-> "idle"]
  /\ msg' = [t \in Thread |-> NoMessage]
  /\ kind' = [t \in Thread |-> "missing"]
  /\ after' = [t \in Thread |-> 0]
  /\ batch' = [t \in Thread |-> {}]
  /\ owed' = [t \in Thread |-> {}]
  /\ UNCHANGED <<tables, file, stale>>

\* Somebody removes a file (deletion of a mailbox leaves them for a cleanup).
LoseFile(c) ==
  /\ file[c] # "absent"
  /\ Spend("lose")
  /\ file' = [file EXCEPT ![c] = "absent"]
  /\ UNCHANGED <<tables, rules, pc, msg, passing, stale>>

-----------------------------------------------------------------------------
(* The specification *)

Init ==
  /\ accounts = Account
  /\ file = [c \in Content |-> "absent"]
  /\ emails = {} /\ analyses = {}
  /\ rules = 1
  /\ pc = [t \in Thread |-> "idle"]
  /\ msg = [t \in Thread |-> NoMessage]
  /\ kind = [t \in Thread |-> "missing"]
  /\ after = [t \in Thread |-> 0]
  /\ batch = [t \in Thread |-> {}]
  /\ owed = [t \in Thread |-> {}]
  /\ stale = FALSE
  /\ used = [e \in Event |-> 0]

StoreStep(t) == FileExists(t) \/ OpenFile(t) \/ WriteFile(t) \/ InsertEmail(t)

PassStep(t) ==
  \/ SelectBatch(t) \/ PassDone(t) \/ ReadFile(t) \/ SaveAnalysis(t) \/ SaveRefused(t)

Next ==
  \/ \E t \in Thread :
       \/ StoreStep(t) \/ PassStep(t) \/ StoreFails(t) \/ PassFails(t)
       \/ \E m \in Message : BeginStore(t, m)
       \/ \E k \in {"missing", "stale"} : BeginPass(t, k)
  \/ \E a \in Account : CreateAccount(a) \/ DeleteAccount(a)
  \/ \E c \in Content : LoseFile(c)
  \/ Restart

Spec == Init /\ [][Next]_vars

\* A pass is a loop that waits for nothing but SQLite, which has a busy timeout,
\* and the disk: the thread that runs it keeps running.
FairSpec == Spec /\ \A t \in Thread : WF_vars(PassStep(t))

-----------------------------------------------------------------------------
(* Properties *)

\* Every variable holds a value of its type; analyses.email_id is UNIQUE and so is
\* the IMAP identity of an email.
TypeOK ==
  /\ accounts \subseteq Account
  /\ file \in [Content -> {"absent", "partial", "whole"}]
  /\ emails \subseteq Email
  /\ \A r, s \in emails : r.id = s.id \/ (r.account = s.account /\ r.uid = s.uid) => r = s
  /\ analyses \subseteq Analysis
  /\ \A a, b \in analyses : a.email = b.email => a = b
  /\ rules \in RowId
  /\ pc \in [Thread -> PC]
  /\ msg \in [Thread -> Message]
  /\ kind \in [Thread -> {"missing", "stale"}]
  /\ after \in [Thread -> Nat]
  /\ batch \in [Thread -> SUBSET Email]
  /\ owed \in [Thread -> SUBSET RowId]
  /\ stale \in BOOLEAN
  /\ used \in [Event -> Nat]

BeingWritten(c) == \E t \in Thread : pc[t] = "write" /\ msg[t].content = c

\* Every stored email can be read back: "a re-fetch of the same message writes
\* the same bytes to the same path" (_store_raw_message), so the file of a row is
\* there and whole, or a thread that saw no file is filling it again.
StoredIsWhole ==
  \A row \in emails : file[row.content] = "whole" \/ BeingWritten(row.content)

\* ... as long as nobody removes files: the file is there whatever stops or
\* fails, and it is whole unless a write was cut short.  Two mailboxes with equal
\* messages, and threads that write one file at once, do not change that.
StoredHasFile ==
  used["lose"] = 0 =>
    /\ \A row \in emails : file[row.content] # "absent"
    /\ used["failure"] = 0 => StoredIsWhole

\* A pass that ends by itself has looked at everything that was due when it began,
\* however rows came and went under it: what is not scored then could not be read.
EndedPassIsComplete ==
  \A t \in Thread : pc[t] = "select" /\ Rest(t) = {} =>
    \A row \in emails : row.id \in owed[t] => ~Due(kind[t], row)

\* A score is that of the message it stands beside, though row ids are used again:
\* unless a mailbox was deleted under a pass that held its rows.
ScoreIsOfItsEmail ==
  ~stale => \A a \in analyses : \E row \in emails :
              row.id = a.email /\ row.content = a.content

\* Every pass ends, also over rows whose file cannot be read: "skipped once
\* instead of being retried forever" (worker/analysis.py).
PassEnds == \A t \in Thread : (pc[t] \in PassPC) ~> (pc[t] = "idle")
=============================================================================
