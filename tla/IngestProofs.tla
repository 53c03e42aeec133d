---------------------------- MODULE IngestProofs ----------------------------
(***************************************************************************)
(* Proofs about Ingest and FetchPage, for any number of tabs, threads,      *)
(* mailboxes, days and events.  First the jobs: who holds them, and their   *)
(* life cycle.  Then the vault: what a checkpoint and a covered day         *)
(* promise.  Then the Fetch mail page: what it may show, and that one tab   *)
(* starts no fetch beside another.                                          *)
(***************************************************************************)
EXTENDS FetchPage, WellFoundedInduction, TLAPS

-----------------------------------------------------------------------------
(* Helpers *)

LEMMA NoRangeType == NoRange \in Range
PROOF
  <1>1. LastDay \in Nat
    BY ConstantsAssumption
  <1>2. 0 \in Day /\ 1 \in 1 .. LastDay + 1 /\ 0 < 1
    BY <1>1 DEF Day
  <1>3. QED
    BY <1>2 DEF NoRange, Range

LEMMA NoSessionType == NoSession \in Session
PROOF
  <1>1. (CHOOSE b \in Box : TRUE) \in Box
    BY ConstantsAssumption
  <1>2. QED
    BY <1>1 DEF NoSession, Session, RowId

LEMMA NoRequestType == NoRequest \in [account : RowId, range : Range]
PROOF BY NoRangeType DEF NoRequest, RowId

\* The id of a new row is a row id that no row of the table has.
LEMMA NewRowId ==
  ASSUME NEW table, \A row \in table : row.id \in RowId, NEW n \in NextRowId(table)
  PROVE  n \in RowId /\ \A row \in table : row.id # n
PROOF BY DEF NextRowId, RowId

\* What is left of a queue of jobs is a queue of jobs, shifted by one.
LEMMA TailOfQueue ==
  ASSUME NEW q \in Seq(Job), q # <<>>
  PROVE  /\ Head(q) \in Job /\ Head(q) = q[1]
         /\ Tail(q) \in Seq(Job)
         /\ Len(Tail(q)) = Len(q) - 1
         /\ \A k \in 1 .. Len(Tail(q)) : Tail(q)[k] = q[k + 1]
PROOF OBVIOUS

LEMMA SetStatusType ==
  ASSUME jobs \subseteq Job, NEW i, NEW s \in {"pending", "running", "done", "failed"},
         SetStatus(i, s)
  PROVE  jobs' \subseteq Job
PROOF BY DEF SetStatus, Job

LEMMA SpendType ==
  ASSUME used \in [Event -> Nat], NEW e \in Event, Spend(e)
  PROVE  used' \in [Event -> Nat]
PROOF
  <1>1. used[e] + 1 \in Nat
    OBVIOUS
  <1>2. QED
    BY <1>1 DEF Spend

LEMMA EventsType ==
  {"request", "deliver", "expunge", "reset", "delete", "crash", "retry",
   "imapError", "dbError"} \subseteq Event
PROOF BY DEF Event

-----------------------------------------------------------------------------
(* Types *)

\* TypeOK, and a thread that runs a job has it at the head of its queue.
RunPC == {"load", "search", "fetch", "store", "fail", "merge", "cover", "done"}

Typed ==
  /\ TypeOK
  /\ \A t \in Thread : pc[t] \in RunPC => queue[t] # <<>>

LEMMA InitTyped == Init => Typed
PROOF
  <1> SUFFICES ASSUME Init PROVE Typed
    OBVIOUS
  <1>1. 0 \in Day
    BY ConstantsAssumption DEF Day
  <1>2. QED
    BY <1>1, NoSessionType, NoRequestType
       DEF Init, NothingToDo, Typed, TypeOK, PC, RunPC, RowId

\* The steps that leave the locals of a thread behind.
LEMMA AbandonTyped ==
  ASSUME Typed, NEW t \in Thread, Abandon(t)
  PROVE  /\ pc' \in [Thread -> PC]
         /\ want' \in [Thread -> [account : RowId, range : Range]]
         /\ gaps' \in [Thread -> SUBSET Range]
         /\ made' \in [Thread -> RowId]
         /\ queue' \in [Thread -> Seq(Job)]
         /\ sess' \in [Thread -> Session]
         /\ seen' \in [Thread -> SUBSET Day]
         /\ raced' \in [Thread -> BOOLEAN]
         /\ \A u \in Thread : pc'[u] \in RunPC => queue'[u] # <<>>
PROOF BY NoSessionType, NoRequestType
      DEF Typed, TypeOK, Abandon, DropRequest, DropRun, Go, PC, RunPC, RowId

LEMMA NextTaskTyped ==
  ASSUME Typed, NEW t \in Thread, pc[t] \in RunPC, NextTask(t)
  PROVE  /\ pc' \in [Thread -> PC]
         /\ queue' \in [Thread -> Seq(Job)]
         /\ sess' \in [Thread -> Session]
         /\ seen' \in [Thread -> SUBSET Day]
         /\ raced' \in [Thread -> BOOLEAN]
         /\ UNCHANGED <<want, gaps, made>>
         /\ \A u \in Thread : pc'[u] \in RunPC => queue'[u] # <<>>
PROOF
  <1>1. Tail(queue[t]) \in Seq(Job)
    BY TailOfQueue DEF Typed, TypeOK
  <1>2. QED
    BY <1>1, NoSessionType DEF Typed, TypeOK, NextTask, DropRun, Go, PC, RunPC

LEMMA RequestTyped ==
  ASSUME Typed, NEW t \in Thread, NEW acc \in accounts, NEW r \in Range, Request(t, acc.id, r)
  PROVE  Typed'
PROOF
  <1>1. acc.id \in RowId
    BY DEF Typed, TypeOK, Account
  <1>2. QED
    <2>1. used' \in [Event -> Nat]
      BY SpendType, EventsType DEF Typed, TypeOK, Request
    <2>2. want' \in [Thread -> [account : RowId, range : Range]]
      BY <1>1 DEF Typed, TypeOK, Request
    <2>3. QED
      BY <2>1, <2>2 DEF Typed, TypeOK, Request, Go, PC, RunPC, server, tables

LEMMA ReadGapsTyped == ASSUME Typed, NEW t \in Thread, ReadGaps(t) PROVE Typed'
PROOF
  <1>1. GapsOf(want[t].range, CoveredDays(want[t].account)) \subseteq Range
    BY DEF GapsOf
  <1>2. QED
    BY <1>1 DEF Typed, TypeOK, ReadGaps, Go, PC, RunPC, server, tables

LEMMA CreateJobTyped == ASSUME Typed, NEW t \in Thread, CreateJob(t) PROVE Typed'
PROOF
  <1> USE DEF Typed, TypeOK
  <1>1. PICK g \in gaps[t], i \in NextRowId(jobs) :
          /\ gaps' = [gaps EXCEPT ![t] = @ \ {g}]
          /\ made' = [made EXCEPT ![t] = i]
          /\ jobs' = jobs \cup {[id |-> i, account |-> want[t].account, range |-> g,
                                 status |-> "pending", checkpoint |-> 0]}
    BY DEF CreateJob
  <1>2. i \in RowId
    BY NewRowId DEF Job
  <1>3. [id |-> i, account |-> want[t].account, range |-> g,
         status |-> "pending", checkpoint |-> 0] \in Job
    BY <1>2 DEF Job
  <1>4. jobs' \subseteq Job
    BY <1>1, <1>3
  <1>5. /\ gaps' \in [Thread -> SUBSET Range]
        /\ made' \in [Thread -> RowId]
    BY <1>1, <1>2
  <1>6. QED
    BY <1>4, <1>5 DEF CreateJob, Go, PC, RunPC, server

LEMMA ClaimJobTyped == ASSUME Typed, NEW t \in Thread, ClaimJob(t) PROVE Typed'
PROOF
  <1> USE DEF Typed, TypeOK
  <1>1. jobs' \subseteq Job /\ queue' \in [Thread -> Seq(Job)]
    <2>1. CASE UNCHANGED <<jobs, queue>>
      BY <2>1
    <2>2. ASSUME NEW j \in jobs, SetStatus(j.id, "running"),
                 queue' = [queue EXCEPT ![t] = Append(@, [j EXCEPT !.status = "running"])]
          PROVE  jobs' \subseteq Job /\ queue' \in [Thread -> Seq(Job)]
      <3>1. [j EXCEPT !.status = "running"] \in Job
        BY DEF Job
      <3>2. Append(queue[t], [j EXCEPT !.status = "running"]) \in Seq(Job)
        BY <3>1
      <3>3. QED
        BY <2>2, <3>2, SetStatusType
    <2>3. QED
      BY <2>1, <2>2 DEF ClaimJob
  <1>2. pc' \in [Thread -> PC] /\ pc' = [pc EXCEPT ![t] = "create"]
    BY DEF ClaimJob, Go, PC
  <1>3. \A u \in Thread : u # t => queue'[u] = queue[u]
    BY DEF ClaimJob
  <1>4. \A u \in Thread : pc'[u] \in RunPC => queue'[u] # <<>>
    BY <1>2, <1>3 DEF RunPC
  <1>5. QED
    BY <1>1, <1>2, <1>4 DEF ClaimJob, server

LEMMA RespondTyped == ASSUME Typed, NEW t \in Thread, Respond(t) PROVE Typed'
PROOF BY NoRequestType DEF Typed, TypeOK, Respond, Go, DropRequest, PC, RunPC, server, tables, RowId

LEMMA ClaimNextJobTyped == ASSUME Typed, NEW t \in Thread, ClaimNextJob(t) PROVE Typed'
PROOF
  <1> USE DEF Typed, TypeOK
  <1>1. PICK j \in jobs :
          /\ SetStatus(j.id, "running")
          /\ queue' = [queue EXCEPT ![t] = <<[j EXCEPT !.status = "running"]>>]
    BY DEF ClaimNextJob
  <1>2. [j EXCEPT !.status = "running"] \in Job
    BY DEF Job
  <1>3. jobs' \subseteq Job
    BY <1>1, SetStatusType
  <1>4. <<[j EXCEPT !.status = "running"]>> \in Seq(Job)
    BY <1>2
  <1>5. queue' \in [Thread -> Seq(Job)]
    BY <1>1, <1>4
  <1>6. \A u \in Thread : pc'[u] \in RunPC => queue'[u] # <<>>
    BY <1>1 DEF ClaimNextJob, Go, RunPC
  <1>7. QED
    BY <1>3, <1>5, <1>6 DEF ClaimNextJob, Go, PC, server

LEMMA LoadAccountTyped == ASSUME Typed, NEW t \in Thread, LoadAccount(t) PROVE Typed'
PROOF
  <1> USE DEF Typed, TypeOK
  <1>1. queue[t] # <<>>
    BY DEF LoadAccount, RunPC
  <1>2. sess' \in [Thread -> Session]
    <2>1. CASE UNCHANGED sess
      BY <2>1
    <2>2. ASSUME NEW acc \in accounts, sess' = [sess EXCEPT ![t].box = acc.box]
          PROVE  sess' \in [Thread -> Session]
      <3>1. acc.box \in Box /\ sess[t] \in Session
        BY DEF Account
      <3>2. [sess[t] EXCEPT !.box = acc.box] \in Session
        BY <3>1 DEF Session
      <3>3. QED
        BY <2>2, <3>2
    <2>3. QED
      BY <2>1, <2>2 DEF LoadAccount
  <1>3. pc' \in [Thread -> PC] /\ \A u \in Thread : pc'[u] \in RunPC => queue'[u] # <<>>
    BY <1>1 DEF LoadAccount, Go, PC, RunPC
  <1>4. QED
    BY <1>2, <1>3 DEF LoadAccount, server, tables

LEMMA SearchTyped == ASSUME Typed, NEW t \in Thread, Search(t) PROVE Typed'
PROOF
  <1> USE DEF Typed, TypeOK
  <1> DEFINE box  == sess[t].box
             todo == {m.uid : m \in {n \in mail[box] :
                                       /\ n.day \in Widened(Task(t).range)
                                       /\ n.uid > Task(t).checkpoint}}
  <1>1. queue[t] # <<>>
    BY DEF Search, RunPC
  <1>2. box \in Box
    BY DEF Session
  <1>3. todo \in SUBSET RowId
    BY <1>2 DEF Message
  <1>4. /\ sess' = [sess EXCEPT ![t].epoch = epoch[box], ![t].todo = todo]
        /\ NextBatch(t, todo)
    BY DEF Search
  <1> HIDE DEF todo
  <1>5. sess' \in [Thread -> Session]
    <2>1. sess[t] \in Session /\ epoch[box] \in RowId
      BY <1>2
    <2>2. [sess[t] EXCEPT !.epoch = epoch[box], !.todo = todo] \in Session
      BY <1>3, <2>1 DEF Session
    <2>3. QED
      BY <1>4, <2>2
  <1>6. pc' \in [Thread -> PC] /\ \A u \in Thread : pc'[u] \in RunPC => queue'[u] # <<>>
    BY <1>1, <1>4 DEF Search, NextBatch, Go, PC, RunPC
  <1>7. QED
    BY <1>5, <1>6 DEF Search, server, tables

LEMMA FetchTyped == ASSUME Typed, NEW t \in Thread, Fetch(t) PROVE Typed'
PROOF
  <1> USE DEF Typed, TypeOK
  <1>1. queue[t] # <<>>
    BY DEF Fetch, RunPC
  <1>2. PICK batch \in SUBSET sess[t].todo :
          sess' = [sess EXCEPT
                     ![t].todo  = @ \ batch,
                     ![t].batch = batch,
                     ![t].got   = {m \in mail[sess[t].box] : m.uid \in batch}]
    BY DEF Fetch
  <1>3. sess' \in [Thread -> Session]
    <2> DEFINE got == {m \in mail[sess[t].box] : m.uid \in batch}
    <2>1. sess[t] \in Session
      OBVIOUS
    <2>2. sess[t].todo \ batch \in SUBSET RowId /\ batch \in SUBSET RowId
      BY <2>1 DEF Session
    <2>3. got \in SUBSET Message
      BY <2>1 DEF Session
    <2> HIDE DEF got
    <2>4. [sess[t] EXCEPT !.todo = @ \ batch, !.batch = batch, !.got = got] \in Session
      BY <2>1, <2>2, <2>3 DEF Session
    <2>5. sess' = [sess EXCEPT ![t] = [sess[t] EXCEPT !.todo = @ \ batch, !.batch = batch,
                                                      !.got = got]]
      BY <1>2 DEF got
    <2>6. QED
      BY <2>4, <2>5
  <1>4. pc' \in [Thread -> PC] /\ \A u \in Thread : pc'[u] \in RunPC => queue'[u] # <<>>
    BY <1>1 DEF Fetch, Go, PC, RunPC
  <1>5. QED
    BY <1>3, <1>4 DEF Fetch, server, tables

LEMMA StoreTyped == ASSUME Typed, NEW t \in Thread, Store(t) PROVE Typed'
PROOF
  <1> USE DEF Typed, TypeOK
  <1>1. queue[t] # <<>>
    BY DEF Store, RunPC
  <1>2. Task(t) \in Job
    BY <1>1, TailOfQueue DEF Task
  <1>3. PICK m \in sess[t].got :
          /\ emails' = IF m.day \in Days(Task(t).range) /\ ~KeyTaken(Task(t).account, sess[t].epoch, m)
                       THEN emails \cup {[account |-> Task(t).account, epoch |-> sess[t].epoch,
                                          uid |-> m.uid, msg |-> m.msg, day |-> m.day]}
                       ELSE emails
          /\ sess' = [sess EXCEPT ![t].got = @ \ {m}]
    BY DEF Store
  <1>4. m \in Message /\ sess[t].epoch \in RowId /\ Task(t).account \in RowId
    BY <1>2 DEF Session, Job
  <1>5. emails' \subseteq Email
    BY <1>3, <1>4 DEF Email, Message
  <1>6. sess' \in [Thread -> Session]
    BY <1>3 DEF Session
  <1>7. QED
    BY <1>5, <1>6 DEF Store, server

LEMMA CheckpointTyped == ASSUME Typed, NEW t \in Thread, Checkpoint(t) PROVE Typed'
PROOF
  <1> USE DEF Typed, TypeOK
  <1>1. queue[t] # <<>>
    BY DEF Checkpoint, RunPC
  <1>2. PICK last \in sess[t].batch :
          jobs' = {IF j.id = Task(t).id THEN [j EXCEPT !.checkpoint = last] ELSE j : j \in jobs}
    BY DEF Checkpoint
  <1>3. last \in Nat
    BY DEF Session, RowId
  <1>4. jobs' \subseteq Job
    <2>1. ASSUME NEW j \in jobs PROVE [j EXCEPT !.checkpoint = last] \in Job
      <3>1. j \in Job
        OBVIOUS
      <3>2. QED
        BY <1>3, <3>1 DEF Job
    <2>2. QED
      BY <1>2, <2>1
  <1>5. pc' \in [Thread -> PC] /\ \A u \in Thread : pc'[u] \in RunPC => queue'[u] # <<>>
    BY <1>1 DEF Checkpoint, NextBatch, Go, PC, RunPC, local
  <1>6. QED
    BY <1>4, <1>5 DEF Checkpoint, server, local

LEMMA ReadCoverageTyped == ASSUME Typed, NEW t \in Thread, ReadCoverage(t) PROVE Typed'
PROOF
  <1>1. CoveredDays(Task(t).account) \subseteq Day
    BY DEF CoveredDays
  <1>2. QED
    BY <1>1 DEF Typed, TypeOK, ReadCoverage, Go, PC, RunPC, server, tables

LEMMA WriteCoverageTyped == ASSUME Typed, NEW t \in Thread, WriteCoverage(t) PROVE Typed'
PROOF
  <1> USE DEF Typed, TypeOK
  <1>1. queue[t] # <<>>
    BY DEF WriteCoverage, RunPC
  <1>2. Task(t).account \in RowId
    BY <1>1, TailOfQueue DEF Task, Job
  <1>3. covered' \subseteq RowId \X Day
    <2>1. PICK kept \in SUBSET (({Task(t).account} \X seen[t]) \cup covered) :
            covered' = kept \cup ({Task(t).account} \X Days(Task(t).range))
      BY DEF WriteCoverage
    <2>2. seen[t] \subseteq Day /\ Days(Task(t).range) \subseteq Day
      BY DEF Days
    <2>3. QED
      BY <1>2, <2>1, <2>2
  <1>4. raced' \in [Thread -> BOOLEAN]
    BY DEF WriteCoverage, RacedWith
  <1>5. pc' \in [Thread -> PC] /\ \A u \in Thread : pc'[u] \in RunPC => queue'[u] # <<>>
    BY <1>1 DEF WriteCoverage, Go, PC, RunPC
  <1>6. seen' \in [Thread -> SUBSET Day]
    BY DEF WriteCoverage
  <1>7. QED
    BY <1>3, <1>4, <1>5, <1>6 DEF WriteCoverage, server

LEMMA MarkTyped == ASSUME Typed, NEW t \in Thread, MarkDone(t) \/ MarkFailed(t) PROVE Typed'
PROOF
  <1>1. pc[t] \in RunPC /\ NextTask(t) /\ UNCHANGED <<server, accounts, covered, emails, up, used>>
    BY DEF MarkDone, MarkFailed, RunPC
  <1>2. jobs' \subseteq Job
    BY SetStatusType DEF Typed, TypeOK, MarkDone, MarkFailed
  <1>3. QED
    BY <1>1, <1>2, NextTaskTyped DEF Typed, TypeOK, server

\* A step that only ends the work of a thread.
LEMMA GiveUpTyped ==
  ASSUME Typed, NEW t \in Thread,
         CreateJobRefused(t) \/ WriteCoverageRefused(t) \/ ErrorEscapes(t)
  PROVE  Typed'
PROOF
  <1>1. Abandon(t) /\ UNCHANGED <<server, tables, up>>
    BY DEF CreateJobRefused, WriteCoverageRefused, ErrorEscapes
  <1>2. used' \in [Event -> Nat]
    BY SpendType, EventsType
       DEF Typed, TypeOK, CreateJobRefused, WriteCoverageRefused, ErrorEscapes
  <1>3. QED
    BY <1>1, <1>2, AbandonTyped DEF Typed, TypeOK, server, tables

\* A step that goes on to mark_failed.
LEMMA FailTyped ==
  ASSUME Typed, NEW t \in Thread, SessionLost(t) \/ StoreRefused(t) \/ ErrorCaught(t)
  PROVE  Typed'
PROOF
  <1>1. Go(t, "fail") /\ UNCHANGED <<server, tables, up, local>> /\ queue[t] # <<>>
    BY DEF Typed, SessionLost, StoreRefused, ErrorCaught, RunPC
  <1>2. used' \in [Event -> Nat]
    BY SpendType, EventsType DEF Typed, TypeOK, SessionLost, StoreRefused, ErrorCaught
  <1>3. QED
    BY <1>1, <1>2 DEF Typed, TypeOK, Go, PC, RunPC, server, tables, local

LEMMA AccountsTyped ==
  ASSUME Typed,
         \/ \E b \in Box : CreateAccount(b)
         \/ \E acc \in accounts : DeleteAccount(acc.id)
  PROVE  Typed'
PROOF
  <1>1. ASSUME NEW b \in Box, CreateAccount(b) PROVE Typed'
    <2>1. PICK i \in NextRowId(accounts) : accounts' = accounts \cup {[id |-> i, box |-> b]}
      BY <1>1 DEF CreateAccount
    <2>2. i \in RowId
      BY NewRowId DEF Typed, TypeOK, Account
    <2>3. accounts' \subseteq Account
      BY <2>1, <2>2 DEF Typed, TypeOK, Account
    <2>4. QED
      BY <1>1, <2>3 DEF Typed, TypeOK, CreateAccount, server, local
  <1>2. ASSUME NEW acc \in accounts, DeleteAccount(acc.id) PROVE Typed'
    <2>1. raced' \in [Thread -> BOOLEAN]
      BY <1>2 DEF Typed, TypeOK, DeleteAccount, RacedWith
    <2>2. used' \in [Event -> Nat]
      BY <1>2, SpendType, EventsType DEF Typed, TypeOK, DeleteAccount
    <2>3. QED
      BY <1>2, <2>1, <2>2 DEF Typed, TypeOK, DeleteAccount, server
  <1>3. QED
    BY <1>1, <1>2

LEMMA ProcessTyped ==
  ASSUME Typed, Crash \/ Startup \/ \E j \in jobs : RetryJob(j)
  PROVE  Typed'
PROOF
  <1>1. ASSUME Crash PROVE Typed'
    <2>1. used' \in [Event -> Nat]
      BY <1>1, SpendType, EventsType DEF Typed, TypeOK, Crash
    <2>2. /\ want' \in [Thread -> [account : RowId, range : Range]]
          /\ sess' \in [Thread -> Session]
      BY <1>1, NoSessionType, NoRequestType DEF Crash
    <2>3. /\ pc' \in [Thread -> PC] /\ gaps' \in [Thread -> SUBSET Range]
          /\ made' \in [Thread -> RowId] /\ queue' \in [Thread -> Seq(Job)]
          /\ seen' \in [Thread -> SUBSET Day] /\ raced' \in [Thread -> BOOLEAN]
      BY <1>1 DEF Crash, PC, RowId
    <2>4. \A u \in Thread : pc'[u] \notin RunPC
      BY <1>1 DEF Crash, RunPC
    <2>5. up' \in BOOLEAN /\ UNCHANGED <<server, tables>>
      BY <1>1 DEF Crash
    <2>6. QED
      BY <2>1, <2>2, <2>3, <2>4, <2>5 DEF Typed, TypeOK, server, tables
  <1>2. ASSUME Startup PROVE Typed'
    <2>1. jobs' \subseteq Job
      BY <1>2 DEF Typed, TypeOK, Startup, Job
    <2>2. QED
      BY <1>2, <2>1 DEF Typed, TypeOK, Startup, server, local
  <1>3. ASSUME NEW j \in jobs, RetryJob(j) PROVE Typed'
    <2>1. jobs' \subseteq Job
      BY <1>3, SetStatusType DEF Typed, TypeOK, RetryJob
    <2>2. used' \in [Event -> Nat]
      BY <1>3, SpendType, EventsType DEF Typed, TypeOK, RetryJob
    <2>3. QED
      BY <1>3, <2>1, <2>2 DEF Typed, TypeOK, RetryJob, server, local
  <1>4. QED
    BY <1>1, <1>2, <1>3

LEMMA ServerTyped ==
  ASSUME Typed,
         NextDay \/ \E b \in Box : Deliver(b) \/ Expunge(b) \/ ResetUidValidity(b)
  PROVE  Typed'
PROOF
  <1> USE DEF Typed, TypeOK
  <1>0. LastDay \in Nat
    BY ConstantsAssumption
  <1>1. ASSUME NextDay PROVE Typed'
    <2>1. today' \in Day
      BY <1>0, <1>1 DEF NextDay, Day
    <2>2. QED
      BY <1>1, <2>1 DEF NextDay, tables, local
  <1>2. ASSUME NEW b \in Box, Deliver(b) PROVE Typed'
    <2>1. used["deliver"] \in Nat
      BY DEF Event
    <2>2. [msg |-> used["deliver"] + 1, uid |-> uidNext[b], day |-> today] \in Message
      BY <2>1 DEF Message, RowId
    <2>3. mail' \in [Box -> SUBSET Message] /\ uidNext' \in [Box -> RowId]
      BY <1>2, <2>2 DEF Deliver, RowId
    <2>4. used' \in [Event -> Nat]
      BY <1>2, SpendType, EventsType DEF Deliver
    <2>5. QED
      BY <1>2, <2>3, <2>4 DEF Deliver, tables, local
  <1>3. ASSUME NEW b \in Box, Expunge(b) PROVE Typed'
    <2>1. mail' \in [Box -> SUBSET Message]
      BY <1>3 DEF Expunge
    <2>2. used' \in [Event -> Nat]
      BY <1>3, SpendType, EventsType DEF Expunge
    <2>3. QED
      BY <1>3, <2>1, <2>2 DEF Expunge, tables, local
  <1>4. ASSUME NEW b \in Box, ResetUidValidity(b) PROVE Typed'
    <2>1. used["deliver"] \in Nat
      BY DEF Event
    <2>2. PICK f \in [mail[b] -> 1 .. used["deliver"]] :
            mail' = [mail EXCEPT ![b] = {[m EXCEPT !.uid = f[m]] : m \in mail[b]}]
      BY <1>4 DEF ResetUidValidity
    <2>3. ASSUME NEW m \in mail[b] PROVE [m EXCEPT !.uid = f[m]] \in Message
      <3>1. f[m] \in RowId
        BY <2>1 DEF RowId
      <3>2. m \in Message
        OBVIOUS
      <3>3. QED
        BY <3>1, <3>2 DEF Message
    <2>4. mail' \in [Box -> SUBSET Message]
      BY <2>2, <2>3
    <2>5. epoch' \in [Box -> RowId] /\ uidNext' \in [Box -> RowId]
      BY <1>4, <2>1 DEF ResetUidValidity, RowId
    <2>6. used' \in [Event -> Nat]
      BY <1>4, SpendType, EventsType DEF ResetUidValidity
    <2>7. QED
      BY <1>4, <2>4, <2>5, <2>6 DEF ResetUidValidity, tables, local
  <1>5. QED
    BY <1>1, <1>2, <1>3, <1>4

LEMMA NextTyped == Typed /\ [Next]_vars => Typed'
PROOF
  <1> SUFFICES ASSUME Typed, [Next]_vars PROVE Typed'
    OBVIOUS
  <1>1. CASE UNCHANGED vars
    BY <1>1 DEF vars, server, tables, local, Typed, TypeOK
  <1>2. ASSUME NEW t \in Thread, Step(t) PROVE Typed'
    BY <1>2, ReadGapsTyped, CreateJobTyped, ClaimJobTyped, RespondTyped, LoadAccountTyped,
       SearchTyped, FetchTyped, StoreTyped, CheckpointTyped, ReadCoverageTyped,
       WriteCoverageTyped, MarkTyped, GiveUpTyped, FailTyped
       DEF Step
  <1>3. QED
    BY <1>1, <1>2, RequestTyped, ClaimNextJobTyped, FailTyped, GiveUpTyped,
       AccountsTyped, ProcessTyped, ServerTyped
       DEF Next

\* Every variable keeps its type, however threads, crashes, failures, retries and
\* the mail server interleave; in particular a session only ever holds UIDs and
\* messages of a folder, and the queue of a thread only jobs it claimed.
THEOREM TypeCorrect == Spec => []TypeOK
PROOF
  <1>1. Typed => TypeOK
    BY DEF Typed
  <1>2. QED
    BY InitTyped, NextTyped, <1>1, PTL DEF Spec

-----------------------------------------------------------------------------
(* Rows and their accounts *)

\* An update of jobs that keeps the account of every row.
LEMMA SetStatusKeeps ==
  ASSUME jobs \subseteq Job, NEW i, NEW s, SetStatus(i, s)
  PROVE  \A k \in jobs' : \E j \in jobs : k.account = j.account
PROOF BY DEF SetStatus, Job

LEMMA RowsInit == Init => RowsHaveAccount
PROOF BY DEF Init, NothingToDo, RowsHaveAccount

LEMMA RowsNext == Typed /\ RowsHaveAccount /\ [Next]_vars => RowsHaveAccount'
PROOF
  <1> SUFFICES ASSUME Typed, RowsHaveAccount, [Next]_vars PROVE RowsHaveAccount'
    OBVIOUS
  <1>0. jobs \subseteq Job /\ covered \subseteq RowId \X Day
    BY DEF Typed, TypeOK
  \* Rows stay, and accounts stay or grow.
  <1>1. ASSUME \A k \in jobs' : \E j \in jobs : k.account = j.account,
               covered' = covered, emails' = emails, accounts \subseteq accounts'
        PROVE  RowsHaveAccount'
    BY <1>1 DEF RowsHaveAccount, AccountExists
  <1>2. ASSUME NEW t \in Thread, CreateJob(t) PROVE RowsHaveAccount'
    <2>1. PICK g, i :
            jobs' = jobs \cup {[id |-> i, account |-> want[t].account, range |-> g,
                                status |-> "pending", checkpoint |-> 0]}
      BY <1>2 DEF CreateJob
    <2>2. AccountExists(want[t].account) /\ UNCHANGED <<accounts, covered, emails>>
      BY <1>2 DEF CreateJob
    <2>3. QED
      BY <2>1, <2>2 DEF RowsHaveAccount, AccountExists
  <1>3. ASSUME NEW t \in Thread, Store(t) PROVE RowsHaveAccount'
    <2>1. UNCHANGED <<accounts, jobs, covered>>
      BY <1>3 DEF Store
    <2>2. \A row \in emails' : row \in emails \/ AccountExists(row.account)
      BY <1>3 DEF Store
    <2>3. QED
      BY <2>1, <2>2 DEF RowsHaveAccount, AccountExists
  <1>4. ASSUME NEW t \in Thread, WriteCoverage(t) PROVE RowsHaveAccount'
    <2>1. UNCHANGED <<accounts, jobs, emails>> /\ AccountExists(Task(t).account)
      BY <1>4 DEF WriteCoverage
    <2>2. \A p \in covered' : p \in covered \/ p[1] = Task(t).account
      BY <1>4 DEF WriteCoverage
    <2>3. QED
      BY <2>1, <2>2 DEF RowsHaveAccount, AccountExists
  <1>5. ASSUME NEW t \in Thread, ClaimJob(t) \/ ClaimNextJob(t) \/ MarkDone(t) \/ MarkFailed(t)
        PROVE  RowsHaveAccount'
    <2>1. UNCHANGED <<accounts, covered, emails>>
      BY <1>5 DEF ClaimJob, ClaimNextJob, MarkDone, MarkFailed
    <2>2. jobs' = jobs \/ \E i, s : SetStatus(i, s)
      BY <1>5 DEF ClaimJob, ClaimNextJob, MarkDone, MarkFailed
    <2>3. QED
      BY <1>0, <1>1, <2>1, <2>2, SetStatusKeeps
  <1>6. ASSUME NEW t \in Thread, Checkpoint(t) PROVE RowsHaveAccount'
    <2>1. PICK last : jobs' = {IF j.id = Task(t).id THEN [j EXCEPT !.checkpoint = last] ELSE j :
                               j \in jobs}
      BY <1>6 DEF Checkpoint
    <2>2. \A k \in jobs' : \E j \in jobs : k.account = j.account
      BY <1>0, <2>1 DEF Job
    <2>3. QED
      BY <1>1, <1>6, <2>2 DEF Checkpoint
  <1>7. ASSUME NEW acc \in accounts, DeleteAccount(acc.id) PROVE RowsHaveAccount'
    BY <1>0, <1>7 DEF DeleteAccount, RowsHaveAccount, AccountExists
  <1>8. ASSUME NEW j \in jobs, RetryJob(j) PROVE RowsHaveAccount'
    BY <1>0, <1>1, <1>8, SetStatusKeeps DEF RetryJob
  <1>9. ASSUME Startup PROVE RowsHaveAccount'
    <2>1. \A k \in jobs' : \E j \in jobs : k.account = j.account
      BY <1>0, <1>9 DEF Startup, Job
    <2>2. QED
      BY <1>1, <1>9, <2>1 DEF Startup
  \* The other steps leave the tables alone, or add an account.
  <1>10. ASSUME jobs' = jobs, covered' = covered, emails' = emails, accounts \subseteq accounts'
         PROVE  RowsHaveAccount'
    BY <1>1, <1>10
  <1>11. ASSUME NEW t \in Thread, Step(t) PROVE RowsHaveAccount'
    BY <1>2, <1>3, <1>4, <1>5, <1>6, <1>10, <1>11
       DEF Step, ReadGaps, CreateJobRefused, Respond, LoadAccount, Search, Fetch,
           SessionLost, StoreRefused, ReadCoverage, WriteCoverageRefused, tables
  <1>12. QED
    BY <1>5, <1>7, <1>8, <1>9, <1>10, <1>11
       DEF Next, Request, ErrorCaught, ErrorEscapes, CreateAccount, Deliver, Expunge,
           ResetUidValidity, Crash, NextDay, vars, tables

\* No job, coverage or email row is ever left without its account: what a thread
\* was fetching when the mailbox was deleted does not stay behind in the vault
\* (ON DELETE CASCADE, core/models.py).
THEOREM NoRowOutlivesItsAccount == Spec => []RowsHaveAccount
PROOF BY InitTyped, NextTyped, RowsInit, RowsNext, PTL DEF Spec

-----------------------------------------------------------------------------
(* Who holds a running job *)

\* Row ids are unique.
Ids == \A j, k \in jobs : j.id = k.id => j = k

\* Nothing is queued where nothing runs.
Quiet ==
  /\ \A t \in Thread : pc[t] \in {"idle", "gaps"} => queue[t] = <<>>
  /\ ~up => \A t \in Thread : pc[t] = "idle"

\* JobHeldOnce, and a queued job is of the account its row is of.
Held ==
  OnlyFailedRetried /\ used["delete"] = 0 =>
    /\ \A t \in Thread : \A k \in 1 .. Len(queue[t]) :
         \E j \in jobs : /\ j.id = queue[t][k].id /\ j.status = "running"
                         /\ j.account = queue[t][k].account
    /\ \A t, u \in Thread : \A k \in 1 .. Len(queue[t]), l \in 1 .. Len(queue[u]) :
         queue[t][k].id = queue[u][l].id => t = u /\ k = l

\* The account of a request that is being served exists.
Wanted ==
  used["delete"] = 0 =>
    \A t \in Thread : pc[t] \in {"gaps", "create", "claim"} => AccountExists(want[t].account)

HeldInv == Typed /\ RowsHaveAccount /\ Ids /\ Quiet /\ Held /\ Wanted /\ NoOrphanRunning

\* The counters of events never go back to 0.
LEMMA UsedGrows == Typed /\ [Next]_vars => \A e \in Event : used'[e] = 0 => used[e] = 0
PROOF
  <1> SUFFICES ASSUME Typed, [Next]_vars, NEW e \in Event, used'[e] = 0 PROVE used[e] = 0
    OBVIOUS
  <1>0. used \in [Event -> Nat]
    BY DEF Typed, TypeOK
  <1>1. ASSUME NEW d \in Event, Spend(d) PROVE used[e] = 0
    <2>1. used' = [used EXCEPT ![d] = used[d] + 1]
      BY <1>1 DEF Spend
    <2>2. used[e] \in Nat
      BY <1>0
    <2>3. QED
      BY <1>0, <2>1, <2>2
  <1>2. used' = used \/ \E d \in Event : Spend(d)
    <2>1. ASSUME NEW t \in Thread, Step(t) PROVE used' = used
      BY <2>1 DEF Step, ReadGaps, CreateJob, CreateJobRefused, ClaimJob, Respond, LoadAccount,
           Search, Fetch, SessionLost, Store, StoreRefused, Checkpoint, ReadCoverage,
           WriteCoverage, WriteCoverageRefused, MarkDone, MarkFailed
    <2>2. QED
      BY <2>1, EventsType
         DEF Next, Request, ErrorCaught, ErrorEscapes, ClaimNextJob, CreateAccount,
             DeleteAccount, RetryJob, Crash, Startup, Deliver, Expunge, ResetUidValidity,
             NextDay, vars
  <1>3. QED
    BY <1>1, <1>2

\* A spent event has happened.
LEMMA SpentIsUsed ==
  ASSUME Typed, NEW e \in Event, Spend(e) PROVE used'[e] # 0
PROOF
  <1>1. used \in [Event -> Nat] /\ used' = [used EXCEPT ![e] = used[e] + 1]
    BY DEF Typed, TypeOK, Spend
  <1>2. used[e] \in Nat
    BY <1>1
  <1>3. QED
    BY <1>1, <1>2

\* With unique ids an update by id changes one row.
LEMMA SetStatusEffect ==
  ASSUME Ids, jobs \subseteq Job, NEW j \in jobs, NEW s, SetStatus(j.id, s)
  PROVE  jobs' = (jobs \ {j}) \cup {[j EXCEPT !.status = s]}
PROOF
  <1>1. jobs' = {IF k.id = j.id THEN [k EXCEPT !.status = s] ELSE k : k \in jobs}
    BY DEF SetStatus
  <1>2. \A k \in jobs : k.id = j.id <=> k = j
    BY DEF Ids
  <1>3. QED
    BY <1>1, <1>2

\* The steps that touch the jobs, a queue, the process or remove an account.
JobStep ==
  \/ \E t \in Thread :
       \/ CreateJob(t) \/ ClaimJob(t) \/ ClaimNextJob(t) \/ Checkpoint(t)
       \/ MarkDone(t) \/ MarkFailed(t)
       \/ CreateJobRefused(t) \/ WriteCoverageRefused(t) \/ ErrorEscapes(t)
  \/ \E acc \in accounts : DeleteAccount(acc.id)
  \/ \E j \in jobs : RetryJob(j)
  \/ Crash \/ Startup

Elsewhere == UNCHANGED <<jobs, queue, up>> /\ accounts \subseteq accounts'

LEMMA JobStepOrElsewhere == [Next]_vars => JobStep \/ Elsewhere
PROOF
  <1> SUFFICES ASSUME [Next]_vars, ~JobStep PROVE Elsewhere
    OBVIOUS
  <1>1. ASSUME NEW t \in Thread, Step(t) PROVE Elsewhere
    BY <1>1 DEF Step, JobStep, Elsewhere, ReadGaps, Respond, LoadAccount, Search, Fetch,
       SessionLost, Store, StoreRefused, ReadCoverage, WriteCoverage, DropRequest, tables, local
  <1>2. QED
    BY <1>1 DEF JobStep, Elsewhere, Next, Request, ErrorCaught, CreateAccount, Deliver,
       Expunge, ResetUidValidity, NextDay, vars, tables, local

LEMMA IdsNext == Typed /\ Ids /\ [Next]_vars => Ids'
PROOF
  <1> SUFFICES ASSUME Typed, Ids, [Next]_vars PROVE Ids'
    OBVIOUS
  <1>0. jobs \subseteq Job
    BY DEF Typed, TypeOK
  <1>1. ASSUME NEW j \in jobs, NEW s, SetStatus(j.id, s) PROVE Ids'
    BY <1>0, <1>1, SetStatusEffect DEF Ids, Job
  <1>2. ASSUME NEW t \in Thread, CreateJob(t) PROVE Ids'
    <2>1. PICK g \in gaps[t], i \in NextRowId(jobs) :
            jobs' = jobs \cup {[id |-> i, account |-> want[t].account, range |-> g,
                                status |-> "pending", checkpoint |-> 0]}
      BY <1>2 DEF CreateJob
    <2>2. \A j \in jobs : j.id # i
      BY <1>0, NewRowId DEF Job
    <2>3. QED
      BY <2>1, <2>2 DEF Ids
  <1>3. ASSUME NEW t \in Thread, MarkDone(t) \/ MarkFailed(t) PROVE Ids'
    <2>1. PICK s : SetStatus(Task(t).id, s)
      BY <1>3 DEF MarkDone, MarkFailed
    <2>2. CASE \E j \in jobs : j.id = Task(t).id
      BY <1>1, <2>1, <2>2
    <2>3. CASE \A j \in jobs : j.id # Task(t).id
      BY <2>1, <2>3 DEF SetStatus, Ids
    <2>4. QED
      BY <2>2, <2>3
  <1>4. ASSUME NEW t \in Thread, Checkpoint(t) PROVE Ids'
    <2>1. PICK last : jobs' = {IF j.id = Task(t).id THEN [j EXCEPT !.checkpoint = last] ELSE j :
                               j \in jobs}
      BY <1>4 DEF Checkpoint
    <2> DEFINE moved(j) == IF j.id = Task(t).id THEN [j EXCEPT !.checkpoint = last] ELSE j
    <2>2. \A j \in jobs : moved(j).id = j.id
      BY <1>0 DEF Job
    <2>3. jobs' = {moved(j) : j \in jobs}
      BY <2>1
    <2> HIDE DEF moved
    <2>4. QED
      BY <2>2, <2>3 DEF Ids
  <1>5. ASSUME Startup PROVE Ids'
    BY <1>0, <1>5 DEF Startup, Ids, Job
  <1>6. ASSUME NEW acc \in accounts, DeleteAccount(acc.id) PROVE Ids'
    BY <1>6 DEF DeleteAccount, Ids
  <1>7. ASSUME jobs' = jobs PROVE Ids'
    BY <1>7 DEF Ids
  <1>8. CASE JobStep
    BY <1>1, <1>2, <1>3, <1>4, <1>5, <1>6, <1>7, <1>8
       DEF JobStep, ClaimJob, ClaimNextJob, CreateJobRefused, WriteCoverageRefused,
           ErrorEscapes, RetryJob, Crash, tables
  <1>9. QED
    BY <1>7, <1>8, JobStepOrElsewhere DEF Elsewhere

LEMMA QuietNext == Typed /\ Quiet /\ [Next]_vars => Quiet'
PROOF
  <1> SUFFICES ASSUME Typed, Quiet, [Next]_vars PROVE Quiet'
    OBVIOUS
  <1>0. pc \in [Thread -> PC] /\ queue \in [Thread -> Seq(Job)]
    BY DEF Typed, TypeOK
  \* A step of one thread that is not idle, to a place where its queue may be full.
  <1>1. ASSUME NEW t \in Thread, pc[t] # "idle" \/ up, up' = up,
               \E l : l \notin {"idle", "gaps"} /\ pc' = [pc EXCEPT ![t] = l],
               \A u \in Thread : u # t => queue'[u] = queue[u]
        PROVE  Quiet'
    BY <1>0, <1>1 DEF Quiet
  \* A thread becomes idle, or starts to serve a request.
  <1>2. ASSUME NEW t \in Thread, pc[t] # "idle" \/ up, up' = up,
               \E l : pc' = [pc EXCEPT ![t] = l],
               \A u \in Thread : u # t => queue'[u] = queue[u],
               queue'[t] = <<>>
        PROVE  Quiet'
    BY <1>0, <1>2 DEF Quiet
  <1>3. ASSUME pc' = pc, queue' = queue, up' = up PROVE Quiet'
    BY <1>3 DEF Quiet
  <1>4. ASSUME NEW t \in Thread, Abandon(t), pc[t] # "idle", up' = up PROVE Quiet'
    BY <1>0, <1>2, <1>4 DEF Abandon, Go
  <1>5. ASSUME NEW t \in Thread, MarkDone(t) \/ MarkFailed(t) PROVE Quiet'
    <2>1. /\ pc[t] # "idle" /\ up' = up
          /\ queue' = [queue EXCEPT ![t] = Tail(queue[t])]
          /\ pc' = [pc EXCEPT ![t] = IF Tail(queue[t]) = <<>> THEN "idle" ELSE "load"]
      BY <1>5 DEF MarkDone, MarkFailed, NextTask, Go
    <2>2. CASE Tail(queue[t]) = <<>>
      BY <1>0, <1>2, <2>1, <2>2
    <2>3. CASE Tail(queue[t]) # <<>>
      BY <1>0, <1>1, <2>1, <2>3
    <2>4. QED
      BY <2>2, <2>3
  <1>6. ASSUME NEW t \in Thread, Respond(t) PROVE Quiet'
    <2>1. pc[t] # "idle" /\ up' = up /\ queue' = queue
      BY <1>6 DEF Respond
    <2>2. CASE queue[t] = <<>>
      BY <1>2, <1>6, <2>1, <2>2 DEF Respond, Go
    <2>3. CASE queue[t] # <<>>
      BY <1>1, <1>6, <2>1, <2>3 DEF Respond, Go
    <2>4. QED
      BY <2>2, <2>3
  <1>7. ASSUME NEW t \in Thread, ClaimJob(t) \/ ClaimNextJob(t) PROVE Quiet'
    BY <1>0, <1>1, <1>7 DEF ClaimJob, ClaimNextJob, Go
  <1>8. ASSUME NEW t \in Thread,
               ReadGaps(t) \/ CreateJob(t) \/ LoadAccount(t) \/ Search(t) \/ Fetch(t)
               \/ Checkpoint(t) \/ ReadCoverage(t) \/ WriteCoverage(t)
               \/ SessionLost(t) \/ StoreRefused(t) \/ ErrorCaught(t)
        PROVE  Quiet'
    <2>1. queue' = queue /\ up' = up /\ pc[t] # "idle"
      BY <1>8 DEF ReadGaps, CreateJob, LoadAccount, Search, Fetch, Checkpoint, ReadCoverage,
         WriteCoverage, SessionLost, StoreRefused, ErrorCaught, local
    <2>2. \E l : l \notin {"idle", "gaps"} /\ pc' = [pc EXCEPT ![t] = l]
      BY <1>8 DEF ReadGaps, CreateJob, LoadAccount, Search, Fetch, Checkpoint, ReadCoverage,
         WriteCoverage, SessionLost, StoreRefused, ErrorCaught, Go, NextBatch
    <2>3. QED
      BY <1>1, <2>1, <2>2
  <1>9. ASSUME NEW t \in Thread, CreateJobRefused(t) \/ WriteCoverageRefused(t) \/ ErrorEscapes(t)
        PROVE  Quiet'
    BY <1>4, <1>9 DEF CreateJobRefused, WriteCoverageRefused, ErrorEscapes
  <1>10. ASSUME NEW t \in Thread, NEW acc \in accounts, NEW r \in Range, Request(t, acc.id, r)
         PROVE  Quiet'
    <2>1. queue[t] = <<>> /\ queue' = queue /\ up /\ up' = up
      BY <1>10 DEF Request, Quiet
    <2>2. QED
      BY <1>2, <1>10, <2>1 DEF Request, Go
  <1>11. ASSUME NEW t \in Thread, Store(t) PROVE Quiet'
    BY <1>3, <1>11 DEF Store
  <1>12. ASSUME Crash PROVE Quiet'
    BY <1>12 DEF Crash, Quiet
  <1>13. ASSUME Startup PROVE Quiet'
    BY <1>13 DEF Startup, Quiet, local
  <1>14. ASSUME NEW t \in Thread, Step(t) PROVE Quiet'
    BY <1>5, <1>6, <1>7, <1>8, <1>9, <1>11, <1>14 DEF Step
  <1>15. QED
    BY <1>3, <1>7, <1>8, <1>9, <1>10, <1>12, <1>13, <1>14
       DEF Next, CreateAccount, DeleteAccount, RetryJob, Deliver, Expunge, ResetUidValidity,
           NextDay, vars, local

LEMMA WantedNext == Typed /\ Wanted /\ [Next]_vars => Wanted'
PROOF
  <1> SUFFICES ASSUME Typed, Wanted, [Next]_vars, used'["delete"] = 0,
                      NEW u \in Thread, pc'[u] \in {"gaps", "create", "claim"}
               PROVE  AccountExists(want[u].account)'
    BY DEF Wanted
  <1>0. /\ pc \in [Thread -> PC]
        /\ want \in [Thread -> [account : RowId, range : Range]]
        /\ used["delete"] = 0
    BY UsedGrows, EventsType DEF Typed, TypeOK
  <1>1. ASSUME accounts \subseteq accounts', want'[u] = want[u],
               pc[u] \in {"gaps", "create", "claim"}
        PROVE  AccountExists(want[u].account)'
    BY <1>0, <1>1 DEF Wanted, AccountExists
  <1>2. ASSUME NEW t \in Thread, NEW acc \in accounts, NEW r \in Range, Request(t, acc.id, r)
        PROVE  AccountExists(want[u].account)'
    <2>1. accounts' = accounts
      BY <1>2 DEF Request, tables
    <2>2. CASE u = t
      BY <1>0, <1>2, <2>1, <2>2 DEF Request, AccountExists
    <2>3. CASE u # t
      BY <1>0, <1>1, <1>2, <2>1, <2>3 DEF Request, Go
    <2>4. QED
      BY <2>2, <2>3
  <1>3. ASSUME NEW t \in Thread, Abandon(t), accounts' = accounts
        PROVE  AccountExists(want[u].account)'
    BY <1>0, <1>1, <1>3 DEF Abandon, Go, DropRequest
  <1>4. ASSUME NEW t \in Thread, Step(t) PROVE AccountExists(want[u].account)'
    <2>1. CASE CreateJobRefused(t) \/ WriteCoverageRefused(t)
      BY <1>3, <2>1 DEF CreateJobRefused, WriteCoverageRefused, tables
    <2>2. CASE Respond(t)
      BY <1>0, <1>1, <2>2 DEF Respond, Go, DropRequest, tables
    <2>3. CASE MarkDone(t) \/ MarkFailed(t)
      BY <1>0, <1>1, <2>3 DEF MarkDone, MarkFailed, NextTask, Go
    <2>4. CASE ReadGaps(t) \/ CreateJob(t) \/ ClaimJob(t)
      BY <1>0, <1>1, <2>4 DEF ReadGaps, CreateJob, ClaimJob, Go, tables
    <2>5. CASE LoadAccount(t) \/ Search(t) \/ Fetch(t) \/ SessionLost(t) \/ Store(t)
               \/ StoreRefused(t) \/ Checkpoint(t) \/ ReadCoverage(t) \/ WriteCoverage(t)
      BY <1>0, <1>1, <2>5
         DEF LoadAccount, Search, Fetch, SessionLost, Store, StoreRefused, Checkpoint,
             ReadCoverage, WriteCoverage, NextBatch, Go, tables, local
    <2>6. QED
      BY <1>4, <2>1, <2>2, <2>3, <2>4, <2>5 DEF Step
  <1>5. ASSUME NEW t \in Thread, ClaimNextJob(t) \/ ErrorCaught(t) \/ ErrorEscapes(t)
        PROVE  AccountExists(want[u].account)'
    BY <1>0, <1>1, <1>3, <1>5 DEF ClaimNextJob, ErrorCaught, ErrorEscapes, Go, tables, local
  <1>6. ASSUME NEW acc \in accounts, DeleteAccount(acc.id)
        PROVE  AccountExists(want[u].account)'
    BY <1>6, SpentIsUsed, EventsType DEF DeleteAccount
  <1>7. ASSUME Crash PROVE AccountExists(want[u].account)'
    BY <1>7 DEF Crash
  <1>8. QED
    BY <1>1, <1>2, <1>4, <1>5, <1>6, <1>7
       DEF Next, CreateAccount, RetryJob, Startup, Deliver, Expunge, ResetUidValidity,
           NextDay, vars, tables, local

\* The queue of a thread, one job longer.
LEMMA AppendToQueue ==
  ASSUME NEW q \in Seq(Job), NEW j \in Job
  PROVE  /\ Len(Append(q, j)) = Len(q) + 1
         /\ Append(q, j)[Len(q) + 1] = j
         /\ \A k \in 1 .. Len(q) : Append(q, j)[k] = q[k]
PROOF OBVIOUS

\* A claim: the row becomes running and the job goes to the end of the queue.
LEMMA ClaimHeld ==
  ASSUME Typed, Ids, Held, used["delete"] = 0, OnlyFailedRetried, NoOrphanRunning,
         NEW t \in Thread, NEW j \in jobs, j.status = "pending",
         SetStatus(j.id, "running"),
         queue' = [queue EXCEPT ![t] = Append(queue[t], [j EXCEPT !.status = "running"])],
         up' = up, used' = used
  PROVE  Held' /\ NoOrphanRunning'
PROOF
  <1> DEFINE claimed == [j EXCEPT !.status = "running"]
  <1>0. jobs \subseteq Job /\ queue \in [Thread -> Seq(Job)]
    BY DEF Typed, TypeOK
  <1>1. claimed \in Job /\ claimed.id = j.id /\ claimed.status = "running"
        /\ claimed.account = j.account
    BY <1>0 DEF Job
  <1>2. jobs' = (jobs \ {j}) \cup {claimed}
    BY <1>0, SetStatusEffect
  <1> HIDE DEF claimed
  <1>3. queue' = [queue EXCEPT ![t] = Append(queue[t], claimed)]
    BY DEF claimed
  <1>4. /\ Len(queue'[t]) = Len(queue[t]) + 1 /\ queue'[t][Len(queue[t]) + 1] = claimed
        /\ \A k \in 1 .. Len(queue[t]) : queue'[t][k] = queue[t][k]
        /\ \A u \in Thread : u # t => queue'[u] = queue[u]
    BY <1>0, <1>1, <1>3, AppendToQueue
  <1>5. \A u \in Thread : Len(queue[u]) \in Nat
    BY <1>0
  \* An entry of a queue is an old one, or the one just claimed.
  <1>6. \A u \in Thread : \A k \in 1 .. Len(queue'[u]) :
          \/ u = t /\ k = Len(queue[t]) + 1 /\ queue'[u][k] = claimed
          \/ k \in 1 .. Len(queue[u]) /\ queue'[u][k] = queue[u][k]
    BY <1>4, <1>5
  <1>7. \A u \in Thread : \A k \in 1 .. Len(queue[u]) :
          k \in 1 .. Len(queue'[u]) /\ queue'[u][k] = queue[u][k]
    BY <1>4, <1>5
  <1>8. \A u \in Thread : \A k \in 1 .. Len(queue[u]) :
          \E r \in jobs : /\ r.id = queue[u][k].id /\ r.status = "running"
                          /\ r.account = queue[u][k].account
    BY DEF Held
  \* No old entry has the id of the claimed job: its row is still pending.
  <1>9. \A u \in Thread : \A k \in 1 .. Len(queue[u]) : queue[u][k].id # j.id
    BY <1>8 DEF Ids
  <1>10. \A u \in Thread : \A k \in 1 .. Len(queue'[u]) :
           \E r \in jobs' : /\ r.id = queue'[u][k].id /\ r.status = "running"
                            /\ r.account = queue'[u][k].account
    <2> SUFFICES ASSUME NEW u \in Thread, NEW k \in 1 .. Len(queue'[u])
                 PROVE  \E r \in jobs' : /\ r.id = queue'[u][k].id /\ r.status = "running"
                                         /\ r.account = queue'[u][k].account
      OBVIOUS
    <2>1. CASE queue'[u][k] = claimed
      BY <1>1, <1>2, <2>1
    <2>2. CASE k \in 1 .. Len(queue[u]) /\ queue'[u][k] = queue[u][k]
      <3>1. PICK r \in jobs : /\ r.id = queue[u][k].id /\ r.status = "running"
                              /\ r.account = queue[u][k].account
        BY <1>8, <2>2
      <3>2. r \in jobs'
        BY <1>2, <3>1
      <3>3. QED
        BY <2>2, <3>1, <3>2
    <2>3. QED
      BY <1>6, <2>1, <2>2
  <1>11. ASSUME NEW u \in Thread, NEW v \in Thread,
                NEW k \in 1 .. Len(queue'[u]), NEW l \in 1 .. Len(queue'[v]),
                queue'[u][k].id = queue'[v][l].id
         PROVE  u = v /\ k = l
    BY <1>1, <1>6, <1>9, <1>11 DEF Held
  <1>12. Held'
    BY <1>10, <1>11 DEF Held
  <1>13. NoOrphanRunning'
    <2> SUFFICES ASSUME used["dbError"] = 0, up, NEW r \in jobs', r.status = "running"
                 PROVE  \E u \in Thread : \E k \in 1 .. Len(queue'[u]) : queue'[u][k].id = r.id
      BY DEF NoOrphanRunning, RunningIsHeld, Holds
    <2>1. CASE r = claimed
      <3>1. Len(queue[t]) + 1 \in 1 .. Len(queue'[t])
        BY <1>4, <1>5
      <3>2. QED
        BY <1>4, <2>1, <3>1
    <2>2. CASE r \in jobs
      <3>1. PICK u \in Thread : \E k \in 1 .. Len(queue[u]) : queue[u][k].id = r.id
        BY <2>2 DEF NoOrphanRunning, RunningIsHeld, Holds
      <3>2. QED
        BY <1>7, <3>1
    <2>3. QED
      BY <1>2, <2>1, <2>2
  <1>14. QED
    BY <1>12, <1>13

\* The end of a run: the row of the head leaves "running", the head the queue.
LEMMA MarkHeld ==
  ASSUME Typed, Ids, Held, used["delete"] = 0, OnlyFailedRetried, NoOrphanRunning,
         NEW t \in Thread, queue[t] # <<>>, NEW s, s # "running",
         SetStatus(Task(t).id, s),
         queue' = [queue EXCEPT ![t] = Tail(queue[t])],
         up' = up, used' = used
  PROVE  Held' /\ NoOrphanRunning'
PROOF
  <1>0. jobs \subseteq Job /\ queue \in [Thread -> Seq(Job)]
    BY DEF Typed, TypeOK
  <1>1. /\ Task(t) = queue[t][1] /\ Len(Tail(queue[t])) = Len(queue[t]) - 1
        /\ \A k \in 1 .. Len(Tail(queue[t])) : Tail(queue[t])[k] = queue[t][k + 1]
        /\ Len(queue[t]) \in Nat /\ Len(queue[t]) # 0
    BY <1>0, TailOfQueue DEF Task
  <1>2. /\ Len(queue'[t]) = Len(queue[t]) - 1
        /\ \A k \in 1 .. Len(queue'[t]) : queue'[t][k] = queue[t][k + 1]
        /\ \A u \in Thread : u # t => queue'[u] = queue[u]
    BY <1>0, <1>1
  <1>3. \A u \in Thread : Len(queue[u]) \in Nat
    BY <1>0
  <1>4. \A u \in Thread : \A k \in 1 .. Len(queue[u]) :
          \E r \in jobs : /\ r.id = queue[u][k].id /\ r.status = "running"
                          /\ r.account = queue[u][k].account
    BY DEF Held
  <1>5. \A u, v \in Thread : \A k \in 1 .. Len(queue[u]), l \in 1 .. Len(queue[v]) :
          queue[u][k].id = queue[v][l].id => u = v /\ k = l
    BY DEF Held
  <1>6. 1 \in 1 .. Len(queue[t])
    BY <1>1
  <1>7. PICK j \in jobs : j.id = Task(t).id
    BY <1>1, <1>4, <1>6
  <1>8. jobs' = (jobs \ {j}) \cup {[j EXCEPT !.status = s]}
    BY <1>0, <1>7, SetStatusEffect
  \* An entry that stays is an old one that was not the head.
  <1>9. \A u \in Thread : \A k \in 1 .. Len(queue'[u]) :
          \E l \in 1 .. Len(queue[u]) : /\ queue'[u][k] = queue[u][l]
                                        /\ l = IF u = t THEN k + 1 ELSE k
    BY <1>2, <1>3
  <1>10. \A u \in Thread : \A k \in 1 .. Len(queue'[u]) : queue'[u][k].id # j.id
    <2> SUFFICES ASSUME NEW u \in Thread, NEW k \in 1 .. Len(queue'[u]),
                        queue'[u][k].id = j.id
                 PROVE  FALSE
      OBVIOUS
    <2>1. PICK l \in 1 .. Len(queue[u]) : /\ queue'[u][k] = queue[u][l]
                                          /\ l = IF u = t THEN k + 1 ELSE k
      BY <1>9
    <2>2. u = t /\ l = 1
      BY <1>1, <1>5, <1>6, <1>7, <2>1
    <2>3. k \in Nat /\ k >= 1
      BY <1>2, <1>3
    <2>4. QED
      BY <2>1, <2>2, <2>3
  <1>11. Held'
    <2>1. ASSUME NEW u \in Thread, NEW k \in 1 .. Len(queue'[u])
          PROVE  \E r \in jobs' : /\ r.id = queue'[u][k].id /\ r.status = "running"
                                  /\ r.account = queue'[u][k].account
      <3>1. PICK l \in 1 .. Len(queue[u]) : queue'[u][k] = queue[u][l]
        BY <1>9
      <3>2. PICK r \in jobs : /\ r.id = queue[u][l].id /\ r.status = "running"
                              /\ r.account = queue[u][l].account
        BY <1>4
      <3>3. r # j
        BY <1>10, <3>1, <3>2
      <3>4. QED
        BY <1>8, <3>1, <3>2, <3>3
    <2>2. ASSUME NEW u \in Thread, NEW v \in Thread,
                 NEW k \in 1 .. Len(queue'[u]), NEW l \in 1 .. Len(queue'[v]),
                 queue'[u][k].id = queue'[v][l].id
          PROVE  u = v /\ k = l
      <3>1. PICK m \in 1 .. Len(queue[u]) : /\ queue'[u][k] = queue[u][m]
                                            /\ m = IF u = t THEN k + 1 ELSE k
        BY <1>9
      <3>2. PICK n \in 1 .. Len(queue[v]) : /\ queue'[v][l] = queue[v][n]
                                            /\ n = IF v = t THEN l + 1 ELSE l
        BY <1>9
      <3>3. u = v /\ m = n
        BY <1>5, <2>2, <3>1, <3>2
      <3>4. k \in Nat /\ l \in Nat
        OBVIOUS
      <3>5. QED
        BY <3>1, <3>2, <3>3, <3>4
    <2>3. QED
      BY <2>1, <2>2 DEF Held
  <1>12. NoOrphanRunning'
    <2> SUFFICES ASSUME used["dbError"] = 0, up, NEW r \in jobs', r.status = "running"
                 PROVE  \E u \in Thread : \E k \in 1 .. Len(queue'[u]) : queue'[u][k].id = r.id
      BY DEF NoOrphanRunning, RunningIsHeld, Holds
    <2>1. r \in jobs /\ r # j
      BY <1>0, <1>8 DEF Job
    <2>2. PICK u \in Thread : \E k \in 1 .. Len(queue[u]) : queue[u][k].id = r.id
      BY <2>1 DEF NoOrphanRunning, RunningIsHeld, Holds
    <2>3. CASE u # t
      BY <1>2, <2>2, <2>3
    <2>4. CASE u = t
      <3>0. PICK k \in 1 .. Len(queue[t]) : queue[t][k].id = r.id
        BY <2>2, <2>4
      <3>1. k # 1
        BY <1>1, <1>7, <2>1, <3>0 DEF Ids
      <3>2. k - 1 \in 1 .. Len(queue'[t]) /\ (k - 1) + 1 = k
        BY <1>2, <1>3, <3>1
      <3>3. queue'[t][k - 1] = queue[t][k]
        BY <1>2, <3>2
      <3>4. QED
        BY <3>0, <3>2, <3>3
    <2>5. QED
      BY <2>3, <2>4
  <1>13. QED
    BY <1>11, <1>12

\* A step that changes neither the queues nor which rows are running.
LEMMA SameRunning ==
  ASSUME Held, used["delete"] = 0, OnlyFailedRetried, NoOrphanRunning, queue' = queue,
         \A r \in jobs : r.status = "running" =>
           \E s \in jobs' : s.id = r.id /\ s.status = "running" /\ s.account = r.account,
         \A s \in jobs' : s.status = "running" =>
           \E r \in jobs : s.id = r.id /\ r.status = "running",
         up' => up, used'["dbError"] = 0 => used["dbError"] = 0
  PROVE  Held' /\ NoOrphanRunning'
PROOF
  <1>1. Held'
    BY DEF Held
  <1>2. NoOrphanRunning'
    <2> SUFFICES ASSUME used'["dbError"] = 0, up', NEW s \in jobs', s.status = "running"
                 PROVE  \E u \in Thread : \E k \in 1 .. Len(queue[u]) : queue[u][k].id = s.id
      BY DEF NoOrphanRunning, RunningIsHeld, Holds
    <2>1. PICK r \in jobs : s.id = r.id /\ r.status = "running"
      OBVIOUS
    <2>2. QED
      BY <2>1 DEF NoOrphanRunning, RunningIsHeld, Holds
  <1>3. QED
    BY <1>1, <1>2

\* A thread that gives up leaves no running job behind unless a statement outside
\* the try block raised: without deletions the refused inserts cannot happen.
LEMMA AbandonHeld ==
  ASSUME HeldInv, OnlyFailedRetried, used["delete"] = 0, used'["delete"] = 0, NEW t \in Thread,
         CreateJobRefused(t) \/ WriteCoverageRefused(t) \/ ErrorEscapes(t)
  PROVE  Held' /\ NoOrphanRunning'
PROOF
  <1> USE DEF HeldInv
  <1>1. ~CreateJobRefused(t)
    BY DEF Wanted, CreateJobRefused
  <1>2. ~WriteCoverageRefused(t)
    <2> SUFFICES ASSUME WriteCoverageRefused(t) PROVE FALSE
      OBVIOUS
    <2>1. queue[t] # <<>> /\ queue[t] \in Seq(Job)
      BY DEF Typed, TypeOK, WriteCoverageRefused, RunPC
    <2>2. Task(t) = queue[t][1] /\ 1 \in 1 .. Len(queue[t])
      BY <2>1, TailOfQueue DEF Task
    <2>3. PICK j \in jobs : j.account = Task(t).account
      BY <2>2 DEF Held
    <2>4. QED
      BY <2>3 DEF RowsHaveAccount, WriteCoverageRefused
  <1>3. ErrorEscapes(t)
    BY <1>1, <1>2
  <1>4. used'["dbError"] # 0
    BY <1>3, SpentIsUsed, EventsType DEF ErrorEscapes
  <1>5. jobs' = jobs /\ queue' = [queue EXCEPT ![t] = <<>>]
    BY <1>3 DEF ErrorEscapes, Abandon, tables
  <1>6. queue \in [Thread -> Seq(Job)]
    BY DEF Typed, TypeOK
  <1>7. \A u \in Thread : \A k \in 1 .. Len(queue'[u]) :
          k \in 1 .. Len(queue[u]) /\ queue'[u][k] = queue[u][k]
    BY <1>5, <1>6
  <1>8. Held'
    BY <1>5, <1>7 DEF Held
  <1>9. QED
    BY <1>4, <1>8 DEF NoOrphanRunning

LEMMA HeldNext == HeldInv /\ [Next]_vars => Held' /\ NoOrphanRunning'
PROOF
  <1> SUFFICES ASSUME HeldInv, [Next]_vars, OnlyFailedRetried, used'["delete"] = 0
               PROVE  Held' /\ NoOrphanRunning'
    BY DEF Held, NoOrphanRunning
  <1> USE DEF HeldInv
  <1>0. /\ used["delete"] = 0
        /\ used'["dbError"] = 0 => used["dbError"] = 0
    BY UsedGrows, EventsType
  <1>a. jobs \subseteq Job /\ queue \in [Thread -> Seq(Job)]
    BY DEF Typed, TypeOK
  <1>1. CASE Elsewhere
    BY <1>0, <1>1, SameRunning DEF Elsewhere
  <1>2. ASSUME NEW t \in Thread, CreateJob(t) PROVE Held' /\ NoOrphanRunning'
    <2>1. PICK g, i :
            jobs' = jobs \cup {[id |-> i, account |-> want[t].account, range |-> g,
                                status |-> "pending", checkpoint |-> 0]}
      BY <1>2 DEF CreateJob
    <2>2. queue' = queue /\ up' = up
      BY <1>2 DEF CreateJob
    <2>3. QED
      BY <1>0, <2>1, <2>2, SameRunning
  <1>3. ASSUME NEW t \in Thread, ClaimJob(t) PROVE Held' /\ NoOrphanRunning'
    <2>1. CASE UNCHANGED <<jobs, queue>>
      BY <1>0, <1>3, <2>1, SameRunning DEF ClaimJob
    <2>2. CASE ~UNCHANGED <<jobs, queue>>
      BY <1>0, <1>3, <2>2, ClaimHeld DEF ClaimJob
    <2>3. QED
      BY <2>1, <2>2
  <1>4. ASSUME NEW t \in Thread, ClaimNextJob(t) PROVE Held' /\ NoOrphanRunning'
    <2>1. PICK j \in jobs :
            /\ j.status = "pending" /\ SetStatus(j.id, "running")
            /\ queue' = [queue EXCEPT ![t] = <<[j EXCEPT !.status = "running"]>>]
      BY <1>4 DEF ClaimNextJob
    <2>2. Append(queue[t], [j EXCEPT !.status = "running"]) = <<[j EXCEPT !.status = "running"]>>
      <3>1. queue[t] = <<>>
        BY <1>4 DEF ClaimNextJob, Quiet
      <3>2. QED
        BY <3>1
    <2>3. up' = up /\ used' = used
      BY <1>4 DEF ClaimNextJob
    <2>4. queue' = [queue EXCEPT ![t] = Append(queue[t], [j EXCEPT !.status = "running"])]
      BY <2>1, <2>2
    <2>5. QED
      BY <1>0, <2>1, <2>3, <2>4, ClaimHeld
  <1>5. ASSUME NEW t \in Thread, Checkpoint(t) PROVE Held' /\ NoOrphanRunning'
    <2>1. PICK last : jobs' = {IF j.id = Task(t).id THEN [j EXCEPT !.checkpoint = last] ELSE j :
                               j \in jobs}
      BY <1>5 DEF Checkpoint
    <2> DEFINE moved(j) == IF j.id = Task(t).id THEN [j EXCEPT !.checkpoint = last] ELSE j
    <2>2. \A j \in jobs : /\ moved(j).id = j.id /\ moved(j).status = j.status
                          /\ moved(j).account = j.account
      BY <1>a DEF Job
    <2>3. jobs' = {moved(j) : j \in jobs} /\ queue' = queue /\ up' = up
      BY <1>5, <2>1 DEF Checkpoint, local
    <2> HIDE DEF moved
    <2>4. QED
      BY <1>0, <2>2, <2>3, SameRunning
  <1>6. ASSUME NEW t \in Thread, MarkDone(t) \/ MarkFailed(t) PROVE Held' /\ NoOrphanRunning'
    <2>1. queue[t] # <<>>
      BY <1>6 DEF Typed, RunPC, MarkDone, MarkFailed
    <2>2. /\ SetStatus(Task(t).id, "done") \/ SetStatus(Task(t).id, "failed")
          /\ queue' = [queue EXCEPT ![t] = Tail(queue[t])] /\ up' = up /\ used' = used
      BY <1>6 DEF MarkDone, MarkFailed, NextTask
    <2>3. QED
      BY <1>0, <2>1, <2>2, MarkHeld
  <1>7. ASSUME NEW acc \in accounts, DeleteAccount(acc.id) PROVE FALSE
    BY <1>7, SpentIsUsed, EventsType DEF DeleteAccount
  <1>8. ASSUME NEW j \in jobs, RetryJob(j) PROVE Held' /\ NoOrphanRunning'
    <2>1. jobs' = (jobs \ {j}) \cup {[j EXCEPT !.status = "pending"]} /\ j.status = "failed"
      BY <1>a, <1>8, SetStatusEffect DEF RetryJob, OnlyFailedRetried
    <2>2. [j EXCEPT !.status = "pending"].status = "pending"
      BY <1>a DEF Job
    <2>3. queue' = queue /\ up' = up
      BY <1>8 DEF RetryJob, local
    <2>4. QED
      BY <1>0, <2>1, <2>2, <2>3, SameRunning
  <1>9. ASSUME Crash PROVE Held' /\ NoOrphanRunning'
    BY <1>9 DEF Crash, Held, NoOrphanRunning, RunningIsHeld
  <1>10. ASSUME Startup PROVE Held' /\ NoOrphanRunning'
    <2>1. \A t \in Thread : queue'[t] = <<>>
      BY <1>10 DEF Startup, Quiet, local
    <2>2. \A s \in jobs' : s.status # "running"
      BY <1>10, <1>a DEF Startup, Job
    <2>3. QED
      BY <2>1, <2>2 DEF Held, NoOrphanRunning, RunningIsHeld
  <1>11. CASE JobStep
    BY <1>0, <1>2, <1>3, <1>4, <1>5, <1>6, <1>7, <1>8, <1>9, <1>10, <1>11, AbandonHeld
       DEF JobStep
  <1>12. QED
    BY <1>1, <1>11, JobStepOrElsewhere

LEMMA HeldInvInit == Init => HeldInv
PROOF
  <1> SUFFICES ASSUME Init PROVE HeldInv
    OBVIOUS
  <1>1. Ids /\ Quiet /\ Held /\ Wanted /\ NoOrphanRunning
    BY DEF Init, NothingToDo, Ids, Quiet, Held, Wanted, NoOrphanRunning, RunningIsHeld
  <1>2. QED
    BY <1>1, InitTyped, RowsInit DEF HeldInv

LEMMA HeldInvNext == HeldInv /\ [Next]_vars => HeldInv'
PROOF BY NextTyped, RowsNext, IdsNext, QuietNext, WantedNext, HeldNext DEF HeldInv

LEMMA HeldInvAlways == Spec => []HeldInv
PROOF BY HeldInvInit, HeldInvNext, PTL DEF Spec

\* Two claims never hand out the same job, and a job in a thread's hands is
\* still marked running, however requests, retries, crashes and workers
\* interleave (claim_job and claim_next_job, core/jobs.py).
THEOREM JobsAreHeldOnce == Spec => []JobHeldOnce
PROOF
  <1>1. HeldInv => JobHeldOnce
    BY DEF HeldInv, Held, JobHeldOnce, NeverBoth
  <1>2. QED
    BY HeldInvAlways, <1>1, PTL

\* No job stays marked running with nobody to finish it, as long as no statement
\* outside run_job's try block raises and no mailbox is deleted (run_job,
\* worker/runner.py; fail_interrupted_jobs, core/job_recovery.py).
THEOREM NoRunningJobIsOrphaned == Spec => []NoOrphanRunning
PROOF
  <1>1. HeldInv => NoOrphanRunning
    BY DEF HeldInv
  <1>2. QED
    BY HeldInvAlways, <1>1, PTL

-----------------------------------------------------------------------------
(* The life of a job *)

\* What JobLifecycle says of one step.
JobsMove ==
  \A j \in jobs : \E k \in jobs' :
    /\ k.id = j.id /\ k.account = j.account /\ k.range = j.range
    /\ k.status = j.status \/ <<j.status, k.status>> \in StatusMove
    /\ j.status = "done" => k = j

\* One row moves to another status, legally.
LEMMA MoveOne ==
  ASSUME Ids, jobs \subseteq Job, NEW j \in jobs, NEW s, SetStatus(j.id, s),
         <<j.status, s>> \in StatusMove, j.status # "done"
  PROVE  JobsMove
PROOF
  <1> DEFINE moved == [j EXCEPT !.status = s]
  <1>1. /\ moved.id = j.id /\ moved.account = j.account
        /\ moved.range = j.range /\ moved.status = s
    BY DEF Job
  <1>2. jobs' = (jobs \ {j}) \cup {moved}
    BY SetStatusEffect
  <1> HIDE DEF moved
  <1>3. QED
    BY <1>1, <1>2 DEF JobsMove

\* The row of the job that a thread runs is marked running.
LEMMA TaskIsRunning ==
  ASSUME HeldInv, OnlyFailedRetried, used["delete"] = 0, NEW t \in Thread, pc[t] \in RunPC
  PROVE  \E j \in jobs : j.id = Task(t).id /\ j.status = "running"
PROOF
  <1>1. queue[t] # <<>> /\ queue[t] \in Seq(Job)
    BY DEF HeldInv, Typed, TypeOK
  <1>2. Task(t) = queue[t][1] /\ 1 \in 1 .. Len(queue[t])
    BY <1>1, TailOfQueue DEF Task
  <1>3. QED
    BY <1>2 DEF HeldInv, Held

LEMMA StepMoves ==
  HeldInv /\ [Next]_vars /\ OnlyFailedRetried /\ used'["delete"] = 0 => JobsMove
PROOF
  <1> SUFFICES ASSUME HeldInv, [Next]_vars, OnlyFailedRetried, used'["delete"] = 0
               PROVE  JobsMove
    OBVIOUS
  <1>0. /\ used["delete"] = 0
        /\ jobs \subseteq Job /\ Ids
    BY UsedGrows, EventsType DEF HeldInv, Typed, TypeOK
  <1>1. ASSUME jobs \subseteq jobs' PROVE JobsMove
    BY <1>1 DEF JobsMove
  <1>2. ASSUME NEW t \in Thread, ClaimJob(t) \/ ClaimNextJob(t) PROVE JobsMove
    BY <1>0, <1>1, <1>2, MoveOne DEF ClaimJob, ClaimNextJob, StatusMove
  <1>3. ASSUME NEW t \in Thread, MarkDone(t) \/ MarkFailed(t) PROVE JobsMove
    <2>1. pc[t] \in RunPC
      BY <1>3 DEF MarkDone, MarkFailed, RunPC
    <2>2. PICK j \in jobs : j.id = Task(t).id /\ j.status = "running"
      BY <1>0, <2>1, TaskIsRunning
    <2>3. SetStatus(j.id, "done") \/ SetStatus(j.id, "failed")
      BY <1>3, <2>2 DEF MarkDone, MarkFailed
    <2>4. QED
      BY <1>0, <2>2, <2>3, MoveOne DEF StatusMove
  <1>4. ASSUME NEW t \in Thread, Checkpoint(t) PROVE JobsMove
    <2>1. PICK last : jobs' = {IF j.id = Task(t).id THEN [j EXCEPT !.checkpoint = last] ELSE j :
                               j \in jobs}
      BY <1>4 DEF Checkpoint
    <2>2. PICK r \in jobs : r.id = Task(t).id /\ r.status = "running"
      BY <1>0, <1>4, TaskIsRunning DEF Checkpoint, RunPC
    <2> DEFINE moved(j) == IF j.id = Task(t).id THEN [j EXCEPT !.checkpoint = last] ELSE j
    <2>3. ASSUME NEW j \in jobs
          PROVE  /\ moved(j).id = j.id /\ moved(j).account = j.account
                 /\ moved(j).range = j.range /\ moved(j).status = j.status
                 /\ j.status = "done" => moved(j) = j
      BY <1>0, <2>2 DEF Job, Ids
    <2>4. jobs' = {moved(j) : j \in jobs}
      BY <2>1
    <2> HIDE DEF moved
    <2>5. QED
      BY <2>3, <2>4 DEF JobsMove
  <1>5. ASSUME NEW j \in jobs, RetryJob(j) PROVE JobsMove
    BY <1>0, <1>5, MoveOne DEF RetryJob, StatusMove, OnlyFailedRetried
  <1>6. ASSUME Startup PROVE JobsMove
    <2> DEFINE moved(j) == IF j.status = "running" THEN [j EXCEPT !.status = "failed"] ELSE j
    <2>1. ASSUME NEW j \in jobs
          PROVE  /\ moved(j).id = j.id /\ moved(j).account = j.account
                 /\ moved(j).range = j.range
                 /\ moved(j).status = j.status \/ <<j.status, moved(j).status>> \in StatusMove
                 /\ j.status = "done" => moved(j) = j
      BY <1>0 DEF Job, StatusMove
    <2>2. jobs' = {moved(j) : j \in jobs}
      BY <1>6 DEF Startup
    <2> HIDE DEF moved
    <2>3. QED
      BY <2>1, <2>2 DEF JobsMove
  <1>7. ASSUME NEW acc \in accounts, DeleteAccount(acc.id) PROVE FALSE
    BY <1>7, SpentIsUsed, EventsType DEF DeleteAccount, HeldInv
  <1>8. CASE JobStep
    BY <1>1, <1>2, <1>3, <1>4, <1>5, <1>6, <1>7, <1>8
       DEF JobStep, CreateJob, CreateJobRefused, WriteCoverageRefused, ErrorEscapes, Crash, tables
  <1>9. QED
    BY <1>1, <1>8, JobStepOrElsewhere DEF Elsewhere

\* A job's status only ever makes a legal move, and a done job is never touched
\* again (core/jobs.py), whatever interleaves, as long as no mailbox is deleted.
THEOREM JobsFollowTheirLifecycle == Spec => JobLifecycle
PROOF
  <1>1. HeldInv /\ [Next]_vars => [OnlyFailedRetried /\ used'["delete"] = 0 => JobsMove]_vars
    BY StepMoves
  <1>2. QED
    BY HeldInvAlways, <1>1, PTL DEF Spec, JobLifecycle, JobsMove
-----------------------------------------------------------------------------
(* What one step changes *)

NoneDeleted == used["delete"] = 0

\* The conditions of CheckpointSound and CoveredPastIsStored, together.
Calm ==
  /\ NoneDeleted
  /\ used["reset"] = 0 \/ (~MayAskToday /\ used["retry"] = 0)

LEMMA CalmBefore ==
  ASSUME Typed, [Next]_vars
  PROVE  /\ NoneDeleted' => NoneDeleted
         /\ Calm' => Calm
         /\ used'["reset"] = 0 => used["reset"] = 0
         /\ used'["retry"] = 0 => used["retry"] = 0
PROOF BY UsedGrows, EventsType DEF NoneDeleted, Calm

\* Nothing is lost but by a deletion, and a new account has a new id.
TablesGrow ==
  /\ emails \subseteq emails'
  /\ accounts \subseteq accounts'
  /\ \A acc \in accounts' : acc \in accounts \/ \A old \in accounts : old.id # acc.id
  /\ \A a, b \in accounts' \ accounts : a = b
  /\ today <= today'

\* What a folder has after a step: what it had, and maybe a message that arrived;
\* or what it had, numbered afresh.
Arrives(b, m) == m.day = today /\ m.uid = uidNext[b] /\ m.uid < uidNext'[b]

FolderKeeps(b) ==
  /\ epoch'[b] = epoch[b] /\ uidNext'[b] >= uidNext[b]
  /\ \A m \in mail'[b] : m \in mail[b] \/ Arrives(b, m)
  /\ \A m, n \in mail'[b] \ mail[b] : m = n

FolderRenumbered(b) ==
  /\ used'["reset"] # 0 /\ epoch'[b] > epoch[b]
  /\ \A m \in mail'[b] : /\ m.uid < uidNext'[b]
                         /\ \E n \in mail[b] : n.msg = m.msg /\ n.day = m.day
  /\ \A m, n \in mail'[b] : m.uid = n.uid => m = n

MailMoves == \A b \in Box : FolderKeeps(b) \/ FolderRenumbered(b)

LEMMA TablesStep ==
  ASSUME Typed, [Next]_vars, NoneDeleted' PROVE TablesGrow
PROOF
  <1>0. /\ today \in Nat /\ \A acc \in accounts : acc.id \in RowId
    BY ConstantsAssumption DEF Typed, TypeOK, Day, Account
  <1>1. ASSUME emails \subseteq emails', accounts' = accounts, today' = today PROVE TablesGrow
    BY <1>0, <1>1 DEF TablesGrow
  <1>2. ASSUME NEW b \in Box, CreateAccount(b) PROVE TablesGrow
    <2>1. PICK i \in NextRowId(accounts) : accounts' = accounts \cup {[id |-> i, box |-> b]}
      BY <1>2 DEF CreateAccount
    <2>2. \A old \in accounts : old.id # i
      BY <1>0, NewRowId
    <2>3. QED
      BY <1>0, <1>2, <2>1, <2>2 DEF CreateAccount, TablesGrow, server
  <1>3. ASSUME NEW acc \in accounts, DeleteAccount(acc.id) PROVE FALSE
    BY <1>3, SpentIsUsed, EventsType DEF DeleteAccount, NoneDeleted
  <1>4. ASSUME NextDay PROVE TablesGrow
    BY <1>0, <1>4 DEF NextDay, TablesGrow, tables
  <1>5. ASSUME NEW t \in Thread, Step(t) PROVE TablesGrow
    BY <1>1, <1>5 DEF Step, ReadGaps, CreateJob, CreateJobRefused, ClaimJob, Respond,
       LoadAccount, Search, Fetch, SessionLost, Store, StoreRefused, Checkpoint, ReadCoverage,
       WriteCoverage, WriteCoverageRefused, MarkDone, MarkFailed, server, tables
  <1>6. QED
    BY <1>1, <1>2, <1>3, <1>4, <1>5
       DEF Next, Request, ErrorCaught, ErrorEscapes, ClaimNextJob, Deliver, Expunge,
           ResetUidValidity, RetryJob, Crash, Startup, vars, server, tables

\* The mail server's steps.
FolderStep == \E b \in Box : Deliver(b) \/ Expunge(b) \/ ResetUidValidity(b)

LEMMA FolderStepOrNot ==
  [Next]_vars => FolderStep \/ UNCHANGED <<mail, epoch, uidNext>>
PROOF
  <1> SUFFICES ASSUME [Next]_vars, ~FolderStep PROVE UNCHANGED <<mail, epoch, uidNext>>
    OBVIOUS
  <1>1. ASSUME NEW t \in Thread, Step(t) PROVE UNCHANGED server
    BY <1>1 DEF Step, ReadGaps, CreateJob, CreateJobRefused, ClaimJob, Respond,
       LoadAccount, Search, Fetch, SessionLost, Store, StoreRefused, Checkpoint, ReadCoverage,
       WriteCoverage, WriteCoverageRefused, MarkDone, MarkFailed
  <1>2. QED
    BY <1>1 DEF FolderStep, Next, Request, ErrorCaught, ErrorEscapes, ClaimNextJob,
       CreateAccount, DeleteAccount, RetryJob, Crash, Startup, NextDay, vars, server

LEMMA FolderUnchanged ==
  ASSUME Typed, NEW c \in Box, mail'[c] = mail[c], epoch'[c] = epoch[c], uidNext'[c] = uidNext[c]
  PROVE  FolderKeeps(c)
PROOF
  <1>1. uidNext[c] \in Nat
    BY DEF Typed, TypeOK, RowId
  <1>2. QED
    BY <1>1 DEF FolderKeeps

LEMMA MailStep ==
  ASSUME Typed, [Next]_vars PROVE MailMoves
PROOF
  <1>0. /\ mail \in [Box -> SUBSET Message] /\ epoch \in [Box -> RowId]
        /\ uidNext \in [Box -> RowId]
    BY DEF Typed, TypeOK
  <1>n. \A b \in Box : epoch[b] \in Nat /\ uidNext[b] \in Nat
    BY <1>0 DEF RowId
  <1> SUFFICES ASSUME NEW c \in Box PROVE FolderKeeps(c) \/ FolderRenumbered(c)
    BY DEF MailMoves
  <1>1. CASE UNCHANGED <<mail, epoch, uidNext>>
    BY <1>1, FolderUnchanged
  <1>2. ASSUME NEW b \in Box, Deliver(b) PROVE FolderKeeps(c)
    <2>1. /\ mail' = [mail EXCEPT ![b] = @ \cup {[msg |-> used["deliver"] + 1,
                                                 uid |-> uidNext[b], day |-> today]}]
          /\ uidNext' = [uidNext EXCEPT ![b] = @ + 1] /\ epoch' = epoch
      BY <1>2 DEF Deliver
    <2>2. CASE c # b
      BY <1>0, <2>1, <2>2, FolderUnchanged
    <2>3. CASE c = b
      <3>1. uidNext'[c] = uidNext[c] + 1 /\ epoch'[c] = epoch[c]
        BY <1>0, <2>1, <2>3
      <3>2. /\ \A m \in mail'[c] : m \in mail[c] \/ (m.day = today /\ m.uid = uidNext[c])
            /\ \A m, n \in mail'[c] \ mail[c] : m = n
        BY <1>0, <2>1, <2>3
      <3>3. uidNext[c] < uidNext'[c] /\ uidNext'[c] >= uidNext[c]
        BY <1>n, <3>1
      <3>4. QED
        BY <3>1, <3>2, <3>3 DEF FolderKeeps, Arrives
    <2>4. QED
      BY <2>2, <2>3
  <1>3. ASSUME NEW b \in Box, Expunge(b) PROVE FolderKeeps(c)
    <2>1. mail'[c] \subseteq mail[c] /\ epoch' = epoch /\ uidNext' = uidNext
      <3>1. PICK m \in mail[b] : mail' = [mail EXCEPT ![b] = @ \ {m}]
        BY <1>3 DEF Expunge
      <3>2. QED
        BY <1>0, <1>3, <3>1 DEF Expunge
    <2>2. QED
      BY <1>n, <2>1 DEF FolderKeeps
  <1>4. ASSUME NEW b \in Box, ResetUidValidity(b) PROVE FolderKeeps(c) \/ FolderRenumbered(c)
    <2>1. PICK f \in [mail[b] -> 1 .. used["deliver"]] :
            /\ \A m, n \in mail[b] : f[m] = f[n] => m = n
            /\ mail' = [mail EXCEPT ![b] = {[m EXCEPT !.uid = f[m]] : m \in mail[b]}]
      BY <1>4 DEF ResetUidValidity
    <2>2. /\ epoch' = [epoch EXCEPT ![b] = epoch[b] + 1]
          /\ uidNext' = [uidNext EXCEPT ![b] = used["deliver"] + 1]
      BY <1>4 DEF ResetUidValidity
    <2>3. CASE c # b
      BY <1>0, <2>1, <2>2, <2>3, FolderUnchanged
    <2>4. CASE c = b
      <3>1. used'["reset"] # 0
        BY <1>4, SpentIsUsed, EventsType DEF ResetUidValidity
      <3>2. epoch'[c] > epoch[c] /\ uidNext'[c] = used["deliver"] + 1
        BY <1>0, <1>n, <2>2, <2>4
      <3>3. used["deliver"] \in Nat
        BY EventsType DEF Typed, TypeOK
      <3>4. \A m \in mail'[c] : \E n \in mail[c] :
              m.uid = f[n] /\ m.msg = n.msg /\ m.day = n.day /\ m = [n EXCEPT !.uid = f[n]]
        <4> SUFFICES ASSUME NEW m \in mail'[c]
                     PROVE  \E n \in mail[c] : m.uid = f[n] /\ m.msg = n.msg /\ m.day = n.day
                                               /\ m = [n EXCEPT !.uid = f[n]]
          OBVIOUS
        <4>1. mail'[c] = {[n EXCEPT !.uid = f[n]] : n \in mail[c]}
          BY <1>0, <2>1, <2>4
        <4>2. PICK n \in mail[c] : m = [n EXCEPT !.uid = f[n]]
          BY <4>1
        <4>3. n \in Message
          BY <1>0
        <4>4. QED
          BY <4>2, <4>3 DEF Message
      <3>5. \A n \in mail[c] : f[n] \in 1 .. used["deliver"]
        BY <2>1, <2>4
      <3>6. \A m \in mail'[c] : m.uid < uidNext'[c]
        BY <3>2, <3>3, <3>4, <3>5
      <3>7. \A m, n \in mail'[c] : m.uid = n.uid => m = n
        BY <2>1, <2>4, <3>4
      <3>8. QED
        BY <3>1, <3>2, <3>4, <3>6, <3>7 DEF FolderRenumbered
    <2>5. QED
      BY <2>3, <2>4
  <1>5. QED
    BY <1>1, <1>2, <1>3, <1>4, FolderStepOrNot DEF FolderStep

-----------------------------------------------------------------------------
(* What one step changes of a thread *)

ThreadSame(t) ==
  /\ pc'[t] = pc[t] /\ want'[t] = want[t] /\ gaps'[t] = gaps[t]
  /\ queue'[t] = queue[t] /\ sess'[t] = sess[t] /\ seen'[t] = seen[t]

ThreadStep(t) ==
  \/ Step(t) \/ ClaimNextJob(t) \/ ErrorCaught(t) \/ ErrorEscapes(t)
  \/ \E acc \in accounts, r \in Range : Request(t, acc.id, r)

\* A step of a thread leaves the locals of the others alone, but for raced.
LEMMA OtherThread ==
  ASSUME Typed, NEW s \in Thread, NEW t \in Thread, s # t, ThreadStep(s)
  PROVE  ThreadSame(t)
PROOF
  <1>0. /\ pc \in [Thread -> PC] /\ gaps \in [Thread -> SUBSET Range]
        /\ want \in [Thread -> [account : RowId, range : Range]]
        /\ queue \in [Thread -> Seq(Job)] /\ sess \in [Thread -> Session]
        /\ seen \in [Thread -> SUBSET Day]
    BY DEF Typed, TypeOK
  <1> USE DEF ThreadSame
  <1>1. ASSUME Abandon(s) PROVE ThreadSame(t)
    BY <1>0, <1>1 DEF Abandon, Go, DropRequest, DropRun
  <1>2. ASSUME UNCHANGED local, \E l : Go(s, l) PROVE ThreadSame(t)
    BY <1>0, <1>2 DEF Go, local
  <1>3. ASSUME \E acc \in accounts, r \in Range : Request(s, acc.id, r) PROVE ThreadSame(t)
    BY <1>0, <1>3 DEF Request, Go
  <1>4. CASE ReadGaps(s) \/ CreateJob(s) \/ ClaimJob(s) \/ Respond(s) \/ ClaimNextJob(s)
    BY <1>0, <1>4 DEF ReadGaps, CreateJob, ClaimJob, Respond, ClaimNextJob, Go, DropRequest
  <1>5. CASE LoadAccount(s) \/ Search(s) \/ Fetch(s) \/ Store(s)
    BY <1>0, <1>5 DEF LoadAccount, Search, Fetch, Store, Go, NextBatch
  <1>6. CASE ReadCoverage(s) \/ WriteCoverage(s)
    BY <1>0, <1>6 DEF ReadCoverage, WriteCoverage, Go
  <1>7. CASE MarkDone(s) \/ MarkFailed(s)
    BY <1>0, <1>7 DEF MarkDone, MarkFailed, NextTask, Go, DropRun
  <1>8. CASE CreateJobRefused(s) \/ WriteCoverageRefused(s) \/ ErrorEscapes(s)
    BY <1>1, <1>8 DEF CreateJobRefused, WriteCoverageRefused, ErrorEscapes
  <1>9. CASE SessionLost(s) \/ StoreRefused(s) \/ Checkpoint(s) \/ ErrorCaught(s)
    BY <1>2, <1>9 DEF SessionLost, StoreRefused, Checkpoint, ErrorCaught, NextBatch
  <1>10. QED
    BY <1>3, <1>4, <1>5, <1>6, <1>7, <1>8, <1>9 DEF ThreadStep, Step

LEMMA OneThread ==
  ASSUME Typed, [Next]_vars, NEW t \in Thread
  PROVE  ThreadSame(t) \/ ThreadStep(t) \/ Crash
PROOF
  <1>1. ASSUME NEW s \in Thread, ThreadStep(s) PROVE ThreadSame(t) \/ ThreadStep(t)
    BY <1>1, OtherThread
  <1>2. ASSUME UNCHANGED <<pc, want, gaps, queue, sess, seen>> PROVE ThreadSame(t)
    BY <1>2 DEF ThreadSame
  <1>3. (\E s \in Thread : ThreadStep(s)) \/ Crash
        \/ UNCHANGED <<pc, want, gaps, queue, sess, seen>>
    BY DEF ThreadStep, Next, CreateAccount, Deliver, Expunge, ResetUidValidity, DeleteAccount,
       RetryJob, Startup, NextDay, vars, local
  <1>4. QED
    BY <1>1, <1>2, <1>3

\* Where a thread is in the middle of run_job, having looked up the mailbox.
Inside == {"search", "fetch", "store", "merge", "cover", "done"}

RunStep(t) ==
  \/ LoadAccount(t) \/ Search(t) \/ Fetch(t) \/ Store(t) \/ Checkpoint(t)
  \/ ReadCoverage(t) \/ WriteCoverage(t)

\* A thread that is there after a step runs the same job as before it.
LEMMA InsideStep ==
  ASSUME Typed, [Next]_vars, NEW t \in Thread, pc'[t] \in Inside
  PROVE  /\ queue'[t] = queue[t] /\ Task(t)' = Task(t) /\ pc[t] \in RunPC
         /\ ThreadSame(t) \/ RunStep(t)
PROOF
  <1>0. pc \in [Thread -> PC] /\ queue \in [Thread -> Seq(Job)]
    BY DEF Typed, TypeOK
  <1>1. CASE ThreadSame(t)
    BY <1>1 DEF ThreadSame, Task, Inside, RunPC
  <1>2. ASSUME RunStep(t) PROVE queue'[t] = queue[t] /\ Task(t)' = Task(t) /\ pc[t] \in RunPC
    BY <1>2 DEF RunStep, LoadAccount, Search, Fetch, Store, Checkpoint, ReadCoverage,
       WriteCoverage, RunPC, Task, local
  <1>3. ~Crash
    BY DEF Crash, Inside
  <1>4. ASSUME Step(t), ~RunStep(t) PROVE FALSE
    BY <1>0, <1>4 DEF Step, RunStep, Inside, ReadGaps, CreateJob, CreateJobRefused, ClaimJob,
       Respond, SessionLost, StoreRefused, WriteCoverageRefused, MarkDone, MarkFailed,
       NextTask, Abandon, Go
  <1>5. ASSUME ThreadStep(t), ~Step(t) PROVE FALSE
    BY <1>0, <1>5 DEF ThreadStep, Inside, ClaimNextJob, ErrorCaught, ErrorEscapes, Request,
       Abandon, Go
  <1>6. QED
    BY <1>1, <1>2, <1>3, <1>4, <1>5, OneThread

\* What becomes of a thread's session.
LEMMA SessStep ==
  ASSUME Typed, [Next]_vars, NEW t \in Thread
  PROVE  \/ sess'[t] = sess[t] \/ sess'[t] = NoSession
         \/ LoadAccount(t) \/ Search(t) \/ Fetch(t) \/ Store(t)
PROOF
  <1>0. sess \in [Thread -> Session]
    BY DEF Typed, TypeOK
  <1>1. CASE ThreadSame(t)
    BY <1>1 DEF ThreadSame
  <1>2. CASE Crash
    BY <1>2 DEF Crash
  <1>3. CASE Step(t)
    BY <1>0, <1>3 DEF Step, ReadGaps, CreateJob, CreateJobRefused, ClaimJob, Respond, SessionLost,
       StoreRefused, Checkpoint, ReadCoverage, WriteCoverage, WriteCoverageRefused, MarkDone,
       MarkFailed, NextTask, Abandon, DropRun, local
  <1>4. CASE ThreadStep(t) /\ ~Step(t)
    BY <1>0, <1>4 DEF ThreadStep, ClaimNextJob, ErrorCaught, ErrorEscapes, Request, Abandon,
       DropRun, local
  <1>5. QED
    BY <1>1, <1>2, <1>3, <1>4, OneThread

\* The three steps that change an open session, field by field.
ToFetch(t) ==
  {m.uid : m \in {n \in mail[sess[t].box] : /\ n.day \in Widened(Task(t).range)
                                            /\ n.uid > Task(t).checkpoint}}

LEMMA SearchEffect ==
  ASSUME Typed, NEW t \in Thread, Search(t)
  PROVE  /\ sess'[t].box = sess[t].box /\ sess'[t].epoch = epoch[sess[t].box]
         /\ sess'[t].todo = ToFetch(t)
         /\ sess'[t].batch = sess[t].batch /\ sess'[t].got = sess[t].got
         /\ pc'[t] = IF ToFetch(t) = {} THEN "merge" ELSE "fetch"
PROOF
  <1>1. /\ sess' = [sess EXCEPT ![t].epoch = epoch[sess[t].box], ![t].todo = ToFetch(t)]
        /\ NextBatch(t, ToFetch(t))
    BY DEF Search, ToFetch
  <1>2. sess[t] \in Session /\ sess \in [Thread -> Session] /\ pc \in [Thread -> PC]
    BY DEF Typed, TypeOK
  <1>3. QED
    BY <1>1, <1>2 DEF Session, NextBatch, Go

LEMMA FetchEffect ==
  ASSUME Typed, NEW t \in Thread, Fetch(t)
  PROVE  /\ sess'[t].box = sess[t].box /\ sess'[t].epoch = sess[t].epoch
         /\ sess'[t].todo = sess[t].todo \ sess'[t].batch
         /\ sess'[t].batch \subseteq sess[t].todo
         /\ \A u \in sess'[t].batch, v \in sess'[t].todo : u < v
         /\ sess'[t].got = {m \in mail[sess[t].box] : m.uid \in sess'[t].batch}
         /\ pc'[t] = "store"
PROOF
  <1>1. PICK batch \in SUBSET sess[t].todo :
          /\ \A u \in batch, v \in sess[t].todo \ batch : u < v
          /\ sess' = [sess EXCEPT
                        ![t].todo  = @ \ batch,
                        ![t].batch = batch,
                        ![t].got   = {m \in mail[sess[t].box] : m.uid \in batch}]
    BY DEF Fetch
  <1>2. sess[t] \in Session /\ sess \in [Thread -> Session] /\ pc \in [Thread -> PC]
    BY DEF Typed, TypeOK
  <1> DEFINE got == {m \in mail[sess[t].box] : m.uid \in batch}
  <1>3. /\ sess'[t].box = sess[t].box /\ sess'[t].epoch = sess[t].epoch
        /\ sess'[t].todo = sess[t].todo \ batch /\ sess'[t].batch = batch
        /\ sess'[t].got = got
    <2>1. sess' = [sess EXCEPT ![t].todo = @ \ batch, ![t].batch = batch, ![t].got = got]
      BY <1>1
    <2> HIDE DEF got
    <2>2. QED
      BY <1>2, <2>1 DEF Session
  <1>4. pc'[t] = "store"
    BY <1>2 DEF Fetch, Go
  <1>5. QED
    BY <1>1, <1>3, <1>4

LEMMA StoreEffect ==
  ASSUME Typed, NEW t \in Thread, Store(t)
  PROVE  /\ sess'[t].box = sess[t].box /\ sess'[t].epoch = sess[t].epoch
         /\ sess'[t].todo = sess[t].todo /\ sess'[t].batch = sess[t].batch
         /\ sess'[t].got \subseteq sess[t].got
         /\ pc' = pc
PROOF
  <1>1. PICK m \in sess[t].got : sess' = [sess EXCEPT ![t].got = @ \ {m}]
    BY DEF Store
  <1>2. sess[t] \in Session /\ sess \in [Thread -> Session]
    BY DEF Typed, TypeOK
  <1>3. QED
    BY <1>1, <1>2 DEF Session, Store

\* A row of the vault was there before, or was stored in this step.
LEMMA EmailsStep ==
  ASSUME [Next]_vars, NEW row \in emails'
  PROVE  \/ row \in emails
         \/ \E t \in Thread : /\ Store(t)
                              /\ \E g \in sess[t].got :
                                   row = [account |-> Task(t).account, epoch |-> sess[t].epoch,
                                          uid |-> g.uid, msg |-> g.msg, day |-> g.day]
PROOF
  <1>1. ASSUME NEW t \in Thread, Step(t), ~Store(t) PROVE emails' = emails
    BY <1>1 DEF Step, ReadGaps, CreateJob, CreateJobRefused, ClaimJob, Respond, LoadAccount, Search,
       Fetch, SessionLost, StoreRefused, Checkpoint, ReadCoverage, WriteCoverage,
       WriteCoverageRefused, MarkDone, MarkFailed, tables
  <1>2. ASSUME NEW t \in Thread, Store(t)
        PROVE  \/ row \in emails
               \/ \E g \in sess[t].got :
                    row = [account |-> Task(t).account, epoch |-> sess[t].epoch,
                           uid |-> g.uid, msg |-> g.msg, day |-> g.day]
    BY <1>2 DEF Store
  <1>3. emails' \subseteq emails \/ \E t \in Thread : Step(t)
    BY DEF Next, Request, ClaimNextJob, ErrorCaught, ErrorEscapes, CreateAccount, Deliver, Expunge,
       ResetUidValidity, DeleteAccount, RetryJob, Crash, Startup, NextDay, vars, tables
  <1>4. QED
    BY <1>1, <1>2, <1>3

\* The covered days change when a job's range is recorded or a mailbox is deleted.
LEMMA CoveredStep ==
  ASSUME [Next]_vars
  PROVE  \/ covered' = covered
         \/ covered' \subseteq covered /\ \E acc \in accounts : DeleteAccount(acc.id)
         \/ \E t \in Thread : WriteCoverage(t)
PROOF
  <1>1. ASSUME NEW t \in Thread, Step(t), ~WriteCoverage(t) PROVE covered' = covered
    BY <1>1 DEF Step, ReadGaps, CreateJob, CreateJobRefused, ClaimJob, Respond, LoadAccount, Search,
       Fetch, SessionLost, Store, StoreRefused, Checkpoint, ReadCoverage, WriteCoverageRefused,
       MarkDone, MarkFailed, tables
  <1>2. QED
    BY <1>1 DEF Next, Request, ClaimNextJob, ErrorCaught, ErrorEscapes, CreateAccount, Deliver,
       Expunge, ResetUidValidity, DeleteAccount, RetryJob, Crash, Startup, NextDay, vars, tables

-----------------------------------------------------------------------------
(* What one step changes of the jobs and of the queues *)

Queued(t) == {queue[t][k] : k \in 1 .. Len(queue[t])}

Same(j, q) == j.id = q.id /\ j.account = q.account /\ j.range = q.range

\* q is a copy of a job that was pending and that this step has claimed.
Claimed(q) ==
  \E j \in jobs : /\ j.status = "pending" /\ Same(j, q) /\ q.checkpoint = j.checkpoint
                  /\ \A k \in jobs' : k.id = q.id => k.status = "running"

LEMMA TaskIsQueued ==
  ASSUME Typed, NEW t \in Thread, pc[t] \in RunPC
  PROVE  Task(t) \in Queued(t) /\ Task(t) \in Job
PROOF
  <1>1. queue[t] # <<>> /\ queue[t] \in Seq(Job)
    BY DEF Typed, TypeOK
  <1>2. Task(t) = queue[t][1] /\ 1 \in 1 .. Len(queue[t]) /\ Task(t) \in Job
    BY <1>1, TailOfQueue DEF Task
  <1>3. QED
    BY <1>2 DEF Queued

LEMMA QueuedAreJobs ==
  ASSUME Typed, NEW t \in Thread PROVE Queued(t) \subseteq Job
PROOF BY DEF Typed, TypeOK, Queued

\* A claim by id: the job is then running, and its copy is the last of the queue.
LEMMA ClaimStep ==
  ASSUME Typed, NEW t \in Thread, NEW j \in jobs, j.status = "pending",
         SetStatus(j.id, "running"), NEW q \in Queued(t)',
         \/ queue'[t] = Append(queue[t], [j EXCEPT !.status = "running"])
         \/ queue'[t] = <<[j EXCEPT !.status = "running"]>>
  PROVE  q \in Queued(t) \/ Claimed(q)
PROOF
  <1> DEFINE claimed == [j EXCEPT !.status = "running"]
  <1>0. queue[t] \in Seq(Job) /\ j \in Job /\ jobs \subseteq Job
    BY DEF Typed, TypeOK
  <1>1. claimed \in Job /\ Same(j, claimed) /\ claimed.checkpoint = j.checkpoint
        /\ claimed.id = j.id
    BY <1>0 DEF Job, Same
  <1>2. \A k \in jobs' : k.id = j.id => k.status = "running"
    <2>1. ASSUME NEW k \in jobs', k.id = j.id PROVE k.status = "running"
      <3>1. PICK r \in jobs : k = IF r.id = j.id THEN [r EXCEPT !.status = "running"] ELSE r
        BY DEF SetStatus
      <3>2. r \in Job
        BY <1>0
      <3>3. QED
        BY <2>1, <3>1, <3>2 DEF Job
    <2>2. QED
      BY <2>1
  <1>3. Claimed(claimed)
    BY <1>1, <1>2 DEF Claimed
  <1> HIDE DEF claimed
  <1>4. PICK k \in 1 .. Len(queue'[t]) : q = queue'[t][k]
    BY DEF Queued
  <1>5. CASE queue'[t] = Append(queue[t], claimed)
    <2>1. k = Len(queue[t]) + 1 \/ k \in 1 .. Len(queue[t])
      BY <1>0, <1>1, <1>4, <1>5, AppendToQueue
    <2>2. QED
      BY <1>0, <1>1, <1>3, <1>4, <1>5, <2>1, AppendToQueue DEF Queued
  <1>6. CASE queue'[t] = <<claimed>>
    BY <1>3, <1>4, <1>6
  <1>7. QED
    BY <1>5, <1>6 DEF claimed

\* An entry of a queue was there before, or was claimed in this step.
LEMMA QueueStep ==
  ASSUME Typed, [Next]_vars, NEW t \in Thread, NEW q \in Queued(t)'
  PROVE  q \in Queued(t) \/ Claimed(q)
PROOF
  <1>0. queue \in [Thread -> Seq(Job)]
    BY DEF Typed, TypeOK
  <1>1. ASSUME queue'[t] = queue[t] PROVE q \in Queued(t)
    BY <1>1 DEF Queued
  <1>2. ASSUME queue'[t] = <<>> PROVE FALSE
    BY <1>2 DEF Queued
  <1>3. CASE MarkDone(t) \/ MarkFailed(t)
    <2>1. queue'[t] = Tail(queue[t]) /\ queue[t] # <<>> /\ queue[t] \in Seq(Job)
      BY <1>0, <1>3 DEF MarkDone, MarkFailed, NextTask, Typed, RunPC
    <2>2. PICK k \in 1 .. Len(Tail(queue[t])) : q = Tail(queue[t])[k]
      BY <2>1 DEF Queued
    <2>3. k + 1 \in 1 .. Len(queue[t]) /\ q = queue[t][k + 1]
      BY <2>1, <2>2, TailOfQueue
    <2>4. QED
      BY <2>3 DEF Queued
  <1>4. CASE ClaimJob(t)
    <2>1. CASE UNCHANGED queue
      BY <1>1, <2>1
    <2>2. CASE ~UNCHANGED queue
      BY <1>0, <1>4, <2>2, ClaimStep DEF ClaimJob
    <2>3. QED
      BY <2>1, <2>2
  <1>5. CASE ClaimNextJob(t)
    BY <1>0, <1>5, ClaimStep DEF ClaimNextJob
  <1>6. CASE CreateJobRefused(t) \/ WriteCoverageRefused(t) \/ ErrorEscapes(t)
    BY <1>0, <1>2, <1>6 DEF CreateJobRefused, WriteCoverageRefused, ErrorEscapes, Abandon
  <1>7. CASE Crash
    BY <1>2, <1>7 DEF Crash
  <1>8. CASE ThreadSame(t)
    BY <1>1, <1>8 DEF ThreadSame
  <1>9. CASE Step(t)
    BY <1>1, <1>3, <1>4, <1>6, <1>9 DEF Step, ReadGaps, CreateJob, Respond, LoadAccount, Search,
       Fetch, SessionLost, Store, StoreRefused, Checkpoint, ReadCoverage, WriteCoverage, local
  <1>10. CASE ThreadStep(t) /\ ~Step(t)
    BY <1>1, <1>5, <1>6, <1>10 DEF ThreadStep, ErrorCaught, Request, local
  <1>11. QED
    BY <1>7, <1>8, <1>9, <1>10, OneThread

\* Row k of the jobs is row j as it was, but for its status.
Restated(j, k) ==
  /\ Same(j, k) /\ k.checkpoint = j.checkpoint
  /\ k.status = "pending" => j.status = "pending" \/ used'["retry"] # 0
  /\ k.status = "done" =>
       j.status = "done" \/ \E t \in Thread : pc[t] = "done" /\ Task(t).id = k.id

Created(k) ==
  /\ k.status = "pending" /\ k.checkpoint = 0
  /\ \A j \in jobs : j.id # k.id
  /\ \E t \in Thread : pc[t] = "create" /\ k.account = want[t].account /\ k.range \in gaps[t]

\* Row k is row j, with the checkpoint that thread t has written.
Advanced(j, k, t) ==
  /\ Checkpoint(t) /\ j.id = Task(t).id
  /\ Same(j, k) /\ k.status = j.status
  /\ k.checkpoint \in sess[t].batch
  /\ \A u \in sess[t].batch : u <= k.checkpoint

LEMMA JobsStep ==
  ASSUME Typed, [Next]_vars, NEW k \in jobs'
  PROVE  \/ \E j \in jobs : Restated(j, k)
         \/ Created(k)
         \/ \E j \in jobs, t \in Thread : Advanced(j, k, t)
PROOF
  <1>0. jobs \subseteq Job
    BY DEF Typed, TypeOK
  <1>1. ASSUME k \in jobs PROVE \E j \in jobs : Restated(j, k)
    BY <1>1 DEF Restated, Same
  <1>2. ASSUME NEW i, NEW s, SetStatus(i, s),
               s = "pending" => used'["retry"] # 0,
               s = "done" => \E t \in Thread : pc[t] = "done" /\ Task(t).id = i
        PROVE  \E j \in jobs : Restated(j, k)
    <2>1. PICK j \in jobs : k = IF j.id = i THEN [j EXCEPT !.status = s] ELSE j
      BY <1>2 DEF SetStatus
    <2>2. j \in Job
      BY <1>0
    <2>3. Restated(j, k)
      BY <1>2, <2>1, <2>2 DEF Restated, Same, Job
    <2>4. QED
      BY <2>3
  <1>3. ASSUME NEW t \in Thread, CreateJob(t) PROVE k \in jobs \/ Created(k)
    <2>1. PICK g \in gaps[t], i \in NextRowId(jobs) :
            jobs' = jobs \cup {[id |-> i, account |-> want[t].account, range |-> g,
                                status |-> "pending", checkpoint |-> 0]}
      BY <1>3 DEF CreateJob
    <2>2. \A j \in jobs : j.id # i
      BY <1>0, NewRowId DEF Job
    <2>3. QED
      BY <1>3, <2>1, <2>2 DEF CreateJob, Created
  <1>4. ASSUME NEW t \in Thread, Checkpoint(t)
        PROVE  \E j \in jobs : Restated(j, k) \/ Advanced(j, k, t)
    <2>1. PICK last \in sess[t].batch :
            /\ \A u \in sess[t].batch : u <= last
            /\ jobs' = {IF j.id = Task(t).id THEN [j EXCEPT !.checkpoint = last] ELSE j :
                        j \in jobs}
      BY <1>4 DEF Checkpoint
    <2>2. PICK j \in jobs : k = IF j.id = Task(t).id THEN [j EXCEPT !.checkpoint = last] ELSE j
      BY <2>1
    <2>3. j \in Job
      BY <1>0
    <2>4. CASE j.id = Task(t).id
      BY <1>4, <2>1, <2>2, <2>3, <2>4 DEF Advanced, Same, Job
    <2>5. CASE j.id # Task(t).id
      BY <2>2, <2>5 DEF Restated, Same
    <2>6. QED
      BY <2>4, <2>5
  <1>5. ASSUME Startup PROVE \E j \in jobs : Restated(j, k)
    <2>1. PICK j \in jobs : k = IF j.status = "running" THEN [j EXCEPT !.status = "failed"] ELSE j
      BY <1>5 DEF Startup
    <2>2. j \in Job
      BY <1>0
    <2>3. Restated(j, k)
      BY <2>1, <2>2 DEF Restated, Same, Job
    <2>4. QED
      BY <2>3
  <1>6. ASSUME NEW t \in Thread, ClaimJob(t) \/ ClaimNextJob(t) \/ MarkDone(t) \/ MarkFailed(t)
        PROVE  \E j \in jobs : Restated(j, k)
    <2>1. CASE ClaimJob(t) \/ ClaimNextJob(t)
      <3>1. jobs' = jobs \/ \E i : SetStatus(i, "running")
        BY <2>1 DEF ClaimJob, ClaimNextJob
      <3>2. QED
        BY <1>1, <1>2, <3>1
    <2>2. CASE MarkDone(t)
      BY <1>2, <2>2 DEF MarkDone
    <2>3. CASE MarkFailed(t)
      BY <1>2, <2>3 DEF MarkFailed
    <2>4. QED
      BY <1>6, <2>1, <2>2, <2>3
  <1>7. ASSUME NEW j \in jobs, RetryJob(j) PROVE \E i \in jobs : Restated(i, k)
    BY <1>2, <1>7, SpentIsUsed, EventsType DEF RetryJob
  <1>8. ASSUME NEW acc \in accounts, DeleteAccount(acc.id) PROVE k \in jobs
    BY <1>8 DEF DeleteAccount
  <1>9. CASE JobStep
    BY <1>1, <1>3, <1>4, <1>5, <1>6, <1>7, <1>8, <1>9 DEF JobStep, CreateJobRefused,
       WriteCoverageRefused, ErrorEscapes, Crash, tables
  <1>10. QED
    BY <1>1, <1>9, JobStepOrElsewhere DEF Elsewhere

\* No row of the jobs goes away, or changes its account or range.
LEMMA JobsStay ==
  ASSUME Typed, [Next]_vars, NoneDeleted', NEW j \in jobs PROVE \E k \in jobs' : Same(j, k)
PROOF
  <1>0. j \in Job
    BY DEF Typed, TypeOK
  <1>1. CASE jobs \subseteq jobs'
    BY <1>1 DEF Same
  <1>2. ASSUME NEW i, NEW s, SetStatus(i, s) PROVE \E k \in jobs' : Same(j, k)
    <2> DEFINE k == IF j.id = i THEN [j EXCEPT !.status = s] ELSE j
    <2>1. Same(j, k)
      BY <1>0 DEF Same, Job
    <2>2. k \in jobs'
      BY <1>2 DEF SetStatus
    <2> HIDE DEF k
    <2>3. QED
      BY <2>1, <2>2
  <1>3. ASSUME NEW t \in Thread, Checkpoint(t) PROVE \E k \in jobs' : Same(j, k)
    <2>1. PICK last :
            jobs' = {IF r.id = Task(t).id THEN [r EXCEPT !.checkpoint = last] ELSE r : r \in jobs}
      BY <1>3 DEF Checkpoint
    <2> DEFINE k == IF j.id = Task(t).id THEN [j EXCEPT !.checkpoint = last] ELSE j
    <2>2. Same(j, k)
      BY <1>0 DEF Same, Job
    <2>3. k \in jobs'
      BY <2>1
    <2> HIDE DEF k
    <2>4. QED
      BY <2>2, <2>3
  <1>4. ASSUME Startup PROVE \E k \in jobs' : Same(j, k)
    <2> DEFINE k == IF j.status = "running" THEN [j EXCEPT !.status = "failed"] ELSE j
    <2>1. Same(j, k)
      BY <1>0 DEF Same, Job
    <2>2. k \in jobs'
      BY <1>4 DEF Startup
    <2> HIDE DEF k
    <2>3. QED
      BY <2>1, <2>2
  <1>5. ASSUME NEW acc \in accounts, DeleteAccount(acc.id) PROVE FALSE
    BY <1>5, SpentIsUsed, EventsType DEF DeleteAccount, NoneDeleted
  <1>6. CASE JobStep
    BY <1>1, <1>2, <1>3, <1>4, <1>5, <1>6
       DEF JobStep, CreateJob, ClaimJob, ClaimNextJob, MarkDone, MarkFailed, RetryJob,
           CreateJobRefused, WriteCoverageRefused, ErrorEscapes, Crash, tables
  <1>7. QED
    BY <1>1, <1>6, JobStepOrElsewhere DEF Elsewhere

-----------------------------------------------------------------------------
(* The invariant: accounts, jobs and threads *)

Outside == {"idle", "gaps", "create", "claim", "load"}

\* What a thread holds where it is.
Phase(t) ==
  /\ pc[t] \in Outside => sess[t] = NoSession
  /\ pc[t] = "search" => sess[t].epoch = 1
  /\ pc[t] \notin {"store", "fail"} => sess[t].got = {}
  /\ pc[t] \in {"merge", "cover", "done"} => sess[t].todo = {}
  /\ pc[t] = "fetch" => sess[t].todo # {}
  /\ pc[t] # "cover" => seen[t] = {}

Phases == \A t \in Thread : Phase(t)

\* Account ids are unique.
OneRow == NoneDeleted => \A a, b \in accounts : a.id = b.id => a = b

\* A queued job has its row.
Matched == NoneDeleted => \A t \in Thread : \A q \in Queued(t) : \E j \in jobs : Same(j, q)

\* A session is of the mailbox of the job's account.
Boxed ==
  NoneDeleted => \A t \in Thread : pc[t] \in Inside =>
    \E acc \in accounts : acc.id = Task(t).account /\ acc.box = sess[t].box

\* A session never runs ahead of the folder's numbering.
Epochs ==
  /\ \A t \in Thread : sess[t].epoch <= epoch[sess[t].box]
  /\ used["reset"] = 0 => /\ \A b \in Box : epoch[b] = 1
                          /\ \A t \in Thread : sess[t].epoch = 1

\* Without ranges into the future, everything that is asked, run or covered is over.
Past ==
  NoneDeleted /\ ~MayAskToday =>
    /\ \A j \in jobs : j.range.to <= today
    /\ \A p \in covered : p[2] < today
    /\ \A t \in Thread :
         /\ pc[t] \in {"gaps", "create", "claim"} => want[t].range.to <= today
         /\ \A g \in gaps[t] : g.to <= today
         /\ \A q \in Queued(t) : q.range.to <= today
         /\ \A d \in seen[t] : d < today

LEMMA PhasesNext ==
  ASSUME Typed, Phases, [Next]_vars PROVE Phases'
PROOF
  <1> SUFFICES ASSUME NEW t \in Thread PROVE Phase(t)'
    BY DEF Phases
  <1>0. /\ pc \in [Thread -> PC] /\ sess \in [Thread -> Session]
        /\ seen \in [Thread -> SUBSET Day] /\ sess[t] \in Session
        /\ Phase(t)
    BY DEF Typed, TypeOK, Phases
  <1>n. NoSession.got = {} /\ NoSession.epoch = 1 /\ NoSession.todo = {}
    BY DEF NoSession
  \* The thread has left run_job, or never was in it.
  <1>1. ASSUME sess'[t] = NoSession, pc'[t] \in Outside, seen'[t] = {} PROVE Phase(t)'
    BY <1>1, <1>n DEF Phase, Outside
  <1>2. CASE ThreadSame(t)
    BY <1>0, <1>2 DEF ThreadSame, Phase
  <1>3. CASE Crash
    BY <1>1, <1>3 DEF Crash, Outside
  <1>4. ASSUME Abandon(t) PROVE Phase(t)'
    BY <1>0, <1>1, <1>4 DEF Abandon, Go, DropRun, Outside
  <1>5. CASE MarkDone(t) \/ MarkFailed(t)
    BY <1>0, <1>1, <1>5 DEF MarkDone, MarkFailed, NextTask, Go, DropRun, Outside
  <1>6. CASE \/ ReadGaps(t) \/ CreateJob(t) \/ ClaimJob(t) \/ Respond(t) \/ ClaimNextJob(t)
             \/ \E acc \in accounts, r \in Range : Request(t, acc.id, r)
    <2>1. pc[t] \in Outside /\ pc'[t] \in Outside /\ UNCHANGED <<sess, seen>>
      BY <1>0, <1>6 DEF ReadGaps, CreateJob, ClaimJob, Respond, ClaimNextJob, Request, Go, Outside
    <2>2. QED
      BY <1>0, <1>1, <2>1 DEF Phase, Outside
  <1>7. CASE LoadAccount(t)
    <2>1. sess[t] = NoSession /\ seen'[t] = {} /\ pc'[t] \in {"search", "fail"}
      BY <1>0, <1>7 DEF LoadAccount, Phase, Outside, Go
    <2>2. sess'[t].got = {} /\ sess'[t].epoch = 1
      BY <1>0, <1>7, <1>n, <2>1 DEF LoadAccount, Session
    <2>3. QED
      BY <2>1, <2>2 DEF Phase, Outside
  <1>8. CASE Search(t)
    <2>1. PICK todo : /\ sess' = [sess EXCEPT ![t].epoch = epoch[sess[t].box], ![t].todo = todo]
                      /\ NextBatch(t, todo) /\ pc[t] = "search" /\ seen' = seen
      BY <1>8 DEF Search
    <2>2. sess'[t].got = {} /\ sess'[t].todo = todo
      BY <1>0, <2>1 DEF Phase, Session
    <2>3. QED
      BY <1>0, <2>1, <2>2 DEF Phase, Outside, NextBatch, Go
  <1>9. CASE Fetch(t)
    BY <1>0, <1>9 DEF Fetch, Go, Phase, Outside
  <1>10. CASE Store(t)
    BY <1>0, <1>10 DEF Store, Phase, Outside
  <1>11. CASE Checkpoint(t)
    BY <1>0, <1>11 DEF Checkpoint, NextBatch, Go, Phase, Outside, local
  <1>12. CASE ReadCoverage(t) \/ WriteCoverage(t)
    BY <1>0, <1>12 DEF ReadCoverage, WriteCoverage, Go, Phase, Outside
  <1>13. CASE SessionLost(t) \/ StoreRefused(t) \/ ErrorCaught(t)
    BY <1>0, <1>13 DEF SessionLost, StoreRefused, ErrorCaught, Go, Phase, Outside, local
  <1>14. CASE CreateJobRefused(t) \/ WriteCoverageRefused(t) \/ ErrorEscapes(t)
    BY <1>4, <1>14 DEF CreateJobRefused, WriteCoverageRefused, ErrorEscapes
  <1>15. QED
    BY <1>2, <1>3, <1>5, <1>6, <1>7, <1>8, <1>9, <1>10, <1>11, <1>12, <1>13, <1>14, OneThread
       DEF ThreadStep, Step

LEMMA OneRowNext ==
  ASSUME Typed, OneRow, [Next]_vars PROVE OneRow'
PROOF
  <1> SUFFICES ASSUME NoneDeleted', NEW a \in accounts', NEW b \in accounts', a.id = b.id
               PROVE  a = b
    BY DEF OneRow
  <1>1. NoneDeleted /\ TablesGrow
    BY CalmBefore, TablesStep
  <1>2. QED
    BY <1>1 DEF OneRow, TablesGrow

LEMMA MatchedNext ==
  ASSUME Typed, Matched, [Next]_vars PROVE Matched'
PROOF
  <1> SUFFICES ASSUME NoneDeleted', NEW t \in Thread, NEW q \in Queued(t)'
               PROVE  \E j \in jobs' : Same(j, q)
    BY DEF Matched
  <1>1. NoneDeleted
    BY CalmBefore
  <1>2. PICK j \in jobs : Same(j, q)
    BY <1>1, QueueStep DEF Matched, Claimed
  <1>3. PICK k \in jobs' : Same(j, k)
    BY JobsStay
  <1>4. QED
    BY <1>2, <1>3 DEF Same

LEMMA BoxedNext ==
  ASSUME Typed, Boxed, [Next]_vars PROVE Boxed'
PROOF
  <1> SUFFICES ASSUME NoneDeleted', NEW t \in Thread, pc'[t] \in Inside
               PROVE  \E acc \in accounts' : acc.id = Task(t).account' /\ acc.box = sess'[t].box
    BY DEF Boxed
  <1>0. /\ NoneDeleted /\ TablesGrow /\ Task(t)' = Task(t)
        /\ sess \in [Thread -> Session] /\ sess[t] \in Session /\ pc \in [Thread -> PC]
    BY CalmBefore, TablesStep, InsideStep DEF Typed, TypeOK
  <1>1. ASSUME pc[t] \in Inside, sess'[t].box = sess[t].box
        PROVE  \E acc \in accounts' : acc.id = Task(t).account' /\ acc.box = sess'[t].box
    BY <1>0, <1>1 DEF Boxed, TablesGrow
  <1>2. CASE LoadAccount(t)
    <2>1. PICK acc \in accounts : acc.id = Task(t).account
                                  /\ sess' = [sess EXCEPT ![t].box = acc.box]
      BY <1>0, <1>2 DEF LoadAccount, Go, Inside
    <2>2. sess'[t].box = acc.box
      BY <1>0, <2>1 DEF Session
    <2>3. QED
      BY <1>0, <2>1, <2>2 DEF TablesGrow
  <1>3. CASE Search(t) \/ Fetch(t) \/ Store(t)
    BY <1>1, <1>3, SearchEffect, FetchEffect, StoreEffect DEF Search, Fetch, Store, Inside
  <1>4. CASE Checkpoint(t) \/ ReadCoverage(t) \/ WriteCoverage(t)
    BY <1>1, <1>4 DEF Checkpoint, ReadCoverage, WriteCoverage, Inside, local
  <1>5. CASE ThreadSame(t)
    BY <1>1, <1>5 DEF ThreadSame
  <1>6. QED
    BY <1>2, <1>3, <1>4, <1>5, InsideStep DEF RunStep

LEMMA EpochsNext ==
  ASSUME Typed, Phases, Epochs, [Next]_vars PROVE Epochs'
PROOF
  <1>0. /\ sess \in [Thread -> Session] /\ epoch \in [Box -> RowId] /\ RowId \subseteq Nat
        /\ sess' \in [Thread -> Session] /\ epoch' \in [Box -> RowId]
        /\ \A n \in RowId : 1 <= n
    BY NextTyped DEF Typed, TypeOK, RowId
  <1>1. \A b \in Box : epoch[b] <= epoch'[b] /\ (used'["reset"] = 0 => epoch'[b] = epoch[b])
    <2> SUFFICES ASSUME NEW b \in Box
                 PROVE  epoch[b] <= epoch'[b] /\ (used'["reset"] = 0 => epoch'[b] = epoch[b])
      OBVIOUS
    <2>1. epoch[b] \in Nat /\ epoch'[b] \in Nat
      BY <1>0
    <2>2. QED
      BY <2>1, MailStep DEF MailMoves, FolderKeeps, FolderRenumbered
  <1>2. used'["reset"] = 0 => used["reset"] = 0
    BY CalmBefore
  <1>n. NoSession.epoch = 1 /\ NoSession.box \in Box
    BY NoSessionType DEF NoSession, Session
  <1>3. ASSUME NEW t \in Thread
        PROVE  /\ sess'[t].epoch <= epoch'[sess'[t].box]
               /\ used'["reset"] = 0 => sess'[t].epoch = 1
    <2>0. sess[t] \in Session /\ sess[t].box \in Box /\ sess[t].epoch <= epoch[sess[t].box]
          /\ epoch[sess[t].box] \in RowId /\ sess[t].epoch \in RowId
      BY <1>0 DEF Session, Epochs
    <2>1. ASSUME sess'[t].box = sess[t].box, sess'[t].epoch = sess[t].epoch
          PROVE  /\ sess'[t].epoch <= epoch'[sess'[t].box]
                 /\ used'["reset"] = 0 => sess'[t].epoch = 1
      <3>1. epoch'[sess[t].box] \in Nat /\ epoch[sess[t].box] \in Nat /\ sess[t].epoch \in Nat
        BY <1>0, <2>0
      <3>2. sess[t].epoch <= epoch'[sess[t].box]
        BY <1>1, <2>0, <3>1
      <3>3. QED
        BY <1>2, <2>1, <3>2 DEF Epochs
    <2>2. ASSUME sess'[t].box \in Box, sess'[t].epoch = 1
          PROVE  /\ sess'[t].epoch <= epoch'[sess'[t].box]
                 /\ used'["reset"] = 0 => sess'[t].epoch = 1
      BY <1>0, <2>2
    <2>3. CASE LoadAccount(t)
      <3>1. sess[t].epoch = 1
        BY <1>n, <2>3 DEF LoadAccount, Phases, Phase, Outside
      <3>2. sess'[t].epoch = sess[t].epoch /\ sess'[t].box \in Box
        BY <1>0, <2>0, <2>3 DEF LoadAccount, Session
      <3>3. QED
        BY <2>2, <3>1, <3>2
    <2>4. CASE Search(t)
      <3>1. sess'[t].epoch = epoch[sess[t].box] /\ sess'[t].box = sess[t].box /\ epoch' = epoch
        BY <2>4, SearchEffect DEF Search, server
      <3>2. epoch[sess[t].box] \in Nat
        BY <1>0, <2>0
      <3>3. QED
        BY <1>2, <2>0, <3>1, <3>2 DEF Epochs
    <2>5. CASE Fetch(t) \/ Store(t)
      BY <2>1, <2>5, FetchEffect, StoreEffect
    <2>6. QED
      BY <1>n, <2>1, <2>2, <2>3, <2>4, <2>5, SessStep
  <1>4. QED
    BY <1>1, <1>2, <1>3 DEF Epochs

-----------------------------------------------------------------------------
(* The invariant: what is fetched is over *)

LEMMA GapEnds ==
  ASSUME NEW r \in Range, NEW days, NEW g \in GapsOf(r, days) PROVE g.to <= r.to
PROOF
  <1>1. g \in Range /\ Days(g) \subseteq Days(r) /\ LastDay \in Nat
    BY ConstantsAssumption DEF GapsOf
  <1>2. /\ g.from \in Nat /\ g.to \in Nat /\ r.to \in Nat
        /\ g.from < g.to /\ g.to <= LastDay + 1
    BY <1>1 DEF Range, Day
  <1>3. g.to - 1 \in Day /\ g.from <= g.to - 1 /\ g.to - 1 < g.to
    BY <1>1, <1>2 DEF Day
  <1>4. g.to - 1 < r.to
    BY <1>1, <1>3 DEF Days
  <1>5. QED
    BY <1>2, <1>4

LEMMA PastNext ==
  ASSUME Typed, Phases, Past, [Next]_vars PROVE Past'
PROOF
  <1> SUFFICES ASSUME NoneDeleted', ~MayAskToday PROVE Past'
    BY DEF Past
  <1>0. /\ LastDay \in Nat /\ NoneDeleted /\ Typed' /\ today \in Nat /\ today' \in Nat
        /\ today <= today'
    BY CalmBefore, NextTyped, TablesStep, ConstantsAssumption
       DEF Typed, TypeOK, Day, TablesGrow
  <1>a. /\ \A r \in Range : r.to \in Nat
        /\ \A d \in Day : d \in Nat
    BY <1>0 DEF Range, Day
  <1>b. /\ \A j \in jobs : j.range.to <= today
        /\ \A p \in covered : p[2] < today
        /\ \A t \in Thread :
             /\ pc[t] \in {"gaps", "create", "claim"} => want[t].range.to <= today
             /\ \A g \in gaps[t] : g.to <= today
             /\ \A q \in Queued(t) : q.range.to <= today
             /\ \A d \in seen[t] : d < today
    BY <1>0 DEF Past
  <1>c. /\ pc \in [Thread -> PC] /\ gaps \in [Thread -> SUBSET Range]
        /\ want \in [Thread -> [account : RowId, range : Range]]
        /\ seen \in [Thread -> SUBSET Day]
        /\ jobs \subseteq Job /\ covered \subseteq RowId \X Day
    BY DEF Typed, TypeOK
  <1>d. \A n \in Nat : n <= today => n <= today'
    BY <1>0
  <1>1. \A j \in jobs' : j.range.to <= today'
    <2> SUFFICES ASSUME NEW k \in jobs' PROVE k.range.to <= today
      BY <1>0, <1>a, <1>d DEF Typed, TypeOK, Job
    <2>1. CASE Created(k)
      BY <1>b, <2>1 DEF Created
    <2>2. QED
      BY <1>b, <2>1, JobsStep DEF Restated, Advanced, Same
  <1>2. \A p \in covered' : p[2] < today'
    <2>t. \A p \in covered' : p[2] \in Nat
      BY <1>0, <1>a DEF Typed, TypeOK
    <2> SUFFICES ASSUME NEW p \in covered' PROVE p[2] < today
      BY <1>0, <2>t
    <2>1. ASSUME NEW t \in Thread, WriteCoverage(t) PROVE p[2] < today
      <3>1. p \in covered \/ (p[2] \in seen[t] \/ p[2] \in Days(Task(t).range))
        BY <2>1 DEF WriteCoverage
      <3>2. ASSUME p[2] \in Days(Task(t).range) PROVE p[2] < today
        <4>1. Task(t) \in Queued(t) /\ Task(t).range \in Range
          BY <2>1, TaskIsQueued DEF WriteCoverage, RunPC, Job
        <4>2. p[2] \in Nat /\ p[2] < Task(t).range.to /\ Task(t).range.to <= today
          BY <1>a, <1>b, <3>2, <4>1 DEF Days
        <4>3. QED
          BY <1>0, <1>a, <4>1, <4>2
      <3>3. QED
        BY <1>b, <3>1, <3>2
    <2>2. covered' \subseteq covered \/ \E t \in Thread : WriteCoverage(t)
      BY CoveredStep
    <2>3. QED
      BY <1>b, <2>1, <2>2
  <1>3. ASSUME NEW t \in Thread
        PROVE  /\ pc'[t] \in {"gaps", "create", "claim"} => want'[t].range.to <= today
               /\ \A g \in gaps'[t] : g.to <= today
               /\ \A d \in seen'[t] : d < today
    <2> DEFINE Over == /\ pc'[t] \in {"gaps", "create", "claim"} => want'[t].range.to <= today
                       /\ \A g \in gaps'[t] : g.to <= today
                       /\ \A d \in seen'[t] : d < today
    <2>1. CASE ThreadSame(t)
      BY <1>b, <2>1 DEF ThreadSame
    <2>2. CASE Crash
      BY <2>2 DEF Crash
    <2>3. ASSUME Abandon(t) PROVE Over
      BY <1>c, <2>3 DEF Abandon, Go, DropRequest, DropRun
    <2>4. ASSUME NEW acc \in accounts, NEW r \in Range, Request(t, acc.id, r) PROVE Over
      BY <1>b, <1>c, <2>4 DEF Request, Go
    <2>5. CASE ReadGaps(t)
      <3>1. want[t].range \in Range /\ want[t].range.to <= today
        BY <1>b, <1>c, <2>5 DEF ReadGaps
      <3>2. \A g \in gaps'[t] : g \in Range /\ g.to <= want[t].range.to
        BY <1>c, <2>5, <3>1, GapEnds DEF ReadGaps, GapsOf
      <3>3. \A g \in gaps'[t] : g.to <= today
        BY <1>0, <1>a, <3>1, <3>2
      <3>4. QED
        BY <1>b, <1>c, <2>5, <3>1, <3>3 DEF ReadGaps, Go
    <2>6. CASE CreateJob(t)
      <3>1. gaps'[t] \subseteq gaps[t]
        BY <1>c, <2>6 DEF CreateJob
      <3>2. QED
        BY <1>b, <1>c, <2>6, <3>1 DEF CreateJob, Go
    <2>7. CASE ClaimJob(t) \/ ClaimNextJob(t)
      BY <1>b, <1>c, <2>7 DEF ClaimJob, ClaimNextJob, Go
    <2>8. CASE Respond(t)
      BY <1>b, <1>c, <2>8 DEF Respond, Go, DropRequest
    <2>9. CASE ReadCoverage(t)
      <3>1. seen'[t] = CoveredDays(Task(t).account)
        BY <1>c, <2>9 DEF ReadCoverage
      <3>2. \A d \in CoveredDays(Task(t).account) : d < today
        BY <1>b DEF CoveredDays
      <3>3. QED
        BY <1>b, <1>c, <2>9, <3>1, <3>2 DEF ReadCoverage, Go
    <2>10. CASE WriteCoverage(t)
      BY <1>b, <1>c, <2>10 DEF WriteCoverage, Go
    <2>11. CASE MarkDone(t) \/ MarkFailed(t)
      BY <1>b, <1>c, <2>11 DEF MarkDone, MarkFailed, NextTask, Go, DropRun
    <2>12. CASE LoadAccount(t) \/ Search(t) \/ Fetch(t) \/ Store(t)
      BY <1>b, <1>c, <2>12 DEF LoadAccount, Search, Fetch, Store, Go, NextBatch
    <2>13. CASE SessionLost(t) \/ StoreRefused(t) \/ Checkpoint(t) \/ ErrorCaught(t)
      BY <1>b, <1>c, <2>13 DEF SessionLost, StoreRefused, Checkpoint, ErrorCaught, Go, NextBatch,
         local
    <2>14. CASE CreateJobRefused(t) \/ WriteCoverageRefused(t) \/ ErrorEscapes(t)
      BY <2>3, <2>14 DEF CreateJobRefused, WriteCoverageRefused, ErrorEscapes
    <2> HIDE DEF Over
    <2>15. Over
      BY <2>1, <2>2, <2>4, <2>5, <2>6, <2>7, <2>8, <2>9, <2>10, <2>11, <2>12, <2>13, <2>14,
         OneThread DEF ThreadStep, Step, Over
    <2>16. QED
      BY <2>15 DEF Over
  <1>4. ASSUME NEW t \in Thread, NEW q \in Queued(t)' PROVE q.range.to <= today
    BY <1>b, <1>4, QueueStep DEF Claimed, Same
  <1>5. ASSUME NEW t \in Thread
        PROVE  /\ pc'[t] \in {"gaps", "create", "claim"} => want'[t].range.to <= today'
               /\ \A g \in gaps'[t] : g.to <= today'
               /\ \A q \in Queued(t)' : q.range.to <= today'
               /\ \A d \in seen'[t] : d < today'
    <2>1. /\ want'[t].range \in Range /\ gaps'[t] \subseteq Range /\ seen'[t] \subseteq Day
      BY <1>0 DEF Typed, TypeOK
    <2>q. \A q \in Queued(t)' : q.range \in Range
      <3>1. queue'[t] \in Seq(Job)
        BY <1>0 DEF Typed, TypeOK
      <3>2. \A k \in 1 .. Len(queue'[t]) : queue'[t][k] \in Job
        BY <3>1
      <3>3. \A q \in Queued(t)' : q \in Job
        BY <3>2 DEF Queued
      <3>4. QED
        BY <3>3 DEF Job
    <2>2. \A d \in Day : d < today => d < today'
      BY <1>0, <1>a
    <2>3. QED
      BY <1>3, <1>4, <1>a, <1>d, <2>1, <2>2, <2>q
  <1>6. QED
    BY <1>1, <1>2, <1>5 DEF Past

-----------------------------------------------------------------------------
(* The invariant: a UID names one message *)

\* Message msg is known under UID u of epoch e of mailbox b: by the folder, by
\* the vault of the mailbox's account, by a thread that has just fetched it.
InMail(b, e, u, msg) == e = epoch[b] /\ \E n \in mail[b] : n.uid = u /\ n.msg = msg

InVault(b, e, u, msg) ==
  \E row \in emails, acc \in accounts :
    /\ acc.id = row.account /\ acc.box = b
    /\ row.epoch = e /\ row.uid = u /\ row.msg = msg

InFlight(b, e, u, msg) ==
  \E t \in Thread : /\ sess[t].box = b /\ sess[t].epoch = e
                    /\ \E g \in sess[t].got : g.uid = u /\ g.msg = msg

Identified(b, e, u, msg) ==
  InMail(b, e, u, msg) \/ InVault(b, e, u, msg) \/ InFlight(b, e, u, msg)

Identity ==
  NoneDeleted =>
    \A b \in Box, e \in RowId, u \in RowId, msg \in RowId : Identified(b, e, u, msg) =>
      /\ e <= epoch[b]
      /\ e = epoch[b] => u < uidNext[b]
      /\ \A other \in RowId : Identified(b, e, u, other) => other = msg

\* Message msg has just arrived in the folder, or was just renumbered.
JustArrived(b, e, u, msg) ==
  /\ FolderKeeps(b) /\ e = epoch[b]
  /\ \E n \in mail'[b] \ mail[b] : Arrives(b, n) /\ n.uid = u /\ n.msg = msg

JustRenumbered(b, e, u, msg) ==
  /\ FolderRenumbered(b) /\ e = epoch'[b]
  /\ \E n \in mail'[b] : n.uid = u /\ n.msg = msg

LEMMA IdentifiedStep ==
  ASSUME Typed, RowsHaveAccount, Phases, OneRow, Boxed, [Next]_vars, NoneDeleted',
         NEW b \in Box, NEW e, NEW u, NEW msg, Identified(b, e, u, msg)'
  PROVE  \/ Identified(b, e, u, msg)
         \/ JustArrived(b, e, u, msg) \/ JustRenumbered(b, e, u, msg)
PROOF
  <1>0. NoneDeleted /\ TablesGrow /\ MailMoves
    BY CalmBefore, TablesStep, MailStep
  <1>1. CASE InMail(b, e, u, msg)'
    <2>1. PICK n \in mail'[b] : e = epoch'[b] /\ n.uid = u /\ n.msg = msg
      BY <1>1 DEF InMail
    <2>2. CASE FolderKeeps(b)
      BY <2>1, <2>2 DEF FolderKeeps, JustArrived, Identified, InMail
    <2>3. CASE FolderRenumbered(b)
      BY <2>1, <2>3 DEF JustRenumbered
    <2>4. QED
      BY <1>0, <2>2, <2>3 DEF MailMoves
  <1>2. CASE InVault(b, e, u, msg)'
    <2>1. PICK row \in emails', acc \in accounts' :
            /\ acc.id = row.account /\ acc.box = b
            /\ row.epoch = e /\ row.uid = u /\ row.msg = msg
      BY <1>2 DEF InVault
    <2>2. CASE row \in emails
      <3>1. PICK old \in accounts : old.id = row.account
        BY <2>2 DEF RowsHaveAccount, AccountExists
      <3>2. acc \in accounts
        BY <1>0, <2>1, <3>1 DEF TablesGrow
      <3>3. QED
        BY <2>1, <2>2, <3>2 DEF Identified, InVault
    <2>3. ASSUME NEW t \in Thread, Store(t), NEW g \in sess[t].got,
                 row = [account |-> Task(t).account, epoch |-> sess[t].epoch,
                        uid |-> g.uid, msg |-> g.msg, day |-> g.day]
          PROVE  Identified(b, e, u, msg)
      <3>1. PICK own \in accounts : own.id = Task(t).account /\ own.box = sess[t].box
        BY <1>0, <2>3 DEF Boxed, Store, Inside
      <3>2. acc \in accounts
        BY <2>3 DEF Store
      <3>3. acc = own
        BY <1>0, <2>1, <2>3, <3>1, <3>2 DEF OneRow
      <3>4. QED
        BY <2>1, <2>3, <3>1, <3>3 DEF Identified, InFlight
    <2>4. QED
      BY <2>2, <2>3, EmailsStep
  <1>3. CASE InFlight(b, e, u, msg)'
    <2>1. PICK t \in Thread : /\ sess'[t].box = b /\ sess'[t].epoch = e
                              /\ \E g \in sess'[t].got : g.uid = u /\ g.msg = msg
      BY <1>3 DEF InFlight
    <2>2. sess'[t].got # {}
      BY <2>1
    <2>3. ASSUME sess'[t].box = sess[t].box, sess'[t].epoch = sess[t].epoch,
                 sess'[t].got \subseteq sess[t].got
          PROVE  Identified(b, e, u, msg)
      BY <2>1, <2>3 DEF Identified, InFlight
    <2>4. CASE LoadAccount(t) \/ Search(t)
      <3>1. sess[t].got = {}
        BY <2>4 DEF LoadAccount, Search, Phases, Phase
      <3>2. sess'[t].got = sess[t].got
        BY <2>4, SearchEffect DEF LoadAccount, Typed, TypeOK, Session
      <3>3. QED
        BY <2>2, <3>1, <3>2
    <2>5. CASE Fetch(t)
      <3>1. /\ sess[t].box = b /\ e = epoch[b]
            /\ sess'[t].got \subseteq mail[b]
        BY <2>1, <2>5, FetchEffect DEF Fetch
      <3>2. QED
        BY <2>1, <3>1 DEF Identified, InMail
    <2>6. CASE sess'[t] = NoSession
      BY <2>2, <2>6 DEF NoSession
    <2>7. QED
      BY <2>3, <2>4, <2>5, <2>6, SessStep, StoreEffect
  <1>4. QED
    BY <1>1, <1>2, <1>3 DEF Identified

LEMMA IdentityNext ==
  ASSUME Typed, RowsHaveAccount, Phases, OneRow, Boxed, Identity, [Next]_vars
  PROVE  Identity'
PROOF
  <1> SUFFICES ASSUME NoneDeleted', NEW b \in Box, NEW e \in RowId, NEW u \in RowId,
                      NEW msg \in RowId, Identified(b, e, u, msg)'
               PROVE  /\ e <= epoch'[b]
                      /\ e = epoch'[b] => u < uidNext'[b]
                      /\ \A other \in RowId : Identified(b, e, u, other)' => other = msg
    BY DEF Identity
  <1>0. /\ NoneDeleted
        /\ e \in Nat /\ u \in Nat
        /\ epoch[b] \in Nat /\ epoch'[b] \in Nat /\ uidNext[b] \in Nat /\ uidNext'[b] \in Nat
    BY CalmBefore, NextTyped DEF Typed, TypeOK, RowId
  <1>1. \A m \in RowId : Identified(b, e, u, m)' =>
          Identified(b, e, u, m) \/ JustArrived(b, e, u, m) \/ JustRenumbered(b, e, u, m)
    BY IdentifiedStep
  <1>2. FolderKeeps(b) \/ FolderRenumbered(b)
    BY MailStep DEF MailMoves
  <1>k. FolderKeeps(b) => epoch'[b] = epoch[b] /\ uidNext'[b] >= uidNext[b]
    BY DEF FolderKeeps
  <1>r. FolderRenumbered(b) => epoch'[b] > epoch[b]
    BY DEF FolderRenumbered
  \* What was known keeps its place in the numbering.
  <1>3. ASSUME NEW m \in RowId, Identified(b, e, u, m)
        PROVE  /\ e <= epoch'[b] /\ (e = epoch'[b] => u < uidNext'[b])
               /\ ~JustArrived(b, e, u, msg) /\ ~JustRenumbered(b, e, u, msg)
               /\ \A other \in RowId : /\ Identified(b, e, u, other) => other = m
                                       /\ ~JustArrived(b, e, u, other)
                                       /\ ~JustRenumbered(b, e, u, other)
    <2>1. /\ e <= epoch[b] /\ (e = epoch[b] => u < uidNext[b])
          /\ \A other \in RowId : Identified(b, e, u, other) => other = m
      BY <1>0, <1>3 DEF Identity
    <2>2. e <= epoch'[b] /\ (e = epoch'[b] => u < uidNext'[b])
      BY <1>0, <1>2, <1>k, <1>r, <2>1
    <2>3. \A other : ~JustArrived(b, e, u, other)
      BY <1>0, <2>1 DEF JustArrived, Arrives
    <2>4. \A other : ~JustRenumbered(b, e, u, other)
      BY <1>0, <1>r, <2>1 DEF JustRenumbered
    <2>5. QED
      BY <2>1, <2>2, <2>3, <2>4
  \* What is new is below the next UID, and alone there.
  <1>4. ASSUME JustArrived(b, e, u, msg)
        PROVE  /\ e <= epoch'[b] /\ u < uidNext'[b]
               /\ \A other \in RowId : /\ JustArrived(b, e, u, other) => other = msg
                                       /\ ~JustRenumbered(b, e, u, other)
    <2>1. FolderKeeps(b) /\ e = epoch[b] /\ u < uidNext'[b]
      BY <1>4 DEF JustArrived, Arrives
    <2>2. \A other : JustArrived(b, e, u, other) => other = msg
      BY <1>4, <2>1 DEF JustArrived, FolderKeeps
    <2>3. \A other : ~JustRenumbered(b, e, u, other)
      BY <1>0, <1>k, <1>r, <2>1 DEF JustRenumbered
    <2>4. QED
      BY <1>0, <1>k, <2>1, <2>2, <2>3
  <1>5. ASSUME JustRenumbered(b, e, u, msg)
        PROVE  /\ e <= epoch'[b] /\ u < uidNext'[b]
               /\ \A other \in RowId : JustRenumbered(b, e, u, other) => other = msg
    <2>1. FolderRenumbered(b) /\ e = epoch'[b] /\ u < uidNext'[b]
      BY <1>5 DEF JustRenumbered, FolderRenumbered
    <2>2. \A other : JustRenumbered(b, e, u, other) => other = msg
      BY <1>5, <2>1 DEF JustRenumbered, FolderRenumbered
    <2>3. QED
      BY <1>0, <2>1, <2>2
  <1>6. \A other \in RowId : ~(JustArrived(b, e, u, other) /\ JustRenumbered(b, e, u, msg))
    BY <1>0, <1>k, <1>r DEF JustArrived, JustRenumbered
  <1>7. QED
    BY <1>1, <1>3, <1>4, <1>5, <1>6

\* In particular, messages of a folder are below its next UID.
LEMMA BelowNext ==
  ASSUME Typed, NoneDeleted, Identity, NEW b \in Box, NEW m \in mail[b]
  PROVE  m.uid < uidNext[b]
PROOF
  <1>1. m.uid \in RowId /\ m.msg \in RowId /\ epoch[b] \in RowId
    BY DEF Typed, TypeOK, Message
  <1>2. Identified(b, epoch[b], m.uid, m.msg)
    BY DEF Identified, InMail
  <1>3. QED
    BY <1>1, <1>2 DEF Identity

-----------------------------------------------------------------------------
(* The invariant: batches, checkpoints and what they leave behind *)

\* The UIDs a session has still to store.
Open(t) == sess[t].todo \cup (IF pc[t] = "store" THEN sess[t].batch ELSE {})

\* Batches are taken in the order of the UIDs, of messages that had arrived.
Ordered ==
  NoneDeleted => \A t \in Thread :
    /\ pc[t] = "store" => \A u \in sess[t].batch, v \in sess[t].todo : u < v
    /\ pc[t] \in {"fetch", "store"} /\ sess[t].epoch = epoch[sess[t].box] =>
         \A u \in Open(t) : u < uidNext[sess[t].box]

\* A job that was never retried is claimed without a checkpoint.
Fresh ==
  NoneDeleted /\ used["retry"] = 0 =>
    /\ \A j \in jobs : j.status = "pending" => j.checkpoint = 0
    /\ \A t \in Thread : \A q \in Queued(t) :
         q.checkpoint = 0 /\ \A j \in jobs : j.id = q.id => j.status # "pending"

\* What CheckpointSound says of one job; and the checkpoint is of a message that
\* has arrived.
SoundJob(j) ==
  \A acc \in accounts : acc.id = j.account =>
    /\ j.checkpoint < uidNext[acc.box]
    /\ \A m \in mail[acc.box] :
         m.uid <= j.checkpoint /\ m.day \in Days(j.range) => Stored(acc.id, m)

Sound ==
  NoneDeleted /\ used["reset"] = 0 =>
    /\ \A j \in jobs : SoundJob(j)
    /\ \A t \in Thread : \A q \in Queued(t) : SoundJob(q)

\* Where a message that a running job has to store may be: fetched and in hand,
\* still to be fetched (or to fail for, in a folder that was renumbered), arrived
\* too late for the search; otherwise it is stored.
InHand(t, m) == \E g \in sess[t].got : g.msg = m.msg /\ g.day = m.day

Ahead(t, m) ==
  /\ sess[t].todo # {}
  /\ sess[t].epoch = epoch[sess[t].box] => m.uid \in sess[t].todo

Late(t, m) == MayAskToday /\ \A u \in Open(t) : u < m.uid

Accounted(t, m) ==
  Stored(Task(t).account, m) \/ InHand(t, m) \/ Ahead(t, m) \/ Late(t, m)

Loop ==
  Calm => \A t \in Thread : pc[t] \in {"fetch", "store", "merge", "cover"} =>
    \A m \in mail[sess[t].box] : m.day \in Days(Task(t).range) => Accounted(t, m)

LEMMA StoredStays ==
  ASSUME emails \subseteq emails', NEW a, NEW m, NEW n, n.msg = m.msg, Stored(a, n)
  PROVE  Stored(a, m)'
PROOF BY DEF Stored

LEMMA OrderedNext ==
  ASSUME Typed, Phases, Epochs, Identity, Ordered, [Next]_vars PROVE Ordered'
PROOF
  <1> SUFFICES ASSUME NoneDeleted', NEW t \in Thread, pc'[t] \in {"fetch", "store"}
               PROVE  /\ pc'[t] = "store" => \A u \in sess'[t].batch, v \in sess'[t].todo : u < v
                      /\ sess'[t].epoch = epoch'[sess'[t].box] =>
                           \A u \in Open(t)' : u < uidNext'[sess'[t].box]
    BY DEF Ordered
  <1> DEFINE b == sess[t].box
  <1>0. /\ NoneDeleted /\ sess[t] \in Session /\ b \in Box
        /\ epoch[b] \in Nat /\ epoch'[b] \in Nat /\ uidNext[b] \in Nat /\ uidNext'[b] \in Nat
        /\ sess[t].epoch \in Nat /\ sess[t].todo \subseteq Nat /\ sess[t].batch \subseteq Nat
        /\ pc \in [Thread -> PC]
    BY CalmBefore, NextTyped DEF Typed, TypeOK, RowId, Session
  <1>a. /\ pc[t] = "store" => \A u \in sess[t].batch, v \in sess[t].todo : u < v
        /\ pc[t] \in {"fetch", "store"} /\ sess[t].epoch = epoch[b] =>
             \A u \in Open(t) : u < uidNext[b]
    BY <1>0 DEF Ordered
  <1> HIDE DEF b
  <1>1. CASE ThreadSame(t)
    <2>1. /\ Open(t)' = Open(t) /\ Open(t) \subseteq Nat /\ sess'[t] = sess[t] /\ pc'[t] = pc[t]
      BY <1>0, <1>1 DEF ThreadSame, Open
    <2>2. ASSUME sess[t].epoch = epoch'[b] PROVE \A u \in Open(t) : u < uidNext'[b]
      <3>1. sess[t].epoch <= epoch[b]
        BY DEF Epochs, b
      <3>2. ~FolderRenumbered(b)
        BY <1>0, <2>2, <3>1 DEF FolderRenumbered
      <3>3. epoch'[b] = epoch[b] /\ uidNext'[b] >= uidNext[b]
        BY <1>0, <3>2, MailStep DEF MailMoves, FolderKeeps
      <3>4. \A u \in Open(t) : u < uidNext[b]
        BY <1>a, <2>1, <2>2, <3>3
      <3>5. QED
        BY <1>0, <2>1, <3>3, <3>4
    <2>3. QED
      BY <1>a, <2>1, <2>2 DEF b
  <1>2. CASE Search(t)
    <2>1. sess'[t].box = b /\ sess'[t].todo = ToFetch(t) /\ pc'[t] = "fetch"
          /\ uidNext' = uidNext
      BY <1>2, SearchEffect DEF b, Search, server
    <2>2. \A u \in ToFetch(t) : u < uidNext[b]
      BY <1>0, BelowNext DEF ToFetch, b
    <2>3. QED
      BY <2>1, <2>2 DEF Open
  <1>3. CASE Fetch(t)
    <2>1. /\ sess'[t].box = b /\ sess'[t].epoch = epoch[b] /\ pc'[t] = "store"
          /\ sess'[t].epoch = sess[t].epoch
          /\ sess'[t].todo \cup sess'[t].batch \subseteq sess[t].todo
          /\ \A u \in sess'[t].batch, v \in sess'[t].todo : u < v
          /\ uidNext' = uidNext /\ pc[t] = "fetch"
      BY <1>3, FetchEffect DEF b, Fetch, server
    <2>2. \A u \in sess[t].todo : u < uidNext[b]
      BY <1>a, <2>1 DEF Open
    <2>3. QED
      BY <2>1, <2>2 DEF Open
  <1>4. CASE Store(t)
    <2>1. /\ sess'[t].box = b /\ sess'[t].epoch = sess[t].epoch /\ pc[t] = "store"
          /\ sess'[t].todo = sess[t].todo /\ sess'[t].batch = sess[t].batch
          /\ pc' = pc /\ uidNext' = uidNext /\ epoch' = epoch
      BY <1>4, StoreEffect DEF b, Store, server
    <2>2. Open(t)' = Open(t)
      BY <2>1 DEF Open
    <2>3. QED
      BY <1>a, <2>1, <2>2
  <1>5. CASE Checkpoint(t)
    <2>1. /\ sess' = sess /\ pc[t] = "store" /\ pc'[t] # "store"
          /\ uidNext' = uidNext /\ epoch' = epoch
      BY <1>0, <1>5 DEF Checkpoint, NextBatch, Go, server, local
    <2>2. Open(t)' \subseteq Open(t)
      BY <2>1 DEF Open
    <2>3. QED
      BY <1>a, <2>1, <2>2 DEF b
  <1>6. CASE LoadAccount(t) \/ ReadCoverage(t) \/ WriteCoverage(t)
    BY <1>0, <1>6 DEF LoadAccount, ReadCoverage, WriteCoverage, Go
  <1>7. QED
    BY <1>1, <1>2, <1>3, <1>4, <1>5, <1>6, InsideStep DEF RunStep, Inside

LEMMA FreshNext ==
  ASSUME Typed, Matched, Fresh, [Next]_vars PROVE Fresh'
PROOF
  <1> SUFFICES ASSUME NoneDeleted', used'["retry"] = 0 PROVE Fresh'
    BY DEF Fresh
  <1>0. NoneDeleted /\ used["retry"] = 0
    BY CalmBefore
  <1>a. /\ \A j \in jobs : j.status = "pending" => j.checkpoint = 0
        /\ \A t \in Thread : \A q \in Queued(t) :
             q.checkpoint = 0 /\ \A j \in jobs : j.id = q.id => j.status # "pending"
    BY <1>0 DEF Fresh
  \* A job that a thread checkpoints is in its queue.
  <1>1. \A k \in jobs', j \in jobs, t \in Thread : Advanced(j, k, t) => k.status # "pending"
    <2> SUFFICES ASSUME NEW k \in jobs', NEW j \in jobs, NEW t \in Thread, Advanced(j, k, t)
                 PROVE  k.status # "pending"
      OBVIOUS
    <2>1. Task(t) \in Queued(t)
      BY TaskIsQueued DEF Advanced, Checkpoint, RunPC
    <2>2. QED
      BY <1>a, <2>1 DEF Advanced
  <1>2. ASSUME NEW k \in jobs', k.status = "pending" PROVE k.checkpoint = 0
    BY <1>0, <1>a, <1>1, <1>2, JobsStep DEF Restated, Created
  <1>3. ASSUME NEW t \in Thread, NEW q \in Queued(t)'
        PROVE  q.checkpoint = 0 /\ \A k \in jobs' : k.id = q.id => k.status # "pending"
    <2>1. CASE Claimed(q)
      BY <1>a, <2>1 DEF Claimed
    <2>2. CASE q \in Queued(t)
      <3>1. PICK row \in jobs : row.id = q.id
        BY <1>0, <2>2 DEF Matched, Same
      <3>2. ASSUME NEW k \in jobs', k.id = q.id PROVE k.status # "pending"
        <4>1. ~Created(k)
          BY <3>1, <3>2 DEF Created
        <4>2. ASSUME NEW j \in jobs, Restated(j, k) PROVE k.status # "pending"
          BY <1>0, <1>a, <2>2, <3>2, <4>2 DEF Restated, Same
        <4>3. QED
          BY <1>1, <4>1, <4>2, JobsStep
      <3>3. QED
        BY <1>a, <2>2, <3>2
    <2>3. QED
      BY <2>1, <2>2, QueueStep
  <1>4. QED
    BY <1>2, <1>3 DEF Fresh

LEMMA SoundStays ==
  ASSUME Typed, [Next]_vars, NoneDeleted', used'["reset"] = 0,
         NEW j \in Job, AccountExists(j.account), SoundJob(j)
  PROVE  SoundJob(j)'
PROOF
  <1>0. TablesGrow /\ MailMoves
    BY TablesStep, MailStep
  <1> SUFFICES ASSUME NEW acc \in accounts', acc.id = j.account
               PROVE  /\ j.checkpoint < uidNext'[acc.box]
                      /\ \A m \in mail'[acc.box] :
                           m.uid <= j.checkpoint /\ m.day \in Days(j.range) => Stored(acc.id, m)'
    BY DEF SoundJob
  <1>1. acc \in accounts
    BY <1>0 DEF TablesGrow, AccountExists
  <1>2. acc.box \in Box /\ FolderKeeps(acc.box)
    BY <1>0, <1>1 DEF Typed, TypeOK, Account, MailMoves, FolderRenumbered
  <1>3. /\ j.checkpoint \in Nat /\ uidNext[acc.box] \in Nat /\ uidNext'[acc.box] \in Nat
    BY <1>2, NextTyped DEF Typed, TypeOK, RowId, Job
  <1>4. j.checkpoint < uidNext[acc.box] /\ uidNext[acc.box] <= uidNext'[acc.box]
    BY <1>1, <1>2 DEF SoundJob, FolderKeeps
  <1>5. ASSUME NEW m \in mail'[acc.box], m.uid <= j.checkpoint, m.day \in Days(j.range)
        PROVE  Stored(acc.id, m)'
    <2>1. m \in mail[acc.box]
      BY <1>2, <1>3, <1>4, <1>5 DEF FolderKeeps, Arrives
    <2>2. Stored(acc.id, m)
      BY <1>1, <1>5, <2>1 DEF SoundJob
    <2>3. QED
      BY <1>0, <2>2, StoredStays DEF TablesGrow
  <1>6. QED
    BY <1>3, <1>4, <1>5

\* Nothing before a checkpoint is left out, when it is written.
LEMMA CheckpointStep ==
  ASSUME Typed, Ids, OneRow, Matched, Boxed, Epochs, Phases, Ordered, Loop,
         NoneDeleted, used["reset"] = 0, NEW t \in Thread, Checkpoint(t),
         NEW j \in jobs, NEW k, Advanced(j, k, t)
  PROVE  SoundJob(k)
PROOF
  <1>0. /\ pc[t] = "store" /\ sess[t].got = {} /\ sess[t] \in Session
        /\ Task(t) \in Queued(t) /\ Task(t) \in Job
    BY TaskIsQueued DEF Checkpoint, Typed, TypeOK, RunPC
  <1>1. k.account = Task(t).account /\ k.range = Task(t).range
    <2>1. PICK row \in jobs : Same(row, Task(t))
      BY <1>0 DEF Matched
    <2>2. row = j
      BY <2>1 DEF Ids, Same, Advanced
    <2>3. QED
      BY <2>1, <2>2 DEF Same, Advanced
  <1> SUFFICES ASSUME NEW acc \in accounts, acc.id = k.account
               PROVE  /\ k.checkpoint < uidNext[acc.box]
                      /\ \A m \in mail[acc.box] :
                           m.uid <= k.checkpoint /\ m.day \in Days(k.range) => Stored(acc.id, m)
    BY DEF SoundJob
  <1>2. acc.box = sess[t].box /\ acc.box \in Box
    <2>1. PICK own \in accounts : own.id = Task(t).account /\ own.box = sess[t].box
      BY <1>0 DEF Boxed, Inside
    <2>2. QED
      BY <1>0, <1>1, <2>1 DEF OneRow, Session
  <1>3. sess[t].epoch = epoch[sess[t].box]
    BY <1>2 DEF Epochs
  <1>4. k.checkpoint \in sess[t].batch /\ k.checkpoint \in Open(t)
    BY <1>0 DEF Advanced, Open
  <1>5. k.checkpoint < uidNext[acc.box]
    BY <1>0, <1>2, <1>3, <1>4 DEF Ordered
  <1>6. ASSUME NEW m \in mail[acc.box], m.uid <= k.checkpoint, m.day \in Days(k.range)
        PROVE  Stored(acc.id, m)
    <2>1. Accounted(t, m)
      BY <1>0, <1>1, <1>2, <1>6 DEF Loop, Calm
    <2>2. m.uid \in Nat /\ k.checkpoint \in Nat
      BY <1>0, <1>2, <1>4 DEF Typed, TypeOK, Message, Session, RowId
    <2>3. ~InHand(t, m)
      BY <1>0 DEF InHand
    <2>4. ~Ahead(t, m)
      <3>1. \A v \in sess[t].todo : k.checkpoint < v
        BY <1>0, <1>4 DEF Ordered
      <3>2. QED
        BY <1>3, <1>6, <2>2, <3>1 DEF Ahead
    <2>5. ~Late(t, m)
      BY <1>4, <1>6, <2>2 DEF Late
    <2>6. QED
      BY <1>1, <2>1, <2>3, <2>4, <2>5 DEF Accounted
  <1>7. QED
    BY <1>5, <1>6

LEMMA SoundNext ==
  ASSUME Typed, RowsHaveAccount, Ids, OneRow, Matched, Boxed, Epochs, Phases, Ordered, Loop,
         Sound, [Next]_vars
  PROVE  Sound'
PROOF
  <1> SUFFICES ASSUME NoneDeleted', used'["reset"] = 0 PROVE Sound'
    BY DEF Sound
  <1>0. /\ NoneDeleted /\ used["reset"] = 0 /\ Typed'
        /\ \A j \in jobs : SoundJob(j)
        /\ \A t \in Thread : \A q \in Queued(t) : SoundJob(q)
    BY CalmBefore, NextTyped DEF Sound
  <1>1. \A j \in jobs : j \in Job /\ AccountExists(j.account)
    BY DEF Typed, TypeOK, RowsHaveAccount
  \* A job that is as sound as a row that was sound.
  <1>2. ASSUME NEW j \in jobs, NEW k, Same(j, k), k.checkpoint = j.checkpoint
        PROVE  SoundJob(k)'
    <2>1. SoundJob(j)'
      BY <1>0, <1>1, SoundStays
    <2>2. QED
      BY <1>2, <2>1 DEF SoundJob, Same
  <1>3. ASSUME NEW k \in jobs', Created(k) PROVE SoundJob(k)'
    <2>1. /\ k.checkpoint = 0
          /\ \A acc \in accounts' : acc.box \in Box
          /\ \A b \in Box : uidNext'[b] \in Nat \ {0}
          /\ \A b \in Box : \A m \in mail'[b] : m.uid \in Nat \ {0}
      BY <1>0, <1>3 DEF Created, Typed, TypeOK, Account, Message, RowId
    <2>2. QED
      BY <2>1 DEF SoundJob
  <1>4. ASSUME NEW k \in jobs', NEW j \in jobs, NEW t \in Thread, Advanced(j, k, t)
        PROVE  SoundJob(k)'
    <2>1. Checkpoint(t) /\ SoundJob(k)
      BY <1>0, <1>4, CheckpointStep DEF Advanced
    <2>2. k \in Job /\ AccountExists(k.account)
      BY <1>0, <1>1, <1>4 DEF Typed, TypeOK, Advanced, Same
    <2>3. QED
      BY <1>0, <2>1, <2>2, SoundStays
  <1>5. ASSUME NEW t \in Thread, NEW q \in Queued(t)' PROVE SoundJob(q)'
    <2>1. CASE q \in Queued(t)
      <3>1. PICK j \in jobs : Same(j, q)
        BY <1>0, <2>1 DEF Matched
      <3>2. q \in Job /\ AccountExists(q.account)
        BY <1>1, <2>1, <3>1, QueuedAreJobs DEF Same
      <3>3. QED
        BY <1>0, <2>1, <3>2, SoundStays
    <2>2. CASE Claimed(q)
      BY <1>2, <2>2 DEF Claimed
    <2>3. QED
      BY <2>1, <2>2, QueueStep
  <1>6. \A k \in jobs' : SoundJob(k)'
    BY <1>2, <1>3, <1>4, JobsStep DEF Restated
  <1>7. QED
    BY <1>5, <1>6 DEF Sound

\* What the SEARCH finds, and what it may leave out.
LEMMA SearchAccounts ==
  ASSUME Typed, OneRow, Boxed, Phases, Fresh, Sound, Calm, NEW t \in Thread, Search(t),
         NEW m \in mail[sess[t].box], m.day \in Days(Task(t).range)
  PROVE  Stored(Task(t).account, m) \/ Ahead(t, m)'
PROOF
  <1>0. /\ pc[t] = "search" /\ Task(t) \in Queued(t) /\ Task(t) \in Job
        /\ m \in Message /\ sess[t].box \in Box
    BY TaskIsQueued DEF Search, Typed, TypeOK, RunPC, Session
  <1>1. m.day \in Widened(Task(t).range)
    <2>1. /\ m.day \in Day /\ m.day \in Nat /\ Task(t).range.from \in Nat /\ Task(t).range.to \in Nat
          /\ Task(t).range.from <= m.day /\ m.day < Task(t).range.to
      BY <1>0, ConstantsAssumption DEF Days, Day, Job, Range
    <2>2. Task(t).range.from <= m.day + 1 /\ m.day <= Task(t).range.to
      BY <2>1
    <2>3. QED
      BY <2>1, <2>2 DEF Widened
  <1>2. CASE m.uid > Task(t).checkpoint
    <2>1. m.uid \in ToFetch(t)
      BY <1>1, <1>2 DEF ToFetch
    <2>2. QED
      BY <2>1, SearchEffect DEF Ahead
  <1>3. CASE ~(m.uid > Task(t).checkpoint)
    <2>1. m.uid <= Task(t).checkpoint /\ Task(t).checkpoint # 0
      BY <1>0, <1>3 DEF Message, Job, RowId
    <2>2. used["reset"] = 0 /\ NoneDeleted
      BY <1>0, <2>1 DEF Calm, Fresh
    <2>3. PICK acc \in accounts : acc.id = Task(t).account /\ acc.box = sess[t].box
      BY <1>0, <2>2 DEF Boxed, Inside
    <2>4. QED
      BY <1>0, <2>1, <2>2, <2>3 DEF Sound, SoundJob
  <1>4. QED
    BY <1>2, <1>3

\* The message that is stored is the message of that key.
LEMMA StoreAccounts ==
  ASSUME Typed, RowsHaveAccount, OneRow, Boxed, Identity, NoneDeleted, NEW t \in Thread, Store(t),
         NEW m, m.day \in Days(Task(t).range), InHand(t, m)
  PROVE  Stored(Task(t).account, m)' \/ InHand(t, m)'
PROOF
  <1> DEFINE a == Task(t).account
             e == sess[t].epoch
             b == sess[t].box
  <1>0. /\ pc[t] = "store" /\ Task(t) \in Job
        /\ sess \in [Thread -> Session] /\ sess[t] \in Session /\ b \in Box /\ e \in RowId
        /\ sess[t].got \subseteq Message /\ a \in RowId
    BY TaskIsQueued DEF Store, Typed, TypeOK, RunPC, Session, Job
  <1>1. PICK g \in sess[t].got :
          /\ emails' = IF g.day \in Days(Task(t).range) /\ ~KeyTaken(a, e, g)
                       THEN emails \cup {[account |-> a, epoch |-> e, uid |-> g.uid,
                                          msg |-> g.msg, day |-> g.day]}
                       ELSE emails
          /\ sess' = [sess EXCEPT ![t].got = @ \ {g}]
    BY DEF Store
  <1>2. PICK h \in sess[t].got : h.msg = m.msg /\ h.day = m.day
    BY DEF InHand
  <1>3. sess'[t].got = sess[t].got \ {g}
    BY <1>0, <1>1 DEF Session
  <1>4. CASE h # g
    BY <1>2, <1>3, <1>4 DEF InHand
  <1>5. CASE h = g
    <2>1. CASE ~KeyTaken(a, e, g)
      <3> DEFINE row == [account |-> a, epoch |-> e, uid |-> g.uid, msg |-> g.msg, day |-> g.day]
      <3>1. row \in emails' /\ row.account = a /\ row.msg = m.msg
        BY <1>1, <1>2, <1>5, <2>1
      <3> HIDE DEF row
      <3>2. Task(t)' = Task(t)
        BY DEF Store, Task
      <3>3. QED
        BY <3>1, <3>2 DEF Stored
    <2>2. CASE KeyTaken(a, e, g)
      <3>1. PICK row \in emails : row.account = a /\ row.epoch = e /\ row.uid = g.uid
        BY <2>2 DEF KeyTaken
      <3>2. PICK acc \in accounts : acc.id = a /\ acc.box = b
        BY <1>0 DEF Boxed, Inside
      <3>3. Identified(b, e, g.uid, row.msg) /\ Identified(b, e, g.uid, g.msg)
        BY <3>1, <3>2 DEF Identified, InVault, InFlight
      <3>4. row.msg \in RowId /\ g.msg \in RowId /\ g.uid \in RowId
        BY <1>0, <3>1 DEF Typed, TypeOK, Email, Message
      <3>5. row.msg = g.msg
        BY <1>0, <3>3, <3>4 DEF Identity
      <3>6. row \in emails' /\ Task(t)' = Task(t)
        BY <1>1, <3>1 DEF Store, Task
      <3>7. QED
        BY <1>2, <1>5, <3>1, <3>5, <3>6 DEF Stored
    <2>3. QED
      BY <2>1, <2>2
  <1>6. QED
    BY <1>4, <1>5

\* A step of the mail server, or of somebody else, under a running job.
LEMMA LoopUndisturbed ==
  ASSUME Typed, Epochs, Past, Phases, Ordered, Loop, [Next]_vars, Calm', NEW t \in Thread,
         ThreadSame(t), pc[t] \in {"fetch", "store", "merge", "cover"},
         NEW m \in mail'[sess[t].box], m.day \in Days(Task(t).range)
  PROVE  Accounted(t, m)'
PROOF
  <1> DEFINE b == sess[t].box
  <1>0. /\ Calm /\ NoneDeleted /\ NoneDeleted' /\ TablesGrow /\ MailMoves
        /\ sess[t] \in Session /\ b \in Box /\ sess'[t] = sess[t] /\ pc'[t] = pc[t]
        /\ Task(t)' = Task(t) /\ Open(t)' = Open(t)
        /\ epoch[b] \in Nat /\ epoch'[b] \in Nat /\ sess[t].epoch \in Nat
    BY CalmBefore, TablesStep, MailStep, NextTyped
       DEF Calm, Typed, TypeOK, Session, RowId, ThreadSame, Task, Open
  <1> HIDE DEF b
  <1>1. CASE FolderKeeps(b)
    <2>1. epoch'[b] = epoch[b]
      BY <1>1 DEF FolderKeeps
    <2>2. CASE m \in mail[b]
      <3>1. Accounted(t, m)
        BY <1>0, <2>2 DEF Loop, b
      <3>2. Stored(Task(t).account, m) => Stored(Task(t).account, m)'
        BY <1>0, StoredStays DEF TablesGrow
      <3>3. InHand(t, m) => InHand(t, m)'
        BY <1>0 DEF InHand
      <3>4. Ahead(t, m) => Ahead(t, m)'
        BY <1>0, <2>1 DEF Ahead, b
      <3>5. Late(t, m) => Late(t, m)'
        BY <1>0 DEF Late
      <3>6. QED
        BY <1>0, <3>1, <3>2, <3>3, <3>4, <3>5 DEF Accounted
    <2>3. CASE Arrives(b, m)
      <3>1. MayAskToday
        <4> SUFFICES ASSUME ~MayAskToday PROVE FALSE
          OBVIOUS
        <4>1. Task(t) \in Queued(t) /\ Task(t) \in Job
          BY TaskIsQueued DEF RunPC
        <4>2. Task(t).range.to <= today /\ today < Task(t).range.to
          BY <1>0, <2>3, <4>1 DEF Past, Arrives, Days
        <4>3. today \in Nat /\ Task(t).range.to \in Nat
          BY <4>1, ConstantsAssumption DEF Typed, TypeOK, Day, Job, Range
        <4>4. QED
          BY <4>2, <4>3
      <3>2. used["reset"] = 0
        BY <1>0, <3>1 DEF Calm
      <3>3. sess[t].epoch = epoch[b]
        BY <1>0, <3>2 DEF Epochs
      <3>4. \A u \in Open(t) : u < m.uid
        <4>1. CASE pc[t] \in {"fetch", "store"}
          BY <1>0, <2>3, <3>3, <4>1 DEF Ordered, Arrives, b
        <4>2. CASE pc[t] \in {"merge", "cover"}
          BY <4>2 DEF Phases, Phase, Open
        <4>3. QED
          BY <4>1, <4>2
      <3>5. QED
        BY <1>0, <3>1, <3>4 DEF Accounted, Late
    <2>4. QED
      BY <1>1, <2>2, <2>3 DEF FolderKeeps, b
  <1>2. CASE FolderRenumbered(b)
    <2>1. used'["reset"] # 0 /\ epoch'[b] > epoch[b] /\ ~MayAskToday
      BY <1>2 DEF FolderRenumbered, Calm
    <2>2. PICK n \in mail[b] : n.msg = m.msg /\ n.day = m.day
      BY <1>2 DEF FolderRenumbered, b
    <2>3. Accounted(t, n)
      BY <1>0, <2>2 DEF Loop, b
    <2>4. ~Late(t, n)
      BY <2>1 DEF Late
    <2>5. Stored(Task(t).account, n) => Stored(Task(t).account, m)'
      BY <1>0, <2>2, StoredStays DEF TablesGrow
    <2>6. InHand(t, n) => InHand(t, m)'
      BY <1>0, <2>2 DEF InHand
    <2>7. Ahead(t, n) => Ahead(t, m)'
      <3>1. sess[t].epoch # epoch'[b]
        <4>1. sess[t].epoch <= epoch[b]
          BY DEF Epochs, b
        <4>2. QED
          BY <1>0, <2>1, <4>1
      <3>2. QED
        BY <1>0, <3>1 DEF Ahead, b
    <2>8. QED
      BY <1>0, <2>3, <2>4, <2>5, <2>6, <2>7 DEF Accounted
  <1>3. QED
    BY <1>0, <1>1, <1>2 DEF MailMoves

LEMMA LoopNext ==
  ASSUME Typed, RowsHaveAccount, OneRow, Boxed, Identity, Epochs, Past, Phases, Ordered, Fresh,
         Sound, Loop, [Next]_vars
  PROVE  Loop'
PROOF
  <1> SUFFICES ASSUME Calm', NEW t \in Thread, pc'[t] \in {"fetch", "store", "merge", "cover"},
                      NEW m \in mail'[sess'[t].box], m.day \in Days(Task(t).range)'
               PROVE  Accounted(t, m)'
    BY DEF Loop
  <1>0. /\ Calm /\ NoneDeleted /\ NoneDeleted' /\ TablesGrow
        /\ Task(t)' = Task(t) /\ m.day \in Days(Task(t).range)
        /\ sess[t] \in Session /\ pc \in [Thread -> PC]
    BY CalmBefore, TablesStep, InsideStep DEF Calm, Inside, Days, Typed, TypeOK
  <1>1. CASE ThreadSame(t)
    BY <1>0, <1>1, LoopUndisturbed DEF ThreadSame
  <1>s. Stored(Task(t).account, m) => Stored(Task(t).account, m)'
    BY <1>0, StoredStays DEF TablesGrow
  <1>2. CASE Search(t)
    <2>1. m \in mail[sess[t].box]
      BY <1>2, SearchEffect DEF Search, server
    <2>2. QED
      BY <1>0, <1>2, <1>s, <2>1, SearchAccounts DEF Accounted
  <1>3. CASE Fetch(t)
    <2>1. /\ m \in mail[sess[t].box] /\ pc[t] = "fetch" /\ sess[t].epoch = epoch[sess[t].box]
          /\ epoch' = epoch
      BY <1>3, FetchEffect DEF Fetch, server
    <2>2. Accounted(t, m) /\ ~InHand(t, m)
      BY <1>0, <2>1 DEF Loop, Phases, Phase, InHand
    <2>3. CASE Ahead(t, m)
      <3>1. m.uid \in sess[t].todo
        BY <2>1, <2>3 DEF Ahead
      <3>2. CASE m.uid \in sess'[t].batch
        BY <1>3, <2>1, <3>2, FetchEffect DEF Accounted, InHand
      <3>3. CASE m.uid \notin sess'[t].batch
        BY <1>3, <3>1, <3>3, FetchEffect DEF Accounted, Ahead
      <3>4. QED
        BY <3>2, <3>3
    <2>4. CASE Late(t, m)
      <3>1. Open(t)' \subseteq Open(t)
        BY <1>3, FetchEffect DEF Open
      <3>2. QED
        BY <2>4, <3>1 DEF Accounted, Late
    <2>5. QED
      BY <1>0, <1>s, <2>2, <2>3, <2>4 DEF Accounted
  <1>4. CASE Store(t)
    <2>1. /\ m \in mail[sess[t].box] /\ pc[t] = "store" /\ epoch' = epoch
          /\ sess'[t].box = sess[t].box /\ sess'[t].epoch = sess[t].epoch
          /\ sess'[t].todo = sess[t].todo /\ sess'[t].batch = sess[t].batch /\ pc' = pc
      BY <1>4, StoreEffect DEF Store, server
    <2>2. Accounted(t, m)
      BY <1>0, <2>1 DEF Loop
    <2>3. InHand(t, m) => Stored(Task(t).account, m)' \/ InHand(t, m)'
      BY <1>0, <1>4, StoreAccounts
    <2>4. Ahead(t, m) => Ahead(t, m)'
      BY <2>1 DEF Ahead
    <2>5. Late(t, m) => Late(t, m)'
      BY <2>1 DEF Late, Open
    <2>6. QED
      BY <1>0, <1>s, <2>2, <2>3, <2>4, <2>5 DEF Accounted
  <1>5. CASE Checkpoint(t) \/ ReadCoverage(t)
    <2>1. /\ m \in mail[sess[t].box] /\ sess' = sess /\ epoch' = epoch
          /\ pc[t] \in {"store", "merge"} /\ pc'[t] # "store"
      BY <1>0, <1>5 DEF Checkpoint, ReadCoverage, NextBatch, Go, server, local
    <2>2. Accounted(t, m)
      BY <1>0, <2>1 DEF Loop
    <2>3. Open(t)' \subseteq Open(t)
      BY <2>1 DEF Open
    <2>4. Late(t, m) => Late(t, m)'
      BY <2>3 DEF Late
    <2>5. (InHand(t, m) => InHand(t, m)') /\ (Ahead(t, m) => Ahead(t, m)')
      BY <2>1 DEF InHand, Ahead
    <2>6. QED
      BY <1>0, <1>s, <2>2, <2>4, <2>5 DEF Accounted
  <1>6. CASE LoadAccount(t) \/ WriteCoverage(t)
    BY <1>0, <1>6 DEF LoadAccount, WriteCoverage, Go
  <1>7. QED
    BY <1>1, <1>2, <1>3, <1>4, <1>5, <1>6, InsideStep DEF RunStep, Inside

-----------------------------------------------------------------------------
(* The invariant: what is covered *)

\* Every message of day d in the mailbox of account a is in the vault.
DayStored(a, d) ==
  \A acc \in accounts : acc.id = a =>
    \A m \in mail[acc.box] : m.day = d => Stored(a, m)

\* The covered days that record_coverage has read are stored.
SeenStored ==
  Calm /\ ~MayAskToday => \A t \in Thread : \A d \in seen[t] : DayStored(Task(t).account, d)

LEMMA DayStays ==
  ASSUME Typed, [Next]_vars, NoneDeleted', NEW a, AccountExists(a), NEW d \in Nat, d < today,
         DayStored(a, d)
  PROVE  DayStored(a, d)'
PROOF
  <1>0. TablesGrow /\ MailMoves /\ today \in Nat
    BY TablesStep, MailStep, ConstantsAssumption DEF Typed, TypeOK, Day
  <1> SUFFICES ASSUME NEW acc \in accounts', acc.id = a, NEW m \in mail'[acc.box], m.day = d
               PROVE  Stored(a, m)'
    BY DEF DayStored
  <1>1. acc \in accounts /\ acc.box \in Box
    <2>1. acc \in accounts
      BY <1>0 DEF TablesGrow, AccountExists
    <2>2. QED
      BY <2>1 DEF Typed, TypeOK, Account
  <1>2. \E n \in mail[acc.box] : n.msg = m.msg /\ n.day = m.day
    <2>1. ~Arrives(acc.box, m)
      BY <1>0 DEF Arrives
    <2>2. QED
      BY <1>0, <1>1, <2>1 DEF MailMoves, FolderKeeps, FolderRenumbered
  <1>3. PICK n \in mail[acc.box] : n.msg = m.msg /\ n.day = m.day
    BY <1>2
  <1>4. Stored(a, n)
    BY <1>1, <1>3 DEF DayStored
  <1>5. QED
    BY <1>0, <1>3, <1>4, StoredStays DEF TablesGrow

\* CoveredIsStored, day by day.
LEMMA CoveredDay ==
  CoveredIsStored <=> \A p \in covered : DayStored(p[1], p[2])
PROOF
  <1>1. ASSUME CoveredIsStored, NEW p \in covered PROVE DayStored(p[1], p[2])
    BY <1>1 DEF CoveredIsStored, DayStored
  <1>2. ASSUME \A p \in covered : DayStored(p[1], p[2]) PROVE CoveredIsStored
    BY <1>2 DEF CoveredIsStored, DayStored
  <1>3. QED
    BY <1>1, <1>2

\* When coverage is recorded, the range of the job is stored.
LEMMA RangeIsStored ==
  ASSUME Typed, OneRow, Boxed, Phases, Loop, Calm, ~MayAskToday,
         NEW t \in Thread, pc[t] = "cover", NEW d \in Days(Task(t).range)
  PROVE  DayStored(Task(t).account, d)
PROOF
  <1> SUFFICES ASSUME NEW acc \in accounts, acc.id = Task(t).account,
                      NEW m \in mail[acc.box], m.day = d
               PROVE  Stored(Task(t).account, m)
    BY DEF DayStored
  <1>1. PICK own \in accounts : own.id = Task(t).account /\ own.box = sess[t].box
    BY DEF Boxed, Inside, Calm
  <1>2. acc = own
    BY <1>1 DEF OneRow, Calm
  <1>3. Accounted(t, m)
    BY <1>1, <1>2 DEF Loop
  <1>4. ~InHand(t, m) /\ ~Ahead(t, m) /\ ~Late(t, m)
    BY DEF Phases, Phase, InHand, Ahead, Late
  <1>5. QED
    BY <1>3, <1>4 DEF Accounted

LEMMA SeenNext ==
  ASSUME Typed, Phases, Boxed, Past, SeenStored, CoveredPastIsStored, [Next]_vars
  PROVE  SeenStored'
PROOF
  <1> SUFFICES ASSUME Calm', ~MayAskToday, NEW t \in Thread, NEW d \in seen'[t]
               PROVE  DayStored(Task(t).account, d)'
    BY DEF SeenStored
  <1>0. Calm /\ NoneDeleted /\ NoneDeleted' /\ seen \in [Thread -> SUBSET Day]
    BY CalmBefore DEF Calm, Typed, TypeOK
  <1>1. pc'[t] = "cover"
    BY PhasesNext DEF Phases, Phase
  <1>2. Task(t)' = Task(t) /\ (ThreadSame(t) \/ RunStep(t))
    BY <1>1, InsideStep DEF Inside
  <1>3. \/ pc[t] = "cover" /\ seen'[t] = seen[t]
        \/ pc[t] = "merge" /\ seen'[t] = CoveredDays(Task(t).account)
    BY <1>0, <1>1, <1>2 DEF Typed, TypeOK, ThreadSame, RunStep, LoadAccount, Search, Fetch, Store,
       Checkpoint, ReadCoverage, WriteCoverage, NextBatch, Go
  <1>4. AccountExists(Task(t).account)
    BY <1>0, <1>3 DEF Boxed, Inside, AccountExists
  <1>5. DayStored(Task(t).account, d)
    <2>1. CASE d \in seen[t]
      BY <1>0, <2>1 DEF SeenStored
    <2>2. CASE d \in CoveredDays(Task(t).account)
      <3>1. CoveredIsStored
        BY <1>0 DEF CoveredPastIsStored, Calm, NoneDeleted
      <3>2. \E p \in covered : p[1] = Task(t).account /\ p[2] = d
        BY <2>2 DEF CoveredDays
      <3>3. QED
        BY <3>1, <3>2, CoveredDay
    <2>3. QED
      BY <1>3, <2>1, <2>2
  <1>6. d \in Nat /\ d < today
    <2>1. d \in seen[t] \/ d \in CoveredDays(Task(t).account)
      BY <1>3
    <2>2. d \in Day
      BY <1>0, <2>1 DEF CoveredDays
    <2>3. d < today
      BY <1>0, <2>1 DEF Past, CoveredDays
    <2>4. QED
      BY <2>2, <2>3, ConstantsAssumption DEF Day
  <1>7. PICK a : a = Task(t).account
    OBVIOUS
  <1>8. DayStored(a, d)'
    BY <1>0, <1>4, <1>5, <1>6, <1>7, DayStays
  <1>9. QED
    BY <1>2, <1>7, <1>8 DEF DayStored

LEMMA CoveringNext ==
  ASSUME Typed, RowsHaveAccount, OneRow, Boxed, Past, Phases, Loop, SeenStored,
         CoveredPastIsStored, [Next]_vars
  PROVE  CoveredPastIsStored'
PROOF
  <1> SUFFICES ASSUME Calm', ~MayAskToday, NEW p \in covered' PROVE DayStored(p[1], p[2])'
    BY CoveredDay DEF CoveredPastIsStored, Calm, NoneDeleted, CoveredIsStored, DayStored
  <1>0. /\ Calm /\ NoneDeleted /\ NoneDeleted' /\ CoveredIsStored
        /\ covered \subseteq RowId \X Day
    BY CalmBefore DEF Calm, NoneDeleted, CoveredPastIsStored, Typed, TypeOK
  <1>a. \A n \in Day : n \in Nat
    BY ConstantsAssumption DEF Day
  <1>1. CASE p \in covered
    <2>1. DayStored(p[1], p[2]) /\ AccountExists(p[1]) /\ p[2] < today /\ p[2] \in Nat
      BY <1>0, <1>1, <1>a, CoveredDay DEF RowsHaveAccount, Past
    <2>2. QED
      BY <1>0, <2>1, DayStays
  <1>2. ASSUME NEW t \in Thread, WriteCoverage(t) PROVE DayStored(p[1], p[2])'
    <2>0. /\ pc[t] = "cover" /\ Task(t) \in Queued(t) /\ Task(t) \in Job
          /\ AccountExists(Task(t).account) /\ seen[t] \subseteq Day
      BY <1>2, TaskIsQueued DEF WriteCoverage, Typed, TypeOK, RunPC
    <2>1. p \in covered \/ (p[1] = Task(t).account
                            /\ (p[2] \in seen[t] \/ p[2] \in Days(Task(t).range)))
      BY <1>2 DEF WriteCoverage
    <2>2. ASSUME p[1] = Task(t).account, p[2] \in seen[t] PROVE DayStored(p[1], p[2])'
      <3>1. p[2] \in Nat /\ p[2] < today /\ DayStored(p[1], p[2])
        BY <1>0, <1>a, <2>0, <2>2 DEF Past, SeenStored
      <3>2. QED
        BY <1>0, <2>0, <2>2, <3>1, DayStays
    <2>3. ASSUME p[1] = Task(t).account, p[2] \in Days(Task(t).range)
          PROVE  DayStored(p[1], p[2])'
      <3>1. DayStored(p[1], p[2])
        BY <1>0, <2>0, <2>3, RangeIsStored
      <3>2. p[2] \in Nat /\ p[2] < today
        <4>1. /\ p[2] \in Nat /\ Task(t).range.to \in Nat /\ today \in Nat
              /\ p[2] < Task(t).range.to /\ Task(t).range.to <= today
          BY <1>0, <1>a, <2>0, <2>3, ConstantsAssumption
             DEF Past, Days, Day, Job, Range, Typed, TypeOK
        <4>2. QED
          BY <4>1
      <3>3. QED
        BY <1>0, <2>0, <2>3, <3>1, <3>2, DayStays
    <2>4. QED
      BY <1>1, <2>1, <2>2, <2>3
  <1>3. QED
    BY <1>1, <1>2, CoveredStep

-----------------------------------------------------------------------------
(* The theorems *)

VaultInv ==
  /\ Typed /\ RowsHaveAccount /\ Ids
  /\ OneRow /\ Matched /\ Boxed /\ Identity /\ Epochs /\ Past /\ Phases /\ Ordered
  /\ Fresh /\ Sound /\ Loop /\ SeenStored /\ CoveredPastIsStored

LEMMA VaultInvInit == Init => VaultInv
PROOF
  <1> SUFFICES ASSUME Init PROVE VaultInv
    OBVIOUS
  <1>0. \A t \in Thread : Queued(t) = {}
    BY DEF Init, NothingToDo, Queued
  <1>n. NoSession.got = {} /\ NoSession.epoch = 1 /\ NoSession.box \in Box
    BY NoSessionType DEF NoSession, Session
  <1>1. Ids /\ OneRow /\ Matched /\ Boxed /\ Past /\ Fresh /\ Sound /\ Ordered /\ Loop
        /\ SeenStored /\ CoveredPastIsStored
    BY <1>0 DEF Init, NothingToDo, Ids, OneRow, Matched, Boxed, Past, Fresh, Sound, Ordered, Loop,
       Inside, SeenStored, CoveredPastIsStored, CoveredIsStored
  <1>2. Phases
    BY <1>n DEF Init, NothingToDo, Phases, Phase, Outside
  <1>3. Epochs
    BY <1>n DEF Init, NothingToDo, Epochs
  <1>4. Identity
    BY <1>n DEF Init, NothingToDo, Identity, Identified, InMail, InVault, InFlight
  <1>5. QED
    BY <1>1, <1>2, <1>3, <1>4, InitTyped, RowsInit DEF VaultInv

LEMMA VaultInvNext == VaultInv /\ [Next]_vars => VaultInv'
PROOF BY NextTyped, RowsNext, IdsNext, OneRowNext, MatchedNext, BoxedNext, IdentityNext, EpochsNext,
         PastNext, PhasesNext, OrderedNext, FreshNext, SoundNext, LoopNext, SeenNext, CoveringNext
      DEF VaultInv

LEMMA VaultInvAlways == Spec => []VaultInv
PROOF BY VaultInvInit, VaultInvNext, PTL DEF Spec

\* A checkpoint is never ahead of what is stored, so a retry that skips to it
\* loses nothing (update_checkpoint, core/jobs.py; run_job, worker/runner.py),
\* whatever threads, crashes and arriving messages do; as long as the folder is
\* not renumbered and the mailbox not deleted.
THEOREM CheckpointsAreSound == Spec => []CheckpointSound
PROOF
  <1>1. VaultInv => CheckpointSound
    <2> SUFFICES ASSUME VaultInv, NoneDeleted, used["reset"] = 0, NEW j \in jobs,
                        NEW acc \in accounts, j.account = acc.id, NEW m \in mail[acc.box],
                        m.uid <= j.checkpoint, m.day \in Days(j.range)
                 PROVE  Stored(acc.id, m)
      BY DEF CheckpointSound, NoneDeleted
    <2>1. QED
      BY DEF VaultInv, Sound, SoundJob
  <1>2. QED
    BY VaultInvAlways, <1>1, PTL

\* A covered day is fully ingested: the vault has every message of that day that
\* is still in the mailbox, through crashes, failures, retries, renumberings,
\* concurrent requests and lost coverage writes (record_coverage, core/
\* coverage.py; run_job, worker/runner.py).
THEOREM CoveredDaysAreStored == Spec => []CoveredPastIsStored
PROOF
  <1>1. VaultInv => CoveredPastIsStored
    BY DEF VaultInv
  <1>2. QED
    BY VaultInvAlways, <1>1, PTL

-----------------------------------------------------------------------------
(* One thread *)

\* With one thread nobody comes between the read and the write of coverage, so no
\* covered day is lost, and the range of a job that is about to be marked done,
\* or was, is covered.
Alone ==
  SingleThread /\ NoneDeleted =>
    /\ \A t \in Thread : /\ raced[t] = FALSE
                         /\ pc[t] = "done" =>
                              Days(Task(t).range) \subseteq CoveredDays(Task(t).account)
    /\ \A j \in jobs : j.status = "done" => Days(j.range) \subseteq CoveredDays(j.account)

LEMMA AloneNext ==
  ASSUME Typed, Ids, Matched, Alone, [Next]_vars PROVE Alone'
PROOF
  <1> SUFFICES ASSUME SingleThread, NoneDeleted' PROVE Alone'
    BY DEF Alone
  <1>0. /\ NoneDeleted /\ raced \in [Thread -> BOOLEAN] /\ pc \in [Thread -> PC]
        /\ \A x \in Thread : Thread = {x}
    BY CalmBefore DEF Typed, TypeOK, SingleThread
  <1>1. /\ \A t \in Thread : /\ raced[t] = FALSE
                             /\ pc[t] = "done" =>
                                  Days(Task(t).range) \subseteq CoveredDays(Task(t).account)
        /\ \A j \in jobs : j.status = "done" => Days(j.range) \subseteq CoveredDays(j.account)
    BY <1>0 DEF Alone
  <1>2. ASSUME NEW acc \in accounts, DeleteAccount(acc.id) PROVE FALSE
    BY <1>2, SpentIsUsed, EventsType DEF DeleteAccount, NoneDeleted
  <1>3. ASSUME NEW x \in Thread PROVE raced'[x] = FALSE
    <2>1. ASSUME raced' = raced \/ (\E f : raced' = [f EXCEPT ![x] = FALSE] /\ f \in [Thread -> BOOLEAN])
          PROVE  raced'[x] = FALSE
      BY <1>1, <2>1
    <2>2. CASE WriteCoverage(x)
      <3>1. \A ids : RacedWith(ids) \in [Thread -> BOOLEAN]
        BY <1>0 DEF RacedWith
      <3>2. QED
        BY <2>1, <2>2, <3>1 DEF WriteCoverage
    <2>3. CASE Step(x) /\ ~WriteCoverage(x)
      BY <1>0, <2>1, <2>3 DEF Step, ReadGaps, CreateJob, CreateJobRefused, ClaimJob, Respond,
         LoadAccount, Search, Fetch, SessionLost, Store, StoreRefused, Checkpoint, ReadCoverage,
         WriteCoverageRefused, MarkDone, MarkFailed, NextTask, Abandon, DropRun, local
    <2>4. CASE ThreadStep(x) /\ ~Step(x)
      BY <1>0, <2>1, <2>4 DEF ThreadStep, ClaimNextJob, ErrorCaught, ErrorEscapes, Request,
         Abandon, DropRun, local
    <2>5. CASE Crash
      BY <2>5 DEF Crash
    <2>6. \/ ThreadStep(x) \/ Crash \/ raced' = raced
          \/ \E acc \in accounts : DeleteAccount(acc.id)
      BY <1>0 DEF ThreadStep, Next, CreateAccount, Deliver, Expunge, ResetUidValidity, RetryJob,
         Startup, NextDay, vars, local
    <2>7. QED
      BY <1>2, <2>1, <2>2, <2>3, <2>4, <2>5, <2>6
  <1>4. covered \subseteq covered'
    <2>1. ASSUME NEW t \in Thread, WriteCoverage(t) PROVE covered \subseteq covered'
      <3>1. raced[t] = FALSE
        BY <1>1
      <3>2. \E kept, new : kept = covered /\ covered' = kept \cup new
        BY <2>1, <3>1 DEF WriteCoverage
      <3>3. QED
        BY <3>2
    <2>2. QED
      BY <1>2, <2>1, CoveredStep
  <1>5. \A a : CoveredDays(a) \subseteq CoveredDays(a)'
    BY <1>4 DEF CoveredDays
  <1>6. ASSUME NEW x \in Thread, pc'[x] = "done"
        PROVE  Days(Task(x).range)' \subseteq CoveredDays(Task(x).account)'
    <2>1. Task(x)' = Task(x) /\ (ThreadSame(x) \/ RunStep(x))
      BY <1>6, InsideStep DEF Inside
    <2>2. Days(Task(x).range)' = Days(Task(x).range)
      BY <2>1 DEF Days
    <2>3. PICK a : a = Task(x).account
      OBVIOUS
    <2>4. CASE ThreadSame(x)
      <3>1. Days(Task(x).range) \subseteq CoveredDays(a)
        BY <1>1, <1>6, <2>3, <2>4 DEF ThreadSame
      <3>2. Days(Task(x).range) \subseteq CoveredDays(a)'
        BY <1>5, <3>1
      <3>3. QED
        BY <2>1, <2>2, <2>3, <3>2 DEF CoveredDays
    <2>5. CASE RunStep(x) /\ ~ThreadSame(x)
      <3>1. WriteCoverage(x)
        BY <1>0, <1>6, <2>5 DEF RunStep, LoadAccount, Search, Fetch, Store, Checkpoint,
           ReadCoverage, NextBatch, Go
      <3>2. {a} \X Days(Task(x).range) \subseteq covered'
        BY <2>3, <3>1 DEF WriteCoverage
      <3>3. Days(Task(x).range) \subseteq CoveredDays(a)'
        BY <3>2 DEF CoveredDays, Days
      <3>4. QED
        BY <2>1, <2>2, <2>3, <3>3 DEF CoveredDays
    <2>6. QED
      BY <2>1, <2>4, <2>5
  <1>7. ASSUME NEW k \in jobs', k.status = "done"
        PROVE  Days(k.range) \subseteq CoveredDays(k.account)'
    <2>1. ASSUME NEW j \in jobs, Same(j, k), j.status = "done"
          PROVE  Days(k.range) \subseteq CoveredDays(k.account)'
      BY <1>1, <1>5, <2>1 DEF Same
    <2>2. ASSUME NEW j \in jobs, Same(j, k), NEW t \in Thread, pc[t] = "done", Task(t).id = k.id
          PROVE  Days(k.range) \subseteq CoveredDays(k.account)'
      <3>1. PICK row \in jobs : Same(row, Task(t))
        BY <1>0, <2>2, TaskIsQueued DEF Matched, RunPC
      <3>2. row = j
        BY <2>2, <3>1 DEF Ids, Same
      <3>3. k.range = Task(t).range /\ k.account = Task(t).account
        BY <2>2, <3>1, <3>2 DEF Same
      <3>4. QED
        BY <1>1, <1>5, <2>2, <3>3
    <2>3. ~Created(k)
      BY <1>7 DEF Created
    <2>4. QED
      BY <1>7, <2>1, <2>2, <2>3, JobsStep DEF Restated, Advanced
  <1>8. QED
    BY <1>3, <1>6, <1>7 DEF Alone

\* With one thread, the range of a finished job is covered and stays covered, so
\* it is never fetched again (record_coverage, core/coverage.py; run_job,
\* worker/runner.py), through crashes, failures and retries, as long as no
\* mailbox is deleted.
THEOREM DoneJobsAreCovered == Spec => []DoneIsCovered
PROOF
  <1>1. Init => Alone
    BY DEF Init, NothingToDo, Alone
  <1>2. VaultInv /\ Alone /\ [Next]_vars => Alone'
    BY AloneNext DEF VaultInv
  <1>3. Alone => DoneIsCovered
    BY DEF Alone, DoneIsCovered, NoneDeleted
  <1>4. QED
    BY VaultInvAlways, <1>1, <1>2, <1>3, PTL DEF Spec

-----------------------------------------------------------------------------
(* The Fetch mail page: the invariant *)

ServingPC == {"gaps", "create", "claim"}

\* No step of PageNext deletes a mailbox, renumbers a folder or retries a job.
Undisturbed == used["delete"] = 0 /\ used["reset"] = 0 /\ used["retry"] = 0

Status == {"pending", "running", "done", "failed"}

TabState ==
  [script : {"over", "list", "post", "wait", "poll"}, account : RowId, range : Range,
   clicked : BOOLEAN, thread : Thread \cup {Idle.thread}, own : BOOLEAN,
   watched : Seq(RowId), polled : Seq(Status), shown : {"", "stored", "done"}]

PageTyped == page \in [Tab -> TabState] /\ lost \in Nat

\* What a tab asks for is over, and its mailbox is there; so is the mailbox of an
\* idle tab.
Picked ==
  /\ AccountExists(1) /\ 1 <= today
  /\ \A s \in Tab : /\ AccountExists(page[s].account)
                    /\ ~MayAskToday => page[s].range.to <= today
                    /\ page[s].script # "poll" => page[s].polled = <<>>

\* The job that a request is about to claim is its own: it is pending, it is of the
\* mailbox asked for, and no other request is about to claim it.
MadeIsPending ==
  \A t \in Thread : pc[t] = "claim" =>
    /\ \E j \in jobs : /\ j.id = made[t] /\ j.status = "pending"
                       /\ j.account = want[t].account
    /\ \A u \in Thread : pc[u] = "claim" /\ made[u] = made[t] => u = t

\* A tab that waits, waits for the thread that serves what it asked for; or that
\* has given the request up.
Served ==
  \A s \in Tab : page[s].script = "wait" =>
    /\ page[s].thread \in Thread
    /\ pc[page[s].thread] \in ServingPC =>
         want[page[s].thread] = [account |-> page[s].account, range |-> page[s].range]

RangeStored(a, r) == \A d \in Days(r) : DayStored(a, d)

\* The range of a job that is done is stored.
DoneStored ==
  ~MayAskToday =>
    /\ \A j \in jobs : j.status = "done" => RangeStored(j.account, j.range)
    /\ \A t \in Thread : pc[t] = "done" => RangeStored(Task(t).account, Task(t).range)

\* Day d of the mailbox is left to one of these jobs.
LeftTo(rows, a, d) == \E j \in rows : j.account = a /\ d \in Days(j.range)

\* Every day of a range that is asked for is stored, or one of the jobs that the
\* request has made, is making or will make is to fetch it.
Promised ==
  ~MayAskToday => \A t \in Thread : pc[t] \in {"create", "claim"} =>
    \A d \in Days(want[t].range) :
      \/ DayStored(want[t].account, d)
      \/ \E g \in gaps[t] : d \in Days(g)
      \/ pc[t] = "claim" /\ LeftTo({j \in jobs : j.id = made[t]}, want[t].account, d)
      \/ LeftTo(Queued(t), want[t].account, d)

\* The jobs that tab s watches, and those of them it read to be done.
Watched(s) == {j \in jobs : \E k \in 1 .. Len(page[s].watched) : j.id = page[s].watched[k]}

\* Every day of the range a tab asked for is stored, or left to a job the tab
\* watches; and what it read to be done is stored.
Watching ==
  ~MayAskToday => \A s \in Tab : page[s].script = "poll" /\ page[s].own =>
    /\ Len(page[s].polled) <= Len(page[s].watched)
    /\ \A d \in Days(page[s].range) :
         DayStored(page[s].account, d) \/ LeftTo(Watched(s), page[s].account, d)
    /\ \A k \in 1 .. Len(page[s].watched) : \E j \in jobs : j.id = page[s].watched[k]
    /\ \A k \in 1 .. Len(page[s].polled) : page[s].polled[k] = "done" =>
         \A j \in jobs : j.id = page[s].watched[k] => RangeStored(j.account, j.range)

\* DoneIsStored, day by day.
Kept ==
  ~MayAskToday => \A s \in Tab : page[s].shown # "" => RangeStored(page[s].account, page[s].range)

PageInv ==
  /\ HeldInv /\ VaultInv /\ Undisturbed
  /\ PageTyped /\ Picked /\ MadeIsPending /\ Served
  /\ DoneStored /\ Promised /\ Watching /\ Kept

\* One tab, which never gave up on a request.
OneTab == SingleTab /\ lost = 0

\* Only the request that the tab waits for is being served, and no other thread
\* has a job of its mailbox; nor has any when the tab is about to post.
Waited ==
  \A t \in Thread :
    /\ pc[t] \in ServingPC => \E s \in Tab : page[s].script = "wait" /\ page[s].thread = t
    /\ \A s \in Tab : \A q \in Queued(t) : q.account = page[s].account =>
         /\ page[s].script # "post"
         /\ page[s].script = "wait" /\ pc[page[s].thread] \in ServingPC => t = page[s].thread

\* The newest job of a mailbox that is being fetched is in a queue, or about to be.
NewestQueued ==
  \A t \in Thread :
    /\ pc[t] = "claim" => \A j \in jobs : j.id <= made[t]
    /\ \A q \in Queued(t) :
         \/ \E p \in Queued(t) : /\ p.account = q.account
                                 /\ \A j \in jobs : j.account = q.account => j.id <= p.id
         \/ pc[t] = "claim" /\ want[t].account = q.account

\* The jobs of one mailbox are in the queue of one thread.
OneQueue ==
  \A t, u \in Thread : \A q \in Queued(t), p \in Queued(u) : q.account = p.account => t = u

\* A request queues its jobs in the order in which it makes them.
InOrder ==
  \A t \in Thread : \A k, l \in 1 .. Len(queue[t]) : k < l => queue[t][k].id < queue[t][l].id

\* The row of a queued job says that it is running.
RowsRunning ==
  \A t \in Thread : \A q \in Queued(t) : \E j \in jobs : Same(j, q) /\ j.status = "running"

Solo == Waited /\ NewestQueued /\ OneQueue /\ InOrder /\ RowsRunning

SoloInv == OneTab => Solo

-----------------------------------------------------------------------------
(* What a step of the page is for the server *)

ServerNext ==
  \/ \E t \in Thread : \/ Step(t) \/ ErrorCaught(t) \/ ErrorEscapes(t)
                       \/ \E acc \in accounts, r \in Range : Request(t, acc.id, r)
  \/ \E b \in Box : Deliver(b) \/ Expunge(b)
  \/ Crash \/ Startup

LEMMA PageIsServed ==
  ASSUME PageTyped, Served, [PageNext]_allVars
  PROVE  [ServerNext]_vars
PROOF
  <1>1. ASSUME NEW s \in Tab, NEW t \in Thread, Post(s, t) PROVE ServerNext
    <2>1. page[s].range \in Range
      BY DEF PageTyped, TabState
    <2>2. PICK acc \in accounts : acc.id = page[s].account
      BY <1>1 DEF Post, Request, AccountExists
    <2>3. Request(t, acc.id, page[s].range)
      BY <1>1, <2>2 DEF Post
    <2>4. QED
      BY <2>1, <2>2, <2>3 DEF ServerNext
  <1>2. ASSUME NEW s \in Tab, Answer(s) PROVE ServerNext
    BY <1>2 DEF Answer, ServerNext, Step, Served
  <1>3. ASSUME NEW t \in Thread, Serve(t) PROVE ServerNext
    BY <1>3 DEF Serve, ServerNext
  <1>4. ASSUME Around PROVE ServerNext
    BY <1>4 DEF Around, ServerNext
  <1>5. ASSUME NEW s \in Tab, Script(s) \/ TimeUp(s) \/ GiveUp(s) PROVE ServerNext \/ UNCHANGED vars
    BY <1>1, <1>2, <1>5 DEF Script, ListRunning, ListQuiet, Poll, Report, NextRound, TimeUp,
       CallFails, GiveUp
  <1>6. ASSUME NEW s \in Tab, NEW a, NEW r, NEW click, Run(s, a, r, click) PROVE UNCHANGED vars
    BY <1>6 DEF Run
  <1>7. QED
    BY <1>3, <1>4, <1>5, <1>6 DEF PageNext, allVars

LEMMA ServedIsNext == [ServerNext]_vars => [Next]_vars
PROOF BY DEF ServerNext, Next

\* No mailbox is deleted, no folder renumbered and no job retried.
LEMMA UndisturbedNext ==
  ASSUME Typed, Undisturbed, [ServerNext]_vars PROVE Undisturbed'
PROOF
  <1>0. used \in [Event -> Nat] /\ {"delete", "reset", "retry"} \subseteq Event
    BY EventsType DEF Typed, TypeOK, Event
  <1>1. ASSUME NEW e \in {"request", "deliver", "expunge", "crash", "imapError", "dbError"}, Spend(e)
        PROVE  Undisturbed'
    BY <1>0, <1>1 DEF Undisturbed, Spend
  <1>2. ASSUME used' = used PROVE Undisturbed'
    BY <1>2 DEF Undisturbed
  <1>3. ASSUME NEW t \in Thread, Step(t) PROVE used' = used
    BY <1>3 DEF Step, ReadGaps, CreateJob, CreateJobRefused, ClaimJob, Respond, LoadAccount,
       Search, Fetch, SessionLost, Store, StoreRefused, Checkpoint, ReadCoverage,
       WriteCoverage, WriteCoverageRefused, MarkDone, MarkFailed
  <1>4. QED
    BY <1>1, <1>2, <1>3 DEF ServerNext, Request, ErrorCaught, ErrorEscapes, Crash, Startup, Deliver,
       Expunge, vars

-----------------------------------------------------------------------------
(* The job a request is about to claim *)

\* A thread is about to claim the job that it has just created, or was to claim
\* before.
LEMMA ToClaim ==
  ASSUME Typed, [Next]_vars, NEW t \in Thread, pc'[t] = "claim"
  PROVE  \/ CreateJob(t)
         \/ pc[t] = "claim" /\ made'[t] = made[t] /\ want'[t] = want[t] /\ queue'[t] = queue[t]
PROOF
  <1>0. /\ pc \in [Thread -> PC] /\ made \in [Thread -> RowId] /\ queue \in [Thread -> Seq(Job)]
        /\ want \in [Thread -> [account : RowId, range : Range]]
    BY DEF Typed, TypeOK
  <1> DEFINE Goal == \/ CreateJob(t)
                     \/ /\ pc[t] = "claim" /\ made'[t] = made[t] /\ want'[t] = want[t]
                        /\ queue'[t] = queue[t]
  <1>1. ASSUME NEW u \in Thread, ThreadStep(u), u = t PROVE Goal
    <2>1. CASE Step(t)
      BY <1>0, <2>1 DEF Step, ReadGaps, CreateJobRefused, ClaimJob, Respond, LoadAccount, Search,
         Fetch, SessionLost, Store, StoreRefused, Checkpoint, ReadCoverage, WriteCoverage,
         WriteCoverageRefused, MarkDone, MarkFailed, NextTask, Abandon, NextBatch, Go
    <2>2. CASE ~Step(t)
      BY <1>0, <1>1, <2>2 DEF ThreadStep, ClaimNextJob, ErrorCaught, ErrorEscapes, Request,
         Abandon, Go
    <2>3. QED
      BY <2>1, <2>2
  <1>2. ASSUME NEW u \in Thread, ThreadStep(u), u # t PROVE Goal
    <2>1. made'[t] = made[t]
      <3>1. CASE Step(u)
        BY <1>0, <1>2, <3>1 DEF Step, ReadGaps, CreateJob, CreateJobRefused, ClaimJob, Respond,
           LoadAccount, Search, Fetch, SessionLost, Store, StoreRefused, Checkpoint,
           ReadCoverage, WriteCoverage, WriteCoverageRefused, MarkDone, MarkFailed, NextTask,
           Abandon, DropRequest, local
      <3>2. CASE ~Step(u)
        BY <1>0, <1>2, <3>2 DEF ThreadStep, ClaimNextJob, ErrorCaught, ErrorEscapes, Request,
           Abandon, DropRequest, local
      <3>3. QED
        BY <3>1, <3>2
    <2>2. QED
      BY <1>2, <2>1, OtherThread DEF ThreadSame
  <1>3. (\E u \in Thread : ThreadStep(u)) \/ Crash \/ UNCHANGED <<pc, made, want, queue>>
    BY DEF ThreadStep, Next, CreateAccount, Deliver, Expunge, ResetUidValidity, DeleteAccount,
       RetryJob, Startup, NextDay, vars, local
  <1>4. ~Crash
    BY DEF Crash
  <1>5. QED
    BY <1>1, <1>2, <1>3, <1>4

\* A pending job stays, until the request that made it claims it.
LEMMA PendingStays ==
  ASSUME Typed, Fresh, Undisturbed, [ServerNext]_vars, NEW j \in jobs, j.status = "pending"
  PROVE  j \in jobs' \/ \E t \in Thread : ClaimJob(t) /\ made[t] = j.id
PROOF
  <1>0. jobs \subseteq Job /\ j.checkpoint = 0
    BY DEF Typed, TypeOK, Fresh, Undisturbed, NoneDeleted
  <1>1. ASSUME jobs \subseteq jobs' PROVE j \in jobs'
    BY <1>1
  <1>2. ASSUME NEW i, NEW s, SetStatus(i, s), j.id # i PROVE j \in jobs'
    BY <1>2 DEF SetStatus
  <1>3. ASSUME NEW t \in Thread, pc[t] \in RunPC PROVE Task(t).id # j.id
    BY <1>3, TaskIsQueued DEF Fresh, Undisturbed, NoneDeleted
  <1>4. ASSUME NEW t \in Thread, ClaimJob(t), made[t] # j.id PROVE j \in jobs'
    BY <1>1, <1>2, <1>4 DEF ClaimJob
  <1>5. ASSUME NEW t \in Thread, MarkDone(t) \/ MarkFailed(t) PROVE j \in jobs'
    BY <1>2, <1>3, <1>5 DEF MarkDone, MarkFailed, RunPC
  <1>6. ASSUME NEW t \in Thread, Checkpoint(t) PROVE j \in jobs'
    <2>1. j.id # Task(t).id
      BY <1>3, <1>6 DEF Checkpoint, RunPC
    <2>2. PICK last : jobs' = {IF r.id = Task(t).id THEN [r EXCEPT !.checkpoint = last] ELSE r :
                               r \in jobs}
      BY <1>6 DEF Checkpoint
    <2>3. QED
      BY <2>1, <2>2
  <1>7. ASSUME Startup PROVE j \in jobs'
    BY <1>7 DEF Startup
  <1>8. ASSUME NEW t \in Thread, Step(t) PROVE j \in jobs' \/ (ClaimJob(t) /\ made[t] = j.id)
    BY <1>1, <1>4, <1>5, <1>6, <1>8 DEF Step, ReadGaps, CreateJob, CreateJobRefused, Respond,
       LoadAccount, Search, Fetch, SessionLost, Store, StoreRefused, ReadCoverage, WriteCoverage,
       WriteCoverageRefused, tables
  <1>9. QED
    BY <1>1, <1>7, <1>8 DEF ServerNext, Request, ErrorCaught, ErrorEscapes, Crash, Deliver, Expunge,
       vars, tables

LEMMA MadeIsPendingNext ==
  ASSUME Typed, Fresh, Undisturbed, MadeIsPending, [ServerNext]_vars
  PROVE  MadeIsPending'
PROOF
  <1>0. /\ jobs \subseteq Job /\ made \in [Thread -> RowId] /\ pc \in [Thread -> PC]
        /\ [Next]_vars
    BY ServedIsNext DEF Typed, TypeOK
  \* A job that was created has a new id.
  <1>1. ASSUME NEW t \in Thread, CreateJob(t)
        PROVE  /\ \E j \in jobs' : /\ j.id = made'[t] /\ j.status = "pending"
                                   /\ j.account = want'[t].account
               /\ \A j \in jobs : j.id # made'[t]
    <2>1. PICK g \in gaps[t], i \in NextRowId(jobs) :
            /\ made' = [made EXCEPT ![t] = i]
            /\ jobs' = jobs \cup {[id |-> i, account |-> want[t].account, range |-> g,
                                   status |-> "pending", checkpoint |-> 0]}
      BY <1>1 DEF CreateJob
    <2>2. \A j \in jobs : j.id # i
      BY <1>0, <2>1, NewRowId DEF Job
    <2>3. made'[t] = i /\ want' = want
      BY <1>0, <1>1, <2>1 DEF CreateJob
    <2> DEFINE row == [id |-> i, account |-> want[t].account, range |-> g,
                       status |-> "pending", checkpoint |-> 0]
    <2>4. row \in jobs' /\ row.id = i /\ row.status = "pending" /\ row.account = want[t].account
      BY <2>1
    <2> HIDE DEF row
    <2>5. want'[t].account = want[t].account
      BY <2>3
    <2>6. QED
      BY <2>2, <2>3, <2>4, <2>5
  <1>2. ASSUME NEW t \in Thread, pc'[t] = "claim", ~CreateJob(t)
        PROVE  \E j \in jobs' : /\ j.id = made'[t] /\ j.status = "pending"
                                /\ j.account = want'[t].account
    <2>1. pc[t] = "claim" /\ made'[t] = made[t] /\ want'[t] = want[t]
      BY <1>0, <1>2, ToClaim
    <2>2. PICK j \in jobs : j.id = made[t] /\ j.status = "pending" /\ j.account = want[t].account
      BY <2>1 DEF MadeIsPending
    <2>3. ASSUME NEW u \in Thread, ClaimJob(u), made[u] = j.id PROVE FALSE
      <3>1. u = t
        BY <2>1, <2>2, <2>3 DEF MadeIsPending, ClaimJob
      <3>2. QED
        BY <1>0, <1>2, <2>3, <3>1 DEF ClaimJob, Go
    <2>4. QED
      BY <2>1, <2>2, <2>3, PendingStays
  <1>3. ASSUME NEW t \in Thread, NEW u \in Thread, pc'[t] = "claim", pc'[u] = "claim",
               made'[u] = made'[t], u # t
        PROVE  FALSE
    <2>1. ASSUME NEW x \in Thread, NEW y \in Thread, x # y, CreateJob(x), pc'[y] = "claim",
                 made'[x] = made'[y]
          PROVE  FALSE
      <3>1. ~CreateJob(y)
        BY <1>0, <2>1 DEF CreateJob, Go
      <3>2. pc[y] = "claim" /\ made'[y] = made[y]
        BY <1>0, <2>1, <3>1, ToClaim
      <3>3. \E j \in jobs : j.id = made[y]
        BY <3>2 DEF MadeIsPending
      <3>4. QED
        BY <1>1, <2>1, <3>2, <3>3
    <2>2. CASE CreateJob(t) \/ CreateJob(u)
      BY <1>3, <2>1, <2>2
    <2>3. CASE ~CreateJob(t) /\ ~CreateJob(u)
      BY <1>0, <1>3, <2>3, ToClaim DEF MadeIsPending
    <2>4. QED
      BY <2>2, <2>3
  <1>4. QED
    BY <1>1, <1>2, <1>3 DEF MadeIsPending

-----------------------------------------------------------------------------
(* What is stored stays stored *)

LEMMA RangeStays ==
  ASSUME Typed, [Next]_vars, NoneDeleted', NEW a, AccountExists(a), NEW r \in Range, r.to <= today,
         RangeStored(a, r)
  PROVE  RangeStored(a, r)'
PROOF
  <1>1. ASSUME NEW d \in Days(r) PROVE d \in Nat /\ d < today
    <2>1. LastDay \in Nat /\ today \in Nat /\ r.to \in Nat /\ d \in Nat /\ d < r.to
      BY ConstantsAssumption DEF Days, Day, Range, Typed, TypeOK
    <2>2. QED
      BY <2>1
  <1>2. \A d \in Days(r) : DayStored(a, d)'
    BY <1>1, DayStays DEF RangeStored
  <1>3. QED
    BY <1>2 DEF RangeStored, Days

LEMMA DoneStoredNext ==
  ASSUME VaultInv, Undisturbed, DoneStored, [Next]_vars, Undisturbed'
  PROVE  DoneStored'
PROOF
  <1> SUFFICES ASSUME ~MayAskToday PROVE DoneStored'
    BY DEF DoneStored
  <1>0. /\ Typed /\ NoneDeleted /\ NoneDeleted' /\ Calm /\ jobs \subseteq Job
        /\ pc \in [Thread -> PC]
    BY DEF VaultInv, Undisturbed, NoneDeleted, Calm, Typed, TypeOK
  <1>1. ASSUME NEW j \in jobs, RangeStored(j.account, j.range)
        PROVE  RangeStored(j.account, j.range)'
    <2>1. AccountExists(j.account) /\ j.range \in Range /\ j.range.to <= today
      BY <1>0 DEF VaultInv, RowsHaveAccount, Past, Job
    <2>2. QED
      BY <1>0, <1>1, <2>1, RangeStays
  <1>2. ASSUME NEW t \in Thread, pc[t] \in {"cover", "done"}
        PROVE  /\ RangeStored(Task(t).account, Task(t).range)
               /\ \E row \in jobs : Same(row, Task(t))
    <2>1. Task(t) \in Queued(t)
      BY <1>0, <1>2, TaskIsQueued DEF RunPC
    <2>2. RangeStored(Task(t).account, Task(t).range)
      BY <1>0, <1>2, RangeIsStored DEF VaultInv, RangeStored, DoneStored
    <2>3. QED
      BY <1>0, <2>1, <2>2 DEF VaultInv, Matched
  <1>3. ASSUME NEW t \in Thread, pc'[t] = "done"
        PROVE  RangeStored(Task(t).account, Task(t).range)'
    <2>1. Task(t)' = Task(t) /\ (ThreadSame(t) \/ RunStep(t))
      BY <1>0, <1>3, InsideStep DEF Inside
    <2>2. pc[t] \in {"cover", "done"}
      BY <1>0, <1>3, <2>1 DEF ThreadSame, RunStep, LoadAccount, Search, Fetch, Store, Checkpoint,
         ReadCoverage, WriteCoverage, NextBatch, Go
    <2>3. PICK row \in jobs : row.account = Task(t).account /\ row.range = Task(t).range
      BY <1>2, <2>2 DEF Same
    <2>4. RangeStored(row.account, row.range)'
      BY <1>1, <1>2, <2>2, <2>3
    <2>5. QED
      BY <2>1, <2>3, <2>4
  <1>4. ASSUME NEW k \in jobs', k.status = "done" PROVE RangeStored(k.account, k.range)'
    <2>1. ~Created(k)
      BY <1>4 DEF Created
    <2>2. PICK j \in jobs : /\ Same(j, k)
                            /\ \/ j.status = "done"
                               \/ \E t \in Thread : pc[t] = "done" /\ Task(t).id = k.id
      BY <1>0, <1>4, <2>1, JobsStep DEF Restated, Advanced
    <2>3. RangeStored(j.account, j.range)
      <3>1. ASSUME NEW t \in Thread, pc[t] = "done", Task(t).id = k.id
            PROVE  RangeStored(j.account, j.range)
        BY <1>2, <2>2, <3>1 DEF VaultInv, Ids, Same
      <3>2. QED
        BY <2>2, <3>1 DEF DoneStored
    <2>4. QED
      BY <1>1, <2>2, <2>3 DEF Same
  <1>5. QED
    BY <1>3, <1>4 DEF DoneStored

-----------------------------------------------------------------------------
(* The gaps of a range *)

LEMMA HasLeast ==
  ASSUME NEW S, S \subseteq Nat, S # {}
  PROVE  \E n \in S : \A m \in S : n <= m
PROOF
  <1>1. IsWellFoundedOn(OpToRel(<,Nat), Nat)
    BY NatLessThanWellFounded
  <1>2. PICK n \in S : \A m \in S : ~ (<<m, n>> \in OpToRel(<,Nat))
    BY <1>1, WFMin
  <1>3. \A m \in S : m < n => <<m, n>> \in OpToRel(<,Nat)
    BY DEF OpToRel
  <1>4. ASSUME NEW m \in S PROVE n <= m
    <2>1. ~(m < n) /\ m \in Nat /\ n \in Nat
      BY <1>2, <1>3
    <2>2. QED
      BY <2>1
  <1>5. QED
    BY <1>4

\* get_gaps leaves no day out: a day of the range that is not covered is in a gap.
LEMMA GapsLeaveNothingOut ==
  ASSUME NEW r \in Range, NEW days \in SUBSET Day, NEW d \in Days(r), d \notin days
  PROVE  \E g \in GapsOf(r, days) : d \in Days(g)
PROOF
  <1>0. /\ LastDay \in Nat /\ r.from \in Nat /\ r.to \in Nat /\ r.to <= LastDay + 1
        /\ d \in Nat /\ r.from <= d /\ d < r.to
    BY ConstantsAssumption DEF Range, Days, Day
  <1> DEFINE Starts == {n \in Nat : r.from <= n /\ n <= d /\ \A m \in n .. d : m \notin days}
             Ends_ == {n \in Nat : d < n /\ (n = r.to \/ n \in days)}
  <1>1. PICK from \in Starts : \A n \in Starts : from <= n
    <2>1. \A m \in d .. d : m \notin days
      BY <1>0
    <2>2. d \in Starts
      BY <1>0, <2>1
    <2>3. QED
      BY <2>2, HasLeast
  <1>2. PICK to \in Ends_ : \A n \in Ends_ : to <= n
    <2>1. r.to \in Ends_
      BY <1>0
    <2>2. QED
      BY <2>1, HasLeast
  <1>3. /\ from \in Nat /\ r.from <= from /\ from <= d /\ \A m \in from .. d : m \notin days
        /\ to \in Nat /\ d < to /\ (to = r.to \/ to \in days) /\ to <= r.to
    BY <1>0, <1>1, <1>2
  <1>4. from = r.from \/ from - 1 \in days
    <2> SUFFICES ASSUME from # r.from, from - 1 \notin days PROVE FALSE
      OBVIOUS
    <2>1. from - 1 \in Nat /\ r.from <= from - 1 /\ from - 1 <= d
      BY <1>0, <1>3
    <2>2. ASSUME NEW m \in from - 1 .. d PROVE m \notin days
      <3>1. m = from - 1 \/ m \in from .. d
        BY <1>3, <2>1
      <3>2. QED
        BY <1>3, <3>1
    <2>3. from - 1 \in Starts
      BY <2>1, <2>2
    <2>4. QED
      BY <1>1, <1>3, <2>3
  <1>5. ASSUME NEW m \in Day, from <= m, m < to PROVE m \in Days(r) /\ m \notin days
    <2>1. m \in Nat /\ r.from <= m /\ m < r.to
      BY <1>0, <1>3, <1>5 DEF Day
    <2>2. m \in Days(r)
      BY <2>1 DEF Days
    <2>3. CASE m <= d
      BY <1>3, <1>5, <2>1, <2>2, <2>3
    <2>4. CASE d < m
      <3>1. m \in days => m \in Ends_
        BY <2>1, <2>4
      <3>2. QED
        BY <1>2, <1>3, <1>5, <2>1, <2>2, <3>1
    <2>5. QED
      BY <1>0, <2>1, <2>3, <2>4
  <1> DEFINE g == [from |-> from, to |-> to]
  <1>6. g \in Range /\ g.from = from /\ g.to = to
    BY <1>0, <1>3 DEF Range, Day
  <1> HIDE DEF g
  <1>7. Days(g) \subseteq Days(r) \ days
    BY <1>5, <1>6 DEF Days
  <1>8. d \in Days(g)
    BY <1>0, <1>3, <1>6 DEF Days, Day
  <1>9. QED
    BY <1>3, <1>4, <1>6, <1>7, <1>8 DEF GapsOf

-----------------------------------------------------------------------------
(* No day of a request is left out *)

\* A thread that is making a request's jobs after a step was serving it before.
LEMMA ServingStep ==
  ASSUME Typed, [Next]_vars, NEW t \in Thread, pc'[t] \in {"create", "claim"}
  PROVE  /\ pc[t] \in ServingPC /\ want'[t] = want[t]
         /\ ReadGaps(t) \/ CreateJob(t) \/ ClaimJob(t) \/ ThreadSame(t)
         /\ pc'[t] = "claim" /\ ~CreateJob(t) => made'[t] = made[t] /\ pc[t] = "claim"
PROOF
  <1>0. /\ pc \in [Thread -> PC] /\ want \in [Thread -> [account : RowId, range : Range]]
    BY DEF Typed, TypeOK
  <1>1. ~Crash
    BY DEF Crash
  <1>2. ASSUME Step(t), ~ReadGaps(t), ~CreateJob(t), ~ClaimJob(t) PROVE FALSE
    BY <1>0, <1>2 DEF Step, CreateJobRefused, Respond, LoadAccount, Search, Fetch, SessionLost, Store,
       StoreRefused, Checkpoint, ReadCoverage, WriteCoverage, WriteCoverageRefused, MarkDone,
       MarkFailed, NextTask, Abandon, NextBatch, Go
  <1>3. ASSUME ThreadStep(t), ~Step(t) PROVE FALSE
    BY <1>0, <1>3 DEF ThreadStep, ClaimNextJob, ErrorCaught, ErrorEscapes, Request, Abandon, Go
  <1>4. ReadGaps(t) \/ CreateJob(t) \/ ClaimJob(t) \/ ThreadSame(t)
    BY <1>1, <1>2, <1>3, OneThread
  <1>5. pc[t] \in ServingPC /\ want'[t] = want[t]
    BY <1>4 DEF ReadGaps, CreateJob, ClaimJob, ThreadSame, ServingPC
  <1>6. pc'[t] = "claim" /\ ~CreateJob(t) => made'[t] = made[t] /\ pc[t] = "claim"
    BY ToClaim
  <1>7. QED
    BY <1>4, <1>5, <1>6

\* What a request asks for is of a mailbox that is there, and over.
LEMMA WantedIsOver ==
  ASSUME VaultInv, HeldInv, Undisturbed, ~MayAskToday, NEW t \in Thread, pc[t] \in ServingPC
  PROVE  AccountExists(want[t].account) /\ want[t].range \in Range /\ want[t].range.to <= today
PROOF BY DEF VaultInv, HeldInv, Undisturbed, NoneDeleted, Wanted, Past, ServingPC, Typed, TypeOK

LEMMA DayOver ==
  ASSUME Typed, NEW r \in Range, r.to <= today, NEW d \in Days(r)
  PROVE  d \in Nat /\ d < today
PROOF
  <1>1. LastDay \in Nat /\ today \in Nat /\ r.to \in Nat /\ d \in Nat /\ d < r.to
    BY ConstantsAssumption DEF Days, Day, Range, Typed, TypeOK
  <1>2. QED
    BY <1>1

LEMMA PromisedNext ==
  ASSUME VaultInv, HeldInv, Undisturbed, Undisturbed', MadeIsPending, Promised, [ServerNext]_vars
  PROVE  Promised'
PROOF
  <1> SUFFICES ASSUME ~MayAskToday, NEW t \in Thread, pc'[t] \in {"create", "claim"},
                      NEW d \in Days(want'[t].range)
               PROVE  \/ DayStored(want[t].account, d)'
                      \/ \E g \in gaps'[t] : d \in Days(g)
                      \/ pc'[t] = "claim" /\ LeftTo({j \in jobs : j.id = made[t]}, want[t].account, d)'
                      \/ LeftTo(Queued(t), want[t].account, d)'
    BY DEF Promised, Days
  <1>0. /\ Typed /\ NoneDeleted' /\ [Next]_vars /\ jobs \subseteq Job
        /\ pc \in [Thread -> PC] /\ gaps \in [Thread -> SUBSET Range]
        /\ queue \in [Thread -> Seq(Job)] /\ made \in [Thread -> RowId]
    BY ServedIsNext DEF VaultInv, Undisturbed, NoneDeleted, Typed, TypeOK
  <1>1. PICK a : a = want[t].account
    OBVIOUS
  <1>2. /\ pc[t] \in ServingPC /\ want'[t] = want[t]
        /\ ReadGaps(t) \/ CreateJob(t) \/ ClaimJob(t) \/ ThreadSame(t)
        /\ pc'[t] = "claim" /\ ~CreateJob(t) => made'[t] = made[t] /\ pc[t] = "claim"
    BY <1>0, ServingStep
  <1>3. /\ AccountExists(a) /\ want[t].range \in Range /\ want[t].range.to <= today
        /\ d \in Days(want[t].range)
    BY <1>1, <1>2, WantedIsOver DEF Days
  <1>4. d \in Nat /\ d < today
    BY <1>0, <1>3, DayOver
  <1> DEFINE Goal == \/ DayStored(a, d)'
                     \/ \E g \in gaps'[t] : d \in Days(g)
                     \/ pc'[t] = "claim" /\ LeftTo({j \in jobs : j.id = made[t]}, a, d)'
                     \/ LeftTo(Queued(t), a, d)'
  <1> SUFFICES Goal
    BY <1>1, <1>2 DEF LeftTo, DayStored
  <1>5. DayStored(a, d) => DayStored(a, d)'
    BY <1>0, <1>3, <1>4, DayStays
  <1>6. CASE ReadGaps(t)
    <2>1. gaps'[t] = GapsOf(want[t].range, CoveredDays(a))
      BY <1>0, <1>1, <1>6 DEF ReadGaps
    <2>2. CASE d \in CoveredDays(a)
      <3>1. <<a, d>> \in covered /\ CoveredIsStored
        BY <2>2 DEF CoveredDays, VaultInv, CoveredPastIsStored, Undisturbed
      <3>2. <<a, d>>[1] = a /\ <<a, d>>[2] = d
        OBVIOUS
      <3>3. DayStored(a, d)
        BY <3>1, <3>2, CoveredDay
      <3>4. QED
        BY <1>5, <3>3
    <2>3. CASE d \notin CoveredDays(a)
      <3>1. CoveredDays(a) \in SUBSET Day
        BY DEF CoveredDays
      <3>2. QED
        BY <1>3, <2>1, <2>3, <3>1, GapsLeaveNothingOut
    <2>4. QED
      BY <2>2, <2>3
  <1>7. CASE ~ReadGaps(t)
    <2>0. pc[t] \in {"create", "claim"}
      BY <1>2, <1>7 DEF CreateJob, ClaimJob, ThreadSame
    <2>1. \/ DayStored(a, d)
          \/ \E g \in gaps[t] : d \in Days(g)
          \/ pc[t] = "claim" /\ LeftTo({j \in jobs : j.id = made[t]}, a, d)
          \/ LeftTo(Queued(t), a, d)
      BY <1>1, <1>3, <2>0 DEF Promised
    <2>2. ASSUME Queued(t) \subseteq Queued(t)', LeftTo(Queued(t), a, d) PROVE Goal
      BY <2>2 DEF LeftTo
    <2>3. ASSUME pc[t] = "claim", LeftTo({j \in jobs : j.id = made[t]}, a, d), ThreadSame(t)
          PROVE  Goal
      <3>1. made'[t] = made[t] /\ pc'[t] = "claim"
        <4>1. ~CreateJob(t)
          BY <2>3 DEF CreateJob
        <4>2. QED
          BY <1>2, <2>3, <4>1 DEF ThreadSame
      <3>2. PICK j \in jobs : j.id = made[t] /\ j.account = a /\ d \in Days(j.range)
        BY <2>3 DEF LeftTo
      <3>3. PICK k \in jobs' : Same(j, k)
        BY <1>0, JobsStay
      <3>4. k.id = made'[t] /\ k.account = a /\ d \in Days(k.range)
        BY <3>1, <3>2, <3>3 DEF Same
      <3>5. QED
        BY <3>1, <3>3, <3>4 DEF LeftTo, Days
    <2>4. CASE ThreadSame(t)
      <3>1. Queued(t) = Queued(t)' /\ gaps'[t] = gaps[t]
        BY <2>4 DEF ThreadSame, Queued
      <3>2. QED
        BY <1>5, <2>1, <2>2, <2>3, <2>4, <3>1
    <2>5. CASE CreateJob(t)
      <3>1. PICK g \in gaps[t], i \in NextRowId(jobs) : /\ gaps' = [gaps EXCEPT ![t] = gaps[t] \ {g}]
                                    /\ made' = [made EXCEPT ![t] = i]
                                    /\ jobs' = jobs \cup {[id |-> i, account |-> want[t].account,
                                                           range |-> g, status |-> "pending",
                                                           checkpoint |-> 0]}
        BY <2>5 DEF CreateJob
      <3>2. /\ gaps'[t] = gaps[t] \ {g} /\ made'[t] = i /\ Queued(t) = Queued(t)'
            /\ pc[t] = "create" /\ pc'[t] = "claim"
        BY <1>0, <2>5, <3>1 DEF CreateJob, Go, Queued
      <3> DEFINE row == [id |-> i, account |-> want[t].account, range |-> g,
                         status |-> "pending", checkpoint |-> 0]
      <3>3. row \in jobs' /\ row.id = i /\ row.account = a /\ row.range = g
        BY <1>1, <3>1
      <3> HIDE DEF row
      <3>4. CASE d \in Days(g)
        BY <3>2, <3>3, <3>4 DEF LeftTo, Days
      <3>5. CASE d \notin Days(g)
        BY <1>5, <2>1, <2>2, <3>2, <3>5
      <3>6. QED
        BY <3>4, <3>5
    <2>6. CASE ClaimJob(t)
      <3>1. PICK j \in jobs : /\ j.id = made[t] /\ j.status = "pending"
                              /\ queue' = [queue EXCEPT ![t] = Append(queue[t],
                                                                  [j EXCEPT !.status = "running"])]
        BY <2>6 DEF ClaimJob, MadeIsPending
      <3> DEFINE claimed == [j EXCEPT !.status = "running"]
      <3>2. claimed \in Job /\ claimed.account = j.account /\ claimed.range = j.range
        BY <1>0 DEF Job
      <3>3. queue'[t] = Append(queue[t], claimed) /\ queue[t] \in Seq(Job)
        BY <1>0, <3>1
      <3> HIDE DEF claimed
      <3>4. /\ Len(queue'[t]) = Len(queue[t]) + 1 /\ queue'[t][Len(queue[t]) + 1] = claimed
            /\ \A k \in 1 .. Len(queue[t]) : queue'[t][k] = queue[t][k]
            /\ Len(queue[t]) \in Nat
        BY <3>2, <3>3, AppendToQueue
      <3>5. Queued(t) \subseteq Queued(t)' /\ claimed \in Queued(t)'
        <4>1. Len(queue[t]) + 1 \in 1 .. Len(queue'[t])
          BY <3>4
        <4>2. claimed \in Queued(t)'
          BY <3>4, <4>1 DEF Queued
        <4>3. \A k \in 1 .. Len(queue[t]) : k \in 1 .. Len(queue'[t]) /\ queue'[t][k] = queue[t][k]
          BY <3>4
        <4>4. QED
          BY <4>2, <4>3 DEF Queued
      <3>6. ASSUME LeftTo({r \in jobs : r.id = made[t]}, a, d) PROVE Goal
        <4>1. PICK r \in jobs : r.id = made[t] /\ r.account = a /\ d \in Days(r.range)
          BY <3>6 DEF LeftTo
        <4>2. r = j
          BY <3>1, <4>1 DEF VaultInv, Ids
        <4>3. QED
          BY <3>2, <3>5, <4>1, <4>2 DEF LeftTo, Days
      <3>7. gaps' = gaps
        BY <2>6 DEF ClaimJob
      <3>8. QED
        BY <1>5, <2>1, <2>2, <3>5, <3>6, <3>7
    <2>7. QED
      BY <1>2, <1>7, <2>4, <2>5, <2>6
  <1>8. QED
    BY <1>6, <1>7

-----------------------------------------------------------------------------
(* What a step changes of a tab *)

Fields == {"script", "account", "range", "clicked", "thread", "own", "watched", "polled", "shown"}

LEMMA IdleType ==
  /\ Idle \in TabState
  /\ Idle.script = "over" /\ Idle.account = 1 /\ Idle.range = NoRange /\ Idle.clicked = FALSE
  /\ Idle.own = FALSE /\ Idle.watched = <<>> /\ Idle.polled = <<>> /\ Idle.shown = ""
PROOF
  <1>1. <<>> \in Seq(RowId) /\ <<>> \in Seq(Status)
    OBVIOUS
  <1>2. QED
    BY <1>1, NoRangeType DEF Idle, TabState, RowId

\* The fields of a tab that Becomes changes, in its four uses.
LEMMA BecomesPost ==
  ASSUME PageTyped, NEW s \in Tab,
         Becomes(s, [script |-> "post"])
  PROVE  \E r \in TabState :
           r = page[s] /\ page' = [page EXCEPT ![s] = [r EXCEPT !.script = "post"]]
PROOF
  <1> DEFINE ch == [script |-> "post"]
  <1>1. PICK r \in TabState : r = page[s]
    BY DEF PageTyped
  <1>2. DOMAIN r = Fields
    BY DEF TabState, Fields
  <1>3. [f \in DOMAIN r |-> IF f \in DOMAIN ch THEN ch[f] ELSE r[f]]
        = [f \in DOMAIN r |-> IF f = "script" THEN "post" ELSE r[f]]
    OBVIOUS
  <1>4. [f \in DOMAIN r |-> IF f = "script" THEN "post" ELSE r[f]]
        = [r EXCEPT !.script = "post"]
    BY <1>2 DEF Fields
  <1>5. page' = [page EXCEPT ![s] = [f \in DOMAIN r |-> IF f \in DOMAIN ch THEN ch[f] ELSE r[f]]]
    BY <1>1 DEF Becomes
  <1>6. QED
    BY <1>1, <1>3, <1>4, <1>5

LEMMA BecomesWait ==
  ASSUME PageTyped, NEW s \in Tab, NEW t,
         Becomes(s, [script |-> "wait", thread |-> t])
  PROVE  \E r \in TabState :
           r = page[s] /\ page' = [page EXCEPT ![s] = [r EXCEPT !.script = "wait", !.thread = t]]
PROOF
  <1> DEFINE ch == [script |-> "wait", thread |-> t]
  <1>1. PICK r \in TabState : r = page[s]
    BY DEF PageTyped
  <1>2. DOMAIN r = Fields
    BY DEF TabState, Fields
  <1>3. [f \in DOMAIN r |-> IF f \in DOMAIN ch THEN ch[f] ELSE r[f]]
        = [f \in DOMAIN r |-> IF f = "script" THEN "wait" ELSE IF f = "thread" THEN t ELSE r[f]]
    OBVIOUS
  <1>4. [f \in DOMAIN r |-> IF f = "script" THEN "wait" ELSE IF f = "thread" THEN t ELSE r[f]]
        = [r EXCEPT !.script = "wait", !.thread = t]
    BY <1>2 DEF Fields
  <1>5. page' = [page EXCEPT ![s] = [f \in DOMAIN r |-> IF f \in DOMAIN ch THEN ch[f] ELSE r[f]]]
    BY <1>1 DEF Becomes
  <1>6. QED
    BY <1>1, <1>3, <1>4, <1>5

LEMMA BecomesPoll ==
  ASSUME PageTyped, NEW s \in Tab, NEW t \in Thread \cup {Idle.thread}, NEW w \in Seq(RowId),
         NEW ch, ch = [script |-> "poll", own |-> TRUE, thread |-> t, watched |-> w],
         Becomes(s, ch)
  PROVE  \E x \in TabState :
           /\ page' = [page EXCEPT ![s] = x]
           /\ x.script = "poll" /\ x.account = page[s].account /\ x.range = page[s].range
           /\ x.watched = w /\ x.shown = page[s].shown /\ x.polled = page[s].polled
PROOF
  <1>1. PICK r \in TabState : r = page[s]
    BY DEF PageTyped
  <1>2. DOMAIN r = Fields
    BY DEF TabState, Fields
  <1>3. /\ DOMAIN ch = {"script", "own", "thread", "watched"}
        /\ ch.script = "poll" /\ ch.own = TRUE /\ ch.thread = t /\ ch.watched = w
    OBVIOUS
  <1>4. [f \in DOMAIN r |-> IF f \in DOMAIN ch THEN ch[f] ELSE r[f]]
        = [f \in DOMAIN r |-> IF f = "script" THEN "poll" ELSE IF f = "own" THEN TRUE
                              ELSE IF f = "thread" THEN t ELSE IF f = "watched" THEN w ELSE r[f]]
    BY <1>3
  <1> DEFINE x == [r EXCEPT !.script = "poll", !.own = TRUE, !.thread = t, !.watched = w]
  <1>5. [f \in DOMAIN r |-> IF f = "script" THEN "poll" ELSE IF f = "own" THEN TRUE
                            ELSE IF f = "thread" THEN t ELSE IF f = "watched" THEN w ELSE r[f]]
        = x
    BY <1>2 DEF Fields
  <1>6. /\ x \in TabState /\ x.script = "poll" /\ x.account = r.account /\ x.range = r.range
        /\ x.watched = w /\ x.shown = r.shown /\ x.polled = r.polled
    BY DEF TabState
  <1> HIDE DEF x
  <1>7. page' = [page EXCEPT ![s] = [f \in DOMAIN r |-> IF f \in DOMAIN ch THEN ch[f] ELSE r[f]]]
    BY <1>1 DEF Becomes
  <1>8. QED
    BY <1>1, <1>4, <1>5, <1>6, <1>7

LEMMA BecomesPolled ==
  ASSUME PageTyped, NEW s \in Tab, NEW p,
         Becomes(s, [polled |-> p])
  PROVE  \E r \in TabState :
           r = page[s] /\ page' = [page EXCEPT ![s] = [r EXCEPT !.polled = p]]
PROOF
  <1> DEFINE ch == [polled |-> p]
  <1>1. PICK r \in TabState : r = page[s]
    BY DEF PageTyped
  <1>2. DOMAIN r = Fields
    BY DEF TabState, Fields
  <1>3. [f \in DOMAIN r |-> IF f \in DOMAIN ch THEN ch[f] ELSE r[f]]
        = [f \in DOMAIN r |-> IF f = "polled" THEN p ELSE r[f]]
    OBVIOUS
  <1>4. [f \in DOMAIN r |-> IF f = "polled" THEN p ELSE r[f]]
        = [r EXCEPT !.polled = p]
    BY <1>2 DEF Fields
  <1>5. page' = [page EXCEPT ![s] = [f \in DOMAIN r |-> IF f \in DOMAIN ch THEN ch[f] ELSE r[f]]]
    BY <1>1 DEF Becomes
  <1>6. QED
    BY <1>1, <1>3, <1>4, <1>5

Stays(s) == page'[s] = page[s]

\* The script starts, follows the jobs it found, or ends and shows nothing.
Restarts(s) ==
  /\ UNCHANGED vars
  /\ page'[s].script \in {"over", "list", "poll"} /\ page'[s].own = FALSE
  /\ page'[s].shown = "" /\ page'[s].polled = <<>>
  /\ AccountExists(page'[s].account)
  /\ MayAskToday \/ page'[s].range.to <= today

SameAsked(s) ==
  page'[s].account = page[s].account /\ page'[s].range = page[s].range

Asks(s) ==
  /\ ListQuiet(s) /\ SameAsked(s) /\ page'[s].script = "post"
  /\ page'[s].shown = page[s].shown /\ page'[s].polled = page[s].polled

Posts(s) ==
  /\ Post(s, page'[s].thread) /\ page'[s].thread \in Thread
  /\ SameAsked(s) /\ page'[s].script = "wait"
  /\ page'[s].shown = page[s].shown /\ page'[s].polled = page[s].polled

Watches(s) ==
  /\ Answer(s) /\ SameAsked(s) /\ page'[s].script = "poll"
  /\ page'[s].watched = [k \in DOMAIN queue[page[s].thread] |-> queue[page[s].thread][k].id]
  /\ page'[s].shown = page[s].shown /\ page'[s].polled = page[s].polled

Shows(s) ==
  /\ SameAsked(s) /\ page'[s].script = "over" /\ page'[s].polled = <<>>
  /\ \/ Answer(s) /\ queue[page[s].thread] = <<>>
     \/ /\ Report(s) /\ page[s].own
        /\ \A k \in DOMAIN page[s].polled : page[s].polled[k] # "failed"

Reads(s) ==
  /\ UNCHANGED vars
  /\ SameAsked(s) /\ page[s].script = "poll" /\ page'[s].script = "poll"
  /\ page'[s].own = page[s].own /\ page'[s].watched = page[s].watched
  /\ page'[s].shown = page[s].shown
  /\ \/ page'[s].polled = <<>>
     \/ /\ Len(page[s].polled) < Len(page[s].watched)
        /\ \E j \in jobs : /\ j.id = page[s].watched[Len(page[s].polled) + 1]
                           /\ page'[s].polled = Append(page[s].polled, j.status)

TabMoves(s) ==
  \/ Stays(s) \/ Restarts(s) \/ Asks(s) \/ Posts(s) \/ Watches(s) \/ Shows(s) \/ Reads(s)

\* A field is changed in the state of one tab.
LEMMA OneTabChanges ==
  ASSUME PageTyped, NEW s \in Tab, NEW x \in TabState, page' = [page EXCEPT ![s] = x]
  PROVE  /\ page' \in [Tab -> TabState] /\ page'[s] = x
         /\ \A u \in Tab : u # s => Stays(u)
PROOF BY DEF PageTyped, Stays

\* The script has ended.
LEMMA EndsEffect ==
  ASSUME Typed, PageTyped, Picked, NEW s \in Tab, NEW shown \in {"", "stored", "done"}, Ends(s, shown)
  PROVE  /\ page' \in [Tab -> TabState] /\ \A u \in Tab : u # s => Stays(u)
         /\ shown # "" => SameAsked(s) /\ page'[s].script = "over" /\ page'[s].polled = <<>>
         /\ shown = "" /\ UNCHANGED vars => Restarts(s)
PROOF
  <1>1. PICK r \in TabState : r = page[s]
    BY DEF PageTyped
  <1>2. CASE shown = ""
    <2>1. page' = [page EXCEPT ![s] = Idle]
      BY <1>2 DEF Ends
    <2>2. page'[s] = Idle /\ page' \in [Tab -> TabState] /\ \A u \in Tab : u # s => Stays(u)
      BY <2>1, IdleType, OneTabChanges
    <2>3. NoRange.to = 1
      BY DEF NoRange
    <2>4. QED
      BY <1>2, <2>2, <2>3, IdleType DEF Restarts, Picked
  <1>3. CASE shown # ""
    <2> DEFINE x == [Idle EXCEPT !.account = r.account, !.range = r.range, !.shown = shown]
    <2>1. /\ x \in TabState /\ x.script = "over" /\ x.polled = <<>>
          /\ x.account = r.account /\ x.range = r.range
      BY IdleType DEF TabState
    <2>2. page' = [page EXCEPT ![s] = x]
      BY <1>1, <1>3 DEF Ends
    <2> HIDE DEF x
    <2>3. page'[s] = x /\ page' \in [Tab -> TabState] /\ \A u \in Tab : u # s => Stays(u)
      BY <2>1, <2>2, OneTabChanges
    <2>4. QED
      BY <1>1, <1>3, <2>1, <2>3 DEF SameAsked
  <1>4. QED
    BY <1>2, <1>3

\* What one step of its script makes of a tab.
LEMMA ScriptMoves ==
  ASSUME Typed, PageTyped, Picked, Served, NEW s \in Tab,
         \/ Script(s) \/ TimeUp(s) \/ GiveUp(s)
         \/ \E acc \in accounts, r \in Ask, click \in BOOLEAN : Run(s, acc.id, r, click)
  PROVE  /\ page' \in [Tab -> TabState] /\ \A u \in Tab : u # s => Stays(u)
         /\ TabMoves(s) /\ lost' \in Nat
PROOF
  <1> DEFINE Goal == /\ page' \in [Tab -> TabState] /\ \A u \in Tab : u # s => Stays(u)
                     /\ TabMoves(s)
  <1>0. PICK p \in TabState : p = page[s]
    BY DEF PageTyped
  <1>l. lost' \in Nat
    <2>1. lost' = lost \/ lost' = lost + 1
      BY DEF Script, ListRunning, ListQuiet, Poll, Report, NextRound, CallFails, Answer, Post,
         TimeUp, GiveUp, Run
    <2>2. QED
      BY <2>1 DEF PageTyped
  <1>1. ASSUME NEW acc \in accounts, NEW r \in Ask, NEW click \in BOOLEAN, Run(s, acc.id, r, click)
        PROVE  Goal
    <2> DEFINE x == [Idle EXCEPT !.script = "list", !.account = acc.id, !.range = r,
                                 !.clicked = click]
    <2>1. acc.id \in RowId /\ r \in Range
      BY PageAssumption DEF Typed, TypeOK, Account
    <2>2. /\ x \in TabState /\ x.script = "list" /\ x.own = FALSE /\ x.shown = "" /\ x.polled = <<>>
          /\ x.account = acc.id /\ x.range = r
      BY <2>1, IdleType DEF TabState
    <2>3. page' = [page EXCEPT ![s] = x] /\ UNCHANGED vars /\ (MayAskToday \/ r.to <= today)
      BY <1>1 DEF Run
    <2> HIDE DEF x
    <2>4. page'[s] = x /\ page' \in [Tab -> TabState] /\ \A u \in Tab : u # s => Stays(u)
      BY <2>2, <2>3, OneTabChanges
    <2>5. Restarts(s)
      BY <2>2, <2>3, <2>4 DEF Restarts, AccountExists
    <2>6. QED
      BY <2>4, <2>5 DEF TabMoves
  <1>2. ASSUME ListRunning(s) PROVE Goal
    <2>1. PICK ids \in RunningIds(page[s].account) :
            page' = [page EXCEPT ![s] = [Idle EXCEPT !.script = "poll", !.watched = ids,
                                                     !.account = p.account]]
      BY <1>0, <1>2 DEF ListRunning
    <2>2. ids \in Seq(RowId)
      <3>1. PICK n \in 0 .. Recent : ids \in [1 .. n -> {j.id : j \in Listed(page[s].account)}]
        BY DEF RunningIds
      <3>2. n \in Nat
        BY PageAssumption
      <3>3. {j.id : j \in Listed(page[s].account)} \subseteq RowId
        <4>1. Listed(page[s].account) \subseteq jobs
          BY DEF Listed
        <4>2. \A j \in jobs : j.id \in RowId
          BY DEF Typed, TypeOK, Job
        <4>3. QED
          BY <4>1, <4>2
      <3>4. \A k \in 1 .. n : ids[k] \in RowId
        BY <3>1, <3>3
      <3>5. ids = [k \in 1 .. n |-> ids[k]]
        BY <3>1
      <3>6. QED
        BY <3>2, <3>4, <3>5
    <2> DEFINE x == [Idle EXCEPT !.script = "poll", !.watched = ids, !.account = p.account]
    <2>3. /\ x \in TabState /\ x.script = "poll" /\ x.own = FALSE /\ x.shown = ""
          /\ x.polled = <<>> /\ x.account = p.account /\ x.range = NoRange
      BY <2>2, IdleType DEF TabState
    <2>4. page' = [page EXCEPT ![s] = x] /\ UNCHANGED vars
      BY <1>2, <2>1 DEF ListRunning
    <2> HIDE DEF x
    <2>5. page'[s] = x /\ page' \in [Tab -> TabState] /\ \A u \in Tab : u # s => Stays(u)
      BY <2>3, <2>4, OneTabChanges
    <2>6. NoRange.to = 1
      BY DEF NoRange
    <2>7. Restarts(s)
      BY <1>0, <2>3, <2>4, <2>5, <2>6 DEF Restarts, Picked
    <2>8. QED
      BY <2>5, <2>7 DEF TabMoves
  <1>3. ASSUME ListQuiet(s) /\ page[s].clicked PROVE Goal
    <2>1. PICK r \in TabState :
            r = page[s] /\ page' = [page EXCEPT ![s] = [r EXCEPT !.script = "post"]]
      BY <1>3, BecomesPost DEF ListQuiet
    <2> DEFINE x == [r EXCEPT !.script = "post"]
    <2>2. /\ x \in TabState /\ x.script = "post" /\ x.account = r.account /\ x.range = r.range
          /\ x.shown = r.shown /\ x.polled = r.polled
      BY DEF TabState
    <2> HIDE DEF x
    <2>3. page'[s] = x /\ page' \in [Tab -> TabState] /\ \A u \in Tab : u # s => Stays(u)
      BY <2>1, <2>2, OneTabChanges DEF x
    <2>4. Asks(s)
      BY <1>3, <2>1, <2>2, <2>3 DEF Asks, SameAsked
    <2>5. QED
      BY <2>3, <2>4 DEF TabMoves
  <1>4. ASSUME NEW t \in Thread, Post(s, t) PROVE Goal
    <2>0. Becomes(s, [script |-> "wait", thread |-> t])
      BY <1>4 DEF Post
    <2>1. PICK r \in TabState :
            /\ r = page[s]
            /\ page' = [page EXCEPT ![s] = [r EXCEPT !.script = "wait", !.thread = t]]
      BY <2>0, BecomesWait
    <2> DEFINE x == [r EXCEPT !.script = "wait", !.thread = t]
    <2>2. /\ x \in TabState /\ x.script = "wait" /\ x.account = r.account /\ x.range = r.range
          /\ x.shown = r.shown /\ x.polled = r.polled /\ x.thread = t
      BY DEF TabState
    <2> HIDE DEF x
    <2>3. page'[s] = x /\ page' \in [Tab -> TabState] /\ \A u \in Tab : u # s => Stays(u)
      BY <2>1, <2>2, OneTabChanges DEF x
    <2>4. Posts(s)
      BY <1>4, <2>1, <2>2, <2>3 DEF Posts, SameAsked
    <2>5. QED
      BY <2>3, <2>4 DEF TabMoves
  <1>5. ASSUME Answer(s) /\ queue[page[s].thread] # <<>> PROVE Goal
    <2> DEFINE w == [k \in DOMAIN queue[page[s].thread] |-> queue[page[s].thread][k].id]
    <2>1. Becomes(s, [script |-> "poll", own |-> TRUE, thread |-> Idle.thread, watched |-> w])
      BY <1>5 DEF Answer
    <2>2. w \in Seq(RowId)
      <3>1. page[s].thread \in Thread
        BY <1>5 DEF Answer, Served
      <3>2. queue[page[s].thread] \in Seq(Job)
        BY <3>1 DEF Typed, TypeOK
      <3>3. PICK q \in Seq(Job) : q = queue[page[s].thread]
        BY <3>2
      <3>4. DOMAIN q = 1 .. Len(q) /\ Len(q) \in Nat /\ \A k \in 1 .. Len(q) : q[k] \in Job
        BY <3>3
      <3>5. \A k \in 1 .. Len(q) : q[k].id \in RowId
        BY <3>4 DEF Job
      <3>6. [k \in 1 .. Len(q) |-> q[k].id] \in Seq(RowId)
        BY <3>4, <3>5
      <3>7. QED
        BY <3>3, <3>4, <3>6
    <2>3. PICK x \in TabState :
            /\ page' = [page EXCEPT ![s] = x]
            /\ x.script = "poll" /\ x.account = page[s].account /\ x.range = page[s].range
            /\ x.watched = w /\ x.shown = page[s].shown /\ x.polled = page[s].polled
      <3>1. PICK ids, ch : /\ ids = w
                           /\ ch = [script |-> "poll", own |-> TRUE, thread |-> Idle.thread,
                                    watched |-> w]
        OBVIOUS
      <3> HIDE DEF w
      <3>2. Becomes(s, ch) /\ ids \in Seq(RowId)
        BY <2>1, <2>2, <3>1
      <3>3. QED
        BY <3>1, <3>2, BecomesPoll
    <2>5. page'[s] = x /\ page' \in [Tab -> TabState] /\ \A u \in Tab : u # s => Stays(u)
      BY <2>3, OneTabChanges
    <2>6. Watches(s)
      BY <1>5, <2>3, <2>5 DEF Watches, SameAsked
    <2>7. QED
      BY <2>5, <2>6 DEF TabMoves
  <1>6. ASSUME Answer(s) /\ queue[page[s].thread] = <<>> PROVE Goal
    <2>1. Ends(s, "stored")
      BY <1>6 DEF Answer
    <2>2. QED
      BY <1>6, <2>1, EndsEffect DEF TabMoves, Shows
  <1>7. ASSUME Report(s) PROVE Goal
    <2>1. CASE page[s].own /\ \A k \in DOMAIN page[s].polled : page[s].polled[k] # "failed"
      <3>1. Ends(s, "done")
        BY <1>7, <2>1 DEF Report
      <3>2. QED
        BY <1>7, <2>1, <3>1, EndsEffect DEF TabMoves, Shows
    <2>2. CASE ~(page[s].own /\ \A k \in DOMAIN page[s].polled : page[s].polled[k] # "failed")
      <3>1. Ends(s, "") /\ UNCHANGED vars
        BY <1>7, <2>2 DEF Report
      <3>2. QED
        BY <3>1, EndsEffect DEF TabMoves
    <2>3. QED
      BY <2>1, <2>2
  <1>8. ASSUME Ends(s, ""), UNCHANGED vars PROVE Goal
    BY <1>8, EndsEffect DEF TabMoves
  <1>9. ASSUME Poll(s) PROVE Goal
    <2>1. PICK j \in jobs : /\ j.id = page[s].watched[Len(page[s].polled) + 1]
                            /\ Becomes(s, [polled |-> Append(page[s].polled, j.status)])
      BY <1>9 DEF Poll
    <2>2. PICK r \in TabState :
            /\ r = page[s]
            /\ page' = [page EXCEPT ![s] = [r EXCEPT !.polled = Append(page[s].polled, j.status)]]
      BY <2>1, BecomesPolled
    <2> DEFINE x == [r EXCEPT !.polled = Append(r.polled, j.status)]
    <2>3. /\ x \in TabState /\ x.script = r.script /\ x.account = r.account /\ x.range = r.range
          /\ x.own = r.own /\ x.watched = r.watched /\ x.shown = r.shown
          /\ x.polled = Append(r.polled, j.status)
      <3>1. j.status \in Status /\ r.polled \in Seq(Status)
        BY DEF Typed, TypeOK, Job, Status, TabState
      <3>2. Append(r.polled, j.status) \in Seq(Status)
        BY <3>1
      <3>3. QED
        BY <3>2 DEF TabState
    <2> HIDE DEF x
    <2>4. page'[s] = x /\ page' \in [Tab -> TabState] /\ \A u \in Tab : u # s => Stays(u)
      BY <2>2, <2>3, OneTabChanges DEF x
    <2>5. Reads(s)
      BY <1>9, <2>1, <2>2, <2>3, <2>4 DEF Reads, SameAsked, Poll
    <2>6. QED
      BY <2>4, <2>5 DEF TabMoves
  <1>10. ASSUME NextRound(s) PROVE Goal
    <2>1. PICK r \in TabState :
            r = page[s] /\ page' = [page EXCEPT ![s] = [r EXCEPT !.polled = <<>>]]
      BY <1>10, BecomesPolled DEF NextRound
    <2> DEFINE x == [r EXCEPT !.polled = <<>>]
    <2>2. /\ x \in TabState /\ x.script = r.script /\ x.account = r.account /\ x.range = r.range
          /\ x.own = r.own /\ x.watched = r.watched /\ x.shown = r.shown /\ x.polled = <<>>
      <3>1. <<>> \in Seq(Status)
        OBVIOUS
      <3>2. QED
        BY <3>1 DEF TabState
    <2> HIDE DEF x
    <2>3. page'[s] = x /\ page' \in [Tab -> TabState] /\ \A u \in Tab : u # s => Stays(u)
      BY <2>1, <2>2, OneTabChanges DEF x
    <2>4. Reads(s)
      BY <1>10, <2>1, <2>2, <2>3 DEF Reads, SameAsked, NextRound, RoundRead
    <2>5. QED
      BY <2>3, <2>4 DEF TabMoves
  <1>11. Goal
    BY <1>1, <1>2, <1>3, <1>4, <1>5, <1>6, <1>7, <1>8, <1>9, <1>10
       DEF Script, ListQuiet, TimeUp, GiveUp, CallFails
  <1>12. QED
    BY <1>l, <1>11

\* What one step of the system makes of a tab.
LEMMA TabStep ==
  ASSUME Typed, PageTyped, Picked, Served, [PageNext]_allVars
  PROVE  PageTyped' /\ \A s \in Tab : TabMoves(s)
PROOF
  <1>1. ASSUME NEW s \in Tab,
               \/ Script(s) \/ TimeUp(s) \/ GiveUp(s)
               \/ \E acc \in accounts, r \in Ask, click \in BOOLEAN : Run(s, acc.id, r, click)
        PROVE  PageTyped' /\ \A u \in Tab : TabMoves(u)
    <2>1. /\ page' \in [Tab -> TabState] /\ \A u \in Tab : u # s => Stays(u)
          /\ TabMoves(s) /\ lost' \in Nat
      BY <1>1, ScriptMoves
    <2>2. PageTyped'
      BY <2>1, IdleType DEF PageTyped, TabState
    <2>3. QED
      BY <2>1, <2>2 DEF TabMoves
  <1>2. ASSUME UNCHANGED pageVars PROVE PageTyped' /\ \A u \in Tab : TabMoves(u)
    BY <1>2 DEF pageVars, PageTyped, TabMoves, Stays
  <1>3. QED
    BY <1>1, <1>2 DEF PageNext, Serve, Around, allVars

-----------------------------------------------------------------------------
(* What a tab asks for, and of whom *)

LEMMA PickedNext ==
  ASSUME Typed, PageTyped, Picked, Served, Undisturbed, Undisturbed', [PageNext]_allVars
  PROVE  Picked'
PROOF
  <1>0. TablesGrow /\ today \in Nat /\ today' \in Nat
    <2>1. [Next]_vars
      BY PageIsServed, ServedIsNext
    <2>2. Typed'
      BY <2>1, NextTyped
    <2>3. today \in Nat /\ today' \in Nat
      BY <2>2, ConstantsAssumption DEF Typed, TypeOK, Day
    <2>4. QED
      BY <2>1, <2>3, TablesStep DEF Undisturbed, NoneDeleted
  <1>1. \A a : AccountExists(a) => AccountExists(a)'
    BY <1>0 DEF TablesGrow, AccountExists
  <1>2. ASSUME NEW n \in Nat, n <= today PROVE n <= today'
    BY <1>0, <1>2 DEF TablesGrow
  <1>3. PageTyped' /\ \A s \in Tab : TabMoves(s)
    BY TabStep
  <1>4. ASSUME NEW s \in Tab
        PROVE  /\ AccountExists(page[s].account)'
               /\ ~MayAskToday => page'[s].range.to <= today'
               /\ page'[s].script # "poll" => page'[s].polled = <<>>
    <2>0. /\ AccountExists(page[s].account) /\ (~MayAskToday => page[s].range.to <= today)
          /\ page[s].script # "poll" => page[s].polled = <<>>
          /\ page[s].range.to \in Nat /\ page'[s].range.to \in Nat
      <3>1. page[s].range \in Range /\ page'[s].range \in Range
        BY <1>3 DEF PageTyped, TabState
      <3>2. \A r \in Range : r.to \in Nat
        BY ConstantsAssumption DEF Range
      <3>3. QED
        BY <3>1, <3>2 DEF Picked
    <2>1. PICK a : a = page'[s].account
      OBVIOUS
    <2>2. CASE Restarts(s)
      <3>1. AccountExists(a) /\ (~MayAskToday => page'[s].range.to <= today)
        BY <2>1, <2>2 DEF Restarts
      <3>2. AccountExists(a)'
        BY <1>1, <3>1
      <3>3. QED
        BY <1>2, <2>0, <2>1, <2>2, <3>1, <3>2 DEF Restarts, AccountExists
    <2>3. CASE ~Restarts(s)
      <3>1. SameAsked(s)
        BY <1>3, <2>3 DEF TabMoves, Stays, SameAsked, Asks, Posts, Watches, Shows, Reads
      <3>2. AccountExists(a)'
        BY <1>1, <2>0, <2>1, <3>1 DEF SameAsked
      <3>3. page'[s].script # "poll" => page'[s].polled = <<>>
        BY <1>3, <2>0, <2>3 DEF TabMoves, Stays, Asks, Posts, Watches, Shows, Reads, ListQuiet, Post
      <3>4. QED
        BY <1>2, <2>0, <2>1, <3>1, <3>2, <3>3 DEF SameAsked, AccountExists
    <2>4. QED
      BY <2>2, <2>3
  <1>5. AccountExists(1)' /\ 1 <= today'
    BY <1>1, <1>2 DEF Picked
  <1>6. QED
    BY <1>4, <1>5 DEF Picked

\* A thread that serves a request served it before, or a tab has just posted it.
LEMMA ServingBefore ==
  ASSUME Typed, [PageNext]_allVars, [Next]_vars, NEW t \in Thread, pc'[t] \in ServingPC
  PROVE  \/ pc[t] \in ServingPC /\ want'[t] = want[t]
         \/ \E s \in Tab : pc[t] = "idle" /\ ~Awaited(t) /\ Post(s, t)
PROOF
  <1>0. /\ pc \in [Thread -> PC] /\ want \in [Thread -> [account : RowId, range : Range]]
    BY DEF Typed, TypeOK
  <1>1. CASE pc'[t] \in {"create", "claim"}
    <2>1. pc[t] \in ServingPC /\ want'[t] = want[t]
      BY <1>1, ServingStep DEF ServingPC
    <2>2. QED
      BY <2>1
  <1>2. CASE pc'[t] = "gaps"
    <2>1. CASE ThreadSame(t)
      BY <1>2, <2>1 DEF ThreadSame, ServingPC
    <2>2. CASE ~ThreadSame(t)
      <3>1. ASSUME NEW u \in Thread, Step(u) PROVE u = t
        BY <2>2, <3>1, OtherThread DEF ThreadStep
      <3>2. ASSUME Step(t) PROVE FALSE
        BY <1>0, <1>2, <3>2 DEF Step, ReadGaps, CreateJob, CreateJobRefused, ClaimJob, Respond,
           LoadAccount, Search, Fetch, SessionLost, Store, StoreRefused, Checkpoint, ReadCoverage,
           WriteCoverage, WriteCoverageRefused, MarkDone, MarkFailed, NextTask, Abandon, NextBatch,
           Go
      <3>3. ASSUME NEW s \in Tab, Answer(s) PROVE FALSE
        <4>1. PICK u : Respond(u) /\ u = page[s].thread
          BY <3>3 DEF Answer
        <4>2. pc' = [pc EXCEPT ![u] = IF queue[u] = <<>> THEN "idle" ELSE "load"]
          BY <4>1 DEF Respond, Go
        <4>3. u # t
          BY <1>0, <1>2, <4>2
        <4>4. ThreadSame(t)
          BY <1>0, <4>1, <4>2, <4>3 DEF Respond, DropRequest, ThreadSame, Typed, TypeOK
        <4>5. QED
          BY <2>2, <4>4
      <3>4. ASSUME NEW s \in Tab, NEW u \in Thread, Post(s, u) PROVE u = t
        <4>1. ASSUME u # t PROVE ThreadSame(t)
          BY <1>0, <3>4, <4>1 DEF Post, Request, Go, ThreadSame
        <4>2. QED
          BY <2>2, <4>1
      <3>5. ASSUME NEW u \in Thread, ErrorCaught(u) \/ ErrorEscapes(u) PROVE FALSE
        <4>1. u = t
          BY <2>2, <3>5, OtherThread DEF ThreadStep
        <4>2. QED
          BY <1>0, <1>2, <3>5, <4>1 DEF ErrorCaught, ErrorEscapes, Abandon, Go
      <3>6. ~Crash
        BY <1>2 DEF Crash
      <3>7. ASSUME UNCHANGED <<pc, want, gaps, queue, sess, seen>> PROVE FALSE
        BY <2>2, <3>7 DEF ThreadSame
      <3>8. QED
        BY <3>1, <3>2, <3>3, <3>4, <3>5, <3>6, <3>7
           DEF PageNext, Script, Serve, Around, ListRunning, ListQuiet, Poll, Report, NextRound,
               CallFails, TimeUp, GiveUp, Run, Deliver, Expunge, Startup, allVars, vars, local
    <2>3. QED
      BY <2>1, <2>2
  <1>3. QED
    BY <1>1, <1>2 DEF ServingPC

LEMMA ServedNext ==
  ASSUME Typed, PageTyped, Picked, Served, [PageNext]_allVars
  PROVE  Served'
PROOF
  <1>0. [Next]_vars /\ PageTyped'
    BY PageIsServed, ServedIsNext, TabStep
  <1> SUFFICES ASSUME NEW s \in Tab, page'[s].script = "wait"
               PROVE  /\ page'[s].thread \in Thread
                      /\ pc'[page'[s].thread] \in ServingPC =>
                           want'[page'[s].thread] = [account |-> page'[s].account,
                                                     range |-> page'[s].range]
    BY DEF Served
  <1>1. Stays(s) \/ Posts(s)
    BY TabStep DEF TabMoves, Restarts, Asks, Watches, Shows, Reads
  <1>2. CASE Posts(s)
    <2>1. PICK t \in Thread : t = page'[s].thread /\ Post(s, t)
      BY <1>2 DEF Posts
    <2>2. want'[t] = [account |-> page[s].account, range |-> page[s].range]
      BY <2>1 DEF Post, Request, Typed, TypeOK
    <2>3. QED
      BY <1>2, <2>1, <2>2 DEF Posts, SameAsked
  <1>3. CASE Stays(s)
    <2>1. /\ page[s].script = "wait" /\ page'[s] = page[s] /\ page[s].thread \in Thread
          /\ pc[page[s].thread] \in ServingPC =>
               want[page[s].thread] = [account |-> page[s].account, range |-> page[s].range]
      BY <1>3 DEF Stays, Served
    <2>2. PICK t \in Thread : t = page[s].thread
      BY <2>1
    <2>3. Awaited(t)
      BY <2>1, <2>2 DEF Awaited
    <2>4. QED
      BY <1>0, <2>1, <2>2, <2>3, ServingBefore
  <1>4. QED
    BY <1>1, <1>2, <1>3

-----------------------------------------------------------------------------
(* What is shown is stored *)

\* What tab s asks for was over, and so stays stored.
LEMMA AskedStays ==
  ASSUME Typed, PageTyped, Picked, [Next]_vars, Undisturbed', ~MayAskToday, NEW s \in Tab,
         SameAsked(s)
  PROVE  /\ \A d \in Days(page[s].range) :
              DayStored(page[s].account, d) => DayStored(page[s].account, d)'
         /\ RangeStored(page[s].account, page[s].range)
              => RangeStored(page[s].account, page[s].range)'
PROOF
  <1>0. PICK a, r : a = page[s].account /\ r = page[s].range
    OBVIOUS
  <1>1. AccountExists(a) /\ r \in Range /\ r.to <= today
    BY <1>0 DEF Picked, PageTyped, TabState
  <1>2. \A d \in Days(r) : DayStored(a, d) => DayStored(a, d)'
    BY <1>1, DayOver, DayStays DEF Undisturbed, NoneDeleted
  <1>3. RangeStored(a, r) => RangeStored(a, r)'
    BY <1>1, RangeStays DEF Undisturbed, NoneDeleted
  <1>4. page'[s].account = a /\ page'[s].range = r
    BY <1>0 DEF SameAsked
  <1>5. QED
    BY <1>0, <1>2, <1>3, <1>4 DEF DayStored, RangeStored

LEMMA NothingQueued ==
  ASSUME NEW t, queue[t] = <<>> PROVE Queued(t) = {}
PROOF
  <1>1. Len(<<>>) = 0 /\ 1 .. 0 = {}
    OBVIOUS
  <1>2. Queued(t) = {queue[t][k] : k \in 1 .. 0}
    BY <1>1 DEF Queued
  <1>3. QED
    BY <1>1, <1>2

\* When the answer has no jobs, what was asked for is stored.
LEMMA AnsweredIsStored ==
  ASSUME VaultInv, Promised, Served, ~MayAskToday, NEW s \in Tab, Answer(s),
         NEW d \in Days(page[s].range)
  PROVE  DayStored(page[s].account, d) \/ LeftTo(Queued(page[s].thread), page[s].account, d)
PROOF
  <1>1. PICK t \in Thread : t = page[s].thread
    BY DEF Answer, Served
  <1>2. pc[t] = "create" /\ gaps[t] = {}
    BY <1>1 DEF Answer, Respond
  <1>3. want[t] = [account |-> page[s].account, range |-> page[s].range]
    BY <1>1, <1>2 DEF Answer, Served, ServingPC
  <1>4. want[t].account = page[s].account /\ want[t].range = page[s].range
    BY <1>3
  <1>5. QED
    BY <1>1, <1>2, <1>4 DEF Promised

\* When all that a tab watches is done, what was asked for is stored.
LEMMA ReportedIsStored ==
  ASSUME VaultInv, PageTyped, Watching, ~MayAskToday, NEW s \in Tab, Report(s), page[s].own,
         \A k \in DOMAIN page[s].polled : page[s].polled[k] # "failed"
  PROVE  RangeStored(page[s].account, page[s].range)
PROOF
  <1>0. PICK p \in Seq(Status) : p = page[s].polled
    BY DEF PageTyped, TabState
  <1>1. Len(p) = Len(page[s].watched) /\ DOMAIN p = 1 .. Len(p)
    <2>1. Len(p) = Len(page[s].watched)
      BY <1>0 DEF Report, RoundRead
    <2>2. DOMAIN p = 1 .. Len(p)
      BY <1>0
    <2>3. QED
      BY <2>1, <2>2
  <1>2. \A k \in 1 .. Len(p) : p[k] = "done"
    BY <1>0, <1>1 DEF Report, Finished
  <1>3. ASSUME NEW d \in Days(page[s].range), LeftTo(Watched(s), page[s].account, d)
        PROVE  DayStored(page[s].account, d)
    <2>1. PICK j \in Watched(s) : j.account = page[s].account /\ d \in Days(j.range)
      BY <1>3 DEF LeftTo
    <2>2. PICK k \in 1 .. Len(page[s].watched) : j.id = page[s].watched[k] /\ j \in jobs
      BY <2>1 DEF Watched
    <2>3. RangeStored(j.account, j.range)
      BY <1>0, <1>1, <1>2, <2>2 DEF Watching, Report, RoundRead
    <2>4. QED
      BY <2>1, <2>3 DEF RangeStored
  <1>4. QED
    BY <1>3 DEF Watching, Report, RoundRead, RangeStored

LEMMA KeptNext ==
  ASSUME VaultInv, PageTyped, Picked, Served, Promised, Watching, Kept, Undisturbed, Undisturbed',
         [PageNext]_allVars
  PROVE  Kept'
PROOF
  <1> SUFFICES ASSUME ~MayAskToday, NEW s \in Tab, page'[s].shown # ""
               PROVE  RangeStored(page[s].account, page[s].range)'
    BY DEF Kept
  <1>0. Typed /\ [Next]_vars
    BY PageIsServed, ServedIsNext DEF VaultInv
  <1>1. SameAsked(s)
    BY <1>0, TabStep DEF TabMoves, Stays, Restarts, SameAsked, Asks, Posts, Watches, Shows, Reads
  <1>2. RangeStored(page[s].account, page[s].range)
    <2>1. CASE Shows(s) /\ Answer(s) /\ queue[page[s].thread] = <<>>
      <3>1. Queued(page[s].thread) = {}
        <4>1. PICK t \in Thread : t = page[s].thread
          BY <2>1 DEF Answer, Served
        <4>2. queue[t] = <<>>
          BY <2>1, <4>1
        <4>3. QED
          BY <4>1, <4>2, NothingQueued
      <3>2. QED
        BY <2>1, <3>1, AnsweredIsStored DEF RangeStored, LeftTo
    <2>2. CASE Shows(s) /\ ~(Answer(s) /\ queue[page[s].thread] = <<>>)
      BY <2>2, ReportedIsStored DEF Shows
    <2>3. CASE ~Shows(s)
      <3>1. page[s].shown # ""
        BY <1>0, <2>3, TabStep DEF TabMoves, Stays, Restarts, Asks, Posts, Watches, Reads
      <3>2. QED
        BY <3>1 DEF Kept
    <2>4. QED
      BY <2>1, <2>2, <2>3
  <1>3. QED
    BY <1>0, <1>1, <1>2, AskedStays

\* What a tab watches goes on as it was.
LEMMA WatchedStays ==
  ASSUME VaultInv, PageTyped, Picked, Watching, Undisturbed, Undisturbed', [Next]_vars, VaultInv',
         ~MayAskToday, NEW s \in Tab, page[s].script = "poll", page[s].own,
         SameAsked(s), page'[s].watched = page[s].watched
  PROVE  /\ \A d \in Days(page'[s].range) :
              DayStored(page[s].account, d)' \/ LeftTo(Watched(s), page[s].account, d)'
         /\ \A k \in 1 .. Len(page'[s].watched) :
              /\ \E j \in jobs' : j.id = page'[s].watched[k]
              /\ (\A j \in jobs : j.id = page[s].watched[k] => RangeStored(j.account, j.range))
                   => \A j \in jobs' : j.id = page'[s].watched[k]
                        => RangeStored(j.account, j.range)'
PROOF
  <1>0. Typed /\ Typed' /\ Ids /\ Ids' /\ NoneDeleted /\ NoneDeleted' /\ RowsHaveAccount
    BY DEF VaultInv, Undisturbed, NoneDeleted
  <1>1. ASSUME NEW i \in jobs PROVE \E j \in jobs' : Same(i, j)
    BY <1>0, <1>1, JobsStay
  <1>2. ASSUME NEW d \in Days(page'[s].range)
        PROVE  DayStored(page[s].account, d)' \/ LeftTo(Watched(s), page[s].account, d)'
    <2>0. page'[s].range = page[s].range /\ page'[s].account = page[s].account
      BY DEF SameAsked
    <2>1. CASE DayStored(page[s].account, d)
      <3>1. DayStored(page[s].account, d)'
        BY <1>0, <1>2, <2>0, <2>1, AskedStays
      <3>2. QED
        BY <2>0, <3>1 DEF DayStored
    <2>2. CASE LeftTo(Watched(s), page[s].account, d)
      <3>1. PICK i \in jobs : /\ \E k \in 1 .. Len(page[s].watched) : i.id = page[s].watched[k]
                              /\ i.account = page[s].account /\ d \in Days(i.range)
        BY <2>2 DEF LeftTo, Watched
      <3>2. PICK j \in jobs' : Same(i, j)
        BY <1>1
      <3>3. j \in Watched(s)'
        BY <3>1, <3>2 DEF Same, Watched
      <3>4. QED
        BY <2>0, <3>1, <3>2, <3>3 DEF Same, LeftTo
    <2>3. QED
      BY <1>2, <2>0, <2>1, <2>2 DEF Watching
  <1>3. ASSUME NEW k \in 1 .. Len(page'[s].watched)
        PROVE  /\ \E j \in jobs' : j.id = page'[s].watched[k]
               /\ (\A j \in jobs : j.id = page[s].watched[k] => RangeStored(j.account, j.range))
                    => \A j \in jobs' : j.id = page'[s].watched[k]
                         => RangeStored(j.account, j.range)'
    <2>1. PICK i \in jobs : i.id = page[s].watched[k]
      BY <1>3 DEF Watching
    <2>2. PICK j \in jobs' : Same(i, j)
      BY <1>1
    <2>3. ASSUME NEW l \in jobs', l.id = page'[s].watched[k], RangeStored(i.account, i.range)
          PROVE  RangeStored(l.account, l.range)'
      <3>1. l.account = i.account /\ l.range = i.range
        BY <1>0, <2>1, <2>2, <2>3 DEF Ids, Same
      <3>2. PICK a, r : a = i.account /\ r = i.range
        OBVIOUS
      <3>3. AccountExists(a) /\ r \in Range /\ r.to <= today
        BY <1>0, <3>2 DEF RowsHaveAccount, Past, VaultInv, Typed, TypeOK, Job
      <3>4. RangeStored(a, r)'
        BY <1>0, <2>3, <3>2, <3>3, RangeStays
      <3>5. QED
        BY <3>1, <3>2, <3>4 DEF RangeStored
    <2>4. QED
      BY <2>1, <2>2, <2>3 DEF Same
  <1>4. QED
    BY <1>2, <1>3

LEMMA WatchingNext ==
  ASSUME VaultInv, PageTyped, Picked, Served, DoneStored, Promised, Watching,
         Undisturbed, Undisturbed', VaultInv', [PageNext]_allVars
  PROVE  Watching'
PROOF
  <1>0. /\ Typed /\ Ids /\ [Next]_vars
        /\ PageTyped'
    BY PageIsServed, ServedIsNext, TabStep DEF VaultInv
  <1> SUFFICES ASSUME ~MayAskToday, NEW s \in Tab, page'[s].script = "poll", page'[s].own
      PROVE  /\ Len(page'[s].polled) <= Len(page'[s].watched)
             /\ \A d \in Days(page'[s].range) :
                  DayStored(page[s].account, d)' \/ LeftTo(Watched(s), page[s].account, d)'
             /\ \A k \in 1 .. Len(page'[s].watched) : \E j \in jobs' : j.id = page'[s].watched[k]
             /\ \A k \in 1 .. Len(page'[s].polled) : page'[s].polled[k] = "done" =>
                  \A j \in jobs' : j.id = page'[s].watched[k] => RangeStored(j.account, j.range)'
    BY DEF Watching, DayStored, LeftTo, RangeStored
  <1>1. Stays(s) \/ Reads(s) \/ Watches(s)
    BY <1>0, TabStep DEF TabMoves, Restarts, Asks, Posts, Shows
  <1>n. \A x \in Tab : /\ page[x].watched \in Seq(RowId) /\ page[x].polled \in Seq(Status)
                       /\ page'[x].watched \in Seq(RowId) /\ page'[x].polled \in Seq(Status)
    BY <1>0 DEF PageTyped, TabState
  <1>2. CASE Stays(s)
    <2>1. page'[s] = page[s] /\ SameAsked(s)
      BY <1>2 DEF Stays, SameAsked
    <2>2. page[s].script = "poll" /\ page[s].own
      BY <2>1
    <2>3. /\ Len(page[s].polled) <= Len(page[s].watched)
          /\ \A k \in 1 .. Len(page[s].polled) : page[s].polled[k] = "done" =>
               \A j \in jobs : j.id = page[s].watched[k] => RangeStored(j.account, j.range)
      BY <2>2 DEF Watching
    <2>4. Len(page[s].polled) \in Nat /\ Len(page[s].watched) \in Nat
      BY <1>n
    <2>5. \A k \in 1 .. Len(page[s].polled) : k \in 1 .. Len(page[s].watched)
      BY <2>3, <2>4
    <2>6. /\ page'[s].watched = page[s].watched
          /\ Len(page'[s].polled) = Len(page[s].polled)
          /\ \A k : page'[s].polled[k] = page[s].polled[k]
      BY <2>1
    <2>7. /\ \A d \in Days(page'[s].range) :
               DayStored(page[s].account, d)' \/ LeftTo(Watched(s), page[s].account, d)'
          /\ \A k \in 1 .. Len(page'[s].watched) :
               /\ \E j \in jobs' : j.id = page'[s].watched[k]
               /\ (\A j \in jobs : j.id = page[s].watched[k] => RangeStored(j.account, j.range))
                    => \A j \in jobs' : j.id = page'[s].watched[k]
                         => RangeStored(j.account, j.range)'
      BY <1>0, <2>1, <2>2, <2>6, WatchedStays
    <2>8. QED
      BY <2>3, <2>5, <2>6, <2>7
  <1>3. CASE Reads(s)
    <2>1. /\ page[s].script = "poll" /\ page[s].own /\ SameAsked(s)
          /\ page'[s].watched = page[s].watched
      BY <1>3 DEF Reads
    <2>2. PICK p, q, w : p = page[s].polled /\ q = page'[s].polled /\ w = page[s].watched
      OBVIOUS
    <2>3. /\ p \in Seq(Status) /\ q \in Seq(Status) /\ w \in Seq(RowId)
          /\ Len(p) \in Nat /\ Len(w) \in Nat /\ Len(p) <= Len(w)
      BY <1>n, <2>1, <2>2 DEF Watching
    <2>4. Len(q) <= Len(w) /\ \A k \in 1 .. Len(q) : q[k] = "done" =>
            \A j \in jobs : j.id = w[k] => RangeStored(j.account, j.range)
      <3>1. CASE q = <<>>
        BY <2>3, <3>1
      <3>2. ASSUME NEW j \in jobs, Len(p) < Len(w), j.id = w[Len(p) + 1], q = Append(p, j.status)
            PROVE  /\ Len(q) <= Len(w)
                   /\ \A k \in 1 .. Len(q) : q[k] = "done" =>
                        \A i \in jobs : i.id = w[k] => RangeStored(i.account, i.range)
        <4>1. j.status \in Status
          BY <1>0 DEF Typed, TypeOK, Job, Status
        <4>2. /\ Len(q) = Len(p) + 1 /\ q[Len(p) + 1] = j.status
              /\ \A k \in 1 .. Len(p) : q[k] = p[k]
          BY <2>3, <3>2, <4>1
        <4>3. ASSUME NEW k \in 1 .. Len(q), q[k] = "done", NEW i \in jobs, i.id = w[k]
              PROVE  RangeStored(i.account, i.range)
          <5>1. CASE k \in 1 .. Len(p)
            BY <2>1, <2>2, <4>2, <4>3, <5>1 DEF Watching
          <5>2. CASE k = Len(p) + 1
            <6>1. i = j /\ j.status = "done"
              BY <1>0, <3>2, <4>2, <4>3, <5>2 DEF Ids
            <6>2. QED
              BY <6>1 DEF DoneStored
          <5>3. QED
            BY <2>3, <4>2, <5>1, <5>2
        <4>4. QED
          BY <2>3, <3>2, <4>2, <4>3
      <3>3. QED
        BY <1>3, <2>2, <3>1, <3>2 DEF Reads
    <2>5. \A k \in 1 .. Len(q) : k \in 1 .. Len(w)
      BY <2>3, <2>4
    <2>6. QED
      BY <1>0, <2>1, <2>2, <2>4, <2>5, WatchedStays
  <1>4. CASE Watches(s)
    <2>1. /\ page[s].script = "wait" /\ page[s].polled = <<>> /\ SameAsked(s) /\ Answer(s)
          /\ page'[s].polled = <<>> /\ jobs' = jobs
      BY <1>4 DEF Watches, Answer, Respond, tables, Picked
    <2>2. PICK t \in Thread : t = page[s].thread
      BY <2>1 DEF Answer, Served
    <2>3. PICK q \in Seq(Job) : q = queue[t]
      BY <1>0 DEF Typed, TypeOK
    <2>4. PICK w \in Seq(RowId) : w = page'[s].watched
      BY <1>n
    <2>5. w = [k \in 1 .. Len(q) |-> q[k].id] /\ Len(q) \in Nat
      BY <1>4, <2>2, <2>3, <2>4 DEF Watches
    <2>6. Len(w) = Len(q) /\ \A k \in 1 .. Len(q) : w[k] = q[k].id
      BY <2>5
    <2>7. \A k \in 1 .. Len(q) : \E j \in jobs : Same(j, q[k])
      BY <2>3 DEF VaultInv, Matched, Undisturbed, NoneDeleted, Queued
    <2>8. ASSUME NEW d \in Days(page'[s].range)
          PROVE  DayStored(page[s].account, d)' \/ LeftTo(Watched(s), page[s].account, d)'
      <3>0. page'[s].range = page[s].range /\ page'[s].account = page[s].account
        BY <2>1 DEF SameAsked
      <3>1. CASE DayStored(page[s].account, d)
        <4>1. DayStored(page[s].account, d)'
          BY <1>0, <2>1, <2>8, <3>0, <3>1, AskedStays
        <4>2. QED
          BY <3>0, <4>1 DEF DayStored
      <3>2. CASE LeftTo(Queued(t), page[s].account, d)
        <4>1. PICK k \in 1 .. Len(q) : q[k].account = page[s].account /\ d \in Days(q[k].range)
          BY <2>3, <3>2 DEF LeftTo, Queued
        <4>2. PICK j \in jobs : Same(j, q[k])
          BY <2>7
        <4>3. j \in Watched(s)'
          BY <2>1, <2>4, <2>6, <4>1, <4>2 DEF Same, Watched
        <4>4. QED
          BY <3>0, <4>1, <4>2, <4>3 DEF Same, LeftTo
      <3>3. QED
        BY <2>1, <2>2, <2>8, <3>0, <3>1, <3>2, AnsweredIsStored
    <2>9. \A k \in 1 .. Len(w) : \E j \in jobs' : j.id = w[k]
      BY <2>1, <2>6, <2>7 DEF Same
    <2>10. Len(<<>>) = 0 /\ 1 .. 0 = {} /\ 0 <= Len(w)
      OBVIOUS
    <2>11. QED
      BY <2>1, <2>4, <2>8, <2>9, <2>10
  <1>5. QED
    BY <1>1, <1>2, <1>3, <1>4

-----------------------------------------------------------------------------
(* The theorem *)

LEMMA PageInitTyped == PageInit => Typed
PROOF
  <1> SUFFICES ASSUME PageInit PROVE Typed
    OBVIOUS
  <1>1. 2 \in Day /\ 1 \in Day /\ LastDay \in Day /\ LastDay \in Nat /\ 2 <= LastDay
    BY ConstantsAssumption, PageAssumption DEF Day
  <1>2. [from |-> 1, to |-> 2] \in Range
    BY <1>1 DEF Range
  <1>3. jobs \subseteq Job
    BY <1>2 DEF PageInit, Job, RowId
  <1>4. /\ today \in Day /\ mail \in [Box -> SUBSET Message]
        /\ epoch \in [Box -> RowId] /\ uidNext \in [Box -> RowId]
    BY <1>1 DEF PageInit, Message, RowId
  <1>5. accounts \subseteq Account /\ covered \subseteq RowId \X Day /\ emails \subseteq Email
    BY <1>1 DEF PageInit, Account, RowId
  <1>6. used \in [Event -> Nat]
    BY DEF PageInit
  <1>7. QED
    BY <1>3, <1>4, <1>5, <1>6, NoSessionType, NoRequestType
       DEF PageInit, NothingToDo, Typed, TypeOK, PC, RunPC, RowId

LEMMA FetchedJob ==
  ASSUME PageInit
  PROVE  \E j : /\ jobs = {j} /\ j.id = 1 /\ j.account = 1 /\ j.status = "done" /\ j.checkpoint = 0
                /\ j.range = [from |-> 1, to |-> 2]
PROOF
  <1> DEFINE row == [id |-> 1, account |-> 1, range |-> [from |-> 1, to |-> 2],
                     status |-> "done", checkpoint |-> 0]
  <1>1. jobs = {row}
    BY DEF PageInit
  <1>2. /\ row.id = 1 /\ row.account = 1 /\ row.status = "done" /\ row.checkpoint = 0
        /\ row.range = [from |-> 1, to |-> 2]
    OBVIOUS
  <1> HIDE DEF row
  <1>3. QED
    BY <1>1, <1>2

LEMMA PageInitVault == PageInit => VaultInv /\ HeldInv /\ Undisturbed
PROOF
  <1> SUFFICES ASSUME PageInit PROVE VaultInv /\ HeldInv /\ Undisturbed
    OBVIOUS
  <1>1. 2 \in Day /\ 1 \in Day /\ LastDay \in Nat /\ 2 <= LastDay /\ today = LastDay
    BY ConstantsAssumption, PageAssumption DEF Day, PageInit
  <1>2. \A t \in Thread : Queued(t) = {} /\ queue[t] = <<>> /\ Len(queue[t]) = 0
    <2>1. Len(<<>>) = 0
      OBVIOUS
    <2>2. QED
      BY <2>1, NothingQueued DEF PageInit, NothingToDo
  <1>3. PICK b \in Box : accounts = {[id |-> 1, box |-> b]}
    BY DEF PageInit
  <1>4. AccountExists(1) /\ \A acc \in accounts : acc.id = 1 /\ acc.box = b
    BY <1>3 DEF AccountExists
  <1>5. PICK j : /\ jobs = {j} /\ j.id = 1 /\ j.account = 1 /\ j.status = "done" /\ j.checkpoint = 0
                 /\ j.range = [from |-> 1, to |-> 2]
    BY FetchedJob
  <1>6. \A box \in Box : /\ epoch[box] = 1 /\ uidNext[box] = 2
                         /\ \A m \in mail[box] : m.msg = 1 /\ m.uid = 1 /\ m.day = 2
    BY DEF PageInit
  <1>7. RowsHaveAccount /\ Ids /\ OneRow
    BY <1>3, <1>4, <1>5 DEF RowsHaveAccount, Ids, OneRow, PageInit
  <1>8. Undisturbed
    BY EventsType DEF PageInit, Undisturbed
  <1>9. NoSession.got = {} /\ NoSession.epoch = 1 /\ NoSession.box \in Box
    BY NoSessionType DEF NoSession, Session
  <1>10. Matched /\ Boxed /\ Ordered /\ Loop /\ SeenStored /\ Quiet /\ Held /\ Wanted
         /\ NoOrphanRunning
    BY <1>2, <1>5 DEF PageInit, NothingToDo, Matched, Boxed, Ordered, Loop, Inside, SeenStored,
       Quiet, Held, Wanted, NoOrphanRunning, RunningIsHeld
  <1>11. Phases
    BY <1>9 DEF PageInit, NothingToDo, Phases, Phase, Outside
  <1>12. Epochs
    BY <1>9 DEF PageInit, NothingToDo, Epochs
  <1>13. Identity
    BY <1>6, <1>9 DEF PageInit, NothingToDo, Identity, Identified, InMail, InVault, InFlight
  <1>14. Past
    <2>1. j.range.to = 2 /\ \A p \in covered : p[2] = 1
      BY <1>5 DEF PageInit
    <2>2. QED
      BY <1>1, <1>2, <1>5, <2>1 DEF PageInit, NothingToDo, Past
  <1>15. Fresh
    BY <1>2, <1>5 DEF Fresh
  <1>16. SoundJob(j)
    BY <1>4, <1>5, <1>6 DEF SoundJob
  <1>17. Sound
    BY <1>2, <1>5, <1>16 DEF Sound
  <1>18. CoveredPastIsStored
    BY <1>6 DEF PageInit, CoveredPastIsStored, CoveredIsStored
  <1>19. QED
    BY <1>7, <1>8, <1>10, <1>11, <1>12, <1>13, <1>14, <1>15, <1>17, <1>18, PageInitTyped
       DEF VaultInv, HeldInv

LEMMA PageInvInit == PageInit => PageInv
PROOF
  <1> SUFFICES ASSUME PageInit PROVE PageInv
    OBVIOUS
  <1>1. VaultInv /\ HeldInv /\ Undisturbed
    BY PageInitVault
  <1>2. 2 \in Day /\ 1 \in Day /\ LastDay \in Nat /\ 2 <= LastDay /\ today = LastDay
    BY ConstantsAssumption, PageAssumption DEF Day, PageInit
  <1>3. \A s \in Tab : page[s] = Idle
    BY DEF PageInit
  <1>4. PageTyped
    BY IdleType DEF PageInit, PageTyped
  <1>5. Picked
    <2>1. AccountExists(1)
      BY DEF PageInit, AccountExists
    <2>2. NoRange.to = 1
      BY DEF NoRange
    <2>3. 1 <= today
      BY <1>2
    <2>4. \A s \in Tab : /\ page[s].account = 1 /\ page[s].range.to = 1 /\ page[s].polled = <<>>
      BY <1>3, <2>2, IdleType
    <2>5. QED
      BY <2>1, <2>3, <2>4 DEF Picked
  <1>6. MadeIsPending /\ Promised
    BY DEF PageInit, NothingToDo, MadeIsPending, Promised
  <1>7. Served /\ Watching /\ Kept
    BY <1>3, IdleType DEF Served, Watching, Kept
  <1>8. DoneStored
    <2>1. PICK j : jobs = {j} /\ j.account = 1 /\ j.range = [from |-> 1, to |-> 2]
      BY FetchedJob
    <2>2. \A d \in Days(j.range) : d = 1
      BY <2>1, <1>2 DEF Days, Day
    <2>3. \A b \in Box : \A m \in mail[b] : m.day = 2
      BY DEF PageInit
    <2>4. RangeStored(j.account, j.range)
      BY <2>2, <2>3, <1>1 DEF RangeStored, DayStored, PageInit
    <2>5. QED
      BY <2>1, <2>4 DEF DoneStored, PageInit, NothingToDo
  <1>9. QED
    BY <1>1, <1>4, <1>5, <1>6, <1>7, <1>8 DEF PageInv

LEMMA PageInvNext == PageInv /\ [PageNext]_allVars => PageInv'
PROOF
  <1> SUFFICES ASSUME PageInv, [PageNext]_allVars PROVE PageInv'
    OBVIOUS
  <1>1. [ServerNext]_vars /\ [Next]_vars /\ Typed /\ Fresh
    BY PageIsServed, ServedIsNext DEF PageInv, VaultInv
  <1>2. HeldInv' /\ VaultInv'
    BY <1>1, HeldInvNext, VaultInvNext DEF PageInv
  <1>3. Undisturbed'
    BY <1>1, UndisturbedNext DEF PageInv
  <1>4. PageTyped' /\ Picked' /\ Served'
    BY <1>1, <1>3, TabStep, PickedNext, ServedNext DEF PageInv
  <1>5. MadeIsPending' /\ DoneStored' /\ Promised'
    BY <1>1, <1>3, MadeIsPendingNext, DoneStoredNext, PromisedNext DEF PageInv
  <1>6. Watching'
    BY <1>2, <1>3, WatchingNext DEF PageInv
  <1>7. Kept'
    BY <1>3, KeptNext DEF PageInv
  <1>8. QED
    BY <1>2, <1>3, <1>4, <1>5, <1>6, <1>7 DEF PageInv

LEMMA PageInvAlways == PageSpec => []PageInv
PROOF BY PageInvInit, PageInvNext, PTL DEF PageSpec

\* When the Fetch mail page says "Done. N emails are stored for this range" or
\* "Everything in this range is already stored", every message of the days the
\* user picked is in the vault (ui/fetch_page.py, _watch and render), for any
\* number of tabs, threads and mailboxes, through failures, crashes and lost answers.
THEOREM ShownIsStored == PageSpec => []DoneIsStored
PROOF
  <1>1. PageInv => DoneIsStored
    <2> SUFFICES ASSUME PageInv, ~MayAskToday, NEW s \in Tab, page[s].shown # "",
                        NEW acc \in accounts, acc.id = page[s].account, NEW m \in mail[acc.box],
                        m.day \in Days(page[s].range)
                 PROVE  Stored(acc.id, m)
      BY DEF DoneIsStored
    <2>1. DayStored(page[s].account, m.day)
      BY DEF PageInv, Kept, RangeStored
    <2>2. QED
      BY <2>1 DEF DayStored
  <1>2. QED
    BY PageInvAlways, <1>1, PTL

-----------------------------------------------------------------------------
(* One fetch at a time: what is queued *)

LEMMA NoneCounted == Cardinality({}) = 0
PROOF
  <1> DEFINE Counts(f) == f = [T \in SUBSET {} |-> IF T = {} THEN 0
                                                   ELSE 1 + f[T \ {CHOOSE x : x \in T}]]
  <1>1. Counts([T \in SUBSET {} |-> 0])
    <2>1. \A T \in SUBSET {} : T = {}
      OBVIOUS
    <2>2. QED
      BY <2>1
  <1>2. Counts(CHOOSE f : Counts(f))
    BY <1>1
  <1>3. (CHOOSE f : Counts(f))[{}] = 0
    BY <1>2
  <1>4. QED
    BY <1>3 DEF Cardinality

\* What becomes of the queue of a thread.
LEMMA QueueMoves ==
  ASSUME Typed, [ServerNext]_vars, NEW t \in Thread
  PROVE  \/ queue'[t] = queue[t] \/ queue'[t] = <<>>
         \/ /\ MarkDone(t) \/ MarkFailed(t)
            /\ queue[t] # <<>> /\ queue'[t] = Tail(queue[t])
         \/ ClaimJob(t)
PROOF
  <1>0. queue \in [Thread -> Seq(Job)]
    BY DEF Typed, TypeOK
  <1>1. [Next]_vars
    BY ServedIsNext
  <1>2. CASE ThreadSame(t)
    BY <1>2 DEF ThreadSame
  <1>3. CASE Crash
    BY <1>3 DEF Crash
  <1>4. CASE ~ThreadSame(t) /\ ~Crash
    <2>1. ASSUME NEW u \in Thread, ThreadStep(u) PROVE u = t
      BY <1>4, <2>1, OtherThread
    <2>2. ASSUME Step(t)
          PROVE  \/ queue'[t] = queue[t] \/ queue'[t] = <<>>
                 \/ /\ MarkDone(t) \/ MarkFailed(t)
                    /\ queue[t] # <<>> /\ queue'[t] = Tail(queue[t])
                 \/ ClaimJob(t)
      <3>1. ASSUME MarkDone(t) \/ MarkFailed(t)
            PROVE  queue[t] # <<>> /\ queue'[t] = Tail(queue[t])
        BY <1>0, <3>1 DEF Typed, RunPC, MarkDone, MarkFailed, NextTask
      <3>2. ASSUME CreateJobRefused(t) \/ WriteCoverageRefused(t) PROVE queue'[t] = <<>>
        BY <1>0, <3>2 DEF CreateJobRefused, WriteCoverageRefused, Abandon
      <3>3. QED
        BY <2>2, <3>1, <3>2 DEF Step, ReadGaps, CreateJob, Respond, LoadAccount, Search, Fetch,
           SessionLost, Store, StoreRefused, Checkpoint, ReadCoverage, WriteCoverage, local
    <2>3. ASSUME ErrorCaught(t) PROVE queue'[t] = queue[t]
      BY <2>3 DEF ErrorCaught, local
    <2>4. ASSUME ErrorEscapes(t) PROVE queue'[t] = <<>>
      BY <1>0, <2>4 DEF ErrorEscapes, Abandon
    <2>5. ASSUME NEW a, NEW r, Request(t, a, r) PROVE queue'[t] = queue[t]
      BY <2>5 DEF Request
    <2>6. QED
      BY <1>4, <2>1, <2>2, <2>3, <2>4, <2>5
         DEF ServerNext, ThreadStep, Deliver, Expunge, Startup, vars, local
  <1>5. QED
    BY <1>2, <1>3, <1>4

\* A request that claims takes the job it has made, which is pending.
LEMMA ClaimTakes ==
  ASSUME Typed, Ids, MadeIsPending, NEW t \in Thread, ClaimJob(t)
  PROVE  \E j \in jobs, c \in Job :
           /\ j.id = made[t] /\ j.status = "pending" /\ SetStatus(made[t], "running")
           /\ Same(j, c) /\ c.account = want[t].account /\ c.status = "running"
           /\ c \in jobs'
           /\ queue'[t] = Append(queue[t], c)
           /\ Len(queue'[t]) = Len(queue[t]) + 1 /\ queue'[t][Len(queue[t]) + 1] = c
           /\ \A k \in 1 .. Len(queue[t]) : queue'[t][k] = queue[t][k]
PROOF
  <1>0. queue \in [Thread -> Seq(Job)] /\ jobs \subseteq Job
    BY DEF Typed, TypeOK
  <1>1. PICK j \in jobs : j.id = made[t] /\ j.status = "pending" /\ j.account = want[t].account
    BY DEF MadeIsPending, ClaimJob
  <1>2. PICK i \in jobs :
          /\ i.id = made[t] /\ SetStatus(i.id, "running")
          /\ queue' = [queue EXCEPT ![t] = Append(@, [i EXCEPT !.status = "running"])]
    BY <1>1 DEF ClaimJob
  <1>3. i = j
    BY <1>1, <1>2 DEF Ids
  <1> DEFINE c == [j EXCEPT !.status = "running"]
  <1>4. c \in Job /\ Same(j, c) /\ c.account = j.account /\ c.status = "running"
    BY <1>0 DEF Job, Same
  <1>5. c \in jobs'
    BY <1>1, <1>2, <1>3 DEF SetStatus
  <1>6. queue'[t] = Append(queue[t], c)
    BY <1>0, <1>2, <1>3
  <1> HIDE DEF c
  <1>7. /\ Len(queue'[t]) = Len(queue[t]) + 1 /\ queue'[t][Len(queue[t]) + 1] = c
        /\ \A k \in 1 .. Len(queue[t]) : queue'[t][k] = queue[t][k]
    BY <1>0, <1>4, <1>6, AppendToQueue
  <1>8. QED
    BY <1>1, <1>2, <1>4, <1>5, <1>6, <1>7

\* A job is queued by the claim of the request that made it.
LEMMA QueuedBefore ==
  ASSUME Typed, Ids, MadeIsPending, [ServerNext]_vars, NEW t \in Thread, NEW q \in Queued(t)'
  PROVE  \/ q \in Queued(t)
         \/ ClaimJob(t) /\ q.id = made[t] /\ q.account = want[t].account
PROOF
  <1>0. queue \in [Thread -> Seq(Job)]
    BY DEF Typed, TypeOK
  <1>1. PICK k \in 1 .. Len(queue'[t]) : q = queue'[t][k]
    BY DEF Queued
  <1>2. CASE queue'[t] = queue[t]
    BY <1>1, <1>2 DEF Queued
  <1>3. CASE queue'[t] = <<>>
    <2>1. Len(<<>>) = 0 /\ 1 .. 0 = {}
      OBVIOUS
    <2>2. QED
      BY <1>1, <1>3, <2>1
  <1>4. CASE queue[t] # <<>> /\ queue'[t] = Tail(queue[t])
    <2>1. k + 1 \in 1 .. Len(queue[t]) /\ q = queue[t][k + 1]
      BY <1>0, <1>1, <1>4, TailOfQueue
    <2>2. QED
      BY <2>1 DEF Queued
  <1>5. CASE ClaimJob(t)
    <2>1. PICK j \in jobs, c \in Job :
            /\ j.id = made[t] /\ Same(j, c) /\ c.account = want[t].account
            /\ Len(queue'[t]) = Len(queue[t]) + 1 /\ queue'[t][Len(queue[t]) + 1] = c
            /\ \A i \in 1 .. Len(queue[t]) : queue'[t][i] = queue[t][i]
      BY <1>5, ClaimTakes
    <2>2. Len(queue[t]) \in Nat
      BY <1>0
    <2>3. k = Len(queue[t]) + 1 \/ k \in 1 .. Len(queue[t])
      BY <1>1, <2>1, <2>2
    <2>4. QED
      BY <1>1, <1>5, <2>1, <2>3 DEF Queued, Same
  <1>6. QED
    BY <1>2, <1>3, <1>4, <1>5, QueueMoves

\* A job of an id that no row had is one that a request has just made.
LEMMA NewJob ==
  ASSUME Typed, [Next]_vars, NEW k \in jobs'
  PROVE  \/ \E j \in jobs : Same(j, k)
         \/ \E t \in Thread : CreateJob(t) /\ k.id = made'[t] /\ k.account = want[t].account
PROOF
  <1>0. jobs \subseteq Job /\ made \in [Thread -> RowId]
    BY DEF Typed, TypeOK
  <1>1. \/ \E j \in jobs : Same(j, k)
        \/ Created(k)
    BY JobsStep DEF Restated, Advanced
  <1>2. CASE Created(k)
    <2>1. ASSUME NEW t \in Thread, CreateJob(t)
          PROVE  k.id = made'[t] /\ k.account = want[t].account
      <3>1. PICK g \in gaps[t], i \in NextRowId(jobs) :
              /\ made' = [made EXCEPT ![t] = i]
              /\ jobs' = jobs \cup {[id |-> i, account |-> want[t].account, range |-> g,
                                     status |-> "pending", checkpoint |-> 0]}
        BY <2>1 DEF CreateJob
      <3>2. k \notin jobs
        BY <1>2 DEF Created
      <3>3. k.id = i /\ k.account = want[t].account
        BY <3>1, <3>2
      <3>4. QED
        BY <1>0, <3>1, <3>3
    <2>2. ASSUME jobs' = jobs PROVE FALSE
      BY <1>2, <2>2 DEF Created
    <2>3. ASSUME NEW i, NEW s, SetStatus(i, s) PROVE FALSE
      <3>1. PICK j \in jobs : k = IF j.id = i THEN [j EXCEPT !.status = s] ELSE j
        BY <2>3 DEF SetStatus
      <3>2. k.id = j.id
        BY <1>0, <3>1 DEF Job
      <3>3. QED
        BY <1>2, <3>2 DEF Created
    <2>4. ASSUME NEW t \in Thread, Checkpoint(t) PROVE FALSE
      <3>1. PICK last : jobs' = {IF j.id = Task(t).id THEN [j EXCEPT !.checkpoint = last] ELSE j :
                                 j \in jobs}
        BY <2>4 DEF Checkpoint
      <3>2. PICK j \in jobs : k = IF j.id = Task(t).id THEN [j EXCEPT !.checkpoint = last] ELSE j
        BY <3>1
      <3>3. k.id = j.id
        BY <1>0, <3>2 DEF Job
      <3>4. QED
        BY <1>2, <3>3 DEF Created
    <2>5. ~Startup
      <3> SUFFICES ASSUME Startup PROVE FALSE
        OBVIOUS
      <3>1. PICK j \in jobs : k = IF j.status = "running" THEN [j EXCEPT !.status = "failed"] ELSE j
        BY DEF Startup
      <3>2. k.id = j.id
        BY <1>0, <3>1 DEF Job
      <3>3. QED
        BY <1>2, <3>2 DEF Created
    <2>6. ASSUME NEW acc \in accounts, DeleteAccount(acc.id) PROVE FALSE
      BY <1>2, <2>6 DEF DeleteAccount, Created
    <2>7. ASSUME NEW j \in jobs, RetryJob(j) PROVE FALSE
      BY <2>3, <2>7 DEF RetryJob
    <2>8. ASSUME NEW t \in Thread,
                 ClaimJob(t) \/ ClaimNextJob(t) \/ MarkDone(t) \/ MarkFailed(t)
          PROVE  FALSE
      BY <2>2, <2>3, <2>8 DEF ClaimJob, ClaimNextJob, MarkDone, MarkFailed
    <2>9. ASSUME NEW t \in Thread,
                 CreateJobRefused(t) \/ WriteCoverageRefused(t) \/ ErrorEscapes(t) \/ Crash
          PROVE  FALSE
      BY <2>2, <2>9 DEF CreateJobRefused, WriteCoverageRefused, ErrorEscapes, Crash, tables
    <2>10. \E t \in Thread : CreateJob(t)
      BY <2>2, <2>4, <2>5, <2>6, <2>7, <2>8, <2>9, JobStepOrElsewhere DEF JobStep, Elsewhere, Crash,
         tables
    <2>11. QED
      BY <2>1, <2>10
  <1>3. QED
    BY <1>1, <1>2

\* The row of a running job says so, until the job ends or the process restarts.
LEMMA RunningStays ==
  ASSUME Typed, [ServerNext]_vars, NEW j \in jobs, j.status = "running"
  PROVE  \/ \E k \in jobs' : Same(j, k) /\ k.status = "running"
         \/ \E t \in Thread : /\ MarkDone(t) \/ MarkFailed(t)
                              /\ Task(t).id = j.id
         \/ Startup
PROOF
  <1>0. jobs \subseteq Job
    BY DEF Typed, TypeOK
  <1> DEFINE Goal == \E k \in jobs' : Same(j, k) /\ k.status = "running"
  <1>1. ASSUME jobs \subseteq jobs' PROVE Goal
    BY <1>1 DEF Same
  <1>2. ASSUME NEW i, NEW s, SetStatus(i, s), j.id # i \/ s = "running" PROVE Goal
    <2> DEFINE k == IF j.id = i THEN [j EXCEPT !.status = s] ELSE j
    <2>1. Same(j, k) /\ k.status = "running"
      BY <1>0, <1>2 DEF Same, Job
    <2>2. k \in jobs'
      BY <1>2 DEF SetStatus
    <2> HIDE DEF k
    <2>3. QED
      BY <2>1, <2>2
  <1>3. ASSUME NEW t \in Thread, ClaimJob(t) PROVE Goal
    BY <1>1, <1>2, <1>3 DEF ClaimJob
  <1>4. ASSUME NEW t \in Thread, MarkDone(t) \/ MarkFailed(t), Task(t).id # j.id PROVE Goal
    BY <1>2, <1>4 DEF MarkDone, MarkFailed
  <1>5. ASSUME NEW t \in Thread, Checkpoint(t) PROVE Goal
    <2>1. PICK last : jobs' = {IF r.id = Task(t).id THEN [r EXCEPT !.checkpoint = last] ELSE r :
                               r \in jobs}
      BY <1>5 DEF Checkpoint
    <2> DEFINE k == IF j.id = Task(t).id THEN [j EXCEPT !.checkpoint = last] ELSE j
    <2>2. Same(j, k) /\ k.status = "running"
      BY <1>0 DEF Same, Job
    <2>3. k \in jobs'
      BY <2>1
    <2> HIDE DEF k
    <2>4. QED
      BY <2>2, <2>3
  <1> HIDE DEF Goal
  <1>6. ASSUME NEW t \in Thread, Step(t)
        PROVE  Goal \/ ((MarkDone(t) \/ MarkFailed(t)) /\ Task(t).id = j.id)
    BY <1>1, <1>3, <1>4, <1>5, <1>6 DEF Step, ReadGaps, CreateJob, CreateJobRefused, Respond,
       LoadAccount, Search, Fetch, SessionLost, Store, StoreRefused, ReadCoverage, WriteCoverage,
       WriteCoverageRefused, tables
  <1>7. Goal \/ Startup \/ \E t \in Thread : (MarkDone(t) \/ MarkFailed(t)) /\ Task(t).id = j.id
    BY <1>1, <1>6 DEF ServerNext, Request, ErrorCaught, ErrorEscapes, Crash, Deliver, Expunge,
       vars, tables
  <1>8. QED
    BY <1>7 DEF Goal

\* How a tab stops waiting.
LEMMA WaitEnds ==
  ASSUME Typed, PageTyped, Picked, Served, [PageNext]_allVars, NEW s \in Tab,
         page[s].script = "wait"
  PROVE  \/ Stays(s) \/ Answer(s) \/ lost' = lost + 1
         \/ pc[page[s].thread] \notin ServingPC /\ UNCHANGED vars
PROOF
  <1> DEFINE Goal == \/ Stays(s) \/ Answer(s) \/ lost' = lost + 1
                     \/ pc[page[s].thread] \notin ServingPC /\ UNCHANGED vars
  <1>1. ASSUME NEW u \in Tab,
               \/ Script(u) \/ TimeUp(u) \/ GiveUp(u)
               \/ \E acc \in accounts, r \in Ask, click \in BOOLEAN : Run(u, acc.id, r, click)
        PROVE  Goal
    <2>1. CASE u # s
      BY <1>1, <2>1, ScriptMoves
    <2>2. CASE u = s
      BY <1>1, <2>2 DEF Script, ListRunning, ListQuiet, Poll, Report, NextRound, RoundRead, TimeUp,
         CallFails, Post, GiveUp, Run, ServingPC
    <2>3. QED
      BY <2>1, <2>2
  <1>2. ASSUME UNCHANGED pageVars PROVE Goal
    BY <1>2 DEF pageVars, Stays
  <1>3. QED
    BY <1>1, <1>2 DEF PageNext, Serve, Around, allVars

-----------------------------------------------------------------------------
(* One fetch at a time: one tab *)

\* When the tab finds no active job, no thread has a job of the mailbox: the newest
\* of them would be listed as running.
LEMMA NothingActive ==
  ASSUME PageInv, OneTab, Solo, NEW s \in Tab, ListQuiet(s), NEW t \in Thread, NEW q \in Queued(t)
  PROVE  q.account # page[s].account
PROOF
  <1> SUFFICES ASSUME q.account = page[s].account PROVE FALSE
    OBVIOUS
  <1>0. jobs \subseteq Job
    BY DEF PageInv, VaultInv, Typed, TypeOK
  <1>1. \A u \in Thread : pc[u] # "claim"
    BY DEF Solo, Waited, ServingPC, OneTab, SingleTab, ListQuiet
  <1>2. PICK p \in Queued(t) : /\ p.account = q.account
                               /\ \A j \in jobs : j.account = q.account => j.id <= p.id
    BY <1>1 DEF Solo, NewestQueued
  <1>3. PICK j \in jobs : Same(j, p) /\ j.status = "running"
    BY DEF Solo, RowsRunning
  <1>4. \A k \in jobs : k.account = page[s].account => ~(k.id > j.id)
    <2>1. \A k \in jobs : k.id \in Nat
      BY <1>0 DEF Job, RowId
    <2>2. QED
      BY <1>2, <1>3, <2>1 DEF Same
  <1>5. {k \in jobs : k.account = page[s].account /\ k.id > j.id} = {}
    BY <1>4
  <1>6. j \in Listed(page[s].account)
    BY <1>2, <1>3, <1>5, NoneCounted, PageAssumption DEF Listed, Same
  <1>7. j.id \in {k.id : k \in {l \in Listed(page[s].account) : Active(l)}}
    BY <1>3, <1>6 DEF Active
  <1>8. <<>> \in RunningIds(page[s].account)
    BY DEF ListQuiet
  <1>9. {<<>>[k] : k \in DOMAIN <<>>} = {k.id : k \in {l \in Listed(page[s].account) : Active(l)}}
    BY <1>8 DEF RunningIds
  <1>10. DOMAIN <<>> = {}
    OBVIOUS
  <1>11. QED
    BY <1>7, <1>9, <1>10

LEMMA OneTabBefore ==
  ASSUME PageTyped, [PageNext]_allVars, OneTab' PROVE OneTab /\ lost' # lost + 1
PROOF
  <1>1. lost' = lost \/ lost' = lost + 1
    BY DEF PageNext, Script, ListRunning, ListQuiet, Poll, Report, NextRound, CallFails, Answer,
       Post, TimeUp, GiveUp, Run, Serve, Around, pageVars, allVars
  <1>2. lost \in Nat /\ lost' = 0
    BY DEF PageTyped, OneTab
  <1>3. QED
    BY <1>1, <1>2 DEF OneTab, SingleTab

\* The tab stays with the request that it waits for as long as it is served.
LEMMA WaitsOn ==
  ASSUME PageInv, OneTab', [PageNext]_allVars, NEW s \in Tab, page[s].script = "wait",
         pc[page[s].thread] \in ServingPC, pc'[page[s].thread] \in ServingPC
  PROVE  Stays(s)
PROOF
  <1>0. Typed /\ PageTyped /\ Picked /\ Served /\ lost' # lost + 1
    BY OneTabBefore DEF PageInv, VaultInv
  <1>1. PICK t \in Thread : t = page[s].thread
    BY <1>0 DEF Served
  <1>2. ASSUME Answer(s) PROVE FALSE
    <2>1. pc' = [pc EXCEPT ![t] = IF queue[t] = <<>> THEN "idle" ELSE "load"]
      BY <1>1, <1>2 DEF Answer, Respond, Go
    <2>2. QED
      BY <1>0, <1>1, <2>1 DEF Typed, TypeOK, ServingPC
  <1>3. QED
    BY <1>0, <1>2, WaitEnds

LEMMA WaitedNext ==
  ASSUME PageInv, PageInv', OneTab', Solo, [PageNext]_allVars PROVE Waited'
PROOF
  <1>0. /\ OneTab /\ Typed /\ Ids /\ MadeIsPending /\ PageTyped /\ Picked /\ Served
        /\ [ServerNext]_vars /\ [Next]_vars
    BY OneTabBefore, PageIsServed, ServedIsNext DEF PageInv, VaultInv
  <1>s. \A s, u \in Tab : s = u
    BY <1>0 DEF OneTab, SingleTab
  <1>1. ASSUME NEW t \in Thread, pc'[t] \in ServingPC
        PROVE  \E s \in Tab : page'[s].script = "wait" /\ page'[s].thread = t
    <2>1. CASE pc[t] \in ServingPC
      <3>1. PICK s \in Tab : page[s].script = "wait" /\ page[s].thread = t
        BY <2>1 DEF Solo, Waited
      <3>2. Stays(s)
        BY <1>1, <2>1, <3>1, WaitsOn
      <3>3. QED
        BY <3>1, <3>2 DEF Stays
    <2>2. CASE pc[t] \notin ServingPC
      <3>1. PICK s \in Tab : pc[t] = "idle" /\ Post(s, t)
        BY <1>0, <1>1, <2>2, ServingBefore
      <3>2. Becomes(s, [script |-> "wait", thread |-> t])
        BY <3>1 DEF Post
      <3>3. PICK r \in TabState :
              page' = [page EXCEPT ![s] = [r EXCEPT !.script = "wait", !.thread = t]]
        BY <1>0, <3>2, BecomesWait
      <3> DEFINE x == [r EXCEPT !.script = "wait", !.thread = t]
      <3>4. x.script = "wait" /\ x.thread = t
        BY DEF TabState
      <3>5. page'[s] = x
        BY <1>0, <3>3 DEF PageTyped
      <3> HIDE DEF x
      <3>6. QED
        BY <3>4, <3>5
    <2>3. QED
      BY <2>1, <2>2
  <1>2. ASSUME NEW t \in Thread, NEW s \in Tab, NEW q \in Queued(t)', q.account = page'[s].account
        PROVE  /\ page'[s].script # "post"
               /\ page'[s].script = "wait" /\ pc'[page'[s].thread] \in ServingPC
                    => t = page'[s].thread
    <2>1. CASE Stays(s)
      <3>1. page'[s] = page[s]
        BY <2>1 DEF Stays
      <3>2. CASE q \in Queued(t)
        <4>1. ASSUME page[s].script = "wait", pc'[page[s].thread] \in ServingPC
              PROVE  pc[page[s].thread] \in ServingPC
          <5>1. page[s].thread \in Thread
            BY <1>0, <4>1 DEF Served
          <5>2. \A u \in Tab : ~Post(u, page[s].thread)
            BY <1>s, <4>1 DEF Post
          <5>3. QED
            BY <1>0, <4>1, <5>1, <5>2, ServingBefore
        <4>2. QED
          BY <1>2, <3>1, <3>2, <4>1 DEF Solo, Waited
      <3>3. CASE ClaimJob(t)
        <4>1. pc[t] \in ServingPC
          BY <3>3 DEF ClaimJob, ServingPC
        <4>2. page[s].script = "wait" /\ page[s].thread = t
          BY <1>s, <4>1 DEF Solo, Waited
        <4>3. QED
          BY <3>1, <4>2
      <3>4. QED
        BY <1>0, <3>2, <3>3, QueuedBefore
    <2>2. CASE Asks(s)
      <3>1. ListQuiet(s) /\ page'[s].account = page[s].account
        BY <2>2 DEF Asks, SameAsked
      <3>2. queue' = queue
        BY <3>1 DEF ListQuiet, vars, local
      <3>3. q \in Queued(t)
        BY <3>2 DEF Queued
      <3>4. QED
        BY <1>0, <1>2, <3>1, <3>3, NothingActive
    <2>3. CASE Posts(s)
      <3>1. /\ page[s].script = "post" /\ queue' = queue
            /\ page'[s].account = page[s].account
        BY <2>3 DEF Posts, Post, Request, SameAsked
      <3>2. q \in Queued(t)
        BY <3>1 DEF Queued
      <3>3. QED
        BY <1>2, <3>1, <3>2 DEF Solo, Waited
    <2>4. QED
      BY <1>0, <2>1, <2>2, <2>3, TabStep DEF TabMoves, Restarts, Watches, Shows, Reads
  <1>3. QED
    BY <1>1, <1>2 DEF Waited

\* A queued job of the mailbox that a request is served for is that request's.
LEMMA OwnQueue ==
  ASSUME Served, OneTab, Solo, NEW t \in Thread, NEW u \in Thread, NEW p \in Queued(u),
         pc[t] \in ServingPC, p.account = want[t].account
  PROVE  t = u
PROOF
  <1>1. PICK s \in Tab : page[s].script = "wait" /\ page[s].thread = t
    BY DEF Solo, Waited
  <1>2. want[t] = [account |-> page[s].account, range |-> page[s].range]
    BY <1>1 DEF Served
  <1>3. QED
    BY <1>1, <1>2 DEF Solo, Waited

LEMMA OneQueueNext ==
  ASSUME PageInv, OneTab', Solo, [PageNext]_allVars PROVE OneQueue'
PROOF
  <1>0. /\ OneTab /\ Typed /\ Ids /\ MadeIsPending /\ Served /\ [ServerNext]_vars
    BY OneTabBefore, PageIsServed DEF PageInv, VaultInv
  \* What a request claims joins no other thread's jobs of the mailbox.
  <1>1. ASSUME NEW t \in Thread, NEW u \in Thread, NEW p \in Queued(u), ClaimJob(t),
               p.account = want[t].account
        PROVE  t = u
    BY <1>0, <1>1, OwnQueue DEF ClaimJob, ServingPC
  <1>2. ASSUME NEW t \in Thread, NEW u \in Thread, NEW q \in Queued(t)', NEW p \in Queued(u)',
               q.account = p.account
        PROVE  t = u
    <2>1. q \in Queued(t) \/ (ClaimJob(t) /\ q.account = want[t].account)
      BY <1>0, QueuedBefore
    <2>2. p \in Queued(u) \/ (ClaimJob(u) /\ p.account = want[u].account)
      BY <1>0, QueuedBefore
    <2>3. ASSUME ClaimJob(t), ClaimJob(u) PROVE t = u
      <3>1. pc[t] \in ServingPC /\ pc[u] \in ServingPC
        BY <2>3 DEF ClaimJob, ServingPC
      <3>2. QED
        BY <1>0, <3>1 DEF Solo, Waited, OneTab, SingleTab
    <2>4. QED
      BY <1>1, <1>2, <2>1, <2>2, <2>3 DEF Solo, OneQueue
  <1>3. QED
    BY <1>2 DEF OneQueue

\* The job a request is about to claim is newer than all that it has queued.
LEMMA MadeIsNewest ==
  ASSUME PageInv, Solo, NEW t \in Thread, pc[t] = "claim", NEW q \in Queued(t)
  PROVE  q.id < made[t]
PROOF
  <1>0. jobs \subseteq Job /\ made \in [Thread -> RowId]
    BY DEF PageInv, VaultInv, Typed, TypeOK
  <1>1. PICK j \in jobs : Same(j, q) /\ j.status = "running"
    BY DEF Solo, RowsRunning
  <1>2. PICK i \in jobs : i.id = made[t] /\ i.status = "pending"
    BY DEF PageInv, MadeIsPending
  <1>3. j.id # i.id
    BY <1>1, <1>2 DEF PageInv, VaultInv, Ids
  <1>4. j.id <= made[t]
    BY DEF Solo, NewestQueued
  <1>5. j.id \in Nat /\ made[t] \in Nat
    BY <1>0 DEF Job, RowId
  <1>6. QED
    BY <1>1, <1>2, <1>3, <1>4, <1>5 DEF Same

LEMMA InOrderNext ==
  ASSUME PageInv, OneTab', Solo, [PageNext]_allVars PROVE InOrder'
PROOF
  <1>0. /\ Typed /\ Ids /\ MadeIsPending /\ [ServerNext]_vars /\ queue \in [Thread -> Seq(Job)]
    BY PageIsServed DEF PageInv, VaultInv, Typed, TypeOK
  <1> SUFFICES ASSUME NEW t \in Thread, NEW k \in 1 .. Len(queue'[t]), NEW l \in 1 .. Len(queue'[t]),
                      k < l
               PROVE  queue'[t][k].id < queue'[t][l].id
    BY DEF InOrder
  <1>1. CASE queue'[t] = queue[t]
    BY <1>1 DEF Solo, InOrder
  <1>2. CASE queue'[t] = <<>>
    <2>1. Len(<<>>) = 0 /\ 1 .. 0 = {}
      OBVIOUS
    <2>2. QED
      BY <1>2, <2>1
  <1>3. CASE queue[t] # <<>> /\ queue'[t] = Tail(queue[t])
    <2>1. /\ k + 1 \in 1 .. Len(queue[t]) /\ queue'[t][k] = queue[t][k + 1]
          /\ l + 1 \in 1 .. Len(queue[t]) /\ queue'[t][l] = queue[t][l + 1]
          /\ k + 1 < l + 1
      BY <1>0, <1>3, TailOfQueue
    <2>2. QED
      BY <2>1 DEF Solo, InOrder
  <1>4. CASE ClaimJob(t)
    <2>1. PICK j \in jobs, c \in Job :
            /\ j.id = made[t] /\ Same(j, c)
            /\ Len(queue'[t]) = Len(queue[t]) + 1 /\ queue'[t][Len(queue[t]) + 1] = c
            /\ \A i \in 1 .. Len(queue[t]) : queue'[t][i] = queue[t][i]
      BY <1>0, <1>4, ClaimTakes
    <2>2. Len(queue[t]) \in Nat
      BY <1>0
    <2>3. k \in 1 .. Len(queue[t])
      BY <2>1, <2>2
    <2>4. CASE l \in 1 .. Len(queue[t])
      BY <2>1, <2>3, <2>4 DEF Solo, InOrder
    <2>5. CASE l = Len(queue[t]) + 1
      <3>1. queue[t][k] \in Queued(t)
        BY <2>3 DEF Queued
      <3>2. queue[t][k].id < made[t]
        BY <1>4, <3>1, MadeIsNewest DEF ClaimJob
      <3>3. QED
        BY <2>1, <2>3, <2>5, <3>2 DEF Same
    <2>6. QED
      BY <2>1, <2>2, <2>4, <2>5
  <1>5. QED
    BY <1>0, <1>1, <1>2, <1>3, <1>4, QueueMoves

\* When a job ends, no queued job has its row.
LEMMA EndedIsGone ==
  ASSUME PageInv, Solo, [PageNext]_allVars, NEW u \in Thread, MarkDone(u) \/ MarkFailed(u),
         NEW t \in Thread, NEW q \in Queued(t)', q \in Queued(t)
  PROVE  q.id # Task(u).id
PROOF
  <1> SUFFICES ASSUME q.id = Task(u).id PROVE FALSE
    OBVIOUS
  <1>0. Typed /\ Ids /\ queue \in [Thread -> Seq(Job)] /\ jobs \subseteq Job
    BY DEF PageInv, VaultInv, Typed, TypeOK
  <1>1. Task(u) \in Queued(u) /\ queue[u] # <<>>
    BY <1>0, TaskIsQueued DEF MarkDone, MarkFailed, RunPC, Typed
  <1>2. PICK j \in jobs : Same(j, q)
    BY DEF Solo, RowsRunning
  <1>3. PICK i \in jobs : Same(i, Task(u))
    BY <1>1 DEF Solo, RowsRunning
  <1>4. i = j
    BY <1>0, <1>2, <1>3 DEF Ids, Same
  <1>5. u = t
    BY <1>1, <1>2, <1>3, <1>4 DEF Solo, OneQueue, Same
  <1>6. queue'[u] = Tail(queue[u])
    BY <1>0 DEF MarkDone, MarkFailed, NextTask
  <1>7. PICK k \in 1 .. Len(queue'[u]) : q = queue'[u][k]
    BY <1>5 DEF Queued
  <1>8. /\ k + 1 \in 1 .. Len(queue[u]) /\ q = queue[u][k + 1]
        /\ 1 \in 1 .. Len(queue[u]) /\ Task(u) = queue[u][1] /\ 1 < k + 1
    BY <1>0, <1>1, <1>6, <1>7, TailOfQueue DEF Task
  <1>9. Task(u).id < q.id
    BY <1>8 DEF Solo, InOrder
  <1>10. Task(u).id \in Nat
    BY <1>0, <1>3 DEF Job, RowId, Same
  <1>11. QED
    BY <1>9, <1>10

LEMMA RowsRunningNext ==
  ASSUME PageInv, Solo, [PageNext]_allVars PROVE RowsRunning'
PROOF
  <1>0. /\ Typed /\ Ids /\ MadeIsPending /\ [ServerNext]_vars /\ queue \in [Thread -> Seq(Job)]
    BY PageIsServed DEF PageInv, VaultInv, Typed, TypeOK
  <1> SUFFICES ASSUME NEW t \in Thread, NEW q \in Queued(t)'
               PROVE  \E j \in jobs' : Same(j, q) /\ j.status = "running"
    BY DEF RowsRunning
  <1>1. CASE q \in Queued(t)
    <2>1. PICK j \in jobs : Same(j, q) /\ j.status = "running"
      BY <1>1 DEF Solo, RowsRunning
    <2>2. ASSUME NEW k \in jobs', Same(j, k), k.status = "running"
          PROVE  \E i \in jobs' : Same(i, q) /\ i.status = "running"
      BY <2>1, <2>2 DEF Same
    <2>3. ASSUME NEW u \in Thread, MarkDone(u) \/ MarkFailed(u), Task(u).id = j.id PROVE FALSE
      BY <1>1, <2>1, <2>3, EndedIsGone DEF Same
    <2>4. ~Startup
      <3> SUFFICES ASSUME Startup PROVE FALSE
        OBVIOUS
      <3>1. queue[t] = <<>>
        BY DEF Startup, PageInv, HeldInv, Quiet
      <3>2. QED
        BY <1>1, <3>1, NothingQueued
    <2>5. QED
      BY <1>0, <2>1, <2>2, <2>3, <2>4, RunningStays
  <1>2. CASE q \notin Queued(t)
    <2>1. ClaimJob(t) /\ q.id = made[t]
      BY <1>0, <1>2, QueuedBefore
    <2>2. PICK j \in jobs, c \in Job :
            /\ j.id = made[t] /\ Same(j, c) /\ c.status = "running" /\ c \in jobs'
            /\ Len(queue'[t]) = Len(queue[t]) + 1 /\ queue'[t][Len(queue[t]) + 1] = c
            /\ \A i \in 1 .. Len(queue[t]) : queue'[t][i] = queue[t][i]
      BY <1>0, <2>1, ClaimTakes
    <2>3. PICK k \in 1 .. Len(queue'[t]) : q = queue'[t][k]
      BY DEF Queued
    <2>4. Len(queue[t]) \in Nat
      BY <1>0
    <2>5. ~(k \in 1 .. Len(queue[t]))
      BY <1>2, <2>2, <2>3 DEF Queued
    <2>6. k = Len(queue[t]) + 1
      BY <2>2, <2>3, <2>4, <2>5
    <2>7. q = c
      BY <2>2, <2>3, <2>6
    <2>8. QED
      BY <2>2, <2>7 DEF Same
  <1>3. QED
    BY <1>1, <1>2

\* The tab has one request served at a time.
LEMMA OneServed ==
  ASSUME OneTab, Solo, NEW t \in Thread, NEW u \in Thread, pc[t] \in ServingPC, pc[u] \in ServingPC
  PROVE  t = u
PROOF BY DEF Solo, Waited, OneTab, SingleTab

\* The newest job of a mailbox leaves the queue last.
LEMMA NewestStays ==
  ASSUME PageInv, Solo, [PageNext]_allVars, NEW t \in Thread, ~ClaimJob(t),
         NEW q \in Queued(t), q \in Queued(t)', NEW p \in Queued(t),
         \A j \in jobs : j.account = q.account => j.id <= p.id
  PROVE  p \in Queued(t)'
PROOF
  <1>0. /\ Typed /\ [ServerNext]_vars /\ queue \in [Thread -> Seq(Job)] /\ jobs \subseteq Job
        /\ Queued(t) \subseteq Job
    BY PageIsServed, QueuedAreJobs DEF PageInv, VaultInv, Typed, TypeOK
  <1>1. CASE queue'[t] = queue[t]
    BY <1>1 DEF Queued
  <1>2. CASE queue'[t] = <<>>
    <2>1. Len(<<>>) = 0 /\ 1 .. 0 = {}
      OBVIOUS
    <2>2. QED
      BY <1>2, <2>1 DEF Queued
  <1>3. CASE queue[t] # <<>> /\ queue'[t] = Tail(queue[t])
    <2>1. PICK i \in 1 .. Len(queue[t]) : p = queue[t][i]
      BY DEF Queued
    <2>2. Len(queue[t]) \in Nat
      BY <1>0
    <2>3. CASE i = 1
      <3>1. PICK k \in 1 .. Len(queue'[t]) : q = queue'[t][k]
        BY DEF Queued
      <3>2. k + 1 \in 1 .. Len(queue[t]) /\ q = queue[t][k + 1] /\ i < k + 1
        BY <1>0, <1>3, <2>3, <3>1, TailOfQueue
      <3>3. p.id < q.id
        BY <2>1, <3>2 DEF Solo, InOrder
      <3>4. PICK j \in jobs : Same(j, q)
        BY DEF Solo, RowsRunning
      <3>5. q.id <= p.id /\ q.id \in Nat /\ p.id \in Nat
        BY <1>0, <3>4 DEF Same, Job, RowId
      <3>6. QED
        BY <3>3, <3>5
    <2>4. CASE i # 1
      <3>1. i - 1 \in 1 .. Len(queue'[t])
        BY <1>0, <1>3, <2>1, <2>2, <2>4, TailOfQueue
      <3>2. queue'[t][i - 1] = queue[t][(i - 1) + 1]
        BY <1>0, <1>3, <3>1, TailOfQueue
      <3>3. p = queue'[t][i - 1]
        BY <2>1, <2>2, <3>2
      <3>4. QED
        BY <3>1, <3>3 DEF Queued
    <2>5. QED
      BY <2>3, <2>4
  <1>4. QED
    BY <1>0, <1>1, <1>2, <1>3, QueueMoves

LEMMA NewestQueuedNext ==
  ASSUME PageInv, OneTab', Solo, [PageNext]_allVars PROVE NewestQueued'
PROOF
  <1>0. /\ OneTab /\ Typed /\ Ids /\ MadeIsPending /\ Served
        /\ [ServerNext]_vars /\ [Next]_vars
    BY OneTabBefore, PageIsServed, ServedIsNext DEF PageInv, VaultInv
  <1>t. /\ queue \in [Thread -> Seq(Job)] /\ jobs \subseteq Job /\ made \in [Thread -> RowId]
        /\ pc \in [Thread -> PC]
    BY <1>0 DEF Typed, TypeOK
  \* No other request makes a job meanwhile.
  <1>1. ASSUME NEW t \in Thread, pc[t] = "claim", NEW k \in jobs' PROVE \E j \in jobs : Same(j, k)
    <2>1. ASSUME NEW u \in Thread, CreateJob(u) PROVE FALSE
      <3>1. pc[u] = "create" /\ pc[u] \in ServingPC /\ pc[t] \in ServingPC
        BY <1>1, <2>1 DEF CreateJob, ServingPC
      <3>2. u = t
        BY <1>0, <3>1, OneServed
      <3>3. QED
        BY <1>1, <3>1, <3>2
    <2>2. QED
      BY <1>0, <2>1, NewJob
  <1>2. ASSUME NEW t \in Thread, pc'[t] = "claim", NEW k \in jobs' PROVE k.id <= made'[t]
    <2>1. CASE CreateJob(t)
      <3>1. PICK g \in gaps[t], i \in NextRowId(jobs) :
              /\ made' = [made EXCEPT ![t] = i]
              /\ jobs' = jobs \cup {[id |-> i, account |-> want[t].account, range |-> g,
                                     status |-> "pending", checkpoint |-> 0]}
        BY <2>1 DEF CreateJob
      <3>2. made'[t] = i /\ i \in Nat
        <4>1. \A row \in jobs : row.id \in RowId
          BY <1>t DEF Job
        <4>2. i \in RowId
          BY <4>1, NewRowId
        <4>3. QED
          BY <1>t, <3>1, <4>2 DEF RowId
      <3>3. CASE k \in jobs
        <4>1. k.id < i /\ k.id \in Nat
          BY <1>t, <3>3 DEF NextRowId, Job, RowId
        <4>2. QED
          BY <3>2, <4>1
      <3>4. CASE k \notin jobs
        <4>1. k.id = i
          BY <3>1, <3>4
        <4>2. QED
          BY <3>2, <4>1
      <3>5. QED
        BY <3>3, <3>4
    <2>2. CASE ~CreateJob(t)
      <3>1. pc[t] = "claim" /\ made'[t] = made[t]
        BY <1>0, <1>2, <2>2, ToClaim
      <3>2. PICK j \in jobs : Same(j, k)
        BY <1>1, <1>2, <3>1
      <3>3. QED
        BY <3>1, <3>2 DEF Solo, NewestQueued, Same
    <2>3. QED
      BY <2>1, <2>2
  <1>3. ASSUME NEW t \in Thread, NEW q \in Queued(t)'
        PROVE  \/ \E p \in Queued(t)' : /\ p.account = q.account
                                        /\ \A k \in jobs' : k.account = q.account => k.id <= p.id
               \/ pc'[t] = "claim" /\ want'[t].account = q.account
    <2>1. CASE ClaimJob(t)
      <3>0. pc[t] = "claim"
        BY <2>1 DEF ClaimJob
      <3>1. PICK j \in jobs, c \in Job :
              /\ j.id = made[t] /\ Same(j, c) /\ c.account = want[t].account
              /\ Len(queue'[t]) = Len(queue[t]) + 1 /\ queue'[t][Len(queue[t]) + 1] = c
              /\ \A i \in 1 .. Len(queue[t]) : queue'[t][i] = queue[t][i]
        BY <1>0, <2>1, ClaimTakes
      <3>2. c \in Queued(t)' /\ \A p \in Queued(t) : p \in Queued(t)'
        <4>1. Len(queue[t]) \in Nat
          BY <1>t
        <4>2. /\ Len(queue[t]) + 1 \in 1 .. Len(queue'[t])
              /\ \A i \in 1 .. Len(queue[t]) : i \in 1 .. Len(queue'[t])
          BY <3>1, <4>1
        <4>3. QED
          BY <3>1, <4>2 DEF Queued
      <3>3. CASE q.account = want[t].account
        <4>1. \A k \in jobs' : k.id <= c.id
          BY <1>1, <3>0, <3>1 DEF Solo, NewestQueued, Same
        <4>2. QED
          BY <3>1, <3>2, <3>3, <4>1
      <3>4. CASE q.account # want[t].account
        <4>1. q \in Queued(t)
          BY <1>0, <3>4, QueuedBefore
        <4>2. PICK p \in Queued(t) : /\ p.account = q.account
                                     /\ \A i \in jobs : i.account = q.account => i.id <= p.id
          BY <3>4, <4>1 DEF Solo, NewestQueued
        <4>3. \A k \in jobs' : k.account = q.account => k.id <= p.id
          BY <1>1, <3>0, <4>2 DEF Same
        <4>4. QED
          BY <3>2, <4>2, <4>3
      <3>5. QED
        BY <3>3, <3>4
    <2>2. CASE ~ClaimJob(t) /\ CreateJob(t) /\ q.account = want[t].account
      BY <1>t, <2>2 DEF CreateJob, Go
    <2>3. CASE ~ClaimJob(t) /\ ~(CreateJob(t) /\ q.account = want[t].account)
      <3>1. q \in Queued(t)
        BY <1>0, <2>3, QueuedBefore
      <3>2. ASSUME NEW k \in jobs', k.account = q.account PROVE \E j \in jobs : Same(j, k)
        <4>1. ASSUME NEW u \in Thread, CreateJob(u), k.account = want[u].account PROVE FALSE
          <5>1. u = t
            BY <1>0, <3>1, <3>2, <4>1, OwnQueue DEF CreateJob, ServingPC
          <5>2. QED
            BY <2>3, <3>2, <4>1, <5>1
        <4>2. QED
          BY <1>0, <4>1, NewJob
      <3>3. ASSUME NEW p \in Queued(t), p.account = q.account,
                   \A j \in jobs : j.account = q.account => j.id <= p.id
            PROVE  \E r \in Queued(t)' :
                     /\ r.account = q.account
                     /\ \A k \in jobs' : k.account = q.account => k.id <= r.id
        <4>1. p \in Queued(t)'
          BY <2>3, <3>1, <3>3, NewestStays
        <4>2. \A k \in jobs' : k.account = q.account => k.id <= p.id
          BY <3>2, <3>3 DEF Same
        <4>3. QED
          BY <3>3, <4>1, <4>2
      <3>4. ASSUME pc[t] = "claim", want[t].account = q.account
            PROVE  pc'[t] = "claim" /\ want'[t].account = q.account
        <4>1. queue'[t] # <<>>
          <5>1. Len(<<>>) = 0 /\ 1 .. 0 = {}
            OBVIOUS
          <5>2. QED
            BY <5>1 DEF Queued
        <4>2. CASE ThreadSame(t)
          BY <3>4, <4>2 DEF ThreadSame
        <4>3. ~Crash
          BY <4>1 DEF Crash
        <4>4. ASSUME ThreadStep(t) PROVE FALSE
          <5>1. ~Step(t)
            BY <2>3, <3>4 DEF Step, ReadGaps, CreateJob, CreateJobRefused, Respond, LoadAccount,
               Search, Fetch, SessionLost, Store, StoreRefused, Checkpoint, ReadCoverage,
               WriteCoverage, WriteCoverageRefused, MarkDone, MarkFailed
          <5>2. ~ErrorEscapes(t)
            BY <1>t, <4>1 DEF ErrorEscapes, Abandon
          <5>3. QED
            BY <3>4, <4>4, <5>1, <5>2 DEF ThreadStep, ClaimNextJob, ErrorCaught, Request
        <4>5. QED
          BY <1>0, <4>2, <4>3, <4>4, OneThread
      <3>5. QED
        BY <3>1, <3>3, <3>4 DEF Solo, NewestQueued
    <2>4. QED
      BY <2>1, <2>2, <2>3
  <1>4. QED
    BY <1>2, <1>3 DEF NewestQueued

LEMMA SoloInvInit == PageInit => SoloInv
PROOF
  <1> SUFFICES ASSUME PageInit PROVE Solo
    BY DEF SoloInv
  <1>1. \A t \in Thread : queue[t] = <<>> /\ Queued(t) = {} /\ pc[t] = "idle"
    BY NothingQueued DEF PageInit, NothingToDo
  <1>2. Len(<<>>) = 0 /\ 1 .. 0 = {}
    OBVIOUS
  <1>3. InOrder
    BY <1>1, <1>2 DEF InOrder
  <1>4. QED
    BY <1>1, <1>3 DEF Solo, Waited, NewestQueued, OneQueue, RowsRunning, ServingPC

LEMMA SoloInvNext == PageInv /\ PageInv' /\ SoloInv /\ [PageNext]_allVars => SoloInv'
PROOF
  <1> SUFFICES ASSUME PageInv, PageInv', SoloInv, [PageNext]_allVars, OneTab'
               PROVE  Solo'
    BY DEF SoloInv
  <1>1. Solo
    BY OneTabBefore DEF SoloInv, PageInv
  <1>2. QED
    BY <1>1, WaitedNext, NewestQueuedNext, OneQueueNext, InOrderNext, RowsRunningNext DEF Solo

\* One tab starts no fetch of a mailbox beside another (ui/fetch_page.py, render:
\* "A fetch is already running for this mailbox"), although it looks at the newest
\* jobs only (list_jobs, limit 20) and before it posts; for any number of jobs,
\* threads and mailboxes, unless the tab gave up on a POST that is still served.
THEOREM OneTabFetchesOnce == PageSpec => []OneFetchAtATime
PROOF
  <1>1. PageInv /\ SoloInv => OneFetchAtATime
    <2> SUFFICES ASSUME PageInv, OneTab, Solo, NEW a, NEW t \in Thread, NEW u \in Thread,
                        FetchesFor(t, a), FetchesFor(u, a)
                 PROVE  t = u
      BY DEF OneFetchAtATime, SoloInv, OneTab
    <2>0. Served /\ queue \in [Thread -> Seq(Job)]
      BY DEF PageInv, VaultInv, Typed, TypeOK
    <2>1. ASSUME NEW v \in Thread, FetchesFor(v, a)
          PROVE  \/ pc[v] \in ServingPC /\ want[v].account = a
                 \/ \E q \in Queued(v) : q.account = a
      <3>1. DOMAIN queue[v] = 1 .. Len(queue[v])
        BY <2>0
      <3>2. QED
        BY <2>1, <3>1 DEF FetchesFor, ServingPC, Queued
    <2>2. CASE pc[t] \in ServingPC /\ pc[u] \in ServingPC
      BY <2>2, OneServed
    <2>3. CASE pc[t] \in ServingPC /\ want[t].account = a /\ \E q \in Queued(u) : q.account = a
      BY <2>0, <2>3, OwnQueue
    <2>4. CASE pc[u] \in ServingPC /\ want[u].account = a /\ \E q \in Queued(t) : q.account = a
      BY <2>0, <2>4, OwnQueue
    <2>5. CASE (\E q \in Queued(t) : q.account = a) /\ (\E q \in Queued(u) : q.account = a)
      BY <2>5 DEF Solo, OneQueue
    <2>6. QED
      BY <2>1, <2>2, <2>3, <2>4, <2>5
  <1>2. PageSpec => [](PageInv /\ SoloInv)
    <2>1. PageInit => PageInv /\ SoloInv
      BY PageInvInit, SoloInvInit
    <2>2. PageInv /\ SoloInv /\ [PageNext]_allVars => (PageInv /\ SoloInv)'
      BY PageInvNext, SoloInvNext
    <2>3. QED
      BY <2>1, <2>2, PTL DEF PageSpec
  <1>3. QED
    BY <1>1, <1>2, PTL

=============================================================================
