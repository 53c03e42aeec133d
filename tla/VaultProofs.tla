----------------------------- MODULE VaultProofs -----------------------------
(***************************************************************************)
(* Proofs about Vault, for any number of threads, mailboxes, messages and   *)
(* events: what is stored can be read back, a pass leaves nothing out, and  *)
(* a score stands beside the message it is of.                              *)
(***************************************************************************)
EXTENDS Vault, WellFoundedInduction, TLAPS

-----------------------------------------------------------------------------
(* Least and greatest ids *)

LEMMA HasLeast ==
  ASSUME NEW S, S \subseteq Nat, S # {}
  PROVE  \E n \in S : \A m \in S : n <= m
PROOF
  <1>1. IsWellFoundedOn(OpToRel(<,Nat), Nat)
    BY NatLessThanWellFounded
  <1>2. PICK n \in S : \A m \in S : ~ (<<m, n>> \in OpToRel(<,Nat))
    BY <1>1, WFMin
  <1>3. \A m \in S : m < n => <<m, n>> \in OpToRel(<,Nat)
    BY DEF OpToRel
  <1>4. ASSUME NEW m \in S PROVE n <= m
    <2>1. ~(m < n) /\ m \in Nat /\ n \in Nat
      BY <1>2, <1>3
    <2>2. QED
      BY <2>1
  <1>5. QED
    BY <1>4

\* The greatest of some numbers is their least bound.
LEMMA HasGreatest ==
  ASSUME NEW S, S \subseteq Nat, S # {}, NEW bound \in Nat, \A m \in S : m <= bound
  PROVE  \E n \in S : \A m \in S : m <= n
PROOF
  <1> DEFINE Bounds == {n \in Nat : \A m \in S : m <= n}
  <1>1. Bounds \subseteq Nat /\ bound \in Bounds
    OBVIOUS
  <1>2. PICK n \in Bounds : \A m \in Bounds : n <= m
    BY <1>1, HasLeast
  <1>3. n \in Nat /\ \A m \in S : m <= n
    OBVIOUS
  <1>4. CASE n \in S
    BY <1>3, <1>4
  <1>5. CASE n \notin S
    <2>1. \A m \in S : m <= n - 1
      BY <1>3, <1>5
    <2>2. n - 1 \in Nat
      <3>1. PICK m \in S : m <= n - 1 /\ m \in Nat
        BY <2>1
      <3>2. QED
        BY <3>1, <1>3
    <2>3. n - 1 \in Bounds
      BY <2>1, <2>2
    <2>4. QED
      BY <1>2, <1>3, <2>3
  <1>6. QED
    BY <1>4, <1>5

-----------------------------------------------------------------------------
(* Types *)

\* Row ids have a bound: every table is finite.
Bounded == \E n \in Nat : \A row \in emails : row.id <= n

\* A pass holds rows while it goes through them, and only then.
InHand == \A t \in Thread : batch[t] # {} <=> pc[t] \in {"read", "save"}

Typed == TypeOK /\ Bounded /\ InHand

\* The row a pass is at is one of those it holds.
LEMMA FirstIsHeld ==
  ASSUME Typed, NEW t \in Thread, pc[t] \in {"read", "save"}
  PROVE  First(t) \in batch[t] /\ First(t) \in Email
PROOF
  <1> DEFINE ids == {row.id : row \in batch[t]}
  <1>1. batch[t] # {} /\ \A row \in batch[t] : row \in Email /\ row.id \in Nat
    BY DEF Typed, InHand, TypeOK, Email, RowId
  <1>2. ids \subseteq Nat /\ ids # {}
    BY <1>1
  <1>3. PICK i \in ids : \A j \in ids : i <= j
    BY <1>2, HasLeast
  <1>4. \E row \in batch[t] : \A other \in batch[t] : row.id <= other.id
    BY <1>3
  <1>5. First(t) \in batch[t]
    BY <1>4 DEF First
  <1>6. QED
    BY <1>1, <1>5

\* The cursor stands at the last row of the batch.
LEMMA CursorIsLast ==
  ASSUME Typed, NEW t \in Thread, NEW rows, rows \subseteq emails, rows # {}
  PROVE  /\ Cursor(t, rows) \in Nat
         /\ \E row \in rows : Cursor(t, rows) = row.id
         /\ \A row \in rows : row.id <= Cursor(t, rows)
PROOF
  <1> DEFINE ids == {row.id : row \in rows}
  <1>1. \A row \in rows : row.id \in Nat
    BY DEF Typed, TypeOK, Email, RowId
  <1>2. PICK n \in Nat : \A row \in rows : row.id <= n
    BY DEF Typed, Bounded
  <1>3. ids \subseteq Nat /\ ids # {} /\ \A i \in ids : i <= n
    BY <1>1, <1>2
  <1>4. \E i \in ids : \A j \in ids : j <= i
    BY <1>3, HasGreatest
  <1>5. \E i \in ids : \A row \in rows : row.id <= i
    BY <1>4
  <1>6. Cursor(t, rows) \in ids /\ \A row \in rows : row.id <= Cursor(t, rows)
    BY <1>5 DEF Cursor
  <1>7. QED
    BY <1>3, <1>6

LEMMA NoMessageType == NoMessage \in Message
PROOF BY VaultAssumption DEF NoMessage

\* The id of a new row is new.
LEMMA NewId ==
  ASSUME NEW i \in NextRowId(emails), TypeOK
  PROVE  i \in RowId /\ \A row \in emails : row.id < i /\ row.id # i
PROOF
  <1>1. \A row \in emails : row.id \in RowId /\ row.id + 1 \in RowId
    BY DEF TypeOK, Email, RowId
  <1>2. i \in RowId /\ \A row \in emails : row.id < i
    BY <1>1 DEF NextRowId, RowId
  <1>3. QED
    BY <1>1, <1>2 DEF RowId

LEMMA TypesInit == Init => Typed
PROOF
  <1> SUFFICES ASSUME Init PROVE Typed
    OBVIOUS
  <1>1. /\ emails = {} /\ analyses = {} /\ accounts = Account /\ stale = FALSE
        /\ file = [c \in Content |-> "absent"] /\ rules = 1
    BY DEF Init
  <1>2. /\ pc \in [Thread -> PC] /\ msg \in [Thread -> Message]
        /\ kind \in [Thread -> {"missing", "stale"}] /\ after \in [Thread -> Nat]
        /\ batch \in [Thread -> SUBSET Email] /\ owed \in [Thread -> SUBSET RowId]
        /\ used \in [Event -> Nat]
    BY NoMessageType DEF Init, PC
  <1>3. TypeOK
    <2>1. file \in [Content -> {"absent", "partial", "whole"}]
      BY <1>1
    <2>2. rules \in RowId
      BY <1>1 DEF RowId
    <2>3. stale \in BOOLEAN
      BY <1>1
    <2>4. /\ accounts \subseteq Account /\ emails \subseteq Email /\ analyses \subseteq Analysis
          /\ \A r, s \in emails : FALSE
          /\ \A a, b \in analyses : FALSE
      BY <1>1
    <2>5. QED
      BY <1>2, <2>1, <2>2, <2>3, <2>4 DEF TypeOK
  <1>4. Bounded /\ InHand
    BY DEF Init, Bounded, InHand
  <1>5. QED
    BY <1>3, <1>4 DEF Typed

-----------------------------------------------------------------------------
(* Types: storing a message *)

\* What an action of a thread does to its place and its message.
LEMMA GoType ==
  ASSUME Typed, NEW t \in Thread, NEW label \in PC \ {"read", "save"}, Go(t, label),
         UNCHANGED batch, batch[t] = {}
  PROVE  pc' \in [Thread -> PC] /\ InHand'
PROOF BY DEF Typed, TypeOK, InHand, Go

LEMMA StoreStepType ==
  ASSUME Typed, NEW t \in Thread,
         \/ StoreStep(t) \/ StoreFails(t) \/ \E m \in Message : BeginStore(t, m)
  PROVE  Typed'
PROOF
  <1>1. pc[t] \in {"idle", "exists", "open", "write", "insert"}
    BY DEF StoreStep, StoreFails, BeginStore, FileExists, OpenFile, WriteFile, InsertEmail
  <1>2. batch[t] = {}
    BY <1>1 DEF Typed, InHand
  <1>3. /\ UNCHANGED <<accounts, analyses, rules, kind, after, batch, owed, stale>>
        /\ \E label \in PC \ {"read", "save"} : Go(t, label)
        /\ msg' = msg \/ \E m \in Message : msg' = [msg EXCEPT ![t] = m]
    BY NoMessageType DEF StoreStep, StoreFails, BeginStore, FileExists, OpenFile, WriteFile,
       InsertEmail, EndStore, tables, passing, PC, PassPC
  <1>4. pc' \in [Thread -> PC] /\ InHand'
    BY <1>2, <1>3, GoType
  <1>5. msg' \in [Thread -> Message]
    BY <1>3 DEF Typed, TypeOK
  <1>6. used' \in [Event -> Nat]
    BY DEF StoreStep, StoreFails, BeginStore, FileExists, OpenFile, WriteFile, InsertEmail,
       Spend, Typed, TypeOK
  <1>7. file' \in [Content -> {"absent", "partial", "whole"}]
    <2>1. file' = file \/ \E x \in {"partial", "whole"} :
            file' = [file EXCEPT ![msg[t].content] = IF @ = "absent" /\ pc[t] = "write"
                                                     THEN @ ELSE x]
      BY DEF StoreStep, StoreFails, BeginStore, FileExists, OpenFile, WriteFile, InsertEmail,
         EndStore
    <2>2. QED
      BY <2>1 DEF Typed, TypeOK
  <1>8. /\ emails' \subseteq Email /\ Bounded'
        /\ \A r, s \in emails' : r.id = s.id \/ (r.account = s.account /\ r.uid = s.uid) => r = s
    <2>1. CASE UNCHANGED emails
      BY <2>1 DEF Typed, TypeOK, Bounded
    <2>2. CASE ~UNCHANGED emails
      <3>1. PICK i \in NextRowId(emails) :
              emails' = emails \cup {[id |-> i, account |-> msg[t].account,
                                      uid |-> msg[t].uid, content |-> msg[t].content]}
        BY <2>2 DEF StoreStep, StoreFails, BeginStore, FileExists, OpenFile, WriteFile,
           InsertEmail, tables
      <3>2. \A row \in emails : ~(row.account = msg[t].account /\ row.uid = msg[t].uid)
        BY <2>2 DEF StoreStep, StoreFails, BeginStore, FileExists, OpenFile, WriteFile,
           InsertEmail, tables
      <3>3. i \in RowId /\ \A row \in emails : row.id < i /\ row.id # i
        BY NewId DEF Typed
      <3>4. /\ msg[t].account \in Account /\ msg[t].uid \in Nat /\ msg[t].content \in Content
        BY VaultAssumption DEF Typed, TypeOK
      <3>5. emails' \subseteq Email
        BY <3>1, <3>3, <3>4 DEF Typed, TypeOK, Email
      <3>6. \A r, s \in emails' : r.id = s.id \/ (r.account = s.account /\ r.uid = s.uid) => r = s
        BY <3>1, <3>2, <3>3 DEF Typed, TypeOK
      <3>7. i \in Nat /\ \A row \in emails' : row.id <= i
        BY <3>1, <3>3 DEF Typed, TypeOK, Email, RowId
      <3>8. QED
        BY <3>5, <3>6, <3>7 DEF Bounded
    <2>3. QED
      BY <2>1, <2>2
  <1>9. TypeOK'
    BY <1>3, <1>4, <1>5, <1>6, <1>7, <1>8 DEF Typed, TypeOK
  <1>10. QED
    BY <1>4, <1>8, <1>9 DEF Typed

-----------------------------------------------------------------------------
(* Types: a pass *)

\* The parts of TypeOK that a pass leaves alone.
LEMMA PassFrame ==
  ASSUME Typed, NEW t \in Thread,
         PassStep(t) \/ PassFails(t) \/ \E k \in {"missing", "stale"} : BeginPass(t, k)
  PROVE  /\ UNCHANGED <<accounts, emails, file, rules, msg, stale>>
         /\ used' \in [Event -> Nat]
         /\ Bounded'
PROOF
  <1>1. /\ UNCHANGED <<accounts, emails, file, rules, msg, stale>>
        /\ used' = used \/ \E e \in Event : used' = [used EXCEPT ![e] = @ + 1]
    BY DEF PassStep, PassFails, BeginPass, SelectBatch, PassDone, ReadFile, SaveAnalysis,
       SaveRefused, Spend, Event, tables
  <1>2. QED
    BY <1>1 DEF Typed, TypeOK, Bounded

\* What a pass does to its locals.
LEMMA LocalsType ==
  ASSUME Typed, NEW t \in Thread, NEW label \in PC, Go(t, label),
         NEW rest \in SUBSET Email, batch' = [batch EXCEPT ![t] = rest],
         rest # {} <=> label \in {"read", "save"}
  PROVE  pc' \in [Thread -> PC] /\ batch' \in [Thread -> SUBSET Email] /\ InHand'
PROOF BY DEF Typed, TypeOK, InHand, Go

LEMMA EndPassType ==
  ASSUME Typed, NEW t \in Thread, EndPass(t)
  PROVE  /\ pc' \in [Thread -> PC] /\ batch' \in [Thread -> SUBSET Email] /\ InHand'
         /\ kind' \in [Thread -> {"missing", "stale"}]
         /\ after' \in [Thread -> Nat] /\ owed' \in [Thread -> SUBSET RowId]
PROOF
  <1>1. Go(t, "idle") /\ batch' = [batch EXCEPT ![t] = {}] /\ "idle" \in PC
    BY DEF EndPass, PC
  <1>2. pc' \in [Thread -> PC] /\ batch' \in [Thread -> SUBSET Email] /\ InHand'
    BY <1>1, LocalsType
  <1>3. /\ kind' \in [Thread -> {"missing", "stale"}]
        /\ after' \in [Thread -> Nat] /\ owed' \in [Thread -> SUBSET RowId]
    BY DEF EndPass, Typed, TypeOK
  <1>4. QED
    BY <1>2, <1>3

LEMMA NextRowType ==
  ASSUME Typed, NEW t \in Thread, NEW rest \in SUBSET Email, NextRow(t, rest)
  PROVE  pc' \in [Thread -> PC] /\ batch' \in [Thread -> SUBSET Email] /\ InHand'
PROOF
  <1> DEFINE label == IF rest = {} THEN "select" ELSE "read"
  <1>1. /\ Go(t, label) /\ batch' = [batch EXCEPT ![t] = rest]
        /\ rest # {} <=> label \in {"read", "save"}
        /\ label \in PC
    BY DEF NextRow, PC, PassPC
  <1> HIDE DEF label
  <1>2. QED
    BY <1>1, LocalsType

LEMMA PassStepType ==
  ASSUME Typed, NEW t \in Thread,
         PassStep(t) \/ PassFails(t) \/ \E k \in {"missing", "stale"} : BeginPass(t, k)
  PROVE  Typed'
PROOF
  <1> DEFINE LocalsTyped ==
        /\ pc' \in [Thread -> PC] /\ batch' \in [Thread -> SUBSET Email] /\ InHand'
        /\ kind' \in [Thread -> {"missing", "stale"}]
        /\ after' \in [Thread -> Nat] /\ owed' \in [Thread -> SUBSET RowId]
  <1>1. /\ UNCHANGED <<accounts, emails, file, rules, msg, stale>>
        /\ used' \in [Event -> Nat] /\ Bounded'
    BY PassFrame
  <1>2. /\ batch[t] \in SUBSET Email /\ emails \subseteq Email
        /\ kind \in [Thread -> {"missing", "stale"}]
        /\ after \in [Thread -> Nat] /\ owed \in [Thread -> SUBSET RowId]
    BY DEF Typed, TypeOK
  <1>3. ASSUME NEW k \in {"missing", "stale"}, BeginPass(t, k)
        PROVE  LocalsTyped /\ UNCHANGED analyses
    <2>1. /\ Go(t, "select") /\ "select" \in PC /\ batch' = batch /\ pc[t] = "idle"
          /\ kind' = [kind EXCEPT ![t] = k] /\ after' = [after EXCEPT ![t] = 0]
          /\ owed' = [owed EXCEPT ![t] = {row.id : row \in {r \in emails : Due(k, r)}}]
      BY <1>3 DEF BeginPass, PC, PassPC
    <2>2. batch[t] = {}
      BY <2>1 DEF Typed, InHand
    <2>3. pc' \in [Thread -> PC] /\ InHand'
      BY <2>1, <2>2, GoType
    <2>4. \A row \in emails : row.id \in RowId
      BY <1>2 DEF Email
    <2>5. {row.id : row \in {r \in emails : Due(k, r)}} \subseteq RowId
      BY <2>4
    <2>6. owed' \in [Thread -> SUBSET RowId]
      BY <1>2, <2>1, <2>5
    <2>7. QED
      BY <1>2, <1>3, <2>1, <2>3, <2>6 DEF Typed, TypeOK, BeginPass, tables
  <1>4. ASSUME SelectBatch(t) PROVE LocalsTyped /\ UNCHANGED analyses
    <2>1. PICK rows \in SUBSET Rest(t) :
            /\ rows # {} /\ after' = [after EXCEPT ![t] = Cursor(t, rows)]
            /\ NextRow(t, rows)
      BY <1>4 DEF SelectBatch
    <2>2. rows \subseteq emails
      BY DEF Rest
    <2>3. Cursor(t, rows) \in Nat
      BY <2>1, <2>2, CursorIsLast
    <2>4. pc' \in [Thread -> PC] /\ batch' \in [Thread -> SUBSET Email] /\ InHand'
      BY <1>2, <2>1, <2>2, NextRowType
    <2>5. QED
      BY <1>2, <1>4, <2>1, <2>3, <2>4 DEF SelectBatch, tables
  <1>5. ASSUME ReadFile(t) PROVE LocalsTyped /\ UNCHANGED analyses
    <2>1. UNCHANGED <<kind, after, analyses>> /\ pc[t] = "read"
      BY <1>5 DEF ReadFile, tables
    <2>2. owed' = owed \/ owed' = [owed EXCEPT ![t] = @ \ {First(t).id}]
      BY <1>5 DEF ReadFile
    <2>3. owed' \in [Thread -> SUBSET RowId]
      BY <1>2, <2>2
    <2>4. CASE NextRow(t, batch[t] \ {First(t)})
      BY <1>2, <2>1, <2>3, <2>4, NextRowType
    <2>5. CASE Go(t, "save") /\ UNCHANGED batch
      <3>1. pc' \in [Thread -> PC] /\ InHand'
        BY <2>1, <2>5 DEF Typed, TypeOK, InHand, Go, PC, PassPC
      <3>2. QED
        BY <2>1, <2>3, <2>5, <3>1, <1>2 DEF Typed, TypeOK
    <2>6. QED
      BY <1>5, <2>4, <2>5 DEF ReadFile
  <1>6. ASSUME SaveAnalysis(t)
        PROVE  /\ LocalsTyped
               /\ analyses' \subseteq Analysis
               /\ \A a, b \in analyses' : a.email = b.email => a = b
    <2>1. /\ UNCHANGED <<kind, after, owed>> /\ NextRow(t, batch[t] \ {First(t)})
          /\ analyses' = {a \in analyses : a.email # First(t).id} \cup
               {[email |-> First(t).id, content |-> First(t).content, rules |-> rules]}
          /\ pc[t] = "save"
      BY <1>6 DEF SaveAnalysis
    <2>2. First(t) \in Email
      BY <2>1, FirstIsHeld
    <2>3. [email |-> First(t).id, content |-> First(t).content, rules |-> rules] \in Analysis
      BY <2>2 DEF Email, Analysis, RowId, Typed, TypeOK
    <2>4. LocalsTyped
      BY <1>2, <2>1, NextRowType
    <2>5. QED
      BY <2>1, <2>3, <2>4 DEF Typed, TypeOK
  <1>7. ASSUME PassDone(t) \/ SaveRefused(t) \/ PassFails(t)
        PROVE  LocalsTyped /\ UNCHANGED analyses
    BY <1>7, EndPassType DEF PassDone, SaveRefused, PassFails, tables
  <1>8. LocalsTyped
    BY <1>3, <1>4, <1>5, <1>6, <1>7 DEF PassStep
  <1>9. analyses' \subseteq Analysis /\ \A a, b \in analyses' : a.email = b.email => a = b
    <2>1. CASE UNCHANGED analyses
      BY <2>1 DEF Typed, TypeOK
    <2>2. QED
      BY <2>1, <1>3, <1>4, <1>5, <1>6, <1>7 DEF PassStep
  <1>10. TypeOK'
    BY <1>1, <1>8, <1>9 DEF Typed, TypeOK
  <1>11. QED
    BY <1>1, <1>8, <1>10 DEF Typed

-----------------------------------------------------------------------------
(* Types: the rest *)

LEMMA AroundType ==
  ASSUME Typed,
         \/ \E a \in Account : CreateAccount(a) \/ DeleteAccount(a)
         \/ \E c \in Content : LoseFile(c)
         \/ Restart
  PROVE  Typed'
PROOF
  <1>1. ASSUME NEW a \in Account, CreateAccount(a) PROVE Typed'
    <2>1. /\ accounts' = accounts \cup {a}
          /\ UNCHANGED <<emails, analyses, file, rules, pc, msg, kind, after, batch, owed,
                         stale, used>>
      BY <1>1 DEF CreateAccount, passing
    <2>2. QED
      BY <2>1 DEF Typed, TypeOK, Bounded, InHand
  <1>2. ASSUME NEW a \in Account, DeleteAccount(a) PROVE Typed'
    <2>1. /\ accounts' \subseteq accounts /\ emails' \subseteq emails
          /\ analyses' \subseteq analyses
          /\ owed' = [t \in Thread |-> owed[t] \ Gone(a)]
          /\ stale' = (stale \/ HeldRows(a))
          /\ used' = [used EXCEPT !["delete"] = @ + 1]
          /\ UNCHANGED <<file, rules, pc, msg, kind, after, batch>>
      BY <1>2 DEF DeleteAccount, Spend
    <2>2. /\ stale' \in BOOLEAN /\ used' \in [Event -> Nat]
          /\ owed' \in [Thread -> SUBSET RowId]
      BY <2>1 DEF Typed, TypeOK, Event, HeldRows
    <2>3. Bounded' /\ InHand'
      BY <2>1 DEF Typed, Bounded, InHand
    <2>4. TypeOK'
      BY <2>1, <2>2 DEF Typed, TypeOK
    <2>5. QED
      BY <2>3, <2>4 DEF Typed
  <1>3. ASSUME NEW c \in Content, LoseFile(c) PROVE Typed'
    <2>1. /\ file' = [file EXCEPT ![c] = "absent"] /\ used' = [used EXCEPT !["lose"] = @ + 1]
          /\ UNCHANGED <<accounts, emails, analyses, rules, pc, msg, kind, after, batch, owed,
                         stale>>
      BY <1>3 DEF LoseFile, Spend, tables, passing
    <2>2. QED
      BY <2>1 DEF Typed, TypeOK, Bounded, InHand, Event
  <1>4. CASE Restart
    <2>1. /\ rules' \in {rules, rules + 1} /\ used' = [used EXCEPT !["failure"] = @ + 1]
          /\ pc' = [t \in Thread |-> "idle"] /\ msg' = [t \in Thread |-> NoMessage]
          /\ kind' = [t \in Thread |-> "missing"] /\ after' = [t \in Thread |-> 0]
          /\ batch' = [t \in Thread |-> {}] /\ owed' = [t \in Thread |-> {}]
          /\ UNCHANGED <<accounts, emails, analyses, file, stale>>
      BY <1>4 DEF Restart, Spend, tables
    <2>2. /\ rules' \in RowId /\ used' \in [Event -> Nat]
      BY <2>1 DEF Typed, TypeOK, Event, RowId
    <2>3. pc' \in [Thread -> PC] /\ msg' \in [Thread -> Message]
      BY <2>1, NoMessageType DEF PC
    <2>4. InHand' /\ Bounded'
      BY <2>1 DEF Typed, InHand, Bounded
    <2>5. TypeOK'
      BY <2>1, <2>2, <2>3 DEF Typed, TypeOK
    <2>6. QED
      BY <2>4, <2>5 DEF Typed
  <1>5. QED
    BY <1>1, <1>2, <1>3, <1>4

LEMMA TypesNext == Typed /\ [Next]_vars => Typed'
PROOF
  <1> SUFFICES ASSUME Typed, [Next]_vars PROVE Typed'
    OBVIOUS
  <1>1. CASE UNCHANGED vars
    BY <1>1 DEF vars, tables, passing, Typed, TypeOK, Bounded, InHand
  <1>2. CASE \E t \in Thread :
         \/ StoreStep(t) \/ StoreFails(t) \/ \E m \in Message : BeginStore(t, m)
    BY <1>2, StoreStepType
  <1>3. CASE \E t \in Thread :
         PassStep(t) \/ PassFails(t) \/ \E k \in {"missing", "stale"} : BeginPass(t, k)
    BY <1>3, PassStepType
  <1>4. QED
    BY <1>1, <1>2, <1>3, AroundType DEF Next

-----------------------------------------------------------------------------
(* Files *)

\* As long as nobody removes files, no file is missing that a row names, or that a
\* thread has found or opened ...
FilesStay ==
  used["lose"] = 0 =>
    /\ \A row \in emails : file[row.content] # "absent"
    /\ \A t \in Thread : pc[t] \in {"write", "insert"} => file[msg[t].content] # "absent"

\* ... and as long as no write is cut short either, a file that is not whole is
\* still open.
CutIsOpen ==
  used["lose"] = 0 /\ used["failure"] = 0 =>
    \A c \in Content : file[c] = "partial" => BeingWritten(c)

FilesInv == FilesStay /\ CutIsOpen

LEMMA FilesInit == Init => FilesInv
PROOF BY DEF Init, FilesInv, FilesStay, CutIsOpen, Event

\* What is in the table, and how often an event happened, only grows.
LEMMA UsedGrows ==
  ASSUME Typed, [Next]_vars
  PROVE  \A e \in Event : used[e] \in Nat /\ used'[e] \in Nat /\ used'[e] >= used[e]
PROOF
  <1>1. used' = used \/ \E e \in Event : used' = [used EXCEPT ![e] = @ + 1]
    BY DEF Next, StoreStep, StoreFails, BeginStore, FileExists, OpenFile, WriteFile, InsertEmail,
       PassStep, PassFails, BeginPass, SelectBatch, PassDone, ReadFile, SaveAnalysis, SaveRefused,
       CreateAccount, DeleteAccount, LoseFile, Restart, Spend, Event, vars
  <1>2. QED
    BY <1>1 DEF Typed, TypeOK

\* Steps that leave the files, what threads store and the failures' count alone.
LEMMA FilesSame ==
  ASSUME FilesInv, emails' \subseteq emails, UNCHANGED <<file, msg>>,
         used'["lose"] = used["lose"],
         used'["failure"] = 0 => used["failure"] = 0,
         \A t \in Thread : pc'[t] \in {"write", "insert"} => pc'[t] = pc[t],
         used'["failure"] = 0 => \A t \in Thread : pc[t] = "write" => pc'[t] = "write"
  PROVE  FilesInv'
PROOF BY DEF FilesInv, FilesStay, CutIsOpen, BeingWritten

LEMMA FilesStore ==
  ASSUME Typed, FilesInv, NEW t \in Thread,
         \/ StoreStep(t) \/ \E m \in Message : BeginStore(t, m)
  PROVE  FilesInv'
PROOF
  <1>0. /\ msg[t].content \in Content /\ file \in [Content -> {"absent", "partial", "whole"}]
        /\ pc \in [Thread -> PC] /\ msg \in [Thread -> Message]
    BY VaultAssumption DEF Typed, TypeOK
  <1> DEFINE c == msg[t].content
  <1>1. ASSUME NEW m \in Message, BeginStore(t, m) PROVE FilesInv'
    <2>1. /\ pc[t] = "idle" /\ pc' = [pc EXCEPT ![t] = "exists"]
          /\ msg' = [msg EXCEPT ![t] = m] /\ UNCHANGED <<emails, file, used>>
      BY <1>1 DEF BeginStore, Go, tables
    <2>2. QED
      BY <1>0, <2>1 DEF FilesInv, FilesStay, CutIsOpen, BeingWritten
  <1>2. ASSUME FileExists(t) PROVE FilesInv'
    <2>1. /\ pc[t] = "exists" /\ UNCHANGED <<emails, file, msg, used>>
          /\ pc' = [pc EXCEPT ![t] = IF file[c] = "absent" THEN "open" ELSE "insert"]
      BY <1>2 DEF FileExists, Go, tables
    <2>2. QED
      BY <1>0, <2>1 DEF FilesInv, FilesStay, CutIsOpen, BeingWritten
  <1>3. ASSUME OpenFile(t) PROVE FilesInv'
    <2>1. /\ pc[t] = "open" /\ UNCHANGED <<emails, msg, used>>
          /\ file' = [file EXCEPT ![c] = "partial"] /\ pc' = [pc EXCEPT ![t] = "write"]
      BY <1>3 DEF OpenFile, Go, tables
    <2>2. \A d \in Content : file'[d] = file[d] \/ (d = c /\ file'[d] = "partial")
      BY <1>0, <2>1
    <2>3. \A row : file[row.content] # "absent" => file'[row.content] # "absent"
      BY <1>0, <2>1
    <2>4. FilesStay'
      BY <1>0, <2>1, <2>3 DEF FilesInv, FilesStay
    <2>5. BeingWritten(c)' /\ \A d : BeingWritten(d) => BeingWritten(d)'
      BY <1>0, <2>1 DEF BeingWritten
    <2>6. CutIsOpen'
      BY <2>1, <2>2, <2>5 DEF FilesInv, CutIsOpen
    <2>7. QED
      BY <2>4, <2>6 DEF FilesInv
  <1>4. ASSUME WriteFile(t) PROVE FilesInv'
    <2>1. PICK left \in {"partial", "whole"} :
            /\ left = "partial" =>
                 \E u \in Thread \ {t} : pc[u] = "write" /\ msg[u].content = c
            /\ file' = [file EXCEPT ![c] = IF @ = "absent" THEN @ ELSE left]
      BY <1>4 DEF WriteFile
    <2>2. /\ pc[t] = "write" /\ pc' = [pc EXCEPT ![t] = "insert"]
          /\ UNCHANGED <<emails, msg, used>>
      BY <1>4 DEF WriteFile, Go, tables
    <2>3. \A x : file[x] # "absent" => file'[x] # "absent"
      BY <1>0, <2>1
    <2>4. FilesStay'
      BY <1>0, <2>2, <2>3 DEF FilesInv, FilesStay
    <2>5. \A u \in Thread : u # t => pc'[u] = pc[u]
      BY <1>0, <2>2
    <2>6. \A d : BeingWritten(d) /\ d # c => BeingWritten(d)'
      BY <2>2, <2>5 DEF BeingWritten
    <2>7. left = "partial" => BeingWritten(c)'
      BY <2>1, <2>2, <2>5 DEF BeingWritten
    <2>8. \A d \in Content : d # c => file'[d] = file[d]
      BY <1>0, <2>1
    <2>9. file'[c] = "partial" => left = "partial"
      BY <1>0, <2>1
    <2>10. CutIsOpen'
      BY <2>2, <2>6, <2>7, <2>8, <2>9 DEF FilesInv, CutIsOpen
    <2>11. QED
      BY <2>4, <2>10 DEF FilesInv
  <1>5. ASSUME InsertEmail(t) PROVE FilesInv'
    <2>1. /\ pc[t] = "insert" /\ pc' = [pc EXCEPT ![t] = "idle"]
          /\ msg' = [msg EXCEPT ![t] = NoMessage] /\ UNCHANGED <<file, used>>
      BY <1>5 DEF InsertEmail, EndStore, Go
    <2>2. \A row \in emails' : row \in emails \/ row.content = c
      BY <1>5 DEF InsertEmail
    <2>3. FilesStay'
      BY <1>0, <2>1, <2>2 DEF FilesInv, FilesStay
    <2>4. CutIsOpen'
      BY <1>0, <2>1 DEF FilesInv, CutIsOpen, BeingWritten
    <2>5. QED
      BY <2>3, <2>4 DEF FilesInv
  <1>6. QED
    BY <1>1, <1>2, <1>3, <1>4, <1>5 DEF StoreStep

LEMMA FilesNext == Typed /\ FilesInv /\ [Next]_vars => FilesInv'
PROOF
  <1> SUFFICES ASSUME Typed, FilesInv, [Next]_vars PROVE FilesInv'
    OBVIOUS
  <1>0. /\ pc \in [Thread -> PC] /\ used \in [Event -> Nat] /\ msg \in [Thread -> Message]
        /\ file \in [Content -> {"absent", "partial", "whole"}]
    BY DEF Typed, TypeOK
  <1>1. CASE UNCHANGED vars
    BY <1>1, FilesSame DEF vars, tables
  <1>2. ASSUME NEW t \in Thread, StoreFails(t) PROVE FilesInv'
    <2>1. /\ used' = [used EXCEPT !["failure"] = @ + 1] /\ UNCHANGED <<emails, file>>
          /\ pc' = [pc EXCEPT ![t] = "idle"] /\ msg' = [msg EXCEPT ![t] = NoMessage]
      BY <1>2 DEF StoreFails, Spend, EndStore, Go, tables
    <2>2. used'["lose"] = used["lose"] /\ used'["failure"] # 0
      BY <1>0, <2>1 DEF Event
    <2>3. FilesStay'
      BY <1>0, <2>1, <2>2 DEF FilesInv, FilesStay
    <2>4. QED
      BY <2>2, <2>3 DEF FilesInv, CutIsOpen
  <1>3. ASSUME NEW t \in Thread,
               PassStep(t) \/ PassFails(t) \/ \E k \in {"missing", "stale"} : BeginPass(t, k)
        PROVE  FilesInv'
    <2>1. UNCHANGED <<emails, file, msg>>
      BY <1>3, PassFrame
    <2>2. /\ pc[t] \notin {"write", "insert"}
          /\ \E label \in {"idle", "select", "read", "save"} : pc' = [pc EXCEPT ![t] = label]
      BY <1>3 DEF PassStep, PassFails, BeginPass, SelectBatch, PassDone, ReadFile, SaveAnalysis,
         SaveRefused, EndPass, NextRow, Go
    <2>3. used'["lose"] = used["lose"]
      BY <1>0, <1>3 DEF PassStep, PassFails, BeginPass, SelectBatch, PassDone, ReadFile,
         SaveAnalysis, SaveRefused, Spend, Event
    <2>4. used'["failure"] = 0 => used["failure"] = 0
      BY UsedGrows DEF Event
    <2>5. QED
      BY <1>0, <2>1, <2>2, <2>3, <2>4, FilesSame
  <1>4. ASSUME NEW a \in Account, CreateAccount(a) \/ DeleteAccount(a) PROVE FilesInv'
    <2>1. /\ emails' \subseteq emails /\ UNCHANGED <<file, msg, pc>>
          /\ used' = used \/ used' = [used EXCEPT !["delete"] = @ + 1]
      BY <1>4 DEF CreateAccount, DeleteAccount, Spend
    <2>2. used'["lose"] = used["lose"] /\ used'["failure"] = used["failure"]
      BY <1>0, <2>1 DEF Event
    <2>3. QED
      BY <2>1, <2>2, FilesSame
  <1>5. ASSUME NEW c \in Content, LoseFile(c) PROVE FilesInv'
    <2>1. used'["lose"] # 0
      BY <1>0, <1>5 DEF LoseFile, Spend, Event
    <2>2. QED
      BY <2>1 DEF FilesInv, FilesStay, CutIsOpen
  <1>6. CASE Restart
    <2>1. /\ used' = [used EXCEPT !["failure"] = @ + 1] /\ UNCHANGED <<emails, file>>
          /\ pc' = [t \in Thread |-> "idle"]
      BY <1>6 DEF Restart, Spend, tables
    <2>2. used'["lose"] = used["lose"] /\ used'["failure"] # 0
      BY <1>0, <2>1 DEF Event
    <2>3. QED
      BY <2>1, <2>2 DEF FilesInv, FilesStay, CutIsOpen
  <1>7. QED
    BY <1>1, <1>2, <1>3, <1>4, <1>5, <1>6, FilesStore DEF Next

LEMMA StoredIsThere == Typed /\ FilesInv => StoredHasFile
PROOF
  <1> SUFFICES ASSUME Typed, FilesInv, used["lose"] = 0, NEW row \in emails
               PROVE  /\ file[row.content] # "absent"
                      /\ used["failure"] = 0 =>
                           file[row.content] = "whole" \/ BeingWritten(row.content)
    BY DEF StoredHasFile, StoredIsWhole
  <1>1. row.content \in Content /\ file[row.content] \in {"absent", "partial", "whole"}
    BY DEF Typed, TypeOK, Email
  <1>2. QED
    BY <1>1 DEF FilesInv, FilesStay, CutIsOpen

-----------------------------------------------------------------------------
(* Scores *)

\* Unless a mailbox was deleted under it, a pass holds rows of the table.
HeldAreRows == ~stale => \A t \in Thread : batch[t] \subseteq emails

ScoresInv == HeldAreRows /\ ScoreIsOfItsEmail

LEMMA ScoresInit == Init => ScoresInv
PROOF BY DEF Init, ScoresInv, HeldAreRows, ScoreIsOfItsEmail

\* Steps that lose no row, analyse none, and give no thread other rows.
LEMMA ScoresSame ==
  ASSUME ScoresInv, emails \subseteq emails', analyses' = analyses, stale' = stale,
         \A t \in Thread : batch'[t] \subseteq batch[t] \/ batch'[t] \subseteq emails
  PROVE  ScoresInv'
PROOF BY DEF ScoresInv, HeldAreRows, ScoreIsOfItsEmail

LEMMA ScoresPass ==
  ASSUME Typed, ScoresInv, NEW t \in Thread,
         PassStep(t) \/ PassFails(t) \/ \E k \in {"missing", "stale"} : BeginPass(t, k)
  PROVE  ScoresInv'
PROOF
  <1>0. batch \in [Thread -> SUBSET Email] /\ UNCHANGED <<emails, stale>>
    BY PassFrame DEF Typed, TypeOK
  <1>1. ASSUME SelectBatch(t) PROVE ScoresInv'
    <2>1. PICK rows \in SUBSET Rest(t) : batch' = [batch EXCEPT ![t] = rows]
      BY <1>1 DEF SelectBatch, NextRow
    <2>2. rows \subseteq emails /\ UNCHANGED analyses
      BY <1>1 DEF Rest, SelectBatch, tables
    <2>3. QED
      BY <1>0, <2>1, <2>2, ScoresSame
  <1>2. ASSUME ReadFile(t) PROVE ScoresInv'
    <2>1. /\ batch' = batch \/ batch' = [batch EXCEPT ![t] = batch[t] \ {First(t)}]
          /\ UNCHANGED analyses
      BY <1>2 DEF ReadFile, NextRow, tables
    <2>2. QED
      BY <1>0, <2>1, ScoresSame
  <1>3. ASSUME SaveAnalysis(t) PROVE ScoresInv'
    <2>1. /\ batch' = [batch EXCEPT ![t] = batch[t] \ {First(t)}] /\ pc[t] = "save"
          /\ analyses' = {a \in analyses : a.email # First(t).id} \cup
               {[email |-> First(t).id, content |-> First(t).content, rules |-> rules]}
      BY <1>3 DEF SaveAnalysis, NextRow
    <2>2. First(t) \in batch[t]
      BY <2>1, FirstIsHeld
    <2>3. HeldAreRows'
      BY <1>0, <2>1 DEF ScoresInv, HeldAreRows
    <2>4. ScoreIsOfItsEmail'
      <3> SUFFICES ASSUME ~stale, NEW a \in analyses'
                   PROVE  \E row \in emails : row.id = a.email /\ row.content = a.content
        BY <1>0 DEF ScoreIsOfItsEmail
      <3>1. CASE a \in analyses
        BY <3>1 DEF ScoresInv, ScoreIsOfItsEmail
      <3>2. CASE a \notin analyses
        <4>1. a.email = First(t).id /\ a.content = First(t).content
          BY <2>1, <3>2
        <4>2. First(t) \in emails
          BY <2>2 DEF ScoresInv, HeldAreRows
        <4>3. QED
          BY <4>1, <4>2
      <3>3. QED
        BY <3>1, <3>2
    <2>5. QED
      BY <2>3, <2>4 DEF ScoresInv
  <1>4. ASSUME PassDone(t) \/ SaveRefused(t) \/ PassFails(t) PROVE ScoresInv'
    <2>1. batch' = [batch EXCEPT ![t] = {}] /\ UNCHANGED analyses
      BY <1>4 DEF PassDone, SaveRefused, PassFails, EndPass, tables
    <2>2. QED
      BY <1>0, <2>1, ScoresSame
  <1>5. ASSUME NEW k \in {"missing", "stale"}, BeginPass(t, k) PROVE ScoresInv'
    BY <1>0, <1>5, ScoresSame DEF BeginPass, tables
  <1>6. QED
    BY <1>1, <1>2, <1>3, <1>4, <1>5 DEF PassStep

\* The analyses of a mailbox go with its rows; those of other mailboxes keep theirs.
LEMMA ScoresDelete ==
  ASSUME Typed, ScoresInv, NEW a \in Account, DeleteAccount(a) PROVE ScoresInv'
PROOF
  <1>1. /\ emails' = {row \in emails : row.account # a}
        /\ analyses' = {r \in analyses : r.email \notin Gone(a)}
        /\ stale' = (stale \/ HeldRows(a)) /\ batch' = batch
    BY DEF DeleteAccount
  <1>2. ~stale' => ~stale /\ ~HeldRows(a)
    BY <1>1
  <1>3. HeldAreRows'
    BY <1>1, <1>2 DEF ScoresInv, HeldAreRows, HeldRows
  <1>4. ScoreIsOfItsEmail'
    <2> SUFFICES ASSUME ~stale, NEW s \in analyses, s.email \notin Gone(a)
                 PROVE  \E row \in emails : /\ row.account # a /\ row.id = s.email
                                           /\ row.content = s.content
      BY <1>1, <1>2 DEF ScoreIsOfItsEmail
    <2>1. PICK row \in emails : row.id = s.email /\ row.content = s.content
      BY DEF ScoresInv, ScoreIsOfItsEmail
    <2>2. row.account # a
      BY <2>1 DEF Gone
    <2>3. QED
      BY <2>1, <2>2
  <1>5. QED
    BY <1>3, <1>4 DEF ScoresInv

LEMMA ScoresNext == Typed /\ ScoresInv /\ [Next]_vars => ScoresInv'
PROOF
  <1> SUFFICES ASSUME Typed, ScoresInv, [Next]_vars PROVE ScoresInv'
    OBVIOUS
  <1>1. CASE UNCHANGED vars
    BY <1>1, ScoresSame DEF vars, tables, passing
  <1>2. ASSUME NEW t \in Thread,
               StoreStep(t) \/ StoreFails(t) \/ \E m \in Message : BeginStore(t, m)
        PROVE  ScoresInv'
    <2>1. emails \subseteq emails' /\ UNCHANGED <<analyses, stale, batch>>
      BY <1>2 DEF StoreStep, StoreFails, BeginStore, FileExists, OpenFile, WriteFile,
         InsertEmail, tables, passing
    <2>2. QED
      BY <2>1, ScoresSame
  <1>3. ASSUME NEW a \in Account, CreateAccount(a) PROVE ScoresInv'
    BY <1>3, ScoresSame DEF CreateAccount, passing
  <1>4. ASSUME NEW c \in Content, LoseFile(c) PROVE ScoresInv'
    BY <1>4, ScoresSame DEF LoseFile, tables, passing
  <1>5. CASE Restart
    BY <1>5, ScoresSame DEF Restart, tables
  <1>6. QED
    BY <1>1, <1>2, <1>3, <1>4, <1>5, ScoresPass, ScoresDelete DEF Next

-----------------------------------------------------------------------------
(* Passes *)

\* What a pass owes are rows that are there: an id that is used again is not owed.
OwedAreRows == \A t \in Thread : \A i \in owed[t] : \E row \in emails : row.id = i

\* What is owed and due is still ahead of the cursor, or in hand.
OwedIsAhead ==
  \A t \in Thread : pc[t] \in PassPC =>
    \A row \in emails : row.id \in owed[t] /\ Due(kind[t], row) =>
      row.id > after[t] \/ row \in batch[t]

PassesInv == OwedAreRows /\ OwedIsAhead

LEMMA PassesInit == Init => PassesInv
PROOF BY DEF Init, PassesInv, OwedAreRows, OwedIsAhead, PassPC

\* Steps after which no pass owes more: of the rows that a pass owes, those that are
\* due were due before, and are ahead or in hand as they were.
LEMMA PassesSame ==
  ASSUME PassesInv,
         \A t \in Thread : \A i \in owed'[t] : i \in owed[t] /\ \E row \in emails' : row.id = i,
         \A t \in Thread : pc'[t] \in PassPC =>
           \A row \in emails' : row.id \in owed'[t] /\ Due(kind[t], row)' =>
             /\ row \in emails /\ Due(kind[t], row) /\ pc[t] \in PassPC
             /\ kind'[t] = kind[t]
             /\ row.id > after[t] => row.id > after'[t] \/ row \in batch'[t]
             /\ row \in batch[t] => row.id > after'[t] \/ row \in batch'[t]
  PROVE  PassesInv'
PROOF
  <1>1. OwedAreRows'
    BY DEF OwedAreRows
  <1>2. OwedIsAhead'
    BY DEF PassesInv, OwedIsAhead
  <1>3. QED
    BY <1>1, <1>2 DEF PassesInv

LEMMA DueSame ==
  ASSUME UNCHANGED <<analyses, rules>>, NEW k, NEW row
  PROVE  Due(k, row)' <=> Due(k, row)
PROOF BY DEF Due

\* A row that is stored meanwhile is not owed: its id was free.
LEMMA PassesStore ==
  ASSUME Typed, PassesInv, NEW t \in Thread,
         \/ StoreStep(t) \/ StoreFails(t) \/ \E m \in Message : BeginStore(t, m)
  PROVE  PassesInv'
PROOF
  <1>1. /\ UNCHANGED <<analyses, rules, kind, after, batch, owed>>
        /\ pc \in [Thread -> PC]
        /\ \E label \in {"idle", "exists", "open", "write", "insert"} : pc' = [pc EXCEPT ![t] = label]
    BY DEF StoreStep, StoreFails, BeginStore, FileExists, OpenFile, WriteFile, InsertEmail,
       EndStore, Go, tables, passing, Typed, TypeOK
  <1>2. \A u \in Thread : pc'[u] \in PassPC => pc[u] \in PassPC
    BY <1>1 DEF PassPC
  <1>3. /\ emails \subseteq emails'
        /\ \A row \in emails' : row \in emails \/ \A old \in emails : old.id # row.id
    <2>1. CASE UNCHANGED emails
      BY <2>1
    <2>2. CASE ~UNCHANGED emails
      <3>1. PICK i \in NextRowId(emails) :
              emails' = emails \cup {[id |-> i, account |-> msg[t].account,
                                      uid |-> msg[t].uid, content |-> msg[t].content]}
        BY <2>2 DEF StoreStep, StoreFails, BeginStore, FileExists, OpenFile, WriteFile,
           InsertEmail, tables
      <3>2. \A row \in emails : row.id # i
        BY NewId DEF Typed
      <3>3. QED
        BY <3>1, <3>2
    <2>3. QED
      BY <2>1, <2>2
  <1>4. \A u \in Thread : \A i \in owed[u] : \E row \in emails : row.id = i
    BY DEF PassesInv, OwedAreRows
  <1>5. \A u \in Thread : \A row \in emails' : row.id \in owed[u] => row \in emails
    BY <1>3, <1>4
  <1>6. \A k, row : Due(k, row)' <=> Due(k, row)
    BY <1>1, DueSame
  <1>7. QED
    BY <1>1, <1>2, <1>3, <1>4, <1>5, <1>6, PassesSame

\* A pass that begins owes what is due, and all of it is ahead.
LEMMA PassesBegin ==
  ASSUME Typed, PassesInv, NEW t \in Thread, NEW k \in {"missing", "stale"}, BeginPass(t, k)
  PROVE  PassesInv'
PROOF
  <1>1. /\ UNCHANGED <<emails, analyses, rules, batch>>
        /\ pc' = [pc EXCEPT ![t] = "select"] /\ kind' = [kind EXCEPT ![t] = k]
        /\ after' = [after EXCEPT ![t] = 0]
        /\ owed' = [owed EXCEPT ![t] = {row.id : row \in {r \in emails : Due(k, r)}}]
    BY DEF BeginPass, Go, tables
  <1>2. /\ pc \in [Thread -> PC] /\ kind \in [Thread -> {"missing", "stale"}]
        /\ after \in [Thread -> Nat] /\ owed \in [Thread -> SUBSET RowId]
        /\ \A row \in emails : row.id > 0
    BY DEF Typed, TypeOK, Email, RowId
  <1>3. \A u \in Thread : u # t => /\ pc'[u] = pc[u] /\ kind'[u] = kind[u]
                                   /\ after'[u] = after[u] /\ owed'[u] = owed[u]
    BY <1>1, <1>2
  <1>4. after'[t] = 0 /\ owed'[t] = {row.id : row \in {r \in emails : Due(k, r)}}
    BY <1>1, <1>2
  <1>5. \A l, row : Due(l, row)' <=> Due(l, row)
    BY <1>1, DueSame
  <1>6. OwedAreRows'
    BY <1>1, <1>3, <1>4 DEF PassesInv, OwedAreRows
  <1>7. ASSUME NEW u \in Thread, pc'[u] \in PassPC, NEW row \in emails', row.id \in owed'[u],
               Due(kind[u], row)'
        PROVE  row.id > after'[u] \/ row \in batch'[u]
    <2>1. CASE u = t
      BY <2>1, <1>1, <1>2, <1>4
    <2>2. CASE u # t
      BY <2>2, <1>1, <1>3, <1>5, <1>7 DEF PassesInv, OwedIsAhead
    <2>3. QED
      BY <2>1, <2>2
  <1>8. QED
    BY <1>6, <1>7 DEF PassesInv, OwedIsAhead

\* The batch is the rows next to the cursor: what is not in it lies behind it.
LEMMA PassesSelect ==
  ASSUME Typed, PassesInv, NEW t \in Thread, SelectBatch(t) PROVE PassesInv'
PROOF
  <1>1. PICK rows \in SUBSET Rest(t) :
          /\ rows # {} /\ \A row \in rows, other \in Rest(t) \ rows : row.id < other.id
          /\ after' = [after EXCEPT ![t] = Cursor(t, rows)]
          /\ NextRow(t, rows)
    BY DEF SelectBatch
  <1>2. /\ UNCHANGED <<emails, analyses, rules, kind, owed>> /\ pc[t] = "select"
        /\ batch' = [batch EXCEPT ![t] = rows] /\ pc' = [pc EXCEPT ![t] = "read"]
    BY <1>1 DEF SelectBatch, NextRow, Go, tables
  <1>3. /\ pc \in [Thread -> PC] /\ after \in [Thread -> Nat] /\ batch \in [Thread -> SUBSET Email]
        /\ batch[t] = {} /\ \A row \in emails : row.id \in Nat
    BY <1>2 DEF Typed, TypeOK, InHand, Email, RowId
  <1>4. PICK last \in rows : Cursor(t, rows) = last.id
    BY <1>1, CursorIsLast DEF Rest
  <1>5. \A k, row : Due(k, row)' <=> Due(k, row)
    BY <1>2, DueSame
  <1>6. OwedAreRows'
    BY <1>2 DEF PassesInv, OwedAreRows
  <1>7. ASSUME NEW u \in Thread, pc'[u] \in PassPC, NEW row \in emails', row.id \in owed'[u],
               Due(kind[u], row)'
        PROVE  row.id > after'[u] \/ row \in batch'[u]
    <2>1. pc[u] \in PassPC /\ row \in emails /\ row.id \in owed[u] /\ Due(kind[u], row)
      BY <1>2, <1>3, <1>5, <1>7 DEF PassPC
    <2>2. row.id > after[u] \/ row \in batch[u]
      BY <2>1 DEF PassesInv, OwedIsAhead
    <2>3. CASE u = t
      <3>1. row \in Rest(t)
        BY <2>1, <2>2, <2>3, <1>3 DEF Rest
      <3>2. row \in rows \/ last.id < row.id
        BY <3>1, <1>1, <1>4
      <3>3. after'[t] = last.id /\ batch'[t] = rows
        BY <1>1, <1>2, <1>3, <1>4
      <3>4. last.id \in Nat /\ row.id \in Nat
        BY <1>3, <2>1 DEF Rest
      <3>5. QED
        BY <2>3, <3>2, <3>3, <3>4
    <2>4. CASE u # t
      BY <2>2, <2>4, <1>1, <1>2, <1>3
    <2>5. QED
      BY <2>3, <2>4
  <1>8. QED
    BY <1>6, <1>7 DEF PassesInv, OwedIsAhead

\* A row whose file cannot be read is no longer owed.
LEMMA PassesRead ==
  ASSUME Typed, PassesInv, NEW t \in Thread, ReadFile(t) PROVE PassesInv'
PROOF
  <1>1. /\ UNCHANGED <<emails, analyses, rules, kind, after>> /\ pc[t] = "read"
        /\ \E label \in PC : pc' = [pc EXCEPT ![t] = label]
        /\ \/ /\ batch' = [batch EXCEPT ![t] = batch[t] \ {First(t)}]
              /\ owed' = [owed EXCEPT ![t] = @ \ {First(t).id}]
           \/ UNCHANGED <<batch, owed>>
    BY DEF ReadFile, NextRow, Go, PC, PassPC, tables
  <1>2. /\ pc \in [Thread -> PC] /\ owed \in [Thread -> SUBSET RowId]
        /\ batch \in [Thread -> SUBSET Email]
    BY DEF Typed, TypeOK
  <1>3. \A k, row : Due(k, row)' <=> Due(k, row)
    BY <1>1, DueSame
  <1>4. \A u \in Thread : owed'[u] \subseteq owed[u]
    BY <1>1, <1>2
  <1>5. \A u \in Thread : \A i \in owed'[u] : i \in owed[u] /\ \E row \in emails' : row.id = i
    BY <1>1, <1>4 DEF PassesInv, OwedAreRows
  <1>6. \A u \in Thread : pc'[u] \in PassPC => pc[u] \in PassPC
    BY <1>1, <1>2 DEF PassPC
  <1>7. \A u \in Thread : \A row : row \in batch[u] /\ row.id \in owed'[u] => row \in batch'[u]
    BY <1>1, <1>2
  <1>8. QED
    BY <1>1, <1>3, <1>4, <1>5, <1>6, <1>7, PassesSame

\* An analysis under the present rules is due for no pass.
LEMMA PassesSave ==
  ASSUME Typed, PassesInv, NEW t \in Thread, SaveAnalysis(t) PROVE PassesInv'
PROOF
  <1> DEFINE id == First(t).id
             new == [email |-> id, content |-> First(t).content, rules |-> rules]
  <1>1. /\ UNCHANGED <<emails, rules, kind, after, owed>> /\ pc[t] = "save"
        /\ \E label \in PC : pc' = [pc EXCEPT ![t] = label]
        /\ batch' = [batch EXCEPT ![t] = batch[t] \ {First(t)}]
        /\ analyses' = {a \in analyses : a.email # id} \cup {new}
    BY DEF SaveAnalysis, NextRow, Go, PC, PassPC
  <1>2. /\ pc \in [Thread -> PC] /\ batch \in [Thread -> SUBSET Email]
        /\ kind \in [Thread -> {"missing", "stale"}]
    BY DEF Typed, TypeOK
  <1>3. new.email = id /\ new.rules = rules
    OBVIOUS
  <1> HIDE DEF id, new
  <1>4. ASSUME NEW k \in {"missing", "stale"}, NEW row, row.id = id PROVE ~Due(k, row)'
    BY <1>1, <1>3, <1>4 DEF Due
  <1>5. ASSUME NEW k \in {"missing", "stale"}, NEW row, row.id # id
        PROVE  Due(k, row)' <=> Due(k, row)
    BY <1>1, <1>3, <1>5 DEF Due
  <1>6. \A u \in Thread : \A i \in owed'[u] : i \in owed[u] /\ \E row \in emails' : row.id = i
    BY <1>1 DEF PassesInv, OwedAreRows
  <1>7. \A u \in Thread : pc'[u] \in PassPC => pc[u] \in PassPC
    BY <1>1, <1>2 DEF PassPC
  <1>8. \A u \in Thread : \A row : row \in batch[u] /\ row.id # id => row \in batch'[u]
    BY <1>1, <1>2 DEF id
  <1>9. ASSUME NEW u \in Thread, NEW row \in emails', Due(kind[u], row)'
        PROVE  row.id # id /\ Due(kind[u], row)
    <2>1. kind[u] \in {"missing", "stale"} /\ kind'[u] = kind[u]
      BY <1>1, <1>2
    <2>2. row.id # id
      BY <2>1, <1>4, <1>9
    <2>3. QED
      BY <2>1, <2>2, <1>5, <1>9
  <1>10. QED
    BY <1>1, <1>6, <1>7, <1>8, <1>9, PassesSame

\* A pass that has ended owes nothing.
LEMMA PassesEnd ==
  ASSUME Typed, PassesInv, NEW t \in Thread, PassDone(t) \/ SaveRefused(t) \/ PassFails(t)
  PROVE  PassesInv'
PROOF
  <1>1. /\ UNCHANGED <<emails, analyses, rules>>
        /\ pc' = [pc EXCEPT ![t] = "idle"] /\ kind' = [kind EXCEPT ![t] = "missing"]
        /\ after' = [after EXCEPT ![t] = 0] /\ batch' = [batch EXCEPT ![t] = {}]
        /\ owed' = [owed EXCEPT ![t] = {}]
    BY DEF PassDone, SaveRefused, PassFails, EndPass, Go, tables
  <1>2. /\ pc \in [Thread -> PC] /\ owed \in [Thread -> SUBSET RowId]
        /\ batch \in [Thread -> SUBSET Email] /\ kind \in [Thread -> {"missing", "stale"}]
        /\ after \in [Thread -> Nat]
    BY DEF Typed, TypeOK
  <1>3. \A k, row : Due(k, row)' <=> Due(k, row)
    BY <1>1, DueSame
  <1>4. owed'[t] = {} /\ pc'[t] \notin PassPC
    BY <1>1, <1>2 DEF PassPC
  <1>5. \A u \in Thread : u # t => /\ owed'[u] = owed[u] /\ pc'[u] = pc[u] /\ kind'[u] = kind[u]
                                   /\ after'[u] = after[u] /\ batch'[u] = batch[u]
    BY <1>1, <1>2
  <1>6. OwedAreRows'
    BY <1>1, <1>4, <1>5 DEF PassesInv, OwedAreRows
  <1>7. OwedIsAhead'
    BY <1>1, <1>3, <1>4, <1>5 DEF PassesInv, OwedIsAhead
  <1>8. QED
    BY <1>6, <1>7 DEF PassesInv

\* Rows that go with their mailbox are no longer owed; the other rows keep their
\* analyses.
LEMMA PassesDelete ==
  ASSUME Typed, PassesInv, NEW a \in Account, DeleteAccount(a) PROVE PassesInv'
PROOF
  <1>1. /\ emails' = {row \in emails : row.account # a}
        /\ analyses' = {r \in analyses : r.email \notin Gone(a)}
        /\ owed' = [t \in Thread |-> owed[t] \ Gone(a)]
        /\ UNCHANGED <<rules, pc, kind, after, batch>>
    BY DEF DeleteAccount
  <1>2. \A row \in emails' : row \in emails /\ row.id \notin Gone(a)
    BY <1>1 DEF Gone, Typed, TypeOK
  <1>3. ASSUME NEW row \in emails', NEW k PROVE Due(k, row)' <=> Due(k, row)
    BY <1>1, <1>2, <1>3 DEF Due
  <1>4. ASSUME NEW t \in Thread, NEW i \in owed'[t]
        PROVE  i \in owed[t] /\ \E row \in emails' : row.id = i
    <2>1. i \in owed[t] /\ i \notin Gone(a)
      BY <1>1, <1>4
    <2>2. PICK row \in emails : row.id = i
      BY <2>1 DEF PassesInv, OwedAreRows
    <2>3. row.account # a
      BY <2>1, <2>2 DEF Gone
    <2>4. QED
      BY <2>1, <2>2, <2>3, <1>1
  <1>5. QED
    BY <1>1, <1>2, <1>3, <1>4, PassesSame

LEMMA PassesNext == Typed /\ PassesInv /\ [Next]_vars => PassesInv'
PROOF
  <1> SUFFICES ASSUME Typed, PassesInv, [Next]_vars PROVE PassesInv'
    OBVIOUS
  <1>1. \A t \in Thread : \A i \in owed[t] : \E row \in emails : row.id = i
    BY DEF PassesInv, OwedAreRows
  <1>2. CASE UNCHANGED <<emails, analyses, rules, pc, passing>>
    <2>1. \A k, row : Due(k, row)' <=> Due(k, row)
      BY <1>2, DueSame
    <2>2. QED
      BY <2>1, <1>1, <1>2, PassesSame DEF passing
  <1>3. CASE Restart
    <2>1. owed' = [t \in Thread |-> {}] /\ pc' = [t \in Thread |-> "idle"]
      BY <1>3 DEF Restart
    <2>2. QED
      BY <2>1 DEF PassesInv, OwedAreRows, OwedIsAhead, PassPC
  <1>4. CASE UNCHANGED vars
    BY <1>2, <1>4 DEF vars, tables
  <1>5. ASSUME NEW a \in Account, CreateAccount(a) PROVE PassesInv'
    BY <1>2, <1>5 DEF CreateAccount
  <1>6. ASSUME NEW c \in Content, LoseFile(c) PROVE PassesInv'
    BY <1>2, <1>6 DEF LoseFile, tables
  <1>7. QED
    BY <1>3, <1>4, <1>5, <1>6, PassesStore, PassesBegin, PassesSelect, PassesRead, PassesSave,
       PassesEnd, PassesDelete DEF Next, PassStep

-----------------------------------------------------------------------------
(* The theorems *)

VaultInv == Typed /\ FilesInv /\ ScoresInv /\ PassesInv

LEMMA VaultInvAlways == Spec => []VaultInv
PROOF
  <1>1. Init => VaultInv
    BY TypesInit, FilesInit, ScoresInit, PassesInit DEF VaultInv
  <1>2. VaultInv /\ [Next]_vars => VaultInv'
    BY TypesNext, FilesNext, ScoresNext, PassesNext DEF VaultInv
  <1>3. QED
    BY <1>1, <1>2, PTL DEF Spec

\* Tables, files and the locals of the passes keep their types; an email has one
\* analysis, and its id and its IMAP identity are its own.
THEOREM VaultTypeCorrect == Spec => []TypeOK
PROOF
  <1>1. VaultInv => TypeOK
    BY DEF VaultInv, Typed
  <1>2. QED
    BY VaultInvAlways, <1>1, PTL

\* For any threads and mailboxes, with equal messages and at any point of a write: as
\* long as nobody removes files, every stored email has its file, and unless a write
\* was cut short it is whole or being written (_store_raw_message).
THEOREM StoredCanBeRead == Spec => []StoredHasFile
PROOF
  <1>1. VaultInv => StoredHasFile
    BY StoredIsThere DEF VaultInv
  <1>2. QED
    BY VaultInvAlways, <1>1, PTL

\* A score stands beside the message it is of, whichever ids are used again, unless a
\* mailbox was deleted under a pass that held its rows (record_assessment).
THEOREM ScoresAreOfTheirEmails == Spec => []ScoreIsOfItsEmail
PROOF
  <1>1. VaultInv => ScoreIsOfItsEmail
    BY DEF VaultInv, ScoresInv
  <1>2. QED
    BY VaultInvAlways, <1>1, PTL

\* A pass that finds nothing more has looked at all it found due when it began
\* (emails_missing_analysis, emails_with_stale_analysis), in batches of any size,
\* whatever was stored, deleted and scored meanwhile.
THEOREM EndedPassesAreComplete == Spec => []EndedPassIsComplete
PROOF
  <1>1. VaultInv => EndedPassIsComplete
    <2> SUFFICES ASSUME VaultInv, NEW t \in Thread, pc[t] = "select", Rest(t) = {},
                        NEW row \in emails, row.id \in owed[t], Due(kind[t], row)
                 PROVE  FALSE
      BY DEF EndedPassIsComplete
    <2>1. row.id > after[t] \/ row \in batch[t]
      BY DEF VaultInv, PassesInv, OwedIsAhead, PassPC
    <2>2. batch[t] = {}
      BY DEF VaultInv, Typed, InHand
    <2>3. row \in Rest(t)
      BY <2>1, <2>2 DEF Rest
    <2>4. QED
      BY <2>3
  <1>2. QED
    BY VaultInvAlways, <1>1, PTL
=============================================================================
