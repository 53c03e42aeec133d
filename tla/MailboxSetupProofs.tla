------------------------- MODULE MailboxSetupProofs -------------------------
(***************************************************************************)
(* Which settings are stored, with which key, and whether the token stays,  *)
(* for any number of sessions, addresses, stops and lost answers.           *)
(***************************************************************************)
EXTENDS MailboxSetup, TLAPS

Call == [kind : {"none", "test", "create"}, settings : Settings \union {Blank},
         answer : {"none", "ok", "refused", "lost"}, moved : BOOLEAN]

\* What the page, the calls and the table hold; the part of TypeOK that the
\* proof about settings needs.
PageType ==
  /\ \A a \in accounts : a.email \in Email /\ a.password \in Password /\ a.by \in Session
  /\ form \in [Session -> Settings \union {Blank}]
  /\ tested \in [Session -> Settings \union {Blank}]
  /\ call \in [Session -> Call]
  /\ \A s \in Session : call[s].kind # "none" => call[s].settings \in Settings
  /\ late \subseteq [session : Session, settings : Settings]
  /\ proved \in [Session -> SUBSET Settings]

\* The fingerprint a session remembers was accepted in that session.
TestedIsProved == \A s \in Session : tested[s] # Blank => tested[s] \in proved[s]

\* So were the settings of a test that was answered with success, and those of a
\* save that is under way, also of one nobody waits for any more.
CallIsProved ==
  \A s \in Session :
    (call[s].kind = "create" \/ (call[s].kind = "test" /\ call[s].answer = "ok"))
      => Fingerprint(call[s].settings) \in proved[s]
LateIsProved == \A r \in late : Fingerprint(r.settings) \in proved[r.session]

PageInv == PageType /\ TestedIsProved /\ CallIsProved /\ LateIsProved /\ SavedWasTested

-----------------------------------------------------------------------------
LEMMA FingerprintFacts ==
  ASSUME NEW f \in Settings
  PROVE  /\ Fingerprint(f) \in Settings
         /\ Fingerprint(f) = [email |-> Lower[f.email], password |-> f.password]
         /\ Fingerprint(f) # Blank
BY LowerAssumption, BlankAssumption DEF Fingerprint, Settings

LEMMA PageInit == Init => PageInv
<1> SUFFICES ASSUME Init PROVE PageInv
  OBVIOUS
<1>1. NoCall \in Call
  BY DEF NoCall, Asked, Call
<1>2. /\ accounts = {} /\ late = {}
      /\ form = [s \in Session |-> Blank] /\ tested = [s \in Session |-> Blank]
      /\ call = [s \in Session |-> NoCall] /\ proved = [s \in Session |-> {}]
  BY DEF Init
<1> QED
  BY <1>1, <1>2 DEF PageInv, PageType, NoCall, Asked, TestedIsProved, CallIsProved,
     LateIsProved, SavedWasTested

\* The process changes nothing of the page, and drops what is late.
LEMMA ProcessPage == PageInv /\ Process => PageInv'
<1> SUFFICES ASSUME PageInv, Process PROVE PageInv'
  OBVIOUS
<1>1. /\ UNCHANGED <<accounts, form, tested, call, proved>>
      /\ late' \subseteq late
  BY DEF Process, Start, UseConfigured, Stop, SetKey, UseFile, RefuseEmpty, OpenFile,
         WriteFile, RemoveFile, page
<1> QED
  BY <1>1 DEF PageInv, PageType, TestedIsProved, CallIsProved, LateIsProved,
     SavedWasTested

LEMMA ServeTestPage ==
  ASSUME PageInv, NEW s \in Session, ServeTest(s) PROVE PageInv'
<1> DEFINE f == Fingerprint(call[s].settings)
<1>1. /\ call[s].kind = "test" /\ f \in Settings
      /\ UNCHANGED <<accounts, form, tested, late>>
  BY FingerprintFacts DEF ServeTest, PageInv, PageType, page
<1>2. CASE /\ call' = [call EXCEPT ![s].answer = "ok"]
         /\ proved' = [proved EXCEPT ![s] = @ \union {f}]
  <2>1. /\ call' = [call EXCEPT ![s].answer = "ok"]
        /\ proved' = [proved EXCEPT ![s] = @ \union {f}]
    BY <1>2
  <2>2. \A t \in Session : proved[t] \subseteq proved'[t]
    BY <2>1 DEF PageInv, PageType
  <2>3. /\ call'[s].kind = "test" /\ call'[s].settings = call[s].settings
        /\ call' \in [Session -> Call] /\ f \in proved'[s]
        /\ \A t \in Session : t # s => call'[t] = call[t]
    BY <1>1, <2>1 DEF PageInv, PageType, Call
  <2>4. PageType'
    BY <1>1, <2>1, <2>3 DEF PageInv, PageType
  <2> QED
    BY <1>1, <2>2, <2>3, <2>4 DEF PageInv, PageType, TestedIsProved, CallIsProved,
       LateIsProved, SavedWasTested
<1>3. CASE call' = [call EXCEPT ![s].answer = "refused"] /\ UNCHANGED proved
  BY <1>1, <1>3 DEF PageInv, PageType, Call, TestedIsProved, CallIsProved,
     LateIsProved, SavedWasTested
<1> QED
  BY <1>2, <1>3 DEF ServeTest

\* A row is stored with the settings of a save, which were proved.
LEMMA InsertPage ==
  ASSUME PageInv, NEW s \in Session, NEW settings \in Settings,
         Fingerprint(settings) \in proved[s],
         UNCHANGED accounts \/ Insert(s, settings), UNCHANGED proved
  PROVE  /\ SavedWasTested'
         /\ \A a \in accounts' :
              a.email \in Email /\ a.password \in Password /\ a.by \in Session
<1>1. CASE UNCHANGED accounts
  BY <1>1 DEF PageInv, PageType, SavedWasTested
<1>2. CASE Insert(s, settings)
  <2>1. PICK k : accounts' = accounts \union
          {[email |-> settings.email, password |-> settings.password, key |-> k, by |-> s]}
    BY <1>2 DEF Insert
  <2>2. settings.email \in Email /\ settings.password \in Password
    BY DEF Settings
  <2>3. [email |-> Lower[settings.email], password |-> settings.password] \in proved[s]
    BY FingerprintFacts
  <2> QED
    BY <2>1, <2>2, <2>3 DEF PageInv, PageType, SavedWasTested
<1> QED
  BY <1>1, <1>2

LEMMA ServeCreatePage ==
  ASSUME PageInv, NEW s \in Session, ServeCreate(s) PROVE PageInv'
<1>1. /\ call[s].kind = "create" /\ call[s].settings \in Settings
      /\ Fingerprint(call[s].settings) \in proved[s]
  BY DEF ServeCreate, PageInv, PageType, CallIsProved
<1>2. /\ UNCHANGED <<form, tested, late, proved>>
      /\ \E x \in {"ok", "refused"} : call' = [call EXCEPT ![s].answer = x]
      /\ UNCHANGED accounts \/ Insert(s, call[s].settings)
  BY DEF ServeCreate, page
<1>3. SavedWasTested' /\ \A a \in accounts' :
        a.email \in Email /\ a.password \in Password /\ a.by \in Session
  BY <1>1, <1>2, InsertPage
<1>4. /\ call' \in [Session -> Call]
      /\ \A t \in Session : /\ call'[t].kind = call[t].kind
                            /\ call'[t].settings = call[t].settings
                            /\ call'[t].kind = "test" => call'[t].answer = call[t].answer
  BY <1>1, <1>2 DEF PageInv, PageType, Call
<1> QED
  BY <1>2, <1>3, <1>4 DEF PageInv, PageType, TestedIsProved, CallIsProved, LateIsProved

LEMMA GiveUpPage ==
  ASSUME PageInv, NEW s \in Session, GiveUp(s) PROVE PageInv'
<1>1. /\ UNCHANGED <<accounts, form, tested, proved>>
      /\ call' = [call EXCEPT ![s].answer = "lost"]
      /\ \/ UNCHANGED late
         \/ /\ call[s].kind = "create"
            /\ late' = late \union {[session |-> s, settings |-> call[s].settings]}
  BY DEF GiveUp, page
<1>2. /\ call' \in [Session -> Call]
      /\ \A t \in Session : /\ call'[t].kind = call[t].kind
                            /\ call'[t].settings = call[t].settings
                            /\ call'[t].answer = "ok" => call[t].answer = "ok"
  BY <1>1 DEF PageInv, PageType, Call
<1>3. late' \subseteq [session : Session, settings : Settings] /\ LateIsProved'
  BY <1>1 DEF PageInv, PageType, CallIsProved, LateIsProved
<1> QED
  BY <1>1, <1>2, <1>3 DEF PageInv, PageType, TestedIsProved, CallIsProved, SavedWasTested

LEMMA ServeLatePage == PageInv /\ ServeLate => PageInv'
<1> SUFFICES ASSUME PageInv, ServeLate PROVE PageInv'
  OBVIOUS
<1>1. PICK r \in late :
        /\ late' = late \ {r}
        /\ UNCHANGED accounts \/ Insert(r.session, r.settings)
  BY DEF ServeLate
<1>2. UNCHANGED <<form, tested, call, proved>>
  BY DEF ServeLate, page
<1>3. /\ r.session \in Session /\ r.settings \in Settings
      /\ Fingerprint(r.settings) \in proved[r.session]
  BY DEF PageInv, PageType, LateIsProved
<1>4. SavedWasTested' /\ \A a \in accounts' :
        a.email \in Email /\ a.password \in Password /\ a.by \in Session
  BY <1>1, <1>2, <1>3, InsertPage
<1> QED
  BY <1>1, <1>2, <1>4 DEF PageInv, PageType, TestedIsProved, CallIsProved, LateIsProved

LEMMA ApiPage == PageInv /\ Api => PageInv'
<1>1. PageInv /\ ProviderChanges => PageInv'
  BY DEF ProviderChanges, page, PageInv, PageType, TestedIsProved, CallIsProved,
     LateIsProved, SavedWasTested
<1> QED
  BY <1>1, ServeTestPage, ServeCreatePage, GiveUpPage, ServeLatePage DEF Api

LEMMA EditPage ==
  ASSUME PageInv, NEW s \in Session, Edit(s) PROVE PageInv'
<1>1. /\ UNCHANGED <<accounts, tested, late, proved>>
      /\ form' \in [Session -> Settings \union {Blank}]
      /\ \E x \in BOOLEAN : call' = [call EXCEPT ![s].moved = x]
  <2>1. (call[s].kind # "none") \in BOOLEAN
    OBVIOUS
  <2> QED
    BY <2>1 DEF Edit, PageInv, PageType
<1>2. /\ call' \in [Session -> Call]
      /\ \A t \in Session : /\ call'[t].kind = call[t].kind
                            /\ call'[t].settings = call[t].settings
                            /\ call'[t].answer = call[t].answer
  BY <1>1 DEF PageInv, PageType, Call
<1> QED
  BY <1>1, <1>2 DEF PageInv, PageType, TestedIsProved, CallIsProved, LateIsProved,
     SavedWasTested

\* A save is asked for with settings that were proved; a test with any.
LEMMA AskPage ==
  ASSUME PageInv, NEW s \in Session, NEW kind \in {"test", "create"}, Ask(s, kind),
         kind = "create" => Fingerprint(form[s]) \in proved[s]
  PROVE  PageInv'
<1> DEFINE c == Asked(kind, form[s])
<1>1. /\ UNCHANGED <<accounts, form, tested, late, proved>>
      /\ call' = [call EXCEPT ![s] = c] /\ form[s] # Blank
  BY DEF Ask, Ok, page
<1>2. /\ form[s] \in Settings
      /\ c = [kind |-> kind, settings |-> form[s], answer |-> "none", moved |-> FALSE]
  BY <1>1 DEF PageInv, PageType, Asked
<1>3. /\ call' \in [Session -> Call] /\ call'[s] = c
      /\ \A t \in Session : t # s => call'[t] = call[t]
  BY <1>1, <1>2 DEF PageInv, PageType, Call
<1>4. CallIsProved'
  BY <1>1, <1>2, <1>3 DEF PageInv, CallIsProved
<1>5. PageType'
  BY <1>1, <1>2, <1>3 DEF PageInv, PageType
<1> QED
  BY <1>1, <1>4, <1>5 DEF PageInv, TestedIsProved, LateIsProved, SavedWasTested

\* The script gets its answer; what it remembers was proved, or is not new.
LEMMA ResumePage ==
  ASSUME PageInv, NEW s \in Session, Resume(s),
         form' \in [Session -> Settings \union {Blank}],
         tested' \in [Session -> Settings \union {Blank}],
         \A t \in Session : tested'[t] # Blank => tested'[t] \in proved[t]
  PROVE  PageInv'
<1>1. /\ UNCHANGED <<accounts, late, proved>>
      /\ call' = [call EXCEPT ![s] = NoCall]
  BY DEF Resume
<1>2. /\ call' \in [Session -> Call]
      /\ \A t \in Session : call'[t] = call[t] \/ call'[t] = NoCall
  BY <1>1 DEF PageInv, PageType, Call, NoCall, Asked
<1>3. CallIsProved' /\ \A t \in Session : call'[t].kind # "none" => call'[t].settings \in Settings
  BY <1>1, <1>2 DEF PageInv, PageType, CallIsProved, NoCall, Asked
<1>4. PageType'
  BY <1>1, <1>2, <1>3 DEF PageInv, PageType
<1>5. TestedIsProved'
  BY <1>1 DEF TestedIsProved
<1> QED
  BY <1>1, <1>3, <1>4, <1>5 DEF PageInv, LateIsProved, SavedWasTested

LEMMA TestAnsweredPage ==
  ASSUME PageInv, NEW s \in Session, TestAnswered(s) PROVE PageInv'
<1>1. /\ call[s].kind = "test" /\ Resume(s) /\ UNCHANGED form
      /\ \/ call[s].answer = "ok" /\ tested' = [tested EXCEPT ![s] = Remembered(s)]
         \/ tested' = [tested EXCEPT ![s] = Blank]
  BY DEF TestAnswered
<1>2. call[s].answer = "ok" => Remembered(s) \in proved[s] /\ Remembered(s) \in Settings
  BY <1>1 DEF PageInv, PageType, CallIsProved, Remembered
<1>3. /\ tested' \in [Session -> Settings \union {Blank}]
      /\ \A t \in Session : tested'[t] # Blank => tested'[t] \in proved[t]
  BY <1>1, <1>2 DEF PageInv, PageType, TestedIsProved
<1> QED
  BY <1>1, <1>3, ResumePage DEF PageInv, PageType

LEMMA CreateAnsweredPage ==
  ASSUME PageInv, NEW s \in Session, CreateAnswered(s) PROVE PageInv'
<1>1. /\ Resume(s) /\ form' = [form EXCEPT ![s] = Blank]
      /\ tested' = [tested EXCEPT ![s] = Blank] \/ UNCHANGED tested
  BY DEF CreateAnswered
<1>2. /\ form' \in [Session -> Settings \union {Blank}]
      /\ tested' \in [Session -> Settings \union {Blank}]
      /\ \A t \in Session : tested'[t] # Blank => tested'[t] \in proved[t]
  BY <1>1 DEF PageInv, PageType, TestedIsProved
<1> QED
  BY <1>1, <1>2, ResumePage

LEMMA NothingDonePage ==
  ASSUME PageInv, NEW s \in Session, NothingDone(s) PROVE PageInv'
<1>1. Resume(s) /\ UNCHANGED <<form, tested>>
  BY DEF NothingDone
<1> QED
  BY <1>1, ResumePage DEF PageInv, PageType, TestedIsProved

LEMMA PagePage == ~HastyClicks /\ PageInv /\ Page => PageInv'
<1> SUFFICES ASSUME ~HastyClicks, PageInv, Page PROVE PageInv'
  OBVIOUS
<1>1. ASSUME NEW s \in Session, ClickTest(s) PROVE PageInv'
  BY <1>1, AskPage DEF ClickTest
<1>2. ASSUME NEW s \in Session, ClickSave(s) PROVE PageInv'
  BY <1>2, AskPage DEF ClickSave, PageInv, TestedIsProved
<1> QED
  BY <1>1, <1>2, EditPage, TestAnsweredPage, CreateAnsweredPage, NothingDonePage DEF Page

\* "Saving is only possible after a successful test of exactly the settings in the
\* form", for any number of sessions, under the assumption that an edit is drawn
\* before the next click.
THEOREM OnlyTestedIsSaved ==
  ASSUME ~HastyClicks
  PROVE  Spec => []SavedWasTested
<1>1. PageInv /\ [Next]_vars => PageInv'
  <2> SUFFICES ASSUME PageInv, [Next]_vars PROVE PageInv'
    OBVIOUS
  <2>1. CASE UNCHANGED vars
    BY <2>1 DEF vars, page, PageInv, PageType, TestedIsProved, CallIsProved,
       LateIsProved, SavedWasTested
  <2> QED
    BY <2>1, ProcessPage, ApiPage, PagePage DEF Next
<1>2. PageInv => SavedWasTested
  BY DEF PageInv
<1> QED
  BY PageInit, <1>1, <1>2, PTL DEF Spec

-----------------------------------------------------------------------------
(* The key *)

\* The key a start would find.
TrueKey == IF env # Absent THEN env ELSE file["key"]

StartType ==
  /\ file \in [Secrets -> Int] /\ held \in [Secrets -> Int] /\ env \in Int
  /\ made \in Nat /\ env >= 0 /\ \A name \in Secrets : file[name] >= Empty
  /\ used \in [Event -> Nat] /\ used["removeFile"] = 0 /\ used["setKey"] = 0

\* A file is open for writing while it is empty and the secret is in memory only.
OpenIsEmpty ==
  opened => /\ stage \in Secrets /\ file[stage] = Empty /\ held[stage] > 0
            /\ stage = "key" => env = Absent

UpHoldsKey == stage = "up" => TrueKey > 0 /\ held["key"] = TrueKey

\* Passwords are stored only once there is a key, and under that one.
OneKey == \A a \in accounts : TrueKey > 0 /\ a.key = TrueKey

KeyInv == StartType /\ OpenIsEmpty /\ UpHoldsKey /\ OneKey

LEMMA KeyInit == Init => KeyInv
<1> SUFFICES ASSUME Init PROVE KeyInv
  OBVIOUS
<1>1. StartType
  BY DEF Init, StartType, Absent, Empty, Event
<1> QED
  BY <1>1 DEF Init, KeyInv, OpenIsEmpty, UpHoldsKey, OneKey

\* Steps of the start that leave both the key's file and the variable alone.
LEMMA KeyProcess ==
  ASSUME Limit["removeFile"] = 0, Limit["setKey"] = 0, KeyInv, Process
  PROVE  KeyInv'
<1> USE DEF KeyInv, Absent, Empty
<1>1. CASE Start \/ Stop
  <2>1. /\ UNCHANGED <<file, env, made, accounts>> /\ stage' # "up"
        /\ held' \in [Secrets -> Int] /\ ~opened'
        /\ used' \in [Event -> Nat] /\ used'["removeFile"] = 0 /\ used'["setKey"] = 0
    BY <1>1 DEF Start, Stop, Happens, StartType, Event, OpenIsEmpty, Secrets
  <2> QED
    BY <2>1 DEF StartType, OpenIsEmpty, UpHoldsKey, OneKey, TrueKey
<1>2. CASE UseConfigured
  BY <1>2 DEF UseConfigured, GoOn, StartType, OpenIsEmpty, UpHoldsKey, OneKey, TrueKey,
     Secrets
<1>3. ASSUME NEW name \in Secrets, UseFile(name) PROVE KeyInv'
  <2>1. /\ UNCHANGED <<file, env, made, accounts, opened, used>> /\ ~opened
        /\ file[name] > 0
        /\ held' = [held EXCEPT ![name] = file[name]]
        /\ stage' = "up" => name = "key" /\ env = Absent
    BY <1>3 DEF UseFile, FromFile, GoOn, StartType, Secrets
  <2> QED
    BY <2>1 DEF StartType, OpenIsEmpty, UpHoldsKey, OneKey, TrueKey, Secrets
<1>4. ASSUME NEW name \in Secrets, RefuseEmpty(name) PROVE KeyInv'
  BY <1>4 DEF RefuseEmpty, FromFile, StartType, OpenIsEmpty, UpHoldsKey, OneKey, TrueKey,
     Secrets
<1>5. ASSUME NEW name \in Secrets, OpenFile(name) PROVE KeyInv'
  <2>1. /\ UNCHANGED <<env, accounts, stage, used>> /\ stage = name /\ opened'
        /\ name = "key" => env = Absent
        /\ file[name] = Absent /\ file' = [file EXCEPT ![name] = Empty]
        /\ held' = [held EXCEPT ![name] = made + 1] /\ made' = made + 1
    BY <1>5 DEF OpenFile, FromFile
  <2>2. name = "key" => accounts = {}
    BY <2>1 DEF OneKey, TrueKey
  <2>3. TrueKey' = TrueKey \/ accounts = {}
    BY <2>1, <2>2 DEF TrueKey, Secrets, StartType
  <2> QED
    BY <2>1, <2>2, <2>3 DEF StartType, OpenIsEmpty, UpHoldsKey, OneKey, Secrets
<1>6. ASSUME NEW name \in Secrets, WriteFile(name) PROVE KeyInv'
  <2>1. /\ UNCHANGED <<env, accounts, made, held, used>> /\ stage = name /\ ~opened'
        /\ file[name] = Empty /\ held[name] > 0
        /\ name = "key" => env = Absent
        /\ file' = [file EXCEPT ![name] = held[name]]
        /\ stage' = "up" => name = "key"
    BY <1>6 DEF WriteFile, GoOn, OpenIsEmpty, Secrets
  <2>2. name = "key" => accounts = {}
    BY <2>1 DEF OneKey, TrueKey
  <2>3. TrueKey' = TrueKey \/ accounts = {}
    BY <2>1, <2>2 DEF TrueKey, Secrets, StartType
  <2> QED
    BY <2>1, <2>2, <2>3 DEF StartType, OpenIsEmpty, UpHoldsKey, OneKey, TrueKey, Secrets
<1>7. ASSUME NEW name \in Secrets, RemoveFile(name) PROVE KeyInv'
  <2>1. /\ UNCHANGED <<env, accounts, made, held, stage, opened, used>> /\ stage = "off"
        /\ file[name] = Empty /\ file' = [file EXCEPT ![name] = Absent]
    BY <1>7 DEF RemoveFile, Happens, StartType
  <2>2. TrueKey' = TrueKey \/ accounts = {}
    BY <2>1 DEF TrueKey, OneKey, Secrets, StartType
  <2> QED
    BY <2>1, <2>2 DEF StartType, OpenIsEmpty, UpHoldsKey, OneKey, Secrets
<1>8. CASE SetKey
  <2>1. /\ UNCHANGED <<file, accounts, held, stage, opened, used>> /\ stage = "off"
        /\ accounts = {} /\ env' = made + 1 /\ made' = made + 1
    BY <1>8 DEF SetKey, Happens, StartType
  <2> QED
    BY <2>1 DEF StartType, OpenIsEmpty, UpHoldsKey, OneKey, Secrets
<1> QED
  BY <1>1, <1>2, <1>3, <1>4, <1>5, <1>6, <1>7, <1>8 DEF Process

\* A row is encrypted with the key that is held, by a process that is up.
LEMMA KeyRest == KeyInv /\ (Api \/ Page) => KeyInv'
<1> SUFFICES ASSUME KeyInv, Api \/ Page PROVE KeyInv'
  OBVIOUS
<1>1. UNCHANGED startup
  BY DEF Api, Page, ServeLate, ProviderChanges, ServeTest, ServeCreate, GiveUp, Edit,
         ClickTest, ClickSave, Ask, TestAnswered, CreateAnswered, NothingDone, Resume
<1>2. \/ UNCHANGED accounts
      \/ stage = "up" /\ \E s, settings : Insert(s, settings)
  BY DEF Api, Page, ServeLate, ProviderChanges, ServeTest, ServeCreate, GiveUp, Edit,
         ClickTest, ClickSave, Ask, TestAnswered, CreateAnswered, NothingDone, Resume
<1>3. /\ used' \in [Event -> Nat]
      /\ used'["removeFile"] = 0 /\ used'["setKey"] = 0
  <2>1. used' = used \/ \E e \in {"lost", "provider"} : used' = [used EXCEPT ![e] = @ + 1]
    BY DEF Api, Page, ServeLate, ProviderChanges, ServeTest, ServeCreate, GiveUp, Edit,
           ClickTest, ClickSave, Ask, TestAnswered, CreateAnswered, NothingDone, Resume,
           Happens
  <2> QED
    BY <2>1 DEF KeyInv, StartType, Event
<1>4. StartType' /\ OpenIsEmpty' /\ UpHoldsKey'
  BY <1>1, <1>3 DEF KeyInv, StartType, OpenIsEmpty, UpHoldsKey, TrueKey, startup
<1>5. OneKey'
  <2>1. CASE UNCHANGED accounts
    BY <2>1, <1>1 DEF KeyInv, OneKey, TrueKey, startup
  <2>2. CASE stage = "up" /\ \E s, settings : Insert(s, settings)
    BY <2>2, <1>1 DEF KeyInv, OneKey, UpHoldsKey, TrueKey, startup, Insert
  <2> QED
    BY <1>2, <2>1, <2>2
<1> QED
  BY <1>4, <1>5 DEF KeyInv

\* Through any number of stops, at any point of any start, and with empty files
\* removed: what is stored stays readable as long as no key is lost or replaced.
THEOREM StoredStaysReadable ==
  ASSUME Limit["removeFile"] = 0, Limit["setKey"] = 0
  PROVE  Spec => []StoredReadable
<1>1. KeyInv /\ [Next]_vars => KeyInv'
  <2> SUFFICES ASSUME KeyInv, [Next]_vars PROVE KeyInv'
    OBVIOUS
  <2>1. CASE UNCHANGED vars
    BY <2>1 DEF vars, startup, KeyInv, StartType, OpenIsEmpty, UpHoldsKey, OneKey, TrueKey
  <2> QED
    BY <2>1, KeyProcess, KeyRest DEF Next
<1>2. KeyInv => StoredReadable
  BY DEF KeyInv, UpHoldsKey, OneKey, StoredReadable
<1> QED
  BY KeyInit, <1>1, <1>2, PTL DEF Spec

-----------------------------------------------------------------------------
(* The token *)

SecretsType ==
  /\ file \in [Secrets -> Int] /\ held \in [Secrets -> Int]
  /\ env \in Int /\ made \in Nat /\ \A name \in Secrets : file[name] >= Empty
  /\ used \in [Event -> Nat] /\ used["removeFile"] = 0

\* A file that is open for writing is empty, and its secret is in memory.
OpenedIsHeld == opened => stage \in Secrets /\ file[stage] = Empty /\ held[stage] > 0

\* Past its turn, the token in memory is the one in the file; so was every token
\* that was in force, and an empty file means that none was.
TokenIsSaved ==
  /\ stage \in {"key", "up"} => file["token"] > 0 /\ held["token"] = file["token"]
  /\ \A t \in told : file["token"] > 0 /\ t = file["token"]

TokenInv == SecretsType /\ OpenedIsHeld /\ TokenIsSaved

LEMMA TokenInit == Init => TokenInv
  BY DEF Init, TokenInv, SecretsType, OpenedIsHeld, TokenIsSaved, Absent, Empty, Event

LEMMA TokenProcess ==
  ASSUME Limit["removeFile"] = 0, TokenInv, Process PROVE TokenInv'
<1> USE DEF TokenInv, Absent, Empty
<1>1. CASE Start \/ Stop
  <2>1. /\ UNCHANGED <<file, env, made, told>> /\ stage' \in {"off", "token"}
        /\ held' \in [Secrets -> Int] /\ ~opened'
        /\ used' \in [Event -> Nat] /\ used'["removeFile"] = 0
    BY <1>1 DEF Start, Stop, Happens, SecretsType, Event, OpenedIsHeld, Secrets
  <2> QED
    BY <2>1 DEF SecretsType, OpenedIsHeld, TokenIsSaved
<1>2. CASE UseConfigured \/ UseFile("key") \/ WriteFile("key")
  <2>1. /\ UNCHANGED <<env, made, used>> /\ stage = "key" /\ stage' = "up" /\ ~opened'
        /\ file' \in [Secrets -> Int] /\ held' \in [Secrets -> Int]
        /\ \A name \in Secrets : file'[name] >= Empty
        /\ file'["token"] = file["token"] /\ held'["token"] = held["token"]
        /\ told' = told \union {held'["token"]}
    <3>1. CASE UseConfigured
      BY <3>1 DEF UseConfigured, GoOn, SecretsType, Secrets, OpenedIsHeld
    <3>2. CASE UseFile("key")
      BY <3>2 DEF UseFile, FromFile, GoOn, SecretsType, Secrets
    <3>3. CASE WriteFile("key")
      BY <3>3 DEF WriteFile, GoOn, SecretsType, OpenedIsHeld, Secrets
    <3> QED
      BY <1>2, <3>1, <3>2, <3>3
  <2> QED
    BY <2>1 DEF SecretsType, OpenedIsHeld, TokenIsSaved
<1>3. CASE UseFile("token")
  <2>1. /\ UNCHANGED <<file, env, made, told, opened, used>> /\ ~opened /\ file["token"] > 0
        /\ held' = [held EXCEPT !["token"] = file["token"]] /\ stage' = "key"
    BY <1>3 DEF UseFile, FromFile, GoOn, SecretsType, Secrets
  <2> QED
    BY <2>1 DEF SecretsType, OpenedIsHeld, TokenIsSaved, Secrets
<1>4. CASE WriteFile("token")
  <2>1. /\ UNCHANGED <<env, held, made, told, used>> /\ ~opened' /\ stage' = "key"
        /\ file["token"] = Empty /\ held["token"] > 0
        /\ file' = [file EXCEPT !["token"] = held["token"]]
    BY <1>4 DEF WriteFile, GoOn, OpenedIsHeld, Secrets
  <2> QED
    BY <2>1 DEF SecretsType, OpenedIsHeld, TokenIsSaved, Secrets
<1>5. ASSUME NEW name \in Secrets, OpenFile(name) PROVE TokenInv'
  <2>1. /\ UNCHANGED <<env, stage, told, used>> /\ stage = name /\ opened'
        /\ file[name] = Absent /\ file' = [file EXCEPT ![name] = Empty]
        /\ held' = [held EXCEPT ![name] = made + 1] /\ made' = made + 1
    BY <1>5 DEF OpenFile, FromFile
  <2> QED
    BY <2>1 DEF SecretsType, OpenedIsHeld, TokenIsSaved, Secrets
<1>6. ASSUME NEW name \in Secrets, RefuseEmpty(name) PROVE TokenInv'
  BY <1>6 DEF RefuseEmpty, FromFile, SecretsType, OpenedIsHeld, TokenIsSaved
<1>7. ASSUME NEW name \in Secrets, RemoveFile(name) PROVE TokenInv'
  <2>1. /\ UNCHANGED <<env, made, held, stage, opened, told, used>> /\ stage = "off"
        /\ file[name] = Empty /\ file' = [file EXCEPT ![name] = Absent]
    BY <1>7 DEF RemoveFile, Happens, SecretsType
  <2> QED
    BY <2>1 DEF SecretsType, OpenedIsHeld, TokenIsSaved, Secrets
<1>8. CASE SetKey
  <2>1. /\ UNCHANGED <<file, held, stage, opened, told>> /\ made' = made + 1 /\ env' \in Int
        /\ used' \in [Event -> Nat] /\ used'["removeFile"] = 0
    BY <1>8 DEF SetKey, Happens, SecretsType, Event
  <2> QED
    BY <2>1 DEF SecretsType, OpenedIsHeld, TokenIsSaved
<1> QED
  BY <1>1, <1>2, <1>3, <1>4, <1>5, <1>6, <1>7, <1>8 DEF Process, Secrets

LEMMA TokenRest == TokenInv /\ (Api \/ Page) => TokenInv'
<1> SUFFICES ASSUME TokenInv, Api \/ Page PROVE TokenInv'
  OBVIOUS
<1>1. UNCHANGED startup
  BY DEF Api, Page, ServeLate, ProviderChanges, ServeTest, ServeCreate, GiveUp, Edit,
         ClickTest, ClickSave, Ask, TestAnswered, CreateAnswered, NothingDone, Resume
<1>2. used' = used \/ \E e \in {"lost", "provider"} : used' = [used EXCEPT ![e] = @ + 1]
  BY DEF Api, Page, ServeLate, ProviderChanges, ServeTest, ServeCreate, GiveUp, Edit,
         ClickTest, ClickSave, Ask, TestAnswered, CreateAnswered, NothingDone, Resume,
         Happens
<1>3. used' \in [Event -> Nat] /\ used'["removeFile"] = 0
  BY <1>2 DEF TokenInv, SecretsType, Event
<1> QED
  BY <1>1, <1>3 DEF TokenInv, SecretsType, OpenedIsHeld, TokenIsSaved, startup

\* The token that users were told stays in force: whenever a start is stopped, in
\* the middle of creating a file too, and whichever keys are configured, no later
\* start makes another token, unless somebody removes the file that holds it.
THEOREM TokenStays ==
  ASSUME Limit["removeFile"] = 0
  PROVE  Spec => []TokenStable
<1>1. TokenInv /\ [Next]_vars => TokenInv'
  <2> SUFFICES ASSUME TokenInv, [Next]_vars PROVE TokenInv'
    OBVIOUS
  <2>1. CASE UNCHANGED vars
    BY <2>1 DEF vars, startup, TokenInv, SecretsType, OpenedIsHeld, TokenIsSaved
  <2> QED
    BY <2>1, TokenProcess, TokenRest DEF Next
<1>2. TokenInv => TokenStable
  BY DEF TokenInv, TokenIsSaved, TokenStable
<1> QED
  BY TokenInit, <1>1, <1>2, PTL DEF Spec
=============================================================================
