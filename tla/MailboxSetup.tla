---------------------------- MODULE MailboxSetup ----------------------------
(***************************************************************************)
(* Adding a mailbox: the start of the API with its two generated secrets    *)
(* (create_app, core/crypto.py, api/auth.py), the endpoints that test and   *)
(* store a mailbox (api/mailboxes.py), and the "Add a mailbox" page         *)
(* (ui/mailbox_wizard.py) in several browser sessions.                      *)
(***************************************************************************)
EXTENDS Integers, FiniteSets

CONSTANTS
  Session,      \* browser sessions on the page
  Email,        \* addresses as they can be typed
  Password,
  Lower,        \* str.lower() on addresses
  Blank,        \* a form that is not filled in, or not validly
  HastyClicks,  \* Save may be clicked before the page was redrawn after an edit
  MaxSecrets,   \* bound: how many secrets are generated or configured
  Limit         \* bound: how often each event happens

Event == {"stop", "lost", "provider", "removeFile", "setKey"}

ASSUME LowerAssumption == Lower \in [Email -> Email]
ASSUME LimitAssumption == Limit \in [Event -> Nat] /\ MaxSecrets \in Nat

\* The settings in the form; server and port belong to the address.
Settings == [email : Email, password : Password]
ASSUME BlankAssumption == Blank \notin Settings

\* fingerprint(): the address in lower case, the password as it is.
Fingerprint(settings) == [settings EXCEPT !.email = Lower[@]]

Secrets == {"token", "key"}
Absent == 0   \* no file, or no environment variable
Empty == -1   \* a file with nothing in it

VARIABLES
  file,      \* what data_dir/api_token and data_dir/secret.key hold
  env,       \* HERON_SECRET_KEY
  held,      \* app.state: the secrets in the memory of the API process
  stage,     \* how far create_app is: "off", at a secret, or "up"
  opened,    \* the file of the secret it is at is open for writing
  made,      \* how many secrets there have been
  told,      \* history: the tokens that ever were in force
  accounts,  \* rows, with the key of the ciphertext; by: history, who added it
  form,      \* per session: the widgets' values
  tested,    \* per session: _TESTED, Blank for none
  call,      \* per session: the API call its script waits for
  late,      \* POST /mailboxes whose client gave up waiting
  proved,    \* history, per session: fingerprints the provider accepted
  valid,     \* the logins the mail provider accepts
  used       \* how often each event happened

startup == <<file, env, held, stage, opened, made, told>>
page    == <<form, tested>>
vars    == <<startup, accounts, page, call, late, proved, valid, used>>

Asked(kind, settings) ==
  [kind |-> kind, settings |-> settings, answer |-> "none", moved |-> FALSE]
NoCall == Asked("none", Blank)

Init ==
  /\ file = [name \in Secrets |-> Absent]
  /\ env = Absent
  /\ held = [name \in Secrets |-> Absent]
  /\ stage = "off" /\ opened = FALSE /\ made = 0 /\ told = {}
  /\ accounts = {}
  /\ form = [s \in Session |-> Blank]
  /\ tested = [s \in Session |-> Blank]
  /\ call = [s \in Session |-> NoCall]
  /\ late = {}
  /\ proved = [s \in Session |-> {}]
  /\ valid \in {{l} : l \in {Fingerprint(f) : f \in Settings}}
  /\ used = [e \in Event |-> 0]

Happens(e) == used[e] < Limit[e] /\ used' = [used EXCEPT ![e] = @ + 1]

-----------------------------------------------------------------------------
(* The API process starts and stops *)

Start ==
  /\ stage = "off"
  /\ stage' = "token"
  /\ UNCHANGED <<file, env, held, opened, made, told, accounts, page, call, late,
                 proved, valid, used>>

\* The token comes first, then the database, then the key: the app is complete.
GoOn(name) ==
  /\ stage' = IF name = "token" THEN "key" ELSE "up"
  /\ told' = IF stage' = "up" THEN told \union {held'["token"]} ELSE told

\* HERON_SECRET_KEY wins over the file.
UseConfigured ==
  /\ stage = "key" /\ ~opened /\ env # Absent
  /\ held' = [held EXCEPT !["key"] = env]
  /\ GoOn("key")
  /\ UNCHANGED <<file, env, opened, made, accounts, page, call, late, proved, valid, used>>

FromFile(name) == stage = name /\ ~opened /\ (name = "key" => env = Absent)

UseFile(name) ==
  /\ FromFile(name) /\ file[name] \notin {Absent, Empty}
  /\ held' = [held EXCEPT ![name] = file[name]]
  /\ GoOn(name)
  /\ UNCHANGED <<file, env, opened, made, accounts, page, call, late, proved, valid, used>>

\* "exists but is empty": create_app raises.
RefuseEmpty(name) ==
  /\ FromFile(name) /\ file[name] = Empty
  /\ stage' = "off"
  /\ UNCHANGED <<file, env, held, opened, made, told, accounts, page, call, late,
                 proved, valid, used>>

\* Mutant: a secret that is generated but kept in memory only.
OpenFile_NotSaved(name) ==
  /\ FromFile(name) /\ file[name] = Absent /\ made < MaxSecrets
  /\ held' = [held EXCEPT ![name] = made + 1]
  /\ made' = made + 1
  /\ GoOn(name)
  /\ UNCHANGED <<file, env, opened, accounts, page, call, late, proved, valid, used>>

\* A first start: write_text creates the file, and then fills it.
OpenFile(name) ==
  /\ FromFile(name) /\ file[name] = Absent /\ made < MaxSecrets
  /\ held' = [held EXCEPT ![name] = made + 1]
  /\ made' = made + 1
  /\ file' = [file EXCEPT ![name] = Empty]
  /\ opened' = TRUE
  /\ UNCHANGED <<env, stage, told, accounts, page, call, late, proved, valid, used>>

WriteFile(name) ==
  /\ stage = name /\ opened
  /\ file' = [file EXCEPT ![name] = held[name]]
  /\ opened' = FALSE
  /\ UNCHANGED held
  /\ GoOn(name)
  /\ UNCHANGED <<env, made, accounts, page, call, late, proved, valid, used>>

\* The process stops, wherever it is; requests it was serving are dropped.
Stop ==
  /\ stage # "off"
  /\ Happens("stop")
  /\ stage' = "off"
  /\ opened' = FALSE
  /\ held' = [name \in Secrets |-> Absent]
  /\ late' = {}
  /\ UNCHANGED <<file, env, made, told, accounts, page, call, proved, valid>>

\* The operator: removes a file that create_app refuses, or loses one that is in
\* use; configures a key, before there are mailboxes or later.
RemoveFile(name) ==
  /\ stage = "off" /\ file[name] # Absent
  /\ IF file[name] = Empty THEN UNCHANGED used ELSE Happens("removeFile")
  /\ file' = [file EXCEPT ![name] = Absent]
  /\ UNCHANGED <<env, held, stage, opened, made, told, accounts, page, call, late,
                 proved, valid>>

SetKey ==
  /\ stage = "off" /\ made < MaxSecrets
  /\ IF accounts = {} THEN UNCHANGED used ELSE Happens("setKey")
  /\ env' = made + 1
  /\ made' = made + 1
  /\ UNCHANGED <<file, held, stage, opened, told, accounts, page, call, late,
                 proved, valid>>

-----------------------------------------------------------------------------
(* The endpoints *)

\* ImapClient.connect signs in: the provider takes this address and password.
LoginWorks(f) == f \in valid

\* test_credentials: a login, nothing is stored.  A mail server that cannot be
\* reached is answered like a refused login.
ServeTest(s) ==
  /\ stage = "up" /\ call[s].kind = "test" /\ call[s].answer = "none"
  /\ LET f == Fingerprint(call[s].settings)
     IN  \/ /\ LoginWorks(f)
            /\ call' = [call EXCEPT ![s].answer = "ok"]
            /\ proved' = [proved EXCEPT ![s] = @ \union {f}]
         \/ /\ call' = [call EXCEPT ![s].answer = "refused"]
            /\ UNCHANGED proved
  /\ UNCHANGED <<startup, accounts, page, late, valid, used>>

Taken(settings) == \E a \in accounts : a.email = settings.email

\* Mutant: the key in the data directory encrypts, whichever one is configured.
Insert_FileKey(s, settings) ==
  accounts' = accounts \union {[email |-> settings.email, password |-> settings.password,
                                key |-> file["key"], by |-> s]}

\* create_account: the password is encrypted with the key the process holds.
Insert(s, settings) ==
  accounts' = accounts \union {[email |-> settings.email, password |-> settings.password,
                                key |-> held["key"], by |-> s]}

\* add_mailbox: 409 when the address is registered.
ServeCreate(s) ==
  /\ stage = "up" /\ call[s].kind = "create" /\ call[s].answer = "none"
  /\ IF Taken(call[s].settings)
     THEN /\ call' = [call EXCEPT ![s].answer = "refused"]
          /\ UNCHANGED accounts
     ELSE /\ call' = [call EXCEPT ![s].answer = "ok"]
          /\ Insert(s, call[s].settings)
  /\ UNCHANGED <<startup, page, late, proved, valid, used>>

\* The client waits ten seconds, or finds nobody there.  A request that has
\* reached the API may still be served.
GiveUp(s) ==
  /\ call[s].kind # "none" /\ call[s].answer # "lost"
  /\ IF stage = "up" THEN Happens("lost") ELSE UNCHANGED used
  /\ call' = [call EXCEPT ![s].answer = "lost"]
  /\ \/ UNCHANGED late
     \/ /\ stage = "up" /\ call[s].kind = "create" /\ call[s].answer = "none"
        /\ late' = late \union {[session |-> s, settings |-> call[s].settings]}
  /\ UNCHANGED <<startup, accounts, page, proved, valid>>

ServeLate ==
  /\ stage = "up"
  /\ \E r \in late :
       /\ late' = late \ {r}
       /\ IF Taken(r.settings) THEN UNCHANGED accounts ELSE Insert(r.session, r.settings)
  /\ UNCHANGED <<startup, page, call, proved, valid, used>>

\* The user changes the password with the mail provider.
ProviderChanges ==
  /\ Happens("provider")
  /\ \E f \in Settings : valid' = {Fingerprint(f)}
  /\ UNCHANGED <<startup, accounts, page, call, late, proved>>

-----------------------------------------------------------------------------
(* The page *)

\* A widget changes.  A script that is waiting for the API will be interrupted.
Edit(s) ==
  /\ \E f \in Settings \union {Blank} :
       f # form[s] /\ form' = [form EXCEPT ![s] = f]
  /\ call' = [call EXCEPT ![s].moved = call[s].kind # "none"]
  /\ UNCHANGED <<startup, accounts, tested, late, proved, valid, used>>

\* validate_mailbox found nothing wrong: check.ok.
Ok(s) == form[s] # Blank

Ask(s, kind) ==
  /\ call[s] = NoCall /\ Ok(s)
  /\ call' = [call EXCEPT ![s] = Asked(kind, form[s])]
  /\ UNCHANGED <<startup, accounts, page, late, proved, valid, used>>

ClickTest(s) == Ask(s, "test")

\* render() draws the Save button disabled unless the form's settings were tested.
\* A hasty click meets the button as it was drawn for an earlier form.
ClickSave(s) ==
  /\ tested[s] # Blank /\ Ok(s)
  /\ tested[s] = Fingerprint(form[s]) \/ HastyClicks
  /\ Ask(s, "create")

\* Mutant: the form's settings are remembered as they are when the answer comes.
Remembered_Now(s) == IF form[s] = Blank THEN Blank ELSE Fingerprint(form[s])

\* `current`: taken before the call.
Remembered(s) == Fingerprint(call[s].settings)

\* The script goes on with the answer.  After an error st.stop leaves everything
\* as it is, and so does the interruption by an edit, which comes with the first
\* write to the session's state.
Resume(s) ==
  /\ call' = [call EXCEPT ![s] = NoCall]
  /\ UNCHANGED <<startup, accounts, late, proved, valid, used>>

TestAnswered(s) ==
  /\ call[s].kind = "test"
  /\ \/ call[s].answer = "ok"
        /\ tested' = [tested EXCEPT ![s] = Remembered(s)]
     \/ call[s].answer = "refused" /\ tested' = [tested EXCEPT ![s] = Blank]
  /\ UNCHANGED form
  /\ Resume(s)

\* After a save the widgets get new keys: the form is empty.
CreateAnswered(s) ==
  /\ call[s].kind = "create" /\ call[s].answer = "ok"
  /\ form' = [form EXCEPT ![s] = Blank]
  /\ \/ tested' = [tested EXCEPT ![s] = Blank]
     \/ call[s].moved /\ UNCHANGED tested
  /\ Resume(s)

NothingDone(s) ==
  /\ \/ call[s].answer = "lost"
     \/ call[s].kind = "create" /\ call[s].answer = "refused"
     \/ call[s].moved /\ call[s].answer # "none"
  /\ UNCHANGED <<form, tested>>
  /\ Resume(s)

-----------------------------------------------------------------------------
Process == \/ Start \/ UseConfigured \/ Stop \/ SetKey
           \/ \E name \in Secrets : \/ UseFile(name) \/ RefuseEmpty(name) \/ OpenFile(name)
                                    \/ WriteFile(name) \/ RemoveFile(name)

Api == \/ ServeLate \/ ProviderChanges
       \/ \E s \in Session : ServeTest(s) \/ ServeCreate(s) \/ GiveUp(s)

Page == \E s \in Session : \/ Edit(s) \/ ClickTest(s) \/ ClickSave(s)
                           \/ TestAnswered(s) \/ CreateAnswered(s) \/ NothingDone(s)

Next == Process \/ Api \/ Page

Spec == Init /\ [][Next]_vars

-----------------------------------------------------------------------------
(* Properties *)

TypeOK ==
  /\ file \in [Secrets -> {Absent, Empty} \union 1 .. MaxSecrets]
  /\ env \in {Absent} \union 1 .. MaxSecrets
  /\ held \in [Secrets -> 0 .. MaxSecrets]
  /\ stage \in {"off", "token", "key", "up"} /\ opened \in BOOLEAN
  /\ made \in 0 .. MaxSecrets /\ told \subseteq 1 .. MaxSecrets
  /\ accounts \subseteq [email : Email, password : Password, key : 1 .. MaxSecrets,
                         by : Session]
  /\ \A a, b \in accounts : a.email = b.email => a = b
  /\ form \in [Session -> Settings \union {Blank}]
  /\ tested \in [Session -> Settings \union {Blank}]
  /\ call \in [Session -> [kind : {"none", "test", "create"},
                           settings : Settings \union {Blank},
                           answer : {"none", "ok", "refused", "lost"}, moved : BOOLEAN]]
  /\ late \subseteq [session : Session, settings : Settings]
  /\ proved \in [Session -> SUBSET Settings]
  /\ valid \subseteq Settings
  /\ used \in [Event -> Nat]

\* "Saving is only possible after a successful test of exactly the settings in
\* the form": whatever is edited while a test or a save is under way, and whatever
\* answer is late or lost, a stored login is one the provider accepted in the
\* session that stored it.  Up to the case of the address, as in fingerprint();
\* and as long as nobody clicks Save before an edit is drawn.
SavedWasTested ==
  \A a \in accounts : [email |-> Lower[a.email], password |-> a.password] \in proved[a.by]

\* A process that is up can decrypt every stored password; otherwise it should not
\* have started ("a clear startup error, not a silent failure").  A stop anywhere
\* in the first start, between creating the key's file and filling it too, must
\* not lead to a second key.  Refuted when a key in use is lost or replaced.
StoredReadable ==
  stage = "up" => \A a \in accounts : a.key = held["key"]

\* The token a user was told stays the token: no stop of a start, at any point,
\* makes a later start generate another one.
TokenStable ==
  \A t, u \in told : t = u
=============================================================================
