--------------------------- MODULE SourceCredentials ---------------------------
(***************************************************************************)
(* The rows of collection_credentials: how the app writes them (secure_    *)
(* credential_service.py, the routes in front of it and the seed at start) *)
(* and how the app and the collector read them, each with its own master   *)
(* key.  Every statement is its own transaction, except the read and the   *)
(* write of update_credential_settings, which share one that locks nothing.*)
(*                                                                         *)
(* The handlers of routes/web are not registered in the running app; they  *)
(* are modelled as other writers of the same rows.                         *)
(***************************************************************************)
EXTENDS Settings

CONSTANTS
    Sources,     \* "REGTECH", "CLOUDFLARE"
    Forms,       \* bodies of PUT /collection/credentials/<source>
    Users,
    Passwords,
    EnvPair,     \* REGTECH_ID and REGTECH_PW of the environment, or None
    MasterKeys,
    InitialRows, \* contents of the table when the process starts
    MaxCalls     \* bound: requests and restarts of a behaviour

ASSUME CredentialsAssumption ==
    /\ MaxCalls \in Nat
    /\ IsFiniteSet(Sources) /\ "REGTECH" \in Sources
    /\ MasterKeys # {} /\ None \notin MasterKeys
    /\ None \notin {"undecryptable", "missing", "connected"}
    /\ \A f \in Forms : "source" \in DOMAIN f /\ f.source \in Sources

VARIABLES
    row,         \* source -> its row, or Absent
    appKey,      \* CREDENTIAL_MASTER_KEY of the app
    colKey,      \* ... of the collector, or None
    call,        \* thread -> the request it serves
    calls,
    latest,      \* history: source -> the password stored on purpose last
    version,     \* history: source -> writes of its row
    overtaken    \* history: source -> the last write came from a reader of an older row

credentialVars == <<row, appKey, colKey, call, calls, latest, version, overtaken>>
history == <<latest, version, overtaken>>

Mask    == "***masked***"
Absent  == [absent |-> TRUE]  \* no such row, or no pair in it
Seeder  == "seed"
Threads == Http \cup {Seeder}

(* A payload is the password itself, or a record of both under a key. *)
Plain(password) == [key |-> None, user |-> "", password |-> password]
Sealed(user, password) == [key |-> appKey, user |-> user, password |-> password]

IsRow(r) ==
    /\ r = [f \in {"user", "payload", "encrypted", "active", "enabled", "config"} |-> r[f]]
    /\ r.payload = [f \in {"key", "user", "password"} |-> r.payload[f]]
    /\ r.active \in BOOLEAN /\ r.encrypted \in BOOLEAN

(* What a table holds at start was stored by one of the writers below. *)
ASSUME RowsAssumption ==
    \A table \in InitialRows :
        /\ table = [s \in Sources |-> table[s]]
        /\ \A s \in Sources :
               LET r == table[s]
               IN  r # Absent => /\ IsRow(r)
                                 /\ r.encrypted <=> r.payload.key # None
                                 /\ r.encrypted => r.payload.user = r.user

Save(source, user, password, config, enabled, given) ==
    [source |-> source, user |-> user, password |-> password, config |-> config,
     enabled |-> enabled, given |-> given]

Pending == [credential |-> "pending", health |-> "pending", authentication |-> "pending", data |-> "pending"]
Nothing == [pc |-> "free", op |-> None, form |-> None, saves |-> <<>>, payload |-> None,
            seen |-> [s \in Sources |-> 0], pair |-> Absent, failed |-> 0, phases |-> Pending,
            code |-> None, collect |-> FALSE, answer |-> None]

InitCredentials ==
    /\ row \in InitialRows
    /\ appKey = CHOOSE k \in MasterKeys : TRUE
    /\ colKey = appKey
    /\ call = [t \in Threads |-> IF t = Seeder THEN [Nothing EXCEPT !.pc = "check"] ELSE Nothing]
    /\ calls = 0
    /\ latest = [s \in Sources |-> IF row[s] = Absent THEN "" ELSE row[s].payload.password]
    /\ version = [s \in Sources |-> 0]
    /\ overtaken = [s \in Sources |-> FALSE]

-----------------------------------------------------------------------------
(* Readers *)

(* The app reads the pair from the payload; a row it cannot open is no row. *)
GetCredentials(s) ==
    LET r == row[s]
    IN  IF r = Absent \/ ~r.active THEN Absent
        ELSE IF ~r.encrypted THEN [user |-> r.user, password |-> r.payload.password, enabled |-> r.enabled]
        ELSE IF r.payload.key # appKey THEN Absent
        ELSE [user |-> r.payload.user, password |-> r.payload.password, enabled |-> r.enabled]

Complete(c) == c # Absent /\ c.user # "" /\ c.password # ""

(* The collector's view of REGTECH's row has no condition on is_active; the *)
(* name comes from the column.                                              *)
GetCollectionCredentials ==
    LET r == row["REGTECH"]
    IN  IF r = Absent THEN Absent
        ELSE IF r.encrypted /\ r.payload.password # "" /\ r.payload.key # colKey THEN Absent
        ELSE [user |-> r.user, password |-> r.payload.password, enabled |-> r.enabled]

(* The collector's other reader takes both from the payload, as the app does. *)
LoadCredentialsFromDb ==
    LET r == row["REGTECH"]
    IN  IF r = Absent THEN Absent
        ELSE IF ~r.encrypted THEN [user |-> r.user, password |-> r.payload.password]
        ELSE IF r.payload.key = None \/ r.payload.key # colKey THEN Absent
        ELSE [user |-> r.payload.user, password |-> r.payload.password]
GetRegtechCredentials ==
    LET c == LoadCredentialsFromDb IN IF Complete(c) THEN c ELSE Absent

(* Cloudflare's service takes an encrypted row only. *)
LoadCloudflare ==
    LET c == GetCredentials("CLOUDFLARE")
    IN  IF c # Absent /\ row["CLOUDFLARE"].encrypted THEN c.password ELSE ""

(* What the app's pages and endpoints tell of a source: a name, and whether a *)
(* pair is configured.                                                        *)
Nobody == [configured |-> FALSE, user |-> ""]
Told(c) == [configured |-> TRUE, user |-> c.user]

ListCredentials(s) ==
    LET c == GetCredentials(s) IN IF c = Absent THEN Nobody ELSE Told(c)
GetManagedCredentials(s) ==
    LET c == GetCredentials(s) IN IF c = Absent THEN Nobody ELSE Told(c)
PanelCredentials(s) ==
    LET c == GetCredentials(s)
    IN  [configured |-> c # Absent /\ c.password # "", user |-> IF c = Absent THEN "" ELSE c.user]
AdminCredentials(s) ==
    LET c == GetCredentials(s)
    IN  IF c = Absent THEN Nobody ELSE [configured |-> c.password # "", user |-> c.user]
ValidateCredentials(s) ==
    LET c == GetCredentials(s) IN IF Complete(c) THEN Told(c) ELSE Nobody
StatusOfAnyRow ==
    LET c == GetCredentials("REGTECH")
    IN  IF c # Absent THEN [source |-> "database", user |-> c.user] ELSE [source |-> "none", user |-> ""]

(* The database first, else the environment. *)
CredentialStatus ==
    LET c == GetCredentials("REGTECH")
    IN  IF Complete(c) THEN [source |-> "database", user |-> c.user]
        ELSE IF EnvPair # None THEN [source |-> "environment", user |-> EnvPair.user]
        ELSE [source |-> "none", user |-> ""]

(* The database service, and with it GET /api/credentials/<source>: why not. *)
CollectionCredentials(s) ==
    LET c == GetCredentials(s)
    IN  IF c # Absent THEN [error |-> None, authenticated |-> Complete(c)]
        ELSE IF row[s] # Absent /\ row[s].active THEN [error |-> "undecryptable", authenticated |-> FALSE]
        ELSE [error |-> "missing", authenticated |-> FALSE]
StoredCredentials == {s \in Sources : row[s] # Absent /\ row[s].active}
CountHasCredentials == row["REGTECH"] # Absent /\ row["REGTECH"].active

-----------------------------------------------------------------------------
(* Requests *)

Call(t, r) ==
    /\ call[t].pc = "free"
    /\ t \in Http
    /\ calls < MaxCalls
    /\ calls' = calls + 1
    /\ call' = [call EXCEPT ![t] = r]
    /\ UNCHANGED <<row, appKey, colKey, history>>

Answered(status) == [Nothing EXCEPT !.answer = status]
Saving(op, saves) == [Nothing EXCEPT !.pc = "save", !.op = op, !.saves = saves]

ValidateCredentialUpdate(f) == f.enabled \in BOOLEAN /\ f.interval \in {"hourly", "daily", "weekly"}

(* PUT: with a new password the row is saved; without, what is stored is *)
(* read first.                                                           *)
ManageCredentials(t, f) ==
    LET user == IF f.source = "CLOUDFLARE" /\ f.user = "" THEN "cloudflare-api" ELSE f.user
    IN  Call(t, IF ~ValidateCredentialUpdate(f) \/ user = "" THEN Answered(400)
                ELSE IF f.password \notin {"", Mask}
                THEN Saving("put", <<Save(f.source, user, f.password, f.config, f.enabled, TRUE)>>)
                ELSE [Nothing EXCEPT !.pc = "current", !.op = "put", !.form = [f EXCEPT !.user = user]])

(* The other writers of REGTECH's row: two POSTs of the administration, and *)
(* the panel, which reports success whatever became of it.                  *)
SetRegtechCredentials(t, user, password) ==
    Call(t, IF user = "" \/ password = "" THEN Answered(400)
            ELSE Saving("post", <<Save("REGTECH", user, password, "none", TRUE, TRUE)>>))
ApiSaveCredentials(t, user, password) ==
    Call(t, IF user = "" \/ password = "" THEN Answered(400)
            ELSE Saving("api", <<Save("REGTECH", user, password, "none", TRUE, TRUE)>>))
PanelSaveCredentials(t, user, password) ==
    Call(t, IF user = "" \/ password = "" THEN Answered(200)
            ELSE Saving("panel", <<Save("REGTECH", user, password, "none", TRUE, TRUE)>>))
UpdateRegtechPassword(t, password) ==
    Call(t, IF password = "" THEN Answered(400)
            ELSE [Nothing EXCEPT !.pc = "current", !.op = "password",
                                 !.form = [source |-> "REGTECH", password |-> password]])
InitializeRegtech(t) ==
    Call(t, [Nothing EXCEPT !.pc = "current", !.op = "initialize", !.form = [source |-> "REGTECH"]])
MigrateExistingCredentials(t) ==
    Call(t, [Nothing EXCEPT !.pc = "scan", !.op = "migrate"])
TestConnection(t) ==
    Call(t, [Nothing EXCEPT !.pc = "phase1", !.op = "test"])
TestCredentials(t, s) ==
    Call(t, [Nothing EXCEPT !.pc = "probe", !.op = "probe", !.form = [source |-> s]])

SetActive(t, s, active) ==
    \E ok \in BOOLEAN :
        /\ call[t].pc = "free"
        /\ calls < MaxCalls
        /\ calls' = calls + 1
        /\ row' = IF ok /\ row[s] # Absent THEN [row EXCEPT ![s].active = active] ELSE row
        /\ call' = [call EXCEPT ![t] = Answered(IF ok /\ row[s] # Absent THEN 200 ELSE 404)]
        /\ UNCHANGED <<appKey, colKey, history>>
DeleteCredentials(t, s)   == SetActive(t, s, FALSE)
ActivateCredentials(t, s) == SetActive(t, s, TRUE)

-----------------------------------------------------------------------------
(* Steps of the requests *)

Goes(t, r) == call' = [call EXCEPT ![t] = r]
Same == UNCHANGED <<row, appKey, colKey, calls, history>>

(* What became of a save, by request; a password or an initialization that was *)
(* stored is followed by a connection test.                                    *)
Saved(r) ==
    CASE r.op = "panel" -> Answered(200)
      [] r.op \in {"password", "initialize"} /\ r.failed = 0 -> [Nothing EXCEPT !.pc = "phase1", !.op = r.op]
      [] OTHER -> Answered(IF r.failed = 0 \/ r.op = "migrate" THEN 200 ELSE 500)

(* get_credentials of a request that needs what is stored. *)
ReadCurrent(t) ==
    /\ call[t].pc = "current"
    /\ \E ok \in BOOLEAN :
        LET r == [call[t] EXCEPT !.seen = version]
            c == IF ok THEN GetCredentials(r.form.source) ELSE Absent
            saves == CASE r.op = "put"        -> <<Save(r.form.source, r.form.user, c.password, r.form.config,
                                                        r.form.enabled, FALSE)>>
                       [] r.op = "password"   -> <<Save("REGTECH", c.user, r.form.password, "none", TRUE, TRUE)>>
                       [] r.op = "initialize" -> <<Save("REGTECH", EnvPair.user, EnvPair.password, "none",
                                                        TRUE, TRUE)>>
        IN  Goes(t, IF r.op = "initialize"
                    THEN IF Complete(c) THEN Saved(r)
                         ELSE IF EnvPair = None THEN Answered(500)
                         ELSE [r EXCEPT !.pc = "save", !.saves = saves]
                    ELSE IF c = Absent THEN Answered(IF r.op = "put" THEN 404 ELSE 500)
                    ELSE IF r.op = "put" /\ r.form.source # "CLOUDFLARE" THEN [r EXCEPT !.pc = "select"]
                    ELSE [r EXCEPT !.pc = "save", !.saves = saves])
    /\ Same

SeedUnchecked(t) ==
    /\ call[t].pc = "check"
    /\ Goes(t, IF EnvPair = None THEN Nothing
               ELSE [Nothing EXCEPT !.pc = "save", !.op = "seed", !.seen = version,
                         !.saves = <<Save("REGTECH", EnvPair.user, EnvPair.password, "none", TRUE, FALSE)>>])
    /\ Same

(* At start, in the background: a row with a name and a password is left, *)
(* whether the app can read it or not.                                    *)
SeedRegtechCredentials(t) ==
    /\ call[t].pc = "check"
    /\ \E ok \in BOOLEAN :
        LET r == row["REGTECH"]
            already == r # Absent /\ r.user # "" /\ r.payload.password # ""
        IN  Goes(t, IF EnvPair = None \/ ~ok \/ already THEN Nothing
                    ELSE [Nothing EXCEPT !.pc = "save", !.op = "seed", !.seen = version,
                              !.saves = <<Save("REGTECH", EnvPair.user, EnvPair.password, "none", TRUE, FALSE)>>])
    /\ Same

(* The plain rows are listed, then saved again one by one. *)
ScanPlainRows(t) ==
    /\ call[t].pc = "scan"
    /\ LET plain == {s \in StoredCredentials : ~row[s].encrypted /\ row[s].payload.password # ""}
           saves == {Save(s, row[s].user, row[s].payload.password, row[s].config, TRUE, FALSE) : s \in plain}
       IN  \E list \in SetToSeqs(saves) :
               Goes(t, IF list = <<>> THEN Answered(200)
                       ELSE [call[t] EXCEPT !.pc = "save", !.saves = list, !.seen = version])
    /\ Same

Writes(t, s, given, password) ==
    /\ version' = [version EXCEPT ![s] = @ + 1]
    /\ latest' = IF given THEN [latest EXCEPT ![s] = password] ELSE latest
    /\ overtaken' = [overtaken EXCEPT ![s] = ~given /\ (@ \/ call[t].seen[s] # version[s])]

(* save_credentials: one UPSERT, active whatever the row was. *)
SaveCredentials(t) ==
    /\ call[t].pc = "save"
    /\ LET s == Head(call[t].saves)
           rest == [call[t] EXCEPT !.saves = Tail(@), !.pc = IF Len(call[t].saves) > 1 THEN "save" ELSE "saved"]
           after(r) == IF r.pc = "saved" THEN Saved(r) ELSE r
           incomplete == row[s.source] = Absent \/ "" \in {row[s.source].user, row[s.source].payload.password}
       IN  \/ /\ row' = [row EXCEPT ![s.source] =
                            [user |-> s.user, payload |-> Sealed(s.user, s.password), encrypted |-> TRUE,
                             active |-> TRUE, enabled |-> s.enabled, config |-> s.config]]
              /\ Writes(t, s.source, s.given \/ (call[t].op = "seed" /\ incomplete), s.password)
              /\ Goes(t, after(rest))
           \/ /\ Goes(t, after([rest EXCEPT !.failed = @ + 1]))
              /\ UNCHANGED <<row, history>>
    /\ UNCHANGED <<appKey, colKey, calls>>

(* update_credential_settings: the payload is read ... *)
SelectPayload(t) ==
    /\ call[t].pc = "select"
    /\ \E ok \in BOOLEAN :
        LET s == call[t].form.source
        IN  Goes(t, IF ~ok \/ row[s] = Absent THEN Answered(500)
                    ELSE [call[t] EXCEPT !.pc = "update", !.seen = version,
                                         !.payload = [body |-> row[s].payload, encrypted |-> row[s].encrypted]])
    /\ Same

KeptName(read, user) == read.body

Renamed(read, user) ==
    IF read.encrypted /\ read.body.key = appKey THEN [read.body EXCEPT !.user = user] ELSE read.body

(* ... and written back, with the name of the request in it if it can be *)
(* opened; how the row is marked stays as it is.                         *)
UpdateCredentialSettings(t) ==
    /\ call[t].pc = "update"
    /\ LET f == call[t].form
       IN  \/ /\ row' = [row EXCEPT ![f.source] =
                            [@ EXCEPT !.user = f.user, !.enabled = f.enabled, !.active = TRUE,
                                      !.payload = Renamed(call[t].payload, f.user)]]
              /\ Writes(t, f.source, FALSE, "")
              /\ Goes(t, Answered(200))
           \/ /\ Goes(t, Answered(500))
              /\ UNCHANGED <<row, history>>
    /\ UNCHANGED <<appKey, colKey, calls>>

-----------------------------------------------------------------------------
(* Tests of a connection *)

FormatTestResult(r, code) ==
    [r EXCEPT !.pc = "free", !.op = None, !.code = code, !.collect = (code = "SUCCESS"),
              !.answer = CASE r.op # "test" -> 200
                           [] code = "SUCCESS" -> 200
                           [] code = "NO_CREDENTIALS" -> 404
                           [] code = "COLLECTOR_UNAVAILABLE" -> 503
                           [] OTHER -> 400]

CredentialPhase(t) ==
    /\ call[t].pc = "phase1"
    /\ \E ok \in BOOLEAN :
        LET c == IF ok THEN GetCredentials("REGTECH") ELSE Absent
            bad == [call[t] EXCEPT !.phases.credential = "failed"]
        IN  Goes(t, IF c = Absent THEN FormatTestResult(bad, "NO_CREDENTIALS")
                    ELSE IF ~Complete(c) THEN FormatTestResult(bad, "INCOMPLETE_CREDENTIALS")
                    ELSE [call[t] EXCEPT !.pc = "phase2", !.pair = c, !.phases.credential = "success"])
    /\ Same

HealthIgnored(t) ==
    /\ call[t].pc = "phase2"
    /\ \E health \in {"success", "warning", "failed"} :
        Goes(t, [call[t] EXCEPT !.pc = "phase3", !.phases.health = health])
    /\ Same

(* An answer other than 200 is a warning; no answer ends the test. *)
HealthPhase(t) ==
    /\ call[t].pc = "phase2"
    /\ \E health \in {"success", "warning", "failed"} :
        LET r == [call[t] EXCEPT !.phases.health = health]
        IN  Goes(t, IF health = "failed" THEN FormatTestResult(r, "COLLECTOR_UNAVAILABLE")
                    ELSE [r EXCEPT !.pc = "phase3"])
    /\ Same

AuthenticationPhase(t) ==
    /\ call[t].pc = "phase3"
    /\ \E outcome \in {"success", "failed", "error"} :
        LET p == [call[t].phases EXCEPT !.authentication = outcome,
                                        !.data = IF outcome = "error" THEN @ ELSE outcome]
            code == CASE outcome = "success" -> "SUCCESS"
                      [] outcome = "failed"  -> "AUTH_FAILED"
                      [] outcome = "error"   -> "AUTH_ERROR"
        IN  Goes(t, FormatTestResult([call[t] EXCEPT !.phases = p], code))
    /\ Same

(* POST /collection/credentials/<source>/test: Cloudflare is asked with what  *)
(* the app reads, REGTECH by the collector with what the collector reads.     *)
ProbeConnection(t) ==
    /\ call[t].pc = "probe"
    /\ \E accepted \in BOOLEAN :
        LET c == IF call[t].form.source = "CLOUDFLARE" THEN GetCredentials("CLOUDFLARE")
                 ELSE GetCollectionCredentials
            asked == IF call[t].form.source = "CLOUDFLARE"
                     THEN c # Absent /\ c.password # "" /\ row["CLOUDFLARE"].config = "ids"
                     ELSE c # Absent /\ c.enabled
        IN  Goes(t, [Answered(200) EXCEPT !.pair = IF asked THEN c ELSE Absent,
                                          !.code = IF asked /\ accepted THEN "connected" ELSE "failed"])
    /\ Same

-----------------------------------------------------------------------------
(* Processes *)

(* A restart drops what was under way; the environment may hold another key. *)
RestartApp ==
    /\ calls < MaxCalls
    /\ calls' = calls + 1
    /\ appKey' \in MasterKeys
    /\ call' = [t \in Threads |-> IF t = Seeder THEN [Nothing EXCEPT !.pc = "check"] ELSE Nothing]
    /\ UNCHANGED <<row, colKey, history>>

RestartCollector ==
    /\ calls < MaxCalls
    /\ calls' = calls + 1
    /\ colKey' \in (MasterKeys \cup {None}) \ {colKey}
    /\ UNCHANGED <<row, appKey, call, history>>

CredentialsNext ==
    \/ \E t \in Http :
        \/ \E f \in Forms : ManageCredentials(t, f)
        \/ \E user \in Users, password \in Passwords :
               \/ SetRegtechCredentials(t, user, password)
               \/ ApiSaveCredentials(t, user, password)
               \/ PanelSaveCredentials(t, user, password)
        \/ \E password \in Passwords : UpdateRegtechPassword(t, password)
        \/ InitializeRegtech(t) \/ MigrateExistingCredentials(t) \/ TestConnection(t)
        \/ \E s \in Sources : TestCredentials(t, s) \/ DeleteCredentials(t, s) \/ ActivateCredentials(t, s)
    \/ \E t \in Threads :
        \/ ReadCurrent(t) \/ SeedRegtechCredentials(t) \/ ScanPlainRows(t)
        \/ SaveCredentials(t) \/ SelectPayload(t) \/ UpdateCredentialSettings(t)
        \/ CredentialPhase(t) \/ HealthPhase(t) \/ AuthenticationPhase(t) \/ ProbeConnection(t)
    \/ RestartApp
    \/ RestartCollector

(* Settings and credentials share threads and database only: a behaviour has *)
(* requests of one kind, and the rows of the other kind are absent.          *)
SystemNext ==
    \/ /\ calls = 0
       /\ \A s \in Sources : row[s] = Absent
       /\ SettingsNext
       /\ UNCHANGED credentialVars
    \/ /\ requests = 0 /\ now = 0
       /\ \A k \in Keys : setting[k] = None
       /\ CredentialsNext
       /\ UNCHANGED settingVars

SystemInit == InitSettings /\ InitCredentials

SystemSpec == SystemInit /\ [][SystemNext]_<<settingVars, credentialVars>>

-----------------------------------------------------------------------------
(* Properties *)

(* The stored password is the one that was given last, by a request or, for a *)
(* row without a pair, by the environment, and it is stored the way the row      *)
(* says; only a writer that read the row before the last change restores an   *)
(* older one (update_credential_settings and the seed lock nothing).          *)
PasswordsAreKept ==
    \A s \in Sources :
        row[s] # Absent /\ ~overtaken[s] =>
            /\ row[s].payload.password = latest[s]
            /\ row[s].encrypted <=> row[s].payload.key # None

(* The three readers take the name from two places and the password from one; *)
(* whoever can read a row, with whatever keys and after whatever races, reads *)
(* the same pair.                                                             *)
ReadersAgree ==
    LET app == GetCredentials("REGTECH")
        collector == GetCollectionCredentials
        loaded == GetRegtechCredentials
    IN  /\ Complete(app) /\ collector # Absent =>
               app.user = collector.user /\ app.password = collector.password
        /\ loaded # Absent =>
               /\ collector # Absent
               /\ loaded.user = collector.user /\ loaded.password = collector.password
        /\ Complete(app) /\ appKey = colKey => loaded # Absent

(* The endpoints that tell whether a source is configured agree wherever they *)
(* should: a list and a form on every row, the status and the validation on   *)
(* complete pairs, and a row that one of them hides is reported as unreadable *)
(* rather than as missing.                                                    *)
EndpointsAgree ==
    /\ \A s \in Sources :
           /\ ListCredentials(s) = GetManagedCredentials(s)
           /\ PanelCredentials(s) = AdminCredentials(s)
           /\ ValidateCredentials(s).configured => ListCredentials(s) = ValidateCredentials(s)
           /\ CollectionCredentials(s).authenticated <=> ValidateCredentials(s).configured
           /\ ListCredentials(s).configured => s \in StoredCredentials
           /\ s \in StoredCredentials <=> CollectionCredentials(s).error # "missing"
           /\ CollectionCredentials(s).error = None <=> ListCredentials(s).configured
    /\ CredentialStatus.source = "database" <=> ValidateCredentials("REGTECH").configured
    /\ ValidateCredentials("REGTECH").configured => CountHasCredentials
    /\ LoadCloudflare # "" => ListCredentials("CLOUDFLARE").configured

(* A connection test names what failed: its code is a success exactly when no *)
(* phase failed or was left out, nothing is collected on a failure, and a     *)
(* source is connected only if a process that could read it was let in.       *)
TestsNameTheirFailure ==
    \A t \in Http :
        LET r == call[t]
            marks == {r.phases.credential, r.phases.health, r.phases.authentication, r.phases.data}
        IN  /\ r.pc = "free" /\ r.phases # Pending =>
                   /\ r.code = "SUCCESS" <=> marks \subseteq {"success", "warning"}
                   /\ r.code # "SUCCESS" => marks \cap {"failed", "error"} # {}
            /\ r.collect => r.code = "SUCCESS" /\ Complete(r.pair)
            /\ r.code = "connected" => r.pair # Absent

(* What an administrator is told about a source is so: whether it is        *)
(* configured, and what a connection test came to (collection/*.py).        *)
EndpointsTellTheTruth == EndpointsAgree /\ TestsNameTheirFailure

=============================================================================
