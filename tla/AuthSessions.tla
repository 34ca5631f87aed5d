---------------------------- MODULE AuthSessions ----------------------------
(***************************************************************************)
(* Sessions of administrators: app/core/routes/api/auth_routes.py, the     *)
(* hook of app/core/auth/middleware.py, app/core/auth/security.py and      *)
(* jwt_service.py, app/core/services/auth_state_service.py.                *)
(*                                                                         *)
(* The name, the password hash and the session version of the one          *)
(* administrator are rows of system_settings; a token carries the version  *)
(* it was issued for; Redis counts failed logins and remembers tokens that *)
(* were logged out, both with an expiry.  Worker threads run logins,       *)
(* logouts, rotations and requests against this shared state, one step per *)
(* statement of Redis and one per transaction of PostgreSQL.               *)
(*                                                                         *)
(* A hash is a record of the password it was made from.  Redis expiries    *)
(* and the life of tokens count down with Tick.                            *)
(***************************************************************************)
EXTENDS Integers, FiniteSets

CONSTANTS
    Http,            \* the worker threads of the app
    Clients,         \* addresses that requests come from
    Admin,           \* the name the administrator is stored under
    Names,           \* the names that logins give
    Passwords,
    Weak,            \* the passwords that hash_password refuses
    Default,         \* ADMIN_PASSWORD of the environment, or None
    Tables,          \* what older releases may have left: a password, or None
    Tokens,          \* bound: identifiers of tokens in circulation
    FailureLimit,    \* LOGIN_FAILURE_LIMIT
    LockTicks,       \* LOGIN_LOCK_SECONDS, in ticks
    TokenTicks,      \* the life of a token, in ticks
    None,
    Faults,          \* the kinds of mishap that may happen
    MaxRotations,    \* bound: rotations of a behaviour
    MaxMishaps       \* bound: mishaps of a behaviour

ASSUME HttpAssumption == IsFiniteSet(Http)
ASSUME AdminAssumption == Admin \in Names /\ Default \in Passwords \cup {None}
ASSUME WeakAssumption == Weak \subseteq Passwords
ASSUME LimitAssumption ==
    /\ FailureLimit \in Nat \ {0}
    /\ LockTicks \in Nat \ {0}
    /\ TokenTicks \in Nat \ {0}
    /\ MaxRotations \in Nat
    /\ MaxMishaps \in Nat

VARIABLES
    password,    \* admin_password: None or [hashed, of]
    version,     \* admin_session_version: None or a number
    failures,    \* failed logins by <<name, client>>: [count, ttl]
    account,     \* failed logins by name: [count, ttl]
    tokens,      \* tokens in circulation: None or [version, of, life]
    revoked,     \* ticks for which Redis remembers a logout of each token
    pc,          \* where each thread is
    request,     \* what each thread is asked
    read,        \* the credentials each login has read
    loggedOut,   \* history: the tokens whose logout was answered
    rotations,
    mishaps

stored == <<password, version>>
redis  == <<failures, account, revoked>>
local  == <<pc, request, read>>
vars   == <<stored, redis, tokens, local, loggedOut, rotations, mishaps>>

Hashed(p) == [hashed |-> TRUE, of |-> p]
Plain(p)  == [hashed |-> FALSE, of |-> p]
Password  == {Hashed(p) : p \in Passwords} \cup {Plain(p) : p \in Passwords}
ASSUME TableAssumption == Tables \subseteq Password \cup {None}

Credentials == [password : Password \cup {None}, version : Nat]
NoCount     == [count |-> 0, ttl |-> 0]
Counts      == [count : Nat, ttl : 0 .. LockTicks]
Token       == [version : Nat, of : Passwords, life : 1 .. TokenTicks]

LoginRequest == [kind : {"login"}, name : Names, client : Clients, given : Passwords]
TokenRequest ==
    [kind : {"use"}, token : Tokens, version : Nat, late : BOOLEAN]
    \cup [kind : {"rotate"}, token : Tokens, version : Nat, late : BOOLEAN,
          current : Passwords, new : Passwords]

ASSUME NoneAssumption ==
    /\ None \notin Password /\ None \notin Nat
    /\ None \notin Credentials /\ None \notin Token
    /\ None \notin LoginRequest /\ None \notin TokenRequest

LoginPlaces == {"account", "read", "verify", "count", "countAccount", "upgrade", "clear", "issue"}
TokenPlaces == {"revoked", "version", "admitted"}

TypeOK ==
    /\ password \in Password \cup {None}
    /\ version \in Nat \cup {None}
    /\ failures \in [Names \X Clients -> Counts]
    /\ account \in [Names -> Counts]
    /\ tokens \in [Tokens -> Token \cup {None}]
    /\ revoked \in [Tokens -> 0 .. TokenTicks]
    /\ pc \in [Http -> {"idle"} \cup LoginPlaces \cup TokenPlaces]
    /\ request \in [Http -> LoginRequest \cup TokenRequest \cup {None}]
    /\ read \in [Http -> Credentials \cup {None}]
    /\ \A h \in Http :
           /\ pc[h] = "idle" <=> request[h] = None
           /\ pc[h] \in LoginPlaces <=> request[h] \in LoginRequest
    /\ loggedOut \subseteq Tokens

Init ==
    /\ password \in Tables
    /\ version = None
    /\ failures = [k \in Names \X Clients |-> NoCount]
    /\ account = [n \in Names |-> NoCount]
    /\ tokens = [t \in Tokens |-> None]
    /\ revoked = [t \in Tokens |-> 0]
    /\ pc = [h \in Http |-> "idle"]
    /\ request = [h \in Http |-> None]
    /\ read = [h \in Http |-> None]
    /\ loggedOut = {}
    /\ rotations = 0
    /\ mishaps = 0

-----------------------------------------------------------------------------
(* Requests *)

Mishap(fault) ==
    /\ fault \in Faults
    /\ mishaps < MaxMishaps
    /\ mishaps' = mishaps + 1

Begin(h, place, what) ==
    /\ pc[h] = "idle"
    /\ pc' = [pc EXCEPT ![h] = place]
    /\ request' = [request EXCEPT ![h] = what]

GoTo(h, from, to) ==
    /\ pc[h] = from
    /\ pc' = [pc EXCEPT ![h] = to]
    /\ UNCHANGED <<request, read>>

Answer(h) ==
    /\ pc' = [pc EXCEPT ![h] = "idle"]
    /\ request' = [request EXCEPT ![h] = None]
    /\ read' = [read EXCEPT ![h] = None]

Key(h) == <<request[h].name, request[h].client>>

(* The version a request is measured against when there is no row. *)
CurrentSessionVersion == IF version = None THEN 0 ELSE version

(* is_login_locked: the counter of this name and client, then that of the  *)
(* name alone.                                                             *)
Login(h, name, client, given) ==
    /\ \/ failures[<<name, client>>].count >= FailureLimit /\ UNCHANGED local
       \/ /\ failures[<<name, client>>].count < FailureLimit
          /\ Begin(h, "account", [kind |-> "login", name |-> name,
                                  client |-> client, given |-> given])
          /\ UNCHANGED read
    /\ pc[h] = "idle"
    /\ UNCHANGED <<stored, redis, tokens, loggedOut, rotations, mishaps>>

CheckAccountNever(h) ==
    /\ pc[h] = "account"
    /\ GoTo(h, "account", "read")
    /\ UNCHANGED <<stored, redis, tokens, loggedOut, rotations, mishaps>>

CheckAccount(h) ==
    /\ pc[h] = "account"
    /\ IF account[request[h].name].count < FailureLimit
       THEN GoTo(h, "account", "read")
       ELSE Answer(h)
    /\ UNCHANGED <<stored, redis, tokens, loggedOut, rotations, mishaps>>

(* get_credentials: one transaction under the advisory lock that seeds what *)
(* is missing from the environment.  A default that the policy refuses, or  *)
(* a database that fails, is answered 503.                                  *)
GetCredentialsUnseeded(h) ==
    /\ pc[h] = "read"
    /\ read' = [read EXCEPT ![h] = [password |-> password, version |-> version]]
    /\ pc' = [pc EXCEPT ![h] = "verify"]
    /\ UNCHANGED <<stored, redis, tokens, request, loggedOut, rotations, mishaps>>

GetCredentials(h) ==
    /\ pc[h] = "read"
    /\ IF password = None /\ Default \in Weak
       THEN Answer(h) /\ UNCHANGED stored
       ELSE /\ password' = IF password = None /\ Default # None
                           THEN Hashed(Default) ELSE password
            /\ version' = IF version = None /\ password' # None THEN 1 ELSE version
            /\ read' = [read EXCEPT ![h] = [password |-> password',
                                            version  |-> IF version' = None THEN 0 ELSE version']]
            /\ pc' = [pc EXCEPT ![h] = "verify"]
            /\ UNCHANGED request
    /\ UNCHANGED <<redis, tokens, loggedOut, rotations, mishaps>>

(* verify_password and the comparison of names.  A stored plaintext that   *)
(* matches is replaced by its hash before anything else happens.  Without  *)
(* a configured password nothing is counted: 401.                          *)
VerifyPassword(h) ==
    /\ pc[h] = "verify"
    /\ LET known == read[h].password
           valid == request[h].name = Admin /\ request[h].given = known.of
       IN  IF known = None THEN Answer(h)
           ELSE GoTo(h, "verify", CASE ~valid -> "count"
                                    [] valid /\ known.hashed -> "clear"
                                    [] OTHER -> "upgrade")
    /\ UNCHANGED <<stored, redis, tokens, loggedOut, rotations, mishaps>>

(* increment_with_expiry: the script sets the expiry along with the first  *)
(* count, and never again.                                                 *)
IncrementOrDie(counter) ==
    {[count |-> counter.count + 1,
      ttl   |-> IF counter.count = 0 THEN LockTicks ELSE counter.ttl],
     [count |-> counter.count + 1, ttl |-> counter.ttl]}

Increment(counter) ==
    {[count |-> counter.count + 1,
      ttl   |-> IF counter.count = 0 THEN LockTicks ELSE counter.ttl]}

RecordFailure(h) ==
    /\ pc[h] = "count"
    /\ \E counter \in Increment(failures[Key(h)]) :
           failures' = [failures EXCEPT ![Key(h)] = counter]
    /\ GoTo(h, "count", "countAccount")
    /\ UNCHANGED <<stored, account, revoked, tokens, loggedOut, rotations, mishaps>>

RecordAccountFailure(h) ==
    /\ pc[h] = "countAccount"
    /\ \E counter \in Increment(account[request[h].name]) :
           account' = [account EXCEPT ![request[h].name] = counter]
    /\ Answer(h)
    /\ UNCHANGED <<stored, failures, revoked, tokens, loggedOut, rotations, mishaps>>

(* upgrade_password_hash: the hash replaces the plaintext this login read, *)
(* and nothing else.  Whether it did or not, the login goes on.            *)
UpgradeUnconditionally(h) ==
    /\ pc[h] = "upgrade"
    /\ password' = Hashed(read[h].password.of)
    /\ GoTo(h, "upgrade", "clear")
    /\ UNCHANGED <<version, redis, tokens, loggedOut, rotations, mishaps>>

UpgradePasswordHash(h) ==
    /\ pc[h] = "upgrade"
    /\ password' = IF password = read[h].password
                   THEN Hashed(read[h].password.of) ELSE password
    /\ GoTo(h, "upgrade", "clear")
    /\ UNCHANGED <<version, redis, tokens, loggedOut, rotations, mishaps>>

(* clear_login_failures: both counters in one DEL. *)
ClearFailures(h) ==
    /\ GoTo(h, "clear", "issue")
    /\ failures' = [failures EXCEPT ![Key(h)] = NoCount]
    /\ account' = [account EXCEPT ![request[h].name] = NoCount]
    /\ UNCHANGED <<stored, revoked, tokens, loggedOut, rotations, mishaps>>

(* encode_token with the version of the credentials that were verified, not *)
(* with the version of the moment.                                         *)
IssuedVersionOfTheMoment(h) == CurrentSessionVersion

IssuedVersion(h) == read[h].version

(* Identifiers are unique: one is used again when nobody can meet it. *)
Fresh(t) ==
    /\ tokens[t] = None
    /\ \A h \in Http : pc[h] \in TokenPlaces => request[h].token # t

EncodeToken(h) ==
    /\ pc[h] = "issue"
    /\ \E t \in Tokens :
           /\ Fresh(t)
           /\ tokens' = [tokens EXCEPT ![t] = [version |-> IssuedVersion(h),
                                               of      |-> read[h].password.of,
                                               life    |-> TokenTicks]]
           /\ loggedOut' = loggedOut \ {t}
    /\ Answer(h)
    /\ UNCHANGED <<stored, redis, rotations, mishaps>>

(* Redis or PostgreSQL fails: an unhandled error or a 503 ends the request  *)
(* where it is, with what it has done so far.                               *)
LoginFails(h) ==
    /\ pc[h] \in {"account", "read", "count", "countAccount", "upgrade", "clear"}
    /\ Mishap(IF pc[h] \in {"read", "upgrade"} THEN "database" ELSE "redis")
    /\ Answer(h)
    /\ UNCHANGED <<stored, redis, tokens, loggedOut, rotations>>

-----------------------------------------------------------------------------
(* Requests that carry a token *)

(* resolve_request_token and decode_token: the signature and the life. *)
Present(h, t, what) ==
    /\ tokens[t] # None
    /\ Begin(h, "revoked", what)
    /\ UNCHANGED <<stored, redis, tokens, read, loggedOut, mishaps>>

Use(h, t) ==
    /\ tokens[t] # None
    /\ Present(h, t, [kind |-> "use", token |-> t, version |-> tokens[t].version,
                   late |-> t \in loggedOut])
    /\ UNCHANGED rotations

Rotate(h, t, current, new) ==
    /\ rotations < MaxRotations
    /\ rotations' = rotations + 1
    /\ tokens[t] # None
    /\ Present(h, t, [kind |-> "rotate", token |-> t, version |-> tokens[t].version,
                      late |-> t \in loggedOut, current |-> current, new |-> new])

(* validate_token asks Redis and then PostgreSQL. *)
IsRevoked(h) ==
    /\ pc[h] = "revoked"
    /\ IF revoked[request[h].token] > 0
       THEN Answer(h)
       ELSE GoTo(h, "revoked", "version")
    /\ UNCHANGED <<stored, redis, tokens, loggedOut, rotations, mishaps>>

ValidateVersion(h) ==
    /\ pc[h] = "version"
    /\ IF request[h].version = CurrentSessionVersion
       THEN GoTo(h, "version", "admitted")
       ELSE Answer(h)
    /\ UNCHANGED <<stored, redis, tokens, loggedOut, rotations, mishaps>>

(* The handler behind the hook. *)
Serve(h) ==
    /\ pc[h] = "admitted"
    /\ request[h].kind = "use"
    /\ Answer(h)
    /\ UNCHANGED <<stored, redis, tokens, loggedOut, rotations, mishaps>>

(* rotate_password: the policy first, then one transaction under the        *)
(* advisory lock that verifies the current password and replaces password   *)
(* and version together.                                                    *)
RotateKeepsVersion(h) ==
    /\ pc[h] = "admitted"
    /\ request[h].kind = "rotate"
    /\ IF /\ request[h].new \notin Weak
          /\ password # None
          /\ request[h].current = password.of
       THEN /\ password' = Hashed(request[h].new)
       ELSE UNCHANGED password
    /\ Answer(h)
    /\ UNCHANGED <<version, redis, tokens, loggedOut, rotations, mishaps>>

RotatePassword(h) ==
    /\ pc[h] = "admitted"
    /\ request[h].kind = "rotate"
    /\ IF /\ request[h].new \notin Weak
          /\ password # None
          /\ request[h].current = password.of
       THEN /\ password' = Hashed(request[h].new)
            /\ version' = CurrentSessionVersion + 1
       ELSE UNCHANGED stored
    /\ Answer(h)
    /\ UNCHANGED <<redis, tokens, loggedOut, rotations, mishaps>>

(* logout: decode_token only, then the token is remembered for as long as  *)
(* it could still be presented.                                            *)
RevokeBriefly(t) == 1

RevokeFor(t) == IF tokens[t].life > 1 THEN tokens[t].life ELSE 1

Logout(h, t) ==
    /\ pc[h] = "idle"
    /\ tokens[t] # None
    /\ revoked' = [revoked EXCEPT ![t] = RevokeFor(t)]
    /\ loggedOut' = loggedOut \cup {t}
    /\ UNCHANGED <<stored, failures, account, tokens, local, rotations, mishaps>>

(* Redis or PostgreSQL fails while a token is validated or a password       *)
(* rotated: an unhandled error, or a 503.                                   *)
TokenRequestFails(h) ==
    /\ pc[h] \in TokenPlaces
    /\ pc[h] = "admitted" => request[h].kind = "rotate"
    /\ Mishap(IF pc[h] = "revoked" THEN "redis" ELSE "database")
    /\ Answer(h)
    /\ UNCHANGED <<stored, redis, tokens, loggedOut, rotations>>

-----------------------------------------------------------------------------
(* Time and crashes *)

Less(n) == IF n > 0 THEN n - 1 ELSE 0

Expire(counter) ==
    CASE counter.ttl > 1 -> [counter EXCEPT !.ttl = @ - 1]
      [] counter.ttl = 1 -> NoCount
      [] OTHER -> counter

(* A token whose life is over is no longer of interest to anybody. *)
Tick ==
    /\ failures' = [k \in DOMAIN failures |-> Expire(failures[k])]
    /\ account' = [n \in DOMAIN account |-> Expire(account[n])]
    /\ tokens' = [t \in Tokens |->
                     IF tokens[t] = None \/ tokens[t].life = 1 THEN None
                     ELSE [tokens[t] EXCEPT !.life = @ - 1]]
    /\ revoked' = [t \in Tokens |-> Less(revoked[t])]
    /\ loggedOut' = loggedOut \ {t \in Tokens : tokens'[t] = None}
    /\ UNCHANGED <<stored, local, rotations, mishaps>>

(* The worker dies with its threads; Redis and PostgreSQL stay. *)
Crash ==
    /\ Mishap("crash")
    /\ \E h \in Http : pc[h] # "idle"
    /\ pc' = [h \in Http |-> "idle"]
    /\ request' = [h \in Http |-> None]
    /\ read' = [h \in Http |-> None]
    /\ UNCHANGED <<stored, redis, tokens, loggedOut, rotations>>

-----------------------------------------------------------------------------
(* Specification *)

LoginStep(h) ==
    \/ CheckAccount(h)
    \/ GetCredentials(h)
    \/ VerifyPassword(h)
    \/ RecordFailure(h)
    \/ RecordAccountFailure(h)
    \/ UpgradePasswordHash(h)
    \/ ClearFailures(h)
    \/ EncodeToken(h)
    \/ LoginFails(h)

TokenStep(h) ==
    \/ IsRevoked(h)
    \/ ValidateVersion(h)
    \/ Serve(h)
    \/ RotatePassword(h)
    \/ TokenRequestFails(h)

Arrive(h) ==
    \/ \E n \in Names, c \in Clients, p \in Passwords : Login(h, n, c, p)
    \/ \E t \in Tokens :
           \/ Use(h, t)
           \/ Logout(h, t)
           \/ \E p, q \in Passwords : Rotate(h, t, p, q)

Next ==
    \/ \E h \in Http : Arrive(h) \/ LoginStep(h) \/ TokenStep(h)
    \/ Tick
    \/ Crash

Spec == Init /\ [][Next]_vars

(* Time passes. *)
FairSpec == Spec /\ WF_vars(Tick)

-----------------------------------------------------------------------------
(* Properties *)

(* A token that would be accepted was issued to somebody who knew the       *)
(* password of today: a rotation, also one between the reading of the       *)
(* credentials and the token, or one racing the upgrade of a plaintext,     *)
(* leaves no session of the old password behind (auth_state_service.py).    *)
SessionsKnowThePassword ==
    \A t \in Tokens :
        /\ tokens[t] # None
        /\ tokens[t].version = CurrentSessionVersion
        => password # None /\ tokens[t].of = password.of

(* However many clients guess, the failures counted for one name never      *)
(* exceed the limit by more than the logins that were in flight when it was *)
(* reached (security.py, is_login_locked and record_login_failure).         *)
GuessesAreBounded ==
    \A n \in Names : account[n].count <= FailureLimit - 1 + Cardinality(Http)

(* A request that begins after its token was logged out is not admitted as  *)
(* long as the token lives (security.py, revoke).  (A request that was      *)
(* decoded in the last moment of a token's life and asks Redis after it     *)
(* finds the logout forgotten.)                                             *)
LoggedOutStaysOut ==
    \A h \in Http :
        pc[h] = "admitted" /\ request[h].late => tokens[request[h].token] = None

(* A lock ends without anybody's help (security.py: the expiry comes with   *)
(* the first count, in one script).                                         *)
LocksEnd ==
    \A n \in Names : (account[n].count >= FailureLimit) ~> (account[n].count = 0)

=============================================================================
