------------------------- MODULE AuthSessions_proofs -------------------------
(***************************************************************************)
(* Proofs about AuthSessions, for every number of threads, clients, tokens, *)
(* passwords and rotations, every limit and every set of faults: types, no  *)
(* session outlives its password, failed logins are bounded, and a token    *)
(* that was logged out is not admitted again.                               *)
(***************************************************************************)
EXTENDS AuthSessions, FiniteSetTheorems, TLAPS

-----------------------------------------------------------------------------
(* Which actions change what *)

LEMMA StoredChanges ==
  ASSUME [Next]_vars
  PROVE  \/ UNCHANGED stored
         \/ \E h \in Http : GetCredentials(h) \/ UpgradePasswordHash(h) \/ RotatePassword(h)
  BY DEF Next, Arrive, LoginStep, TokenStep, vars, Login, CheckAccount, VerifyPassword,
         RecordFailure, RecordAccountFailure, ClearFailures, EncodeToken, LoginFails, Use,
         Rotate, Present, IsRevoked, ValidateVersion, Serve, Logout, TokenRequestFails,
         Tick, Crash

LEMMA TokensChange ==
  ASSUME [Next]_vars
  PROVE  \/ UNCHANGED <<tokens, loggedOut, revoked>>
         \/ \E h \in Http : EncodeToken(h)
         \/ \E h \in Http, t \in Tokens : Logout(h, t)
         \/ Tick
  BY DEF Next, Arrive, LoginStep, TokenStep, vars, redis, Login, CheckAccount, GetCredentials,
         VerifyPassword, RecordFailure, RecordAccountFailure, UpgradePasswordHash,
         ClearFailures, LoginFails, Use, Rotate, Present, IsRevoked, ValidateVersion,
         Serve, RotatePassword, TokenRequestFails, Crash

LEMMA CountersChange ==
  ASSUME [Next]_vars
  PROVE  \/ UNCHANGED <<failures, account>>
         \/ \E h \in Http : RecordFailure(h) \/ RecordAccountFailure(h) \/ ClearFailures(h)
         \/ Tick
  BY DEF Next, Arrive, LoginStep, TokenStep, vars, redis, Login, CheckAccount, GetCredentials,
         VerifyPassword, UpgradePasswordHash, EncodeToken, LoginFails, Use, Rotate, Present,
         IsRevoked, ValidateVersion, Serve, RotatePassword, Logout, TokenRequestFails, Crash

-----------------------------------------------------------------------------
(* Types *)

StoredType ==
    /\ password \in Password \cup {None}
    /\ version \in Nat \cup {None}
    /\ password = None => version = None

CountersType ==
    /\ failures \in [Names \X Clients -> Counts]
    /\ account \in [Names -> Counts]

TokensType ==
    /\ tokens \in [Tokens -> Token \cup {None}]
    /\ revoked \in [Tokens -> 0 .. TokenTicks]
    /\ loggedOut \subseteq Tokens

LocalType ==
    /\ pc \in [Http -> {"idle"} \cup LoginPlaces \cup TokenPlaces]
    /\ request \in [Http -> LoginRequest \cup TokenRequest \cup {None}]
    /\ read \in [Http -> Credentials \cup {None}]

(* What a thread serves, and what it has read when it needs it. *)
Suits(place, what, known) ==
    /\ place = "idle" => what = None
    /\ place \in LoginPlaces => what \in LoginRequest
    /\ place \in TokenPlaces => what \in TokenRequest
    /\ place \in {"verify", "upgrade", "clear", "issue"} => known \in Credentials
    /\ place \in {"upgrade", "clear", "issue"} => known.password \in Password

PlaceInv == \A h \in Http : Suits(pc[h], request[h], read[h])

TypeInv == StoredType /\ CountersType /\ TokensType /\ LocalType /\ PlaceInv

LEMMA InitTypeInv == Init => TypeInv
<1> SUFFICES ASSUME Init PROVE TypeInv
  OBVIOUS
<1>1. StoredType
  BY TableAssumption DEF Init, StoredType
<1>2. CountersType
  BY LimitAssumption DEF Init, CountersType, Counts, NoCount
<1>3. TokensType
  BY LimitAssumption DEF Init, TokensType
<1>4. LocalType /\ PlaceInv
  BY DEF Init, LocalType, PlaceInv, Suits, LoginPlaces, TokenPlaces
<1>5. QED
  BY <1>1, <1>2, <1>3, <1>4 DEF TypeInv

LEMMA NextStoredType ==
  ASSUME TypeInv, [Next]_vars
  PROVE  StoredType'
<1> USE DEF TypeInv, StoredType, stored
<1>1. CASE UNCHANGED stored
  BY <1>1
<1>2. ASSUME NEW h \in Http, GetCredentials(h)
      PROVE  StoredType'
  <2>1. Default \in Passwords \cup {None}
    BY AdminAssumption
  <2>2. password' \in Password \cup {None}
    BY <1>2, <2>1 DEF GetCredentials, Hashed, Password
  <2>3. version' \in Nat \cup {None}
    BY <1>2 DEF GetCredentials
  <2>4. password' = None => version' = None
    BY <1>2 DEF GetCredentials
  <2>5. QED
    BY <2>2, <2>3, <2>4
<1>3. ASSUME NEW h \in Http, UpgradePasswordHash(h)
      PROVE  StoredType'
  <2>1. read[h].password \in Password
    BY <1>3 DEF UpgradePasswordHash, PlaceInv, Suits
  <2>2. read[h].password.of \in Passwords
    BY <2>1 DEF Password, Hashed, Plain
  <2>3. Hashed(read[h].password.of) \in Password
    BY <2>2 DEF Password
  <2>4. version' = version
    BY <1>3 DEF UpgradePasswordHash
  <2>5. password' = password \/ password' = Hashed(read[h].password.of)
    BY <1>3 DEF UpgradePasswordHash
  <2>6. password' # password => password = read[h].password
    BY <1>3 DEF UpgradePasswordHash
  <2>7. QED
    BY <2>1, <2>3, <2>4, <2>5, <2>6, NoneAssumption
<1>4. ASSUME NEW h \in Http, RotatePassword(h)
      PROVE  StoredType'
  <2>1. CASE UNCHANGED stored
    BY <2>1
  <2>2. CASE password' = Hashed(request[h].new) /\ version' = CurrentSessionVersion + 1
    <3>1. request[h] \in TokenRequest /\ request[h].kind = "rotate"
      BY <1>4 DEF RotatePassword, PlaceInv, Suits, TokenPlaces
    <3>2. request[h].new \in Passwords
      BY <3>1 DEF TokenRequest
    <3>3. Hashed(request[h].new) \in Password
      BY <3>2 DEF Password
    <3>4. CurrentSessionVersion + 1 \in Nat
      BY DEF CurrentSessionVersion
    <3>5. QED
      BY <2>2, <3>3, <3>4, NoneAssumption
  <2>3. QED
    BY <1>4, <2>1, <2>2 DEF RotatePassword
<1>5. QED
  BY <1>1, <1>2, <1>3, <1>4, StoredChanges

LEMMA NextCountersType ==
  ASSUME TypeInv, [Next]_vars
  PROVE  CountersType'
<1> USE LimitAssumption DEF TypeInv, CountersType
<1>1. NoCount \in Counts
  BY DEF NoCount, Counts
<1>2. ASSUME NEW c \in Counts, NEW d \in Increment(c)
      PROVE  d \in Counts
  BY <1>2 DEF Increment, Counts
<1>3. ASSUME NEW c \in Counts
      PROVE  Expire(c) \in Counts
  BY <1>1 DEF Expire, Counts
<1>4. CASE UNCHANGED <<failures, account>>
  BY <1>4
<1>5. ASSUME NEW h \in Http, RecordFailure(h)
      PROVE  CountersType'
  <2>1. request[h] \in LoginRequest
    BY <1>5 DEF RecordFailure, PlaceInv, Suits, LoginPlaces
  <2>2. Key(h) \in Names \X Clients
    BY <2>1 DEF Key, LoginRequest
  <2>3. PICK c \in Increment(failures[Key(h)]) : failures' = [failures EXCEPT ![Key(h)] = c]
    BY <1>5 DEF RecordFailure
  <2>4. c \in Counts
    BY <1>2, <2>2, <2>3
  <2>5. account' = account
    BY <1>5 DEF RecordFailure
  <2>6. QED
    BY <2>2, <2>3, <2>4, <2>5
<1>6. ASSUME NEW h \in Http, RecordAccountFailure(h)
      PROVE  CountersType'
  <2>1. request[h].name \in Names
    BY <1>6 DEF RecordAccountFailure, PlaceInv, Suits, LoginPlaces, LoginRequest
  <2>2. PICK c \in Increment(account[request[h].name]) :
            account' = [account EXCEPT ![request[h].name] = c]
    BY <1>6 DEF RecordAccountFailure
  <2>3. c \in Counts
    BY <1>2, <2>1, <2>2
  <2>4. failures' = failures
    BY <1>6 DEF RecordAccountFailure
  <2>5. QED
    BY <2>1, <2>2, <2>3, <2>4
<1>7. ASSUME NEW h \in Http, ClearFailures(h)
      PROVE  CountersType'
  BY <1>1, <1>7 DEF ClearFailures
<1>8. CASE Tick
  BY <1>3, <1>8 DEF Tick
<1>9. QED
  BY <1>4, <1>5, <1>6, <1>7, <1>8, CountersChange

LEMMA NextTokensType ==
  ASSUME TypeInv, [Next]_vars
  PROVE  TokensType'
<1> USE LimitAssumption DEF TypeInv, TokensType
<1>1. CASE UNCHANGED <<tokens, loggedOut, revoked>>
  BY <1>1
<1>2. ASSUME NEW h \in Http, EncodeToken(h)
      PROVE  TokensType'
  <2>1. read[h] \in Credentials /\ read[h].password \in Password
    BY <1>2 DEF EncodeToken, PlaceInv, Suits
  <2>2. read[h].version \in Nat /\ read[h].password.of \in Passwords
    BY <2>1 DEF Credentials, Password, Hashed, Plain
  <2>3. [version |-> IssuedVersion(h), of |-> read[h].password.of, life |-> TokenTicks] \in Token
    BY <2>2 DEF Token, IssuedVersion
  <2>4. revoked' = revoked
    BY <1>2 DEF EncodeToken, redis
  <2>5. QED
    BY <1>2, <2>3, <2>4 DEF EncodeToken
<1>3. ASSUME NEW h \in Http, NEW t \in Tokens, Logout(h, t)
      PROVE  TokensType'
  <2>1. tokens[t] \in Token
    BY <1>3 DEF Logout
  <2>2. RevokeFor(t) \in 0 .. TokenTicks
    BY <2>1 DEF RevokeFor, Token
  <2>3. QED
    BY <1>3, <2>2 DEF Logout
<1>4. CASE Tick
  <2>1. ASSUME NEW t \in Tokens
        PROVE  tokens'[t] \in Token \cup {None} /\ revoked'[t] \in 0 .. TokenTicks
    <3>1. CASE tokens[t] = None \/ tokens[t].life = 1
      BY <1>4, <3>1 DEF Tick, Less
    <3>2. CASE tokens[t] # None /\ tokens[t].life # 1
      <4>1. tokens[t] \in Token
        BY <3>2
      <4>2. [tokens[t] EXCEPT !.life = @ - 1] \in Token
        BY <3>2, <4>1 DEF Token
      <4>3. QED
        BY <1>4, <3>2, <4>2 DEF Tick, Less
    <3>3. QED
      BY <3>1, <3>2
  <2>2. tokens' = [t \in Tokens |-> tokens'[t]] /\ revoked' = [t \in Tokens |-> revoked'[t]]
    BY <1>4 DEF Tick
  <2>3. loggedOut' \subseteq Tokens
    BY <1>4 DEF Tick
  <2>4. QED
    BY <2>1, <2>2, <2>3
<1>5. QED
  BY <1>1, <1>2, <1>3, <1>4, TokensChange

(* A step of one thread, as its place, its request and what it has read. *)
Moves(h, place, what, known) ==
    /\ pc' = [pc EXCEPT ![h] = place]
    /\ request' = [request EXCEPT ![h] = what]
    /\ read' = [read EXCEPT ![h] = known]

LEMMA MovesKeepLocalType ==
  ASSUME LocalType, PlaceInv, NEW h \in Http,
         NEW place \in {"idle"} \cup LoginPlaces \cup TokenPlaces,
         NEW what \in LoginRequest \cup TokenRequest \cup {None},
         NEW known \in Credentials \cup {None},
         Moves(h, place, what, known), Suits(place, what, known)
  PROVE  LocalType' /\ PlaceInv'
<1>1. LocalType'
  BY DEF LocalType, Moves
<1>2. ASSUME NEW g \in Http
      PROVE  Suits(pc'[g], request'[g], read'[g])
  <2>1. CASE g = h
    BY <2>1 DEF LocalType, Moves
  <2>2. CASE g # h
    <3>1. pc'[g] = pc[g] /\ request'[g] = request[g] /\ read'[g] = read[g]
      BY <2>2 DEF LocalType, Moves
    <3>2. QED
      BY <3>1 DEF PlaceInv
  <2>3. QED
    BY <2>1, <2>2
<1>3. QED
  BY <1>1, <1>2 DEF PlaceInv

LEMMA AnswersKeepLocalType ==
  ASSUME LocalType, PlaceInv, NEW h \in Http, Answer(h)
  PROVE  LocalType' /\ PlaceInv'
<1>1. Moves(h, "idle", None, None)
  BY DEF Answer, Moves
<1>2. Suits("idle", None, None)
  BY DEF Suits, LoginPlaces, TokenPlaces
<1>3. QED
  BY <1>1, <1>2, MovesKeepLocalType

LEMMA GoingOnKeepsLocalType ==
  ASSUME LocalType, PlaceInv, NEW h \in Http, NEW from, NEW to \in LoginPlaces \cup TokenPlaces,
         GoTo(h, from, to), Suits(to, request[h], read[h])
  PROVE  LocalType' /\ PlaceInv'
<1>1. Moves(h, to, request[h], read[h])
  BY DEF GoTo, Moves, LocalType
<1>2. request[h] \in LoginRequest \cup TokenRequest \cup {None} /\ read[h] \in Credentials \cup {None}
  BY DEF LocalType
<1>3. QED
  BY <1>1, <1>2, MovesKeepLocalType

LEMMA ArrivalsKeepLocalType ==
  ASSUME TypeInv, NEW h \in Http, Arrive(h)
  PROVE  LocalType' /\ PlaceInv'
<1> USE DEF TypeInv
<1>1. ASSUME NEW place \in {"account", "revoked"},
             NEW what \in LoginRequest \cup TokenRequest,
             place = "account" => what \in LoginRequest,
             place = "revoked" => what \in TokenRequest,
             Begin(h, place, what), UNCHANGED read
      PROVE  LocalType' /\ PlaceInv'
  <2>1. Moves(h, place, what, read[h]) /\ read[h] \in Credentials \cup {None}
    BY <1>1 DEF Begin, Moves, LocalType
  <2>2. place \in LoginPlaces \cup TokenPlaces /\ Suits(place, what, read[h])
    BY <1>1 DEF Suits, LoginPlaces, TokenPlaces
  <2>3. QED
    BY <2>1, <2>2, MovesKeepLocalType
<1>2. ASSUME UNCHANGED local
      PROVE  LocalType' /\ PlaceInv'
  BY <1>2 DEF LocalType, PlaceInv, local
<1>3. ASSUME NEW n \in Names, NEW c \in Clients, NEW p \in Passwords, Login(h, n, c, p)
      PROVE  LocalType' /\ PlaceInv'
  <2>1. [kind |-> "login", name |-> n, client |-> c, given |-> p] \in LoginRequest
    BY DEF LoginRequest
  <2>2. QED
    BY <1>1, <1>2, <1>3, <2>1 DEF Login
<1>4. ASSUME NEW t \in Tokens, Use(h, t)
      PROVE  LocalType' /\ PlaceInv'
  <2>1. tokens[t].version \in Nat
    BY <1>4 DEF Use, TokensType, Token
  <2>2. [kind |-> "use", token |-> t, version |-> tokens[t].version,
         late |-> t \in loggedOut] \in TokenRequest
    BY <2>1 DEF TokenRequest
  <2>3. QED
    BY <1>1, <1>4, <2>2 DEF Use, Present
<1>5. ASSUME NEW t \in Tokens, NEW p \in Passwords, NEW q \in Passwords, Rotate(h, t, p, q)
      PROVE  LocalType' /\ PlaceInv'
  <2>1. tokens[t].version \in Nat
    BY <1>5 DEF Rotate, TokensType, Token
  <2>2. [kind |-> "rotate", token |-> t, version |-> tokens[t].version,
         late |-> t \in loggedOut, current |-> p, new |-> q] \in TokenRequest
    BY <2>1 DEF TokenRequest
  <2>3. QED
    BY <1>1, <1>5, <2>2 DEF Rotate, Present
<1>6. ASSUME NEW t \in Tokens, Logout(h, t)
      PROVE  LocalType' /\ PlaceInv'
  BY <1>2, <1>6 DEF Logout
<1>7. QED
  BY <1>3, <1>4, <1>5, <1>6 DEF Arrive

LEMMA LoginsKeepLocalType ==
  ASSUME TypeInv, NEW h \in Http, LoginStep(h)
  PROVE  LocalType' /\ PlaceInv'
<1> USE DEF TypeInv
<1>1. Suits(pc[h], request[h], read[h])
  BY DEF PlaceInv
<1>2. Answer(h) => LocalType' /\ PlaceInv'
  BY AnswersKeepLocalType
<1>3. ASSUME NEW from, NEW to \in LoginPlaces, GoTo(h, from, to), Suits(to, request[h], read[h])
      PROVE  LocalType' /\ PlaceInv'
  BY <1>3, GoingOnKeepsLocalType
<1>4. CASE CheckAccount(h)
  <2>1. pc[h] = "account"
    BY <1>4 DEF CheckAccount
  <2>2. Suits("read", request[h], read[h])
    BY <1>1, <2>1 DEF Suits, LoginPlaces, TokenPlaces
  <2>3. QED
    BY <1>2, <1>3, <1>4, <2>2 DEF CheckAccount, LoginPlaces
<1>5. CASE GetCredentials(h)
  <2>1. CASE Answer(h)
    BY <1>2, <2>1
  <2>2. CASE ~Answer(h)
    <3>1. PICK known \in Credentials : Moves(h, "verify", request[h], known)
      <4>1. StoredType'
        BY NextStoredType DEF Next
      <4>2. [password |-> password', version |-> IF version' = None THEN 0 ELSE version'] \in Credentials
        BY <4>1 DEF StoredType, Credentials
      <4>3. QED
        BY <1>5, <2>2, <4>2 DEF GetCredentials, Moves, LocalType
    <3>2. request[h] \in LoginRequest
      BY <1>1, <1>5 DEF Suits, GetCredentials, LoginPlaces
    <3>3. Suits("verify", request[h], known)
      BY <3>2 DEF Suits, LoginPlaces, TokenPlaces
    <3>4. "verify" \in LoginPlaces
      BY DEF LoginPlaces
    <3>5. QED
      BY <3>1, <3>2, <3>3, <3>4, MovesKeepLocalType
  <2>3. QED
    BY <2>1, <2>2
<1>6. CASE VerifyPassword(h)
  <2>1. pc[h] = "verify"
    BY <1>6 DEF VerifyPassword
  <2>2. read[h] \in Credentials /\ request[h] \in LoginRequest
    BY <1>1, <2>1 DEF Suits, LoginPlaces
  <2>3. CASE read[h].password = None
    BY <1>2, <1>6, <2>3 DEF VerifyPassword
  <2>4. CASE read[h].password # None
    <3>1. read[h].password \in Password
      BY <2>2, <2>4 DEF Credentials
    <3>2. PICK to \in {"count", "clear", "upgrade"} : GoTo(h, "verify", to)
      BY <1>6, <2>4 DEF VerifyPassword
    <3>3. Suits(to, request[h], read[h]) /\ to \in LoginPlaces
      BY <2>2, <3>1, <3>2 DEF Suits, LoginPlaces, TokenPlaces
    <3>4. QED
      BY <1>3, <3>2, <3>3
  <2>5. QED
    BY <2>3, <2>4
<1>7. CASE RecordFailure(h)
  <2>1. Suits("countAccount", request[h], read[h])
    BY <1>1, <1>7 DEF RecordFailure, Suits, LoginPlaces, TokenPlaces
  <2>2. QED
    BY <1>3, <1>7, <2>1 DEF RecordFailure, LoginPlaces
<1>8. CASE RecordAccountFailure(h)
  BY <1>2, <1>8 DEF RecordAccountFailure
<1>9. CASE UpgradePasswordHash(h)
  <2>1. Suits("clear", request[h], read[h])
    BY <1>1, <1>9 DEF UpgradePasswordHash, Suits, LoginPlaces, TokenPlaces
  <2>2. QED
    BY <1>3, <1>9, <2>1 DEF UpgradePasswordHash, LoginPlaces
<1>10. CASE ClearFailures(h)
  <2>1. pc[h] = "clear" /\ GoTo(h, "clear", "issue")
    BY <1>10 DEF ClearFailures, GoTo
  <2>2. Suits("issue", request[h], read[h])
    BY <1>1, <2>1 DEF Suits, LoginPlaces, TokenPlaces
  <2>3. QED
    BY <1>3, <2>1, <2>2 DEF LoginPlaces
<1>11. CASE EncodeToken(h)
  BY <1>2, <1>11 DEF EncodeToken
<1>12. CASE LoginFails(h)
  BY <1>2, <1>12 DEF LoginFails
<1>13. QED
  BY <1>4, <1>5, <1>6, <1>7, <1>8, <1>9, <1>10, <1>11, <1>12 DEF LoginStep

LEMMA NextLocalType ==
  ASSUME TypeInv, [Next]_vars
  PROVE  LocalType' /\ PlaceInv'
<1> USE DEF TypeInv
<1>1. CASE UNCHANGED local
  BY <1>1 DEF LocalType, PlaceInv, local
<1>2. ASSUME NEW h \in Http, TokenStep(h)
      PROVE  LocalType' /\ PlaceInv'
  <2>1. CASE Answer(h)
    BY <2>1, AnswersKeepLocalType
  <2>2. ASSUME NEW from \in TokenPlaces, NEW to \in TokenPlaces, GoTo(h, from, to)
        PROVE  LocalType' /\ PlaceInv'
    <3>1. Suits(to, request[h], read[h])
      BY <2>2 DEF GoTo, PlaceInv, Suits, LoginPlaces, TokenPlaces
    <3>2. QED
      BY <2>2, <3>1, GoingOnKeepsLocalType
  <2>3. CASE IsRevoked(h)
    BY <2>1, <2>2, <2>3 DEF IsRevoked, TokenPlaces
  <2>4. CASE ValidateVersion(h)
    BY <2>1, <2>2, <2>4 DEF ValidateVersion, TokenPlaces
  <2>5. QED
    BY <1>2, <2>1, <2>3, <2>4 DEF TokenStep, Serve, RotatePassword, TokenRequestFails
<1>3. CASE Crash
  BY <1>3 DEF Crash, LocalType, PlaceInv, Suits, LoginPlaces, TokenPlaces
<1>4. CASE Tick \/ UNCHANGED vars
  BY <1>1, <1>4 DEF Tick, vars
<1>5. QED
  BY <1>2, <1>3, <1>4, ArrivalsKeepLocalType, LoginsKeepLocalType DEF Next

LEMMA NextTypeInv ==
  ASSUME TypeInv, [Next]_vars
  PROVE  TypeInv'
  BY NextStoredType, NextCountersType, NextTokensType, NextLocalType DEF TypeInv

(* Every state of the specification has the shapes that the code gives it,  *)
(* and a thread serves the kind of request that its place belongs to.       *)
THEOREM TypeCorrect == Spec => []TypeOK
<1>1. TypeInv => TypeOK
  <2> SUFFICES ASSUME TypeInv PROVE TypeOK
    OBVIOUS
  <2>1. ASSUME NEW h \in Http
        PROVE  /\ pc[h] = "idle" <=> request[h] = None
               /\ pc[h] \in LoginPlaces <=> request[h] \in LoginRequest
    <3>1. Suits(pc[h], request[h], read[h]) /\ pc[h] \in {"idle"} \cup LoginPlaces \cup TokenPlaces
      BY DEF TypeInv, LocalType, PlaceInv
    <3>2. ASSUME NEW r \in LoginRequest, r \in TokenRequest
          PROVE  FALSE
      BY <3>2 DEF LoginRequest, TokenRequest
    <3>3. QED
      BY <3>1, <3>2, NoneAssumption DEF Suits
  <2>2. QED
    BY <2>1 DEF TypeInv, TypeOK, StoredType, CountersType, TokensType, LocalType
<1>2. QED
  BY InitTypeInv, NextTypeInv, <1>1, PTL DEF Spec

-----------------------------------------------------------------------------
(* No session outlives its password *)

(* Who shows version v knew p: an old version, or the password of today. *)
Known(v, p) ==
    /\ v <= CurrentSessionVersion
    /\ v = CurrentSessionVersion => password # None /\ p = password.of

KnownInv ==
    /\ \A h \in Http :
           /\ pc[h] \in {"verify", "upgrade", "clear", "issue"}
           /\ read[h].password # None
           => Known(read[h].version, read[h].password.of)
    /\ \A t \in Tokens :
           tokens[t] # None => Known(tokens[t].version, tokens[t].of)

(* What was known once stays known: a seed, an upgrade and a rotation each  *)
(* keep the password or leave every version in circulation behind.          *)
LEMMA KnownStays ==
  ASSUME TypeInv, [Next]_vars, NEW v \in Nat, NEW p \in Passwords, Known(v, p)
  PROVE  Known(v, p)'
<1> USE DEF TypeInv, StoredType, stored, Known
<1>1. CASE UNCHANGED stored
  BY <1>1 DEF CurrentSessionVersion
<1>2. ASSUME NEW h \in Http, GetCredentials(h)
      PROVE  Known(v, p)'
  <2>1. password # None
    BY NoneAssumption DEF CurrentSessionVersion
  <2>2. password' = password
    BY <1>2, <2>1 DEF GetCredentials
  <2>3. \/ version' = version
        \/ version = None /\ version' = 1
    BY <1>2, <2>1 DEF GetCredentials
  <2>4. \/ CurrentSessionVersion' = CurrentSessionVersion
        \/ CurrentSessionVersion = 0 /\ CurrentSessionVersion' = 1
    BY <2>3, NoneAssumption DEF CurrentSessionVersion
  <2>5. CurrentSessionVersion \in Nat
    BY DEF CurrentSessionVersion
  <2>6. QED
    BY <2>2, <2>4, <2>5
<1>3. ASSUME NEW h \in Http, UpgradePasswordHash(h)
      PROVE  Known(v, p)'
  <2>1. CurrentSessionVersion' = CurrentSessionVersion
    BY <1>3 DEF UpgradePasswordHash, CurrentSessionVersion
  <2>2. password' = password \/ password' = Hashed(password.of)
    BY <1>3 DEF UpgradePasswordHash
  <2>3. password'.of = password.of
    BY <2>2 DEF Hashed
  <2>4. password # None => password' # None
    <3>1. ASSUME NEW q \in Password
          PROVE  Hashed(q.of) \in Password
      <4>1. q.of \in Passwords
        BY DEF Password, Hashed, Plain
      <4>2. QED
        BY <4>1 DEF Password
    <3>2. QED
      BY <2>2, <3>1, NoneAssumption
  <2>5. QED
    BY <2>1, <2>3, <2>4
<1>4. ASSUME NEW h \in Http, RotatePassword(h)
      PROVE  Known(v, p)'
  <2>1. CASE version' = CurrentSessionVersion + 1
    <3>1. CurrentSessionVersion \in Nat
      BY DEF CurrentSessionVersion
    <3>2. CurrentSessionVersion' = CurrentSessionVersion + 1
      BY <2>1, <3>1, NoneAssumption DEF CurrentSessionVersion
    <3>3. QED
      BY <3>1, <3>2
  <2>2. QED
    BY <1>1, <1>4, <2>1 DEF RotatePassword
<1>5. QED
  BY <1>1, <1>2, <1>3, <1>4, StoredChanges

(* Only GetCredentials reads credentials; threads that have read them keep   *)
(* them until they answer.                                                   *)
LEMMA ReadChanges ==
  ASSUME TypeInv, [Next]_vars, NEW h \in Http,
         pc'[h] \in {"verify", "upgrade", "clear", "issue"}
  PROVE  \/ GetCredentials(h)
         \/ read'[h] = read[h] /\ pc[h] \in {"verify", "upgrade", "clear", "issue"}
<1> USE DEF TypeInv, LocalType
<1>1. CASE UNCHANGED local
  BY <1>1 DEF local
<1>2. CASE Crash
  BY <1>2 DEF Crash
<1>3. ASSUME NEW g \in Http, Answer(g)
      PROVE  read'[h] = read[h] /\ pc[h] \in {"verify", "upgrade", "clear", "issue"}
  BY <1>3 DEF Answer
<1>4. ASSUME NEW g \in Http, NEW from, NEW to, GoTo(g, from, to),
             to \in {"verify", "upgrade", "clear", "issue"}
                 => from \in {"verify", "upgrade", "clear", "issue"}
      PROVE  read'[h] = read[h] /\ pc[h] \in {"verify", "upgrade", "clear", "issue"}
  BY <1>4 DEF GoTo
<1>5. ASSUME NEW g \in Http, NEW place \in {"account", "revoked"}, NEW what,
             Begin(g, place, what), UNCHANGED read
      PROVE  read'[h] = read[h] /\ pc[h] \in {"verify", "upgrade", "clear", "issue"}
  BY <1>5 DEF Begin
<1>6. ASSUME NEW g \in Http, Arrive(g)
      PROVE  read'[h] = read[h] /\ pc[h] \in {"verify", "upgrade", "clear", "issue"}
  <2>1. \/ UNCHANGED local
        \/ UNCHANGED read /\ \E place \in {"account", "revoked"} : \E what : Begin(g, place, what)
    BY <1>6 DEF Arrive, Login, Use, Rotate, Present, Logout
  <2>2. CASE UNCHANGED local
    BY <2>2 DEF local
  <2>3. ASSUME NEW place \in {"account", "revoked"}, NEW what, Begin(g, place, what),
               UNCHANGED read
        PROVE  read'[h] = read[h] /\ pc[h] \in {"verify", "upgrade", "clear", "issue"}
    BY <1>5, <2>3
  <2>4. QED
    BY <2>1, <2>2, <2>3
<1>7. ASSUME NEW g \in Http, LoginStep(g), ~ GetCredentials(g)
      PROVE  read'[h] = read[h] /\ pc[h] \in {"verify", "upgrade", "clear", "issue"}
  BY <1>3, <1>4, <1>7 DEF LoginStep, CheckAccount, VerifyPassword, RecordFailure,
     RecordAccountFailure, UpgradePasswordHash, ClearFailures, EncodeToken, LoginFails
<1>8. ASSUME NEW g \in Http, TokenStep(g)
      PROVE  read'[h] = read[h] /\ pc[h] \in {"verify", "upgrade", "clear", "issue"}
  BY <1>3, <1>4, <1>8 DEF TokenStep, IsRevoked, ValidateVersion, Serve, RotatePassword,
     TokenRequestFails
<1>9. ASSUME NEW g \in Http, GetCredentials(g), g # h
      PROVE  read'[h] = read[h] /\ pc[h] \in {"verify", "upgrade", "clear", "issue"}
  BY <1>3, <1>9 DEF GetCredentials
<1>10. QED
  BY <1>1, <1>2, <1>6, <1>7, <1>8, <1>9 DEF Next, Tick, vars

LEMMA NextKnownInv ==
  ASSUME TypeInv, KnownInv, [Next]_vars
  PROVE  KnownInv'
<1>1. TypeInv'
  BY NextTypeInv
<1>2. ASSUME NEW h \in Http, pc'[h] \in {"verify", "upgrade", "clear", "issue"},
             read'[h].password # None
      PROVE  Known(read[h].version, read[h].password.of)'
  <2>1. CASE GetCredentials(h)
    <3>1. read'[h] = [password |-> password',
                      version  |-> IF version' = None THEN 0 ELSE version']
      BY <1>2, <2>1 DEF GetCredentials, Answer, TypeInv, LocalType
    <3>2. version' \in Nat \cup {None} /\ password' # None
      BY <1>1, <1>2, <3>1 DEF TypeInv, StoredType
    <3>3. QED
      BY <3>1, <3>2 DEF Known, CurrentSessionVersion
  <2>2. CASE read'[h] = read[h] /\ pc[h] \in {"verify", "upgrade", "clear", "issue"}
    <3>1. read[h] \in Credentials /\ read[h].password \in Password
      BY <1>2, <2>2, NoneAssumption DEF TypeInv, PlaceInv, Suits, Credentials
    <3>2. read[h].version \in Nat /\ read[h].password.of \in Passwords
      BY <3>1 DEF Credentials, Password, Hashed, Plain
    <3>3. Known(read[h].version, read[h].password.of)
      BY <1>2, <2>2 DEF KnownInv
    <3> DEFINE v == read[h].version
               p == read[h].password.of
    <3>4. v \in Nat /\ p \in Passwords /\ Known(v, p)
      BY <3>2, <3>3
    <3>5. PICK w \in Nat, q \in Passwords : w = v /\ q = p /\ Known(w, q)
      BY <3>4
    <3>6. Known(w, q)'
      BY <3>5, KnownStays
    <3>7. read'[h].version = w /\ read'[h].password.of = q
      BY <2>2, <3>5
    <3>8. QED
      BY <3>6, <3>7 DEF Known
  <2>3. QED
    BY <1>2, <2>1, <2>2, ReadChanges
<1>3. ASSUME NEW t \in Tokens, tokens'[t] # None
      PROVE  Known(tokens[t].version, tokens[t].of)'
  <2>1. CASE /\ tokens[t] # None
             /\ tokens'[t].version = tokens[t].version
             /\ tokens'[t].of = tokens[t].of
    <3>1. PICK w \in Nat, q \in Passwords :
              w = tokens[t].version /\ q = tokens[t].of /\ Known(w, q)
      BY <2>1 DEF TypeInv, TokensType, Token, KnownInv
    <3>2. Known(w, q)'
      BY <3>1, KnownStays
    <3>3. QED
      BY <2>1, <3>1, <3>2 DEF Known
  <2>2. ASSUME NEW h \in Http, EncodeToken(h), tokens'[t] # tokens[t]
        PROVE  Known(tokens[t].version, tokens[t].of)'
    <3>1. /\ pc[h] = "issue"
          /\ tokens'[t].version = read[h].version
          /\ tokens'[t].of = read[h].password.of
      BY <2>2 DEF EncodeToken, IssuedVersion, TypeInv, TokensType
    <3>2. read[h] \in Credentials /\ read[h].password \in Password
      BY <3>1 DEF TypeInv, PlaceInv, Suits
    <3>3. Known(read[h].version, read[h].password.of)
      BY <3>1, <3>2, NoneAssumption DEF KnownInv
    <3>4. UNCHANGED stored
      BY <2>2 DEF EncodeToken
    <3>5. QED
      BY <3>1, <3>3, <3>4 DEF Known, CurrentSessionVersion, stored
  <2>3. ASSUME Tick
        PROVE  /\ tokens[t] # None
               /\ tokens'[t].version = tokens[t].version
               /\ tokens'[t].of = tokens[t].of
    <3>1. tokens[t] # None /\ tokens'[t] = [tokens[t] EXCEPT !.life = @ - 1]
      BY <1>3, <2>3 DEF Tick
    <3>2. tokens[t] \in Token
      BY <3>1 DEF TypeInv, TokensType
    <3>3. QED
      BY <3>1, <3>2 DEF Token
  <2>4. UNCHANGED tokens => tokens'[t] = tokens[t]
    OBVIOUS
  <2>5. QED
    BY <1>3, <2>1, <2>2, <2>3, <2>4, TokensChange DEF Logout
<1>4. QED
  BY <1>2, <1>3 DEF KnownInv

(* A token that would be accepted was issued to somebody who knew the       *)
(* password of today, in every state: KnownInv says the same of the logins  *)
(* that have read the credentials and not yet issued the token.             *)
THEOREM OnlyTodaysPassword == Spec => []SessionsKnowThePassword
<1>1. Init => KnownInv
  BY DEF Init, KnownInv
<1>2. KnownInv => SessionsKnowThePassword
  BY DEF KnownInv, SessionsKnowThePassword, Known
<1>3. QED
  BY InitTypeInv, NextTypeInv, NextKnownInv, <1>1, <1>2, PTL DEF Spec

-----------------------------------------------------------------------------
(* However many clients guess *)

(* The logins that may still be counted although the lock was reached. *)
Counting == {"read", "verify", "count", "countAccount"}

InFlight(n) == {h \in Http : pc[h] \in Counting /\ request[h].name = n}

GuessInv ==
    \A n \in Names :
        account[n].count + Cardinality(InFlight(n)) <= FailureLimit - 1 + Cardinality(Http)

(* A login comes among those only past the check of the account. *)
LEMMA InFlightChanges ==
  ASSUME TypeInv, [Next]_vars, NEW h \in Http, pc'[h] \in Counting
  PROVE  /\ request'[h] = request[h]
         /\ \/ pc[h] \in Counting
            \/ account[request[h].name].count < FailureLimit /\ UNCHANGED account
<1> USE DEF TypeInv, LocalType, Counting
<1> DEFINE Goal ==
      /\ request'[h] = request[h]
      /\ \/ pc[h] \in Counting
         \/ account[request[h].name].count < FailureLimit /\ UNCHANGED account
<1> SUFFICES Goal
  OBVIOUS
<1>1. ASSUME UNCHANGED local
      PROVE  Goal
  BY <1>1 DEF local
<1>2. CASE Crash
  BY <1>2 DEF Crash
<1>3. ASSUME NEW g \in Http, Answer(g)
      PROVE  Goal
  BY <1>3 DEF Answer
<1>4. ASSUME NEW g \in Http, NEW from, NEW to, GoTo(g, from, to),
             to \in Counting => from \in Counting
      PROVE  Goal
  BY <1>4 DEF GoTo
<1>5. ASSUME NEW g \in Http, NEW place \in {"account", "revoked"}, NEW what,
             Begin(g, place, what)
      PROVE  Goal
  BY <1>5 DEF Begin
<1>6. ASSUME NEW g \in Http, CheckAccount(g)
      PROVE  Goal
  <2>1. CASE Answer(g)
    BY <1>3, <2>1
  <2>2. CASE account[request[g].name].count < FailureLimit /\ GoTo(g, "account", "read")
    BY <1>6, <2>2 DEF CheckAccount, GoTo, redis
  <2>3. QED
    BY <1>6, <2>1, <2>2 DEF CheckAccount
<1>7. ASSUME NEW g \in Http, GetCredentials(g)
      PROVE  Goal
  <2>1. CASE Answer(g)
    BY <1>3, <2>1
  <2>2. CASE pc[g] = "read" /\ pc' = [pc EXCEPT ![g] = "verify"] /\ UNCHANGED request
    BY <2>2
  <2>3. QED
    BY <1>7, <2>1, <2>2 DEF GetCredentials
<1> HIDE DEF Goal
<1>8. ASSUME NEW g \in Http, LoginStep(g)
      PROVE  Goal
  <2>1. CASE VerifyPassword(g)
    <3>1. Answer(g) \/ \E to : GoTo(g, "verify", to)
      BY <2>1 DEF VerifyPassword
    <3>2. QED
      BY <1>3, <1>4, <3>1
  <2>2. QED
    BY <1>3, <1>4, <1>6, <1>7, <1>8, <2>1 DEF LoginStep, RecordFailure,
       RecordAccountFailure, UpgradePasswordHash, ClearFailures, EncodeToken, LoginFails
<1>9. ASSUME NEW g \in Http, TokenStep(g)
      PROVE  Goal
  BY <1>3, <1>4, <1>9 DEF TokenStep, IsRevoked, ValidateVersion, Serve, RotatePassword,
     TokenRequestFails
<1>10. ASSUME NEW g \in Http, Arrive(g)
      PROVE  Goal
  <2>1. \/ UNCHANGED local
        \/ \E place \in {"account", "revoked"} : \E what : Begin(g, place, what)
    BY <1>10 DEF Arrive, Login, Use, Rotate, Present, Logout
  <2>2. QED
    BY <1>1, <1>5, <2>1
<1>11. QED
  BY <1>1, <1>2, <1>8, <1>9, <1>10 DEF Next, Tick, vars, Goal

LEMMA NextGuessInv ==
  ASSUME TypeInv, GuessInv, [Next]_vars
  PROVE  GuessInv'
<1> SUFFICES ASSUME NEW n \in Names
             PROVE  account'[n].count + Cardinality(InFlight(n)')
                        <= FailureLimit - 1 + Cardinality(Http)
  BY DEF GuessInv
<1>1. TypeInv'
  BY NextTypeInv
<1>2. /\ IsFiniteSet(InFlight(n)) /\ IsFiniteSet(InFlight(n)')
      /\ Cardinality(InFlight(n)) \in Nat /\ Cardinality(InFlight(n)') \in Nat
      /\ Cardinality(InFlight(n)') <= Cardinality(Http) /\ Cardinality(Http) \in Nat
  <2>1. InFlight(n) \subseteq Http /\ InFlight(n)' \subseteq Http
    BY DEF InFlight
  <2>2. QED
    BY <2>1, HttpAssumption, FS_Subset, FS_CardinalityType
<1>3. account[n].count \in Nat /\ account'[n].count \in Nat /\ FailureLimit \in Nat
  BY <1>1, LimitAssumption DEF TypeInv, CountersType, Counts
<1>4. account[n].count + Cardinality(InFlight(n)) <= FailureLimit - 1 + Cardinality(Http)
  BY DEF GuessInv
<1>5. CASE \E h \in Http : pc'[h] \in Counting /\ pc[h] \notin Counting /\ request'[h].name = n
  <2>1. account[n].count < FailureLimit /\ account' = account
    BY <1>5, InFlightChanges
  <2>2. QED
    BY <1>2, <1>3, <2>1
<1>6. CASE ~ \E h \in Http : pc'[h] \in Counting /\ pc[h] \notin Counting /\ request'[h].name = n
  <2>1. InFlight(n)' \subseteq InFlight(n)
    BY <1>6, InFlightChanges DEF InFlight
  <2>2. Cardinality(InFlight(n)') <= Cardinality(InFlight(n))
    BY <1>2, <2>1, FS_Subset
  <2>3. CASE account'[n].count <= account[n].count
    BY <1>2, <1>3, <1>4, <2>2, <2>3
  <2>4. ASSUME NEW h \in Http, RecordAccountFailure(h), request[h].name = n
        PROVE  account'[n].count + Cardinality(InFlight(n)')
                   <= account[n].count + Cardinality(InFlight(n))
    <3>1. account'[n].count = account[n].count + 1
      BY <2>4 DEF RecordAccountFailure, Increment, TypeInv, CountersType, Counts
    <3>2. h \in InFlight(n)
      BY <2>4 DEF RecordAccountFailure, InFlight, Counting
    <3>3. pc'[h] = "idle"
      BY <2>4 DEF RecordAccountFailure, Answer, TypeInv, LocalType
    <3>4. InFlight(n)' \subseteq InFlight(n) \ {h}
      BY <2>1, <3>3 DEF InFlight, Counting
    <3>5. Cardinality(InFlight(n) \ {h}) = Cardinality(InFlight(n)) - 1
      BY <1>2, <3>2, FS_RemoveElement
    <3>6. IsFiniteSet(InFlight(n) \ {h})
      BY <1>2, FS_Subset
    <3>7. Cardinality(InFlight(n)') <= Cardinality(InFlight(n) \ {h})
      BY <3>4, <3>6, FS_Subset
    <3>8. QED
      BY <1>2, <1>3, <3>1, <3>5, <3>7
  <2>5. ASSUME NEW h \in Http, RecordAccountFailure(h), request[h].name # n
        PROVE  account'[n].count <= account[n].count
    BY <1>3, <2>5 DEF RecordAccountFailure, TypeInv, CountersType
  <2>6. ASSUME NEW h \in Http, ClearFailures(h)
        PROVE  account'[n].count <= account[n].count
    BY <1>3, <2>6 DEF ClearFailures, NoCount, TypeInv, CountersType
  <2>7. ASSUME Tick
        PROVE  account'[n].count <= account[n].count
    <3>1. account[n] \in Counts /\ account'[n] = Expire(account[n])
      BY <2>7 DEF Tick, TypeInv, CountersType
    <3>2. QED
      BY <1>3, <3>1 DEF Expire, Counts, NoCount
  <2>8. ASSUME NEW h \in Http, RecordFailure(h)
        PROVE  account'[n].count <= account[n].count
    BY <1>3, <2>8 DEF RecordFailure
  <2>9. ASSUME UNCHANGED account
        PROVE  account'[n].count <= account[n].count
    BY <1>3, <2>9
  <2>10. QED
    BY <1>2, <1>3, <1>4, <2>3, <2>4, <2>5, <2>6, <2>7, <2>8, <2>9, CountersChange
<1>7. QED
  BY <1>5, <1>6

(* The failures counted for one name exceed the limit by no more than the   *)
(* threads of the app: each login in flight has passed the check of the     *)
(* account and can be counted once.                                         *)
THEOREM FewGuesses == Spec => []GuessesAreBounded
<1>1. Init => GuessInv
  <2> SUFFICES ASSUME Init, NEW n \in Names
               PROVE  account[n].count + Cardinality(InFlight(n))
                          <= FailureLimit - 1 + Cardinality(Http)
    BY DEF GuessInv
  <2>1. InFlight(n) = {}
    BY DEF Init, InFlight, Counting
  <2>2. account[n].count = 0
    BY DEF Init, NoCount
  <2>3. QED
    BY <2>1, <2>2, HttpAssumption, LimitAssumption, FS_EmptySet, FS_CardinalityType
<1>2. TypeInv /\ GuessInv => GuessesAreBounded
  <2> SUFFICES ASSUME TypeInv, GuessInv, NEW n \in Names
               PROVE  account[n].count <= FailureLimit - 1 + Cardinality(Http)
    BY DEF GuessesAreBounded
  <2>1. InFlight(n) \subseteq Http
    BY DEF InFlight
  <2>2. Cardinality(InFlight(n)) \in Nat /\ Cardinality(Http) \in Nat
    BY <2>1, HttpAssumption, FS_Subset, FS_CardinalityType
  <2>3. account[n].count \in Nat
    BY DEF TypeInv, CountersType, Counts
  <2>4. account[n].count + Cardinality(InFlight(n)) <= FailureLimit - 1 + Cardinality(Http)
    BY DEF GuessInv
  <2>5. QED
    BY <2>2, <2>3, <2>4, LimitAssumption
<1>3. QED
  BY InitTypeInv, NextTypeInv, NextGuessInv, <1>1, <1>2, PTL DEF Spec

-----------------------------------------------------------------------------
(* Logged out stays out *)

(* Redis remembers a logout for as long as the token lives; a request that  *)
(* began after it meets the memory, or the token is no longer alive.        *)
Late(h) == request[h].late

LogoutInv ==
    /\ \A t \in loggedOut : tokens[t] # None /\ revoked[t] >= tokens[t].life
    /\ \A h \in Http :
           pc[h] = "revoked" /\ Late(h)
               => tokens[request[h].token] = None \/ request[h].token \in loggedOut
    /\ \A h \in Http :
           pc[h] \in {"version", "admitted"} /\ Late(h) => tokens[request[h].token] = None

LEMMA TokenPlacesChange ==
  ASSUME TypeInv, [Next]_vars, NEW h \in Http, pc'[h] \in TokenPlaces
  PROVE  \/ /\ request'[h] = request[h]
            /\ \/ pc'[h] = pc[h]
               \/ IsRevoked(h)
               \/ pc[h] \in {"version", "admitted"} /\ pc'[h] \in {"version", "admitted"}
         \/ \E t \in Tokens :
                /\ tokens[t] # None
                /\ pc'[h] = "revoked"
                /\ request'[h].token = t
                /\ request'[h].late = (t \in loggedOut)
                /\ UNCHANGED <<tokens, loggedOut>>
<1> USE DEF TypeInv, LocalType, TokenPlaces
<1> DEFINE Same == /\ request'[h] = request[h]
                   /\ \/ pc'[h] = pc[h]
                      \/ IsRevoked(h)
                      \/ pc[h] \in {"version", "admitted"} /\ pc'[h] \in {"version", "admitted"}
           New == \E t \in Tokens :
                      /\ tokens[t] # None
                      /\ pc'[h] = "revoked"
                      /\ request'[h].token = t
                      /\ request'[h].late = (t \in loggedOut)
                      /\ UNCHANGED <<tokens, loggedOut>>
<1> SUFFICES Same \/ New
  OBVIOUS
<1>1. ASSUME UNCHANGED local
      PROVE  Same
  BY <1>1 DEF local
<1>2. CASE Crash
  BY <1>2 DEF Crash
<1>3. ASSUME NEW g \in Http, Answer(g)
      PROVE  Same
  BY <1>3 DEF Answer
<1>4. ASSUME NEW g \in Http, NEW from, NEW to \in LoginPlaces, GoTo(g, from, to)
      PROVE  Same
  BY <1>4 DEF GoTo, LoginPlaces
<1>5. ASSUME NEW g \in Http, TokenStep(g)
      PROVE  Same
  <2>1. CASE IsRevoked(g) /\ ~ Answer(g)
    BY <2>1 DEF IsRevoked, GoTo
  <2>2. CASE ValidateVersion(g) /\ ~ Answer(g)
    BY <2>2 DEF ValidateVersion, GoTo
  <2>3. QED
    BY <1>3, <1>5, <2>1, <2>2 DEF TokenStep, Serve, RotatePassword, TokenRequestFails
<1>6. ASSUME NEW g \in Http, LoginStep(g)
      PROVE  Same
  <2>1. CASE GetCredentials(g) /\ ~ Answer(g)
    BY <2>1 DEF GetCredentials
  <2>2. CASE VerifyPassword(g) /\ ~ Answer(g)
    <3>1. PICK to \in LoginPlaces : GoTo(g, "verify", to)
      BY <2>2 DEF VerifyPassword, LoginPlaces
    <3>2. QED
      BY <1>4, <3>1
  <2>3. CASE CheckAccount(g) \/ RecordFailure(g) \/ UpgradePasswordHash(g) \/ ClearFailures(g)
    <3>1. Answer(g) \/ \E from : \E to \in LoginPlaces : GoTo(g, from, to)
      BY <2>3 DEF CheckAccount, RecordFailure, UpgradePasswordHash, ClearFailures, LoginPlaces
    <3>2. QED
      BY <1>3, <1>4, <3>1
  <2>4. QED
    BY <1>3, <1>6, <2>1, <2>2, <2>3 DEF LoginStep, RecordAccountFailure, EncodeToken, LoginFails
<1>7. ASSUME NEW g \in Http, Arrive(g)
      PROVE  Same \/ New
  <2>1. CASE UNCHANGED local
    BY <1>1, <2>1
  <2>2. ASSUME NEW n \in Names, NEW c \in Clients, NEW p \in Passwords, Login(g, n, c, p)
        PROVE  Same
    <3>1. CASE \E what : Begin(g, "account", what)
      BY <3>1 DEF Begin
    <3>2. QED
      BY <1>1, <2>2, <3>1 DEF Login
  <2>3. ASSUME NEW t \in Tokens, NEW what, Begin(g, "revoked", what),
               tokens[t] # None, UNCHANGED <<tokens, loggedOut>>,
               what.token = t, what.late = (t \in loggedOut)
        PROVE  Same \/ New
    <3>1. pc' = [pc EXCEPT ![g] = "revoked"] /\ request' = [request EXCEPT ![g] = what]
      BY <2>3 DEF Begin
    <3>2. g # h => Same
      BY <3>1
    <3>3. g = h => pc'[h] = "revoked" /\ request'[h] = what
      BY <3>1
    <3>4. g = h => New
      BY <2>3, <3>3
    <3>5. QED
      BY <3>2, <3>4
  <2>4. ASSUME NEW t \in Tokens, Use(g, t)
        PROVE  Same \/ New
    BY <2>3, <2>4 DEF Use, Present
  <2>5. ASSUME NEW t \in Tokens, NEW p \in Passwords, NEW q \in Passwords, Rotate(g, t, p, q)
        PROVE  Same \/ New
    BY <2>3, <2>5 DEF Rotate, Present
  <2>6. QED
    BY <1>7, <2>1, <2>2, <2>4, <2>5 DEF Arrive, Logout
<1> HIDE DEF Same, New
<1>8. QED
  BY <1>1, <1>2, <1>5, <1>6, <1>7 DEF Next, Tick, vars

(* A token is only ever forgotten, and its identifier reused only when      *)
(* nobody can meet it; only its end takes a token out of the logged-out.    *)
LEMMA TokensStay ==
  ASSUME TypeInv, LogoutInv, [Next]_vars, NEW h \in Http,
         pc[h] \in TokenPlaces, NEW t \in Tokens, request[h].token = t
  PROVE  /\ tokens[t] = None => tokens'[t] = None
         /\ t \in loggedOut => tokens'[t] = None \/ t \in loggedOut'
<1>1. ASSUME NEW g \in Http, EncodeToken(g)
      PROVE  tokens'[t] = tokens[t] /\ (t \in loggedOut => t \in loggedOut')
  BY <1>1 DEF EncodeToken, Fresh, TypeInv, TokensType
<1>2. QED
  BY <1>1, TokensChange DEF Logout, Tick

LEMMA NextLogoutInv ==
  ASSUME TypeInv, LogoutInv, [Next]_vars
  PROVE  LogoutInv'
<1>1. ASSUME NEW t \in loggedOut'
      PROVE  tokens'[t] # None /\ revoked'[t] >= tokens'[t].life
  <2> USE DEF TypeInv, TokensType
  <2>1. CASE UNCHANGED <<tokens, loggedOut, revoked>>
    BY <1>1, <2>1 DEF LogoutInv
  <2>2. ASSUME NEW h \in Http, EncodeToken(h)
        PROVE  tokens'[t] # None /\ revoked'[t] >= tokens'[t].life
    BY <1>1, <2>2 DEF EncodeToken, LogoutInv, redis
  <2>3. ASSUME NEW h \in Http, NEW u \in Tokens, Logout(h, u)
        PROVE  tokens'[t] # None /\ revoked'[t] >= tokens'[t].life
    <3>1. CASE t = u
      <4>1. tokens'[t] \in Token /\ revoked'[t] = RevokeFor(t) /\ tokens' = tokens
        BY <2>3, <3>1 DEF Logout
      <4>2. revoked'[t] >= tokens'[t].life
        BY <4>1, LimitAssumption DEF RevokeFor, Token
      <4>3. QED
        BY <4>1, <4>2, NoneAssumption
    <3>2. CASE t # u
      BY <1>1, <2>3, <3>2 DEF Logout, LogoutInv
    <3>3. QED
      BY <3>1, <3>2
  <2>4. CASE Tick
    <3>1. t \in loggedOut /\ t \in Tokens /\ tokens'[t] # None
      BY <1>1, <2>4 DEF Tick
    <3>2. tokens[t] \in Token /\ tokens[t].life # 1 /\ tokens'[t] = [tokens[t] EXCEPT !.life = @ - 1]
      BY <2>4, <3>1 DEF Tick
    <3>3. revoked[t] >= tokens[t].life /\ revoked[t] \in Nat
      BY <3>1, LimitAssumption DEF LogoutInv
    <3>4. revoked'[t] = revoked[t] - 1
      BY <2>4, <3>1, <3>2, <3>3, LimitAssumption DEF Tick, Less, Token
    <3>5. tokens'[t].life = tokens[t].life - 1
      BY <3>2 DEF Token
    <3>6. QED
      BY <3>1, <3>2, <3>3, <3>4, <3>5, LimitAssumption DEF Token
  <2>5. QED
    BY <2>1, <2>2, <2>3, <2>4, TokensChange
<1>2. ASSUME NEW h \in Http, pc'[h] \in TokenPlaces, request'[h].late
      PROVE  /\ pc'[h] = "revoked" =>
                    tokens'[request'[h].token] = None \/ request'[h].token \in loggedOut'
             /\ pc'[h] \in {"version", "admitted"} => tokens'[request'[h].token] = None
  <2>1. ASSUME NEW t \in Tokens, pc'[h] = "revoked", request'[h].token = t,
               request'[h].late = (t \in loggedOut), UNCHANGED <<tokens, loggedOut>>
        PROVE  /\ tokens'[request'[h].token] = None \/ request'[h].token \in loggedOut'
               /\ pc'[h] \notin {"version", "admitted"}
    BY <1>2, <2>1
  <2>2. ASSUME request'[h] = request[h], pc[h] \in TokenPlaces,
               \/ pc'[h] = pc[h]
               \/ IsRevoked(h)
               \/ pc[h] \in {"version", "admitted"} /\ pc'[h] \in {"version", "admitted"}
        PROVE  /\ pc'[h] = "revoked" =>
                      tokens'[request'[h].token] = None \/ request'[h].token \in loggedOut'
               /\ pc'[h] \in {"version", "admitted"} => tokens'[request'[h].token] = None
    <3>1. PICK t \in Tokens : request[h].token = t
      BY <2>2 DEF TypeInv, PlaceInv, Suits, TokenRequest
    <3>2. /\ tokens[t] = None => tokens'[t] = None
          /\ t \in loggedOut => tokens'[t] = None \/ t \in loggedOut'
      BY <2>2, <3>1, TokensStay
    <3>3. /\ pc[h] = "revoked" => tokens[t] = None \/ t \in loggedOut
          /\ pc[h] \in {"version", "admitted"} => tokens[t] = None
      BY <1>2, <2>2, <3>1 DEF LogoutInv, Late
    <3>4. ASSUME IsRevoked(h), pc'[h] # pc[h]
          PROVE  tokens[t] = None
      <4>1. pc[h] = "revoked" /\ ~ (revoked[t] > 0)
        BY <1>2, <3>1, <3>4 DEF IsRevoked, Answer, TypeInv, LocalType, TokenPlaces
      <4>2. t \notin loggedOut
        BY <4>1, LimitAssumption, NoneAssumption DEF LogoutInv, TypeInv, TokensType, Token
      <4>3. QED
        BY <3>3, <4>1, <4>2
    <3>5. QED
      BY <1>2, <2>2, <3>1, <3>2, <3>3, <3>4 DEF TokenPlaces
  <2>3. QED
    <3>1. CASE request'[h] = request[h] /\ pc[h] \in TokenPlaces
      <4>1. QED
        BY <1>2, <2>1, <2>2, <3>1, TokenPlacesChange
    <3>2. CASE ~ (request'[h] = request[h] /\ pc[h] \in TokenPlaces)
      BY <1>2, <2>1, <3>2, TokenPlacesChange DEF IsRevoked, TokenPlaces
    <3>3. QED
      BY <3>1, <3>2
<1>3. QED
  BY <1>1, <1>2 DEF LogoutInv, Late, TokenPlaces

(* A request that begins after its token was logged out is not admitted     *)
(* while the token lives.                                                   *)
THEOREM NotAdmittedAgain == Spec => []LoggedOutStaysOut
<1>1. Init => LogoutInv
  BY DEF Init, LogoutInv
<1>2. LogoutInv => LoggedOutStaysOut
  BY DEF LogoutInv, LoggedOutStaysOut, Late
<1>3. QED
  BY InitTypeInv, NextTypeInv, NextLogoutInv, <1>1, <1>2, PTL DEF Spec

=============================================================================
