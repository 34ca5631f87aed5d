---------------------------- MODULE IpDecisions ----------------------------
(***************************************************************************)
(* Is an address blocked?  BlacklistService.check_blacklist                *)
(* (app/core/services/blacklist_service.py) answers from two Redis keys,   *)
(* whitelist:<ip> and blacklist:<ip>, and from the database when a key is  *)
(* missing.  Four worker threads check; administrators' requests change    *)
(* the tables and then delete the keys (app/core/utils/ip_cache.py); the   *)
(* collector and the expiry jobs change the tables and delete nothing.     *)
(*                                                                         *)
(* Keys, rows and requests of different addresses do not meet, so one      *)
(* address is modelled.  Each access to Redis or to the database is a step. *)
(***************************************************************************)
EXTENDS Integers

CONSTANTS
    Checkers,     \* the worker threads
    CacheTtl,     \* cache_ttl, in ticks
    CheckTicks,   \* assumed: ticks a check lasts at most
    OtherWriters, \* the jobs that change the blacklist and delete no key
    Faults,       \* the kinds of mishap that may happen
    MaxMishaps,   \* bound: mishaps of a behaviour
    MaxChanges    \* bound: database changes of a behaviour

ASSUME TtlAssumption == CacheTtl \in Nat \ {0} /\ CheckTicks \in Nat
ASSUME WritersAssumption == OtherWriters \subseteq {"collector", "expiry"}
ASSUME BoundAssumption == MaxMishaps \in Nat /\ MaxChanges \in Nat

VARIABLES
    (* PostgreSQL *)
    white,         \* is there an active whitelist row
    listed,        \* is there an active blacklist row
    (* Redis *)
    whitelistKey,
    blacklistKey,
    (* the app *)
    caching,       \* redis_client is not None
    writes,        \* requests that have committed and not yet deleted the keys
    pc,            \* where each check is
    seen,          \* what its last query found
    age,           \* ticks since it began
    decision,      \* its answer
    (* environment and history *)
    ago,           \* ticks since a fact last held
    disturbed,     \* has anything but a plain request touched the keys' truth
    mishaps,
    changes

tables  == <<white, listed>>
keys    == <<whitelistKey, blacklistKey>>
checks  == <<pc, seen, age, decision>>
history == <<ago, disturbed>>
bounds  == <<mishaps, changes>>
vars    == <<tables, keys, caching, writes, checks, history, bounds>>

Absent == [value |-> "none", ttl |-> 0]

Key == [value : {"true", "false"}, ttl : 1 .. CacheTtl] \cup {Absent}

(* Longest time between a query and the use of its stored answer: the check *)
(* that asked takes CheckTicks to store it, and it lives for CacheTtl.      *)
Lifetime == CacheTtl + CheckTicks

(* ... and between the query and the decision of the check that used it.    *)
Horizon == Lifetime + CheckTicks

Facts == {"white", "notWhite", "listed", "notListed", "lookupFailed"}

TypeOK ==
    /\ white \in BOOLEAN
    /\ listed \in BOOLEAN
    /\ whitelistKey \in Key
    /\ blacklistKey \in Key
    /\ caching \in BOOLEAN
    /\ writes \in 0 .. MaxChanges
    /\ pc \in [Checkers -> {"idle", "get whitelist", "query whitelist",
                            "set whitelist", "get blacklist",
                            "query blacklist", "set blacklist"}]
    /\ seen \in [Checkers -> BOOLEAN]
    /\ age \in [Checkers -> 0 .. CheckTicks]
    /\ decision \in [Checkers -> {"none", "whitelisted", "blocked", "clean",
                                  "error"}]
    /\ ago \in [Facts -> 0 .. Horizon + 1]
    /\ disturbed \in BOOLEAN
    /\ mishaps \in 0 .. MaxMishaps
    /\ changes \in 0 .. MaxChanges

Holds(fact) ==
    \/ fact = "white" /\ white
    \/ fact = "notWhite" /\ ~white
    \/ fact = "listed" /\ listed
    \/ fact = "notListed" /\ ~listed

Init ==
    /\ white \in BOOLEAN
    /\ listed \in BOOLEAN
    /\ whitelistKey = Absent
    /\ blacklistKey = Absent
    /\ caching \in BOOLEAN
    /\ writes = 0
    /\ pc = [c \in Checkers |-> "idle"]
    /\ seen = [c \in Checkers |-> FALSE]
    /\ age = [c \in Checkers |-> 0]
    /\ decision = [c \in Checkers |-> "none"]
    /\ ago = [fact \in Facts |-> IF Holds(fact) THEN 0 ELSE Horizon + 1]
    /\ disturbed = FALSE
    /\ mishaps = 0
    /\ changes = 0

-----------------------------------------------------------------------------
(* Helpers *)

Mishap(fault) ==
    /\ fault \in Faults
    /\ mishaps < MaxMishaps
    /\ mishaps' = mishaps + 1

GoTo(c, place) ==
    /\ pc' = [pc EXCEPT ![c] = place]
    /\ seen' = [seen EXCEPT ![c] = FALSE]
    /\ UNCHANGED <<age, decision>>

Store(c, place, found) ==
    /\ pc' = [pc EXCEPT ![c] = place]
    /\ seen' = [seen EXCEPT ![c] = found]
    /\ UNCHANGED <<age, decision>>

Decide(c, answer) ==
    /\ pc' = [pc EXCEPT ![c] = "idle"]
    /\ decision' = [decision EXCEPT ![c] = answer]
    /\ seen' = [seen EXCEPT ![c] = FALSE]
    /\ age' = [age EXCEPT ![c] = 0]

(* Mutant: set without an expiry. *)
EntryForever(value) == [value |-> IF value THEN "true" ELSE "false", ttl |-> 0]

(* setex with cache_ttl *)
Entry(value) ==
    [value |-> IF value THEN "true" ELSE "false", ttl |-> CacheTtl]

-----------------------------------------------------------------------------
(* check_blacklist *)

Begin(c) ==
    /\ pc[c] = "idle"
    /\ pc' = [pc EXCEPT ![c] = "get whitelist"]
    /\ decision' = [decision EXCEPT ![c] = "none"]
    /\ UNCHANGED <<tables, keys, caching, writes, seen, age, history, bounds>>

(* A read of Redis that fails counts as a miss. *)
GetWhitelistKey(c) ==
    /\ pc[c] = "get whitelist"
    /\ \/ /\ caching /\ whitelistKey.value = "true"
          /\ Decide(c, "whitelisted")
          /\ UNCHANGED mishaps
       \/ /\ caching /\ whitelistKey.value = "false"
          /\ GoTo(c, "get blacklist")
          /\ UNCHANGED mishaps
       \/ /\ \/ (~caching \/ whitelistKey = Absent) /\ UNCHANGED mishaps
             \/ caching /\ Mishap("redis")
          /\ GoTo(c, "query whitelist")
    /\ UNCHANGED <<tables, keys, caching, writes, history, changes>>

(* Mutant: a failed lookup is remembered as "not whitelisted". *)
QueryWhitelistCachesFailure(c) ==
    /\ pc[c] = "query whitelist"
    /\ \/ /\ Store(c, "set whitelist", white)
          /\ UNCHANGED <<ago, mishaps>>
       \/ /\ Mishap("database")
          /\ ago' = [ago EXCEPT !["lookupFailed"] = 0]
          /\ Store(c, "set whitelist", FALSE)
    /\ UNCHANGED <<tables, keys, caching, writes, disturbed, changes>>

(* A query that fails counts as "not whitelisted", and is not stored. *)
QueryWhitelist(c) ==
    /\ pc[c] = "query whitelist"
    /\ \/ /\ Store(c, "set whitelist", white)
          /\ UNCHANGED <<ago, mishaps>>
       \/ /\ Mishap("database")
          /\ ago' = [ago EXCEPT !["lookupFailed"] = 0]
          /\ GoTo(c, "get blacklist")
    /\ UNCHANGED <<tables, keys, caching, writes, disturbed, changes>>

SetWhitelistKey(c) ==
    /\ pc[c] = "set whitelist"
    /\ \/ /\ caching
          /\ whitelistKey' = Entry(seen[c])
          /\ disturbed' = (disturbed \/ seen[c] # white)
          /\ UNCHANGED mishaps
       \/ /\ \/ ~caching /\ UNCHANGED mishaps
             \/ caching /\ Mishap("redis")
          /\ UNCHANGED <<whitelistKey, disturbed>>
    /\ IF seen[c] THEN Decide(c, "whitelisted") ELSE GoTo(c, "get blacklist")
    /\ UNCHANGED <<tables, blacklistKey, caching, writes, ago, changes>>

GetBlacklistKey(c) ==
    /\ pc[c] = "get blacklist"
    /\ \/ /\ caching /\ blacklistKey # Absent
          /\ Decide(c, IF blacklistKey.value = "true" THEN "blocked" ELSE "clean")
          /\ UNCHANGED mishaps
       \/ /\ \/ (~caching \/ blacklistKey = Absent) /\ UNCHANGED mishaps
             \/ caching /\ Mishap("redis")
          /\ GoTo(c, "query blacklist")
    /\ UNCHANGED <<tables, keys, caching, writes, history, changes>>

QueryBlacklist(c) ==
    /\ pc[c] = "query blacklist"
    /\ \/ /\ Store(c, "set blacklist", listed)
          /\ UNCHANGED mishaps
       \/ /\ Mishap("database")
          /\ Decide(c, "error")
    /\ UNCHANGED <<tables, keys, caching, writes, history, changes>>

SetBlacklistKey(c) ==
    /\ pc[c] = "set blacklist"
    /\ \/ /\ caching
          /\ blacklistKey' = Entry(seen[c])
          /\ disturbed' = (disturbed \/ seen[c] # listed)
          /\ UNCHANGED mishaps
       \/ /\ \/ ~caching /\ UNCHANGED mishaps
             \/ caching /\ Mishap("redis")
          /\ UNCHANGED <<blacklistKey, disturbed>>
    /\ Decide(c, IF seen[c] THEN "blocked" ELSE "clean")
    /\ UNCHANGED <<tables, whitelistKey, caching, writes, ago, changes>>

-----------------------------------------------------------------------------
(* Changes *)

(* The facts that begin to hold with a change of the tables. *)
Update(isWhite, isListed) ==
    /\ <<isWhite, isListed>> # <<white, listed>>
    /\ changes < MaxChanges
    /\ changes' = changes + 1
    /\ white' = isWhite
    /\ listed' = isListed
    /\ ago' = [fact \in Facts |-> IF Holds(fact)' THEN 0 ELSE ago[fact]]

(* An administrator's request - manual and batch add and remove, create,    *)
(* update and delete of a row of either table - commits.                    *)
Commit(isWhite, isListed) ==
    /\ Update(isWhite, isListed)
    /\ isWhite = white \/ isListed = listed
    /\ writes' = writes + 1
    /\ UNCHANGED <<keys, caching, checks, disturbed, mishaps>>

(* Mutant: only the key of the blacklist is deleted. *)
InvalidateBlacklistKey ==
    /\ writes > 0
    /\ writes' = writes - 1
    /\ IF caching THEN blacklistKey' = Absent ELSE UNCHANGED blacklistKey
    /\ disturbed' = (disturbed \/ ~caching)
    /\ UNCHANGED <<tables, whitelistKey, caching, checks, ago, bounds>>

(* invalidate_ip_caches *)
Invalidate ==
    /\ writes > 0
    /\ writes' = writes - 1
    /\ IF caching
       THEN whitelistKey' = Absent /\ blacklistKey' = Absent
       ELSE UNCHANGED keys
    /\ disturbed' = (disturbed \/ ~caching)
    /\ UNCHANGED <<tables, caching, checks, ago, bounds>>

(* Redis does not answer: the request fails after its commit. *)
InvalidateFails ==
    /\ writes > 0 /\ caching
    /\ Mishap("redis")
    /\ writes' = writes - 1
    /\ disturbed' = TRUE
    /\ UNCHANGED <<tables, keys, caching, checks, ago, changes>>

(* The collector's save or nightly cleanup activates or deactivates the      *)
(* row; an expiry job of the app deactivates it.                            *)
ChangeSilently(writer) ==
    /\ writer \in OtherWriters
    /\ writer = "expiry" => listed
    /\ Update(white, ~listed)
    /\ disturbed' = TRUE
    /\ UNCHANGED <<keys, caching, writes, checks, mishaps>>

(* The app process is replaced; the new one connects to Redis or does not. *)
Restart ==
    /\ Mishap("restart")
    /\ caching' \in BOOLEAN
    /\ writes' = 0
    /\ pc' = [c \in Checkers |-> "idle"]
    /\ seen' = [c \in Checkers |-> FALSE]
    /\ age' = [c \in Checkers |-> 0]
    /\ decision' = [c \in Checkers |-> "none"]
    /\ disturbed' = (disturbed \/ writes > 0)
    /\ UNCHANGED <<tables, keys, ago, changes>>

-----------------------------------------------------------------------------
(* Time *)

Expire(key) ==
    IF key.ttl = 1 THEN Absent
    ELSE IF key.ttl > 1 THEN [key EXCEPT !.ttl = key.ttl - 1]
    ELSE key

Tick ==
    /\ \A c \in Checkers : pc[c] # "idle" => age[c] < CheckTicks
    /\ age' = [c \in Checkers |-> IF pc[c] = "idle" THEN 0 ELSE age[c] + 1]
    /\ whitelistKey' = Expire(whitelistKey)
    /\ blacklistKey' = Expire(blacklistKey)
    /\ ago' = [fact \in Facts |->
                 IF Holds(fact) THEN 0
                 ELSE IF ago[fact] <= Horizon THEN ago[fact] + 1
                 ELSE ago[fact]]
    /\ UNCHANGED <<tables, caching, writes, pc, seen, decision, disturbed,
                   bounds>>

Check(c) ==
    \/ GetWhitelistKey(c)
    \/ QueryWhitelist(c)
    \/ SetWhitelistKey(c)
    \/ GetBlacklistKey(c)
    \/ QueryBlacklist(c)
    \/ SetBlacklistKey(c)

Next ==
    \/ \E c \in Checkers : Begin(c) \/ Check(c)
    \/ \E isWhite, isListed \in BOOLEAN : Commit(isWhite, isListed)
    \/ Invalidate
    \/ InvalidateFails
    \/ \E writer \in OtherWriters : ChangeSilently(writer)
    \/ Restart
    \/ Tick

Spec == Init /\ [][Next]_vars

-----------------------------------------------------------------------------
(* Properties *)

Decides(c) == pc[c] # "idle" /\ pc'[c] = "idle"

(* An answer is never older than Lifetime: what it says of the tables was   *)
(* true at some moment that recent, whatever checks raced with whatever     *)
(* changes, failed invalidations and restarts, and although the collector   *)
(* and the expiry jobs delete no key.                                       *)
Recent(answer) ==
    /\ answer = "whitelisted" => ago["white"] <= Lifetime
    /\ answer = "blocked" => ago["listed"] <= Lifetime
    /\ answer = "clean" => ago["notListed"] <= Lifetime

DecisionsAreRecent ==
    [][\A c \in Checkers : Decides(c) => Recent(decision'[c])]_vars

(* The whitelist goes before the blacklist: an address whitelisted for      *)
(* longer than Horizon is blocked by no check, however the two keys and the *)
(* two tables disagree, except by one whose own lookup of the whitelist     *)
(* failed.  In particular no failure outlives its check.                    *)
WhitelistOutlivesFailures ==
    [][\A c \in Checkers : Decides(c) /\ decision'[c] = "blocked" =>
         \/ ago["notWhite"] <= Horizon
         \/ ago["lookupFailed"] <= CheckTicks]_vars

(* As long as only requests change the tables, every request deletes the    *)
(* keys it should, and no check stores an answer that a commit has          *)
(* overtaken, the keys are exact between requests.                          *)
Agrees(key, truth) == key.value # IF truth THEN "false" ELSE "true"

UndisturbedKeysAreExact ==
    ~disturbed /\ writes = 0 =>
        Agrees(whitelistKey, white) /\ Agrees(blacklistKey, listed)

=============================================================================
