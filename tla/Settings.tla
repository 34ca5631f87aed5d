------------------------------- MODULE Settings -------------------------------
(***************************************************************************)
(* The rows of system_settings and the cache in front of them              *)
(* (app/core/services/settings_service.py, routes/api/settings_api.py and  *)
(* routes/api/collection/config.py), used by the threads of one process.   *)
(*                                                                         *)
(* The cache is one dictionary with one timestamp, shared without a lock:  *)
(* a reader looks at the clock, at the dictionary and at the entry one     *)
(* after the other, stores what it read some time before and starts the    *)
(* clock if it finds it stopped; a writer empties the dictionary and stops *)
(* the clock in two steps.  Values are opaque; a conversion that fails keeps   *)
(* the text, so every stored text has a value.                             *)
(***************************************************************************)
EXTENDS Integers, Sequences, FiniteSets, SequencesExt

CONSTANTS
    None,
    Http,        \* threads of the process
    Keys,
    Sensitive,   \* keys with the prefix admin_, left to their own endpoint
    Values,
    Incomplete,  \* an item of a batch without a key or a value
    Malformed,   \* an item of a batch that is no object, or has no text for its key
    Batches,     \* the sets of items that requests name
    Ttl,         \* _cache_ttl
    MaxTime,     \* bound: ticks of a behaviour
    MaxRequests  \* bound: requests of a behaviour

ASSUME SettingsAssumption ==
    /\ Sensitive \subseteq Keys
    /\ Ttl \in Nat \ {0} /\ MaxTime \in Nat /\ MaxRequests \in Nat
    /\ None \notin Nat /\ None # "unnamed"
    /\ Batches \subseteq SUBSET (Keys \cup {Incomplete, Malformed})
    /\ Incomplete \notin Keys /\ Malformed \notin Keys /\ Incomplete # Malformed

VARIABLES
    setting,     \* key -> its row, or None
    cache,       \* _cache: what is remembered, a function of some keys
    stamp,       \* _cache_timestamp, or None
    now,
    up,          \* the database answers
    req,         \* thread -> the request it serves
    requests,
    entry,       \* history: key -> when its entry was stored and whether it lagged behind
    aged         \* history: keys whose entries saw a tick of the clock before it was started

settingVars == <<setting, cache, stamp, now, up, req, requests, entry, aged>>

Times == 0 .. MaxTime
Row   == [value : Values, active : BOOLEAN]
Empty == [k \in {} |-> None]
Free  == [pc |-> "free", op |-> None, asked |-> {}, todo |-> {}, written |-> {}, updated |-> {},
          failed |-> {}, key |-> None, value |-> None, tested |-> None, answer |-> None]

(* What a read of the committed row gives; None is the caller's default. *)
Stored(rows, key) ==
    IF rows[key] # None /\ rows[key].active THEN rows[key].value ELSE None

InitSettings ==
    /\ setting \in [Keys -> {None, [value |-> CHOOSE v \in Values : TRUE, active |-> TRUE]}]
    /\ cache = Empty
    /\ stamp = None
    /\ now = 0
    /\ up = TRUE
    /\ req = [h \in Http |-> Free]
    /\ requests = 0
    /\ entry = Empty
    /\ aged = {}

-----------------------------------------------------------------------------
(* Requests *)

Begin(h, r) ==
    /\ req[h].pc = "free"
    /\ requests < MaxRequests
    /\ requests' = requests + 1
    /\ req' = [req EXCEPT ![h] = r]
    /\ UNCHANGED <<setting, cache, stamp, now, up, entry, aged>>

Says(answer) == [Free EXCEPT !.answer = answer]

IsNeverSensitive(key) == FALSE

IsSensitiveSetting(key) == key \in Sensitive

(* GET /settings/<key>: the first look at the clock of the cache. *)
GetSetting(h, key) ==
    Begin(h, IF IsSensitiveSetting(key) THEN Says("forbidden")
             ELSE [Free EXCEPT !.pc = IF stamp = None THEN "read" ELSE "age", !.key = key])

Writing(op, items, value) ==
    [Free EXCEPT !.pc = "write", !.op = op, !.asked = items, !.todo = items, !.value = value]

(* A change of one setting. *)
Change(h, op, key, value) ==
    Begin(h, IF IsSensitiveSetting(key) THEN Says("forbidden") ELSE Writing(op, {key}, value))

UpdateSetting(h, key, value) == Change(h, "update", key, value)
CreateSetting(h, key, value) == Change(h, "insert", key, value)
DeleteSetting(h, key)        == Change(h, "delete", key, None)

(* A request with an item left goes on; otherwise the answer follows.  A     *)
(* batch lists what was updated and what failed.  An update of the collection *)
(* config means to, but InternalServerError takes no details: the constructor *)
(* raises TypeError, and the answer is a plain 500.                          *)
Finish(r) ==
    IF r.todo # {} THEN [r EXCEPT !.pc = "write", !.key = None]
    ELSE [r EXCEPT !.pc = "free", !.key = None, !.value = None,
                   !.answer = IF r.failed = {} THEN "done"
                              ELSE CASE r.op = "batch"  -> "listed"
                                     [] r.op = "config" -> "unnamed"
                                     [] OTHER           -> "failed"]

(* PUT /settings/batch: the items are taken one by one.  A body names each  *)
(* key once, in any order; one incomplete item stands for all.              *)
BatchUpdateSettings(h, items, value) == Begin(h, Finish(Writing("batch", items, value)))

(* POST /collection/config/update: the keys get the prefix collection_, which *)
(* no sensitive key has; an empty body is refused.                            *)
UpdateCollectionConfig(h, keys, value) ==
    /\ keys # {} /\ keys \subseteq Keys \ Sensitive
    /\ Begin(h, Writing("config", keys, value))

-----------------------------------------------------------------------------
(* get_setting: neither the clock nor the dictionary is read under a lock.  *)

Serves(h, r) == req' = [req EXCEPT ![h] = r]

IsCacheValid == now - stamp < Ttl

(* The second look at the clock; if it was stopped meanwhile, the difference *)
(* of times raises, and the caller gets the default.                         *)
TestAge(h) ==
    /\ req[h].pc = "age"
    /\ Serves(h, IF stamp = None THEN Says("missing")
               ELSE IF IsCacheValid THEN [req[h] EXCEPT !.pc = "member", !.tested = now]
               ELSE [req[h] EXCEPT !.pc = "read"])
    /\ UNCHANGED <<setting, cache, stamp, now, up, requests, entry, aged>>

TestMember(h) ==
    /\ req[h].pc = "member"
    /\ Serves(h, [req[h] EXCEPT !.pc = IF req[h].key \in DOMAIN cache THEN "lookup" ELSE "read"])
    /\ UNCHANGED <<setting, cache, stamp, now, up, requests, entry, aged>>

(* If the dictionary was emptied meanwhile: KeyError, and the default again. *)
LookUp(h) ==
    /\ req[h].pc = "lookup"
    /\ Serves(h, Says(IF req[h].key \in DOMAIN cache THEN "done" ELSE "missing"))
    /\ UNCHANGED <<setting, cache, stamp, now, up, requests, entry, aged>>

(* A missing, deleted or unreadable row gives the default, which is not kept. *)
ReadSetting(h) ==
    /\ req[h].pc = "read"
    /\ LET read == IF up THEN Stored(setting, req[h].key) ELSE None
       IN  Serves(h, IF read = None THEN Says("missing")
                   ELSE [req[h] EXCEPT !.pc = "store", !.value = read])
    /\ UNCHANGED <<setting, cache, stamp, now, up, requests, entry, aged>>

Put(f, k, v) == [x \in DOMAIN f \cup {k} |-> IF x = k THEN v ELSE f[x]]

StoreEntry(h) ==
    /\ req[h].pc = "store"
    /\ LET key == req[h].key
           value == req[h].value
       IN  /\ cache' = Put(cache, key, value)
           /\ entry' = Put(entry, key, [at |-> now, lag |-> value # Stored(setting, key)])
           /\ aged' = aged \ {key}
    /\ Serves(h, [req[h] EXCEPT !.pc = "clock"])
    /\ UNCHANGED <<setting, stamp, now, up, requests>>

RestartClock(h) ==
    /\ req[h].pc = "clock"
    /\ Serves(h, [req[h] EXCEPT !.pc = "stamp"])
    /\ UNCHANGED <<setting, cache, stamp, now, up, requests, entry, aged>>

(* The clock starts with the first entry and is not wound up again. *)
TestClock(h) ==
    /\ req[h].pc = "clock"
    /\ Serves(h, IF stamp = None THEN [req[h] EXCEPT !.pc = "stamp"] ELSE Says("done"))
    /\ UNCHANGED <<setting, cache, stamp, now, up, requests, entry, aged>>

StartClock(h) ==
    /\ req[h].pc = "stamp"
    /\ stamp' = now
    /\ Serves(h, Says("done"))
    /\ UNCHANGED <<setting, cache, now, up, requests, entry, aged>>

-----------------------------------------------------------------------------
(* set_setting, create_setting, delete_setting *)

(* A row may be updated and deleted again after it was deleted; a key can be *)
(* inserted once.                                                            *)
Applies(op, key) == IF op = "insert" THEN setting[key] = None ELSE setting[key] # None
Applied(op, key, value) ==
    CASE op = "delete" -> [setting[key] EXCEPT !.active = FALSE]
      [] op = "insert" -> [value |-> value, active |-> TRUE]
      [] OTHER         -> [setting[key] EXCEPT !.value = value]

(* The item at hand, and the same item given up. *)
Taken(r, item) == [r EXCEPT !.key = item, !.todo = @ \ {item}]
Failed(r)      == Finish([r EXCEPT !.failed = @ \cup {r.key}])

(* A key whose statement fails, or finds no row, is reported; the next follows. *)
WriteSetting(h) ==
    /\ req[h].pc = "write"
    /\ \E key \in req[h].todo \cap Keys :
          LET r == Taken(req[h], key)
          IN  /\ ~IsSensitiveSetting(key)
              /\ \/ /\ up /\ Applies(r.op, key)
                    /\ setting' = [setting EXCEPT ![key] = Applied(r.op, key, r.value)]
                    /\ Serves(h, [r EXCEPT !.pc = "clear", !.written = @ \cup {key}])
                 \/ /\ ~(up /\ Applies(r.op, key))
                    /\ Serves(h, Failed(r))
                    /\ UNCHANGED setting
    /\ UNCHANGED <<cache, stamp, now, up, requests, entry, aged>>

RefuseSilently(h) ==
    /\ req[h].pc = "write"
    /\ \E item \in req[h].todo :
          /\ item = Incomplete \/ IsSensitiveSetting(item)
          /\ Serves(h, Finish(Taken(req[h], item)))
    /\ UNCHANGED <<setting, cache, stamp, now, up, requests, entry, aged>>

(* An item of a batch that is incomplete, or belongs to another endpoint. *)
RefuseItem(h) ==
    /\ req[h].pc = "write"
    /\ \E item \in req[h].todo :
          /\ item = Incomplete \/ IsSensitiveSetting(item)
          /\ Serves(h, Failed(Taken(req[h], item)))
    /\ UNCHANGED <<setting, cache, stamp, now, up, requests, entry, aged>>

(* A malformed item raises: the loop ends, the rest is left, and the answer  *)
(* says nothing of the items before it.                                      *)
AbortBatch(h) ==
    /\ req[h].pc = "write" /\ Malformed \in req[h].todo
    /\ Serves(h, [req[h] EXCEPT !.pc = "free", !.key = None, !.value = None, !.answer = "unnamed"])
    /\ UNCHANGED <<setting, cache, stamp, now, up, requests, entry, aged>>

(* _invalidate_cache, first half: a new, empty dictionary. *)
ClearCache(h) ==
    /\ req[h].pc = "clear"
    /\ cache' = Empty
    /\ entry' = Empty
    /\ aged' = {}
    /\ Serves(h, [req[h] EXCEPT !.pc = "unstamp"])
    /\ UNCHANGED <<setting, stamp, now, up, requests>>

(* Second half: no clock, so that nothing is valid until the next store. *)
ClearStamp(h) ==
    /\ req[h].pc = "unstamp"
    /\ stamp' = None
    /\ Serves(h, Finish([req[h] EXCEPT !.updated = @ \cup {req[h].key}]))
    /\ UNCHANGED <<setting, cache, now, up, requests, entry, aged>>

-----------------------------------------------------------------------------
(* Some thread has yet to start or to stop the clock of the cache. *)
Winding == stamp = None \/ \E h \in Http : req[h].pc \in {"stamp", "unstamp"}

Tick ==
    /\ now < MaxTime
    /\ now' = now + 1
    /\ aged' = IF Winding THEN DOMAIN cache ELSE aged
    /\ UNCHANGED <<setting, cache, stamp, up, req, requests, entry>>

Outage ==
    /\ up' = ~up
    /\ requests < MaxRequests
    /\ requests' = requests + 1
    /\ UNCHANGED <<setting, cache, stamp, now, req, entry, aged>>

SettingsNext ==
    \/ \E h \in Http :
        \/ \E key \in Keys :
               \/ GetSetting(h, key)
               \/ DeleteSetting(h, key)
               \/ \E value \in Values :
                      UpdateSetting(h, key, value) \/ CreateSetting(h, key, value)
        \/ \E items \in Batches, value \in Values :
               BatchUpdateSettings(h, items, value) \/ UpdateCollectionConfig(h, items, value)
        \/ TestAge(h) \/ TestMember(h) \/ LookUp(h)
        \/ ReadSetting(h) \/ StoreEntry(h) \/ TestClock(h) \/ StartClock(h)
        \/ WriteSetting(h) \/ RefuseItem(h) \/ AbortBatch(h)
        \/ ClearCache(h) \/ ClearStamp(h)
    \/ Tick
    \/ Outage

SettingsSpec == InitSettings /\ [][SettingsNext]_settingVars

-----------------------------------------------------------------------------
(* Answers *)

(* What GET /settings shows: the live rows, sensitive keys left out. *)
GetAllSettings(rows) ==
    [k \in {k \in Keys \ Sensitive : Stored(rows, k) # None} |-> Stored(rows, k)]

(* Properties *)

(* What a reader is about to answer from the cache was stored less than the *)
(* time to live before it looked at the clock, and it is what the list shows *)
(* unless the entry's reader lagged behind a commit or the writer is still  *)
(* on its way to the cache.  An entry is older only when a second passed    *)
(* while the clock of the cache was stopped, or a thread was about to start *)
(* or stop it: the clock, started later, counts from then.                  *)
CachedSettingsAreRecent ==
    \A h \in Http :
        LET r == req[h]
        IN  r.pc = "lookup" /\ r.key \in DOMAIN cache =>
                /\ r.key \in aged \/ r.tested - entry[r.key].at < Ttl
                /\ \/ /\ r.key \in DOMAIN GetAllSettings(setting)
                      /\ cache[r.key] = GetAllSettings(setting)[r.key]
                   \/ entry[r.key].lag
                   \/ \E g \in Http : req[g].pc = "clear"

(* A request for several settings is accounted for: each item is updated,   *)
(* failed or left, those it calls updated are the rows it has written, none *)
(* of them left to another endpoint, and success means all of them.  Only   *)
(* an answer that names nothing hides which rows were written: that of a    *)
(* batch with a malformed item, which alone leaves items, and that of an    *)
(* update of the collection config of which a part failed.                  *)
BatchesAreAccountedFor ==
    \A h \in Http :
        LET r == req[h]
        IN  r.pc = "free" =>
                /\ r.asked = r.updated \cup r.failed \cup r.todo
                /\ r.updated = r.written /\ r.updated \cap r.failed = {}
                /\ r.written \cap (Sensitive \cup r.todo) = {}
                /\ r.answer = "done" => r.failed = {} /\ r.todo = {}
                /\ r.todo # {} => r.answer = "unnamed" /\ Malformed \in r.todo
                /\ r.answer = "unnamed" => r.todo # {} \/ (r.op = "config" /\ r.failed # {})

=============================================================================
