------------------------------- MODULE Monitoring -------------------------------
(***************************************************************************)
(* What the app counts about itself: the errors it answers                 *)
(* (errors/handlers.py, monitoring/error_metrics.py), the requests it      *)
(* serves (monitoring/metrics.py) and the traffic of a cache               *)
(* (monitoring/cache_metrics.py, utils/cache_utils.py).                    *)
(*                                                                         *)
(* Threads serve requests; a request may be refused by a hook that runs    *)
(* before the one that counts it.  An error is recorded under a lock, in   *)
(* steps.  The reports (/api/monitoring/...) are operators on what is      *)
(* recorded.  CacheManager and @cached have no caller in the app: the      *)
(* cache is what they would do for two callers.  Sizes, latencies, texts   *)
(* and the shares in per cent are left out.                                *)
(***************************************************************************)
EXTENDS Integers, FiniteSets, FiniteSetsExt, SequencesExt

CONSTANTS
    Nil, Threads, Endpoints,
    ApiErrors, HttpExceptions, Bugs,  \* classes of exceptions
    StatusOf,      \* exception -> the status it carries; a bug is answered with 500
    HookErrors,    \* those that the early hooks raise (CSRF, rate limit)
    Keys, PrefixOf, \* keys of the cache, and the prefix of each
    CacheTtl,
    RingSize,      \* maxlen of a ring of events: 1000 errors, 10000 operations
    ErrorLimit, CacheLimit, TopLimit, \* what a report may give at most: 200, 500 and 50
    MaxRequests, MaxTime \* bounds: requests or calls of the cache, and ticks, of a behaviour

NotFound == "NotFound"   \* the one HTTP exception with a handler of its own
Exceptions == ApiErrors \cup HttpExceptions \cup Bugs
Statuses == {200, 401, 500, 503} \cup {StatusOf[x] : x \in ApiErrors \cup HttpExceptions}
KeyPrefixes == {PrefixOf[k] : k \in Keys}

(* The classes of exceptions exclude each other; Nil is nothing else.       *)
ASSUME MonitoringAssumption ==
    /\ \A S \in {Threads, Endpoints, Keys} : IsFiniteSet(S)
    /\ \A S \in {ApiErrors, HttpExceptions, Bugs} : IsFiniteSet(S) /\ Nil \notin S
    /\ ApiErrors \cap HttpExceptions = {} /\ (ApiErrors \cup HttpExceptions) \cap Bugs = {}
    /\ NotFound \in HttpExceptions /\ HookErrors \subseteq HttpExceptions
    /\ Nil \notin Threads
    /\ {RingSize, ErrorLimit, CacheLimit, TopLimit} \subseteq Nat \ {0}
    /\ {CacheTtl, MaxRequests, MaxTime} \subseteq Nat

VARIABLES
    subject,       \* what a behaviour is about: "web" or "cache"
    now, served,
    work,          \* thread -> what it is doing
    lock,          \* _metrics_lock of the collector in use, or Nil
    errors,        \* ErrorMetricsCollector
    httpRequests,  \* http_requests_total: status -> count
    notFounds,     \* blacklist_errors_total
    cacheOps,      \* CacheMetricsCollector
    store,         \* Redis: key -> the ticks its value is good for, or Nil
    away,          \* does Redis refuse
    answered       \* history: of the errors raised, and of the answers of early hooks, the
                   \* number per status

webVars == <<errors, httpRequests, notFounds, answered>>
cacheVars == <<cacheOps, store, away>>
vars == <<subject, now, served, work, lock, webVars, cacheVars>>

NoCount(S) == [x \in S |-> 0]
Plus(f, x) == [f EXCEPT ![x] = @ + 1]
Free == [pc |-> "idle", endpoint |-> Nil, error |-> Nil, status |-> Nil, started |-> FALSE]

Init ==
    /\ subject \in {"web", "cache"}
    /\ now = 0 /\ served = 0
    /\ work = [t \in Threads |-> Free]
    /\ lock = Nil
    /\ errors = [ring |-> <<>>, byType |-> NoCount(Exceptions), byEndpoint |-> NoCount(Endpoints),
                 byStatus |-> NoCount(Statuses), total |-> 0]
    /\ httpRequests = NoCount(Statuses) /\ notFounds = 0
    /\ cacheOps = [ring |-> <<>>, hits |-> NoCount(KeyPrefixes), misses |-> NoCount(KeyPrefixes),
                   found |-> 0, missed |-> 0, sets |-> 0, deletes |-> 0, errors |-> 0]
    /\ store = [k \in Keys |-> Nil]
    /\ away = FALSE
    /\ answered = [raised |-> NoCount(Statuses), early |-> NoCount(Statuses)]

In(t, pc) == work[t].pc = pc
Becomes(t, w) == work' = [work EXCEPT ![t] = w]

-----------------------------------------------------------------------------
(* Requests *)

Arrive(t, e) ==
    /\ In(t, "idle")
    /\ served < MaxRequests
    /\ served' = served + 1
    /\ Becomes(t, [Free EXCEPT !.pc = "hooks", !.endpoint = e])
    /\ UNCHANGED <<now, lock, webVars, cacheVars>>

(* The hook that wants a session answers itself; CSRF and rate limit raise.   *)
HookRefuses(t) ==
    /\ In(t, "hooks")
    /\ \/ Becomes(t, [work[t] EXCEPT !.pc = "answering", !.status = 401])
       \/ \E x \in HookErrors : Becomes(t, [work[t] EXCEPT !.pc = "raised", !.error = x])
    /\ UNCHANGED <<now, served, lock, webVars, cacheVars>>

(* The last hook notes the time; without it the request is not counted.       *)
BeforeRequest(t) ==
    /\ In(t, "hooks")
    /\ Becomes(t, [work[t] EXCEPT !.pc = "route", !.started = TRUE])
    /\ UNCHANGED <<now, served, lock, webVars, cacheVars>>

(* A route answers, also with an error of its own making, or raises.          *)
Route(t) ==
    /\ In(t, "route")
    /\ \/ \E s \in {200, 503} : Becomes(t, [work[t] EXCEPT !.pc = "answering", !.status = s])
       \/ \E x \in Exceptions : Becomes(t, [work[t] EXCEPT !.pc = "raised", !.error = x])
    /\ UNCHANGED <<now, served, lock, webVars, cacheVars>>

-----------------------------------------------------------------------------
(* Errors *)

AnswerOf(x) == IF x \in Bugs THEN 500 ELSE StatusOf[x]

RecordedAsBugs(x) == IF x \in HttpExceptions THEN StatusOf[x] ELSE 500

RecordedStatus(x) == IF x \in Bugs THEN 500 ELSE StatusOf[x]

(* The handler of 404 is more specific than that of HTTP exceptions: an       *)
(* unknown address is counted apart and recorded nowhere.                     *)
HandleNotFound(t) ==
    /\ In(t, "raised")
    /\ work[t].error = NotFound
    /\ notFounds' = notFounds + 1
    /\ Becomes(t, [work[t] EXCEPT !.pc = "answering", !.status = AnswerOf(NotFound)])
    /\ UNCHANGED <<now, served, lock, errors, httpRequests, answered, cacheVars>>

Handling(t, x) ==
    /\ In(t, "raised")
    /\ work[t].error = x
    /\ lock = Nil
    /\ lock' = t
    /\ Becomes(t, [work[t] EXCEPT !.pc = "record", !.status = AnswerOf(x)])
    /\ UNCHANGED <<now, served, webVars, cacheVars>>

HandleApiError(t) == \E x \in ApiErrors : Handling(t, x)
HandleHttpException(t) == \E x \in HttpExceptions \ {NotFound} : Handling(t, x)
HandleGenericException(t) == \E x \in Bugs : Handling(t, x)

Recent(ring, event) ==
    LET longer == Append(ring, event)
    IN  IF Len(longer) > RingSize THEN Tail(longer) ELSE longer

RecordErrorUnlocked(t) ==
    /\ In(t, "record")
    /\ errors' = [errors EXCEPT
           !.ring = Recent(@, [at |-> now, type |-> work[t].error, endpoint |-> work[t].endpoint]),
           !.byType = Plus(@, work[t].error)]
    /\ lock' = Nil
    /\ Becomes(t, [work[t] EXCEPT !.pc = "recorded"])
    /\ UNCHANGED <<now, served, httpRequests, notFounds, answered, cacheVars>>

(* record_error: the event and its type, then the other counters.             *)
RecordError(t) ==
    /\ In(t, "record")
    /\ errors' = [errors EXCEPT
           !.ring = Recent(@, [at |-> now, type |-> work[t].error, endpoint |-> work[t].endpoint]),
           !.byType = Plus(@, work[t].error)]
    /\ Becomes(t, [work[t] EXCEPT !.pc = "recorded"])
    /\ UNCHANGED <<now, served, lock, httpRequests, notFounds, answered, cacheVars>>

CountError(t) ==
    /\ In(t, "recorded")
    /\ errors' = [errors EXCEPT
           !.byEndpoint = Plus(@, work[t].endpoint),
           !.byStatus = Plus(@, RecordedStatus(work[t].error)),
           !.total = @ + 1]
    /\ lock' = Nil
    /\ Becomes(t, [work[t] EXCEPT !.pc = "answering"])
    /\ UNCHANGED <<now, served, httpRequests, notFounds, answered, cacheVars>>

AfterRequest(t) ==
    /\ In(t, "answering")
    /\ LET s == work[t].status
       IN  /\ httpRequests' = IF work[t].started THEN Plus(httpRequests, s) ELSE httpRequests
           /\ answered' = [raised |-> IF work[t].error = Nil THEN answered.raised
                                      ELSE Plus(answered.raised, s),
                           early |-> IF work[t].started THEN answered.early
                                     ELSE Plus(answered.early, s)]
    /\ Becomes(t, Free)
    /\ UNCHANGED <<now, served, lock, errors, notFounds, cacheVars>>

-----------------------------------------------------------------------------
(* The cache: one call is a command to Redis and, after it, its record. *)

Does(t, op, k) == [Free EXCEPT !.pc = op, !.endpoint = k]

(* @cached: what is not found is computed and stored.                         *)
Get(t, k) ==
    /\ In(t, "idle")
    /\ served < MaxRequests
    /\ served' = served + 1
    /\ Becomes(t, Does(t, IF away THEN "lost" ELSE IF store[k] # Nil THEN "hit" ELSE "miss", k))
    /\ UNCHANGED <<now, lock, webVars, cacheVars>>

Cached(t) ==
    /\ In(t, "compute")
    /\ Becomes(t, [work[t] EXCEPT !.pc = IF away THEN "error" ELSE "set"])
    /\ store' = IF away THEN store ELSE [store EXCEPT ![work[t].endpoint] = CacheTtl]
    /\ UNCHANGED <<now, served, lock, webVars, cacheOps, away>>

Delete(t, k) ==
    /\ In(t, "idle")
    /\ served < MaxRequests
    /\ served' = served + 1
    /\ Becomes(t, Does(t, IF away THEN "error" ELSE "delete", k))
    /\ store' = IF away THEN store ELSE [store EXCEPT ![k] = Nil]
    /\ UNCHANGED <<now, lock, webVars, cacheOps, away>>

ClearPattern(p) ==
    /\ ~away
    /\ \E k \in Keys : store[k] # Nil /\ PrefixOf[k] = p
    /\ store' = [k \in Keys |-> IF PrefixOf[k] = p THEN Nil ELSE store[k]]
    /\ UNCHANGED <<now, served, work, lock, webVars, cacheOps, away>>

Event(t) == [at |-> now, type |-> work[t].pc, endpoint |-> Nil]

RecordHit(t) ==
    /\ In(t, "hit")
    /\ cacheOps' = [cacheOps EXCEPT !.ring = Recent(@, Event(t)), !.found = @ + 1,
                                    !.hits = Plus(@, PrefixOf[work[t].endpoint])]
    /\ Becomes(t, Free)
    /\ UNCHANGED <<now, served, lock, webVars, store, away>>

RecordMiss(t) ==
    /\ In(t, "miss")
    /\ cacheOps' = [cacheOps EXCEPT !.ring = Recent(@, Event(t)), !.missed = @ + 1,
                                    !.misses = Plus(@, PrefixOf[work[t].endpoint])]
    /\ Becomes(t, [work[t] EXCEPT !.pc = "compute"])
    /\ UNCHANGED <<now, served, lock, webVars, store, away>>

RecordSet(t) ==
    /\ In(t, "set")
    /\ cacheOps' = [cacheOps EXCEPT !.ring = Recent(@, Event(t)), !.sets = @ + 1]
    /\ Becomes(t, Free)
    /\ UNCHANGED <<now, served, lock, webVars, store, away>>

RecordDelete(t) ==
    /\ In(t, "delete")
    /\ cacheOps' = [cacheOps EXCEPT !.ring = Recent(@, Event(t)), !.deletes = @ + 1]
    /\ Becomes(t, Free)
    /\ UNCHANGED <<now, served, lock, webVars, store, away>>

(* A value that could not be looked up is computed as well.                   *)
RecordCacheError(t) ==
    /\ work[t].pc \in {"lost", "error"}
    /\ cacheOps' = [cacheOps EXCEPT !.errors = @ + 1]
    /\ Becomes(t, IF In(t, "lost") THEN [work[t] EXCEPT !.pc = "compute"] ELSE Free)
    /\ UNCHANGED <<now, served, lock, webVars, store, away>>

RedisGoesAway ==
    /\ away' = ~away
    /\ UNCHANGED <<now, served, work, lock, webVars, cacheOps, store>>

-----------------------------------------------------------------------------
Tick ==
    /\ now < MaxTime
    /\ now' = now + 1
    /\ store' = [k \in Keys |-> IF store[k] \in {Nil, 1} THEN Nil ELSE store[k] - 1]
    /\ UNCHANGED <<served, work, lock, webVars, cacheOps, away>>

WebNext ==
    \E t \in Threads :
        \/ \E e \in Endpoints : Arrive(t, e)
        \/ HookRefuses(t) \/ BeforeRequest(t) \/ Route(t)
        \/ HandleNotFound(t) \/ HandleApiError(t) \/ HandleHttpException(t) \/ HandleGenericException(t)
        \/ RecordError(t) \/ CountError(t) \/ AfterRequest(t)

CacheNext ==
    \/ \E t \in Threads :
        \/ \E k \in Keys : Get(t, k) \/ Delete(t, k)
        \/ Cached(t)
        \/ RecordHit(t) \/ RecordMiss(t) \/ RecordSet(t) \/ RecordDelete(t) \/ RecordCacheError(t)
    \/ \E p \in KeyPrefixes : ClearPattern(p)
    \/ RedisGoesAway

MonitoringNext ==
    /\ \/ subject = "web" /\ WebNext
       \/ subject = "cache" /\ CacheNext
       \/ Tick
    /\ UNCHANGED subject

MonitoringSpec == Init /\ [][MonitoringNext]_vars

-----------------------------------------------------------------------------
(* The reports *)

(* The newest limit events; the slice [-limit:] gives all of them for 0 and   *)
(* leaves the oldest out for less.                                            *)
Oldest(events, limit) == SubSeq(events, 1, Min({limit, Len(events)}))

Newest(events, limit) ==
    SubSeq(events, IF limit > 0 THEN Max({1, Len(events) - limit + 1}) ELSE 1 - limit, Len(events))

Matching(ring, type, endpoint) ==
    {i \in DOMAIN ring : /\ type = Nil \/ ring[i].type = type
                         /\ endpoint = Nil \/ ring[i].endpoint = endpoint}

(* A set of positions, in increasing order.                                   *)
InOrder(S) == [k \in 1 .. Cardinality(S) |-> CHOOSE i \in S : Cardinality({j \in S : j <= i}) = k]

GetRecent(ring, type, endpoint, limit) ==
    LET given == Newest(InOrder(Matching(ring, type, endpoint)), limit)
    IN  [k \in DOMAIN given |-> ring[given[k]]]

GetRecentErrors(type, endpoint, limit) ==
    IF limit \in 1 .. ErrorLimit THEN GetRecent(errors.ring, type, endpoint, limit) ELSE Nil

GetCacheOperations(type, endpoint, limit) ==
    GetRecent(cacheOps.ring, type, endpoint, Min({limit, CacheLimit}))

(* get_error_trends, get_cache_trends: the clock is read after the events     *)
(* were copied; the buckets begin at the start of the window, the last may    *)
(* reach beyond now.  The cache's buckets show hits and misses only, its      *)
(* total all operations.                                                      *)
InClosedBucket(e, start, bucket) == start <= e.at /\ e.at <= start + bucket

InBucket(e, start, bucket) == start <= e.at /\ e.at < start + bucket

Within(ring, start) == {i \in DOMAIN ring : ring[i].at >= start}

ShownEvents(ring, types, start) == {i \in Within(ring, start) : ring[i].type \in types}

Trends(ring, types, clock, window, bucket) ==
    LET start == clock - window
        starts == {s \in start .. clock - 1 : (s - start) % bucket = 0}
    IN  [buckets |-> [s \in starts |->
                         Cardinality({i \in ShownEvents(ring, types, start) : InBucket(ring[i], s, bucket)})],
         total   |-> Cardinality(Within(ring, start))]

GetErrorTrends(clock, window, bucket) ==
    IF bucket \in 1 .. window THEN Trends(errors.ring, Exceptions, clock, window, bucket) ELSE Nil

GetCacheTrends(clock, window, bucket) ==
    Trends(cacheOps.ring, {"hit", "miss"}, clock, window, Max({bucket, 1}))

(* Keys that were counted, the most counted first, ties in any order: the     *)
(* answers a report may give.  The slice [:limit] drops the last ones for     *)
(* less than 0.                                                               *)
Sliced(s, limit) == SubSeq(s, 1, IF limit >= 0 THEN Min({limit, Len(s)}) ELSE Len(s) + limit)

Counted(f) == {x \in DOMAIN f : f[x] > 0}

LeastCounted(f, limit) ==
    {Sliced(s, limit) :
        s \in {s \in SetToSeqs(Counted(f)) : \A i, j \in DOMAIN s : i < j => f[s[i]] <= f[s[j]]}}

Top(f, limit) ==
    {Sliced(s, limit) :
        s \in {s \in SetToSeqs(Counted(f)) : \A i, j \in DOMAIN s : i < j => f[s[i]] >= f[s[j]]}}

GetTopErrors(by, limit) ==
    IF limit \in 1 .. TopLimit
    THEN Top(IF by = "type" THEN errors.byType ELSE IF by = "endpoint" THEN errors.byEndpoint
             ELSE errors.byStatus, limit)
    ELSE {}

GetTopKeys(by, limit) == Top(IF by = "hits" THEN cacheOps.hits ELSE cacheOps.misses, Min({limit, TopLimit}))

ErrorStatistics ==
    [total |-> errors.total, byType |-> SumFunction(errors.byType),
     byEndpoint |-> SumFunction(errors.byEndpoint), byStatus |-> SumFunction(errors.byStatus)]

CacheStatistics ==
    [operations |-> cacheOps.found + cacheOps.missed,
     byPrefix |-> SumFunction(cacheOps.hits) + SumFunction(cacheOps.misses)]

GetAllMetrics == [cache |-> CacheStatistics, errors |-> ErrorStatistics]

-----------------------------------------------------------------------------
(* Properties *)

(* Whoever reads the statistics, that is whenever the lock is free, finds     *)
(* figures that add up: errors by type, by endpoint and by status, and the    *)
(* cache's traffic by prefix.                                                 *)
FiguresAddUp ==
    lock = Nil =>
        LET all == GetAllMetrics
        IN  /\ \A field \in DOMAIN all.errors : all.errors[field] = all.errors.total
            /\ all.cache.operations = all.cache.byPrefix

(* An error that is raised is known to exactly one of the two ledgers of      *)
(* errors, under the status it is answered with, and it is counted among the  *)
(* requests unless an early hook raised it.                                   *)
LedgersAgree ==
    (\A t \in Threads : In(t, "idle")) =>
        \A s \in Statuses :
            LET known == errors.byStatus[s] + (IF s = StatusOf[NotFound] THEN notFounds ELSE 0)
            IN  /\ known = answered.raised[s]
                /\ known <= httpRequests[s] + answered.early[s]

(* A report on recent events gives the newest that match, all of them if      *)
(* there are no more than it may give, in the order they happened.            *)
RecentAreNewest ==
    \A type \in {Nil, "hit"} \cup Exceptions, endpoint \in {Nil} \cup Endpoints,
       limit \in 1 .. RingSize + 1 :
        LET ring == IF subject = "web" THEN errors.ring ELSE cacheOps.ring
            given == IF subject = "web" THEN GetRecentErrors(type, endpoint, limit)
                     ELSE GetCacheOperations(type, endpoint, limit)
            most == IF subject = "web" THEN limit ELSE Min({limit, CacheLimit})
            matching == Matching(ring, type, endpoint)
            Newer(i) == Cardinality({j \in matching : j > i})
        IN  given # Nil =>
                /\ Len(given) = Min({most, Cardinality(matching)})
                /\ \A i \in matching : Newer(i) < most => given[Len(given) - Newer(i)] = ring[i]

(* The buckets of a trend partition its window: each event in it that is      *)
(* shown is counted in one bucket, also when the bucket's length does not     *)
(* divide the window's or exceeds it; of errors all are shown.                *)
TrendsPartition ==
    \A later \in 1 .. 2, window \in 0 .. MaxTime + 2, bucket \in 0 .. MaxTime + 2 :
        LET web == subject = "web"
            trends == IF web THEN GetErrorTrends(now + later, window, bucket)
                      ELSE GetCacheTrends(now + later, window, bucket)
            shown == ShownEvents(cacheOps.ring, {"hit", "miss"}, now + later - window)
        IN  trends # Nil =>
                SumFunction(trends.buckets) = IF web THEN trends.total ELSE Cardinality(shown)

(* A report of the top gives as many keys as it may; no key that it leaves    *)
(* out was counted more often than one that it names, and the first is the    *)
(* most frequent.                                                             *)
TopAreTop ==
    \A by \in {"type", "endpoint", "status_code", "hits", "misses"}, limit \in -1 .. TopLimit + 1 :
        LET f == CASE by = "type" -> errors.byType [] by = "endpoint" -> errors.byEndpoint
                   [] by = "status_code" -> errors.byStatus
                   [] by = "hits" -> cacheOps.hits [] OTHER -> cacheOps.misses
        IN  \A top \in IF by \in {"hits", "misses"} THEN GetTopKeys(by, limit) ELSE GetTopErrors(by, limit) :
                /\ limit >= 0 => Len(top) = Min({limit, TopLimit, Cardinality(Counted(f))})
                /\ \A i \in DOMAIN top :
                       /\ \A j \in DOMAIN top : i <= j => f[top[i]] >= f[top[j]]
                       /\ \A x \in DOMAIN f \ ToSet(top) : f[x] <= f[top[i]]

(* What is counted is counted once in each place (error_metrics.py,         *)
(* cache_metrics.py, metrics.py).                                           *)
LedgersHold == FiguresAddUp /\ LedgersAgree

(* Every report gives what its parameters ask for (error_metrics_api.py,    *)
(* routes/api/monitoring/metrics.py).                                       *)
ReportsHold == RecentAreNewest /\ TrendsPartition /\ TopAreTop

=============================================================================
