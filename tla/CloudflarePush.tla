--------------------------- MODULE CloudflarePush ---------------------------
(***************************************************************************)
(* The Cloudflare push service of the app container                        *)
(* (app/core/services/cloudflare_push_service.py): one daemon thread       *)
(* listens for NOTIFY blacklist_changes and replaces a Cloudflare list with *)
(* the active addresses of the blacklist, at most once per RateLimit and    *)
(* only if the size of the list does not swing too far.                     *)
(*                                                                         *)
(* The query gives rows, and an address that two sources report is in two  *)
(* of them; the list holds an address once, however often it is sent.      *)
(* Time passes in ticks; a timer counts the ticks since an event, up to the *)
(* longest span anyone asks about.  Notifications all cause the same work,  *)
(* so only their number is kept.                                           *)
(***************************************************************************)
EXTENDS Integers, FiniteSets

CONSTANTS
    Rows,              \* rows the blacklist may hold, one for each address and source
    IpOf,              \* row -> its address
    RateLimit,         \* RATE_LIMIT_SECONDS, in ticks
    Backoff,           \* RETRY_BACKOFF_SECONDS, in ticks
    GuardMinBaseline,  \* GUARD_MIN_BASELINE
    MaxChangePercent,  \* MAX_CHANGE_RATIO, as a percentage
    Faults,            \* the kinds of mishap that may happen
    MaxMishaps,        \* bound: mishaps of a behaviour
    MaxChanges         \* bound: database changes of a behaviour

ASSUME RowsAssumption == IsFiniteSet(Rows)
ASSUME TimerAssumption == RateLimit \in Nat \ {0} /\ Backoff \in Nat \ {0}
ASSUME GuardAssumption == GuardMinBaseline \in Nat /\ MaxChangePercent \in Nat
ASSUME BoundAssumption == MaxMishaps \in Nat /\ MaxChanges \in Nat

VARIABLES
    (* PostgreSQL and the LISTEN connection *)
    active,         \* the rows that the query of fetch_active_ips returns now
    listening,      \* is there a connection that has issued LISTEN
    unread,         \* notifications sent and not yet read by the client
    notifies,       \* len(db_conn.notifies): read and not yet handled
    (* Cloudflare *)
    list,           \* the addresses of the list
    op,             \* the rows whose addresses the last accepted bulk operation has
    opState,        \* its state; Cloudflare runs one operation at a time
    sinceModified,  \* age of modified_on
    abandoned,      \* history: the service gave up an operation that ran on
    sincePush,      \* ticks since this process began a push
    (* the service *)
    pc,             \* where the thread is
    caller,         \* who called sync_now: the main loop or the drain loop
    pending,        \* _sync_pending
    retryIn,        \* ticks until _retry_at
    remembers,      \* last_update is set (a restart forgets it)
    seen,           \* current_count
    fetched,        \* the rows of ip_list
    (* environment and history *)
    mishaps,
    changes,
    blocked         \* the change guard has refused the data since the last
                    \* notification, start or push

database == <<active, listening, unread, notifies>>
cloud    == <<list, op, opState, sinceModified, abandoned>>
locals   == <<seen, fetched>>
bounds   == <<mishaps, changes>>
vars     == <<database, cloud, sincePush, pc, caller, pending, retryIn,
              remembers, locals, bounds, blocked>>

Locations == {"down", "loop", "wait", "drain", "sync", "state", "fetch",
              "fetched", "put", "poll"}

Addresses(rows) == {IpOf[r] : r \in rows}
Ips == Addresses(Rows)

TypeOK ==
    /\ active \subseteq Rows
    /\ listening \in BOOLEAN
    /\ unread \in 0 .. MaxChanges
    /\ notifies \in 0 .. MaxChanges
    /\ list \subseteq Ips
    /\ op \subseteq Rows
    /\ opState \in {"none", "running", "completed", "failed"}
    /\ sinceModified \in 0 .. RateLimit
    /\ abandoned \in BOOLEAN
    /\ sincePush \in 0 .. RateLimit
    /\ pc \in Locations
    /\ caller \in {"loop", "drain"}
    /\ pending \in BOOLEAN
    /\ retryIn \in 0 .. RateLimit \/ retryIn \in 0 .. Backoff
    /\ remembers \in BOOLEAN
    /\ seen \in 0 .. Cardinality(Ips)
    /\ fetched \subseteq Rows
    /\ mishaps \in 0 .. MaxMishaps
    /\ changes \in 0 .. MaxChanges
    /\ blocked \in BOOLEAN

Init ==
    /\ active \in SUBSET Rows
    /\ listening = FALSE
    /\ unread = 0
    /\ notifies = 0
    /\ list \in SUBSET Ips
    /\ op = {}
    /\ opState = "none"
    /\ sinceModified \in {0, RateLimit}
    /\ abandoned = FALSE
    /\ sincePush = RateLimit
    /\ pc = "down"
    /\ caller = "loop"
    /\ pending = FALSE
    /\ retryIn = 0
    /\ remembers = FALSE
    /\ seen = 0
    /\ fetched = {}
    /\ mishaps = 0
    /\ changes = 0
    /\ blocked = FALSE

-----------------------------------------------------------------------------
(* Helpers *)

Mishap(fault) ==
    /\ fault \in Faults
    /\ mishaps < MaxMishaps
    /\ mishaps' = mishaps + 1

(* The thread stops following the operation it asked for. *)
Abandon == abandoned' = (abandoned \/ opState = "running")

(* _defer_sync *)
Defer(ticks) ==
    /\ pending' = TRUE
    /\ retryIn' = ticks

(* sync_now returns to the loop that called it. *)
Leave == pc' = IF caller = "loop" THEN "wait" ELSE "drain"

(* Mutant: the guard looks at shrinking lists only. *)
WithinChangeGuardShrinking(current, new) ==
    \/ current < GuardMinBaseline
    \/ (current - new) * 100 <= MaxChangePercent * current

(* _within_change_guard *)
WithinChangeGuard(current, new) ==
    \/ current < GuardMinBaseline
    \/ LET swing == IF new >= current THEN new - current ELSE current - new
       IN  swing * 100 <= MaxChangePercent * current

-----------------------------------------------------------------------------
(* The main loop *)

(* cloudflare_sync_loop runs the service, now or again: it listens first and *)
(* then reconciles once.                                                     *)
Start ==
    /\ pc = "down"
    /\ pc' = "loop"
    /\ listening' = TRUE
    /\ unread' = 0
    /\ notifies' = 0
    /\ pending' = TRUE
    /\ retryIn' = 0
    /\ blocked' = FALSE
    /\ UNCHANGED <<active, cloud, sincePush, caller, remembers, locals, bounds>>

Loop ==
    /\ pc = "loop"
    /\ IF pending /\ retryIn = 0
       THEN /\ pc' = "sync"
            /\ caller' = "loop"
       ELSE /\ pc' = "wait"
            /\ UNCHANGED caller
    /\ UNCHANGED <<database, cloud, sincePush, pending, retryIn, remembers,
                   locals, bounds, blocked>>

(* select() reports the connection readable, and poll() reads it. *)
WakeOnNotification ==
    /\ pc = "wait"
    /\ unread > 0
    /\ notifies' = notifies + unread
    /\ unread' = 0
    /\ pc' = "drain"
    /\ UNCHANGED <<active, listening, cloud, sincePush, caller, pending,
                   retryIn, remembers, locals, bounds, blocked>>

(* Mutant: only a notification ends the wait. *)
WakeOnTimeoutNever ==
    /\ pc = "wait" /\ FALSE
    /\ UNCHANGED vars

(* select() times out, when the deferred sync is due at the latest. *)
WakeOnTimeout ==
    /\ pc = "wait"
    /\ unread = 0
    /\ pc' = "loop"
    /\ UNCHANGED <<database, cloud, sincePush, caller, pending, retryIn,
                   remembers, locals, bounds, blocked>>

(* handle_change_notification *)
HandleNotification ==
    /\ pc = "drain"
    /\ notifies > 0
    /\ notifies' = notifies - 1
    /\ pending' = TRUE
    /\ retryIn' = 0
    /\ blocked' = FALSE
    /\ pc' = "sync"
    /\ caller' = "drain"
    /\ UNCHANGED <<active, listening, unread, cloud, sincePush, remembers,
                   locals, bounds>>

DrainEnds ==
    /\ pc = "drain"
    /\ notifies = 0
    /\ pc' = "loop"
    /\ UNCHANGED <<database, cloud, sincePush, caller, pending, retryIn,
                   remembers, locals, bounds, blocked>>

-----------------------------------------------------------------------------
(* sync_now *)

(* Mutant: the service does not look at its own last push. *)
CheckRateLimitOfListOnly ==
    /\ pc = "sync"
    /\ pc' = "state"
    /\ UNCHANGED <<database, cloud, sincePush, caller, pending, retryIn,
                   remembers, locals, bounds, blocked>>

CheckRateLimit ==
    /\ pc = "sync"
    /\ IF remembers /\ sincePush < RateLimit
       THEN Defer(RateLimit - sincePush) /\ Leave
       ELSE pc' = "state" /\ UNCHANGED <<pending, retryIn>>
    /\ UNCHANGED <<database, cloud, sincePush, caller, remembers, locals,
                   bounds, blocked>>

FetchListState ==
    /\ pc = "state"
    /\ \/ /\ Mishap("api")
          /\ Defer(Backoff) /\ Leave
          /\ UNCHANGED seen
       \/ /\ sinceModified < RateLimit
          /\ Defer(RateLimit - sinceModified) /\ Leave
          /\ UNCHANGED <<seen, mishaps>>
       \/ /\ sinceModified = RateLimit
          /\ seen' = Cardinality(list)
          /\ pc' = "fetch"
          /\ UNCHANGED <<pending, retryIn, mishaps>>
    /\ UNCHANGED <<database, cloud, sincePush, caller, remembers, fetched,
                   changes, blocked>>

(* The query takes its snapshot.  A failing query yields an empty list. *)
QueryActiveIps ==
    /\ pc = "fetch"
    /\ \/ fetched' = active /\ UNCHANGED mishaps
       \/ fetched' = {} /\ Mishap("database")
    /\ pc' = "fetched"
    /\ UNCHANGED <<database, cloud, sincePush, caller, pending, retryIn,
                   remembers, seen, changes, blocked>>

(* The query's answer arrives, and before it every notification sent so far: *)
(* psycopg2 moves those to db_conn.notifies.  Then the guard decides: it      *)
(* compares the number of rows with the number of addresses of the list.     *)
ReceiveActiveIps ==
    /\ pc = "fetched"
    /\ notifies' = notifies + unread
    /\ unread' = 0
    /\ \/ /\ fetched = {}
          /\ Defer(Backoff) /\ Leave
          /\ UNCHANGED blocked
       \/ /\ fetched # {}
          /\ ~WithinChangeGuard(seen, Cardinality(fetched))
          /\ pending' = FALSE
          /\ blocked' = TRUE
          /\ Leave
          /\ UNCHANGED retryIn
       \/ /\ fetched # {}
          /\ WithinChangeGuard(seen, Cardinality(fetched))
          /\ pc' = "put"
          /\ UNCHANGED <<pending, retryIn, blocked>>
    /\ UNCHANGED <<active, listening, cloud, sincePush, caller, remembers,
                   locals, bounds>>

(* push_to_cloudflare: Cloudflare accepts the operation unless one is still *)
(* running; the request may fail before it gets there, or the answer may be *)
(* lost.                                                                    *)
Put ==
    /\ pc = "put"
    /\ sincePush' = 0
    /\ remembers' = TRUE
    /\ \/ /\ opState # "running"
          /\ op' = fetched
          /\ opState' = "running"
          /\ pc' = "poll"
          /\ UNCHANGED <<abandoned, pending, retryIn, mishaps>>
       \/ /\ opState # "running"
          /\ Mishap("lost")
          /\ op' = fetched
          /\ opState' = "running"
          /\ abandoned' = TRUE
          /\ Defer(Backoff) /\ Leave
       \/ /\ \/ opState = "running" /\ UNCHANGED mishaps
             \/ Mishap("api")
          /\ Defer(Backoff) /\ Leave
          /\ UNCHANGED <<op, opState, abandoned>>
    /\ UNCHANGED <<database, list, sinceModified, caller, locals, changes,
                   blocked>>

(* Mutant: an operation that has not failed yet counts as published. *)
PollOperationOnce ==
    /\ pc = "poll"
    /\ \/ /\ opState \in {"running", "completed"}
          /\ pending' = FALSE
          /\ blocked' = FALSE
          /\ Leave
          /\ UNCHANGED <<retryIn, mishaps>>
       \/ /\ opState = "failed"
          /\ Defer(Backoff) /\ Leave
          /\ UNCHANGED <<blocked, mishaps>>
    /\ UNCHANGED <<database, cloud, sincePush, caller, remembers, locals,
                   changes>>

(* _poll_operation, and what sync_now does with its result.  The poll gives *)
(* up on an error or after POLL_TIMEOUT; the operation runs on.             *)
PollOperation ==
    /\ pc = "poll"
    /\ \/ /\ opState = "completed"
          /\ pending' = FALSE
          /\ blocked' = FALSE
          /\ Leave
          /\ UNCHANGED <<retryIn, mishaps>>
       \/ /\ \/ opState = "failed" /\ UNCHANGED mishaps
             \/ opState = "running" /\ Mishap("timeout")
             \/ Mishap("api")
          /\ Defer(Backoff) /\ Leave
          /\ UNCHANGED blocked
    /\ Abandon
    /\ UNCHANGED <<database, list, op, opState, sinceModified, sincePush,
                   caller, remembers, locals, changes>>

-----------------------------------------------------------------------------
(* The listener's connection breaks, or an answer has an unexpected shape:  *)
(* run() ends, and the loop around it runs it again.                        *)
ListenerFails ==
    /\ pc # "down"
    /\ Mishap("listener")
    /\ pc' = "down"
    /\ listening' = FALSE
    /\ unread' = 0
    /\ notifies' = 0
    /\ Abandon
    /\ UNCHANGED <<active, list, op, opState, sinceModified, sincePush, caller,
                   pending, retryIn, remembers, locals, changes, blocked>>

(* The app process dies; what it knew is gone. *)
Crash ==
    /\ pc # "down"
    /\ Mishap("crash")
    /\ pc' = "down"
    /\ caller' = "loop"
    /\ listening' = FALSE
    /\ unread' = 0
    /\ notifies' = 0
    /\ pending' = FALSE
    /\ retryIn' = 0
    /\ remembers' = FALSE
    /\ seen' = 0
    /\ fetched' = {}
    /\ blocked' = FALSE
    /\ sincePush' = RateLimit
    /\ Abandon
    /\ UNCHANGED <<active, list, op, opState, sinceModified, changes>>

-----------------------------------------------------------------------------
(* The environment *)

(* A transaction changes blacklist_ips or whitelist_ips; the trigger        *)
(* notifies the listener at its commit.                                     *)
ChangeBlacklist(rows) ==
    /\ changes < MaxChanges
    /\ rows # active
    /\ changes' = changes + 1
    /\ active' = rows
    /\ unread' = IF listening THEN unread + 1 ELSE unread
    /\ UNCHANGED <<listening, notifies, cloud, sincePush, pc, caller, pending,
                   retryIn, remembers, locals, mishaps, blocked>>

OperationCompletes ==
    /\ opState = "running"
    /\ opState' = "completed"
    /\ list' = Addresses(op)
    /\ sinceModified' = 0
    /\ UNCHANGED <<database, op, abandoned, sincePush, pc, caller, pending,
                   retryIn, remembers, locals, bounds, blocked>>

OperationFails ==
    /\ opState = "running"
    /\ Mishap("operation")
    /\ opState' = "failed"
    /\ UNCHANGED <<database, list, op, sinceModified, abandoned, sincePush, pc,
                   caller, pending, retryIn, remembers, locals, changes,
                   blocked>>

Older(age) == IF age < RateLimit THEN age + 1 ELSE age

(* Mutant: a retry that is due goes on counting down. *)
TickBelowZero ==
    /\ sinceModified' = Older(sinceModified)
    /\ sincePush' = Older(sincePush)
    /\ retryIn' = IF pending THEN retryIn - 1 ELSE 0
    /\ UNCHANGED <<database, list, op, opState, abandoned, pc, caller, pending,
                   remembers, locals, bounds, blocked>>

Tick ==
    /\ sinceModified' = Older(sinceModified)
    /\ sincePush' = Older(sincePush)
    /\ retryIn' = IF retryIn > 0 THEN retryIn - 1 ELSE 0
    /\ UNCHANGED <<database, list, op, opState, abandoned, pc, caller, pending,
                   remembers, locals, bounds, blocked>>

SyncNow ==
    \/ CheckRateLimit
    \/ FetchListState
    \/ QueryActiveIps
    \/ ReceiveActiveIps
    \/ Put
    \/ PollOperation

Service ==
    \/ Start
    \/ Loop
    \/ WakeOnNotification
    \/ WakeOnTimeout
    \/ HandleNotification
    \/ DrainEnds
    \/ SyncNow

Next ==
    \/ Service
    \/ ListenerFails
    \/ Crash
    \/ \E rows \in SUBSET Rows : ChangeBlacklist(rows)
    \/ OperationCompletes
    \/ OperationFails
    \/ Tick

Spec == Init /\ [][Next]_vars

(* The thread runs, time passes, and Cloudflare ends what it accepted.      *)
(* Nothing obliges the blacklist to change.                                 *)
Fairness ==
    /\ WF_vars(Service)
    /\ WF_vars(Tick)
    /\ WF_vars(OperationCompletes \/ OperationFails)

FairSpec == Spec /\ Fairness

-----------------------------------------------------------------------------
(* Properties *)

(* Whenever the service is settled - waiting, nothing pending, no           *)
(* notification on its way, data not refused by the guard - the list holds  *)
(* exactly the active addresses: no interleaving of changes, deferred and   *)
(* failed pushes, lost answers, abandoned operations and restarts lets the  *)
(* service believe it is in sync when it is not.                            *)
Settled ==
    /\ pc = "wait"
    /\ ~pending /\ ~blocked
    /\ unread = 0 /\ notifies = 0

SettledIsInSync == Settled => list = Addresses(active)

(* Two pushes of one process are at least RateLimit apart, whichever loop,  *)
(* notification or retry asks for them.  (A new process has forgotten the    *)
(* last push and relies on the age of the list instead.)                    *)
PushesAreSpaced == pc = "put" => sincePush = RateLimit

(* A replacement never makes the list grow beyond the guard's ratio, and     *)
(* shrinks it beyond that at most by the rows that repeat an address, which  *)
(* the guard counts and the list does not.  Measured on the list that is     *)
(* replaced: several reads and waits lie between the guard and the           *)
(* replacement.  This holds as long as the service has not given up an       *)
(* operation that ran on: such an operation may replace the list after its   *)
(* size was read.                                                            *)
GuardedSwings ==
    [][LET before   == Cardinality(list)
           after    == Cardinality(list')
           repeated == Cardinality(op) - after
       IN  ~abandoned /\ before >= GuardMinBaseline =>
               /\ (after - before) * 100 <= MaxChangePercent * before
               /\ ((before - after) - repeated) * 100 <= MaxChangePercent * before]_list

(* Once the blacklist stops changing, the list follows it for good, but for  *)
(* three reasons: the guard refused the data, the blacklist is empty, or a   *)
(* notification was read along with a query's answer and waits for the next  *)
(* one.                                                                      *)
ListSettles ==
    <>[](list = Addresses(active) \/ blocked \/ active = {} \/ notifies > 0)

(* The promise of the module ("on a change, push the whole list"): once the *)
(* blacklist stops changing the list follows it, unless the guard refused   *)
(* it or it is empty.                                                       *)
ListFollowsChanges == <>[](list = Addresses(active) \/ blocked \/ active = {})

=============================================================================
