# A verification project for the blacklist platform

The platform collects malicious IP addresses from the REGTECH portal and other
sources, keeps them in PostgreSQL, lets administrators add, remove and
whitelist addresses, answers "is this address blocked?" over HTTP, and mirrors
the active addresses into a Cloudflare list and into feeds for firewalls. This
directory holds TLA+ models of the parts in which several actors, failures and
restarts meet, TLC configurations that check them on small instances, and
proofs that all the safety properties they check hold for every instance.

    tlc -config CloudflarePush.cfg MCCloudflarePush      # one run
    tlapm CloudflarePush_proofs.tla                      # one proof module

Contents: [the system](#the-system),
[correspondence](#correspondence-of-models-and-code), [runs](#what-is-checked),
[fairness](#fairness), [proofs](#what-is-proved),
[disagreements](#disagreements-with-the-documentation),
[observations](#observations), [limits](#limits), [plan](#plan). `PROJECT.json`
maps every definition to the lines it translates and lists the hazards of the
code.

## The system

Three containers share one PostgreSQL database. Redis belongs to the app.

| part | processes and threads | state | operations |
|---|---|---|---|
| collector | one process: one scheduler thread that runs the jobs one after another; cheroot threads for HTTP | `_active_collections`, the login session of the one global `RegtechCollector`, retry time and registration of the jobs; in the database `collection_status`, `collection_credentials`, `blacklist_ips` | initial backfill, daily collection, nightly cleanup, forced collection, health |
| app | one gunicorn worker with four threads, one Cloudflare thread, optionally one scheduler thread | Redis keys per address, sessions, revocations and login failures in Redis, the pool of connections; in memory the push service's timers | checks, administration of both tables, login, collection, feeds, push |
| frontend | React pages and a proxy | none the rest reads | presentation |

The parts in detail, with what makes them hard and what makes them correct:

**Collection scheduler** (`collector/scheduler`). State: the row `REGTECH_INITIAL`
of `collection_status` (none, in_progress with a checkpoint, complete,
skipped), `_active_collections`, `_initial_retry_at`, the schedule. Operations:
`_initial_collection`, `force_collection`, `collect_regtech_backfill`,
`run_daily_collection`, and a restart. Hard: the scheduled job looks before it
takes the lock; a run ends in a return, a page error or a database error at any
step; it may resume days later; the daily run is not admitted but uses the same
portal session. Correct: one forced collection at a time, its slot always
returned, no window skipped, a decision never revisited, the backfill
eventually decided.

**REGTECH session** (`collector/core/regtech`, `rate_limiter.py`,
`archive_manager.py`). State: cookies, token and its expiry, `_last_credentials`,
a page memory of 60 s, `_last_failure_kind`, the limiters, the archive.
Operations: authenticate, re-authenticate, page collection with retries, Excel
export, archiving. Hard: two runs share all of it; an empty answer means "no
more rows", "no session", "blocked" or "nothing usable"; a limiter sleeps with
its lock held; the count of failed logins outlives the lock. Correct: a run
that returns rows as complete has seen every page, only the portal's own signs
make it give up, and neither requests nor logins exceed their rate.

**Row life cycle** (`collector/core/database`, `scheduler/cleanup.py`,
`app/core/services/{expiry,scheduler}_service.py`, the administrators'
requests). State: `is_active`, `detection_date`, `removal_date`, `source` of
each row. Operations: seven requests, the collector's batch, the nightly
three-statement cleanup, two expiry jobs. Hard: check-then-update in separate
transactions, writers that disagree about the day of removal, a job that
reactivates. Correct: by the next night a row is active exactly as its dates
say, and a batch is stored whole or not at all.

**Blacklist decisions** (`blacklist_service.py`, `ip_cache.py`, the
administrators' routes). State: both tables, the keys `whitelist:<ip>` and
`blacklist:<ip>` with a lifetime of 300 s. Operations: `check_blacklist`,
every request that commits and then deletes keys, the writers that delete none.
Hard: a check reads, and stores later; Redis or the database may fail at each
access; the commit and the deletion are two steps. Correct: every answer was
true recently, the whitelist prevails, plain requests leave exact keys.

**Cloudflare push** (`cloudflare_push_service.py`). State: LISTEN connection
and undelivered notifications, `_sync_pending`, `_retry_at`, `last_update`; at
Cloudflare the list and one asynchronous bulk operation. Operations:
notification, sync with rate limit, query, change guard, PUT, poll; start, and
the loop that restarts it. Hard: lost answers, operations that outlive the
poll, stale sizes, notifications that hide in the client library. Correct: a
service that believes it is in sync is; pushes stay apart; the list never
swings too far; it eventually follows.

**Sessions of administrators** (`core/auth`, `auth_state_service.py`,
`auth_routes.py`). State: name, hash and session version in `system_settings`;
in Redis failure counters and revoked tokens, both with an expiry. Operations:
login, upgrade of a plaintext, token check, logout, rotation. Hard: logins in
flight across a rotation or a lock, a counter of two statements, expiries.
Correct: no token issued for an old password survives a rotation; guesses are
bounded; a logout holds; a lock ends.

**Settings and credentials** (`settings_service.py`,
`secure_credential_service.py`, their routes). State: two tables, a cache of
one dictionary with one time stamp, a master key in each container. Operations:
reads through the cache, single and batched writes; saves, partial updates, the
seed at start, loss of a key; the readers of app, collector and push service.
Hard: no lock around a cache whose entries and clock are read and written one
after the other, a batch that breaks off, an update that reads and writes back, a name
stored twice, keys that differ. Correct: the cache is recent, a batch tells
what it did, the last password given is the one stored, readers agree.

**Lists, figures and feeds** (`routes/api`, `analytics_service.py`,
`threat_feed.py`). State: none of their own; the answer of several statements
mixes moments. Hard: paging by OFFSET over a changing table that another
statement counts, figures computed in a dozen places, an outage answered as an
empty list. Correct: all feeds tell firewalls the same addresses and fail
loudly, figures agree, pages partition.

**Registration at a FortiGate** (`fortinet/management.py`). State: the objects
and the group on the device. Hard: any call may be refused, and two requests
may run; a call without an answer may have been carried out, an answer may
stand for an address that is not stored. Correct: the group names the worst
addresses, and a name has its address.

**Monitoring** (`core/monitoring`, `errors/handlers.py`). State: an error
ledger with a ring, the request counters, a cache ledger. Hard: three ledgers
fed from different hooks, buckets and limits at their borders. Correct: figures
add up, ledgers agree, reports give the newest and the most frequent.

The remaining parts are pages of code nothing registers or imports
(`routes/web`, `web_routes.py`, `dashboard.py`, `websocket_routes.py`, the
other collectors, the policy monitor, the enhanced collection API, the copy in
`fortinet_register.py`, `CollectionService.trigger_*`), the library's
connection pool and request limits, SQL run once, scripts a person runs, and
the frontend. Where unregistered code answers the same questions or writes the
same rows as live code (`routes/web`, the cache utilities), it is modelled
beside it and marked. `PROJECT.json` lists each part with its sources and the
reason it is left out or reduced.

Interactions: the collector and the app meet only in the tables; a trigger
notifies the push service of every change of `blacklist_ips` and
`whitelist_ips`; Redis is invalidated by the app's requests alone, so the
collector's writes and the expiry jobs reach a check only when keys expire.
`CollectorScheduler` assumes of a collection only how it ends, which
`RegtechSession` details; `IpDecisions` and `CloudflarePush` assume of rows only
that they come and go, which `BlacklistRows` details.

## Correspondence of models and code

### CollectorScheduler, BackfillLedger

`CollectorScheduler` has a scheduler thread (`Sched`) and HTTP threads
(`Http`). `pc[p]` is the place of a thread between two accesses to shared
state, and the locals of a collection are `kind`, `end` (`window_end`),
`oldest` and `batch` (`collected_data`). Dates are integers, and the rows the
portal lists for a day are the day itself: `stored` is the set of days in
`blacklist_ips`.

| code | actions |
|---|---|
| `_initial_collection` (`manager.py`) | `InitialJobDecides`, `InitialJobCannotRead`, `InitialJobStarts`; its end in `Return` |
| `force_collection` | `AdmitBackfill`, `AdmitRequest`, the `finally` clause in `Return` |
| credentials and `authenticate` | `CheckCredentials`, `Authenticate`, `AuthenticateFails`, `SetSpan` |
| `collect_regtech_backfill` (`manual.py`) | `MarkInProgress`, `SaveCheckpoint`, `CompleteBackfill`, `DatabaseFails` |
| `collect_blacklist_data` (`collector.py`) | `CollectPages`, `CollectNothing`, `CollectFails` |
| `save_blacklist_ips` | `SaveRows`, `SaveRollsBack` |
| `run_daily_collection` (`scheduled.py`) | `DailyJob`, then the shared actions with `kind = "daily"` |
| time, operator, container | `RetryElapses`, `SessionExpires`, `NextDay`, `SetCredentials`, `AddForeignRow`, `Crash`, `Restart` |

Credentials that are enabled but blank are a state of their own: the initial
job starts and the run then ends. `swallowed`, `startDay`, `floor` and
`dailyOutcome` are history that no action reads.

`BackfillLedger` is what the row `REGTECH_INITIAL` promises its readers,
without threads or restarts: opened once, a checkpoint that recedes by at most
one window and only past accounted days, a final decision.
`CollectorScheduler` implements it with `ledger <- initial` and
`covered <- stored \cup swallowed`.

### CloudflarePush

The service's thread is `pc`. A tick is a unit of time, and `sinceModified`, `sincePush`
and `retryIn` count up to the longest span the code asks about.
`unread` are notifications on the socket, `notifies` those psycopg2 has already
moved to `db_conn.notifies`. `op` and `opState` are Cloudflare's bulk
operation, of which it runs one at a time. The query has no DISTINCT and the key
of the table is address and source: it gives `Rows`, `IpOf` is the address of a
row, and `WithinChangeGuard` compares a number of rows with the number of
addresses of the list. That the list keeps an address once, however often it is
sent, is Cloudflare's and modelled as such.

| code | actions |
|---|---|
| `run` and `cloudflare_sync_loop` | `Start`, `Loop`, `WakeOnNotification`, `WakeOnTimeout`, `DrainEnds`, `ListenerFails`, `Crash` |
| `handle_change_notification` | `HandleNotification` |
| `sync_now` | `CheckRateLimit`, `FetchListState`, `QueryActiveIps`, `ReceiveActiveIps`, `Put`, `PollOperation`, with `Defer` for `_defer_sync` |
| `_within_change_guard` | `WithinChangeGuard`, in integer arithmetic |
| database and Cloudflare | `ChangeBlacklist`, `OperationCompletes`, `OperationFails` |

The query is two steps because its snapshot and its answer are two moments, and
the notifications of what is committed in between arrive with the answer.

### IpDecisions

Keys, rows and requests of different addresses do not meet, so one address is
modelled; every access of Redis or of the database is a step of a check
(`GetWhitelistKey`, `QueryWhitelist`, `SetWhitelistKey` and the same for the
blacklist). A request commits (`Commit`) and then deletes both keys
(`Invalidate`), or does not reach Redis (`InvalidateFails`); requests of several
threads are counted in `writes`, since all of them delete the same keys.
`ChangeSilently` stands for the collector's save and cleanup and the app's
expiry jobs, none of which deletes a key. `ago[f]` counts the ticks since a fact
last held; it and `disturbed` are history. Requests that change nothing also
delete keys; that only brings an expiry forward and is left out.

### BlacklistRows

`rows[<<ip, source>>]` is the row of the unique key, with its id, flag and two
dates; a day is an integer. A request is one transaction (`CreateBlacklist`,
`UpdateBlacklist`, `DeleteBlacklist`, `RemoveIps`, `BatchAdd`, `Delete`), except
`manual_add_ip`, which counts and inserts in two (`ManualAddCounts`,
`ManualAddInserts`). A batch is filtered when it is collected and stored later
(`CollectorFilters`, `CollectorInserts`, `CollectorFails`), by the upsert
`Upsert`. `Settled` is what the three statements of the nightly job make of a
row. The jobs of the app read ids and update later (`ExpiryReads`,
`ExpiryUpdates`, `LoopReads`, `LoopUpdates`), and may fail or end between.
`cleaned`, `touched`, `overtaken` and `renewed` are history. It refines what
`IpDecisions` (`Commit`, `ChangeSilently`) and `CloudflarePush`
(`ChangeBlacklist`) leave unconstrained.

### AuthSessions

A thread serves one request at a time, one step per statement of Redis and one
per transaction of PostgreSQL. A hash is a record of the password it was made
from, a token a record of the version it carries and its remaining life, and
Redis expiries count down in `Tick`.

| code | actions |
|---|---|
| `login` | `Login`, `CheckAccount`, `GetCredentials`, `VerifyPassword`, `RecordFailure`, `RecordAccountFailure`, `UpgradePasswordHash`, `ClearFailures`, `EncodeToken`, `LoginFails` |
| `jwt_required_hook`, `validate_token` | `Present` with `Use` or `Rotate`, `IsRevoked`, `ValidateVersion`, `Serve` |
| `rotate_password`, `logout` | `RotatePassword`, `Logout`, `TokenRequestFails` |
| time, container | `Tick`, `Crash` |

### ReadModels, FortigateRegistration

Every statement is its own snapshot, so an answer of several statements is an
operator over a sequence of tables, one for each statement
(`GetDashboardStats(S)`, `GetSystemStats(S)`, ...), and a list read page by page
is a behaviour: `StartWalk`, and for each page `FirstStatement` and
`SecondStatement`, of which one counts the rows and one reads a page.
`CountsFirst` are the lists whose handlers count first; in the others the rows
are read first. The database may go away between them (`RequestFails`). `torn`
counts the writes between the two statements of the last request; it,
`disturbed` and `start` are history. The writers are those of the registered
blueprints.

`FortigateRegistration` extends the module with the threads of `POST
/api/fortinet/register`: the read of the enforced rows (`BeginRegister`), the
look at the group, of which only a 404 leads to `CreateGroup`, one call for each
address (`PostAddress`: 201 stores it, 424 counts as a success and stores
nothing), and the PUT of the members, the first `registered` of the list
(`PutGroup`). The device may refuse any call, or not answer (`Unreachable`), and
then may have carried it out. `device` says whether the group exists, which
names it has and which addresses are on the device: a name may have no address.
`stored`, the places of the list that the device took, and `writer`, whose
registration put the members last, are history. `LastId` is the last id the
sequences gave before a behaviour; new rows count on from there.

### Settings, SourceCredentials

Nothing of the cache is under a lock, so every access of `Settings` is a step:

| code | actions |
|---|---|
| `get_setting` | `GetSetting` and `TestAge` (the two looks at the clock), `TestMember`, `LookUp`; `ReadSetting`, `StoreEntry`, `TestClock`, `StartClock` |
| `set_setting`, `create_setting`, `delete_setting` | `UpdateSetting`, `CreateSetting`, `DeleteSetting`, then `WriteSetting`, `ClearCache`, `ClearStamp` |
| `PUT /settings/batch` | `BatchUpdateSettings`, for each item `WriteSetting` or `RefuseItem`, or `AbortBatch` |
| `POST /collection/config/update` | `UpdateCollectionConfig`, then as above |

An answer is "done", "failed", "missing" (the caller's default) or "forbidden";
"listed" when it names the items that were updated and that failed, and
"unnamed" when it does not: that of a batch whose loop an exception ended
(`Malformed`), and that of a config update which failed in part. A reader that
finds the clock stopped or the entry gone between two of its steps raises and
answers the default. `entry` and `aged` are history.

In `SourceCredentials` a row holds the name, a payload and the flag that says
whether it is sealed; a payload records its key, and a reader with another key
reads nothing. Writers are `SaveCredentials`, the two steps `SelectPayload` and
`UpdateCredentialSettings`, `SetActive`, the seed and
`MigrateExistingCredentials`; readers are operators (`GetCredentials` of the
app, `GetCollectionCredentials` of the collector, `LoadCloudflare` of the push
service), and so are the endpoints that tell whether a source is configured. The
handlers of `routes/web` are unregistered and modelled as further writers. The
keys of a batch are the set still to be written, and the one at hand is chosen
from it, since their order in the request is the caller's; `Incomplete` stands
for items without a key or a value. A call remembers in `seen` the version of
each source it read: a seed reads both rows before it writes the first.

### RateLimiters, RegtechSession

`RateLimiters` is the token bucket (`WaitIfNeeded`, `RefillTokens`, `Acquire`,
`LookAgain`), its adaptive rate and backoff (`OnSuccess`, `OnFailure`,
`BackoffEnds`), and the login lock (`AuthWaitIfNeeded`, `AuthOnFailure`); tokens
are integers, times are ticks. `RegtechSession` extends it with two runs of the
one collector (`daily`, `forced`): `EnsureAuthenticated`, `Authenticate`,
`LoginSucceeds`, `LoginFails`, `DownloadExcel`, `AskForPage`, `PageAnswered`,
`ProcessPage`, `RetryPage`. The portal is external: it answers a page, as the set of
the rows listed there at that moment (`PortalAnswers`), misbehaves (`PortalMisbehaves`),
drops sessions, refuses the password, does not answer a login or adds a row. An answer
is a table, a page without one or a list in JSON (`ParseResponseData`; other JSON is
parsed as HTML and is such a page). A JSON list without a usable row gives the
empty list and ends a run, as the empty table does; a page without a table, or a
table with rows of which none is usable, gives nothing and is a block signal. A behaviour is either about
the request limiter or about sessions: the delays of the one are
ticks the other need not count.

### Monitoring

A request passes the early hooks (`HookRefuses`), `BeforeRequest`, its route and
one of the error handlers (`HandleNotFound`, `HandleApiError`,
`HandleHttpException`, `HandleGenericException`); `RecordError` holds a lock
while `CountError` counts in steps; `AfterRequest` counts the request. `Get`,
`Cached`, `Delete` and `ClearPattern` are the cache utilities, `RedisGoesAway`
their fault. Reports are operators on what is recorded, with every limit, window
and bucket length as a parameter: recent reports and trends are about the
positions of a ring (`Matching`, `ShownEvents`), as two events may be equal, and
`Top` is the set of answers a report may give, as Python's sort leaves ties in the
order the keys were first counted in, which the model does not keep.
`MonitoringNext` and `MonitoringSpec` have names of their own because the proofs
about this module share one with those about `ReadModels`.

## What is checked

`CHECK_DEADLOCK FALSE` is set throughout: bounded behaviours end when the
mishaps, changes or requests are used up. Symmetry, of threads, is declared in `read_models`
and `settings`, which have no liveness.

Where a module states many facts of one kind, the run checks their conjunction
and the module names and explains the parts: `FirewallsAreTold`, `FiguresHold`,
`ListsAreComplete`, `FirewallHoldsTheWorst`, `EndpointsTellTheTruth`,
`VerdictsAreRight`, `PortalIsSpared`, `LedgersHold` and `ReportsHold`. Type
invariants are checked where a module has one; in the others the invariants of
the proofs contain the types they need.

| run | shows | instance |
|---|---|---|
| `collector_scheduler` | one forced run at a time, no window skipped, no backfill after a decision, the ledger is implemented, the slot is given back, and the backfill is decided once credentials stay enabled, under failed logins, blocked pages, lost saves, collector and database errors and crashes | two HTTP threads, four days of history in windows of two, three days of service, two mishaps, one request |
| `save_is_lost`, `daily_login` | two promises the code does not keep (below) | the one mishap each needs |
| `cloudflare_push` | a settled service is in sync, pushes stay apart, no swing beyond the guard and the repeated rows, the list settles | three rows of two addresses, two mishaps of any kind, two changes |
| `stranded_notification` | a promise the code does not keep | no mishap at all |
| `ip_decisions` | answers are recent; whitelisting prevails; requests leave exact keys | two checks, two changes, one mishap |
| `blacklist_rows` | rows follow their dates by the next night; jobs err only on rows renewed under their hands; batches are whole | two addresses, three days, two writes, one mishap |
| `auth_sessions` | no session survives a rotation, guesses are bounded, a logout holds, locks end | two threads, two clients, two passwords, one rotation, one failure of Redis, database or worker |
| `read_models` | feeds agree and fail loudly, figures agree, shares are shares, windows nest, pages partition, insertions cost a list no more than the rows between a count and its page, a registration's group names the worst and a name has its address | three databases of up to four rows, two writes, an outage, twelve lists in pages of two, two registrations |
| `settings` | the cache is recent, batches are accounted for, passwords are kept, readers and endpoints agree, tests name their failure | two threads, three settings, three batches (one with an incomplete item, one with a malformed one), five contents of the credential table, three requests or calls |
| `regtech_session` | runs are whole, logins and requests are limited, rejected sessions are dropped, blocked means blocked, the archive stays near its cap | two runs, two rows and a private one in pages of two, one misbehaviour (a page without a table, an answer in JSON, a failed request, a dropped session, a new row, a refused password or a login without an answer, a failed export), four failed logins |
| `monitoring` | figures add up, ledgers agree, reports give the newest and the most frequent, trends partition their window | two threads, two endpoints, three requests, rings of two |

Why these bounds reach the interesting cases:

- `collector_scheduler`: `BackfillDays = 3` with `WindowDays = 2` gives two full
  windows, and a run resumed on a later day a shorter one; the day without rows
  makes a window partly empty. Three days of service let a run resume on a later
  day and with its checkpoint below its oldest day. One backfill, one request
  and one daily run are all the kinds of run; the second HTTP thread makes the
  slot contended by three. Two mishaps allow a failure within the recovery from
  another. Blank credentials pass the checks that missing ones fail earlier.
- `cloudflare_push`: one address has two rows, so the rows that the guard counts
  are as many as the addresses, or one more. With a baseline of one and 50 % it
  lets a list of two be replaced by one, two or three rows, and one of the three
  pairs of rows leaves one address; it refuses two rows for a list of one; and
  below the baseline, for an empty list, everything passes.
  `RateLimit = Backoff = 2` lets both timers be unstarted, running and due. Two
  changes put one inside a push and one after it.
- `ip_decisions`: a key that lives two ticks and a check of at most one make
  `Horizon` four, and a key can be stored by one check, met by a second and be
  gone for a third. Two changes let an answer be overtaken and the table be
  changed back.
- `blacklist_rows`: removal on the day before, the day itself and the day after
  a job all occur within three days; one address has rows of earlier days, the
  other shows what a batch does to its neighbours.
- `auth_sessions`: a limit of two failures and two threads let one guess pass
  the lock; one rotation meets logins, upgrades and tokens in flight.
- `read_models`: the tables hold NULLs, the literal `UNKNOWN`, confidences on
  both sides of 50 and 80, and rows on both sides of 7 and 30 days; a walk has
  up to three pages, so a row can move past a page already read, and two writes
  let one fall between the statements of a page and one outside. Lists of two
  and three rows, two registrations and calls that are refused, answered 424 or
  not at all put refused addresses before and after stored ones.
- `settings`: a time to live of two and two ticks let an entry expire under a
  reader between its looks at the clock and at the entry. The batches hold a
  sensitive key, an incomplete item, and a malformed one that may come before or
  after another key; a key may have no row; a first start, a plain pair of an
  older release and a sealed row are the tables a release meets.
- `regtech_session`: the token expires before the cached login
  (`JwtSpan < AuthTtl`, as 3300 s and 3600 s); a page has two attempts and two
  signals mean blocked (three of each in the code); the forced run reads one
  page, the default of its endpoint, the daily run all.
- `monitoring`: rings, limits and tops of one or two overflow with three events.

Every property of a passing run is sensitive to the code: `PROJECT.json` lists
for each at least one small change of the code's model (a forgotten slot, a missing
re-check, an off-by-one, an unset expiry) that TLC finds to break it.

## Fairness

`CollectorScheduler`: weak fairness of the initial job, of the admission, of each
thread's collection, of the daily job, of the retry delay and of the restart.
The code justifies it: one loop runs every due job, HTTP threads are never
suspended, `time.monotonic` passes, and docker-compose restarts the container.
Nothing obliges the operator, the portal or the calendar: `BackfillIsDecided`
is conditional on credentials that stay enabled. The mishaps are
finite; a portal that refuses for ever decides nothing.

`CloudflarePush`: weak fairness of the service's thread, of time, and of the
end of an accepted operation (Cloudflare documents that it completes or fails;
the service's own limit of 120 s is the mishap `timeout`). The blacklist need
not change. `select` with a timeout makes `WakeOnTimeout` a step of the thread.

`AuthSessions`: weak fairness of time alone, for `LocksEnd`; no client must
act. The other modules state safety only; no fairness is assumed.

## What is proved

For every value of the constants that satisfies the named assumptions of the
modules, and for every number of mishaps, changes, writes and requests (the bounds
appear as arbitrary naturals or not at all). The assumptions are of four kinds.
Spans, limits and bounds are naturals and not zero where the code divides or
waits for them (`SpanAssumption`, `TimerAssumption`, `TtlAssumption`,
`LimitAssumption`, `LimiterAssumption`, `SizeAssumption`, ...); threads are
finitely many where a bound counts them (`HttpAssumption`, `ThreadAssumption`);
`None` is none of the values it is told apart from (`NoneAssumption`,
`KindAssumption`, `TodayAssumption`, `JobsAssumption`, and `Nil` in
`MonitoringAssumption`); and the tables a
behaviour starts from are tables that the schema admits, keys unique and checks
satisfied (`TableAssumption`, `TablesAssumption`, `RowsAssumption`,
`CredentialsAssumption`). `RetentionAssumption` says that runs are kept at least
as long as the history looks back, and `MonitoringAssumption` that an exception
belongs to one class. TLC evaluates all of them on the instances of the runs.

**CollectorScheduler_proofs**: `TypeCorrect`, `ForcedRunsExclude`
(SingleForcedRun), `CheckpointSound` (NoWindowSkipped), `DecisionsAreFinal`
(NoBackfillAfterDecision) and `Refinement` (LedgerSpec). None of the properties
is inductive. The invariant `IInv` adds to them
  - `ThreadInv`, which place goes with which kind of run and which thread:
    without it a daily run could be at the backfill's checkpoint;
  - `BackfillInv`, that a backfill past "mark" runs with the row in
    progress and its `end` at the checkpoint, so that the window it saves
    begins where the checkpoint ends, and that at "checkpoint" this window is
    stored or lost. Only the backfill writes the row, and only the scheduler
    thread runs one;
  - `TypeOK`, for the arithmetic, and the properties themselves.

The refinement then needs one case per action: `SaveCheckpoint` is `Recede`,
whose span `n` is the length of the window, `MarkInProgress` is `Open` or a
stutter, every action that adds rows is `Account`, and the rest stutters.

**CloudflarePush_proofs**: `TypeCorrect`, `SettledSound` (SettledIsInSync),
`PushesSpaced` (PushesAreSpaced, which speaks of one process: `sincePush` starts
anew with it) and `SwingsGuarded` (GuardedSwings). `IInv` says that a
change unknown to the data in hand has a notification on its way: `FetchInv`
that fetched data is the current set unless one is unread, `OperationInv` that
an operation being polled carries the data fetched, `QuietInv` that without
pending work or refusal no operation is left that could replace the list, and
the list is current or a notification is on its way, `ListenInv` that a
running service listens, `CountsOK` that numbers of notifications are
naturals. `SpacingInv` is the timers' part for `PushesSpaced`. `SwingInv` is the
size's part for `SwingsGuarded`: while no operation was given up, the size that
the guard compared with is the size of the list until the push, and a running
operation is the one that the service polls and whose rows the guard accepted.
Its addresses are no more than its rows, which bounds the growth; how many fewer
they are is the term by which the list may shrink further.

**IpDecisions_proofs**: `TypeCorrect`, `UndisturbedKeysExact`,
`DecisionsRecent` and `WhitelistOutlives`. The heart is `KeysInv`: the time since
the fact a key states last held, plus the time the key still lives, is at
most `Lifetime`. `SeenInv` says that what a check has read held within the
check's age, `PassedInv` why a check that went on to the blacklist did so,
`AgoInv` ties the history to the tables. `CheckTicks`, an upper bound of a
check's duration, is an assumption about the deployment: the code bounds
the connection attempts a check may wait for, not the check as a whole.

**BlacklistRows_proofs**: `TypeCorrect`, `FlagsFollowDates`
(RowsFollowTheirDates), `JobsErrRarely` (JobsErrOnlyWhenRenewed) and
`WholeBatches` (BatchesAreWhole). `TypeInv` contains the constraint on the dates
of a row and that no id is given twice. That makes `HeldInv` inductive: a job
that still holds the id of a row holds it with a removal day in the past, unless
the row was renewed since the job read it. A row that was deleted and entered
again has another id, so the job does not meet it.

**AuthSessions_proofs**: `TypeCorrect`, `OnlyTodaysPassword`
(SessionsKnowThePassword), `FewGuesses` (GuessesAreBounded) and `NotAdmittedAgain`
(LoggedOutStaysOut). `PlaceInv` in the type says which request and which reading
go with a place. `KnownInv` follows a password from its verification to the token:
whoever has read a hash with a version knows the password of that version, or the
version is no longer the current one. `GuessInv` counts the logins in flight with
the failures recorded, `LogoutInv` says that a revocation outlives its token and
that a request which began after the logout has not passed the look at it.

**RegtechSession_proofs** (with `RateLimiters`): `SparesThePortal`
(PortalIsSpared), `DropsRejectedSessions` (RejectedSessionsAreDropped),
`TellsTheTruth` (VerdictsAreRight) and `ArchiveIsCapped`
(ArchiveStaysNearItsCap).
  - Requests: `BucketInv`. For every request let through, the tokens spent since
    then and the ones still in the bucket are no more than a burst and what the
    highest rate has added since. `HolderInv` says that a thread in a sleep or a
    backoff holds the limiter's lock, so that nobody is let through.
  - Logins: `LockInv`. From the failure that reaches the limit on, a failure younger
    than a lockout has locked, so that only logins already under way still fail.
  - Runs: `RunsInv` ties the block signals a run has counted to those it has met,
    except when another run wrote the shared kind of failure, and says that a
    rejected session is not in the jar of its run. `WholeInv` says which rows a run
    that reads every page afresh has seen: all those listed from its start on that
    stand before its page. `ListedInv` types the portal's list.
  - `ArchiveInv`: the archive and one answer for each run that has found room are
    within the cap and one answer per other thread.

**SourceCredentials_proofs** (with `Settings`): `SettingsAreAccountedFor`
(BatchesAreAccountedFor), `SettingsAreRecent` (CachedSettingsAreRecent),
`KeepsPasswords` (PasswordsAreKept), `ReadersReadThePair` (ReadersAgree) and
`EndpointsAreRight` (EndpointsTellTheTruth). `Requests` says of every request that
the keys done, failed, at hand and to come are the keys asked for, each in one
place, a malformed item left over only under an answer that names nothing.
`CacheInv` says that an entry of the cache is what the table holds unless its
reader lagged behind a commit or its writer has yet to reach the cache, that the
one time stamp is no younger than an entry unless the entry is in `aged`, that while the
clock stands, or a thread is about to start or stop it, entries are of this very
tick or in `aged`, and that nothing sensitive is cached. A reader that has
found the cache valid then knows the age of what it will look up.
`CredInv` says of every row that it is stored the way it says and holds the last
password unless it was overtaken (`Sound`), and of every writer under way that,
while nobody has written its row since it read it, what it is about to store is
what the row holds (`Due`, `AsRead`). `VerdictInv` says which marks a connection
test has at which place.

**FortigateRegistration_proofs** (with `ReadModels`): `FirewallsHearTheSame`
(FirewallsAreTold), `RegistrationsKeepTheWorst` (FirewallHoldsTheWorst),
`ListsReadToTheEnd` (ListsAreComplete) and `FiguresFitTogether` (FiguresHold).
`TablesInv` are the schema's keys: finite tables, unique ids no larger than the
last one given, one row for each address and source. `RegistrationInv` says that
the list a registration read is ordered by confidence, that the addresses
registered and refused add up to those posted, that the stored places are among
the posted ones, no more than those not refused, and have their addresses on the
device, that the group is the beginning of its last writer's list, and that
before the first write a list is the feed. Stored places beyond the group are
counted against the refused ones: both counts are of the posted places.
`ListsAreComplete` speaks of the end of a walk only; `WalkInv` says what holds
on the way. A row's `Rank` is one more than the number of rows sorted before it:
by `RankIsPlace` it is the row's place in every order of a list without ties,
whichever one the database chose for a page. `Shown`: what was there at the
start still is, and of it every row of rank up to the pages read times their
size has been seen. Inserted rows only raise ranks (`RankGrows`), so an
insertion cannot make a row overdue that was not; that is where "activeIps" is
exempt, as a row of the whitelist takes rows out of it. A total counted before
the rows were read may be smaller than the list, by at most one row for each
insertion since (`Tallied`, `OneMore`): a client that stops there has not seen
the rows of rank beyond it, and those of the start among them are at most `torn`
(`RowsBehind`). `Quiet`: without writes the pages are those of the first answer
and what was seen is as long as the pages read, so that nothing is seen twice.
That the twelve lists are finite, linearly ordered by their keys and made of
rows with an identity (`ListOk`) follows from `TablesInv`. `FiguresHold` is
about sums over sets of rows. `BeforeInv` types the tables as they were before
the last write and says which runs a write may have removed, since an answer of
several statements may read tables of before and of after it.

Sums need an argument of their own, as the provers cannot use the library's
induction over finite sets. It is replaced by a smallest subset
(`SmallestSubset`): were a claim about the subsets of a finite set false for one, it
would be false for a smallest one, and taking one element from that refutes it. So
the recursive equation of a sum has one solution (`FoldExists`, `FoldsAgree`), and a
sum is that of its parts (`SumOfUnion`, `SumOfGroups`).

**FortigateRegistration_proofs** (with `Monitoring`): `ErrorsCountedOnce`
(LedgersHold) and `ReportsGiveWhatIsAsked` (ReportsHold). They are in this module
because they need the same lemmas about sums.
  - Ledgers: `LedgersInv`. A thread between the two halves of `record_error` holds
    the lock (`WorkInv`), and exactly then the sum by type is one ahead of the others
    (`ErrorsInv`, `HalfDone`). For each status, what the ledgers know is what was
    answered and what is known and about to be answered (`AnswersInv`,
    `Answering`). `CacheInv` ties hits and misses by prefix to their totals.
  - Reports: `RingsInv` types the rings. A matching event stands in a report at
    its rank among the matching positions (`RanksAre`, `InOrderIs`, `NewestIs`). Each
    moment of a window falls into one bucket (`MultiplesAre`, `BucketIs`,
    `BucketsCountOnce`), the last of which may reach beyond now. `TopIs` holds for
    every order in which ties may be sorted.

Proofs failed for a reason and corrected the models. A version is remembered
for each source (`seen`): with one for a whole call, the seed, which reads both
rows first, was taken to have overwritten a row that it had read after its last
change. The guard of the update of an absent row was dead code of the model and
is gone. The buckets of the cache's trends were taken to show every operation, as
those of the errors do; they show hits and misses, and only the total counts the
rest. The reports of the top were sorted by an operator that has no defined answer
for ties, and are now the set of all answers that the sort may give.

Only model-checked is liveness, which is out of the prover's reach:
`SlotIsReleased`, `BackfillIsDecided`, `ListSettles` and `LocksEnd`. Every other
property of every passing run is a theorem.

## Disagreements with the documentation

Each has a run in which TLC finds the counterexample, and an entry under
"findings" with the lines.

1. `save_is_lost`: a rolled-back save is logged and not raised, so the backfill
   checkpoints past rows that are not in the table, while the docstring
   promises not to lose finished windows. A session that is lost in the middle
   of a run has the same effect through an empty list.
2. `daily_login`: after a restart the daily run finds enabled credentials and
   collects nothing, because only forced runs log in.
3. `stranded_notification`: a notification read with a query's answer waits for
   the next one.

Five more have no run of their own; the properties named here except exactly
these cases:

- The change guard promises to "block a bulk replace that would swing the list
  size beyond MAX_CHANGE_RATIO" (`cloudflare_push_service.py:226`), and counts the
  rows of a query without DISTINCT. An address that two sources report counts
  twice, so a list may shrink further than the ratio (`GuardedSwings`).
- A group gets the first `registered_count` rows of the list, whichever were
  refused (`management.py:224`). When the first address is refused and the second
  stored, the group names the first: the stored address is not blocked, and the
  request, which is to "register/push active blacklist IPs", answers a success
  (`NamesHaveAddresses`).
- A config update that succeeds in part is to be answered by an "error with
  details" (`collection/config.py:67`), but `InternalServerError` takes none: the
  call raises TypeError, and the caller gets a plain 500
  (`BatchesAreAccountedFor`).
- A backfill resumed on a later day starts at its checkpoint
  (`manual.py:85`) and never covers the days between its first and its last
  run, although it promises "the last 90 days".
- A check stores an answer that a commit has overtaken after the keys were
  deleted (`blacklist_service.py:188`); it stays for 300 s without any failure
  (`UndisturbedKeysAreExact`).

## Observations

What the models showed, or had to except, without contradicting a promise.

Collection: the 60 s page memory mixes snapshots, and a run that uses it may
lose rows (`page_collection.py:43`; `RunsAreWhole` excepts it). The kind of the
last failure is a field of the shared collector, and a run may read another's
(`BlockedMeansBlocked`). A page of only private addresses counts as a block
signal, but a JSON list without a usable row is taken for the end
of the pages (`page_collection.py:190-206`; `RunsAreWhole` excepts it). After a
login lock has run out one failure locks again. The archive may exceed its cap
by one answer per other thread.

Rows: the feeds list rows without a detection date first; lists sorted by
`created_at` alone lose rows among ties; manual rows get `data_source`
"REGTECH".

Figures: `percentage_active` is computed from two statements and may exceed 100
under a concurrent insert (`SharesAreShares` is about the other shares);
`by_country` undercounts when NULL and the literal `UNKNOWN` coexist;
`source_statistics` of the timeline are of another column than their name;
`GET /json` answers an outage as an empty list.

Lists: those that count before they read lose, for a client that stops at the
announced page, the rows pushed beyond it by an insertion between the two
statements (`InsertionsLoseLittle`).

Registration: 424 counts as a registered address though nothing was stored, so
the group may name an address that is not on the device. An answer other than
404 to the look at the group, a refused login too, is taken for "it exists". A
refused PUT is only logged.

Settings and credentials: a clock that is started after a store, or stopped
while a reader stores, leaves an entry that is served beyond its time to live
(`aged`); a reader whose entry or clock disappears between two steps answers
the default, as if the setting did not exist. A batch with a malformed item
answers 500 and names none of the settings it has changed. A soft-deleted
setting can be updated, not read, and not created again. The collector ignores
`is_active`. An update without a password can restore an older one, and leaves
an unreadable row if the row was sealed since it was read. A PUT that omits
`enabled` enables the source. The panel's save and test report success
whatever happened; `set_regtech_credentials` reports a failed connection
whatever happened; the list says that the blank row of the schema is
configured. `credential_service.save` writes a table that `get` does not read,
and the migration script calls `save_credentials` with keywords it does not have.

Monitoring: `limit=0` of the cache report returns everything, a negative one
drops the oldest; requests refused by an early hook are missing among the
requests; unknown addresses are counted only by the metrics handler, so
`blacklist_errors_total` counts 404 alone; configuration and database errors are
answered 500 although their classes say otherwise; `by_endpoint` of the cache is
always empty; in its trends `total_in_window` also counts the sets and deletes,
which no bucket shows. `CacheManager` and `@cached` have no caller; a cached None would
come back as the text "None".

Calls that always fail: `reset_database` and several administrators' handlers
call methods that `DatabaseService` does not have; `expand_collection_scope`
raises a TypeError.

## Limits

What the properties deliberately say less than one might wish:

- `PushesAreSpaced` is about one process. A new one relies on the age of the
  list, which does not show an operation that is still running.
- `GuardedSwings` excepts behaviours in which the service gave up an operation:
  it may replace the list after its size was read. And it lets a list shrink
  beyond the ratio by the rows that repeat an address.
- `ListSettles` excepts an empty blacklist, which the service treats like a
  failed query and never pushes, data the guard refused, and finding 3.
- `WhitelistOutlivesFailures` excepts a check whose own lookup failed: the code
  takes that for "not whitelisted".
- `NoWindowSkipped` counts days whose loss the code swallows (finding 1).
- `RowsFollowTheirDates` excepts rows that a request, a batch or a job of the
  app has changed since the last nightly job.
- `InsertionsLoseLittle` lets a list that counts first lose as many rows as were
  inserted between the statements of its last page; `PagesPartition` and it are about
  lists in which no two rows tie.
- `GroupNamesTheWorst` is about names; `NamesHaveAddresses` says which of them
  have an address, and excepts refused ones and 424.
- `CachedSettingsAreRecent` excepts entries in `aged`: a tick passed while the
  clock of the cache stood or a thread was about to start or stop it.
- `BatchesAreAccountedFor` excepts the two answers that name nothing.
- `RunsAreWhole` promises nothing once a JSON answer without a usable row ended a
  run, or a page came from memory.
- `LoggedOutStaysOut` is about requests that begin after the logout.
- `PasswordsAreKept` excepts writers that read the row before the last change.

Not modelled inside the modelled parts: wording and formats, sizes and
latencies, a commit whose answer is lost, urllib3's own retries inside one PUT
to Cloudflare (`cloudflare_push_service.py:131-138`; `Put` loses answers, but
asks once), the adaptive interval that nothing calls, Cloudflare credentials that
change while the service runs, retries of a database connection, the ladder of
date strategies (every caller gives both dates), and the ten-million-row bound.

Not modelled at all, with the reason (the full list is under "components"):

- code that nothing in the containers imports or registers: the other
  collectors, the policy monitor, the data quality manager, the enhanced
  collection API, the app's own collection and its copy from the collector;
- the connection pool: it is the library's and larger than the four worker
  threads, and the re-initialisation after a failure is reached by tests only;
- the request limits, which the library counts;
- the frontend, the schema's SQL and the scripts of installation and release,
  which are sequential and run under a person's eyes.

## Plan

Done: 1 to 10.

1. `CollectorScheduler` and `BackfillLedger`, with proofs and refinement.
2. `CloudflarePush`, with the proofs of all its safety properties.
3. `IpDecisions`, with the proofs of all its properties.
4. `BlacklistRows`, with proofs: the dates behind the changes of 2 and 3.
5. `AuthSessions`, with proofs.
6. `ReadModels` and `FortigateRegistration`, with the proofs of all their properties.
7. `Settings` and `SourceCredentials`, with proofs.
8. `RateLimiters` and `RegtechSession`, the inside of the collection of 1, with
   proofs.
9. `Monitoring`, with proofs.
10. Proofs of every safety property of the runs, the sums of `FiguresHold` and the
    reports of `ReportsHold` last.
